------------------------------- MODULE Throttle -------------------------------
(***************************************************************************)
(* The cooldown of sign-ins (auth/throttle.go over login_attempts): one row *)
(* per address, for staff and guests alike.  A failure reads the count,     *)
(* works out the lock and then upserts count + 1 with that lock: two         *)
(* statements, with other failures and successes in between.               *)
(***************************************************************************)
EXTENDS Naturals

CONSTANTS
  Attempts,     \* sign-ins under way at once
  Addressees,   \* the addresses they try
  LockAt,       \* the failure that first locks (5 in the code)
  MaxFailures,  \* bound on the count
  Longest       \* the longest lock: 3 stands for 15 minutes, 2 for 5, 1 for 1, 0 for none

ASSUME ThrottleAssumption ==
  LockAt \in Nat \ {0} /\ MaxFailures \in Nat /\ Longest \in Nat \ {0}

VARIABLES
  row,       \* login_attempts: the count (0: no row), the lock last set, whether it still runs
  attempt,   \* a sign-in: whose, what it does next, the count it read
  crossed    \* addresses with a failure that another failure or a success crossed

throttleVars == <<row, attempt, crossed>>

\* Whom a sign-in is of: no address when there is none.
NoAddress == ""
Someone == Addressees \cup {NoAddress}

NoRow == [count |-> 0, lock |-> 0, running |-> FALSE]
NoAttempt == [at |-> "none", address |-> NoAddress, read |-> 0]

lockoutDuration(n) ==
  IF n < LockAt THEN 0 ELSE IF n < LockAt + Longest THEN n - LockAt + 1 ELSE Longest

\* Mutant of nextCount: the lock is worked out for the count that was read.
readCount(n) == n

nextCount(n) == n + 1

Failing(a) == {p \in Attempts : attempt[p].at = "record" /\ attempt[p].address = a}

\* Check: not under a lock that still runs.
CheckThrottle(p, a) ==
  /\ attempt[p] = NoAttempt /\ ~row[a].running
  /\ attempt' = [attempt EXCEPT ![p] = [at |-> "compare", address |-> a, read |-> 0]]
  /\ UNCHANGED <<row, crossed>>

\* The password is wrong: RecordFailure reads the row.
ReadCount(p) ==
  LET a == attempt[p].address IN
  /\ attempt[p].at = "compare"
  /\ attempt' = [attempt EXCEPT ![p].at = "record", ![p].read = row[a].count]
  /\ crossed' = IF Failing(a) = {} THEN crossed ELSE crossed \cup {a}
  /\ UNCHANGED row

RecordFailedLogin(p) ==
  LET a == attempt[p].address
      lock == lockoutDuration(nextCount(attempt[p].read))
  IN
  /\ attempt[p].at = "record" /\ row[a].count < MaxFailures
  /\ row' = [row EXCEPT ![a] = [count |-> @.count + 1, lock |-> lock, running |-> lock > 0]]
  /\ attempt' = [attempt EXCEPT ![p] = NoAttempt]
  /\ UNCHANGED crossed

ClearLoginAttempts(a) ==
  /\ row' = [row EXCEPT ![a] = NoRow]
  /\ crossed' = IF Failing(a) = {} THEN crossed \ {a} ELSE crossed \cup {a}

\* The password is right: Clear, after the session is there.
SignIn(p) ==
  /\ attempt[p].at = "compare"
  /\ ClearLoginAttempts(attempt[p].address)
  /\ attempt' = [attempt EXCEPT ![p] = NoAttempt]

\* A password reset clears the row of its account, whatever sign-ins are under way.
ResetClears(a) == ClearLoginAttempts(a) /\ UNCHANGED attempt

\* Not verified, an error, or a client that left.
LeaveAttempt(p) ==
  /\ attempt[p] # NoAttempt
  /\ attempt' = [attempt EXCEPT ![p] = NoAttempt]
  /\ UNCHANGED <<row, crossed>>

LockRunsOut(a) ==
  /\ row[a].running
  /\ row' = [row EXCEPT ![a].running = FALSE]
  /\ UNCHANGED <<attempt, crossed>>

ThrottleInit ==
  /\ row = [a \in Addressees |-> NoRow]
  /\ attempt = [p \in Attempts |-> NoAttempt]
  /\ crossed = {}

ThrottleNext ==
  \/ \E p \in Attempts :
       \/ \E a \in Addressees : CheckThrottle(p, a)
       \/ ReadCount(p) \/ RecordFailedLogin(p) \/ SignIn(p) \/ LeaveAttempt(p)
  \/ \E a \in Addressees : ResetClears(a) \/ LockRunsOut(a)

ThrottleSpec == ThrottleInit /\ [][ThrottleNext]_throttleVars

-----------------------------------------------------------------------------
ThrottleTypeOK ==
  /\ row \in [Addressees -> [count : 0..MaxFailures, lock : 0..Longest, running : BOOLEAN]]
  /\ attempt \in [Attempts -> [at : {"none", "compare", "record"},
                               address : Someone, read : 0..MaxFailures]]
  /\ crossed \subseteq Addressees

\* As long as no failure crosses another failure or a success, the lock is the schedule's
\* for the failures counted: none before LockAt, then a minute, five, fifteen.  (Failures
\* that cross lose it: a lock may be shortened or dropped by one that read an older count.)
LocksFollowSchedule ==
  \A a \in Addressees \ crossed : row[a].lock = lockoutDuration(row[a].count)

=============================================================================
