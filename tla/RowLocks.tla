------------------------------- MODULE RowLocks -------------------------------
(***************************************************************************)
(* PostgreSQL's row locks, as the transactions of internal/store use them:  *)
(* a statement that must lock rows waits for whoever holds one of them, the *)
(* locks go when the transaction ends, and a cycle of waits is found.  The  *)
(* key of a row being inserted is locked like the row.                      *)
(***************************************************************************)
CONSTANTS
  Procs,   \* the requests in flight at once, one transaction each
  NoProc   \* the owner of a free row

ASSUME ProcAssumption == NoProc \notin Procs

VARIABLE owner  \* who holds each row, a function on the rows of the component

Free(r) == owner[r] = NoProc

Held(p) == {r \in DOMAIN owner : owner[r] = p}

\* The processes a statement of p that must lock the rows of S waits for.
Blockers(p, S) == {owner[r] : r \in S} \ {NoProc, p}

Granted(p, S) == [r \in DOMAIN owner |-> IF r \in S THEN p ELSE owner[r]]

Released(p) == [r \in DOMAIN owner |-> IF owner[r] = p THEN NoProc ELSE owner[r]]

\* Everyone in S waits for someone in S and is waited for by someone in S.
WaitCycle(S, waits) ==
  /\ \A q \in S : waits[q] \cap S # {}
  /\ \A q \in S : \E r \in S : q \in waits[r]

InWaitCycle(p, waits) == \E S \in SUBSET Procs : p \in S /\ WaitCycle(S, waits)

=============================================================================
