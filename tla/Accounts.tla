------------------------------- MODULE Accounts -------------------------------
(***************************************************************************)
(* Staff accounts (internal/auth, and the users, sessions, invitations and  *)
(* token tables of internal/store).  A flow is a row of statements with     *)
(* other requests in between: only creating an organization with its first *)
(* administrator is a transaction.                                         *)
(*                                                                         *)
(* A client is a browser, or a cookie of one: a browser that signs in again *)
(* while signed in is another client.  A password is known by how often the *)
(* account's was replaced, a link by the row its token names.               *)
(***************************************************************************)
EXTENDS Naturals, Sequences, FiniteSets

CONSTANTS
  AccountRows,   \* the account rows there is room for
  Clients,
  Links,         \* the token rows there is room for
  Addresses,
  MaxPasswords,  \* bound: how often a password is replaced
  MaxFlows,      \* bound: how many flows are begun
  Founders,      \* the accounts to begin with, each with a verified address of its own
  FounderAddress,
  None

Kinds == {"verify", "reset", "change", "invite"}

ASSUME AccountsAssumption ==
  /\ MaxPasswords \in Nat /\ MaxFlows \in Nat
  /\ Founders \subseteq AccountRows
  /\ AccountRows \cap Links = {}
  /\ FounderAddress \in [Founders -> Addresses]
  /\ \A u, v \in Founders : FounderAddress[u] = FounderAddress[v] => u = v
  /\ None \notin Kinds
  /\ None \notin AccountRows \cup Clients \cup Links \cup Addresses

VARIABLES
  account,   \* users: address (or None: no row), verified, password, whether org_admin
  link,      \* a token row: what for, whose (or who invites), the address it is about, where it was mailed
  session,   \* sessions, by the client that holds the cookie
  client,    \* a request: the statements it has left, and what it has read
  proven,    \* the <<account, address>> pairs someone who reads that address vouched for
  uses,      \* how often a link has taken effect
  torn,      \* accounts and links whose flow stopped between two of its statements
  flows      \* how many flows were begun

accountVars == <<account, link, session, client, proven, uses, torn, flows>>

NoAccount == [address |-> None, verified |-> FALSE, password |-> 0, admin |-> FALSE]
NoLink == [kind |-> None, user |-> None, address |-> None, to |-> None, state |-> "gone"]
NoSession == [user |-> None, password |-> 0, late |-> FALSE]
Idle == [steps |-> <<>>, kind |-> None, user |-> None, link |-> None, address |-> None, password |-> 0]

\* The statements a request has left, and what it carries from one to the next.
StatementNames == {"supersede", "issue", "mark verified", "rehash", "set address", "create account",
               "accept", "mint", "sign out all", "sign out others"}
Flows == [steps : Seq(StatementNames),
          kind : Kinds \cup {None}, user : AccountRows \cup {None}, link : Links \cup {None},
          address : Addresses \cup {None}, password : 0..MaxPasswords]

Holders(a) == {u \in AccountRows : account[u].address = a}
Taken(a) == Holders(a) # {}
Spare == {u \in AccountRows : account[u] = NoAccount}
SignedIn(c) == session[c] # NoSession
AsAdmin(c) == SignedIn(c) /\ account[session[c].user].admin
NextIs(c, statement) == client[c].steps # <<>> /\ Head(client[c].steps) = statement

\* A request that has done its first statements: what it has left.
Go(c, steps, kind, u, l, a) ==
  /\ client[c] = Idle
  /\ flows < MaxFlows /\ flows' = flows + 1
  /\ client' = [client EXCEPT ![c] =
       [steps |-> steps, kind |-> kind, user |-> u, link |-> l, address |-> a,
        password |-> IF u = None THEN 0 ELSE account[u].password]]

Done(r) == IF Len(r.steps) = 1 THEN Idle ELSE [r EXCEPT !.steps = Tail(@)]
GoOn(c) == client' = [client EXCEPT ![c] = Done(@)]

-----------------------------------------------------------------------------
(***************************************************************************)
(* Links are issued: the older ones deleted, a row inserted, a mail sent.   *)
(* They are two statements, and two requests may both delete first.         *)
(***************************************************************************)
Signup(c, a) ==
  /\ ~Taken(a)
  /\ \E u \in Spare :
       /\ \A v \in Spare : u <= v
       /\ account' = [account EXCEPT ![u] = [NoAccount EXCEPT !.address = a, !.admin = TRUE]]
       /\ Go(c, <<"issue">>, "verify", u, None, a)
  /\ UNCHANGED <<link, session, proven, uses, torn>>

ResendVerification(c, u) ==
  /\ u \notin Spare /\ ~account[u].verified
  /\ Go(c, <<"supersede", "issue">>, "verify", u, None, account[u].address)
  /\ UNCHANGED <<account, link, session, proven, uses, torn>>

ForgotPassword(c, u) ==
  /\ u \notin Spare
  /\ Go(c, <<"supersede", "issue">>, "reset", u, None, account[u].address)
  /\ UNCHANGED <<account, link, session, proven, uses, torn>>

RequestEmailChange(c, a) ==
  /\ SignedIn(c) /\ ~Taken(a)
  /\ Go(c, <<"supersede", "issue">>, "change", session[c].user, None, a)
  /\ UNCHANGED <<account, link, session, proven, uses, torn>>

Invite(c, a) ==
  /\ AsAdmin(c) /\ ~Taken(a)
  /\ Go(c, <<"issue">>, "invite", session[c].user, None, a)
  /\ UNCHANGED <<account, link, session, proven, uses, torn>>

Unconsumed(l) == link[l].state \in {"live", "expired"}

\* DeleteUnconsumed...ForUser, also all there is to cancelling a change of address.
DeleteUnconsumed(u, kind) ==
  LET gone == {l \in Links : link[l].user = u /\ link[l].kind = kind /\ Unconsumed(l)} IN
  /\ link' = [l \in Links |-> IF l \in gone THEN NoLink ELSE link[l]]
  /\ uses' = [l \in Links |-> IF l \in gone THEN 0 ELSE uses[l]]

Supersede(c) ==
  /\ NextIs(c, "supersede")
  /\ DeleteUnconsumed(client[c].user, client[c].kind)
  /\ GoOn(c)
  /\ UNCHANGED <<account, session, proven, torn, flows>>

CancelEmailChange(c) ==
  /\ client[c] = Idle /\ SignedIn(c)
  /\ DeleteUnconsumed(session[c].user, "change")
  /\ UNCHANGED <<account, session, client, proven, torn, flows>>

\* Unique indexes: an address is asked for once among changes, ever; an account has one
\* change open, an address one invitation from an organization, whose administrator is one account.
NotRequestedYet(u, a) ==
  \A l \in Links : link[l].kind = "change" =>
    /\ link[l].address # a
    /\ Unconsumed(l) => link[l].user # u

NotInvitedYet(u, a) ==
  \A l \in Links : link[l].kind = "invite" /\ link[l].user = u /\ Unconsumed(l) => link[l].address # a

\* Mutant of Recipient: the mail about a new address goes to the one the account has.
CurrentRecipient(r) == IF r.kind = "change" THEN account[r.user].address ELSE r.address

Recipient(r) == r.address

Issue(c) ==
  LET r == client[c] IN
  /\ NextIs(c, "issue")
  /\ r.kind = "change" => NotRequestedYet(r.user, r.address)
  /\ r.kind = "invite" => NotInvitedYet(r.user, r.address)
  /\ \E l \in Links :
       /\ link[l] = NoLink
       /\ \A k \in Links : link[k] = NoLink => l <= k
       /\ link' = [link EXCEPT ![l] = [kind |-> r.kind, user |-> r.user, address |-> r.address,
                                       to |-> Recipient(r), state |-> "live"]]
  /\ GoOn(c)
  /\ UNCHANGED <<account, session, proven, uses, torn, flows>>

Expire(l) ==
  /\ link[l].state = "live"
  /\ link' = [link EXCEPT ![l].state = "expired"]
  /\ UNCHANGED <<account, session, client, proven, uses, torn, flows>>

\* The invitations of the organization that are neither accepted nor revoked.
Pending(c, l) == AsAdmin(c) /\ link[l].kind = "invite" /\ link[l].user = session[c].user /\ Unconsumed(l)

\* An invitation runs anew, from now.
Rotate(c, l) ==
  /\ client[c] = Idle /\ Pending(c, l)
  /\ link' = [link EXCEPT ![l].state = "live"]
  /\ UNCHANGED <<account, session, client, proven, uses, torn, flows>>

Revoke(c, l) ==
  /\ client[c] = Idle /\ Pending(c, l)
  /\ link' = [link EXCEPT ![l].state = "revoked"]
  /\ UNCHANGED <<account, session, client, proven, uses, torn, flows>>

-----------------------------------------------------------------------------
(***************************************************************************)
(* Links are followed: consumed in one statement, acted on in the next.     *)
(***************************************************************************)
\* Mutant of Consumable: consumed_at is not asked for.
ConsumableAgain(l) == link[l].state \in {"live", "used"}

Consumable(l) == link[l].state = "live"

\* Mutant of ResetPasswordSteps: signed out first, so that nobody is left in.
SignOutFirst == <<"sign out all", "rehash", "mint">>

ResetPasswordSteps == <<"rehash", "sign out all", "mint">>

Follow(c, l, kind, steps) ==
  /\ link[l].kind = kind /\ Consumable(l)
  /\ Go(c, steps, kind, link[l].user, l, link[l].address)
  /\ link' = [link EXCEPT ![l].state = "used"]

Vouch(u, l) == proven' = proven \cup {<<u, link[l].to>>}

VerifyEmail(c, l) ==
  /\ Follow(c, l, "verify", <<"mark verified">>)
  /\ Vouch(link[l].user, l)
  /\ UNCHANGED <<account, session, uses, torn>>

ResetPassword(c, l) ==
  /\ ~SignedIn(c)
  /\ Follow(c, l, "reset", ResetPasswordSteps)
  /\ UNCHANGED <<account, session, proven, uses, torn>>

\* Whoever is signed in, be it as somebody else.
ConfirmEmailChange(c, l) ==
  /\ SignedIn(c)
  /\ Follow(c, l, "change", <<"set address", "sign out others">>)
  /\ Vouch(link[l].user, l)
  /\ UNCHANGED <<account, session, uses, torn>>

\* An invitation is read now and marked later.
AcceptInvitation(c, l) ==
  /\ ~SignedIn(c)
  /\ link[l].kind = "invite" /\ Consumable(l)
  /\ Go(c, <<"create account", "accept", "mint">>, "invite", None, l, link[l].address)
  /\ UNCHANGED <<account, link, session, proven, uses, torn>>

TakesEffect(l) == uses' = IF l = None THEN uses ELSE [uses EXCEPT ![l] = @ + 1]

MarkEmailVerified(c) ==
  /\ NextIs(c, "mark verified")
  /\ account' = [account EXCEPT ![client[c].user].verified = TRUE]
  /\ TakesEffect(client[c].link)
  /\ GoOn(c)
  /\ UNCHANGED <<link, session, proven, torn, flows>>

UpdatePasswordHash(c) ==
  LET u == client[c].user IN
  /\ NextIs(c, "rehash")
  /\ u \in AccountRows /\ account[u].password < MaxPasswords
  /\ account' = [account EXCEPT ![u].password = @ + 1]
  /\ TakesEffect(client[c].link)
  /\ client' = [client EXCEPT ![c] = [Done(@) EXCEPT !.password = account[u].password + 1]]
  /\ UNCHANGED <<link, session, proven, torn, flows>>

UpdateUserEmail(c) ==
  LET r == client[c] IN
  /\ NextIs(c, "set address")
  /\ Holders(r.address) \subseteq {r.user}
  /\ account' = [account EXCEPT ![r.user].address = r.address, ![r.user].verified = TRUE]
  /\ TakesEffect(r.link)
  /\ GoOn(c)
  /\ UNCHANGED <<link, session, proven, torn, flows>>

CreateInvitedUser(c) ==
  LET r == client[c] IN
  /\ NextIs(c, "create account")
  /\ ~Taken(r.address)
  /\ \E u \in Spare :
       /\ \A v \in Spare : u <= v
       /\ account' = [account EXCEPT ![u] =
                        [address |-> r.address, verified |-> TRUE, password |-> 0, admin |-> FALSE]]
       /\ Vouch(u, r.link)
       /\ client' = [client EXCEPT ![c] = [Done(@) EXCEPT !.user = u]]
  /\ TakesEffect(r.link)
  /\ UNCHANGED <<link, session, torn, flows>>

MarkAccepted(c) ==
  LET l == client[c].link IN
  /\ NextIs(c, "accept") /\ Unconsumed(l)
  /\ link' = [link EXCEPT ![l].state = "used"]
  /\ GoOn(c)
  /\ UNCHANGED <<account, session, proven, uses, torn, flows>>

-----------------------------------------------------------------------------
(***************************************************************************)
(* Sessions.                                                               *)
(***************************************************************************)
\* Verified, and the right password: the throttle is module Throttle's.
Login(c, u) ==
  /\ ~SignedIn(c) /\ u \notin Spare /\ account[u].verified
  /\ Go(c, <<"mint">>, None, u, None, None)
  /\ UNCHANGED <<account, link, session, proven, uses, torn>>

ChangePassword(c) ==
  /\ SignedIn(c)
  /\ Go(c, <<"rehash", "sign out others">>, None, session[c].user, None, None)
  /\ UNCHANGED <<account, link, session, proven, uses, torn>>

\* A session is late when the password it was opened with has been replaced meanwhile.
MintSession(c) ==
  LET r == client[c] IN
  /\ NextIs(c, "mint")
  /\ session' = [session EXCEPT ![c] =
                   [user |-> r.user, password |-> r.password,
                    late |-> r.password # account[r.user].password]]
  /\ GoOn(c)
  /\ UNCHANGED <<account, link, proven, uses, torn, flows>>

DeleteSessionsForUser(c) ==
  /\ NextIs(c, "sign out all")
  /\ session' = [d \in Clients |->
                   IF session[d].user = client[c].user THEN NoSession ELSE session[d]]
  /\ torn' = torn \ {client[c].user}
  /\ GoOn(c)
  /\ UNCHANGED <<account, link, proven, uses, flows>>

\* The session kept after a change of password counts as opened with the new one.
Keep(c) ==
  IF SignedIn(c) /\ client[c].kind = None
  THEN [session[c] EXCEPT !.password = client[c].password, !.late = FALSE] ELSE session[c]

DeleteSessionsForUserExcept(c) ==
  /\ NextIs(c, "sign out others")
  /\ session' = [d \in Clients |-> IF d = c THEN Keep(c)
                   ELSE IF session[d].user = client[c].user THEN NoSession ELSE session[d]]
  /\ GoOn(c)
  /\ UNCHANGED <<account, link, proven, uses, torn, flows>>

Logout(c) ==
  /\ client[c] = Idle /\ SignedIn(c)
  /\ session' = [session EXCEPT ![c] = NoSession]
  /\ UNCHANGED <<account, link, client, proven, uses, torn, flows>>

\* A statement fails or finds nothing, the client leaves, or the request times out.
LeaveFlow(c) ==
  /\ client[c] # Idle
  /\ torn' = torn \cup
       (IF NextIs(c, "sign out all") \/ NextIs(c, "sign out others") THEN {client[c].user} ELSE {})
       \cup (IF NextIs(c, "accept") THEN {client[c].link} ELSE {})
  /\ client' = [client EXCEPT ![c] = Idle]
  /\ UNCHANGED <<account, link, session, proven, uses, flows>>

-----------------------------------------------------------------------------
AccountsInit ==
  /\ account = [u \in AccountRows |->
       IF u \in Founders
       THEN [address |-> FounderAddress[u], verified |-> TRUE, password |-> 0, admin |-> TRUE] ELSE NoAccount]
  /\ link = [l \in Links |-> NoLink]
  /\ session = [c \in Clients |-> NoSession]
  /\ client = [c \in Clients |-> Idle]
  /\ proven = {<<u, FounderAddress[u]>> : u \in Founders}
  /\ uses = [l \in Links |-> 0]
  /\ torn = {}
  /\ flows = 0

ClientStep(c) ==
  \/ Supersede(c) \/ Issue(c)
  \/ MarkEmailVerified(c) \/ UpdatePasswordHash(c) \/ UpdateUserEmail(c)
  \/ CreateInvitedUser(c) \/ MarkAccepted(c)
  \/ MintSession(c) \/ DeleteSessionsForUser(c) \/ DeleteSessionsForUserExcept(c)
  \/ LeaveFlow(c)

AccountsNext ==
  \/ \E c \in Clients :
       \/ ClientStep(c)
       \/ ChangePassword(c) \/ Logout(c) \/ CancelEmailChange(c)
       \/ \E a \in Addresses : Signup(c, a) \/ RequestEmailChange(c, a) \/ Invite(c, a)
       \/ \E u \in AccountRows : ResendVerification(c, u) \/ ForgotPassword(c, u) \/ Login(c, u)
       \/ \E l \in Links :
            \/ VerifyEmail(c, l) \/ ResetPassword(c, l) \/ ConfirmEmailChange(c, l)
            \/ AcceptInvitation(c, l) \/ Rotate(c, l) \/ Revoke(c, l)
  \/ \E l \in Links : Expire(l)

AccountsSpec == AccountsInit /\ [][AccountsNext]_accountVars

-----------------------------------------------------------------------------
AccountsTypeOK ==
  /\ account \in [AccountRows -> [address : Addresses \cup {None}, verified : BOOLEAN,
                            password : 0..MaxPasswords, admin : BOOLEAN]]
  /\ link \in [Links -> [kind : Kinds \cup {None}, user : AccountRows \cup {None},
                         address : Addresses \cup {None}, to : Addresses \cup {None},
                         state : {"live", "expired", "used", "revoked", "gone"}]]
  /\ session \in [Clients -> [user : AccountRows \cup {None}, password : 0..MaxPasswords,
                              late : BOOLEAN]]
  /\ client \in [Clients -> Flows]
  /\ proven \subseteq AccountRows \X Addresses
  /\ torn \subseteq AccountRows \cup Links
  /\ flows \in 0..MaxFlows

\* Replacing a password, by reset or by choice, ends every session opened with an earlier
\* one, except where the flow broke off first, and except for a sign-in that was under way:
\* its password was checked before the change, its session is inserted after.
PasswordChangeSignsOut ==
  \A c \in Clients : SignedIn(c) =>
    LET u == session[c].user IN
    \/ session[c].password = account[u].password
    \/ session[c].late
    \/ u \in torn
    \/ \E d \in Clients : client[d].user = u /\ (NextIs(d, "sign out all") \/ NextIs(d, "sign out others"))

\* The address of a verified account was vouched for by a link mailed to that very address,
\* whatever verifications, changes and invitations cross each other.
VerifiedAddressesAreProven ==
  \A u \in AccountRows : account[u].verified => <<u, account[u].address>> \in proven

\* A link takes effect once.  An invitation whose acceptance stopped between creating the
\* account and marking the row stays open, and makes another once the address is free.
LinksWorkOnce ==
  \A l \in Links : \/ uses[l] <= 1
                   \/ l \in torn
                   \/ \E c \in Clients : client[c].link = l /\ NextIs(c, "accept")

=============================================================================
