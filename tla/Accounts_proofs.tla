---------------------------- MODULE Accounts_proofs ----------------------------
(***************************************************************************)
(* No account is verified for an address its owner was not reached at, a    *)
(* replaced password leaves no session behind, and a link works once, for   *)
(* any number of accounts, links and requests that cross each other.        *)
(* The cooldown of sign-ins, at the end, keeps to its schedule.             *)
(***************************************************************************)
EXTENDS Accounts, Throttle, FiniteSetTheorems, TLAPS

Has(r, s) == \E i \in DOMAIN r.steps : r.steps[i] = s

States == {"live", "expired", "used", "revoked", "gone"}
LinkRows == [kind : Kinds \cup {None}, user : AccountRows \cup {None},
             address : Addresses \cup {None}, to : Addresses \cup {None}, state : States]
SessionRows == [user : AccountRows \cup {None}, password : 0..MaxPasswords, late : BOOLEAN]

RowsShape ==
  /\ account \in [AccountRows -> [address : Addresses \cup {None}, verified : BOOLEAN,
                                  password : 0..MaxPasswords, admin : BOOLEAN]]
  /\ link \in [Links -> LinkRows]
  /\ session \in [Clients -> SessionRows]
Shape == RowsShape /\ client \in [Clients -> Flows]

\* Whoever stands for an account is not verified for another address than the one it asked for.
Current(u, a, accounts) == accounts[u].address = a \/ accounts[u].verified

\* A link was mailed to the address it is about, for an account that is there.
LinkGood(k, accounts) ==
  /\ k.to = k.address
  /\ k.user # None => accounts[k.user] # NoAccount
  /\ k.kind = "verify" => k.user # None /\ Current(k.user, k.address, accounts)

\* What a request is about to write has been vouched for.
FlowGood(r, accounts, links, vouched) ==
  /\ r.user # None => accounts[r.user] # NoAccount
  /\ r.kind = "verify" => r.user # None /\ Current(r.user, r.address, accounts)
  /\ Has(r, "mark verified") => r.user # None /\ <<r.user, accounts[r.user].address>> \in vouched
  /\ Has(r, "set address") => <<r.user, r.address>> \in vouched
  /\ Has(r, "create account") =>
       r.link \in Links /\ links[r.link].kind = "invite" /\ links[r.link].address = r.address
  /\ Has(r, "supersede") => r.kind # "invite"

AccountsInv ==
  /\ Shape
  /\ VerifiedAddressesAreProven
  /\ \A l \in Links : LinkGood(link[l], account)
  /\ \A c \in Clients : FlowGood(client[c], account, link, proven)
  /\ \A c \in Clients : session[c].user # None => account[session[c].user] # NoAccount

\* Accounts stay, stay verified, and take no address that nobody vouched for.
Grows ==
  /\ proven \subseteq proven'
  /\ \A u \in AccountRows : account[u] # NoAccount =>
       /\ account'[u] # NoAccount
       /\ account[u].verified => account'[u].verified
       /\ \/ account'[u].address = account[u].address
          \/ account'[u].verified /\ <<u, account'[u].address>> \in proven'

\* Invitations stay what they are about.
InvitesStay ==
  \A l \in Links : link[l].kind = "invite" => link'[l].kind = "invite" /\ link'[l].address = link[l].address

\* Nothing is none of the things there are, and what rows are to begin with.
LEMMA Things ==
  /\ None \notin Kinds /\ None \notin AccountRows /\ None \notin Clients /\ None \notin Links /\ None \notin Addresses
  /\ NoAccount \in [address : Addresses \cup {None}, verified : BOOLEAN, password : 0..MaxPasswords, admin : BOOLEAN]
  /\ NoAccount.address = None /\ NoAccount.verified = FALSE
  /\ NoLink \in LinkRows
  /\ NoLink.kind = None /\ NoLink.user = None /\ NoLink.to = NoLink.address
  /\ NoSession \in SessionRows
  /\ NoSession.user = None
  /\ Idle \in Flows /\ Idle.kind = None /\ Idle.user = None /\ Idle.steps = <<>>
  BY AccountsAssumption DEF NoAccount, NoLink, NoSession, Idle, Flows, LinkRows, SessionRows, States

\* What a flow is about stays vouched for when more is.
LEMMA FlowGrows ==
  ASSUME Grows, InvitesStay, NEW r \in Flows, FlowGood(r, account, link, proven), Shape
  PROVE  FlowGood(r, account', link', proven')
  BY Things DEF Grows, InvitesStay, FlowGood, Current, Flows, Shape, RowsShape, LinkRows, SessionRows

\* What a link was mailed for stays so.
LEMMA LinkGrows ==
  ASSUME Grows, NEW l \in Links, LinkGood(link[l], account), Shape
  PROVE  LinkGood(link[l], account')
  BY Things DEF Grows, LinkGood, Current, Shape, RowsShape, LinkRows, SessionRows

\* The rest of a request is good if the request was.
LEMMA RestGood ==
  ASSUME NEW r \in Flows, NEW s, NEW accounts, NEW links, NEW vouched, r.steps # <<>>,
         FlowGood(r, accounts, links, vouched)
  PROVE  Done(r) \in Flows /\ FlowGood(Done(r), accounts, links, vouched)
<1>1. CASE Len(r.steps) = 1
  <2>1. DOMAIN Idle.steps = {}
    BY Things
  <2> QED BY <1>1, <2>1, Things DEF Done, FlowGood, Has, Kinds
<1>2. CASE Len(r.steps) # 1
  <2>1. PICK rest : rest = Tail(r.steps)
    OBVIOUS
  <2>a. r.steps \in Seq(StatementNames) /\ r.steps # <<>>
    BY DEF Flows
  <2>b. rest \in Seq(StatementNames) /\ Len(rest) = Len(r.steps) - 1 /\ Len(r.steps) \in Nat
    BY <2>1, <2>a
  <2>c. \A i \in 1..Len(rest) : rest[i] = r.steps[i + 1]
    BY <2>1, <2>a, <2>b
  <2>2. /\ rest \in Seq(StatementNames)
        /\ \A i \in DOMAIN rest : i + 1 \in DOMAIN r.steps /\ rest[i] = r.steps[i + 1]
    BY <2>a, <2>b, <2>c
  <2>3. Done(r) = [r EXCEPT !.steps = rest]
    BY <1>2, <2>1 DEF Done
  <2>4. /\ Done(r) \in Flows /\ Done(r).steps = rest
        /\ Done(r).kind = r.kind /\ Done(r).user = r.user /\ Done(r).link = r.link /\ Done(r).address = r.address
    BY <2>2, <2>3 DEF Flows
  <2>5. \A t : Has(Done(r), t) => Has(r, t)
    BY <2>2, <2>4 DEF Has
  <2> QED BY <2>4, <2>5 DEF FlowGood
<1> QED BY <1>1, <1>2

-----------------------------------------------------------------------------
SessionsGood == \A d \in Clients : session[d].user # None => account[session[d].user] # NoAccount

\* A step of client c: the others' requests stay good.
LEMMA StepKeeps ==
  ASSUME AccountsInv, Grows, InvitesStay, RowsShape', VerifiedAddressesAreProven', SessionsGood',
         \A l \in Links : LinkGood(link'[l], account'),
         NEW c \in Clients, NEW r \in Flows, client' = [client EXCEPT ![c] = r],
         FlowGood(r, account', link', proven')
  PROVE  AccountsInv'
<1>1. \A d \in Clients : FlowGood(client'[d], account', link', proven')
  <2> TAKE d \in Clients
  <2>1. CASE d = c
    BY <2>1 DEF AccountsInv, Shape, RowsShape, LinkRows, SessionRows
  <2>2. CASE d # c
    <3>1. client'[d] = client[d] /\ client[d] \in Flows /\ FlowGood(client[d], account, link, proven)
      BY <2>2 DEF AccountsInv, Shape, RowsShape, LinkRows, SessionRows
    <3> QED BY <3>1, FlowGrows DEF AccountsInv
  <2> QED BY <2>1, <2>2
<1>2. Shape'
  BY DEF AccountsInv, Shape
<1> QED BY <1>1, <1>2 DEF AccountsInv, SessionsGood

\* A step in which no account changes.
LEMMA QuietGrows == ASSUME Shape, account' = account, proven \subseteq proven' PROVE Grows
  BY DEF Grows, Shape, RowsShape, LinkRows, SessionRows

\* The links are as they were, and the accounts have grown.
LEMMA LinksStay ==
  ASSUME AccountsInv, Grows, link' = link
  PROVE  InvitesStay /\ \A l \in Links : LinkGood(link'[l], account')
  BY LinkGrows DEF AccountsInv, InvitesStay

\* A request goes on to its next statement.
LEMMA GoOnGood ==
  ASSUME AccountsInv, Grows, InvitesStay, NEW c \in Clients, client[c].steps # <<>>
  PROVE  Done(client[c]) \in Flows /\ FlowGood(Done(client[c]), account', link', proven')
<1>1. PICK r \in Flows : r = client[c]
  BY DEF AccountsInv, Shape, RowsShape, LinkRows, SessionRows
<1>2. FlowGood(r, account', link', proven')
  BY <1>1, FlowGrows DEF AccountsInv
<1> QED BY <1>1, <1>2, RestGood

\* The password a session is opened with.
LEMMA PasswordIs ==
  ASSUME AccountsInv, NEW u \in AccountRows \cup {None}
  PROVE  (IF u = None THEN 0 ELSE account[u].password) \in 0..MaxPasswords
  BY AccountsAssumption DEF AccountsInv, Shape, RowsShape, LinkRows, SessionRows

\* A browser at rest has nothing to write.
LEMMA IdleGood == FlowGood(Idle, account, link, proven)
<1>1. DOMAIN Idle.steps = {}
  BY Things
<1> QED BY <1>1, Things DEF FlowGood, Has, Kinds

\* The invariant holds to begin with.
LEMMA InitAccountsInv == AccountsInit => AccountsInv
<1> SUFFICES ASSUME AccountsInit PROVE AccountsInv
  OBVIOUS
<1>1. Shape
  BY Things, AccountsAssumption DEF AccountsInit, Shape, RowsShape, LinkRows, SessionRows
<1>2. VerifiedAddressesAreProven
  BY Things DEF AccountsInit, VerifiedAddressesAreProven
<1>3. \A l \in Links : LinkGood(link[l], account)
  BY Things DEF AccountsInit, LinkGood, NoLink, Kinds
<1>4. \A c \in Clients : FlowGood(client[c], account, link, proven)
  <2>1. FlowGood(Idle, account, link, proven)
    BY IdleGood
  <2>2. \A c \in Clients : client[c] = Idle
    BY DEF AccountsInit
  <2> QED BY <2>1, <2>2
<1>5. SessionsGood
  BY Things DEF AccountsInit, SessionsGood
<1> QED BY <1>1, <1>2, <1>3, <1>4, <1>5 DEF AccountsInv, SessionsGood

-----------------------------------------------------------------------------
(***************************************************************************)
(* Requests that begin.                                                    *)
(***************************************************************************)
LEMMA SignupKeeps ==
  ASSUME AccountsInv, NEW c \in Clients, NEW a \in Addresses, Signup(c, a) PROVE AccountsInv'
<1>1. PICK u \in Spare :
        /\ account' = [account EXCEPT ![u] = [NoAccount EXCEPT !.address = a, !.admin = TRUE]]
        /\ Go(c, <<"issue">>, "verify", u, None, a)
  BY DEF Signup
<1>2. UNCHANGED <<link, session, proven>>
  BY DEF Signup
<1>3. u \in AccountRows /\ account[u] = NoAccount
  BY DEF Spare
<1>4. PICK n : n = [NoAccount EXCEPT !.address = a, !.admin = TRUE]
  OBVIOUS
<1>5. /\ n \in [address : Addresses \cup {None}, verified : BOOLEAN, password : 0..MaxPasswords, admin : BOOLEAN]
      /\ n.address = a /\ n.verified = FALSE /\ n # NoAccount
  BY <1>4, Things
<1>6. /\ account' = [account EXCEPT ![u] = n] /\ account'[u] = n
      /\ \A v \in AccountRows \ {u} : account'[v] = account[v]
  BY <1>1, <1>3, <1>4 DEF AccountsInv, Shape, RowsShape, LinkRows, SessionRows
<1>7. Grows
  BY <1>2, <1>3, <1>6 DEF Grows, AccountsInv, Shape, RowsShape, LinkRows, SessionRows
<1>8. RowsShape'
  BY <1>2, <1>5, <1>6 DEF AccountsInv, Shape, RowsShape, LinkRows, SessionRows
<1>9. VerifiedAddressesAreProven'
  BY <1>2, <1>5, <1>6 DEF AccountsInv, VerifiedAddressesAreProven
<1>10. SessionsGood'
  BY <1>2, <1>7 DEF AccountsInv, SessionsGood, Grows, Shape, RowsShape, LinkRows, SessionRows
<1>11. InvitesStay /\ \A l \in Links : LinkGood(link'[l], account')
  BY <1>2, <1>7, LinksStay
<1>12. <<"issue">> \in Seq(StatementNames) /\ "verify" \in Kinds
  BY DEF StatementNames, Kinds
<1>13. PICK r : r = [steps |-> <<"issue">>, kind |-> "verify", user |-> u, link |-> None, address |-> a,
                     password |-> IF u = None THEN 0 ELSE account[u].password]
  OBVIOUS
<1>14. client' = [client EXCEPT ![c] = r]
  BY <1>1, <1>13 DEF Go
<1>15. r \in Flows /\ r.steps = <<"issue">> /\ r.kind = "verify" /\ r.user = u /\ r.address = a
  BY <1>3, <1>12, <1>13, PasswordIs DEF Flows
<1>16. FlowGood(r, account', link', proven')
  <2>1. \A s : Has(r, s) => s = "issue"
    BY <1>15 DEF Has
  <2> QED BY <1>15, <1>3, <1>5, <1>6, <2>1, Things DEF FlowGood, Current
<1> QED BY <1>7, <1>8, <1>9, <1>10, <1>11, <1>14, <1>15, <1>16, StepKeeps

\* A step that writes no account: whatever it does to the rest is to be good.
LEMMA QuietStep ==
  ASSUME AccountsInv, account' = account, proven \subseteq proven', InvitesStay,
         link' \in [Links -> LinkRows], \A l \in Links : LinkGood(link'[l], account),
         session' \in [Clients -> SessionRows],
         \A d \in Clients : session'[d].user # None => account[session'[d].user] # NoAccount,
         client' \in [Clients -> Flows],
         \A d \in Clients : client'[d] = client[d] \/ FlowGood(client'[d], account, link', proven')
  PROVE  AccountsInv'
<1>1. Grows
  BY QuietGrows DEF AccountsInv
<1>2. \A d \in Clients : FlowGood(client'[d], account', link', proven')
  <2> TAKE d \in Clients
  <2>1. client[d] \in Flows /\ FlowGood(client[d], account, link, proven) /\ Shape
    BY DEF AccountsInv, Shape
  <2>2. FlowGood(client[d], account', link', proven')
    BY <1>1, <2>1, FlowGrows
  <2> QED BY <2>2
<1>3. Shape'
  BY DEF AccountsInv, Shape, RowsShape
<1>4. VerifiedAddressesAreProven'
  BY DEF AccountsInv, VerifiedAddressesAreProven
<1> QED BY <1>2, <1>3, <1>4 DEF AccountsInv

\* Links whose state alone changes stay good.
LEMMA StatesKeep ==
  ASSUME AccountsInv,
         link' = link \/ \E l \in Links, s \in States : link' = [link EXCEPT ![l].state = s]
  PROVE  /\ InvitesStay /\ link' \in [Links -> LinkRows]
         /\ \A l \in Links : LinkGood(link'[l], account)
<1>1. /\ link' \in [Links -> LinkRows]
      /\ \A l \in Links : /\ link'[l].kind = link[l].kind /\ link'[l].user = link[l].user
                          /\ link'[l].address = link[l].address /\ link'[l].to = link[l].to
  <2>1. link \in [Links -> LinkRows]
    BY DEF AccountsInv, Shape, RowsShape
  <2>2. CASE link' = link
    BY <2>1, <2>2
  <2>3. ASSUME NEW l \in Links, NEW s \in States, link' = [link EXCEPT ![l].state = s]
        PROVE  /\ link' \in [Links -> LinkRows]
               /\ \A k \in Links : /\ link'[k].kind = link[k].kind /\ link'[k].user = link[k].user
                                   /\ link'[k].address = link[k].address /\ link'[k].to = link[k].to
    BY <2>1, <2>3 DEF LinkRows
  <2> QED BY <2>2, <2>3
<1> QED BY <1>1 DEF AccountsInv, InvitesStay, LinkGood

\* Links that are deleted take no good one along.
LEMMA DeletedKeep ==
  ASSUME AccountsInv, NEW u, NEW kind, kind # "invite", DeleteUnconsumed(u, kind)
  PROVE  /\ InvitesStay /\ link' \in [Links -> LinkRows]
         /\ \A l \in Links : LinkGood(link'[l], account)
<1>1. \A l \in Links : link'[l] = link[l] \/ (link'[l] = NoLink /\ link[l].kind = kind)
  BY DEF DeleteUnconsumed
<1>2. link' = [l \in Links |-> link'[l]]
  BY DEF DeleteUnconsumed
<1>3. link' \in [Links -> LinkRows]
  BY <1>1, <1>2, Things DEF AccountsInv, Shape, RowsShape
<1>4. LinkGood(NoLink, account)
  BY Things DEF LinkGood, Kinds
<1> QED BY <1>1, <1>3, <1>4 DEF AccountsInv, InvitesStay

\* A request begins, and writes no more than a link's state.
LEMMA BeginStep ==
  ASSUME AccountsInv, account' = account, session' = session, proven \subseteq proven',
         link' = link \/ \E l \in Links, s \in States : link' = [link EXCEPT ![l].state = s],
         NEW c \in Clients, NEW r \in Flows, client' = [client EXCEPT ![c] = r],
         FlowGood(r, account, link', proven')
  PROVE  AccountsInv'
<1>1. /\ client' \in [Clients -> Flows]
      /\ \A d \in Clients : client'[d] = client[d] \/ FlowGood(client'[d], account, link', proven')
  BY DEF AccountsInv, Shape
<1>2. /\ session' \in [Clients -> SessionRows]
      /\ \A d \in Clients : session'[d].user # None => account[session'[d].user] # NoAccount
  BY DEF AccountsInv, Shape, RowsShape
<1> QED BY <1>1, <1>2, StatesKeep, QuietStep

\* A verification link is asked for again.
LEMMA ResendVerificationKeeps ==
  ASSUME AccountsInv, NEW c \in Clients, NEW u \in AccountRows, ResendVerification(c, u) PROVE AccountsInv'
<1>1. PICK r : r = [steps |-> <<"supersede", "issue">>, kind |-> "verify", user |-> u, link |-> None, address |-> account[u].address,
                    password |-> IF u = None THEN 0 ELSE account[u].password]
  OBVIOUS
<1>2. /\ client' = [client EXCEPT ![c] = r] /\ UNCHANGED <<account, session>> /\ proven' = proven
      /\ link' = link
  BY <1>1, Things DEF ResendVerification, Go
<1>3. /\ <<"supersede", "issue">> \in Seq(StatementNames) /\ "verify" \in Kinds \cup {None}
      /\ u \in AccountRows \cup {None} /\ None \in Links \cup {None} /\ account[u].address \in Addresses \cup {None}
  BY Things DEF StatementNames, Kinds, AccountsInv, Shape, RowsShape, LinkRows, SessionRows
<1>4. /\ r \in Flows /\ r.steps = <<"supersede", "issue">> /\ r.kind = "verify" /\ r.user = u
      /\ r.link = None /\ r.address = account[u].address
  BY <1>1, <1>3, PasswordIs DEF Flows
<1>5. \A s : Has(r, s) => s = "supersede" \/ s = "issue"
  <2>1. DOMAIN <<"supersede", "issue">> = 1..2
    OBVIOUS
  <2>2. <<"supersede", "issue">>[1] = "supersede" /\ <<"supersede", "issue">>[2] = "issue"
    OBVIOUS
  <2>3. \A i \in 1..2 : i = 1 \/ i = 2
    OBVIOUS
  <2> QED BY <1>4, <2>1, <2>2, <2>3 DEF Has
<1>6. FlowGood(r, account, link', proven')
  BY <1>4, <1>5, Things DEF ResendVerification, Spare, FlowGood, Current
<1> QED BY <1>2, <1>4, <1>6, BeginStep

\* A reset link is asked for.
LEMMA ForgotPasswordKeeps ==
  ASSUME AccountsInv, NEW c \in Clients, NEW u \in AccountRows, ForgotPassword(c, u) PROVE AccountsInv'
<1>1. PICK r : r = [steps |-> <<"supersede", "issue">>, kind |-> "reset", user |-> u, link |-> None, address |-> account[u].address,
                    password |-> IF u = None THEN 0 ELSE account[u].password]
  OBVIOUS
<1>2. /\ client' = [client EXCEPT ![c] = r] /\ UNCHANGED <<account, session>> /\ proven' = proven
      /\ link' = link
  BY <1>1, Things DEF ForgotPassword, Go
<1>3. /\ <<"supersede", "issue">> \in Seq(StatementNames) /\ "reset" \in Kinds \cup {None}
      /\ u \in AccountRows \cup {None} /\ None \in Links \cup {None} /\ account[u].address \in Addresses \cup {None}
  BY Things DEF StatementNames, Kinds, AccountsInv, Shape, RowsShape, LinkRows, SessionRows
<1>4. /\ r \in Flows /\ r.steps = <<"supersede", "issue">> /\ r.kind = "reset" /\ r.user = u
      /\ r.link = None /\ r.address = account[u].address
  BY <1>1, <1>3, PasswordIs DEF Flows
<1>5. \A s : Has(r, s) => s = "supersede" \/ s = "issue"
  <2>1. DOMAIN <<"supersede", "issue">> = 1..2
    OBVIOUS
  <2>2. <<"supersede", "issue">>[1] = "supersede" /\ <<"supersede", "issue">>[2] = "issue"
    OBVIOUS
  <2>3. \A i \in 1..2 : i = 1 \/ i = 2
    OBVIOUS
  <2> QED BY <1>4, <2>1, <2>2, <2>3 DEF Has
<1>6. FlowGood(r, account, link', proven')
  BY <1>4, <1>5 DEF ForgotPassword, Spare, FlowGood
<1> QED BY <1>2, <1>4, <1>6, BeginStep

\* A change of address is asked for.
LEMMA RequestEmailChangeKeeps ==
  ASSUME AccountsInv, NEW c \in Clients, NEW a \in Addresses, RequestEmailChange(c, a) PROVE AccountsInv'
<1>1. PICK r : r = [steps |-> <<"supersede", "issue">>, kind |-> "change", user |-> session[c].user, link |-> None, address |-> a,
                    password |-> IF session[c].user = None THEN 0 ELSE account[session[c].user].password]
  OBVIOUS
<1>2. /\ client' = [client EXCEPT ![c] = r] /\ UNCHANGED <<account, session>> /\ proven' = proven
      /\ link' = link
  BY <1>1, Things DEF RequestEmailChange, Go
<1>3. /\ <<"supersede", "issue">> \in Seq(StatementNames) /\ "change" \in Kinds \cup {None}
      /\ session[c].user \in AccountRows \cup {None} /\ None \in Links \cup {None} /\ a \in Addresses \cup {None}
  BY Things DEF StatementNames, Kinds, AccountsInv, Shape, RowsShape, LinkRows, SessionRows
<1>4. /\ r \in Flows /\ r.steps = <<"supersede", "issue">> /\ r.kind = "change" /\ r.user = session[c].user
      /\ r.link = None /\ r.address = a
  BY <1>1, <1>3, PasswordIs DEF Flows
<1>5. \A s : Has(r, s) => s = "supersede" \/ s = "issue"
  <2>1. DOMAIN <<"supersede", "issue">> = 1..2
    OBVIOUS
  <2>2. <<"supersede", "issue">>[1] = "supersede" /\ <<"supersede", "issue">>[2] = "issue"
    OBVIOUS
  <2>3. \A i \in 1..2 : i = 1 \/ i = 2
    OBVIOUS
  <2> QED BY <1>4, <2>1, <2>2, <2>3 DEF Has
<1>6. FlowGood(r, account, link', proven')
  BY <1>4, <1>5 DEF AccountsInv, FlowGood
<1> QED BY <1>2, <1>4, <1>6, BeginStep

\* An administrator invites an address.
LEMMA InviteKeeps ==
  ASSUME AccountsInv, NEW c \in Clients, NEW a \in Addresses, Invite(c, a) PROVE AccountsInv'
<1>1. PICK r : r = [steps |-> <<"issue">>, kind |-> "invite", user |-> session[c].user, link |-> None, address |-> a,
                    password |-> IF session[c].user = None THEN 0 ELSE account[session[c].user].password]
  OBVIOUS
<1>2. /\ client' = [client EXCEPT ![c] = r] /\ UNCHANGED <<account, session>> /\ proven' = proven
      /\ link' = link
  BY <1>1, Things DEF Invite, Go
<1>3. /\ <<"issue">> \in Seq(StatementNames) /\ "invite" \in Kinds \cup {None}
      /\ session[c].user \in AccountRows \cup {None} /\ None \in Links \cup {None} /\ a \in Addresses \cup {None}
  BY Things DEF StatementNames, Kinds, AccountsInv, Shape, RowsShape, LinkRows, SessionRows
<1>4. /\ r \in Flows /\ r.steps = <<"issue">> /\ r.kind = "invite" /\ r.user = session[c].user
      /\ r.link = None /\ r.address = a
  BY <1>1, <1>3, PasswordIs DEF Flows
<1>5. \A s : Has(r, s) => s = "issue"
  <2>1. DOMAIN <<"issue">> = 1..1
    OBVIOUS
  <2>2. <<"issue">>[1] = "issue"
    OBVIOUS
  <2>3. \A i \in 1..1 : i = 1
    OBVIOUS
  <2> QED BY <1>4, <2>1, <2>2, <2>3 DEF Has
<1>6. FlowGood(r, account, link', proven')
  BY <1>2, <1>4, <1>5, Things DEF AccountsInv, FlowGood, Kinds
<1> QED BY <1>2, <1>4, <1>6, BeginStep

\* A sign-in opens a session.
LEMMA LoginKeeps ==
  ASSUME AccountsInv, NEW c \in Clients, NEW u \in AccountRows, Login(c, u) PROVE AccountsInv'
<1>1. PICK r : r = [steps |-> <<"mint">>, kind |-> None, user |-> u, link |-> None, address |-> None,
                    password |-> IF u = None THEN 0 ELSE account[u].password]
  OBVIOUS
<1>2. /\ client' = [client EXCEPT ![c] = r] /\ UNCHANGED <<account, session>> /\ proven' = proven
      /\ link' = link
  BY <1>1, Things DEF Login, Go
<1>3. /\ <<"mint">> \in Seq(StatementNames) /\ None \in Kinds \cup {None}
      /\ u \in AccountRows \cup {None} /\ None \in Links \cup {None} /\ None \in Addresses \cup {None}
  BY Things DEF StatementNames, Kinds, AccountsInv, Shape, RowsShape, LinkRows, SessionRows
<1>4. /\ r \in Flows /\ r.steps = <<"mint">> /\ r.kind = None /\ r.user = u
      /\ r.link = None /\ r.address = None
  BY <1>1, <1>3, PasswordIs DEF Flows
<1>5. \A s : Has(r, s) => s = "mint"
  <2>1. DOMAIN <<"mint">> = 1..1
    OBVIOUS
  <2>2. <<"mint">>[1] = "mint"
    OBVIOUS
  <2>3. \A i \in 1..1 : i = 1
    OBVIOUS
  <2> QED BY <1>4, <2>1, <2>2, <2>3 DEF Has
<1>6. FlowGood(r, account, link', proven')
  BY <1>4, <1>5, Things DEF Login, Spare, FlowGood, Kinds
<1> QED BY <1>2, <1>4, <1>6, BeginStep

\* A change of password is asked for.
LEMMA ChangePasswordKeeps ==
  ASSUME AccountsInv, NEW c \in Clients, ChangePassword(c) PROVE AccountsInv'
<1>1. PICK r : r = [steps |-> <<"rehash", "sign out others">>, kind |-> None, user |-> session[c].user, link |-> None, address |-> None,
                    password |-> IF session[c].user = None THEN 0 ELSE account[session[c].user].password]
  OBVIOUS
<1>2. /\ client' = [client EXCEPT ![c] = r] /\ UNCHANGED <<account, session>> /\ proven' = proven
      /\ link' = link
  BY <1>1, Things DEF ChangePassword, Go
<1>3. /\ <<"rehash", "sign out others">> \in Seq(StatementNames) /\ None \in Kinds \cup {None}
      /\ session[c].user \in AccountRows \cup {None} /\ None \in Links \cup {None} /\ None \in Addresses \cup {None}
  BY Things DEF StatementNames, Kinds, AccountsInv, Shape, RowsShape, LinkRows, SessionRows
<1>4. /\ r \in Flows /\ r.steps = <<"rehash", "sign out others">> /\ r.kind = None /\ r.user = session[c].user
      /\ r.link = None /\ r.address = None
  BY <1>1, <1>3, PasswordIs DEF Flows
<1>5. \A s : Has(r, s) => s = "rehash" \/ s = "sign out others"
  <2>1. DOMAIN <<"rehash", "sign out others">> = 1..2
    OBVIOUS
  <2>2. <<"rehash", "sign out others">>[1] = "rehash" /\ <<"rehash", "sign out others">>[2] = "sign out others"
    OBVIOUS
  <2>3. \A i \in 1..2 : i = 1 \/ i = 2
    OBVIOUS
  <2> QED BY <1>4, <2>1, <2>2, <2>3 DEF Has
<1>6. FlowGood(r, account, link', proven')
  BY <1>4, <1>5, Things DEF AccountsInv, FlowGood, Kinds
<1> QED BY <1>2, <1>4, <1>6, BeginStep

\* An invitation is followed.
LEMMA AcceptInvitationKeeps ==
  ASSUME AccountsInv, NEW c \in Clients, NEW l \in Links, AcceptInvitation(c, l) PROVE AccountsInv'
<1>1. PICK r : r = [steps |-> <<"create account", "accept", "mint">>, kind |-> "invite", user |-> None, link |-> l, address |-> link[l].address,
                    password |-> IF None = None THEN 0 ELSE account[None].password]
  OBVIOUS
<1>2. /\ client' = [client EXCEPT ![c] = r] /\ UNCHANGED <<account, session>> /\ proven' = proven
      /\ link' = link
  BY <1>1, Things DEF AcceptInvitation, Go
<1>3. /\ <<"create account", "accept", "mint">> \in Seq(StatementNames) /\ "invite" \in Kinds \cup {None}
      /\ None \in AccountRows \cup {None} /\ l \in Links \cup {None} /\ link[l].address \in Addresses \cup {None}
  BY Things DEF StatementNames, Kinds, AccountsInv, Shape, RowsShape, LinkRows, SessionRows
<1>4. /\ r \in Flows /\ r.steps = <<"create account", "accept", "mint">> /\ r.kind = "invite" /\ r.user = None
      /\ r.link = l /\ r.address = link[l].address
  BY <1>1, <1>3, PasswordIs DEF Flows
<1>5. \A s : Has(r, s) => s = "create account" \/ s = "accept" \/ s = "mint"
  <2>1. DOMAIN <<"create account", "accept", "mint">> = 1..3
    OBVIOUS
  <2>2. <<"create account", "accept", "mint">>[1] = "create account" /\ <<"create account", "accept", "mint">>[2] = "accept" /\ <<"create account", "accept", "mint">>[3] = "mint"
    OBVIOUS
  <2>3. \A i \in 1..3 : i = 1 \/ i = 2 \/ i = 3
    OBVIOUS
  <2> QED BY <1>4, <2>1, <2>2, <2>3 DEF Has
<1>6. FlowGood(r, account, link', proven')
  BY <1>2, <1>4, <1>5 DEF AcceptInvitation, FlowGood
<1> QED BY <1>2, <1>4, <1>6, BeginStep

\* A reset link is followed: it is used up, and vouches for the address.
LEMMA ResetPasswordKeeps ==
  ASSUME AccountsInv, NEW c \in Clients, NEW l \in Links, ResetPassword(c, l) PROVE AccountsInv'
<1>1. PICK r : r = [steps |-> <<"rehash", "sign out all", "mint">>, kind |-> "reset", user |-> link[l].user, link |-> l, address |-> link[l].address,
                    password |-> IF link[l].user = None THEN 0 ELSE account[link[l].user].password]
  OBVIOUS
<1>2. /\ client' = [client EXCEPT ![c] = r] /\ UNCHANGED <<account, session>> /\ proven' = proven
      /\ link' = [link EXCEPT ![l].state = "used"]
  BY <1>1, Things DEF ResetPassword, Go, Follow, Vouch, ResetPasswordSteps, States
<1>3. /\ <<"rehash", "sign out all", "mint">> \in Seq(StatementNames) /\ "reset" \in Kinds \cup {None}
      /\ link[l].user \in AccountRows \cup {None} /\ l \in Links \cup {None} /\ link[l].address \in Addresses \cup {None}
  BY Things DEF StatementNames, Kinds, AccountsInv, Shape, RowsShape, LinkRows, SessionRows
<1>4. /\ r \in Flows /\ r.steps = <<"rehash", "sign out all", "mint">> /\ r.kind = "reset" /\ r.user = link[l].user
      /\ r.link = l /\ r.address = link[l].address
  BY <1>1, <1>3, PasswordIs DEF Flows
<1>5. \A s : Has(r, s) => s = "rehash" \/ s = "sign out all" \/ s = "mint"
  <2>1. DOMAIN <<"rehash", "sign out all", "mint">> = 1..3
    OBVIOUS
  <2>2. <<"rehash", "sign out all", "mint">>[1] = "rehash" /\ <<"rehash", "sign out all", "mint">>[2] = "sign out all" /\ <<"rehash", "sign out all", "mint">>[3] = "mint"
    OBVIOUS
  <2>3. \A i \in 1..3 : i = 1 \/ i = 2 \/ i = 3
    OBVIOUS
  <2> QED BY <1>4, <2>1, <2>2, <2>3 DEF Has
<1>6. FlowGood(r, account, link', proven')
  BY <1>4, <1>5 DEF AccountsInv, LinkGood, FlowGood
<1> QED BY <1>2, <1>4, <1>6, BeginStep DEF States

\* A verification link is followed.
LEMMA VerifyEmailKeeps ==
  ASSUME AccountsInv, NEW c \in Clients, NEW l \in Links, VerifyEmail(c, l) PROVE AccountsInv'
<1>1. PICK r : r = [steps |-> <<"mark verified">>, kind |-> "verify", user |-> link[l].user, link |-> l, address |-> link[l].address,
                    password |-> IF link[l].user = None THEN 0 ELSE account[link[l].user].password]
  OBVIOUS
<1>2. /\ client' = [client EXCEPT ![c] = r] /\ UNCHANGED <<account, session>> /\ proven' = proven \cup {<<link[l].user, link[l].to>>}
      /\ link' = [link EXCEPT ![l].state = "used"]
  BY <1>1, Things DEF VerifyEmail, Go, Follow, Vouch, ResetPasswordSteps, States
<1>3. /\ <<"mark verified">> \in Seq(StatementNames) /\ "verify" \in Kinds \cup {None}
      /\ link[l].user \in AccountRows \cup {None} /\ l \in Links \cup {None} /\ link[l].address \in Addresses \cup {None}
  BY Things DEF StatementNames, Kinds, AccountsInv, Shape, RowsShape, LinkRows, SessionRows
<1>4. /\ r \in Flows /\ r.steps = <<"mark verified">> /\ r.kind = "verify" /\ r.user = link[l].user
      /\ r.link = l /\ r.address = link[l].address
  BY <1>1, <1>3, PasswordIs DEF Flows
<1>5. \A s : Has(r, s) => s = "mark verified"
  <2>1. DOMAIN <<"mark verified">> = 1..1
    OBVIOUS
  <2>2. <<"mark verified">>[1] = "mark verified"
    OBVIOUS
  <2>3. \A i \in 1..1 : i = 1
    OBVIOUS
  <2> QED BY <1>4, <2>1, <2>2, <2>3 DEF Has
<1>6. FlowGood(r, account, link', proven')
  <2>1. LinkGood(link[l], account) /\ link[l].kind = "verify"
    BY DEF AccountsInv, VerifyEmail, Follow
  <2>2. <<link[l].user, account[link[l].user].address>> \in proven'
    BY <1>2, <2>1, Things DEF LinkGood, Current, AccountsInv, VerifiedAddressesAreProven, Shape, RowsShape, LinkRows
  <2> QED BY <1>4, <1>5, <2>1, <2>2 DEF LinkGood, FlowGood
<1> QED BY <1>2, <1>4, <1>6, BeginStep DEF States

\* A change of address is confirmed from the new address.
LEMMA ConfirmEmailChangeKeeps ==
  ASSUME AccountsInv, NEW c \in Clients, NEW l \in Links, ConfirmEmailChange(c, l) PROVE AccountsInv'
<1>1. PICK r : r = [steps |-> <<"set address", "sign out others">>, kind |-> "change", user |-> link[l].user, link |-> l, address |-> link[l].address,
                    password |-> IF link[l].user = None THEN 0 ELSE account[link[l].user].password]
  OBVIOUS
<1>2. /\ client' = [client EXCEPT ![c] = r] /\ UNCHANGED <<account, session>> /\ proven' = proven \cup {<<link[l].user, link[l].to>>}
      /\ link' = [link EXCEPT ![l].state = "used"]
  BY <1>1, Things DEF ConfirmEmailChange, Go, Follow, Vouch, ResetPasswordSteps, States
<1>3. /\ <<"set address", "sign out others">> \in Seq(StatementNames) /\ "change" \in Kinds \cup {None}
      /\ link[l].user \in AccountRows \cup {None} /\ l \in Links \cup {None} /\ link[l].address \in Addresses \cup {None}
  BY Things DEF StatementNames, Kinds, AccountsInv, Shape, RowsShape, LinkRows, SessionRows
<1>4. /\ r \in Flows /\ r.steps = <<"set address", "sign out others">> /\ r.kind = "change" /\ r.user = link[l].user
      /\ r.link = l /\ r.address = link[l].address
  BY <1>1, <1>3, PasswordIs DEF Flows
<1>5. \A s : Has(r, s) => s = "set address" \/ s = "sign out others"
  <2>1. DOMAIN <<"set address", "sign out others">> = 1..2
    OBVIOUS
  <2>2. <<"set address", "sign out others">>[1] = "set address" /\ <<"set address", "sign out others">>[2] = "sign out others"
    OBVIOUS
  <2>3. \A i \in 1..2 : i = 1 \/ i = 2
    OBVIOUS
  <2> QED BY <1>4, <2>1, <2>2, <2>3 DEF Has
<1>6. FlowGood(r, account, link', proven')
  <2>1. LinkGood(link[l], account)
    BY DEF AccountsInv
  <2> QED BY <1>2, <1>4, <1>5, <2>1 DEF LinkGood, FlowGood
<1> QED BY <1>2, <1>4, <1>6, BeginStep DEF States

-----------------------------------------------------------------------------
(***************************************************************************)
(* Requests that go on, and write no account.                              *)
(***************************************************************************)
LEMMA NextHas == ASSUME AccountsInv, NEW c \in Clients, NEW s, NextIs(c, s) PROVE client[c].steps # <<>> /\ Has(client[c], s)
<1>1. client[c].steps \in Seq(StatementNames) /\ client[c].steps # <<>> /\ Head(client[c].steps) = s
  BY DEF AccountsInv, Shape, Flows, NextIs
<1> QED BY <1>1 DEF Has

\* A statement that leaves accounts alone, and its flow going on.
LEMMA QuietGoOn ==
  ASSUME AccountsInv, account' = account, proven' = proven, InvitesStay,
         link' \in [Links -> LinkRows], \A l \in Links : LinkGood(link'[l], account),
         session' \in [Clients -> SessionRows],
         \A d \in Clients : session'[d].user # None => account[session'[d].user] # NoAccount,
         NEW c \in Clients, GoOn(c), client[c].steps # <<>>
  PROVE  AccountsInv'
<1>1. Grows
  BY QuietGrows DEF AccountsInv
<1>2. PICK r : r = Done(client[c])
  OBVIOUS
<1>3. r \in Flows /\ FlowGood(r, account, link', proven')
  BY <1>1, <1>2, GoOnGood
<1>4. client' = [client EXCEPT ![c] = r]
  BY <1>2 DEF GoOn
<1>5. /\ client' \in [Clients -> Flows]
      /\ \A d \in Clients : client'[d] = client[d] \/ FlowGood(client'[d], account, link', proven')
  BY <1>3, <1>4 DEF AccountsInv, Shape
<1> QED BY <1>5, QuietStep

\* Sessions stay as they were.
LEMMA SessionsSame ==
  ASSUME AccountsInv, session' = session
  PROVE  /\ session' \in [Clients -> SessionRows]
         /\ \A d \in Clients : session'[d].user # None => account[session'[d].user] # NoAccount
  BY DEF AccountsInv, Shape, RowsShape

\* Flows stay as they were.
LEMMA ClientsSame ==
  ASSUME AccountsInv, client' = client
  PROVE  /\ client' \in [Clients -> Flows]
         /\ \A d \in Clients : client'[d] = client[d] \/ FlowGood(client'[d], account, link', proven')
  BY DEF AccountsInv, Shape

\* Older links are deleted.
LEMMA SupersedeKeeps == ASSUME AccountsInv, NEW c \in Clients, Supersede(c) PROVE AccountsInv'
<1>1. PICK u, kind : u = client[c].user /\ kind = client[c].kind
  OBVIOUS
<1>2. /\ DeleteUnconsumed(u, kind) /\ GoOn(c)
      /\ account' = account /\ session' = session /\ proven' = proven
  BY <1>1 DEF Supersede
<1>3. client[c].steps # <<>> /\ kind # "invite"
  BY <1>1, NextHas DEF Supersede, AccountsInv, FlowGood
<1> QED BY <1>2, <1>3, DeletedKeep, SessionsSame, QuietGoOn

\* A change of address is cancelled.
LEMMA CancelKeeps == ASSUME AccountsInv, NEW c \in Clients, CancelEmailChange(c) PROVE AccountsInv'
<1>1. PICK u, kind : u = session[c].user /\ kind = "change"
  OBVIOUS
<1>2. /\ DeleteUnconsumed(u, kind) /\ kind # "invite"
      /\ account' = account /\ session' = session /\ proven' = proven /\ client' = client
  BY <1>1 DEF CancelEmailChange
<1> QED BY <1>2, DeletedKeep, SessionsSame, ClientsSame, QuietStep

\* The mail goes to the address the link is about.
LEMMA IssueKeeps == ASSUME AccountsInv, NEW c \in Clients, Issue(c) PROVE AccountsInv'
<1>1. PICK l \in Links :
        /\ link[l] = NoLink
        /\ link' = [link EXCEPT ![l] = [kind |-> client[c].kind, user |-> client[c].user,
                      address |-> client[c].address, to |-> client[c].address, state |-> "live"]]
  BY DEF Issue, Recipient
<1>2. PICK n : n = [kind |-> client[c].kind, user |-> client[c].user, address |-> client[c].address,
                    to |-> client[c].address, state |-> "live"]
  OBVIOUS
<1>3. /\ n \in LinkRows /\ LinkGood(n, account)
  BY <1>2 DEF AccountsInv, Shape, Flows, LinkRows, States, LinkGood, FlowGood, Current
<1>4. link' = [link EXCEPT ![l] = n]
  BY <1>1, <1>2
<1>5. link' \in [Links -> LinkRows] /\ \A k \in Links : LinkGood(link'[k], account)
  BY <1>3, <1>4 DEF AccountsInv, Shape, RowsShape
<1>6. InvitesStay
  BY <1>1, <1>4, Things DEF InvitesStay, AccountsInv, Shape, RowsShape, Kinds
<1>7. client[c].steps # <<>> /\ GoOn(c) /\ account' = account /\ session' = session /\ proven' = proven
  BY NextHas DEF Issue
<1> QED BY <1>5, <1>6, <1>7, SessionsSame, QuietGoOn

\* A link expires, is rotated, or is revoked.
LEMMA LinkKeeps ==
  ASSUME AccountsInv, NEW l \in Links,
         \/ Expire(l)
         \/ \E c \in Clients : Rotate(c, l) \/ Revoke(c, l)
  PROVE  AccountsInv'
<1>1. /\ \E s \in States : link' = [link EXCEPT ![l].state = s]
      /\ account' = account /\ session' = session /\ proven' = proven /\ client' = client
  BY DEF Expire, Rotate, Revoke, Pending, States
<1> QED BY <1>1, StatesKeep, SessionsSame, ClientsSame, QuietStep

\* An invitation is marked accepted.
LEMMA AcceptedKeeps == ASSUME AccountsInv, NEW c \in Clients, MarkAccepted(c) PROVE AccountsInv'
<1>1. client[c].steps # <<>>
  BY NextHas DEF MarkAccepted
<1>2. /\ GoOn(c) /\ account' = account /\ session' = session /\ proven' = proven
      /\ link' = [link EXCEPT ![client[c].link].state = "used"]
  BY DEF MarkAccepted
<1>3. link' = link \/ \E l \in Links, s \in States : link' = [link EXCEPT ![l].state = s]
  <2>1. CASE client[c].link \in Links
    BY <1>2, <2>1 DEF States
  <2>2. CASE client[c].link \notin Links
    BY <1>2, <2>2 DEF AccountsInv, Shape, RowsShape
  <2> QED BY <2>1, <2>2
<1> QED BY <1>1, <1>2, <1>3, StatesKeep, SessionsSame, QuietGoOn

\* Sessions are opened and ended.
LEMMA SessionsKeep ==
  ASSUME AccountsInv, NEW c \in Clients,
         MintSession(c) \/ DeleteSessionsForUser(c) \/ DeleteSessionsForUserExcept(c)
  PROVE  AccountsInv'
<1>1. client[c].steps # <<>>
  BY NextHas DEF MintSession, DeleteSessionsForUser, DeleteSessionsForUserExcept
<1>2. GoOn(c) /\ account' = account /\ link' = link /\ proven' = proven
  BY DEF MintSession, DeleteSessionsForUser, DeleteSessionsForUserExcept
<1>3. /\ client[c] \in Flows /\ FlowGood(client[c], account, link, proven)
      /\ session \in [Clients -> SessionRows]
      /\ \A d \in Clients : session[d].user # None => account[session[d].user] # NoAccount
  BY DEF AccountsInv, Shape, RowsShape
<1>4. CASE MintSession(c)
  <2>1. PICK n : n = [user |-> client[c].user, password |-> client[c].password,
                      late |-> client[c].password # account[client[c].user].password]
    OBVIOUS
  <2>2. n \in SessionRows /\ n.user = client[c].user /\ session' = [session EXCEPT ![c] = n]
    BY <1>3, <1>4, <2>1 DEF MintSession, Flows, SessionRows
  <2>3. /\ session' \in [Clients -> SessionRows]
        /\ \A d \in Clients : session'[d].user # None => account[session'[d].user] # NoAccount
    BY <1>3, <2>2 DEF FlowGood
  <2> QED BY <1>1, <1>2, <2>3, StatesKeep, QuietGoOn
<1>5. CASE DeleteSessionsForUser(c) \/ DeleteSessionsForUserExcept(c)
  <2>1. Keep(c) \in SessionRows /\ Keep(c).user = session[c].user
    BY <1>3 DEF Keep, SessionRows, Flows
  <2>2. /\ session' = [d \in Clients |-> session'[d]]
        /\ \A d \in Clients : session'[d] \in {session[d], NoSession, Keep(c)} /\ (session'[d] = Keep(c) => d = c \/ session'[d] \in {session[d], NoSession})
    BY <1>5 DEF DeleteSessionsForUser, DeleteSessionsForUserExcept
  <2>3. /\ session' \in [Clients -> SessionRows]
        /\ \A d \in Clients : session'[d].user # None => account[session'[d].user] # NoAccount
    BY <1>3, <2>1, <2>2, Things
  <2> QED BY <1>1, <1>2, <2>3, StatesKeep, QuietGoOn
<1> QED BY <1>4, <1>5

\* A browser signs out, or leaves its flow where it is.
LEMMA LeaveKeeps == ASSUME AccountsInv, NEW c \in Clients, Logout(c) \/ LeaveFlow(c) PROVE AccountsInv'
<1>1. account' = account /\ link' = link /\ proven' = proven
  BY DEF Logout, LeaveFlow
<1>2. /\ session' \in [Clients -> SessionRows]
      /\ \A d \in Clients : session'[d].user # None => account[session'[d].user] # NoAccount
  BY Things DEF Logout, LeaveFlow, AccountsInv, Shape, RowsShape
<1>3. /\ client' \in [Clients -> Flows]
      /\ \A d \in Clients : client'[d] = client[d] \/ FlowGood(client'[d], account, link', proven')
  <2>1. FlowGood(Idle, account, link, proven)
    BY IdleGood
  <2> QED BY <1>1, <2>1, Things DEF Logout, LeaveFlow, AccountsInv, Shape
<1> QED BY <1>1, <1>2, <1>3, StatesKeep, QuietStep

-----------------------------------------------------------------------------
(***************************************************************************)
(* Requests that write an account.                                         *)
(***************************************************************************)
AccountRow == [address : Addresses \cup {None}, verified : BOOLEAN, password : 0..MaxPasswords, admin : BOOLEAN]

\* An account that was there is written with an address it has, or one vouched for.
LEMMA WriteGrows ==
  ASSUME AccountsInv, NEW u \in AccountRows \cup {None}, NEW n \in AccountRow,
         u # None => n # NoAccount /\ account' = [account EXCEPT ![u] = n],
         u = None => account' = account,
         u # None /\ account[u] # NoAccount =>
           /\ account[u].verified => n.verified
           /\ n.address = account[u].address \/ (n.verified /\ <<u, n.address>> \in proven'),
         n.verified => <<u, n.address>> \in proven',
         proven \subseteq proven', link' = link, session' = session
  PROVE  /\ Grows /\ InvitesStay /\ RowsShape' /\ VerifiedAddressesAreProven' /\ SessionsGood'
         /\ \A l \in Links : LinkGood(link'[l], account')
<1>1. /\ account' \in [AccountRows -> AccountRow]
      /\ \A v \in AccountRows : account'[v] = IF v = u THEN n ELSE account[v]
  BY Things DEF AccountsInv, Shape, RowsShape, AccountRow
<1>2. Grows
  BY <1>1, Things DEF Grows
<1>3. RowsShape'
  BY <1>1 DEF AccountsInv, Shape, RowsShape, AccountRow
<1>4. VerifiedAddressesAreProven'
  BY <1>1 DEF AccountsInv, VerifiedAddressesAreProven
<1>5. SessionsGood'
  BY <1>2 DEF AccountsInv, Shape, RowsShape, SessionRows, SessionsGood, Grows
<1> QED BY <1>2, <1>3, <1>4, <1>5, LinksStay

\* A statement that writes an account, and its flow going on.
LEMMA AccountGoOn ==
  ASSUME AccountsInv, Grows, InvitesStay, RowsShape', VerifiedAddressesAreProven', SessionsGood',
         \A l \in Links : LinkGood(link'[l], account'),
         NEW c \in Clients, GoOn(c), client[c].steps # <<>>
  PROVE  AccountsInv'
<1>1. PICK r : r = Done(client[c])
  OBVIOUS
<1>2. r \in Flows /\ FlowGood(r, account', link', proven')
  BY <1>1, GoOnGood
<1>3. client' = [client EXCEPT ![c] = r]
  BY <1>1 DEF GoOn
<1> QED BY <1>2, <1>3, StepKeeps

\* An account is marked verified, for the address the link was mailed to or a later one.
LEMMA VerifiedKeeps == ASSUME AccountsInv, NEW c \in Clients, MarkEmailVerified(c) PROVE AccountsInv'
<1>1. /\ client[c].steps # <<>> /\ GoOn(c) /\ UNCHANGED <<link, session, proven>>
      /\ account' = [account EXCEPT ![client[c].user].verified = TRUE]
      /\ Has(client[c], "mark verified")
  BY NextHas DEF MarkEmailVerified
<1>2. PICK u \in AccountRows : u = client[c].user /\ <<u, account[u].address>> \in proven /\ account[u] # NoAccount
  BY <1>1 DEF AccountsInv, Shape, Flows, FlowGood
<1>3. PICK n : n = [account[u] EXCEPT !.verified = TRUE]
  OBVIOUS
<1>4. /\ n \in AccountRow /\ n.address = account[u].address /\ n.verified = TRUE /\ n # NoAccount
      /\ account' = [account EXCEPT ![u] = n]
  BY <1>1, <1>2, <1>3, Things DEF AccountsInv, Shape, RowsShape, AccountRow
<1>5. u \in AccountRows \cup {None} /\ u # None
  BY Things
<1>6. /\ Grows /\ InvitesStay /\ RowsShape' /\ VerifiedAddressesAreProven' /\ SessionsGood'
      /\ \A l \in Links : LinkGood(link'[l], account')
  BY <1>1, <1>2, <1>4, <1>5, WriteGrows
<1> QED BY <1>1, <1>6, AccountGoOn

\* The password is replaced.
LEMMA RehashKeeps == ASSUME AccountsInv, NEW c \in Clients, UpdatePasswordHash(c) PROVE AccountsInv'
<1>1. PICK u \in AccountRows :
        /\ u = client[c].user /\ account[u].password < MaxPasswords
        /\ account' = [account EXCEPT ![u].password = @ + 1]
        /\ client' = [client EXCEPT ![c] = [Done(@) EXCEPT !.password = account[u].password + 1]]
  BY DEF UpdatePasswordHash
<1>2. client[c].steps # <<>> /\ UNCHANGED <<link, session, proven>>
  BY NextHas DEF UpdatePasswordHash
<1>3. account[u] # NoAccount
  BY <1>1, Things DEF AccountsInv, FlowGood
<1>4. account[u] \in AccountRow /\ account[u].password + 1 \in 0..MaxPasswords
  BY <1>1, AccountsAssumption DEF AccountsInv, Shape, RowsShape, AccountRow
<1>5. PICK n : n = [account[u] EXCEPT !.password = account[u].password + 1]
  OBVIOUS
<1>6. /\ n \in AccountRow /\ n.address = account[u].address /\ n.verified = account[u].verified
      /\ account' = [account EXCEPT ![u] = n] /\ n.password = account[u].password + 1
  BY <1>1, <1>4, <1>5 DEF AccountRow
<1>7. n # NoAccount
  BY <1>4, <1>6 DEF NoAccount, AccountRow
<1>8. u \in AccountRows \cup {None} /\ u # None
  BY Things
<1>9. n.verified => <<u, n.address>> \in proven
  BY <1>6 DEF AccountsInv, VerifiedAddressesAreProven
<1>10. /\ Grows /\ InvitesStay /\ RowsShape' /\ VerifiedAddressesAreProven' /\ SessionsGood'
       /\ \A l \in Links : LinkGood(link'[l], account')
  BY <1>2, <1>3, <1>6, <1>7, <1>8, <1>9, WriteGrows
<1>11. PICK d \in Flows : d = Done(client[c]) /\ FlowGood(d, account', link', proven')
  BY <1>2, <1>10, GoOnGood
<1>12. PICK r : r = [d EXCEPT !.password = account[u].password + 1]
  OBVIOUS
<1>13. /\ r \in Flows /\ r.steps = d.steps /\ r.kind = d.kind /\ r.user = d.user
       /\ r.link = d.link /\ r.address = d.address
  BY <1>4, <1>12 DEF Flows
<1>14. FlowGood(r, account', link', proven')
  BY <1>11, <1>13 DEF FlowGood, Has
<1>15. client' = [client EXCEPT ![c] = r]
  BY <1>1, <1>11, <1>12
<1> QED BY <1>10, <1>13, <1>14, <1>15, StepKeeps

\* The address is replaced by the one confirmed.
LEMMA AddressKeeps == ASSUME AccountsInv, NEW c \in Clients, UpdateUserEmail(c) PROVE AccountsInv'
<1>1. /\ client[c].steps # <<>> /\ GoOn(c) /\ UNCHANGED <<link, session, proven>>
      /\ Has(client[c], "set address")
      /\ account' = [account EXCEPT ![client[c].user].address = client[c].address,
                                    ![client[c].user].verified = TRUE]
  BY NextHas DEF UpdateUserEmail
<1>2. PICK u \in AccountRows \cup {None}, a \in Addresses \cup {None} :
        u = client[c].user /\ a = client[c].address /\ <<u, a>> \in proven
  BY <1>1 DEF AccountsInv, Shape, Flows, FlowGood
<1>3. CASE u # None
  <2>1. PICK n : n = [account[u] EXCEPT !.address = a, !.verified = TRUE]
    OBVIOUS
  <2>2. /\ n \in AccountRow /\ n.address = a /\ n.verified = TRUE /\ n # NoAccount
        /\ account' = [account EXCEPT ![u] = n]
    BY <1>1, <1>2, <1>3, <2>1, Things DEF AccountsInv, Shape, RowsShape, AccountRow
  <2>3. /\ Grows /\ InvitesStay /\ RowsShape' /\ VerifiedAddressesAreProven' /\ SessionsGood'
        /\ \A l \in Links : LinkGood(link'[l], account')
    BY <1>1, <1>2, <1>3, <2>2, WriteGrows
  <2> QED BY <1>1, <2>3, AccountGoOn
<1>4. CASE u = None
  <2>1. account' = account
    BY <1>1, <1>2, <1>4, Things DEF AccountsInv, Shape, RowsShape
  <2> QED BY <1>1, <2>1, StatesKeep, SessionsSame, QuietGoOn
<1> QED BY <1>3, <1>4

\* The account of an invitation is created.
LEMMA InvitedKeeps == ASSUME AccountsInv, NEW c \in Clients, CreateInvitedUser(c) PROVE AccountsInv'
<1>1. PICK u \in AccountRows :
        /\ account[u] = NoAccount
        /\ account' = [account EXCEPT ![u] = [address |-> client[c].address, verified |-> TRUE, password |-> 0, admin |-> FALSE]]
        /\ proven' = proven \cup {<<u, link[client[c].link].to>>}
        /\ client' = [client EXCEPT ![c] = [Done(@) EXCEPT !.user = u]]
  BY DEF CreateInvitedUser, Spare, Vouch
<1>2. client[c].steps # <<>> /\ UNCHANGED <<link, session>> /\ Has(client[c], "create account")
  BY NextHas DEF CreateInvitedUser
<1>3. PICK a \in Addresses \cup {None} :
        /\ a = client[c].address /\ a = link[client[c].link].to
  <2>1. client[c] \in Flows /\ FlowGood(client[c], account, link, proven)
    BY DEF AccountsInv, Shape
  <2>2. PICK l \in Links : l = client[c].link /\ link[l].address = client[c].address
    BY <1>2, <2>1 DEF FlowGood
  <2>3. link[l].to = link[l].address
    BY DEF AccountsInv, LinkGood
  <2>4. client[c].address \in Addresses \cup {None}
    BY <2>1 DEF Flows
  <2> QED BY <2>2, <2>3, <2>4
<1>4. PICK n : n = [address |-> a, verified |-> TRUE, password |-> 0, admin |-> FALSE]
  OBVIOUS
<1>5. /\ n \in AccountRow /\ n.address = a /\ n.verified = TRUE /\ n # NoAccount
      /\ account' = [account EXCEPT ![u] = n] /\ <<u, a>> \in proven' /\ proven \subseteq proven'
  BY <1>1, <1>3, <1>4, Things, AccountsAssumption DEF AccountRow
<1>6. u \in AccountRows \cup {None} /\ u # None
  BY Things
<1>7. /\ Grows /\ InvitesStay /\ RowsShape' /\ VerifiedAddressesAreProven' /\ SessionsGood'
      /\ \A l \in Links : LinkGood(link'[l], account')
  BY <1>1, <1>2, <1>5, <1>6, WriteGrows
<1>8. PICK d \in Flows : d = Done(client[c]) /\ FlowGood(d, account', link', proven')
  BY <1>2, <1>7, GoOnGood
<1>9. d.address = a \/ d.steps = <<>>
  BY <1>3, <1>8, Things DEF Done, AccountsInv, Shape, Flows
<1>10. PICK r : r = [d EXCEPT !.user = u]
  OBVIOUS
<1>11. /\ r \in Flows /\ r.steps = d.steps /\ r.kind = d.kind /\ r.user = u
       /\ r.link = d.link /\ r.address = d.address
  BY <1>6, <1>10 DEF Flows
<1>12. account'[u] = n
  BY <1>5 DEF AccountsInv, Shape, RowsShape
<1>13. FlowGood(r, account', link', proven')
  <2>1. CASE d.address = a
    BY <1>5, <1>6, <1>8, <1>11, <1>12, <2>1 DEF FlowGood, Has, Current
  <2>2. CASE d.steps = <<>>
    <3>1. DOMAIN d.steps = {}
      BY <2>2
    <3> QED BY <1>5, <1>6, <1>8, <1>11, <1>12, <3>1 DEF FlowGood, Has, Current
  <2> QED BY <1>9, <2>1, <2>2
<1>14. client' = [client EXCEPT ![c] = r]
  BY <1>1, <1>8, <1>10
<1> QED BY <1>7, <1>11, <1>13, <1>14, StepKeeps

-----------------------------------------------------------------------------
\* Every step keeps the invariant.
LEMMA NextAccountsInv == AccountsInv /\ [AccountsNext]_accountVars => AccountsInv'
<1> SUFFICES ASSUME AccountsInv, [AccountsNext]_accountVars PROVE AccountsInv'
  OBVIOUS
<1>1. CASE UNCHANGED accountVars
  <2>1. account' = account /\ link' = link /\ session' = session /\ client' = client /\ proven' = proven
    BY <1>1 DEF accountVars
  <2> QED BY <2>1, StatesKeep, SessionsSame, ClientsSame, QuietStep
<1>2. ASSUME NEW c \in Clients, ClientStep(c) PROVE AccountsInv'
  BY <1>2, SupersedeKeeps, IssueKeeps, VerifiedKeeps, RehashKeeps, AddressKeeps, InvitedKeeps,
     AcceptedKeeps, SessionsKeep, LeaveKeeps DEF ClientStep
<1>3. ASSUME NEW c \in Clients, NEW a \in Addresses, Signup(c, a) \/ RequestEmailChange(c, a) \/ Invite(c, a)
      PROVE  AccountsInv'
  BY <1>3, SignupKeeps, RequestEmailChangeKeeps, InviteKeeps
<1>4. ASSUME NEW c \in Clients, NEW u \in AccountRows,
             ResendVerification(c, u) \/ ForgotPassword(c, u) \/ Login(c, u)
      PROVE  AccountsInv'
  BY <1>4, ResendVerificationKeeps, ForgotPasswordKeeps, LoginKeeps
<1>5. ASSUME NEW c \in Clients, NEW l \in Links,
             \/ VerifyEmail(c, l) \/ ResetPassword(c, l) \/ ConfirmEmailChange(c, l)
             \/ AcceptInvitation(c, l) \/ Rotate(c, l) \/ Revoke(c, l)
      PROVE  AccountsInv'
  BY <1>5, VerifyEmailKeeps, ResetPasswordKeeps, ConfirmEmailChangeKeeps, AcceptInvitationKeeps, LinkKeeps
<1> QED
  BY <1>1, <1>2, <1>3, <1>4, <1>5, LinkKeeps, ChangePasswordKeeps, LeaveKeeps, CancelKeeps DEF AccountsNext

\* Every link was mailed to the address it is about, and every flow writes what was
\* vouched for (auth.go, password.go, email_change.go, invitations.go).
THEOREM AccountsInvariant == AccountsSpec => []AccountsInv
  BY InitAccountsInv, NextAccountsInv, PTL DEF AccountsSpec

\* The address a verified account has is one that a link mailed to it vouched for, whatever
\* verifications, changes of address and invitations cross each other (VerifyEmail,
\* ConfirmEmailChange, AcceptInvitation).
THEOREM VerifiedAreProven == AccountsSpec => []VerifiedAddressesAreProven
<1>1. AccountsInv => VerifiedAddressesAreProven
  BY DEF AccountsInv
<1> QED BY <1>1, AccountsInvariant, PTL

-----------------------------------------------------------------------------
(***************************************************************************)
(* Sessions and links.  What a request has left to do is one of a dozen     *)
(* rows of statements; which of them the clients are at says which sessions *)
(* are about to end and which links have yet to take effect.               *)
(***************************************************************************)
Issuing == <<"issue">>
Superseding == <<"supersede", "issue">>
Verifying == <<"mark verified">>
Resetting == <<"rehash", "sign out all", "mint">>
Clearing == <<"sign out all", "mint">>
Opening == <<"mint">>
Replacing == <<"rehash", "sign out others">>
Keeping == <<"sign out others">>
Readdressing == <<"set address", "sign out others">>
Joining == <<"create account", "accept", "mint">>
Accepting == <<"accept", "mint">>

FlowRows == {<<>>, Issuing, Superseding, Verifying, Resetting, Clearing, Opening, Replacing, Keeping,
         Readdressing, Joining, Accepting}

\* What each row does first, and whether that is all.
LEMMA Heads ==
  /\ Issuing # <<>> /\ Head(Issuing) = "issue" /\ Len(Issuing) = 1
  /\ Superseding # <<>> /\ Head(Superseding) = "supersede" /\ Len(Superseding) # 1
  /\ Verifying # <<>> /\ Head(Verifying) = "mark verified" /\ Len(Verifying) = 1
  /\ Resetting # <<>> /\ Head(Resetting) = "rehash" /\ Len(Resetting) # 1
  /\ Clearing # <<>> /\ Head(Clearing) = "sign out all" /\ Len(Clearing) # 1
  /\ Opening # <<>> /\ Head(Opening) = "mint" /\ Len(Opening) = 1
  /\ Replacing # <<>> /\ Head(Replacing) = "rehash" /\ Len(Replacing) # 1
  /\ Keeping # <<>> /\ Head(Keeping) = "sign out others" /\ Len(Keeping) = 1
  /\ Readdressing # <<>> /\ Head(Readdressing) = "set address" /\ Len(Readdressing) # 1
  /\ Joining # <<>> /\ Head(Joining) = "create account" /\ Len(Joining) # 1
  /\ Accepting # <<>> /\ Head(Accepting) = "accept" /\ Len(Accepting) # 1
  BY DEF Issuing, Superseding, Verifying, Resetting, Clearing, Opening, Replacing, Keeping,
     Readdressing, Joining, Accepting

\* What two statements leave when the first is done.
LEMMA TailOf2 == ASSUME NEW a, NEW b PROVE Tail(<<a, b>>) = <<b>>
  OBVIOUS

\* What three statements leave when the first is done.
LEMMA TailOf3 == ASSUME NEW a, NEW b, NEW c PROVE Tail(<<a, b, c>>) = <<b, c>>
<1>1. PICK s : s = <<a, b, c>>
  OBVIOUS
<1>2. s \in Seq({a, b, c}) /\ Len(s) = 3 /\ s[1] = a /\ s[2] = b /\ s[3] = c
  BY <1>1
<1>3. PICK t : t = Tail(s)
  OBVIOUS
<1>4. t \in Seq({a, b, c}) /\ Len(t) = 2 /\ t[1] = b /\ t[2] = c
  BY <1>2, <1>3
<1>5. PICK w : w = <<b, c>>
  OBVIOUS
<1>6. w \in Seq({a, b, c}) /\ Len(w) = 2 /\ w[1] = b /\ w[2] = c
  BY <1>5
<1>7. t = w
  BY <1>4, <1>6
<1> QED BY <1>1, <1>3, <1>5, <1>7

\* What each row leaves when its first statement is done.
LEMMA Tails ==
  /\ Tail(Superseding) = Issuing
  /\ Tail(Resetting) = Clearing
  /\ Tail(Clearing) = Opening
  /\ Tail(Replacing) = Keeping
  /\ Tail(Readdressing) = Keeping
  /\ Tail(Joining) = Accepting
  /\ Tail(Accepting) = Opening
  /\ Resetting # Replacing
<1>1. Tail(Superseding) = Issuing
  BY TailOf2 DEF Superseding, Issuing
<1>2. Tail(Resetting) = Clearing
  BY TailOf3 DEF Resetting, Clearing
<1>3. Tail(Clearing) = Opening
  BY TailOf2 DEF Clearing, Opening
<1>4. Tail(Replacing) = Keeping
  BY TailOf2 DEF Replacing, Keeping
<1>5. Tail(Readdressing) = Keeping
  BY TailOf2 DEF Readdressing, Keeping
<1>6. Tail(Joining) = Accepting
  BY TailOf3 DEF Joining, Accepting
<1>7. Tail(Accepting) = Opening
  BY TailOf2 DEF Accepting, Opening
<1>8. Resetting # Replacing
  BY DEF Resetting, Replacing
<1> QED BY <1>1, <1>2, <1>3, <1>4, <1>5, <1>6, <1>7, <1>8

-----------------------------------------------------------------------------
\* A request has one of those rows of statements left, and knows whom it is about.
RequestGood(r) ==
  /\ r.steps \in FlowRows
  /\ r.steps = Replacing => r.kind = None /\ r.link = None
  /\ r.steps = Readdressing => r.kind # None
  /\ r.kind # None => r.address \in Addresses
  /\ r.steps # <<>> /\ r.steps # Joining => r.user \in AccountRows

RowsInv ==
  /\ \A c \in Clients : RequestGood(client[c])
  /\ \A l \in Links : link[l].kind # None =>
       link[l].user \in AccountRows /\ link[l].address \in Addresses /\ link[l].to \in Addresses
  /\ \A u \in AccountRows : account[u] # NoAccount => account[u].address \in Addresses
  /\ \A c \in Clients : SignedIn(c) => session[c].user \in AccountRows
  /\ proven \subseteq AccountRows \X Addresses
  /\ torn \subseteq AccountRows \cup Links
  /\ flows \in 0..MaxFlows

\* Client e is about to end the sessions of u, that of c among them.
Clears(e, u, c) ==
  /\ client[e].user = u
  /\ \/ client[e].steps = Clearing
     \/ client[e].steps = Keeping /\ client[e].kind = None /\ e # c

Cleared(u, c) == u \in torn \/ \E e \in Clients : Clears(e, u, c)

\* A session opened with an earlier password is about to end, or to be kept with the new one,
\* which is the account's unless the session is about to end.
SessionCurrent(c) ==
  \/ session[c].password = account[session[c].user].password
  \/ session[c].late
  \/ Cleared(session[c].user, c)
  \/ client[c].steps = Keeping /\ client[c].kind = None

KeepsOwn(c) ==
  client[c].steps \in {Replacing, Keeping} /\ client[c].kind = None =>
    /\ session[c].user = client[c].user
    /\ client[c].steps = Keeping =>
         client[c].password = account[client[c].user].password \/ Cleared(client[c].user, c)

SignOutInv == \A c \in Clients : SignedIn(c) => SessionCurrent(c) /\ KeepsOwn(c)

\* A link that was followed has yet to take effect.
Following(c) == client[c].steps \in {Verifying, Resetting, Readdressing}

Joins(l) == {c \in Clients : client[c].steps = Accepting /\ client[c].link = l}

UsedOnce(l) ==
  /\ link[l].kind # "invite" => uses[l] <= 1 /\ (link[l].state # "used" => uses[l] = 0)
  /\ IsFiniteSet(Joins(l))
  /\ link[l].kind = "invite" /\ l \notin torn =>
       uses[l] <= Cardinality(Joins(l)) + (IF link[l].state = "used" THEN 1 ELSE 0)

FollowGood(c) ==
  /\ Following(c) =>
       /\ client[c].link \in Links /\ link[client[c].link].kind # "invite"
       /\ link[client[c].link].state = "used" /\ uses[client[c].link] = 0
  /\ client[c].steps \in {Joining, Accepting} =>
       client[c].link \in Links /\ link[client[c].link].kind = "invite"

LinksInv ==
  /\ uses \in [Links -> Nat]
  /\ \A l \in Links : UsedOnce(l)
  /\ \A c \in Clients : FollowGood(c)
  /\ \A c, d \in Clients : Following(c) /\ Following(d) /\ client[c].link = client[d].link => c = d

WebInv == AccountsInv /\ RowsInv /\ SignOutInv /\ LinksInv

\* What a request does next tells which statements it has left.
LEMMA NextRow ==
  ASSUME NEW c \in Clients, RequestGood(client[c])
  PROVE  /\ NextIs(c, "supersede") <=> client[c].steps = Superseding
         /\ NextIs(c, "issue") <=> client[c].steps = Issuing
         /\ NextIs(c, "mark verified") <=> client[c].steps = Verifying
         /\ NextIs(c, "rehash") <=> client[c].steps \in {Resetting, Replacing}
         /\ NextIs(c, "set address") <=> client[c].steps = Readdressing
         /\ NextIs(c, "create account") <=> client[c].steps = Joining
         /\ NextIs(c, "accept") <=> client[c].steps = Accepting
         /\ NextIs(c, "mint") <=> client[c].steps = Opening
         /\ NextIs(c, "sign out all") <=> client[c].steps = Clearing
         /\ NextIs(c, "sign out others") <=> client[c].steps = Keeping
  BY Heads DEF RequestGood, FlowRows, NextIs

\* The rows are different rows.
LEMMA Apart ==
  /\ Superseding \notin {Issuing, Verifying, Resetting, Clearing, Opening, Replacing, Keeping,
                         Readdressing, Joining, Accepting}
  /\ Issuing \notin {Verifying, Resetting, Clearing, Opening, Replacing, Keeping, Readdressing,
                     Joining, Accepting}
  /\ Verifying \notin {Resetting, Clearing, Opening, Replacing, Keeping, Readdressing, Joining,
                       Accepting}
  /\ Resetting \notin {Clearing, Opening, Replacing, Keeping, Readdressing, Joining, Accepting}
  /\ Clearing \notin {Opening, Replacing, Keeping, Readdressing, Joining, Accepting}
  /\ Opening \notin {Replacing, Keeping, Readdressing, Joining, Accepting}
  /\ Replacing \notin {Keeping, Readdressing, Joining, Accepting}
  /\ Keeping \notin {Readdressing, Joining, Accepting}
  /\ Readdressing \notin {Joining, Accepting}
  /\ Joining # Accepting
  /\ <<>> \notin {Superseding, Issuing, Verifying, Resetting, Clearing, Opening, Replacing, Keeping,
                  Readdressing, Joining, Accepting}
  BY Heads, Tails

Carries(d, r) ==
  d.kind = r.kind /\ d.user = r.user /\ d.link = r.link /\ d.address = r.address /\ d.password = r.password

\* What is left of a request that has done a statement.
LEMMA DoneRow ==
  ASSUME NEW r \in Flows, RequestGood(r), r.steps # <<>>
  PROVE  /\ r.steps \in {Issuing, Verifying, Opening, Keeping} => Done(r) = Idle
         /\ r.steps \notin {Issuing, Verifying, Opening, Keeping} => Carries(Done(r), r)
         /\ r.steps = Superseding => Done(r).steps = Issuing
         /\ r.steps = Resetting => Done(r).steps = Clearing
         /\ r.steps = Clearing => Done(r).steps = Opening
         /\ r.steps \in {Replacing, Readdressing} => Done(r).steps = Keeping
         /\ r.steps = Joining => Done(r).steps = Accepting
         /\ r.steps = Accepting => Done(r).steps = Opening
         /\ r.steps # Joining => RequestGood(Done(r))
<1>1. CASE r.steps \in {Issuing, Verifying, Opening, Keeping}
  <2>1. Done(r) = Idle
    BY <1>1, Heads DEF Done
  <2> QED BY <1>1, <2>1, Apart, Things DEF RequestGood, FlowRows
<1>2. CASE r.steps \notin {Issuing, Verifying, Opening, Keeping}
  <2>1. Len(r.steps) # 1
    BY <1>2, Heads DEF RequestGood, FlowRows
  <2>2. PICK rest : rest = Tail(r.steps)
    OBVIOUS
  <2>3. Done(r) = [r EXCEPT !.steps = rest]
    BY <2>1, <2>2 DEF Done
  <2>4. Done(r).steps = rest /\ Carries(Done(r), r)
    BY <2>3 DEF Carries, Flows
  <2>5. /\ r.steps = Superseding => rest = Issuing
        /\ r.steps = Resetting => rest = Clearing
        /\ r.steps = Clearing => rest = Opening
        /\ r.steps \in {Replacing, Readdressing} => rest = Keeping
        /\ r.steps = Joining => rest = Accepting
        /\ r.steps = Accepting => rest = Opening
    BY <2>2, Tails
  <2>6. rest \in {Issuing, Clearing, Opening, Keeping, Accepting}
    BY <1>2, <2>5 DEF RequestGood, FlowRows
  <2>7. r.steps # Joining => RequestGood(Done(r))
    BY <2>4, <2>6, Apart DEF RequestGood, FlowRows, Carries
  <2> QED BY <1>2, <2>4, <2>5, <2>7
<1> QED BY <1>1, <1>2

-----------------------------------------------------------------------------
\* Client c alone moves.
OnlyMoves(c) == \A d \in Clients : d # c => client'[d] = client[d]

PasswordsStay == \A u \in AccountRows : account'[u].password = account[u].password

\* A client that neither ends sessions nor starts to change anything about them.
LEMMA QuietSignOut ==
  ASSUME RowsInv, SignOutInv, NEW c, OnlyMoves(c), PasswordsStay, session' = session,
         \A u \in AccountRows : u \in torn => u \in torn',
         client'[c] # client[c] /\ client[c].steps \in {Clearing, Keeping} => client[c].user \in torn',
         client'[c] # client[c] /\ client'[c].steps \in {Replacing, Keeping} /\ client'[c].kind = None
           => client'[c].steps = Replacing /\ client'[c].user = session[c].user
  PROVE  SignOutInv'
<1>1. ASSUME NEW u \in AccountRows, NEW d \in Clients, Cleared(u, d) PROVE Cleared(u, d)'
  <2>1. CASE u \in torn
    BY <2>1 DEF Cleared
  <2>2. ASSUME NEW e \in Clients, Clears(e, u, d) PROVE Cleared(u, d)'
    <3>1. CASE client'[e] = client[e]
      BY <2>2, <3>1 DEF Cleared, Clears
    <3>2. CASE client'[e] # client[e]
      BY <2>2, <3>2 DEF Cleared, Clears, OnlyMoves
    <3> QED BY <3>1, <3>2
  <2> QED BY <1>1, <2>1, <2>2 DEF Cleared
<1>2. SUFFICES ASSUME NEW d \in Clients, SignedIn(d) PROVE SessionCurrent(d)' /\ KeepsOwn(d)'
  BY DEF SignOutInv, SignedIn
<1>3. /\ session[d].user \in AccountRows /\ SessionCurrent(d) /\ KeepsOwn(d)
      /\ account'[session[d].user].password = account[session[d].user].password
      /\ RequestGood(client[d])
  BY <1>2 DEF RowsInv, SignOutInv, PasswordsStay
<1>4. CASE client'[d] = client[d]
  <2>1. client[d].steps = Keeping => client[d].user \in AccountRows
    BY <1>3, Apart DEF RequestGood
  <2> QED BY <1>1, <1>3, <1>4, <2>1 DEF SessionCurrent, KeepsOwn, PasswordsStay
<1>5. CASE client'[d] # client[d]
  <2>1. d = c
    BY <1>5 DEF OnlyMoves
  <2>2. SessionCurrent(d)'
    BY <1>1, <1>3, <1>5, <2>1 DEF SessionCurrent, KeepsOwn, Cleared
  <2>3. KeepsOwn(d)'
    BY <1>3, <1>5, <2>1, Apart DEF KeepsOwn
  <2> QED BY <2>2, <2>3
<1> QED BY <1>4, <1>5

\* A link whose taking effect is not touched: it stays used or unused, or is deleted or issued unused.
LinkQuiet(l) ==
  \/ /\ link'[l].kind = link[l].kind /\ uses'[l] = uses[l]
     /\ link'[l].state = "used" <=> link[l].state = "used"
  \/ /\ link[l].kind # "invite" /\ link[l].state # "used"
     /\ link'[l].state # "used" /\ uses'[l] = 0

\* A client that follows no link, and marks none.
LEMMA QuietLinks ==
  ASSUME LinksInv, NEW c, OnlyMoves(c), uses' \in [Links -> Nat],
         \A l \in Links : LinkQuiet(l),
         \A l \in Links : l \in torn => l \in torn',
         client'[c] # client[c] /\ client[c].steps = Accepting => client[c].link \in torn',
         client'[c] # client[c] =>
           /\ client'[c].steps \notin {Verifying, Resetting, Readdressing, Accepting}
           /\ client'[c].steps = Joining =>
                client'[c].link \in Links /\ link[client'[c].link].kind = "invite"
  PROVE  LinksInv'
<1>1. \A l \in Links : UsedOnce(l)'
  <2> SUFFICES ASSUME NEW l \in Links PROVE UsedOnce(l)'
    OBVIOUS
  <2>1. UsedOnce(l) /\ LinkQuiet(l) /\ uses[l] \in Nat /\ uses'[l] \in Nat
    BY DEF LinksInv
  <2>2. link'[l].kind # "invite" => uses'[l] <= 1 /\ (link'[l].state # "used" => uses'[l] = 0)
    BY <2>1 DEF UsedOnce, LinkQuiet
  <2>3. Joins(l)' \subseteq Joins(l)
    BY DEF Joins, OnlyMoves
  <2>4. /\ IsFiniteSet(Joins(l)) /\ IsFiniteSet(Joins(l)')
        /\ Cardinality(Joins(l)) \in Nat /\ Cardinality(Joins(l)') \in Nat
    BY <2>1, <2>3, FS_Subset, FS_CardinalityType DEF UsedOnce
  <2>5. l \in torn' \/ Joins(l)' = Joins(l)
    BY <2>3 DEF Joins, OnlyMoves
  <2>6. link'[l].kind = "invite" /\ l \notin torn' =>
          uses'[l] <= Cardinality(Joins(l)') + (IF link'[l].state = "used" THEN 1 ELSE 0)
    BY <2>1, <2>4, <2>5 DEF UsedOnce, LinkQuiet
  <2> QED BY <2>2, <2>4, <2>6 DEF UsedOnce
<1>2. ASSUME NEW d \in Clients, client'[d] = client[d] PROVE FollowGood(d)'
  BY <1>2 DEF LinksInv, FollowGood, Following, LinkQuiet
<1>3. ASSUME client'[c] # client[c] PROVE FollowGood(c)' /\ ~Following(c)'
  BY <1>3 DEF LinksInv, FollowGood, Following, LinkQuiet
<1>4. \A d \in Clients : FollowGood(d)'
  BY <1>2, <1>3 DEF OnlyMoves
<1>5. \A d, e \in Clients : Following(d)' /\ Following(e)' /\ client'[d].link = client'[e].link => d = e
  BY <1>3 DEF LinksInv, Following, OnlyMoves
<1> QED BY <1>1, <1>4, <1>5 DEF LinksInv

\* A step of client c that keeps the rows of the tables in order.
LEMMA RowsStep ==
  ASSUME AccountsInv, RowsInv, NEW c \in Clients, OnlyMoves(c), RequestGood(client'[c]),
         \A l \in Links : link'[l].kind # None =>
           link'[l].user \in AccountRows /\ link'[l].address \in Addresses /\ link'[l].to \in Addresses,
         \A u \in AccountRows : account'[u] = account[u] \/ account'[u].address \in Addresses,
         \A d \in Clients : session'[d] \in {session[d], NoSession} \/ session'[d].user \in AccountRows,
         proven' \subseteq AccountRows \X Addresses, torn' \subseteq AccountRows \cup Links,
         flows' \in 0..MaxFlows
  PROVE  RowsInv'
<1>1. \A d \in Clients : RequestGood(client'[d])
  BY DEF RowsInv, OnlyMoves
<1>2. \A d \in Clients : SignedIn(d)' => session'[d].user \in AccountRows
  BY DEF RowsInv, SignedIn
<1> QED BY <1>1, <1>2 DEF RowsInv

\* A request that begins.
LEMMA FlowBegun ==
  ASSUME AccountsInv, RowsInv, NEW c \in Clients, NEW steps, NEW kind, NEW u, NEW l, NEW a,
         Go(c, steps, kind, u, l, a)
  PROVE  /\ OnlyMoves(c) /\ client[c].steps = <<>> /\ flows' \in 0..MaxFlows
         /\ client'[c].steps = steps /\ client'[c].kind = kind /\ client'[c].user = u
         /\ client'[c].link = l /\ client'[c].address = a
<1>1. PICK r : r = [steps |-> steps, kind |-> kind, user |-> u, link |-> l, address |-> a,
                    password |-> IF u = None THEN 0 ELSE account[u].password]
  OBVIOUS
<1>2. client' = [client EXCEPT ![c] = r] /\ client[c] = Idle /\ flows < MaxFlows /\ flows' = flows + 1
  BY <1>1 DEF Go
<1>3. client'[c] = r /\ OnlyMoves(c)
  BY <1>2 DEF AccountsInv, Shape, OnlyMoves
<1> QED BY <1>1, <1>2, <1>3, Things, AccountsAssumption DEF RowsInv

-----------------------------------------------------------------------------
RestInv == RowsInv /\ SignOutInv /\ LinksInv

\* A request that begins and follows no link.
LEMMA BeginWeb ==
  ASSUME WebInv, NEW c \in Clients, NEW steps, NEW kind, NEW u, NEW l, NEW a,
         Go(c, steps, kind, u, l, a), link' = link, session' = session, proven' = proven,
         uses' = uses, torn' = torn, PasswordsStay,
         \A v \in AccountRows : account'[v] = account[v] \/ account'[v].address \in Addresses,
         steps \in {Issuing, Superseding, Opening, Replacing, Joining},
         steps = Replacing => kind = None /\ l = None /\ u = session[c].user,
         kind # None => a \in Addresses,
         steps # Joining => u \in AccountRows,
         steps = Joining => l \in Links /\ link[l].kind = "invite"
  PROVE  RestInv'
<1>1. /\ OnlyMoves(c) /\ client[c].steps = <<>> /\ flows' \in 0..MaxFlows
      /\ client'[c].steps = steps /\ client'[c].kind = kind /\ client'[c].user = u
      /\ client'[c].link = l /\ client'[c].address = a
  BY FlowBegun DEF WebInv
<1>2. RequestGood(client'[c])
  BY <1>1, Apart DEF RequestGood, FlowRows
<1>3. RowsInv'
  <2>1. /\ AccountsInv /\ RowsInv /\ proven' \subseteq AccountRows \X Addresses
        /\ torn' \subseteq AccountRows \cup Links
        /\ \A d \in Clients : session'[d] \in {session[d], NoSession} \/ session'[d].user \in AccountRows
        /\ \A k \in Links : link'[k].kind # None =>
             link'[k].user \in AccountRows /\ link'[k].address \in Addresses /\ link'[k].to \in Addresses
    BY DEF WebInv, RowsInv
  <2> QED BY <1>1, <1>2, <2>1, RowsStep
<1>4. SignOutInv'
  <2>1. client[c].steps \notin {Clearing, Keeping, Accepting} /\ RowsInv /\ SignOutInv
    BY <1>1, Apart DEF WebInv
  <2>2. client'[c].steps # Keeping
    BY <1>1, Apart
  <2> QED BY <1>1, <2>1, <2>2, QuietSignOut
<1>5. LinksInv'
  <2>1. client[c].steps \notin {Clearing, Keeping, Accepting} /\ LinksInv
    BY <1>1, Apart DEF WebInv
  <2>2. client'[c].steps \notin {Verifying, Resetting, Readdressing, Accepting}
    BY <1>1, Apart
  <2>3. uses' \in [Links -> Nat] /\ \A k \in Links : LinkQuiet(k)
    BY <2>1 DEF LinksInv, LinkQuiet
  <2> QED BY <1>1, <2>1, <2>2, <2>3, QuietLinks
<1> QED BY <1>3, <1>4, <1>5 DEF RestInv

\* Accounts that are not written keep their passwords.
LEMMA PasswordsSame == account' = account => PasswordsStay
  BY DEF PasswordsStay

\* A founder signs up: a spare row is taken, no password replaced.
LEMMA SignupWeb == ASSUME WebInv, NEW c \in Clients, NEW a \in Addresses, Signup(c, a) PROVE RestInv'
<1>1. PICK u \in Spare :
        /\ account' = [account EXCEPT ![u] = [NoAccount EXCEPT !.address = a, !.admin = TRUE]]
        /\ Go(c, Issuing, "verify", u, None, a)
  BY DEF Signup, Issuing
<1>2. u \in AccountRows /\ account[u] = NoAccount
  BY DEF Spare
<1>3. PICK n : n = [NoAccount EXCEPT !.address = a, !.admin = TRUE]
  OBVIOUS
<1>4. n.address = a /\ n.password = NoAccount.password
  BY <1>3 DEF NoAccount
<1>5. /\ PasswordsStay
      /\ \A v \in AccountRows : account'[v] = account[v] \/ account'[v].address \in Addresses
  BY <1>1, <1>2, <1>3, <1>4 DEF PasswordsStay, WebInv, AccountsInv, Shape, RowsShape
<1>6. /\ link' = link /\ session' = session /\ proven' = proven /\ uses' = uses /\ torn' = torn
  BY DEF Signup
<1>7. Issuing # Replacing /\ Issuing # Joining
  BY Apart
<1> QED BY <1>1, <1>2, <1>5, <1>6, <1>7, BeginWeb

\* The requests that begin with nothing but what they are to do.
LEMMA AskedWeb ==
  ASSUME WebInv, NEW c \in Clients,
         \/ \E u \in AccountRows : ResendVerification(c, u) \/ ForgotPassword(c, u) \/ Login(c, u)
         \/ \E a \in Addresses : RequestEmailChange(c, a) \/ Invite(c, a)
         \/ ChangePassword(c)
         \/ \E l \in Links : AcceptInvitation(c, l)
  PROVE  RestInv'
<1>1. /\ account' = account /\ link' = link /\ session' = session /\ proven' = proven
      /\ uses' = uses /\ torn' = torn
  BY DEF ResendVerification, ForgotPassword, Login, RequestEmailChange, Invite, ChangePassword,
     AcceptInvitation
<1>2. /\ Issuing # Replacing /\ Issuing # Joining /\ Superseding # Replacing /\ Superseding # Joining
      /\ Opening # Replacing /\ Opening # Joining /\ Replacing # Joining
  BY Apart
<1>3. PasswordsStay /\ \A v \in AccountRows : account'[v] = account[v] \/ account'[v].address \in Addresses
  BY <1>1, PasswordsSame
<1>4. ASSUME NEW u \in AccountRows, ResendVerification(c, u) \/ ForgotPassword(c, u) \/ Login(c, u)
      PROVE  RestInv'
  <2>1. account[u].address \in Addresses
    BY <1>4, AccountsAssumption DEF ResendVerification, ForgotPassword, Login, Spare, WebInv, RowsInv
  <2>2. \/ Go(c, Superseding, "verify", u, None, account[u].address)
        \/ Go(c, Superseding, "reset", u, None, account[u].address)
        \/ Go(c, Opening, None, u, None, None)
    BY <1>4 DEF ResendVerification, ForgotPassword, Login, Superseding, Opening
  <2> QED BY <1>1, <1>2, <1>3, <2>1, <2>2, BeginWeb
<1>5. ASSUME NEW a \in Addresses, RequestEmailChange(c, a) \/ Invite(c, a) PROVE RestInv'
  <2>1. session[c].user \in AccountRows
    BY <1>5 DEF RequestEmailChange, Invite, AsAdmin, WebInv, RowsInv
  <2>2. \/ Go(c, Superseding, "change", session[c].user, None, a)
        \/ Go(c, Issuing, "invite", session[c].user, None, a)
    BY <1>5 DEF RequestEmailChange, Invite, Superseding, Issuing
  <2> QED BY <1>1, <1>2, <1>3, <2>1, <2>2, BeginWeb
<1>6. ASSUME ChangePassword(c) PROVE RestInv'
  <2>1. session[c].user \in AccountRows /\ Go(c, Replacing, None, session[c].user, None, None)
    BY <1>6 DEF ChangePassword, Replacing, WebInv, RowsInv
  <2> QED BY <1>1, <1>2, <1>3, <2>1, BeginWeb
<1>7. ASSUME NEW l \in Links, AcceptInvitation(c, l) PROVE RestInv'
  <2>1. link[l].kind = "invite" /\ Go(c, Joining, "invite", None, l, link[l].address)
    BY <1>7 DEF AcceptInvitation, Joining
  <2>2. link[l].address \in Addresses
    BY <2>1, AccountsAssumption DEF WebInv, RowsInv, Kinds
  <2> QED BY <1>1, <1>2, <1>3, <2>1, <2>2, BeginWeb
<1> QED BY <1>4, <1>5, <1>6, <1>7

\* A link is followed: nobody else waits for it to take effect, as it was not used before.
LEMMA FollowWeb ==
  ASSUME WebInv, NEW c \in Clients, NEW l \in Links,
         VerifyEmail(c, l) \/ ResetPassword(c, l) \/ ConfirmEmailChange(c, l)
  PROVE  RestInv'
<1>1. PICK kind, steps :
        /\ Follow(c, l, kind, steps)
        /\ \/ kind = "verify" /\ steps = Verifying
           \/ kind = "reset" /\ steps = Resetting
           \/ kind = "change" /\ steps = Readdressing
  BY DEF VerifyEmail, ResetPassword, ConfirmEmailChange, ResetPasswordSteps, Verifying, Resetting,
     Readdressing
<1>2. /\ account' = account /\ session' = session /\ uses' = uses /\ torn' = torn
      /\ proven' \subseteq proven \cup {<<link[l].user, link[l].to>>}
  BY DEF VerifyEmail, ResetPassword, ConfirmEmailChange, Vouch
<1>3. /\ link[l].kind = kind /\ link[l].state = "live" /\ kind # "invite" /\ kind # None
      /\ link' = [link EXCEPT ![l].state = "used"]
      /\ Go(c, steps, kind, link[l].user, l, link[l].address)
  BY <1>1, Things DEF Follow, Consumable, Kinds
<1>4. /\ link[l].user \in AccountRows /\ link[l].address \in Addresses /\ link[l].to \in Addresses
      /\ uses[l] = 0
  BY <1>3 DEF WebInv, RowsInv, LinksInv, UsedOnce
<1>5. \A k \in Links : /\ link'[k].kind = link[k].kind /\ link'[k].user = link[k].user
                       /\ link'[k].address = link[k].address /\ link'[k].to = link[k].to
                       /\ link'[k].state = IF k = l THEN "used" ELSE link[k].state
  BY <1>3 DEF WebInv, AccountsInv, Shape, RowsShape, LinkRows
<1>6. /\ OnlyMoves(c) /\ client[c].steps = <<>> /\ flows' \in 0..MaxFlows
      /\ client'[c].steps = steps /\ client'[c].kind = kind /\ client'[c].user = link[l].user
      /\ client'[c].link = l /\ client'[c].address = link[l].address
  BY <1>3, FlowBegun DEF WebInv
<1>7. RequestGood(client'[c])
  BY <1>1, <1>3, <1>4, <1>6, Apart DEF RequestGood, FlowRows
<1>8. RowsInv'
  <2>1. /\ AccountsInv /\ RowsInv /\ proven' \subseteq AccountRows \X Addresses
        /\ torn' \subseteq AccountRows \cup Links
        /\ \A d \in Clients : session'[d] \in {session[d], NoSession} \/ session'[d].user \in AccountRows
        /\ \A k \in Links : link'[k].kind # None =>
             link'[k].user \in AccountRows /\ link'[k].address \in Addresses /\ link'[k].to \in Addresses
        /\ \A u \in AccountRows : account'[u] = account[u] \/ account'[u].address \in Addresses
    BY <1>2, <1>4, <1>5 DEF WebInv, RowsInv
  <2> QED BY <1>6, <1>7, <2>1, RowsStep
<1>9. SignOutInv'
  <2>1. client[c].steps \notin {Clearing, Keeping} /\ RowsInv /\ SignOutInv
    BY <1>6, Apart DEF WebInv
  <2>2. client'[c].steps \notin {Keeping, Replacing}
    BY <1>1, <1>6, Apart
  <2> QED BY <1>2, <1>6, <2>1, <2>2, PasswordsSame, QuietSignOut
<1>10. LinksInv'
  <2>1. LinksInv /\ \A d \in Clients : RequestGood(client[d])
    BY DEF WebInv, RowsInv
  <2>2. Following(c)' /\ client'[c].link = l /\ client'[c].steps \notin {Joining, Accepting}
    BY <1>1, <1>6, Apart DEF Following
  <2>3. \A d \in Clients : Following(d) => client[d].link # l
    BY <1>3, <2>1 DEF LinksInv, FollowGood
  <2>4. FollowGood(c)'
    BY <1>2, <1>3, <1>4, <1>5, <2>2 DEF FollowGood
  <2>5. \A d \in Clients : FollowGood(d)'
    <3> TAKE d \in Clients
    <3>1. CASE d # c
      BY <1>2, <1>5, <1>6, <2>1, <2>3, <3>1 DEF LinksInv, FollowGood, Following, OnlyMoves
    <3> QED BY <2>4, <3>1
  <2>6. \A d, e \in Clients : Following(d)' /\ Following(e)' /\ client'[d].link = client'[e].link => d = e
    BY <1>6, <2>1, <2>2, <2>3 DEF LinksInv, Following, OnlyMoves
  <2>7. \A k \in Links : UsedOnce(k)'
    <3> TAKE k \in Links
    <3>1. Joins(k)' = Joins(k)
      BY <1>6, <2>2, Apart DEF Joins, OnlyMoves
    <3>2. UsedOnce(k)
      BY <2>1 DEF LinksInv
    <3> QED BY <1>2, <1>3, <1>4, <1>5, <3>1, <3>2 DEF UsedOnce
  <2> QED BY <1>2, <2>1, <2>5, <2>6, <2>7 DEF LinksInv
<1> QED BY <1>8, <1>9, <1>10 DEF RestInv

-----------------------------------------------------------------------------
\* Links alone move, and no client with them.
LEMMA LinksMove ==
  ASSUME WebInv, account' = account, session' = session, client' = client, proven' = proven,
         torn' = torn, flows' = flows, uses' \in [Links -> Nat], \A l \in Links : LinkQuiet(l),
         \A l \in Links : link'[l].kind # None =>
           /\ link'[l].kind = link[l].kind /\ link'[l].user = link[l].user
           /\ link'[l].address = link[l].address /\ link'[l].to = link[l].to
  PROVE  RestInv'
<1>1. RowsInv'
  BY DEF WebInv, RowsInv, SignedIn
<1>2. OnlyMoves(None) /\ client'[None] = client[None]
  BY DEF OnlyMoves
<1>3. SignOutInv'
  BY <1>2, PasswordsSame, QuietSignOut DEF WebInv
<1>4. LinksInv'
  BY <1>2, QuietLinks DEF WebInv
<1> QED BY <1>1, <1>3, <1>4 DEF RestInv

\* A link expires, or an invitation is renewed or revoked.
LEMMA StateWeb ==
  ASSUME WebInv, NEW l \in Links,
         \/ Expire(l)
         \/ \E c \in Clients : Rotate(c, l) \/ Revoke(c, l)
  PROVE  RestInv'
<1>1. PICK s \in States : link' = [link EXCEPT ![l].state = s] /\ s # "used" /\ link[l].state # "used"
  BY DEF Expire, Rotate, Revoke, Pending, Unconsumed, States
<1>2. /\ account' = account /\ session' = session /\ client' = client /\ proven' = proven
      /\ torn' = torn /\ flows' = flows /\ uses' = uses
  BY DEF Expire, Rotate, Revoke
<1>3. \A k \in Links : /\ link'[k].kind = link[k].kind /\ link'[k].user = link[k].user
                       /\ link'[k].address = link[k].address /\ link'[k].to = link[k].to
                       /\ link'[k].state = IF k = l THEN s ELSE link[k].state
  BY <1>1 DEF WebInv, AccountsInv, Shape, RowsShape, LinkRows
<1>4. uses' \in [Links -> Nat] /\ \A k \in Links : LinkQuiet(k)
  BY <1>1, <1>2, <1>3 DEF LinkQuiet, WebInv, LinksInv
<1> QED BY <1>2, <1>3, <1>4, LinksMove

\* What deleting the unconsumed links leaves of each.
LEMMA DeletedQuiet ==
  ASSUME WebInv, NEW u, NEW kind, kind # "invite", DeleteUnconsumed(u, kind)
  PROVE  /\ uses' \in [Links -> Nat] /\ \A l \in Links : LinkQuiet(l)
         /\ \A l \in Links : link'[l].kind # None =>
              /\ link'[l].kind = link[l].kind /\ link'[l].user = link[l].user
              /\ link'[l].address = link[l].address /\ link'[l].to = link[l].to
<1>1. \A l \in Links :
        \/ link'[l] = link[l] /\ uses'[l] = uses[l]
        \/ link'[l] = NoLink /\ uses'[l] = 0 /\ link[l].kind = kind /\ link[l].state # "used"
  BY DEF DeleteUnconsumed, Unconsumed
<1>2. uses' = [l \in Links |-> uses'[l]]
  BY DEF DeleteUnconsumed
<1>3. uses' \in [Links -> Nat]
  BY <1>1, <1>2 DEF WebInv, LinksInv
<1>4. NoLink.state # "used" /\ NoLink.kind = None
  BY DEF NoLink
<1> QED BY <1>1, <1>3, <1>4 DEF LinkQuiet

\* A change of address is given up.
LEMMA CancelWeb == ASSUME WebInv, NEW c \in Clients, CancelEmailChange(c) PROVE RestInv'
<1>1. PICK kind : kind = "change"
  OBVIOUS
<1>2. DeleteUnconsumed(session[c].user, kind) /\ kind # "invite"
  BY <1>1 DEF CancelEmailChange
<1>3. /\ account' = account /\ session' = session /\ client' = client /\ proven' = proven
      /\ torn' = torn /\ flows' = flows
  BY DEF CancelEmailChange
<1> QED BY <1>2, <1>3, DeletedQuiet, LinksMove

\* A request goes on.
LEMMA Gone ==
  ASSUME AccountsInv, RowsInv, NEW c \in Clients, GoOn(c), client[c].steps # <<>>
  PROVE  /\ OnlyMoves(c) /\ client'[c] = Done(client[c])
         /\ client[c] \in Flows /\ RequestGood(client[c])
  BY DEF AccountsInv, Shape, RowsInv, GoOn, OnlyMoves

\* A request goes on from a statement that neither ends sessions nor marks a link.
LEMMA QuietWeb ==
  ASSUME WebInv, NEW c \in Clients, GoOn(c), client[c].steps \in {Superseding, Issuing},
         account' = account, session' = session, proven' = proven, torn' = torn, flows' = flows,
         uses' \in [Links -> Nat], \A l \in Links : LinkQuiet(l),
         \A l \in Links : link'[l].kind # None =>
           link'[l].user \in AccountRows /\ link'[l].address \in Addresses /\ link'[l].to \in Addresses
  PROVE  RestInv'
<1>1. /\ client[c].steps # <<>> /\ AccountsInv /\ RowsInv /\ SignOutInv /\ LinksInv
      /\ client[c].steps \notin {Clearing, Keeping, Accepting, Joining}
  BY Apart DEF WebInv
<1>2. /\ OnlyMoves(c) /\ client'[c] = Done(client[c])
      /\ client[c] \in Flows /\ RequestGood(client[c])
  BY <1>1, Gone
<1>3. client'[c].steps \in {Issuing, <<>>} /\ RequestGood(client'[c])
  BY <1>1, <1>2, DoneRow, Things
<1>4. client'[c].steps \notin {Verifying, Resetting, Readdressing, Accepting, Joining, Replacing, Keeping}
  BY <1>3, Apart
<1>5. RowsInv'
  BY <1>1, <1>2, <1>3, RowsStep DEF RowsInv
<1>6. SignOutInv'
  BY <1>1, <1>2, <1>4, PasswordsSame, QuietSignOut
<1>7. LinksInv'
  BY <1>1, <1>2, <1>4, QuietLinks
<1> QED BY <1>5, <1>6, <1>7 DEF RestInv

\* The older links are deleted.
LEMMA SupersedeWeb == ASSUME WebInv, NEW c \in Clients, Supersede(c) PROVE RestInv'
<1>1. PICK u, kind : u = client[c].user /\ kind = client[c].kind
  OBVIOUS
<1>2. /\ DeleteUnconsumed(u, kind) /\ GoOn(c) /\ NextIs(c, "supersede")
      /\ account' = account /\ session' = session /\ proven' = proven /\ torn' = torn /\ flows' = flows
  BY <1>1 DEF Supersede
<1>3. kind # "invite"
  BY <1>1, <1>2, NextHas DEF WebInv, AccountsInv, FlowGood
<1>4. client[c].steps = Superseding
  BY <1>2, NextRow DEF WebInv, RowsInv
<1>5. \A l \in Links : link'[l].kind # None =>
        link'[l].user \in AccountRows /\ link'[l].address \in Addresses /\ link'[l].to \in Addresses
  BY <1>2, <1>3, DeletedQuiet DEF WebInv, RowsInv
<1> QED BY <1>2, <1>3, <1>4, <1>5, DeletedQuiet, QuietWeb

\* A link is issued in a row that was spare, and used by nobody.
LEMMA IssueWeb == ASSUME WebInv, NEW c \in Clients, Issue(c) PROVE RestInv'
<1>1. PICK n : n = [kind |-> client[c].kind, user |-> client[c].user, address |-> client[c].address,
                    to |-> client[c].address, state |-> "live"]
  OBVIOUS
<1>2. PICK l \in Links : link[l] = NoLink /\ link' = [link EXCEPT ![l] = n]
  BY <1>1 DEF Issue, Recipient
<1>3. /\ GoOn(c) /\ NextIs(c, "issue") /\ uses' = uses
      /\ account' = account /\ session' = session /\ proven' = proven /\ torn' = torn /\ flows' = flows
  BY DEF Issue
<1>4. client[c].steps = Issuing /\ RequestGood(client[c])
  BY <1>3, NextRow DEF WebInv, RowsInv
<1>5. /\ link'[l] = n
      /\ n.kind # None => n.user \in AccountRows /\ n.address \in Addresses /\ n.to \in Addresses
      /\ n.state = "live" /\ \A k \in Links : k # l => link'[k] = link[k]
  BY <1>1, <1>2, <1>4, Apart DEF RequestGood, WebInv, AccountsInv, Shape, RowsShape
<1>6. uses[l] = 0 /\ link[l].kind # "invite" /\ link[l].state # "used"
  BY <1>2, Things DEF WebInv, LinksInv, UsedOnce, NoLink, Kinds
<1>7. uses' \in [Links -> Nat] /\ \A k \in Links : LinkQuiet(k)
  BY <1>3, <1>5, <1>6 DEF WebInv, LinksInv, LinkQuiet
<1>8. \A k \in Links : link'[k].kind # None =>
        link'[k].user \in AccountRows /\ link'[k].address \in Addresses /\ link'[k].to \in Addresses
  BY <1>5 DEF WebInv, RowsInv
<1> QED BY <1>3, <1>4, <1>7, <1>8, QuietWeb

-----------------------------------------------------------------------------
\* A link that was followed takes effect: it had not, and nobody else waits for it.
LEMMA EffectLinks ==
  ASSUME LinksInv, NEW c \in Clients, Following(c), OnlyMoves(c), link' = link, torn' = torn,
         TakesEffect(client[c].link), client[c].link # None,
         client'[c].steps \in {<<>>, Clearing, Keeping}
  PROVE  LinksInv'
<1>1. PICK m \in Links : m = client[c].link
  BY DEF LinksInv, FollowGood
<1>2. /\ link[m].kind # "invite" /\ link[m].state = "used" /\ uses[m] = 0
      /\ uses \in [Links -> Nat]
  BY <1>1 DEF LinksInv, FollowGood
<1>3. uses' = [uses EXCEPT ![m] = @ + 1]
  BY <1>1 DEF TakesEffect
<1>4. /\ uses' \in [Links -> Nat] /\ uses'[m] = 1
      /\ \A l \in Links : l # m => uses'[l] = uses[l]
  BY <1>2, <1>3
<1>5. /\ client'[c].steps \notin {Verifying, Resetting, Readdressing, Joining, Accepting}
      /\ client[c].steps # Accepting
  BY Apart DEF Following
<1>6. \A l \in Links : UsedOnce(l)'
  <2> TAKE l \in Links
  <2>1. Joins(l)' = Joins(l)
    BY <1>5 DEF Joins, OnlyMoves
  <2>2. UsedOnce(l)
    BY DEF LinksInv
  <2>3. CASE l = m
    BY <1>2, <1>4, <2>1, <2>2, <2>3 DEF UsedOnce
  <2>4. CASE l # m
    BY <1>4, <2>1, <2>2, <2>4 DEF UsedOnce
  <2> QED BY <2>3, <2>4
<1>7. \A d \in Clients : FollowGood(d)'
  <2> TAKE d \in Clients
  <2>1. CASE d = c
    BY <1>5, <2>1 DEF FollowGood, Following
  <2>2. CASE d # c
    <3>1. client'[d] = client[d] /\ FollowGood(d)
      BY <2>2 DEF OnlyMoves, LinksInv
    <3>2. Following(d) => client[d].link # m
      BY <1>1, <2>2 DEF LinksInv
    <3> QED BY <1>4, <3>1, <3>2 DEF FollowGood, Following
  <2> QED BY <2>1, <2>2
<1>8. \A d, e \in Clients : Following(d)' /\ Following(e)' /\ client'[d].link = client'[e].link => d = e
  BY <1>5 DEF LinksInv, Following, OnlyMoves
<1> QED BY <1>4, <1>6, <1>7, <1>8 DEF LinksInv

\* The account such a step writes keeps its password.
LEMMA MarkedWeb ==
  ASSUME WebInv, NEW c \in Clients, MarkEmailVerified(c) \/ UpdateUserEmail(c)
  PROVE  RestInv'
<1>1. /\ GoOn(c) /\ TakesEffect(client[c].link) /\ link' = link /\ session' = session
      /\ proven' = proven /\ torn' = torn /\ flows' = flows
  BY DEF MarkEmailVerified, UpdateUserEmail
<1>2. /\ MarkEmailVerified(c) => client[c].steps = Verifying
      /\ UpdateUserEmail(c) => client[c].steps = Readdressing
  BY NextRow DEF MarkEmailVerified, UpdateUserEmail, WebInv, RowsInv
<1>3. /\ client[c].steps # <<>> /\ client[c].steps \notin {Clearing, Keeping, Joining} /\ Following(c)
      /\ AccountsInv /\ RowsInv /\ SignOutInv /\ LinksInv
  BY <1>2, Apart DEF Following, WebInv
<1>4. /\ OnlyMoves(c) /\ client'[c] = Done(client[c])
      /\ client[c] \in Flows /\ RequestGood(client[c])
  BY <1>1, <1>3, Gone
<1>5. /\ RequestGood(client'[c]) /\ client'[c].steps \in {<<>>, Keeping}
      /\ client'[c].steps = Keeping => client'[c].kind # None
  <2>1. CASE client[c].steps = Verifying
    BY <1>3, <1>4, <2>1, DoneRow, Things, Apart
  <2>2. CASE client[c].steps = Readdressing
    <3>1. Done(client[c]).steps = Keeping /\ Carries(Done(client[c]), client[c])
      BY <1>3, <1>4, <2>2, DoneRow, Apart
    <3> QED BY <1>3, <1>4, <2>2, <3>1, DoneRow DEF RequestGood, Carries
  <2> QED BY <1>2, <2>1, <2>2
<1>6. client[c].user \in AccountRows /\ client[c].address \in Addresses \cup {None}
  BY <1>3, <1>4 DEF RequestGood, Flows
<1>7. PICK u \in AccountRows : u = client[c].user
  BY <1>6
<1>8. /\ PasswordsStay
      /\ \A v \in AccountRows : account'[v] = account[v] \/ account'[v].address \in Addresses
  <2>1. account \in [AccountRows -> AccountRow]
    BY <1>3 DEF AccountsInv, Shape, RowsShape, AccountRow
  <2>2. CASE MarkEmailVerified(c)
    <3>1. account' = [account EXCEPT ![u].verified = TRUE]
      BY <1>7, <2>2 DEF MarkEmailVerified
    <3>2. account[u] # NoAccount
      BY <1>3, <1>7, Things DEF AccountsInv, FlowGood
    <3>3. account[u].address \in Addresses
      BY <1>3, <3>2 DEF RowsInv
    <3> QED BY <2>1, <3>1, <3>3 DEF PasswordsStay, AccountRow
  <2>3. CASE UpdateUserEmail(c)
    <3>1. account' = [account EXCEPT ![u].address = client[c].address, ![u].verified = TRUE]
      BY <1>7, <2>3 DEF UpdateUserEmail
    <3>2. client[c].address \in Addresses
      BY <1>2, <1>4, <2>3 DEF RequestGood
    <3> QED BY <2>1, <3>1, <3>2 DEF PasswordsStay, AccountRow
  <2> QED BY <2>2, <2>3
<1>9. RowsInv'
  <2>1. /\ \A l \in Links : link'[l].kind # None =>
             link'[l].user \in AccountRows /\ link'[l].address \in Addresses /\ link'[l].to \in Addresses
        /\ proven' \subseteq AccountRows \X Addresses /\ torn' \subseteq AccountRows \cup Links
        /\ flows' \in 0..MaxFlows
    BY <1>1, <1>3 DEF RowsInv
  <2> QED BY <1>1, <1>3, <1>4, <1>5, <1>8, <2>1, RowsStep
<1>10. SignOutInv'
  <2>1. client'[c].steps # Replacing
    BY <1>5, Apart
  <2> QED BY <1>1, <1>3, <1>4, <1>5, <1>8, <2>1, QuietSignOut
<1>11. LinksInv'
  <2>1. client[c].link # None
    BY <1>3, AccountsAssumption DEF LinksInv, FollowGood
  <2> QED BY <1>1, <1>3, <1>4, <1>5, <2>1, EffectLinks
<1> QED BY <1>9, <1>10, <1>11 DEF RestInv

\* A new password: whoever wrote it is about to end the sessions opened with the earlier one.
LEMMA RehashWeb == ASSUME WebInv, NEW c \in Clients, UpdatePasswordHash(c) PROVE RestInv'
<1>1. PICK u \in AccountRows :
        /\ u = client[c].user /\ account[u].password < MaxPasswords
        /\ account' = [account EXCEPT ![u].password = @ + 1]
        /\ client' = [client EXCEPT ![c] = [Done(@) EXCEPT !.password = account[u].password + 1]]
  BY DEF UpdatePasswordHash
<1>2. /\ TakesEffect(client[c].link) /\ link' = link /\ session' = session
      /\ proven' = proven /\ torn' = torn /\ flows' = flows
  BY DEF UpdatePasswordHash
<1>3. /\ client[c].steps \in {Resetting, Replacing} /\ client[c].steps \notin {<<>>, Joining, Clearing, Keeping}
      /\ AccountsInv /\ RowsInv /\ SignOutInv /\ LinksInv
      /\ client[c] \in Flows /\ RequestGood(client[c]) /\ client \in [Clients -> Flows]
  BY NextRow, Apart DEF UpdatePasswordHash, WebInv, RowsInv, AccountsInv, Shape
<1>4. PICK d : d = Done(client[c])
  OBVIOUS
<1>5. /\ client[c].steps = Resetting => d.steps = Clearing
      /\ client[c].steps = Replacing => d.steps = Keeping
      /\ Carries(d, client[c]) /\ RequestGood(d) /\ d \in Flows
  <2>1. client[c].steps # Joining /\ client[c].steps \notin {Issuing, Verifying, Opening, Keeping}
    BY <1>3, Apart
  <2>2. d \in Flows
    BY <1>3, <1>4, RestGood DEF AccountsInv
  <2> QED BY <1>3, <1>4, <2>1, <2>2, DoneRow
<1>6. PICK r : r = [d EXCEPT !.password = account[u].password + 1]
  OBVIOUS
<1>7. /\ r.steps = d.steps /\ r.kind = d.kind /\ r.user = d.user /\ r.link = d.link
      /\ r.address = d.address /\ r.password = account[u].password + 1
  BY <1>5, <1>6 DEF Flows
<1>8. OnlyMoves(c) /\ client'[c] = r
  BY <1>1, <1>3, <1>4, <1>6 DEF OnlyMoves
<1>9. RequestGood(r)
  BY <1>5, <1>7 DEF RequestGood
<1>10. /\ account \in [AccountRows -> AccountRow] /\ account'[u].password = account[u].password + 1
       /\ account'[u].address = account[u].address
       /\ \A v \in AccountRows : v # u => account'[v] = account[v]
  BY <1>1, <1>3 DEF AccountsInv, Shape, RowsShape, AccountRow
<1>11. RowsInv'
  <2>1. /\ \A l \in Links : link'[l].kind # None =>
             link'[l].user \in AccountRows /\ link'[l].address \in Addresses /\ link'[l].to \in Addresses
        /\ proven' \subseteq AccountRows \X Addresses /\ torn' \subseteq AccountRows \cup Links
        /\ flows' \in 0..MaxFlows
    BY <1>2, <1>3 DEF RowsInv
  <2>2. account[u] # NoAccount
    BY <1>1, <1>3, Things DEF AccountsInv, FlowGood
  <2>3. account'[u].address \in Addresses
    BY <1>3, <1>10, <2>2 DEF RowsInv
  <2>4. \A v \in AccountRows : account'[v] = account[v] \/ account'[v].address \in Addresses
    BY <1>10, <2>3
  <2> QED BY <1>2, <1>3, <1>8, <1>9, <2>1, <2>4, RowsStep
<1>12. SignOutInv'
  <2>1. \A e \in Clients : e # c \/ client[c].steps = Resetting => Clears(c, u, e)'
    BY <1>1, <1>3, <1>5, <1>7, <1>8 DEF Clears, Carries, RequestGood
  <2>2. ASSUME NEW v \in AccountRows, NEW e \in Clients, Cleared(v, e) PROVE Cleared(v, e)'
    BY <1>2, <1>3, <1>8, <2>2 DEF Cleared, Clears, OnlyMoves
  <2>3. SUFFICES ASSUME NEW e \in Clients, SignedIn(e) PROVE SessionCurrent(e)' /\ KeepsOwn(e)'
    BY <1>2 DEF SignOutInv, SignedIn
  <2>4. session[e].user \in AccountRows /\ SessionCurrent(e) /\ KeepsOwn(e)
    BY <1>3, <2>3 DEF RowsInv, SignOutInv
  <2>5. CASE e # c
    <3>1. client'[e] = client[e] /\ Cleared(u, e)'
      BY <1>8, <2>1, <2>5 DEF OnlyMoves, Cleared
    <3>2. SessionCurrent(e)'
      BY <1>2, <1>10, <2>2, <2>4, <3>1 DEF SessionCurrent
    <3>3. KeepsOwn(e)'
      <4>1. client[e].steps = Keeping => client[e].user \in AccountRows
        BY <1>3, Apart DEF RowsInv, RequestGood
      <4> QED BY <1>2, <1>10, <2>2, <2>4, <3>1, <4>1 DEF KeepsOwn
    <3> QED BY <3>2, <3>3
  <2>6. CASE e = c
    <3>1. KeepsOwn(c)'
      <4>1. CASE client[c].steps = Replacing
        <5>1. client[c].kind = None /\ session[c].user = u
          BY <1>1, <1>3, <2>4, <2>6, <4>1 DEF KeepsOwn, RequestGood
        <5>2. /\ client'[c].user = u /\ client'[c].password = account'[u].password
          BY <1>1, <1>5, <1>7, <1>8, <1>10 DEF Carries
        <5> QED BY <1>2, <5>1, <5>2 DEF KeepsOwn
      <4>2. CASE client[c].steps = Resetting
        <5>1. client'[c].steps = Clearing
          BY <1>5, <1>7, <1>8, <4>2
        <5> QED BY <5>1, Apart DEF KeepsOwn
      <4> QED BY <1>3, <4>1, <4>2
    <3>2. SessionCurrent(c)'
      <4>1. CASE client[c].steps = Replacing
        BY <1>3, <1>5, <1>7, <1>8, <4>1 DEF SessionCurrent, Carries, RequestGood
      <4>2. CASE client[c].steps = Resetting
        BY <1>2, <1>3, <1>10, <2>1, <2>2, <2>4, <2>6, <4>2 DEF SessionCurrent, Cleared
      <4> QED BY <1>3, <4>1, <4>2
    <3> QED BY <2>6, <3>1, <3>2
  <2> QED BY <2>5, <2>6
<1>13. LinksInv'
  <2>1. CASE client[c].steps = Resetting
    <3>1. Following(c) /\ client[c].link # None /\ client'[c].steps = Clearing
      BY <1>3, <1>5, <1>7, <1>8, <2>1, AccountsAssumption DEF Following, LinksInv, FollowGood
    <3> QED BY <1>2, <1>3, <1>8, <3>1, EffectLinks
  <2>2. CASE client[c].steps = Replacing
    <3>1. client[c].link = None /\ client'[c].steps = Keeping
      BY <1>3, <1>5, <1>7, <1>8, <2>2 DEF RequestGood
    <3>2. uses' = uses /\ client[c].steps # Accepting
      BY <1>2, <2>2, <3>1, Apart DEF TakesEffect
    <3>3. uses' \in [Links -> Nat] /\ \A l \in Links : LinkQuiet(l)
      BY <1>2, <1>3, <3>2 DEF LinkQuiet, LinksInv
    <3>4. client'[c].steps \notin {Verifying, Resetting, Readdressing, Accepting, Joining}
      BY <3>1, Apart
    <3> QED BY <1>2, <1>3, <1>8, <3>2, <3>3, <3>4, QuietLinks
  <2> QED BY <1>3, <2>1, <2>2
<1> QED BY <1>11, <1>12, <1>13 DEF RestInv

-----------------------------------------------------------------------------
\* An invitation makes an account, and whoever accepts it is about to mark it.
LEMMA InvitedWeb == ASSUME WebInv, NEW c \in Clients, CreateInvitedUser(c) PROVE RestInv'
<1>1. PICK u \in Spare :
        /\ account' = [account EXCEPT ![u] = [address |-> client[c].address, verified |-> TRUE,
                                              password |-> 0, admin |-> FALSE]]
        /\ proven' = proven \cup {<<u, link[client[c].link].to>>}
        /\ client' = [client EXCEPT ![c] = [Done(@) EXCEPT !.user = u]]
  BY DEF CreateInvitedUser, Vouch
<1>2. /\ TakesEffect(client[c].link) /\ link' = link /\ session' = session /\ torn' = torn /\ flows' = flows
  BY DEF CreateInvitedUser
<1>3. /\ client[c].steps = Joining
      /\ AccountsInv /\ RowsInv /\ SignOutInv /\ LinksInv
      /\ client[c] \in Flows /\ RequestGood(client[c]) /\ client \in [Clients -> Flows]
  BY NextRow DEF CreateInvitedUser, WebInv, RowsInv, AccountsInv, Shape
<1>4. PICK d : d = Done(client[c])
  OBVIOUS
<1>5. d.steps = Accepting /\ Carries(d, client[c]) /\ d \in Flows
  <2>1. client[c].steps # <<>> /\ client[c].steps \notin {Issuing, Verifying, Opening, Keeping}
    BY <1>3, Apart
  <2>2. d \in Flows
    BY <1>3, <1>4, <2>1, RestGood DEF AccountsInv
  <2> QED BY <1>3, <1>4, <2>1, <2>2, DoneRow
<1>6. PICK r : r = [d EXCEPT !.user = u]
  OBVIOUS
<1>7. /\ r.steps = Accepting /\ r.kind = client[c].kind /\ r.user = u /\ r.link = client[c].link
      /\ r.address = client[c].address
  BY <1>5, <1>6 DEF Flows, Carries
<1>8. OnlyMoves(c) /\ client'[c] = r
  BY <1>1, <1>3, <1>4, <1>6 DEF OnlyMoves
<1>9. u \in AccountRows /\ account[u] = NoAccount
  BY DEF Spare
<1>10. PICK m \in Links : m = client[c].link /\ link[m].kind = "invite" /\ link[m].address = client[c].address
  BY <1>3, NextHas DEF CreateInvitedUser, AccountsInv, FlowGood
<1>11. link[m].to \in Addresses /\ client[c].address \in Addresses
  BY <1>3, <1>10, AccountsAssumption DEF RowsInv, Kinds
<1>12. RequestGood(r)
  BY <1>7, <1>9, <1>11, Apart DEF RequestGood, FlowRows
<1>13. PICK n : n = [address |-> client[c].address, verified |-> TRUE, password |-> 0, admin |-> FALSE]
  OBVIOUS
<1>14. /\ account' = [account EXCEPT ![u] = n] /\ account'[u] = n
       /\ n.address = client[c].address /\ n.password = NoAccount.password
  BY <1>1, <1>3, <1>9, <1>13 DEF NoAccount, AccountsInv, Shape, RowsShape
<1>15. /\ PasswordsStay
       /\ \A v \in AccountRows : account'[v] = account[v] \/ account'[v].address \in Addresses
  BY <1>3, <1>9, <1>11, <1>14 DEF PasswordsStay, AccountsInv, Shape, RowsShape
<1>16. RowsInv'
  <2>1. /\ \A l \in Links : link'[l].kind # None =>
             link'[l].user \in AccountRows /\ link'[l].address \in Addresses /\ link'[l].to \in Addresses
        /\ proven' \subseteq AccountRows \X Addresses /\ torn' \subseteq AccountRows \cup Links
        /\ flows' \in 0..MaxFlows
    BY <1>1, <1>2, <1>3, <1>9, <1>10, <1>11 DEF RowsInv
  <2> QED BY <1>2, <1>3, <1>8, <1>12, <1>15, <2>1, RowsStep
<1>17. SignOutInv'
  <2>1. /\ client'[c].steps \notin {Replacing, Keeping} /\ client[c].steps \notin {Clearing, Keeping}
    BY <1>3, <1>7, <1>8, Apart
  <2> QED BY <1>2, <1>3, <1>8, <1>15, <2>1, QuietSignOut
<1>18. LinksInv'
  <2>1. uses' = [uses EXCEPT ![m] = @ + 1] /\ uses \in [Links -> Nat]
    BY <1>2, <1>3, <1>10, AccountsAssumption DEF TakesEffect, LinksInv
  <2>2. /\ uses' \in [Links -> Nat] /\ uses'[m] = uses[m] + 1
        /\ \A l \in Links : l # m => uses'[l] = uses[l]
    BY <2>1
  <2>3. client'[c].steps \notin {Verifying, Resetting, Readdressing} /\ client[c].steps # Accepting
    BY <1>3, <1>7, <1>8, Apart
  <2>4. /\ c \notin Joins(m) /\ Joins(m)' = Joins(m) \cup {c}
        /\ \A l \in Links : l # m => Joins(l)' = Joins(l)
    BY <1>3, <1>7, <1>8, <1>10, <2>3 DEF Joins, OnlyMoves
  <2>5. \A l \in Links : UsedOnce(l)'
    <3> TAKE l \in Links
    <3>1. UsedOnce(l)
      BY <1>3 DEF LinksInv
    <3>2. CASE l # m
      BY <1>2, <2>2, <2>4, <3>1, <3>2 DEF UsedOnce
    <3>3. CASE l = m
      <4>1. /\ IsFiniteSet(Joins(m)) /\ Cardinality(Joins(m)) \in Nat
        BY <3>1, <3>3, FS_CardinalityType DEF UsedOnce
      <4>2. IsFiniteSet(Joins(m)') /\ Cardinality(Joins(m)') = Cardinality(Joins(m)) + 1
        BY <2>4, <4>1, FS_AddElement
      <4>3. uses[m] \in Nat
        BY <2>1
      <4> QED BY <1>2, <1>10, <2>2, <3>1, <3>3, <4>1, <4>2, <4>3 DEF UsedOnce
    <3> QED BY <3>2, <3>3
  <2>6. \A e \in Clients : FollowGood(e)'
    <3> TAKE e \in Clients
    <3>1. CASE e = c
      BY <1>2, <1>7, <1>8, <1>10, <2>3, <3>1 DEF FollowGood, Following
    <3>2. CASE e # c
      <4>1. client'[e] = client[e] /\ FollowGood(e)
        BY <1>3, <1>8, <3>2 DEF OnlyMoves, LinksInv
      <4>2. Following(e) => client[e].link # m
        BY <1>10, <4>1 DEF FollowGood
      <4> QED BY <1>2, <2>2, <4>1, <4>2 DEF FollowGood, Following
    <3> QED BY <3>1, <3>2
  <2>7. \A e, f \in Clients : Following(e)' /\ Following(f)' /\ client'[e].link = client'[f].link => e = f
    BY <1>3, <1>8, <2>3 DEF LinksInv, Following, OnlyMoves
  <2> QED BY <2>2, <2>5, <2>6, <2>7 DEF LinksInv
<1> QED BY <1>16, <1>17, <1>18 DEF RestInv

\* The invitation is marked: it was not used, and one request fewer is to mark it.
LEMMA AcceptedWeb == ASSUME WebInv, NEW c \in Clients, MarkAccepted(c) PROVE RestInv'
<1>1. /\ client[c].steps = Accepting /\ GoOn(c)
      /\ AccountsInv /\ RowsInv /\ SignOutInv /\ LinksInv
      /\ client[c] \in Flows /\ RequestGood(client[c])
  BY NextRow DEF MarkAccepted, WebInv, RowsInv, AccountsInv, Shape
<1>2. PICK m \in Links : m = client[c].link /\ link[m].kind = "invite"
  BY <1>1 DEF LinksInv, FollowGood
<1>3. /\ link' = [link EXCEPT ![m].state = "used"] /\ link[m].state # "used"
      /\ account' = account /\ session' = session /\ proven' = proven /\ uses' = uses
      /\ torn' = torn /\ flows' = flows
  BY <1>2 DEF MarkAccepted, Unconsumed
<1>4. client[c].steps \notin {<<>>, Issuing, Verifying, Opening, Keeping, Clearing, Joining}
  BY <1>1, Apart
<1>5. /\ OnlyMoves(c) /\ client'[c] = Done(client[c]) /\ client'[c].steps = Opening
      /\ RequestGood(client'[c])
  BY <1>1, <1>4, Gone, DoneRow
<1>6. client'[c].steps \notin {Verifying, Resetting, Readdressing, Accepting, Joining, Replacing, Keeping}
  BY <1>5, Apart
<1>7. \A k \in Links : /\ link'[k].kind = link[k].kind /\ link'[k].user = link[k].user
                       /\ link'[k].address = link[k].address /\ link'[k].to = link[k].to
                       /\ link'[k].state = IF k = m THEN "used" ELSE link[k].state
  BY <1>1, <1>3 DEF AccountsInv, Shape, RowsShape, LinkRows
<1>8. RowsInv'
  <2>1. /\ \A l \in Links : link'[l].kind # None =>
             link'[l].user \in AccountRows /\ link'[l].address \in Addresses /\ link'[l].to \in Addresses
        /\ proven' \subseteq AccountRows \X Addresses /\ torn' \subseteq AccountRows \cup Links
        /\ flows' \in 0..MaxFlows
    BY <1>1, <1>3, <1>7 DEF RowsInv
  <2> QED BY <1>1, <1>3, <1>5, <2>1, RowsStep
<1>9. SignOutInv'
  BY <1>1, <1>3, <1>4, <1>5, <1>6, PasswordsSame, QuietSignOut
<1>10. LinksInv'
  <2>1. uses \in [Links -> Nat]
    BY <1>1 DEF LinksInv
  <2>2. /\ c \in Joins(m) /\ Joins(m)' = Joins(m) \ {c}
        /\ \A l \in Links : l # m => Joins(l)' = Joins(l)
    BY <1>1, <1>2, <1>5, <1>6 DEF Joins, OnlyMoves
  <2>3. \A l \in Links : UsedOnce(l)'
    <3> TAKE l \in Links
    <3>1. UsedOnce(l)
      BY <1>1 DEF LinksInv
    <3>2. CASE l # m
      BY <1>3, <1>7, <2>2, <3>1, <3>2 DEF UsedOnce
    <3>3. CASE l = m
      <4>1. /\ IsFiniteSet(Joins(m)) /\ Cardinality(Joins(m)) \in Nat
        BY <3>1, <3>3, FS_CardinalityType DEF UsedOnce
      <4>2. IsFiniteSet(Joins(m)') /\ Cardinality(Joins(m)') = Cardinality(Joins(m)) - 1
        BY <2>2, <4>1, FS_RemoveElement
      <4>3. uses[m] \in Nat
        BY <2>1
      <4> QED BY <1>2, <1>3, <1>7, <3>1, <3>3, <4>1, <4>2, <4>3 DEF UsedOnce
    <3> QED BY <3>2, <3>3
  <2>4. \A e \in Clients : FollowGood(e)'
    <3> TAKE e \in Clients
    <3>1. CASE e = c
      BY <1>6, <3>1 DEF FollowGood, Following
    <3>2. CASE e # c
      <4>1. client'[e] = client[e] /\ FollowGood(e)
        BY <1>1, <1>5, <3>2 DEF OnlyMoves, LinksInv
      <4> QED BY <1>3, <1>7, <4>1 DEF FollowGood, Following
    <3> QED BY <3>1, <3>2
  <2>5. \A e, f \in Clients : Following(e)' /\ Following(f)' /\ client'[e].link = client'[f].link => e = f
    BY <1>1, <1>5, <1>6 DEF LinksInv, Following, OnlyMoves
  <2> QED BY <1>3, <2>1, <2>3, <2>4, <2>5 DEF LinksInv
<1> QED BY <1>8, <1>9, <1>10 DEF RestInv

-----------------------------------------------------------------------------
\* Sessions that end, or that nobody had: the links know nothing of them.
LEMMA SessionWeb ==
  ASSUME WebInv, NEW c \in Clients, GoOn(c), client[c].steps \in {Opening, Clearing, Keeping},
         account' = account, link' = link, proven' = proven, uses' = uses, flows' = flows,
         torn' \subseteq torn, \A l \in Links : l \in torn => l \in torn',
         \A d \in Clients : session'[d] \in {session[d], NoSession} \/ session'[d].user \in AccountRows
  PROVE  /\ RowsInv' /\ LinksInv' /\ OnlyMoves(c) /\ client'[c].steps \in {<<>>, Opening}
<1>1. /\ client[c].steps # <<>> /\ client[c].steps \notin {Accepting, Joining}
      /\ AccountsInv /\ RowsInv /\ LinksInv
  BY Apart DEF WebInv
<1>2. /\ OnlyMoves(c) /\ client'[c] = Done(client[c])
      /\ client[c] \in Flows /\ RequestGood(client[c])
  BY <1>1, Gone
<1>3. client'[c].steps \in {<<>>, Opening} /\ RequestGood(client'[c])
  BY <1>1, <1>2, DoneRow, Things
<1>4. client'[c].steps \notin {Verifying, Resetting, Readdressing, Accepting, Joining}
  BY <1>3, Apart
<1>5. RowsInv'
  BY <1>1, <1>2, <1>3, RowsStep DEF RowsInv
<1>6. uses' \in [Links -> Nat] /\ \A l \in Links : LinkQuiet(l)
  BY <1>1 DEF LinksInv, LinkQuiet
<1>7. LinksInv'
  BY <1>1, <1>2, <1>4, <1>6, QuietLinks
<1> QED BY <1>2, <1>3, <1>5, <1>7

\* A session opened with a password that was replaced meanwhile is a late one.
LEMMA MintWeb == ASSUME WebInv, NEW c \in Clients, MintSession(c) PROVE RestInv'
<1>1. PICK n : n = [user |-> client[c].user, password |-> client[c].password,
                    late |-> client[c].password # account[client[c].user].password]
  OBVIOUS
<1>2. /\ session' = [session EXCEPT ![c] = n] /\ GoOn(c)
      /\ account' = account /\ link' = link /\ proven' = proven /\ uses' = uses /\ torn' = torn
      /\ flows' = flows
  BY <1>1 DEF MintSession
<1>3. /\ client[c].steps = Opening /\ client[c].user \in AccountRows
      /\ client[c].steps \notin {<<>>, Clearing, Keeping, Joining} /\ SignOutInv /\ RowsInv
  BY NextRow, Apart DEF MintSession, WebInv, RowsInv, RequestGood
<1>4. \A d \in Clients : session'[d] = IF d = c THEN n ELSE session[d]
  BY <1>2 DEF WebInv, AccountsInv, Shape, RowsShape
<1>5. RowsInv' /\ LinksInv' /\ OnlyMoves(c) /\ client'[c].steps \in {<<>>, Opening}
  BY <1>1, <1>2, <1>3, <1>4, SessionWeb
<1>6. SignOutInv'
  <2>1. \A u \in AccountRows : \A d \in Clients : Cleared(u, d) => Cleared(u, d)'
    BY <1>2, <1>3, <1>5 DEF Cleared, Clears, OnlyMoves
  <2>2. SUFFICES ASSUME NEW d \in Clients, SignedIn(d)' PROVE SessionCurrent(d)' /\ KeepsOwn(d)'
    BY DEF SignOutInv
  <2>3. CASE d = c
    <3>1. SessionCurrent(c)'
      <4>1. session'[c] = n /\ n.user = client[c].user /\ n.password = client[c].password
        BY <1>1, <1>4
      <4>2. n.late = (client[c].password # account[client[c].user].password)
        BY <1>1, Zenon
      <4>3. n.late \/ n.password = account[n.user].password
        BY <4>1, <4>2, Zenon
      <4> QED BY <1>2, <4>1, <4>3 DEF SessionCurrent
    <3>2. KeepsOwn(c)'
      BY <1>5, Apart DEF KeepsOwn
    <3> QED BY <2>3, <3>1, <3>2
  <2>4. CASE d # c
    <3>1. client'[d] = client[d] /\ session'[d] = session[d] /\ SignedIn(d)
      BY <1>4, <1>5, <2>2, <2>4 DEF OnlyMoves, SignedIn
    <3>2. /\ session[d].user \in AccountRows /\ SessionCurrent(d) /\ KeepsOwn(d)
          /\ client[d].steps = Keeping => client[d].user \in AccountRows
      BY <1>3, <3>1, Apart DEF RowsInv, SignOutInv, RequestGood
    <3> QED BY <1>2, <2>1, <3>1, <3>2 DEF SessionCurrent, KeepsOwn
  <2> QED BY <2>3, <2>4
<1> QED BY <1>5, <1>6 DEF RestInv

\* A session that outlives the end of another account's is as current as it was.
LEMMA OthersCurrent ==
  ASSUME RowsInv, SignOutInv, NEW c \in Clients, NEW d \in Clients, OnlyMoves(c), d # c,
         account' = account, SignedIn(d), session'[d] = session[d],
         session[d].user # client[c].user,
         \A u \in AccountRows \ {client[c].user} : u \in torn => u \in torn'
  PROVE  SessionCurrent(d)' /\ KeepsOwn(d)'
<1>1. \A u \in AccountRows \ {client[c].user} : Cleared(u, d) => Cleared(u, d)'
  BY DEF Cleared, Clears, OnlyMoves
<1>2. client'[d] = client[d]
  BY DEF OnlyMoves
<1>3. session[d].user \in AccountRows /\ SessionCurrent(d) /\ KeepsOwn(d)
  BY DEF RowsInv, SignOutInv
<1>4. SessionCurrent(d)'
  BY <1>1, <1>2, <1>3 DEF SessionCurrent
<1>5. KeepsOwn(d)'
  BY <1>1, <1>2, <1>3 DEF KeepsOwn
<1> QED BY <1>4, <1>5

\* Every session of the account ends, and with them what was left of broken-off flows.
LEMMA EndedWeb == ASSUME WebInv, NEW c \in Clients, DeleteSessionsForUser(c) PROVE RestInv'
<1>1. /\ GoOn(c) /\ torn' = torn \ {client[c].user}
      /\ account' = account /\ link' = link /\ proven' = proven /\ uses' = uses /\ flows' = flows
      /\ \A d \in Clients :
           session'[d] = IF session[d].user = client[c].user THEN NoSession ELSE session[d]
  BY DEF DeleteSessionsForUser
<1>2. client[c].steps = Clearing /\ client[c].user \in AccountRows /\ RowsInv /\ SignOutInv
  <2>1. client[c].steps = Clearing /\ RequestGood(client[c]) /\ RowsInv /\ SignOutInv
    BY NextRow DEF DeleteSessionsForUser, WebInv, RowsInv
  <2> QED BY <2>1, Apart DEF RequestGood
<1>3. \A l \in Links : l \in torn => l \in torn'
  BY <1>1, <1>2, AccountsAssumption
<1>4. RowsInv' /\ LinksInv' /\ OnlyMoves(c) /\ client'[c].steps \in {<<>>, Opening}
  BY <1>1, <1>2, <1>3, SessionWeb
<1>5. SignOutInv'
  <2>1. SUFFICES ASSUME NEW d \in Clients, SignedIn(d)' PROVE SessionCurrent(d)' /\ KeepsOwn(d)'
    BY DEF SignOutInv
  <2>2. session'[d] = session[d] /\ SignedIn(d) /\ session[d].user # client[c].user
    BY <1>1, <2>1 DEF SignedIn
  <2>3. CASE d # c
    BY <1>1, <1>2, <1>4, <2>2, <2>3, OthersCurrent
  <2>4. CASE d = c
    <3>1. KeepsOwn(c)'
      BY <1>4, Apart DEF KeepsOwn
    <3>2. SessionCurrent(c) /\ client[c].steps # Keeping /\ session[c].user \in AccountRows
      BY <1>2, <2>2, <2>4, Apart DEF SignOutInv, RowsInv
    <3>3. Cleared(session[c].user, c) => Cleared(session[c].user, c)'
      BY <1>1, <1>4, <2>2, <2>4, <3>2 DEF Cleared, Clears, OnlyMoves
    <3>4. SessionCurrent(c)'
      BY <1>1, <2>2, <2>4, <3>2, <3>3 DEF SessionCurrent
    <3> QED BY <2>4, <3>1, <3>4
  <2> QED BY <2>3, <2>4
<1> QED BY <1>4, <1>5 DEF RestInv

\* The one session kept has the password just chosen, or is about to end with the others.
LEMMA KeptWeb == ASSUME WebInv, NEW c \in Clients, DeleteSessionsForUserExcept(c) PROVE RestInv'
<1>1. /\ GoOn(c) /\ torn' = torn
      /\ account' = account /\ link' = link /\ proven' = proven /\ uses' = uses /\ flows' = flows
      /\ \A d \in Clients :
           session'[d] = IF d = c THEN Keep(c)
                         ELSE IF session[d].user = client[c].user THEN NoSession ELSE session[d]
  BY DEF DeleteSessionsForUserExcept
<1>2. client[c].steps = Keeping /\ RowsInv /\ SignOutInv
  BY NextRow DEF DeleteSessionsForUserExcept, WebInv, RowsInv
<1>3. /\ ~SignedIn(c) => Keep(c) = NoSession
      /\ SignedIn(c) => Keep(c).user = session[c].user /\ session[c].user \in AccountRows
      /\ client[c].kind # None => Keep(c) = session[c]
      /\ SignedIn(c) /\ client[c].kind = None => Keep(c).password = client[c].password
  BY <1>2 DEF Keep, SignedIn, RowsInv, WebInv, AccountsInv, Shape, RowsShape, SessionRows
<1>4. RowsInv' /\ LinksInv' /\ OnlyMoves(c) /\ client'[c].steps \in {<<>>, Opening}
  BY <1>1, <1>2, <1>3, SessionWeb
<1>5. SignOutInv'
  <2>1. SUFFICES ASSUME NEW d \in Clients, SignedIn(d)' PROVE SessionCurrent(d)' /\ KeepsOwn(d)'
    BY DEF SignOutInv
  <2>2. CASE d # c
    <3>1. session'[d] = session[d] /\ SignedIn(d) /\ session[d].user # client[c].user
      BY <1>1, <2>1, <2>2 DEF SignedIn
    <3> QED BY <1>1, <1>2, <1>4, <2>2, <3>1, OthersCurrent
  <2>3. CASE d = c
    <3>1. KeepsOwn(c)'
      BY <1>4, Apart DEF KeepsOwn
    <3>2. SignedIn(c) /\ session'[c] = Keep(c) /\ SessionCurrent(c) /\ KeepsOwn(c)
      BY <1>1, <1>2, <1>3, <2>1, <2>3 DEF SignedIn, SignOutInv
    <3>3. \A u : Cleared(u, c) => Cleared(u, c)'
      BY <1>1, <1>2, <1>4, Apart DEF Cleared, Clears, OnlyMoves
    <3>4. ASSUME client[c].kind = None PROVE SessionCurrent(c)'
      BY <1>1, <1>2, <1>3, <3>2, <3>3, <3>4 DEF SessionCurrent, KeepsOwn
    <3>5. ASSUME client[c].kind # None PROVE SessionCurrent(c)'
      BY <1>1, <1>3, <3>2, <3>3, <3>5 DEF SessionCurrent
    <3> QED BY <2>3, <3>1, <3>4, <3>5
  <2> QED BY <2>2, <2>3
<1> QED BY <1>4, <1>5 DEF RestInv

\* A session less.
LEMMA LogoutWeb == ASSUME WebInv, NEW c \in Clients, Logout(c) PROVE RestInv'
<1>1. /\ account' = account /\ link' = link /\ client' = client /\ proven' = proven
      /\ uses' = uses /\ torn' = torn /\ flows' = flows
      /\ session' = [session EXCEPT ![c] = NoSession]
  BY DEF Logout
<1>2. /\ RowsInv /\ SignOutInv /\ LinksInv
      /\ \A d \in Clients : session'[d] = IF d = c THEN NoSession ELSE session[d]
  BY <1>1 DEF WebInv, AccountsInv, Shape, RowsShape
<1>3. RowsInv'
  BY <1>1, <1>2 DEF RowsInv, SignedIn
<1>4. SignOutInv'
  <2>1. \A u, d : Cleared(u, d) => Cleared(u, d)'
    BY <1>1 DEF Cleared, Clears
  <2>2. \A d \in Clients : SignedIn(d)' => SignedIn(d) /\ session'[d] = session[d]
    BY <1>2 DEF SignedIn
  <2> QED BY <1>1, <1>2, <2>1, <2>2 DEF SignOutInv, SessionCurrent, KeepsOwn
<1>5. LinksInv'
  <2>1. OnlyMoves(c) /\ uses' \in [Links -> Nat] /\ \A l \in Links : LinkQuiet(l)
    BY <1>1, <1>2 DEF OnlyMoves, LinkQuiet, LinksInv
  <2> QED BY <1>1, <1>2, <2>1, QuietLinks
<1> QED BY <1>3, <1>4, <1>5 DEF RestInv

\* A flow that breaks off between two statements leaves its mark.
LEMMA LeaveWeb == ASSUME WebInv, NEW c \in Clients, LeaveFlow(c) PROVE RestInv'
<1>1. /\ account' = account /\ link' = link /\ session' = session /\ proven' = proven
      /\ uses' = uses /\ flows' = flows
      /\ client' = [client EXCEPT ![c] = Idle]
      /\ torn' = torn \cup
           (IF NextIs(c, "sign out all") \/ NextIs(c, "sign out others") THEN {client[c].user} ELSE {})
           \cup (IF NextIs(c, "accept") THEN {client[c].link} ELSE {})
  BY DEF LeaveFlow
<1>2. AccountsInv /\ RowsInv /\ SignOutInv /\ LinksInv /\ RequestGood(client[c])
  BY DEF WebInv, RowsInv
<1>3. OnlyMoves(c) /\ client'[c] = Idle
  BY <1>1, <1>2 DEF OnlyMoves, AccountsInv, Shape
<1>4. /\ client[c].steps \in {Clearing, Keeping} => client[c].user \in torn'
      /\ client[c].steps = Accepting => client[c].link \in torn'
      /\ torn \subseteq torn'
  BY <1>1, <1>2, NextRow
<1>5. torn' \subseteq AccountRows \cup Links
  <2>1. torn \subseteq AccountRows \cup Links
    BY <1>2 DEF RowsInv
  <2>2. NextIs(c, "sign out all") \/ NextIs(c, "sign out others") => client[c].user \in AccountRows
    BY <1>2, NextRow, Apart DEF RequestGood
  <2>3. NextIs(c, "accept") => client[c].link \in Links
    BY <1>2, NextRow DEF LinksInv, FollowGood
  <2> QED BY <1>1, <2>1, <2>2, <2>3
<1>6. client'[c].steps = <<>> /\ RequestGood(client'[c])
  BY <1>3, Things, Apart DEF RequestGood, FlowRows
<1>7. RowsInv'
  BY <1>1, <1>2, <1>3, <1>5, <1>6, RowsStep DEF RowsInv
<1>8. client'[c].steps \notin {Verifying, Resetting, Readdressing, Accepting, Joining, Replacing, Keeping}
  BY <1>6, Apart
<1>9. SignOutInv'
  BY <1>1, <1>2, <1>3, <1>4, <1>8, PasswordsSame, QuietSignOut
<1>10. LinksInv'
  <2>1. uses' \in [Links -> Nat] /\ \A l \in Links : LinkQuiet(l)
    BY <1>1, <1>2 DEF LinkQuiet, LinksInv
  <2> QED BY <1>2, <1>3, <1>4, <1>8, <2>1, QuietLinks
<1> QED BY <1>7, <1>9, <1>10 DEF RestInv

-----------------------------------------------------------------------------
\* A step that changes nothing.
LEMMA StoppedRest ==
  ASSUME WebInv, UNCHANGED accountVars
  PROVE  RestInv'
<1>1. /\ account' = account /\ link' = link /\ session' = session /\ client' = client
      /\ proven' = proven /\ uses' = uses /\ torn' = torn /\ flows' = flows
  BY DEF accountVars
<1>2. uses' \in [Links -> Nat] /\ \A l \in Links : LinkQuiet(l)
  BY <1>1 DEF WebInv, LinksInv, LinkQuiet
<1>3. \A l \in Links : link'[l].kind # None =>
        /\ link'[l].kind = link[l].kind /\ link'[l].user = link[l].user
        /\ link'[l].address = link[l].address /\ link'[l].to = link[l].to
  BY <1>1
<1> QED BY <1>1, <1>2, <1>3, LinksMove

\* Every step keeps what the three properties rest on.
LEMMA NextRest == ASSUME WebInv, [AccountsNext]_accountVars PROVE RestInv'
<1>1. CASE UNCHANGED accountVars
  BY <1>1, StoppedRest
<1>2. ASSUME NEW c \in Clients, ClientStep(c) PROVE RestInv'
  BY <1>2, SupersedeWeb, IssueWeb, MarkedWeb, RehashWeb, InvitedWeb, AcceptedWeb, MintWeb, EndedWeb,
     KeptWeb, LeaveWeb DEF ClientStep
<1>3. ASSUME NEW c \in Clients, ChangePassword(c) \/ Logout(c) \/ CancelEmailChange(c) PROVE RestInv'
  BY <1>3, AskedWeb, LogoutWeb, CancelWeb
<1>4. ASSUME NEW c \in Clients, NEW a \in Addresses, Signup(c, a) \/ RequestEmailChange(c, a) \/ Invite(c, a)
      PROVE  RestInv'
  BY <1>4, SignupWeb, AskedWeb
<1>5. ASSUME NEW c \in Clients, NEW u \in AccountRows,
             ResendVerification(c, u) \/ ForgotPassword(c, u) \/ Login(c, u)
      PROVE  RestInv'
  BY <1>5, AskedWeb
<1>6. ASSUME NEW c \in Clients, NEW l \in Links,
             \/ VerifyEmail(c, l) \/ ResetPassword(c, l) \/ ConfirmEmailChange(c, l)
             \/ AcceptInvitation(c, l) \/ Rotate(c, l) \/ Revoke(c, l)
      PROVE  RestInv'
  BY <1>6, FollowWeb, AskedWeb, StateWeb
<1>7. ASSUME NEW l \in Links, Expire(l) PROVE RestInv'
  BY <1>7, StateWeb
<1> QED BY <1>1, <1>2, <1>3, <1>4, <1>5, <1>6, <1>7 DEF AccountsNext

\* The invariant of the accounts and what the three properties rest on, together.
LEMMA NextWeb == WebInv /\ [AccountsNext]_accountVars => WebInv'
  BY NextRest, NextAccountsInv DEF WebInv, RestInv

\* It holds to begin with: nobody is signed in, and no link is issued.
LEMMA InitWeb == AccountsInit => WebInv
<1> SUFFICES ASSUME AccountsInit PROVE WebInv
  OBVIOUS
<1>1. AccountsInv
  BY InitAccountsInv
<1>2. \A c \in Clients : client[c].steps = <<>> /\ client[c].kind = None /\ session[c] = NoSession
  BY Things DEF AccountsInit
<1>3. \A c \in Clients : RequestGood(client[c])
  BY <1>2, Apart DEF RequestGood, FlowRows
<1>4. RowsInv
  <2>1. \A l \in Links : link[l].kind = None
    BY Things DEF AccountsInit
  <2>2. \A u \in AccountRows : account[u] # NoAccount => account[u].address \in Addresses
    BY AccountsAssumption DEF AccountsInit
  <2>3. proven \subseteq AccountRows \X Addresses
    BY AccountsAssumption DEF AccountsInit
  <2>4. torn \subseteq AccountRows \cup Links /\ flows \in 0..MaxFlows
    BY AccountsAssumption DEF AccountsInit
  <2> QED BY <1>2, <1>3, <2>1, <2>2, <2>3, <2>4 DEF RowsInv, SignedIn
<1>5. SignOutInv
  BY <1>2 DEF SignOutInv, SignedIn
<1>6. LinksInv
  <2>1. uses \in [Links -> Nat] /\ \A l \in Links : uses[l] = 0 /\ link[l].kind = None
    BY Things DEF AccountsInit
  <2>2. \A c \in Clients : ~Following(c) /\ client[c].steps \notin {Joining, Accepting}
    BY <1>2, Apart DEF Following
  <2>3. \A l \in Links : Joins(l) = {}
    BY <2>2 DEF Joins
  <2>4. IsFiniteSet({}) /\ None # "invite"
    BY FS_EmptySet, AccountsAssumption DEF Kinds
  <2>5. \A l \in Links : UsedOnce(l)
    <3> TAKE l \in Links
    <3>1. IsFiniteSet(Joins(l))
      BY <2>3, <2>4
    <3> QED BY <2>1, <2>4, <3>1 DEF UsedOnce
  <2>6. \A c \in Clients : FollowGood(c)
    BY <2>2 DEF FollowGood
  <2> QED BY <2>1, <2>2, <2>5, <2>6 DEF LinksInv
<1> QED BY <1>1, <1>4, <1>5, <1>6 DEF WebInv

\* Sessions, links and what requests have left to do agree, in every reachable state.
THEOREM WebInvariant == AccountsSpec => []WebInv
  BY InitWeb, NextWeb, PTL DEF AccountsSpec

\* What the invariant says of sessions.
LEMMA WebSignsOut == WebInv => PasswordChangeSignsOut
<1> SUFFICES ASSUME WebInv, NEW c \in Clients, SignedIn(c)
             PROVE  \/ session[c].password = account[session[c].user].password
                    \/ session[c].late
                    \/ session[c].user \in torn
                    \/ \E d \in Clients : /\ client[d].user = session[c].user
                                          /\ NextIs(d, "sign out all") \/ NextIs(d, "sign out others")
  BY DEF PasswordChangeSignsOut
<1>1. SessionCurrent(c) /\ KeepsOwn(c)
  BY DEF WebInv, SignOutInv
<1>2. \A d \in Clients : client[d].steps \in {Clearing, Keeping} =>
        NextIs(d, "sign out all") \/ NextIs(d, "sign out others")
  BY NextRow DEF WebInv, RowsInv
<1>3. Cleared(session[c].user, c) =>
        \/ session[c].user \in torn
        \/ \E d \in Clients : client[d].user = session[c].user /\ client[d].steps \in {Clearing, Keeping}
  BY DEF Cleared, Clears
<1>4. client[c].steps = Keeping /\ client[c].kind = None => client[c].user = session[c].user
  BY <1>1 DEF KeepsOwn
<1> QED BY <1>1, <1>2, <1>3, <1>4 DEF SessionCurrent

\* What the invariant says of links.
LEMMA WebLinks == WebInv => LinksWorkOnce
<1> SUFFICES ASSUME WebInv, NEW l \in Links, l \notin torn,
                    \A c \in Clients : client[c].link = l => ~NextIs(c, "accept")
             PROVE  uses[l] <= 1
  BY DEF LinksWorkOnce
<1>1. uses[l] \in Nat /\ UsedOnce(l)
  BY DEF WebInv, LinksInv
<1>2. Joins(l) = {}
  BY NextRow DEF WebInv, RowsInv, Joins
<1>3. Cardinality(Joins(l)) = 0
  BY <1>2, FS_EmptySet
<1> QED BY <1>1, <1>3 DEF UsedOnce

\* What the invariant says of types.
LEMMA WebTypes == WebInv => AccountsTypeOK
  BY DEF WebInv, AccountsInv, Shape, RowsShape, RowsInv, AccountsTypeOK, LinkRows, SessionRows, States

\* A password that was replaced leaves no session behind that was opened with an earlier
\* one: it has ended, is about to, or the flow broke off, however resets and changes of
\* password cross each other and the sign-ins (ResetPassword, ChangePassword).
THEOREM PasswordsSignOut == AccountsSpec => []PasswordChangeSignsOut
  BY WebInvariant, WebSignsOut, PTL

\* A link takes effect once, whoever else follows it meanwhile: an invitation twice only
\* if the first acceptance is not, or will never be, marked (ConsumeUserToken, MarkAccepted).
THEOREM LinksOnce == AccountsSpec => []LinksWorkOnce
  BY WebInvariant, WebLinks, PTL

\* The rows and requests stay of their types.
THEOREM AccountsTyped == AccountsSpec => []AccountsTypeOK
  BY WebInvariant, WebTypes, PTL

-----------------------------------------------------------------------------
(***************************************************************************)
(* The cooldown keeps to its schedule for any number of sign-ins, addresses *)
(* and failures, wherever no failure crosses another or a success.          *)
(***************************************************************************)
\* A sign-in is of some address from the moment it is let through.
Addressed == \A p \in Attempts : attempt[p].at # "none" => attempt[p].address \in Addressees

\* The one failure on its way, where none crosses another, has read the row as it is.
OneReader(a) ==
  /\ row[a].lock = lockoutDuration(row[a].count)
  /\ \A p \in Failing(a) : attempt[p].read = row[a].count
  /\ \A p, q \in Failing(a) : p = q

ThrottleInv == ThrottleTypeOK /\ Addressed /\ \A a \in Addressees \ crossed : OneReader(a)

\* An address is of someone, and so is none.
LEMMA SomeoneIs == Addressees \subseteq Someone /\ NoAddress \in Someone
  BY DEF Someone

\* No row, and no attempt.
LEMMA Nothing ==
  /\ NoRow \in [count : 0..MaxFailures, lock : 0..Longest, running : BOOLEAN]
  /\ NoAttempt \in [at : {"none", "compare"}, address : Someone, read : 0..MaxFailures]
  /\ NoAttempt \in [at : {"none", "compare", "record"}, address : Someone, read : 0..MaxFailures]
  /\ NoAttempt.at = "none"
  BY SomeoneIs, ThrottleAssumption DEF NoRow, NoAttempt

\* The schedule starts from none and never exceeds its cap.
LEMMA LockBounded == \A n \in Nat : lockoutDuration(n) \in 0..Longest
  BY ThrottleAssumption DEF lockoutDuration

\* The invariant holds to begin with.
LEMMA InitThrottleInv == ThrottleInit => ThrottleInv
<1> SUFFICES ASSUME ThrottleInit PROVE ThrottleInv
  OBVIOUS
<1>1. ThrottleTypeOK
  BY Nothing DEF ThrottleInit, ThrottleTypeOK
<1>2. Addressed
  BY DEF ThrottleInit, Addressed, NoAttempt
<1>3. lockoutDuration(0) = 0
  BY ThrottleAssumption DEF lockoutDuration
<1>4. \A a \in Addressees : Failing(a) = {}
  BY DEF ThrottleInit, Failing, NoAttempt
<1> QED BY <1>1, <1>2, <1>3, <1>4 DEF ThrottleInit, ThrottleInv, OneReader, NoRow

-----------------------------------------------------------------------------
\* A step that only sends one attempt away from the rows.
LEMMA QuietAttempt ==
  ASSUME ThrottleInv, NEW p \in Attempts,
         NEW r \in [at : {"none", "compare"}, address : Someone, read : 0..MaxFailures],
         r.at # "none" => r.address \in Addressees,
         attempt' = [attempt EXCEPT ![p] = r], UNCHANGED <<row, crossed>>
  PROVE  ThrottleInv'
<1>1. ThrottleTypeOK'
  BY DEF ThrottleInv, ThrottleTypeOK
<1>2. Addressed'
  BY DEF ThrottleInv, ThrottleTypeOK, Addressed
<1>3. ASSUME NEW a \in Addressees \ crossed PROVE OneReader(a)'
  <2>1. Failing(a)' \subseteq Failing(a)
    BY DEF ThrottleInv, ThrottleTypeOK, Failing
  <2>2. \A q \in Failing(a)' : attempt'[q] = attempt[q]
    BY <2>1 DEF ThrottleInv, ThrottleTypeOK, Failing
  <2> QED BY <2>1, <2>2 DEF ThrottleInv, OneReader
<1> QED BY <1>1, <1>2, <1>3 DEF ThrottleInv

\* A failure reads the count; if another is on its way, they cross.
LEMMA ReadKeeps == ASSUME ThrottleInv, NEW p \in Attempts, ReadCount(p) PROVE ThrottleInv'
<1>1. PICK a \in Addressees : a = attempt[p].address
  BY DEF ThrottleInv, Addressed, ReadCount
<1>0. PICK r : r = [attempt[p] EXCEPT !.at = "record", !.read = row[a].count]
  OBVIOUS
<1>2. /\ attempt' = [attempt EXCEPT ![p] = r]
      /\ r.at = "record" /\ r.address = a /\ r.read = row[a].count
      /\ r \in [at : {"none", "compare", "record"}, address : Someone, read : 0..MaxFailures]
  BY <1>0, <1>1, SomeoneIs DEF ThrottleInv, ThrottleTypeOK, ReadCount
<1>3. ThrottleTypeOK'
  BY <1>1, <1>2 DEF ThrottleInv, ThrottleTypeOK, ReadCount
<1>4. Addressed'
  BY <1>1, <1>2 DEF ThrottleInv, ThrottleTypeOK, Addressed
<1>5. ASSUME NEW b \in Addressees \ crossed' PROVE OneReader(b)'
  <2>1. b \notin crossed /\ OneReader(b) /\ row' = row
    BY <1>5 DEF ThrottleInv, ReadCount
  <2>2. CASE b = a
    <3>1. Failing(b) = {}
      BY <1>5, <1>1, <2>2 DEF ReadCount
    <3>2. Failing(b)' = {p}
      BY <3>1, <1>2, <2>2 DEF ThrottleInv, ThrottleTypeOK, Failing
    <3>3. attempt'[p].read = row[a].count
      BY <1>2 DEF ThrottleInv, ThrottleTypeOK
    <3> QED BY <2>1, <2>2, <3>2, <3>3 DEF OneReader
  <2>3. CASE b # a
    <3>1. Failing(b)' \subseteq Failing(b) \ {p}
      BY <1>2, <2>3 DEF ThrottleInv, ThrottleTypeOK, Failing
    <3>2. \A q \in Failing(b)' : attempt'[q] = attempt[q]
      BY <3>1, <1>2 DEF ThrottleInv, ThrottleTypeOK, Failing
    <3> QED BY <2>1, <3>1, <3>2 DEF OneReader
  <2> QED BY <2>2, <2>3
<1> QED BY <1>3, <1>4, <1>5 DEF ThrottleInv

\* A write of the row of a leaves every other address's failures and row alone.
LEMMA OthersRest ==
  ASSUME ThrottleInv, NEW p \in Attempts, NEW a, attempt[p].address = a,
         attempt' = [attempt EXCEPT ![p] = NoAttempt],
         NEW b \in Addressees, b # a, b \notin crossed, row'[b] = row[b]
  PROVE  OneReader(b)'
<1>1. Failing(b)' \subseteq Failing(b) \ {p}
  BY DEF ThrottleInv, ThrottleTypeOK, Failing, NoAttempt
<1>2. \A q \in Failing(b)' : attempt'[q] = attempt[q]
  BY <1>1 DEF ThrottleInv, ThrottleTypeOK, Failing
<1> QED BY <1>1, <1>2 DEF ThrottleInv, OneReader

\* A failure that nothing crossed writes the lock of the count it adds to.
LEMMA RecordKeeps == ASSUME ThrottleInv, NEW p \in Attempts, RecordFailedLogin(p) PROVE ThrottleInv'
<1>0. PICK a \in Addressees : a = attempt[p].address
  BY DEF ThrottleInv, Addressed, RecordFailedLogin
<1>1. p \in Failing(a) /\ attempt[p].read \in Nat
  BY <1>0, ThrottleAssumption DEF ThrottleInv, ThrottleTypeOK, RecordFailedLogin, Failing
<1>2. PICK lock \in 0..Longest : lock = lockoutDuration(nextCount(attempt[p].read))
  BY <1>1, LockBounded DEF nextCount
<1>3. /\ row' = [row EXCEPT ![a] = [count |-> @.count + 1, lock |-> lock, running |-> lock > 0]]
      /\ row[a].count < MaxFailures /\ crossed' = crossed
      /\ attempt' = [attempt EXCEPT ![p] = NoAttempt]
  BY <1>0, <1>2 DEF RecordFailedLogin
<1>4. ThrottleTypeOK'
  <2>1. NoAttempt \in [at : {"none", "compare", "record"}, address : Someone, read : 0..MaxFailures]
    BY SomeoneIs, ThrottleAssumption DEF NoAttempt
  <2>2. row[a].count + 1 \in 0..MaxFailures
    BY <1>1, <1>3, ThrottleAssumption DEF ThrottleInv, ThrottleTypeOK
  <2> QED BY <1>1, <1>2, <1>3, <2>1, <2>2 DEF ThrottleInv, ThrottleTypeOK
<1>5. Addressed'
  BY <1>3 DEF ThrottleInv, ThrottleTypeOK, Addressed, NoAttempt
<1>6. ASSUME NEW b \in Addressees \ crossed' PROVE OneReader(b)'
  <2>1. CASE b = a
    <3>1. OneReader(a) /\ Failing(a) = {p} /\ attempt[p].read = row[a].count
      BY <1>1, <1>3, <1>6, <2>1 DEF ThrottleInv, OneReader
    <3>2. Failing(a)' = {}
      BY <3>1, <1>1, <1>3 DEF ThrottleInv, ThrottleTypeOK, Failing, NoAttempt
    <3>3. row'[a].count = row[a].count + 1 /\ row'[a].lock = lock
      BY <1>1, <1>3 DEF ThrottleInv, ThrottleTypeOK
    <3>4. lock = lockoutDuration(row[a].count + 1)
      BY <1>2, <3>1 DEF nextCount
    <3>5. Failing(b)' = {} /\ row'[b].lock = lockoutDuration(row'[b].count)
      BY <2>1, <3>2, <3>3, <3>4
    <3> QED BY <3>5 DEF OneReader, lockoutDuration
  <2>2. CASE b # a
    <3>1. row'[b] = row[b] /\ b \notin crossed
      BY <1>3, <1>6, <2>2 DEF ThrottleInv, ThrottleTypeOK
    <3> QED BY <3>1, <2>2, <1>0, <1>3, OthersRest
  <2> QED BY <2>1, <2>2
<1> QED BY <1>4, <1>5, <1>6 DEF ThrottleInv

\* A success clears the row; failures on their way have crossed it.
LEMMA SignInKeeps == ASSUME ThrottleInv, NEW p \in Attempts, SignIn(p) PROVE ThrottleInv'
<1>0. PICK a \in Addressees : a = attempt[p].address
  BY DEF ThrottleInv, Addressed, SignIn
<1>1. p \notin Failing(a)
  BY <1>0 DEF SignIn, Failing
<1>2. /\ row' = [row EXCEPT ![a] = NoRow]
      /\ crossed' = IF Failing(a) = {} THEN crossed \ {a} ELSE crossed \cup {a}
      /\ attempt' = [attempt EXCEPT ![p] = NoAttempt]
  BY <1>0 DEF SignIn, ClearLoginAttempts
<1>3. ThrottleTypeOK'
  BY <1>1, <1>2, SomeoneIs, ThrottleAssumption DEF ThrottleInv, ThrottleTypeOK, NoRow, NoAttempt
<1>4. Addressed'
  BY <1>2 DEF ThrottleInv, ThrottleTypeOK, Addressed, NoAttempt
<1>5. ASSUME NEW b \in Addressees \ crossed' PROVE OneReader(b)'
  <2>1. CASE b = a
    <3>1. Failing(a) = {}
      BY <1>1, <1>2, <1>5, <2>1
    <3>2. Failing(a)' = {}
      BY <3>1, <1>1, <1>2 DEF ThrottleInv, ThrottleTypeOK, Failing, NoAttempt
    <3>3. row'[a] = NoRow
      BY <1>1, <1>2 DEF ThrottleInv, ThrottleTypeOK
    <3>4. lockoutDuration(0) = 0
      BY ThrottleAssumption DEF lockoutDuration
    <3>5. Failing(b)' = {} /\ row'[b].count = 0 /\ row'[b].lock = 0
      BY <2>1, <3>2, <3>3 DEF NoRow
    <3> QED BY <3>4, <3>5 DEF OneReader, lockoutDuration
  <2>2. CASE b # a
    <3>1. row'[b] = row[b] /\ b \notin crossed
      BY <1>2, <1>5, <2>2 DEF ThrottleInv, ThrottleTypeOK
    <3> QED BY <3>1, <2>2, <1>0, <1>2, OthersRest
  <2> QED BY <2>1, <2>2
<1> QED BY <1>3, <1>4, <1>5 DEF ThrottleInv

\* So does a reset of the password.
LEMMA ResetKeeps == ASSUME ThrottleInv, NEW a \in Addressees, ResetClears(a) PROVE ThrottleInv'
<1>1. /\ row' = [row EXCEPT ![a] = NoRow] /\ attempt' = attempt
      /\ crossed' = IF Failing(a) = {} THEN crossed \ {a} ELSE crossed \cup {a}
  BY DEF ResetClears, ClearLoginAttempts
<1>2. ThrottleTypeOK' /\ Addressed'
  BY <1>1, Nothing DEF ThrottleInv, ThrottleTypeOK, Addressed
<1>3. \A b : Failing(b)' = Failing(b)
  BY <1>1 DEF Failing
<1>4. ASSUME NEW b \in Addressees \ crossed' PROVE OneReader(b)'
  <2>1. CASE b = a
    <3>1. Failing(b)' = {}
      BY <1>1, <1>3, <1>4, <2>1
    <3>2. row'[b] = NoRow
      BY <1>1, <2>1 DEF ThrottleInv, ThrottleTypeOK
    <3>3. lockoutDuration(0) = 0
      BY ThrottleAssumption DEF lockoutDuration
    <3>4. row'[b].count = 0 /\ row'[b].lock = 0
      BY <3>2 DEF NoRow
    <3> QED BY <3>1, <3>3, <3>4 DEF OneReader, lockoutDuration
  <2>2. CASE b # a
    <3>1. row'[b] = row[b] /\ b \notin crossed
      BY <1>1, <1>4, <2>2 DEF ThrottleInv, ThrottleTypeOK
    <3> QED BY <3>1, <1>1, <1>3 DEF ThrottleInv, OneReader, lockoutDuration
  <2> QED BY <2>1, <2>2
<1> QED BY <1>2, <1>4 DEF ThrottleInv

\* Every step keeps the invariant.
LEMMA NextThrottleInv == ThrottleInv /\ [ThrottleNext]_throttleVars => ThrottleInv'
<1> SUFFICES ASSUME ThrottleInv, [ThrottleNext]_throttleVars PROVE ThrottleInv'
  OBVIOUS
<1>1. CASE UNCHANGED throttleVars
  BY <1>1 DEF ThrottleInv, ThrottleTypeOK, Addressed, OneReader, Failing, throttleVars
<1>2. ASSUME NEW p \in Attempts, NEW a \in Addressees, CheckThrottle(p, a) PROVE ThrottleInv'
  <2> DEFINE r == [at |-> "compare", address |-> a, read |-> 0]
  <2>1. /\ r \in [at : {"none", "compare"}, address : Someone, read : 0..MaxFailures]
        /\ r.address \in Addressees
    BY SomeoneIs, ThrottleAssumption
  <2>2. attempt' = [attempt EXCEPT ![p] = r] /\ UNCHANGED <<row, crossed>>
    BY <1>2 DEF CheckThrottle
  <2> HIDE DEF r
  <2> QED BY <2>1, <2>2, QuietAttempt
<1>3. ASSUME NEW p \in Attempts, LeaveAttempt(p) PROVE ThrottleInv'
  <2>1. /\ NoAttempt \in [at : {"none", "compare"}, address : Someone, read : 0..MaxFailures]
        /\ NoAttempt.at = "none"
    BY SomeoneIs, ThrottleAssumption DEF NoAttempt
  <2> QED BY <1>3, <2>1, QuietAttempt DEF LeaveAttempt
<1>4. ASSUME NEW a \in Addressees, LockRunsOut(a) PROVE ThrottleInv'
  <2>1. /\ attempt' = attempt /\ crossed' = crossed
        /\ row' = [row EXCEPT ![a].running = FALSE]
    BY <1>4 DEF LockRunsOut
  <2>2. /\ ThrottleTypeOK'
        /\ \A b \in Addressees : row'[b].lock = row[b].lock /\ row'[b].count = row[b].count
    BY <2>1 DEF ThrottleInv, ThrottleTypeOK
  <2>3. Addressed' /\ \A b \in Addressees : Failing(b)' = Failing(b)
    BY <2>1 DEF ThrottleInv, Addressed, Failing
  <2>4. \A b \in Addressees \ crossed : OneReader(b)'
    BY <2>1, <2>2, <2>3 DEF ThrottleInv, OneReader, lockoutDuration
  <2> QED BY <2>1, <2>2, <2>3, <2>4 DEF ThrottleInv
<1> QED
  BY <1>1, <1>2, <1>3, <1>4, ReadKeeps, RecordKeeps, SignInKeeps, ResetKeeps DEF ThrottleNext

\* A failure on its way, where none crosses it, has read the row as it is
\* (Throttle.RecordFailure reads the count before it writes the lock).
THEOREM ThrottleInvariant == ThrottleSpec => []ThrottleInv
  BY InitThrottleInv, NextThrottleInv, PTL DEF ThrottleSpec

\* Wherever no failure crosses another or a success, the lock of an address is the one the
\* schedule gives for the failures counted (Throttle.RecordFailure, lockoutDuration).
THEOREM LocksFollow == ThrottleSpec => []LocksFollowSchedule
<1>1. ThrottleInv => LocksFollowSchedule
  BY DEF ThrottleInv, OneReader, LocksFollowSchedule
<1> QED BY ThrottleInvariant, <1>1, PTL

\* The rows of the cooldown, and the sign-ins under way, are always of their types.
THEOREM ThrottleTyped == ThrottleSpec => []ThrottleTypeOK
<1>1. ThrottleInv => ThrottleTypeOK
  BY DEF ThrottleInv
<1> QED BY ThrottleInvariant, <1>1, PTL

===============================================================================
