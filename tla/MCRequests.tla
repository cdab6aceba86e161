------------------------------ MODULE MCRequests ------------------------------
(***************************************************************************)
(* Who may do what: the requests of staff and guests, the accounts behind   *)
(* their sessions, and the cooldown of sign-ins.  The three share no state *)
(* and are explored one at a time: part says which of them moves.           *)
(*                                                                         *)
(* Requests: two organizations with a boat and a trip each, the first with  *)
(* a second trip; a guest of the first sails with the second too, another   *)
(* does not.                                                               *)
(***************************************************************************)
EXTENDS Requests, Accounts, Throttle

CONSTANTS
  o1, o2, b1, b2, t1, t2, t3, g1, g2, g3, admin1, dir1, dir2, account1, account2, a1

VARIABLE part

MCParent ==
  b1 :> o1 @@ b2 :> o2 @@ t1 :> b1 @@ t2 :> b2 @@ t3 :> b1 @@ g1 :> t1 @@ g2 :> t2 @@ g3 :> t1

MCRoleOf ==
  admin1 :> "org_admin" @@ dir1 :> "cruise_director" @@ dir2 :> "cruise_director"
  @@ account1 :> "guest" @@ account2 :> "guest"

MCHomeOf == admin1 :> o1 @@ dir1 :> o1 @@ dir2 :> o2

MCAccountOf == g1 :> account1 @@ g2 :> account1 @@ g3 :> account2

MCAssigned == {<<t1, dir1>>, <<t2, dir2>>}

MCFounderAddress == 1 :> a1

accessVars == <<requestVars, accountVars, throttleVars, part>>

AccessInit ==
  /\ RequestInit /\ AccountsInit /\ ThrottleInit
  /\ part \in {"requests", "accounts", "throttle"}

\* The bound on flows is used up, so that nothing need be left to do.
FlowsSpent == part = "accounts" /\ flows = MaxFlows

AccessNext ==
  \/ part = "requests" /\ RequestNext /\ UNCHANGED <<accountVars, throttleVars, part>>
  \/ part = "accounts" /\ AccountsNext /\ UNCHANGED <<requestVars, throttleVars, part>>
  \/ part = "throttle" /\ ThrottleNext /\ UNCHANGED <<requestVars, accountVars, part>>
  \/ FlowsSpent /\ UNCHANGED accessVars

AccessSpec == AccessInit /\ [][AccessNext]_accessVars

\* The types of the three parts.
AccessTypeOK == RequestTypeOK /\ AccountsTypeOK /\ ThrottleTypeOK

=============================================================================
