------------------------------ MODULE MCManifest ------------------------------
(* Small instances of the manifest for TLC. *)
EXTENDS Manifest, TLC

CONSTANTS g1, g2, b1, b2, c1, c2, i1, i2, p1, p2

MCCabinOf == (b1 :> c1) @@ (b2 :> c2)

Assigns == [kind: {"assign"}, guest: Guests, berth: Berths]
Accepts(guests) == [kind: {"accept"}, guest: guests, invite: InviteIds]

\* Everything, but for what differs only in names: a berth or a cabin is closed.
MCAllJobs ==
  [kind: {"invite"}, guest: Guests, berth: Berths] \cup Assigns \cup Accepts(Guests)
  \cup [kind: {"resend", "revoke"}, guest: Guests]
  \cup [kind: {"closeBerth"}, berth: {b1}] \cup [kind: {"closeCabin"}, cabin: {c2}]

\* Guests on the manifest are swapped while one of them is invited, sent another
\* invitation, revoked and accepts.
MCLockJobs ==
  {[kind |-> "invite", guest |-> g1, berth |-> b1], [kind |-> "assign", guest |-> g2, berth |-> b1],
   [kind |-> "invite", guest |-> g2, berth |-> b2], [kind |-> "assign", guest |-> g1, berth |-> b2],
   [kind |-> "resend", guest |-> g1], [kind |-> "revoke", guest |-> g1]}
  \cup Accepts({g1})

MCSymmetry == Permutations(Procs) \cup Permutations(InviteIds) \cup Permutations(Guests)
=============================================================================
