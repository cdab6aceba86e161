------------------------------- MODULE MCGuests -------------------------------
(***************************************************************************)
(* The guests of a trip: their invitations and berths (Manifest), and what  *)
(* one of them registers (GuestRegistration).  The two share no state and  *)
(* are explored one at a time: part says which of them moves.               *)
(***************************************************************************)
EXTENDS MCManifest, GuestRegistration

CONSTANTS d1, d2, blank, full, other

VARIABLE part

guestVars == <<vars, regVars, part>>

GuestsInit == Init /\ RegInit /\ part \in {"manifest", "registration"}

GuestsNext ==
  \/ part = "manifest" /\ Next /\ UNCHANGED <<regVars, part>>
  \/ part = "registration" /\ RegNext /\ UNCHANGED <<vars, part>>

GuestsSpec == GuestsInit /\ [][GuestsNext]_guestVars

MCGuestSymmetry ==
  MCSymmetry \cup Permutations({d1, d2}) \cup Permutations({full, other})

=============================================================================
