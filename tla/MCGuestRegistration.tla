------------------------- MODULE MCGuestRegistration -------------------------
(* A guest with two devices, a payload that lacks something and two that do not. *)
EXTENDS GuestRegistration, TLC

CONSTANTS p1, p2, blank, full, other

MCSymmetry == Permutations({p1, p2}) \cup Permutations({full, other})
=============================================================================
