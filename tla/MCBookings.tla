----------------------------- MODULE MCBookings -----------------------------
(* Small instances of Bookings for TLC. *)
EXTENDS Bookings, TLC

CONSTANTS b1, b2, p1, p2, p3, g1, g2

\* p1 and p2 are two forms of one browser for one target; p3 is elsewhere.
FormsIn  == (p1 :> b1) @@ (p2 :> b1) @@ (p3 :> b2)
FormsFor == (p1 :> g1) @@ (p2 :> g1) @@ (p3 :> g1)

Symmetry == Permutations(Calls)
=============================================================================
