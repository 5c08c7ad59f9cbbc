------------------------------- MODULE MCCow -------------------------------
(* Small instances of CowMemory for TLC. *)
EXTENDS CowProps

CONSTANTS p1, p2

\* The free list of a small instance hands out its lowest page.
LowestPage(S) == {pg \in S : \A q \in S : pg <= q}
=============================================================================
