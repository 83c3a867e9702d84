----------------------------- MODULE MCMapView -----------------------------
(***************************************************************************)
(* The booking handlers one at a time, and views of their only coworking.  *)
(***************************************************************************)
EXTENDS MapView, TLC

CONSTANT c1

OneCoworking == {c1}
AllInOne == [s \in Seats |-> c1]

Interchangeable == Permutations(Seats) \cup Permutations(Names)
=============================================================================
