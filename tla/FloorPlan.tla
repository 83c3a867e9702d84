----------------------------- MODULE FloorPlan -----------------------------
(***************************************************************************)
(* What the seat catalog promises: a plan of rooms with cells, each empty  *)
(* or taken by one seat.  A seat keeps to its room, a cell that is taken   *)
(* is not given to another seat, and a room goes with all its seats.       *)
(***************************************************************************)
EXTENDS Integers

CONSTANTS Rooms, Cells, SeatIds, Empty

VARIABLE occupant    \* who is in a cell of a room

Init == occupant = [place \in Rooms \X Cells |-> Empty]

Place(s) ==
  \E place \in Rooms \X Cells :
    /\ occupant[place] = Empty
    /\ \A p \in Rooms \X Cells : occupant[p] # s
    /\ occupant' = [occupant EXCEPT ![place] = s]

Move(s) ==
  \E room \in Rooms : \E from, to \in Cells :
    /\ occupant[<<room, from>>] = s
    /\ occupant[<<room, to>>] = Empty
    /\ occupant' = [occupant EXCEPT ![<<room, from>>] = Empty, ![<<room, to>>] = s]

Remove(s) ==
  occupant' = [p \in Rooms \X Cells |-> IF occupant[p] = s THEN Empty ELSE occupant[p]]

Close(room) ==
  occupant' = [p \in Rooms \X Cells |-> IF p[1] = room THEN Empty ELSE occupant[p]]

Next ==
  \/ \E s \in SeatIds : Place(s) \/ Move(s) \/ Remove(s)
  \/ \E room \in Rooms : Close(room)

Spec == Init /\ [][Next]_occupant
=============================================================================
