----------------------------- MODULE MCFakeRepo -----------------------------
(***************************************************************************)
(* The two stores on a small instance: two names for two coworkings, two   *)
(* cells of the grid, and two windows that touch.                          *)
(***************************************************************************)
EXTENDS FakeRepo, TLC

CONSTANTS n1, n2

Forms == {[name |-> n1, cell |-> 1], [name |-> n2, cell |-> 2]}

TouchingWindows == {[start_at |-> 1, end_at |-> 2], [start_at |-> 2, end_at |-> 3]}

LastIds == [users |-> 1, coworkings |-> 2, seats |-> 2, bookings |-> 2]

Interchangeable ==
  Permutations(Emails) \cup Permutations(CoworkingNames) \cup Permutations(Names)

(* No call reads what the last one answered.                               *)
Tables == <<userVars, catalogVars, bookingVars, nextID>>
=============================================================================
