------------------------------- MODULE Schema -------------------------------
(***************************************************************************)
(* Tables and what the schema in backend/migrations lets a statement do to *)
(* them.  A table is a function from the ids of its rows to the rows.      *)
(***************************************************************************)
EXTENDS Integers

(* Row id is inserted, or overwritten as a whole.                          *)
Put(table, id, row) ==
  [i \in DOMAIN table \cup {id} |-> IF i = id THEN row ELSE table[i]]

Without(table, ids) == [i \in DOMAIN table \ ids |-> table[i]]

(* coworkings.name is UNIQUE.                                              *)
NameFree(coworkings, id, name) == \A c \in DOMAIN coworkings \ {id} : coworkings[c] # name

MutCellOnly(seats, id, row) ==
  \A s \in DOMAIN seats \ {id} :
    seats[s].coworking_id = row.coworking_id => seats[s].cell # row.cell

(* Within a coworking no two seats share a cell and no two share a name.   *)
PlaceFree(seats, id, row) ==
  \A s \in DOMAIN seats \ {id} :
    seats[s].coworking_id = row.coworking_id =>
      seats[s].cell # row.cell /\ seats[s].name # row.name

SeatsOf(seats, c) == {s \in DOMAIN seats : seats[s].coworking_id = c}
=============================================================================
