----------------------------- MODULE MCCatalog -----------------------------
(***************************************************************************)
(* The catalog on small instances: seats that may agree in the cell, in    *)
(* the name, or in both.                                                   *)
(***************************************************************************)
EXTENDS Catalog, TLC

CONSTANTS n1, n2, c1, c2

SeatForms == {[name |-> n1, cell |-> c1], [name |-> n1, cell |-> c2], [name |-> n2, cell |-> c1]}

Interchangeable == Permutations(Workers) \cup Permutations(CoworkingNames)
=============================================================================
