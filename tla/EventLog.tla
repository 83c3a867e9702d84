------------------------------ MODULE EventLog ------------------------------
(***************************************************************************)
(* What the admin's log promises: it shows the most recent events, newest  *)
(* first, at most Capacity of them, and none from before a restart.        *)
(***************************************************************************)
EXTENDS Integers, Sequences

CONSTANTS
  Entries,     \* what may be logged
  Capacity     \* how many entries are kept

VARIABLE recent    \* the entries kept, newest first

Shorter(m, n) == IF m < n THEN m ELSE n

Init == recent = <<>>

(* A new entry comes first, and the oldest falls off when there is no room. *)
Record(e) ==
  recent' = [k \in 1 .. Shorter(Len(recent) + 1, Capacity) |->
               IF k = 1 THEN e ELSE recent[k - 1]]

Restart == recent' = <<>>

Next == Restart \/ \E e \in Entries : Record(e)

Spec == Init /\ [][Next]_recent
=============================================================================
