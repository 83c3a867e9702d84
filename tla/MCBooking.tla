----------------------------- MODULE MCBooking -----------------------------
(***************************************************************************)
(* BookingService on small instances: see the .cfg files.  One coworking   *)
(* holds every seat.                                                       *)
(***************************************************************************)
EXTENDS BookingService, TLC

CONSTANTS c1

OneCoworking == {c1}
AllInOne == [s \in Seats |-> c1]

(* Bound: a name is given only to a first booking that stays the only one, *)
(* while any number of unnamed ones may be made.                           *)
OneNamed ==
  \/ Len(bookings) <= 1
  \/ /\ \A i \in DOMAIN bookings : bookings[i].display_name = NoName
     /\ \A w \in Workers : InFlight(w) => req[w].display_name = NoName

Interchangeable == Permutations(Workers) \cup Permutations(Users)
=============================================================================
