---------------------------- MODULE SeatCalendar ----------------------------
(***************************************************************************)
(* What the booking subsystem promises, with requests, statements and      *)
(* statuses left out: every seat has a calendar, every instant of it is    *)
(* free or held by one booking, and a booking takes all the instants of    *)
(* its window in one step or takes none.                                   *)
(***************************************************************************)
EXTENDS Integers

CONSTANTS
  Seats,       \* the seats that have a calendar
  Instants,    \* the instants of a calendar
  Holders,     \* the bookings that may hold instants
  Nobody       \* the mark of a free instant, not in Holders

VARIABLE holder    \* which booking holds which instant of which seat

Slots == Seats \X Instants

Window(s, from, to) == {slot \in Slots : slot[1] = s /\ from <= slot[2] /\ slot[2] < to}

HeldBy(h) == {slot \in Slots : holder[slot] = h}

Init == holder = [slot \in Slots |-> Nobody]

(* A booking that holds nothing takes a window that is entirely free.      *)
Take(h, s, from, to) ==
  /\ HeldBy(h) = {}
  /\ \A slot \in Window(s, from, to) : holder[slot] = Nobody
  /\ holder' = [slot \in Slots |->
                  IF slot \in Window(s, from, to) THEN h ELSE holder[slot]]

(* A booking gives back everything it holds.                               *)
Release(h) ==
  holder' = [slot \in Slots |-> IF holder[slot] = h THEN Nobody ELSE holder[slot]]

Next ==
  \E h \in Holders :
    \/ Release(h)
    \/ \E s \in Seats, from, to \in Instants : Take(h, s, from, to + 1)

Spec == Init /\ [][Next]_holder
=============================================================================
