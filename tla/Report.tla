------------------------------- MODULE Report -------------------------------
(***************************************************************************)
(* BuildReport of backend/internal/app/service.go: one statement reads all *)
(* bookings and a loop tallies those that overlap the window asked for,    *)
(* one booking per step, while other requests go on changing the table.    *)
(***************************************************************************)
EXTENDS Integers, Sequences, FiniteSets, Intervals

CONSTANTS
  Seats,
  Time,         \* a set of instants
  MaxBookings   \* bound: rows of the table

ASSUME TimeAssumption == Time \subseteq Int
ASSUME BoundAssumption == MaxBookings \in Nat

VARIABLES
  bookings,  \* the bookings table, whatever its order
  rows,      \* what ListAllBookings returned
  window,    \* [start_at, end_at] of the report
  next,      \* the row the loop looks at next
  report,
  pc

vars == <<bookings, rows, window, next, report, pc>>

BookingStatus == {"confirmed", "canceled", "completed"}
Booking == [seat_id : Seats, start_at : Time, end_at : Time, status : BookingStatus]
Window == [start_at : Time, end_at : Time]

NewReport == [TotalBookings |-> 0, CanceledBookings |-> 0, BySeat |-> [s \in Seats |-> 0]]

TypeOK ==
  /\ bookings \in Seq(Booking) /\ rows \in Seq(Booking)
  /\ window \in Window
  /\ next \in 1 .. Len(rows) + 1
  /\ report \in [TotalBookings : Nat, CanceledBookings : Nat, BySeat : [Seats -> Nat]]
  /\ pc \in {"idle", "loop"}

Init ==
  /\ bookings = <<>> /\ rows = <<>>
  /\ window \in Window
  /\ next = 1
  /\ report = NewReport
  /\ pc = "idle"

(* Other requests book, cancel and complete.                               *)
Book ==
  /\ Len(bookings) < MaxBookings
  /\ \E b \in Booking : /\ ValidInterval(b) /\ b.status = "confirmed"
                        /\ bookings' = Append(bookings, b)
  /\ UNCHANGED <<rows, window, next, report, pc>>

UpdateStatus ==
  /\ \E i \in DOMAIN bookings, st \in BookingStatus :
       bookings' = [bookings EXCEPT ![i].status = st]
  /\ UNCHANGED <<rows, window, next, report, pc>>

(* GET /api/admin/reports; from has to come before to.                     *)
BuildReport ==
  /\ pc = "idle"
  /\ window' \in {x \in Window : ValidInterval(x)}
  /\ rows' = bookings
  /\ next' = 1
  /\ report' = NewReport
  /\ pc' = "loop"
  /\ UNCHANGED bookings

MutAnyTouching(b) == b.start_at <= window.end_at /\ b.end_at >= window.start_at

Counts(b) == Overlaps(b, window)

Tallied(b) ==
  [TotalBookings |-> report.TotalBookings + 1,
   CanceledBookings |-> report.CanceledBookings + (IF b.status = "canceled" THEN 1 ELSE 0),
   BySeat |-> [report.BySeat EXCEPT ![b.seat_id] = @ + 1]]

(* A row outside the window is skipped, not counted.                       *)
Following(i) == i + 1

TallyRow ==
  /\ pc = "loop" /\ next <= Len(rows)
  /\ report' = IF Counts(rows[next]) THEN Tallied(rows[next]) ELSE report
  /\ next' = Following(next)
  /\ UNCHANGED <<bookings, rows, window, pc>>

Answer ==
  /\ pc = "loop" /\ next > Len(rows)
  /\ pc' = "idle"
  /\ UNCHANGED <<bookings, rows, window, next, report>>

Next == Book \/ UpdateStatus \/ BuildReport \/ TallyRow \/ Answer

Spec == Init /\ [][Next]_vars

-----------------------------------------------------------------------------
(* The three numbers of a report are of the same rows, those of one        *)
(* instant, however much the table changes while they are tallied: so many *)
(* bookings in all, so many of them canceled, so many on each seat.        *)
ReportAddsUp ==
  /\ report.TotalBookings = Cardinality({i \in 1 .. next - 1 : Overlaps(rows[i], window)})
  /\ report.CanceledBookings =
       Cardinality({i \in 1 .. next - 1 :
                      Overlaps(rows[i], window) /\ rows[i].status = "canceled"})
  /\ \A s \in Seats :
       report.BySeat[s] = Cardinality({i \in 1 .. next - 1 :
                                         Overlaps(rows[i], window) /\ rows[i].seat_id = s})
=============================================================================
