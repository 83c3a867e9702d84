----------------------------- MODULE Repository -----------------------------
(***************************************************************************)
(* The interface between the service and a store                           *)
(* (backend/internal/app/repository.go): the calls, the rows they are      *)
(* given, and what both stores answer.  A row has the columns that decide  *)
(* an answer; the others travel with them.  A list is a sequence of rows,  *)
(* each with its id.                                                       *)
(***************************************************************************)
EXTENDS Integers, FiniteSets, SequencesExt, Schema, Intervals

CONSTANTS
  Emails, Names,     \* of users
  Devices, NoDevice, \* device ids, and the empty one
  Tokens,            \* of sessions
  CoworkingNames,
  SeatForms,         \* [name, cell] of seats; cells are numbered row by row
  Windows,           \* [start_at, end_at] of bookings
  Limits,            \* booking limits somebody asks for
  InOrder,           \* the lists that callers tell apart by their order, too
  MaxId              \* bound: [table |-> the last id it hands out]

ASSUME DeviceAssumption == NoDevice \notin Devices
ASSUME WindowAssumption == \A x \in Windows : ValidInterval(x)
ASSUME BoundAssumption == MaxId \in [{"users", "coworkings", "seats", "bookings"} -> Nat]

-----------------------------------------------------------------------------
IdsOf(table) == 1 .. MaxId[table]

User == [name : Names, email : Emails, device_id : Devices \cup {NoDevice}]
Seat == {[coworking_id |-> c, name |-> f.name, cell |-> f.cell] :
           c \in IdsOf("coworkings"), f \in SeatForms}
BookingStatus == {"confirmed", "canceled", "completed"}
Booking == {[user_id |-> u, seat_id |-> s, start_at |-> x.start_at, end_at |-> x.end_at,
             status |-> st] :
              u \in IdsOf("users"), s \in IdsOf("seats"), x \in Windows, st \in BookingStatus}

Times == UNION {{x.start_at, x.end_at} : x \in Windows}

(* Those of the rows with these ids that exist, each with its id.          *)
Rows(table, ids) == {<<i, table[i]>> : i \in DOMAIN table \cap ids}

(* The orders in which the stores list rows; equal rows come in any order. *)
ById(list) == \A i, j \in DOMAIN list : i < j => list[i][1] < list[j][1]

EarliestFirst(list) ==
  \A i, j \in DOMAIN list : i < j => list[i][2].start_at <= list[j][2].start_at

LatestFirst(list) ==
  \A i, j \in DOMAIN list : i < j => list[i][2].start_at >= list[j][2].start_at

InGridOrder(list) ==
  \A i, j \in DOMAIN list : i < j =>
    \/ list[i][2].coworking_id < list[j][2].coworking_id
    \/ /\ list[i][2].coworking_id = list[j][2].coworking_id
       /\ list[i][2].cell < list[j][2].cell

(* The bookings that hold a seat now or later.                             *)
Confirmed(bookings) == {b \in DOMAIN bookings : bookings[b].status = "confirmed"}
=============================================================================
