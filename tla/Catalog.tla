------------------------------ MODULE Catalog ------------------------------
(***************************************************************************)
(* The administrator's catalog: coworkings and the seats on their grids,   *)
(* as the handlers of backend/internal/app/service.go change them, one     *)
(* action per statement.  A coworking is its name and a seat its name and  *)
(* cell: the other columns are written with these and no rule reads them.  *)
(* Of the bookings only what a deletion asks for is kept.                  *)
(***************************************************************************)
EXTENDS Integers, Schema

CONSTANTS
  CoworkingNames,  \* names of coworkings that are asked for
  Forms,           \* [name, cell] of the seats that are asked for
  Workers,         \* handler goroutines that may run at once
  Faults,          \* may a request die between two statements?
  MaxCoworkings,   \* bound: coworkings ever created
  MaxSeats         \* bound: seats ever created

ASSUME BoundsAssumption == MaxCoworkings \in Nat \ {0} /\ MaxSeats \in Nat

VARIABLES
  coworkings,     \* the coworkings table: id -> name
  seats,          \* the seats table
  nextCoworking,  \* the sequences behind the two ids
  nextSeat,
  booked,         \* seats some row of bookings refers to
  upcoming,       \* those with a confirmed booking still to start
  req             \* the request each worker is serving

vars == <<coworkings, seats, nextCoworking, nextSeat, booked, upcoming, req>>

-----------------------------------------------------------------------------
CoworkingIds == 1 .. MaxCoworkings
SeatIds == 1 .. MaxSeats
Cells == {f.cell : f \in Forms}
SeatNames == {f.name : f \in Forms}
Seat == [coworking_id : CoworkingIds, name : SeatNames, cell : Cells]

Idle == [pc |-> "idle"]
Request ==
  {Idle} \cup [pc : {"CreateSeat"}, row : Seat]
         \cup [pc : {"UpdateSeat"}, id : SeatIds, row : Seat]
         \cup [pc : {"DeleteSeat"}, id : SeatIds]
         \cup [pc : {"UpdateCoworking"}, id : CoworkingIds, name : CoworkingNames]

TypeOK ==
  /\ nextCoworking \in 1 .. MaxCoworkings + 1
  /\ nextSeat \in 1 .. MaxSeats + 1
  /\ DOMAIN coworkings \subseteq 1 .. nextCoworking - 1
  /\ coworkings \in [DOMAIN coworkings -> CoworkingNames]
  /\ DOMAIN seats \subseteq 1 .. nextSeat - 1
  /\ seats \in [DOMAIN seats -> Seat]
  /\ upcoming \subseteq booked
  /\ req \in [Workers -> Request]

(* The migration creates the first coworking.                              *)
Init ==
  /\ \E n \in CoworkingNames : coworkings = [c \in {1} |-> n]
  /\ nextCoworking = 2
  /\ seats = [s \in {} |-> {}]
  /\ nextSeat = 1
  /\ booked = {} /\ upcoming = {}
  /\ req = [w \in Workers |-> Idle]

-----------------------------------------------------------------------------
Answer(w) == req' = [req EXCEPT ![w] = Idle]

Row(c, f) == [coworking_id |-> c, name |-> f.name, cell |-> f.cell]

Continue(w, r) == req' = [req EXCEPT ![w] = r]

MutFormsCoworking(old, row) == row

(* The handler overwrites every column of the row it has read but the      *)
(* coworking: that of the request is ignored.                              *)
Edited(old, row) == [row EXCEPT !.coworking_id = old.coworking_id]

MutSame(id) == id

(* BIGSERIAL: an id is handed out once.                                    *)
NextVal(id) == id + 1

MutUpsert(table, id) == TRUE

(* UPDATE ... WHERE id touches a row that still exists, or none.           *)
Matches(table, id) == id \in DOMAIN table

-----------------------------------------------------------------------------
(* POST /api/admin/coworkings                                              *)
CreateCoworking(w) ==
  /\ req[w] = Idle
  /\ nextCoworking \in CoworkingIds
  /\ \E n \in CoworkingNames :
       /\ NameFree(coworkings, nextCoworking, n)
       /\ coworkings' = Put(coworkings, nextCoworking, n)
  /\ nextCoworking' = NextVal(nextCoworking)
  /\ UNCHANGED <<seats, nextSeat, booked, upcoming, req>>

(* PATCH /api/admin/coworkings/{id}: GetCoworkingByID, ...                 *)
UpdateCoworking(w) ==
  /\ req[w] = Idle
  /\ \E c \in DOMAIN coworkings, n \in CoworkingNames :
       Continue(w, [pc |-> "UpdateCoworking", id |-> c, name |-> n])
  /\ UNCHANGED <<coworkings, seats, nextCoworking, nextSeat, booked, upcoming>>

(* ... and the UPDATE, refused if the name is taken.                       *)
UpdateCoworkingRow(w) ==
  /\ req[w].pc = "UpdateCoworking"
  /\ LET c == req[w].id
         n == req[w].name
     IN coworkings' = IF Matches(coworkings, c) /\ NameFree(coworkings, c, n)
                      THEN Put(coworkings, c, n) ELSE coworkings
  /\ Answer(w)
  /\ UNCHANGED <<seats, nextCoworking, nextSeat, booked, upcoming>>

(* bookings.seat_id ... ON DELETE RESTRICT                                 *)
Unbooked(ids) == booked \cap ids = {}

(* DELETE /api/admin/coworkings/{id}: the cascade takes all its seats, or  *)
(* a booking of one of them undoes the statement.                          *)
DeleteCoworking(w) ==
  /\ req[w] = Idle
  /\ \E c \in DOMAIN coworkings :
       /\ Unbooked(SeatsOf(seats, c))
       /\ coworkings' = Without(coworkings, {c})
       /\ seats' = Without(seats, SeatsOf(seats, c))
  /\ UNCHANGED <<nextCoworking, nextSeat, booked, upcoming, req>>

-----------------------------------------------------------------------------
(* POST /api/admin/seats: GetCoworkingByID, ...                            *)
CreateSeat(w) ==
  /\ req[w] = Idle
  /\ \E c \in DOMAIN coworkings, f \in Forms :
       Continue(w, [pc |-> "CreateSeat", row |-> Row(c, f)])
  /\ UNCHANGED <<coworkings, seats, nextCoworking, nextSeat, booked, upcoming>>

MutAnyCoworking(row) == TRUE

(* seats.coworking_id REFERENCES coworkings                                *)
CoworkingExists(row) == row.coworking_id \in DOMAIN coworkings

(* ... and the INSERT under the foreign key and the two unique indexes.    *)
InsertSeat(w) ==
  /\ req[w].pc = "CreateSeat"
  /\ LET row == req[w].row IN
     IF CoworkingExists(row) /\ PlaceFree(seats, nextSeat, row) /\ nextSeat \in SeatIds
     THEN seats' = Put(seats, nextSeat, row) /\ nextSeat' = NextVal(nextSeat)
     ELSE UNCHANGED <<seats, nextSeat>>
  /\ Answer(w)
  /\ UNCHANGED <<coworkings, nextCoworking, booked, upcoming>>

(* PUT /api/admin/seats/{id}: GetSeatByID, ...                             *)
UpdateSeat(w) ==
  /\ req[w] = Idle
  /\ \E s \in DOMAIN seats, c \in CoworkingIds, f \in Forms :
       Continue(w, [pc |-> "UpdateSeat", id |-> s, row |-> Edited(seats[s], Row(c, f))])
  /\ UNCHANGED <<coworkings, seats, nextCoworking, nextSeat, booked, upcoming>>

(* ... and the UPDATE of the whole row.                                    *)
UpdateSeatRow(w) ==
  /\ req[w].pc = "UpdateSeat"
  /\ LET s == req[w].id
         row == req[w].row
     IN seats' = IF Matches(seats, s) /\ PlaceFree(seats, s, row)
                 THEN Put(seats, s, row) ELSE seats
  /\ Answer(w)
  /\ UNCHANGED <<coworkings, nextCoworking, nextSeat, booked, upcoming>>

(* DELETE /api/admin/seats/{id}: HasFutureBookingsForSeat says no, ...     *)
DeleteSeat(w) ==
  /\ req[w] = Idle
  /\ \E s \in SeatIds :
       s \notin upcoming /\ Continue(w, [pc |-> "DeleteSeat", id |-> s])
  /\ UNCHANGED <<coworkings, seats, nextCoworking, nextSeat, booked, upcoming>>

(* ... and the DELETE, which any booking refuses.                          *)
DeleteSeatRow(w) ==
  /\ req[w].pc = "DeleteSeat"
  /\ seats' = IF Unbooked({req[w].id}) THEN Without(seats, {req[w].id}) ELSE seats
  /\ Answer(w)
  /\ UNCHANGED <<coworkings, nextCoworking, nextSeat, booked, upcoming>>

-----------------------------------------------------------------------------
(* The booking core, seen from here: a seat that exists is booked, and a   *)
(* booking starts or is canceled.                                          *)
Book ==
  /\ \E s \in DOMAIN seats : booked' = booked \cup {s} /\ upcoming' = upcoming \cup {s}
  /\ UNCHANGED <<coworkings, seats, nextCoworking, nextSeat, req>>

Pass ==
  /\ \E s \in upcoming : upcoming' = upcoming \ {s}
  /\ UNCHANGED <<coworkings, seats, nextCoworking, nextSeat, booked, req>>

(* The request dies between two statements.                                *)
Abort(w) ==
  /\ Faults
  /\ req[w] # Idle
  /\ Answer(w)
  /\ UNCHANGED <<coworkings, seats, nextCoworking, nextSeat, booked, upcoming>>

Handle(w) ==
  \/ CreateCoworking(w) \/ UpdateCoworking(w) \/ UpdateCoworkingRow(w) \/ DeleteCoworking(w)
  \/ CreateSeat(w) \/ InsertSeat(w) \/ UpdateSeat(w) \/ UpdateSeatRow(w)
  \/ DeleteSeat(w) \/ DeleteSeatRow(w) \/ Abort(w)

Next == Book \/ Pass \/ \E w \in Workers : Handle(w)

Spec == Init /\ [][Next]_vars

-----------------------------------------------------------------------------
(* Whatever two administrators do at once, a coworking's name finds one    *)
(* coworking, a cell of its grid one seat and a seat's name one seat.      *)
PlacesUnique ==
  /\ \A c, d \in DOMAIN coworkings : coworkings[c] = coworkings[d] => c = d
  /\ \A s, t \in DOMAIN seats :
       /\ seats[s].coworking_id = seats[t].coworking_id
       /\ seats[s].cell = seats[t].cell \/ seats[s].name = seats[t].name
       => s = t

(* Nothing dangles: a seat that is inserted while its coworking is being   *)
(* deleted does not stay behind, and a booked seat is not taken by the     *)
(* cascade either.                                                         *)
NothingDangles ==
  /\ \A s \in DOMAIN seats : seats[s].coworking_id \in DOMAIN coworkings
  /\ booked \subseteq DOMAIN seats

(* An id is good for one seat, in one coworking: an edit that was read     *)
(* before the seat was deleted does not bring it back, nor does an edit    *)
(* carry a seat over to another coworking.                                 *)
SeatIdentity ==
  [][\A s \in DOMAIN seats' :
       IF s \in DOMAIN seats THEN seats'[s].coworking_id = seats[s].coworking_id
                             ELSE s >= nextSeat]_vars

(* The catalog is a floor plan, with at most one seat in every cell.       *)
At(place) == {s \in DOMAIN seats : seats[s].coworking_id = place[1] /\ seats[s].cell = place[2]}

Occupant ==
  [place \in CoworkingIds \X Cells |-> IF At(place) = {} THEN 0 ELSE CHOOSE s \in At(place) : TRUE]

Plan == INSTANCE FloorPlan WITH
  Rooms <- CoworkingIds, Empty <- 0, occupant <- Occupant

ImplementsFloorPlan == Plan!Spec
=============================================================================
