---------------------------- MODULE PostgresRepo ----------------------------
(***************************************************************************)
(* The production store: every call of backend/internal/repo/postgres as   *)
(* the one statement it is, under the constraints of backend/migrations.   *)
(* answer is the last call, the error it returned and what it found.       *)
(***************************************************************************)
EXTENDS Repository

VARIABLES
  db,     \* the tables, and next: the id each sequence hands out at least
  answer

(* A database with its first coworking; the other seeded rows are data.    *)
Init ==
  /\ \E n \in CoworkingNames :
       db = [users |-> [i \in {} |-> {}], sessions |-> [i \in {} |-> {}],
             coworkings |-> [i \in {1} |-> n], seats |-> [i \in {} |-> {}],
             bookings |-> [i \in {} |-> {}], limit |-> 3,
             next |-> [users |-> 1, coworkings |-> 2, seats |-> 1, bookings |-> 1]]
  /\ answer = [call |-> <<"none">>, err |-> "ok", value |-> {}]

Returns(call, err, value) == answer' = [call |-> call, err |-> err, value |-> value]

Refused(call, err) == Returns(call, err, {}) /\ UNCHANGED db

(* A query for one row: no row is ErrNotFound.                             *)
Found(call, rows) ==
  /\ Returns(call, IF rows = {} THEN "ErrNotFound" ELSE "ok", rows)
  /\ UNCHANGED db

Listed(call, value) == Returns(call, "ok", value) /\ UNCHANGED db

(* ORDER BY, of the lists in InOrder.                                      *)
Ordered(list, call) ==
  /\ call = "ListCoworkings" => ById(list)
  /\ call = "ListSeats" => InGridOrder(list)
  /\ call \in {"ListBookingsByUser", "ListAllBookings"} => LatestFirst(list)

ListedInOrder(call, rows) ==
  \E list \in SetToSeqs(rows) :
    (call[1] \in InOrder => Ordered(list, call[1])) /\ Listed(call, list)

(* INSERT ... RETURNING id; a refused insert may have burnt some ids.      *)
Inserted(call, table, row) ==
  \E id \in db.next[table] .. MaxId[table] :
    /\ db' = [db EXCEPT ![table] = Put(@, id, row), !.next[table] = id + 1]
    /\ Returns(call, "ok", {id})

(* UPDATE or DELETE ... WHERE id: ErrNotFound if it touches no row.        *)
Touched(call, found, d) ==
  IF found THEN db' = d /\ Returns(call, "ok", {}) ELSE Refused(call, "ErrNotFound")

-----------------------------------------------------------------------------
UniqueUser(row) ==
  \A i \in DOMAIN db.users :
    /\ db.users[i].email # row.email
    /\ row.device_id # NoDevice => db.users[i].device_id # row.device_id

CreateUser ==
  \E row \in User : LET call == <<"CreateUser", row>> IN
    IF UniqueUser(row) THEN Inserted(call, "users", row) ELSE Refused(call, "ErrEmailTaken")

GetUserByEmail ==
  \E e \in Emails :
    Found(<<"GetUserByEmail", e>>,
          Rows(db.users, {i \in DOMAIN db.users : db.users[i].email = e}))

GetUserByID == \E i \in IdsOf("users") : Found(<<"GetUserByID", i>>, Rows(db.users, {i}))

(* NULL is equal to nothing.                                               *)
GetUserByDeviceID ==
  \E d \in Devices \cup {NoDevice} :
    Found(<<"GetUserByDeviceID", d>>,
          Rows(db.users, {i \in DOMAIN db.users : d # NoDevice /\ db.users[i].device_id = d}))

UpdateUserName ==
  \E i \in IdsOf("users"), n \in Names :
    Touched(<<"UpdateUserName", i, n>>, i \in DOMAIN db.users, [db EXCEPT !.users[i].name = n])

CreateSession ==
  \E t \in Tokens, i \in IdsOf("users") : LET call == <<"CreateSession", t, i>> IN
    IF t \in DOMAIN db.sessions \/ i \notin DOMAIN db.users
    THEN Refused(call, "other")
    ELSE Returns(call, "ok", {}) /\ db' = [db EXCEPT !.sessions = Put(@, t, i)]

GetSessionByToken == \E t \in Tokens : Found(<<"GetSessionByToken", t>>, Rows(db.sessions, {t}))

-----------------------------------------------------------------------------
ListCoworkings ==
  ListedInOrder(<<"ListCoworkings">>, Rows(db.coworkings, DOMAIN db.coworkings))

GetCoworkingByID ==
  \E c \in IdsOf("coworkings") : Found(<<"GetCoworkingByID", c>>, Rows(db.coworkings, {c}))

CreateCoworking ==
  \E n \in CoworkingNames : LET call == <<"CreateCoworking", n>> IN
    IF NameFree(db.coworkings, 0, n)
    THEN Inserted(call, "coworkings", n) ELSE Refused(call, "ErrConflictState")

UpdateCoworking ==
  \E c \in IdsOf("coworkings"), n \in CoworkingNames :
    LET call == <<"UpdateCoworking", c, n>> IN
    IF c \in DOMAIN db.coworkings /\ ~ NameFree(db.coworkings, c, n)
    THEN Refused(call, "ErrConflictState")
    ELSE Touched(call, c \in DOMAIN db.coworkings, [db EXCEPT !.coworkings[c] = n])

(* bookings.seat_id is ON DELETE RESTRICT, seats.coworking_id CASCADE.     *)
Restricted(seatIds) == \E b \in DOMAIN db.bookings : db.bookings[b].seat_id \in seatIds

DeleteCoworking ==
  \E c \in IdsOf("coworkings") :
    LET call == <<"DeleteCoworking", c>>
        gone == SeatsOf(db.seats, c)
    IN IF Restricted(gone) THEN Refused(call, "other")
       ELSE Touched(call, c \in DOMAIN db.coworkings,
                    [db EXCEPT !.coworkings = Without(@, {c}), !.seats = Without(@, gone)])

(* Coworking 0 stands for all of them.                                     *)
ListSeats ==
  \E c \in {0} \cup IdsOf("coworkings") :
    ListedInOrder(<<"ListSeats", c>>,
                  Rows(db.seats, IF c = 0 THEN DOMAIN db.seats ELSE SeatsOf(db.seats, c)))

GetSeatByID == \E s \in IdsOf("seats") : Found(<<"GetSeatByID", s>>, Rows(db.seats, {s}))

CreateSeat ==
  \E row \in Seat : LET call == <<"CreateSeat", row>> IN
    IF ~ PlaceFree(db.seats, 0, row) THEN Refused(call, "ErrConflictState")
    ELSE IF row.coworking_id \notin DOMAIN db.coworkings THEN Refused(call, "other")
    ELSE Inserted(call, "seats", row)

UpdateSeat ==
  \E s \in IdsOf("seats"), row \in Seat : LET call == <<"UpdateSeat", s, row>> IN
    IF s \in DOMAIN db.seats /\ ~ PlaceFree(db.seats, s, row)
    THEN Refused(call, "ErrConflictState")
    ELSE IF s \in DOMAIN db.seats /\ row.coworking_id \notin DOMAIN db.coworkings
    THEN Refused(call, "other")
    ELSE Touched(call, s \in DOMAIN db.seats, [db EXCEPT !.seats[s] = row])

DeleteSeat ==
  \E s \in IdsOf("seats") : LET call == <<"DeleteSeat", s>> IN
    IF Restricted({s}) THEN Refused(call, "other")
    ELSE Touched(call, s \in DOMAIN db.seats, [db EXCEPT !.seats = Without(@, {s})])

-----------------------------------------------------------------------------
ConfirmedOf(s) == {b \in Confirmed(db.bookings) : db.bookings[b].seat_id = s}

HasFutureBookingsForSeat ==
  \E s \in IdsOf("seats"), t \in Times :
    Listed(<<"HasFutureBookingsForSeat", s, t>>,
           \E b \in ConfirmedOf(s) : db.bookings[b].start_at > t)

Conflicts(s, x, except) ==
  \E b \in ConfirmedOf(s) \ {except} : Overlaps(x, db.bookings[b])

CreateBooking ==
  \E row \in Booking : LET call == <<"CreateBooking", row>> IN
    /\ row.status = "confirmed"
    /\ IF Conflicts(row.seat_id, row, 0) THEN Refused(call, "ErrSeatUnavailable")
       ELSE IF row.seat_id \notin DOMAIN db.seats \/ row.user_id \notin DOMAIN db.users
       THEN Refused(call, "other")
       ELSE Inserted(call, "bookings", row)

GetBookingByID ==
  \E b \in IdsOf("bookings") : Found(<<"GetBookingByID", b>>, Rows(db.bookings, {b}))

ListBookingsByUser ==
  \E u \in IdsOf("users") :
    ListedInOrder(<<"ListBookingsByUser", u>>,
                  Rows(db.bookings, {b \in DOMAIN db.bookings : db.bookings[b].user_id = u}))

ListAllBookings ==
  ListedInOrder(<<"ListAllBookings">>, Rows(db.bookings, DOMAIN db.bookings))

(* The EXCLUDE constraint also guards an UPDATE to confirmed; its error is *)
(* passed on as it is.                                                     *)
UpdateBookingStatus ==
  \E b \in IdsOf("bookings"), st \in BookingStatus :
    LET call == <<"UpdateBookingStatus", b, st>> IN
    IF /\ b \in DOMAIN db.bookings /\ st = "confirmed"
       /\ Conflicts(db.bookings[b].seat_id, db.bookings[b], b)
    THEN Refused(call, "other")
    ELSE Touched(call, b \in DOMAIN db.bookings, [db EXCEPT !.bookings[b].status = st])

SeatHasConflict ==
  \E s \in IdsOf("seats"), x \in Windows :
    Listed(<<"SeatHasConflict", s, x>>, Conflicts(s, x, 0))

CountActiveBookingsByUser ==
  \E u \in IdsOf("users"), t \in Times :
    Listed(<<"CountActiveBookingsByUser", u, t>>,
           Cardinality({b \in Confirmed(db.bookings) :
                          db.bookings[b].user_id = u /\ db.bookings[b].end_at > t}))

GetSettings == Listed(<<"GetSettings">>, {db.limit})

SetBookingLimit ==
  \E n \in Limits : LET call == <<"SetBookingLimit", n>> IN
    IF n \in 1 .. 100 THEN db' = [db EXCEPT !.limit = n] /\ Returns(call, "ok", {})
    ELSE Refused(call, "other")

Next ==
  \/ CreateUser \/ GetUserByEmail \/ GetUserByID \/ GetUserByDeviceID \/ UpdateUserName
  \/ CreateSession \/ GetSessionByToken
  \/ ListCoworkings \/ GetCoworkingByID \/ CreateCoworking \/ UpdateCoworking
  \/ DeleteCoworking \/ ListSeats \/ GetSeatByID \/ CreateSeat \/ UpdateSeat \/ DeleteSeat
  \/ HasFutureBookingsForSeat \/ CreateBooking \/ GetBookingByID \/ ListBookingsByUser
  \/ ListAllBookings \/ UpdateBookingStatus \/ SeatHasConflict
  \/ CountActiveBookingsByUser \/ GetSettings \/ SetBookingLimit

Spec == Init /\ [][Next]_<<db, answer>>
=============================================================================
