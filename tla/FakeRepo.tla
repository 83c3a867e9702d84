------------------------------ MODULE FakeRepo ------------------------------
(***************************************************************************)
(* The store of the unit tests (backend/internal/app/apptest): maps behind *)
(* one mutex, so a call is one step.  Each map of the code is a variable;  *)
(* usersByEmail, usersByDeviceID and coworkingsName are its hand-kept      *)
(* indexes.                                                                *)
(***************************************************************************)
EXTENDS Repository

VARIABLES
  users, usersByEmail, usersByDeviceID, sessions, coworkings, coworkingsName, seats, bookings,
  settings,   \* the booking limit
  nextID,     \* [table |-> its counter]
  answer      \* the last call, its error and what it found

userVars == <<users, usersByEmail, usersByDeviceID, sessions>>
catalogVars == <<coworkings, coworkingsName, seats>>
bookingVars == <<bookings, settings>>
vars == <<userVars, catalogVars, bookingVars, nextID, answer>>

Empty == [i \in {} |-> {}]

(* NewFakeRepo creates the default coworking.                              *)
Init ==
  /\ users = Empty /\ usersByEmail = Empty /\ usersByDeviceID = Empty /\ sessions = Empty
  /\ \E n \in CoworkingNames : coworkings = [c \in {1} |-> n]
                            /\ coworkingsName = [m \in {n} |-> 1]
  /\ seats = Empty /\ bookings = Empty
  /\ settings = 3
  /\ nextID = [users |-> 1, coworkings |-> 2, seats |-> 1, bookings |-> 1]
  /\ answer = [call |-> <<"none">>, err |-> "ok", value |-> {}]

Returns(call, err, value) == answer' = [call |-> call, err |-> err, value |-> value]

Refused(call, err) ==
  Returns(call, err, {}) /\ UNCHANGED <<userVars, catalogVars, bookingVars, nextID>>

Found(call, rows) ==
  /\ Returns(call, IF rows = {} THEN "ErrNotFound" ELSE "ok", rows)
  /\ UNCHANGED <<userVars, catalogVars, bookingVars, nextID>>

Listed(call, value) ==
  Returns(call, "ok", value) /\ UNCHANGED <<userVars, catalogVars, bookingVars, nextID>>

(* The call succeeds with the next id of the table.                        *)
Numbered(call, table) ==
  /\ nextID[table] \in IdsOf(table)
  /\ nextID' = [nextID EXCEPT ![table] = @ + 1]
  /\ Returns(call, "ok", {nextID[table]})

Done(call) == Returns(call, "ok", {}) /\ UNCHANGED nextID

-----------------------------------------------------------------------------
EmailOrDeviceTaken(row) ==
  row.email \in DOMAIN usersByEmail
    \/ (row.device_id # NoDevice /\ row.device_id \in DOMAIN usersByDeviceID)

CreateUser ==
  \E row \in User : LET call == <<"CreateUser", row>> IN
    \/ EmailOrDeviceTaken(row) /\ Refused(call, "ErrEmailTaken")
    \/ /\ ~ EmailOrDeviceTaken(row)
       /\ Numbered(call, "users")
       /\ users' = Put(users, nextID.users, row)
       /\ usersByEmail' = Put(usersByEmail, row.email, nextID.users)
       /\ usersByDeviceID' = IF row.device_id = NoDevice THEN usersByDeviceID
                             ELSE Put(usersByDeviceID, row.device_id, nextID.users)
       /\ UNCHANGED <<sessions, catalogVars, bookingVars>>

(* A lookup by an index: the row it points at.                             *)
Indexed(index, key) == IF key \in DOMAIN index THEN Rows(users, {index[key]}) ELSE {}

GetUserByDeviceID ==
  \E d \in Devices \cup {NoDevice} :
    Found(<<"GetUserByDeviceID", d>>, Indexed(usersByDeviceID, d))

UpdateUserName ==
  \E i \in IdsOf("users"), n \in Names : LET call == <<"UpdateUserName", i, n>> IN
    \/ i \notin DOMAIN users /\ Refused(call, "ErrNotFound")
    \/ /\ i \in DOMAIN users
       /\ users' = [users EXCEPT ![i].name = n]
       /\ Done(call)
       /\ UNCHANGED <<usersByEmail, usersByDeviceID, sessions, catalogVars, bookingVars>>

GetUserByEmail == \E e \in Emails : Found(<<"GetUserByEmail", e>>, Indexed(usersByEmail, e))

GetUserByID == \E i \in IdsOf("users") : Found(<<"GetUserByID", i>>, Rows(users, {i}))

(* A token that is there already is overwritten.                           *)
CreateSession ==
  \E t \in Tokens, i \in IdsOf("users") :
    /\ sessions' = Put(sessions, t, i)
    /\ Done(<<"CreateSession", t, i>>)
    /\ UNCHANGED <<users, usersByEmail, usersByDeviceID, catalogVars, bookingVars>>

GetSessionByToken == \E t \in Tokens : Found(<<"GetSessionByToken", t>>, Rows(sessions, {t}))

-----------------------------------------------------------------------------
ListCoworkings ==
  \E list \in SetToSeqs(Rows(coworkings, DOMAIN coworkings)) :
    ById(list) /\ Listed(<<"ListCoworkings">>, list)

GetCoworkingByID ==
  \E c \in IdsOf("coworkings") : Found(<<"GetCoworkingByID", c>>, Rows(coworkings, {c}))

CreateCoworking ==
  \E n \in CoworkingNames : LET call == <<"CreateCoworking", n>> IN
    \/ n \in DOMAIN coworkingsName /\ Refused(call, "ErrConflictState")
    \/ /\ n \notin DOMAIN coworkingsName
       /\ Numbered(call, "coworkings")
       /\ coworkings' = Put(coworkings, nextID.coworkings, n)
       /\ coworkingsName' = Put(coworkingsName, n, nextID.coworkings)
       /\ UNCHANGED <<userVars, seats, bookingVars>>

Renamed(old, new, c) == Put(Without(coworkingsName, {old}), new, c)

UpdateCoworking ==
  \E c \in IdsOf("coworkings"), n \in CoworkingNames :
    LET call == <<"UpdateCoworking", c, n>>
        renames == c \in DOMAIN coworkings /\ n # coworkings[c]
    IN
    \/ c \notin DOMAIN coworkings /\ Refused(call, "ErrNotFound")
    \/ renames /\ n \in DOMAIN coworkingsName /\ Refused(call, "ErrConflictState")
    \/ /\ c \in DOMAIN coworkings
       /\ ~ (renames /\ n \in DOMAIN coworkingsName)
       /\ coworkings' = Put(coworkings, c, n)
       /\ coworkingsName' = IF renames THEN Renamed(coworkings[c], n, c)
                            ELSE coworkingsName
       /\ Done(call)
       /\ UNCHANGED <<userVars, seats, bookingVars>>

MutNamesStay(c) == coworkingsName

NamesWithout(c) == Without(coworkingsName, {coworkings[c]})

DeleteCoworking ==
  \E c \in IdsOf("coworkings") : LET call == <<"DeleteCoworking", c>> IN
    \/ c \notin DOMAIN coworkings /\ Refused(call, "ErrNotFound")
    \/ /\ c \in DOMAIN coworkings
       /\ coworkings' = Without(coworkings, {c})
       /\ coworkingsName' = NamesWithout(c)
       /\ seats' = Without(seats, SeatsOf(seats, c))
       /\ Done(call)
       /\ UNCHANGED <<userVars, bookingVars>>

ListSeats ==
  \E c \in {0} \cup IdsOf("coworkings") :
    \E list \in SetToSeqs(Rows(seats, {s \in DOMAIN seats : c > 0 => seats[s].coworking_id = c})) :
      ById(list) /\ Listed(<<"ListSeats", c>>, list)

GetSeatByID == \E s \in IdsOf("seats") : Found(<<"GetSeatByID", s>>, Rows(seats, {s}))

CreateSeat ==
  \E row \in Seat : LET call == <<"CreateSeat", row>> IN
    \/ ~ PlaceFree(seats, 0, row) /\ Refused(call, "ErrConflictState")
    \/ /\ PlaceFree(seats, 0, row)
       /\ Numbered(call, "seats")
       /\ seats' = Put(seats, nextID.seats, row)
       /\ UNCHANGED <<userVars, coworkings, coworkingsName, bookingVars>>

UpdateSeat ==
  \E s \in IdsOf("seats"), row \in Seat : LET call == <<"UpdateSeat", s, row>> IN
    \/ s \notin DOMAIN seats /\ Refused(call, "ErrNotFound")
    \/ s \in DOMAIN seats /\ ~ PlaceFree(seats, s, row) /\ Refused(call, "ErrConflictState")
    \/ /\ s \in DOMAIN seats /\ PlaceFree(seats, s, row)
       /\ seats' = Put(seats, s, row)
       /\ Done(call)
       /\ UNCHANGED <<userVars, coworkings, coworkingsName, bookingVars>>

DeleteSeat ==
  \E s \in IdsOf("seats") : LET call == <<"DeleteSeat", s>> IN
    \/ s \notin DOMAIN seats /\ Refused(call, "ErrNotFound")
    \/ /\ s \in DOMAIN seats
       /\ seats' = Without(seats, {s})
       /\ Done(call)
       /\ UNCHANGED <<userVars, coworkings, coworkingsName, bookingVars>>

HasFutureBookingsForSeat ==
  \E s \in IdsOf("seats"), t \in Times :
    Listed(<<"HasFutureBookingsForSeat", s, t>>,
           \E b \in Confirmed(bookings) : bookings[b].seat_id = s /\ bookings[b].start_at > t)

-----------------------------------------------------------------------------
(* Some other confirmed booking of the seat overlaps the window.           *)
Conflict(s, x, except) ==
  \E b \in Confirmed(bookings) \ {except} :
    bookings[b].seat_id = s /\ x.start_at < bookings[b].end_at /\ x.end_at > bookings[b].start_at

CreateBooking ==
  \E row \in Booking :
    /\ row.status = "confirmed"
    /\ Numbered(<<"CreateBooking", row>>, "bookings")
    /\ bookings' = Put(bookings, nextID.bookings, row)
    /\ UNCHANGED <<userVars, catalogVars, settings>>

GetBookingByID ==
  \E b \in IdsOf("bookings") : Found(<<"GetBookingByID", b>>, Rows(bookings, {b}))

ListBookingsByUser ==
  \E u \in IdsOf("users") :
    \E list \in SetToSeqs(Rows(bookings, {b \in DOMAIN bookings : bookings[b].user_id = u})) :
      EarliestFirst(list) /\ Listed(<<"ListBookingsByUser", u>>, list)

ListAllBookings ==
  \E list \in SetToSeqs(Rows(bookings, DOMAIN bookings)) :
    ById(list) /\ Listed(<<"ListAllBookings">>, list)

UpdateBookingStatus ==
  \E b \in IdsOf("bookings"), st \in BookingStatus :
    LET call == <<"UpdateBookingStatus", b, st>> IN
    \/ b \notin DOMAIN bookings /\ Refused(call, "ErrNotFound")
    \/ /\ b \in DOMAIN bookings
       /\ bookings' = [bookings EXCEPT ![b].status = st]
       /\ Done(call)
       /\ UNCHANGED <<userVars, catalogVars, settings>>

SeatHasConflict ==
  \E s \in IdsOf("seats"), x \in Windows :
    Listed(<<"SeatHasConflict", s, x>>, Conflict(s, x, 0))

MutStartsLater(b, t) == bookings[b].start_at > t

EndsLater(b, t) == bookings[b].end_at > t

CountActiveBookingsByUser ==
  \E u \in IdsOf("users"), t \in Times :
    Listed(<<"CountActiveBookingsByUser", u, t>>,
           Cardinality({b \in Confirmed(bookings) :
                          bookings[b].user_id = u /\ EndsLater(b, t)}))

GetSettings == Listed(<<"GetSettings">>, {settings})

SetBookingLimit ==
  \E n \in Limits :
    /\ settings' = n
    /\ Done(<<"SetBookingLimit", n>>)
    /\ UNCHANGED <<userVars, catalogVars, bookings>>

Next ==
  \/ CreateUser \/ GetUserByEmail \/ GetUserByID \/ GetUserByDeviceID \/ UpdateUserName
  \/ CreateSession \/ GetSessionByToken
  \/ ListCoworkings \/ GetCoworkingByID \/ CreateCoworking \/ UpdateCoworking
  \/ DeleteCoworking \/ ListSeats \/ GetSeatByID \/ CreateSeat \/ UpdateSeat \/ DeleteSeat
  \/ HasFutureBookingsForSeat \/ CreateBooking \/ GetBookingByID \/ ListBookingsByUser
  \/ ListAllBookings \/ UpdateBookingStatus \/ SeatHasConflict
  \/ CountActiveBookingsByUser \/ GetSettings \/ SetBookingLimit

Spec == Init /\ [][Next]_vars

-----------------------------------------------------------------------------
(* The hand-kept indexes of users and coworkings are the inverses of their *)
(* tables whatever was created, renamed and deleted, so a lookup by name   *)
(* and one by id never disagree.                                           *)
IndexesAgree ==
  /\ \A i \in DOMAIN users :
       /\ users[i].email \in DOMAIN usersByEmail /\ usersByEmail[users[i].email] = i
       /\ users[i].device_id # NoDevice =>
            users[i].device_id \in DOMAIN usersByDeviceID
              /\ usersByDeviceID[users[i].device_id] = i
  /\ \A e \in DOMAIN usersByEmail :
       usersByEmail[e] \in DOMAIN users /\ users[usersByEmail[e]].email = e
  /\ \A d \in DOMAIN usersByDeviceID :
       usersByDeviceID[d] \in DOMAIN users /\ users[usersByDeviceID[d]].device_id = d
  /\ \A c \in DOMAIN coworkings :
       coworkings[c] \in DOMAIN coworkingsName /\ coworkingsName[coworkings[c]] = c
  /\ \A n \in DOMAIN coworkingsName :
       coworkingsName[n] \in DOMAIN coworkings /\ coworkings[coworkingsName[n]] = n

(* What the schema keeps true of its tables and the fake leaves to those   *)
(* who call it: the foreign keys, the EXCLUDE constraint and the range of  *)
(* the booking limit.                                                      *)
SchemaHolds ==
  /\ \A t \in DOMAIN sessions : sessions[t] \in DOMAIN users
  /\ \A s \in DOMAIN seats : seats[s].coworking_id \in DOMAIN coworkings
  /\ \A b \in DOMAIN bookings :
       bookings[b].user_id \in DOMAIN users /\ bookings[b].seat_id \in DOMAIN seats
  /\ \A b \in Confirmed(bookings) : ~ Conflict(bookings[b].seat_id, bookings[b], b)
  /\ settings \in 1 .. 100

Database ==
  [users |-> users, sessions |-> sessions, coworkings |-> coworkings, seats |-> seats,
   bookings |-> bookings, limit |-> settings, next |-> nextID]

(* The primary key of sessions refuses a token that is in the table.       *)
TokenReused ==
  \E t \in DOMAIN sessions, i \in IdsOf("users") : answer'.call = <<"CreateSession", t, i>>

(* A call that leaves the fake in what the schema allows.                  *)
SchemaAllows == SchemaHolds /\ SchemaHolds' /\ ~ TokenReused

Postgres == INSTANCE PostgresRepo WITH db <- Database

(* Until it leaves what the schema allows the fake is the database, call   *)
(* by call and answer by answer: whatever a test of the service sees of it *)
(* could be seen of PostgreSQL, lists in the order of their query if they  *)
(* are InOrder.  The list of coworkings may be; the fake lists seats and   *)
(* bookings in an order of its own.                                        *)
MirrorsPostgres ==
  Postgres!Init /\ [][SchemaAllows => Postgres!Next]_vars
=============================================================================
