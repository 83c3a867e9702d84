--------------------------- MODULE FakeRepoProofs ---------------------------
(***************************************************************************)
(* The store of the unit tests keeps its indexes exact, and it is          *)
(* PostgreSQL, call by call and but for the order of its lists answer by   *)
(* answer, until a call leaves what the schema allows: the refinement of   *)
(* PostgresRepo by FakeRepo.                                               *)
(***************************************************************************)
EXTENDS FakeRepo, TLAPS

-----------------------------------------------------------------------------
Tables == {"users", "coworkings", "seats", "bookings"}

(* An id is given once: the rows of a table have ids that its counter has  *)
(* passed.                                                                 *)
IdsGiven ==
  /\ nextID \in [Tables -> Nat \ {0}]
  /\ \A i \in DOMAIN users : i \in Nat \ {0} /\ i < nextID["users"]
  /\ \A c \in DOMAIN coworkings : c \in Nat \ {0} /\ c < nextID["coworkings"]
  /\ \A b \in DOMAIN bookings : b \in Nat \ {0} /\ b < nextID["bookings"]

RowsTyped ==
  /\ \A i \in DOMAIN users : users[i] \in User
  /\ \A b \in DOMAIN bookings : bookings[b] \in Booking

(* The empty device id is in no index.                                     *)
DevicesIndexed == NoDevice \notin DOMAIN usersByDeviceID

RepoInv == IdsGiven /\ RowsTyped /\ DevicesIndexed /\ IndexesAgree

(* What a numbered call does to the counters.                              *)
LEMMA NumberedEffect ==
  ASSUME NEW call, NEW table \in Tables, nextID \in [Tables -> Nat \ {0}], Numbered(call, table)
  PROVE  /\ nextID' \in [Tables -> Nat \ {0}]
         /\ nextID'[table] = nextID[table] + 1
         /\ \A other \in Tables \ {table} : nextID'[other] = nextID[other]
         /\ nextID[table] \in Nat \ {0}
BY DEF Numbered

-----------------------------------------------------------------------------
LEMMA RepoInit == Init => RepoInv
<1> SUFFICES ASSUME Init PROVE RepoInv
  OBVIOUS
<1>1. DOMAIN Empty = {}
  BY DEF Empty
<1>2. IdsGiven /\ RowsTyped /\ DevicesIndexed
  BY <1>1 DEF Init, IdsGiven, RowsTyped, DevicesIndexed, Tables
<1>3. PICK n \in CoworkingNames : /\ coworkings = [c \in {1} |-> n]
                                  /\ coworkingsName = [m \in {n} |-> 1]
  BY DEF Init
<1>4. IndexesAgree
  BY <1>1, <1>3 DEF Init, IndexesAgree
<1> QED
  BY <1>2, <1>4 DEF RepoInv

LEMMA UserCreated == RepoInv /\ CreateUser => RepoInv'
<1> SUFFICES ASSUME RepoInv, CreateUser PROVE RepoInv'
  OBVIOUS
<1>a. IdsGiven /\ RowsTyped /\ DevicesIndexed /\ IndexesAgree
  BY DEF RepoInv
<1>1. CASE UNCHANGED <<userVars, catalogVars, bookingVars, nextID>>
  BY <1>1, <1>a DEF userVars, catalogVars, bookingVars, RepoInv, IdsGiven, RowsTyped, DevicesIndexed, IndexesAgree
<1>2. CASE \E row \in User :
             /\ ~ EmailOrDeviceTaken(row)
             /\ Numbered(<<"CreateUser", row>>, "users")
             /\ users' = Put(users, nextID.users, row)
             /\ usersByEmail' = Put(usersByEmail, row.email, nextID.users)
             /\ usersByDeviceID' = IF row.device_id = NoDevice THEN usersByDeviceID
                                   ELSE Put(usersByDeviceID, row.device_id, nextID.users)
             /\ UNCHANGED <<sessions, catalogVars, bookingVars>>
  <2>1. PICK row \in User :
             /\ ~ EmailOrDeviceTaken(row)
             /\ Numbered(<<"CreateUser", row>>, "users")
             /\ users' = Put(users, nextID.users, row)
             /\ usersByEmail' = Put(usersByEmail, row.email, nextID.users)
             /\ usersByDeviceID' = IF row.device_id = NoDevice THEN usersByDeviceID
                                   ELSE Put(usersByDeviceID, row.device_id, nextID.users)
             /\ UNCHANGED <<sessions, catalogVars, bookingVars>>
    BY <1>2
  <2> DEFINE k == nextID.users
             e == row.email
             d == row.device_id
  <2>2. /\ nextID' \in [Tables -> Nat \ {0}] /\ k \in Nat \ {0} /\ nextID'["users"] = k + 1
        /\ nextID'["coworkings"] = nextID["coworkings"] /\ nextID'["bookings"] = nextID["bookings"]
    BY <2>1, <1>a, NumberedEffect DEF IdsGiven, Tables
  <2>3. k \notin DOMAIN users
    BY <1>a, <2>2 DEF IdsGiven
  <2>4. /\ DOMAIN users' = DOMAIN users \cup {k} /\ users'[k] = row
        /\ \A i \in DOMAIN users : users'[i] = users[i]
    BY <2>1, <2>3 DEF Put
  <2>5. /\ e \notin DOMAIN usersByEmail
        /\ DOMAIN usersByEmail' = DOMAIN usersByEmail \cup {e} /\ usersByEmail'[e] = k
        /\ \A x \in DOMAIN usersByEmail : usersByEmail'[x] = usersByEmail[x]
    BY <2>1 DEF EmailOrDeviceTaken, Put
  <2>6. CASE d = NoDevice
    <3>1. usersByDeviceID' = usersByDeviceID
      BY <2>1, <2>6
    <3> QED
      BY <2>1, <2>2, <2>3, <2>4, <2>5, <2>6, <3>1, <1>a
         DEF catalogVars, bookingVars, RepoInv, IdsGiven, RowsTyped, DevicesIndexed, IndexesAgree
  <2>7. CASE d # NoDevice
    <3>1. /\ d \notin DOMAIN usersByDeviceID
          /\ DOMAIN usersByDeviceID' = DOMAIN usersByDeviceID \cup {d} /\ usersByDeviceID'[d] = k
          /\ \A x \in DOMAIN usersByDeviceID : usersByDeviceID'[x] = usersByDeviceID[x]
      BY <2>1, <2>7 DEF EmailOrDeviceTaken, Put
    <3> QED
      BY <2>1, <2>2, <2>3, <2>4, <2>5, <2>7, <3>1, <1>a
         DEF catalogVars, bookingVars, RepoInv, IdsGiven, RowsTyped, DevicesIndexed, IndexesAgree
  <2> QED
    BY <2>6, <2>7
<1> QED
  BY <1>1, <1>2 DEF CreateUser, Refused

(* A call that touches neither an indexed table nor the bookings.          *)
LEMMA RepoQuiet ==
  ASSUME RepoInv, UNCHANGED <<users, usersByEmail, usersByDeviceID, coworkings, coworkingsName,
                              bookings>>,
         nextID' \in [Tables -> Nat \ {0}], nextID'["users"] = nextID["users"],
         nextID'["coworkings"] = nextID["coworkings"], nextID'["bookings"] = nextID["bookings"]
  PROVE  RepoInv'
BY DEF RepoInv, IdsGiven, RowsTyped, DevicesIndexed, IndexesAgree

LEMMA RepoSame ==
  ASSUME RepoInv, UNCHANGED <<userVars, catalogVars, bookingVars, nextID>>
  PROVE  RepoInv'
BY RepoQuiet DEF RepoInv, IdsGiven, userVars, catalogVars, bookingVars

LEMMA UserRenamed == RepoInv /\ UpdateUserName => RepoInv'
<1> SUFFICES ASSUME RepoInv, UpdateUserName PROVE RepoInv'
  OBVIOUS
<1>a. IdsGiven /\ RowsTyped /\ DevicesIndexed /\ IndexesAgree
  BY DEF RepoInv
<1>1. CASE UNCHANGED <<userVars, catalogVars, bookingVars, nextID>>
  BY <1>1, RepoSame
<1>2. CASE \E i \in IdsOf("users"), n \in Names :
             /\ i \in DOMAIN users
             /\ users' = [users EXCEPT ![i].name = n]
             /\ UNCHANGED <<usersByEmail, usersByDeviceID, sessions, catalogVars, bookingVars,
                            nextID>>
  <2>1. PICK i \in DOMAIN users, n \in Names :
             /\ users' = [users EXCEPT ![i] = [users[i] EXCEPT !.name = n]]
             /\ UNCHANGED <<usersByEmail, usersByDeviceID, sessions, catalogVars, bookingVars,
                            nextID>>
    BY <1>2
  <2>2. /\ DOMAIN users' = DOMAIN users /\ users'[i] = [users[i] EXCEPT !.name = n]
        /\ \A j \in DOMAIN users \ {i} : users'[j] = users[j]
    BY <2>1
  <2>3. users[i] \in User
    BY <1>a DEF RowsTyped
  <2>4. /\ users'[i] \in User /\ users'[i].email = users[i].email
        /\ users'[i].device_id = users[i].device_id
    BY <2>2, <2>3 DEF User
  <2>5. RowsTyped' /\ IdsGiven' /\ DevicesIndexed'
    BY <2>1, <2>2, <2>4, <1>a DEF RowsTyped, IdsGiven, DevicesIndexed, catalogVars, bookingVars
  <2>6. IndexesAgree'
    BY <2>1, <2>2, <2>4, <1>a DEF IndexesAgree, catalogVars
  <2> QED
    BY <2>5, <2>6 DEF RepoInv
<1> QED
  BY <1>1, <1>2 DEF UpdateUserName, Refused, Done

LEMMA CoworkingCreated == RepoInv /\ CreateCoworking => RepoInv'
<1> SUFFICES ASSUME RepoInv, CreateCoworking PROVE RepoInv'
  OBVIOUS
<1>a. IdsGiven /\ RowsTyped /\ DevicesIndexed /\ IndexesAgree
  BY DEF RepoInv
<1>1. CASE UNCHANGED <<userVars, catalogVars, bookingVars, nextID>>
  BY <1>1, RepoSame
<1>2. ASSUME NEW n \in CoworkingNames, n \notin DOMAIN coworkingsName,
             Numbered(<<"CreateCoworking", n>>, "coworkings"),
             coworkings' = Put(coworkings, nextID.coworkings, n),
             coworkingsName' = Put(coworkingsName, n, nextID.coworkings),
             UNCHANGED <<userVars, seats, bookingVars>>
      PROVE  RepoInv'
  <2> DEFINE k == nextID.coworkings
  <2>1. /\ nextID' \in [Tables -> Nat \ {0}] /\ k \in Nat \ {0} /\ nextID'["coworkings"] = k + 1
        /\ nextID'["users"] = nextID["users"] /\ nextID'["bookings"] = nextID["bookings"]
    BY <1>2, <1>a, NumberedEffect DEF IdsGiven, Tables
  <2>2. k \notin DOMAIN coworkings
    BY <1>a, <2>1 DEF IdsGiven
  <2>3. /\ DOMAIN coworkings' = DOMAIN coworkings \cup {k} /\ coworkings'[k] = n
        /\ \A c \in DOMAIN coworkings : coworkings'[c] = coworkings[c]
    BY <1>2, <2>2 DEF Put
  <2>4. /\ DOMAIN coworkingsName' = DOMAIN coworkingsName \cup {n} /\ coworkingsName'[n] = k
        /\ \A m \in DOMAIN coworkingsName : coworkingsName'[m] = coworkingsName[m]
    BY <1>2 DEF Put
  <2>5. IdsGiven' /\ RowsTyped' /\ DevicesIndexed'
    BY <1>2, <2>1, <2>3, <1>a DEF RowsTyped, IdsGiven, DevicesIndexed, userVars, bookingVars
  <2>6. IndexesAgree'
    BY <1>2, <2>2, <2>3, <2>4, <1>a DEF IndexesAgree, userVars
  <2> QED
    BY <2>5, <2>6 DEF RepoInv
<1> QED
  BY <1>1, <1>2 DEF CreateCoworking, Refused

(* The index loses the old name before it gets the new one.                *)
LEMMA CoworkingRenamed == RepoInv /\ UpdateCoworking => RepoInv'
<1> SUFFICES ASSUME RepoInv, UpdateCoworking PROVE RepoInv'
  OBVIOUS
<1>a. IdsGiven /\ RowsTyped /\ DevicesIndexed /\ IndexesAgree
  BY DEF RepoInv
<1>1. CASE UNCHANGED <<userVars, catalogVars, bookingVars, nextID>>
  BY <1>1, RepoSame
<1>2. ASSUME NEW c \in DOMAIN coworkings, NEW n \in CoworkingNames,
             n # coworkings[c] => n \notin DOMAIN coworkingsName,
             coworkings' = Put(coworkings, c, n),
             coworkingsName' = IF n # coworkings[c] THEN Renamed(coworkings[c], n, c)
                               ELSE coworkingsName,
             UNCHANGED <<userVars, seats, bookingVars, nextID>>
      PROVE  RepoInv'
  <2>1. /\ DOMAIN coworkings' = DOMAIN coworkings /\ coworkings'[c] = n
        /\ \A b \in DOMAIN coworkings \ {c} : coworkings'[b] = coworkings[b]
    BY <1>2 DEF Put
  <2>2. IdsGiven' /\ RowsTyped' /\ DevicesIndexed'
    BY <1>2, <2>1, <1>a DEF RowsTyped, IdsGiven, DevicesIndexed, userVars, bookingVars
  <2>3. CASE n = coworkings[c]
    <3>1. coworkingsName' = coworkingsName
      BY <1>2, <2>3
    <3> QED
      BY <1>2, <2>1, <2>2, <2>3, <3>1, <1>a DEF RepoInv, IndexesAgree, userVars
  <2>4. CASE n # coworkings[c]
    <3> DEFINE old == coworkings[c]
    <3>1. old \in DOMAIN coworkingsName /\ coworkingsName[old] = c /\ n \notin DOMAIN coworkingsName
      BY <1>2, <2>4, <1>a DEF IndexesAgree
    <3>2. /\ DOMAIN coworkingsName' = (DOMAIN coworkingsName \ {old}) \cup {n}
          /\ coworkingsName'[n] = c
          /\ \A m \in DOMAIN coworkingsName \ {old} : coworkingsName'[m] = coworkingsName[m]
      BY <1>2, <2>4, <3>1 DEF Renamed, Put, Without
    <3>3. IndexesAgree'
      BY <1>2, <2>1, <2>4, <3>1, <3>2, <1>a DEF IndexesAgree, userVars
    <3> QED
      BY <2>2, <3>3 DEF RepoInv
  <2> QED
    BY <2>3, <2>4
<1> QED
  BY <1>1, <1>2 DEF UpdateCoworking, Refused, Done

LEMMA CoworkingDeleted == RepoInv /\ DeleteCoworking => RepoInv'
<1> SUFFICES ASSUME RepoInv, DeleteCoworking PROVE RepoInv'
  OBVIOUS
<1>a. IdsGiven /\ RowsTyped /\ DevicesIndexed /\ IndexesAgree
  BY DEF RepoInv
<1>1. CASE UNCHANGED <<userVars, catalogVars, bookingVars, nextID>>
  BY <1>1, RepoSame
<1>2. ASSUME NEW c \in DOMAIN coworkings, coworkings' = Without(coworkings, {c}),
             coworkingsName' = NamesWithout(c), UNCHANGED <<userVars, bookingVars, nextID>>
      PROVE  RepoInv'
  <2> DEFINE old == coworkings[c]
  <2>1. /\ DOMAIN coworkings' = DOMAIN coworkings \ {c}
        /\ \A b \in DOMAIN coworkings \ {c} : coworkings'[b] = coworkings[b]
    BY <1>2 DEF Without
  <2>2. /\ DOMAIN coworkingsName' = DOMAIN coworkingsName \ {old}
        /\ \A m \in DOMAIN coworkingsName \ {old} : coworkingsName'[m] = coworkingsName[m]
    BY <1>2 DEF NamesWithout, Without
  <2>3. IdsGiven' /\ RowsTyped' /\ DevicesIndexed'
    BY <1>2, <2>1, <1>a DEF RowsTyped, IdsGiven, DevicesIndexed, userVars, bookingVars
  <2>4. old \in DOMAIN coworkingsName /\ coworkingsName[old] = c
    BY <1>2, <1>a DEF IndexesAgree
  <2>5. \A b \in DOMAIN coworkings' :
          coworkings'[b] \in DOMAIN coworkingsName' /\ coworkingsName'[coworkings'[b]] = b
    BY <2>1, <2>2, <2>4, <1>a DEF IndexesAgree
  <2>6. \A m \in DOMAIN coworkingsName' :
          coworkingsName'[m] \in DOMAIN coworkings' /\ coworkings'[coworkingsName'[m]] = m
    <3> SUFFICES ASSUME NEW m \in DOMAIN coworkingsName, m # old
                 PROVE  /\ coworkingsName'[m] \in DOMAIN coworkings'
                        /\ coworkings'[coworkingsName'[m]] = m
      BY <2>2
    <3>1. /\ coworkingsName'[m] = coworkingsName[m] /\ coworkingsName[m] \in DOMAIN coworkings
          /\ coworkings[coworkingsName[m]] = m
      BY <2>2, <1>a DEF IndexesAgree
    <3> QED
      BY <2>1, <3>1
  <2>7. IndexesAgree'
    BY <1>2, <2>5, <2>6, <1>a DEF IndexesAgree, userVars
  <2> QED
    BY <2>3, <2>7 DEF RepoInv
<1> QED
  BY <1>1, <1>2 DEF DeleteCoworking, Refused, Done

LEMMA BookingCreated == RepoInv /\ CreateBooking => RepoInv'
<1> SUFFICES ASSUME RepoInv, CreateBooking PROVE RepoInv'
  OBVIOUS
<1>a. IdsGiven /\ RowsTyped /\ DevicesIndexed /\ IndexesAgree
  BY DEF RepoInv
<1>1. PICK row \in Booking :
        /\ Numbered(<<"CreateBooking", row>>, "bookings")
        /\ bookings' = Put(bookings, nextID.bookings, row)
        /\ UNCHANGED <<userVars, catalogVars, settings>>
  BY DEF CreateBooking
<1> DEFINE k == nextID.bookings
<1>2. /\ nextID' \in [Tables -> Nat \ {0}] /\ k \in Nat \ {0} /\ nextID'["bookings"] = k + 1
      /\ nextID'["users"] = nextID["users"] /\ nextID'["coworkings"] = nextID["coworkings"]
  BY <1>1, <1>a, NumberedEffect DEF IdsGiven, Tables
<1>3. /\ DOMAIN bookings' = DOMAIN bookings \cup {k}
      /\ \A b \in DOMAIN bookings' : bookings'[b] = IF b = k THEN row ELSE bookings[b]
  BY <1>1 DEF Put
<1>4. IdsGiven' /\ RowsTyped' /\ DevicesIndexed'
  BY <1>1, <1>2, <1>3, <1>a DEF RowsTyped, IdsGiven, DevicesIndexed, userVars, catalogVars
<1>5. IndexesAgree'
  BY <1>1, <1>a DEF IndexesAgree, userVars, catalogVars
<1> QED
  BY <1>4, <1>5 DEF RepoInv

LEMMA StatusUpdated == RepoInv /\ UpdateBookingStatus => RepoInv'
<1> SUFFICES ASSUME RepoInv, UpdateBookingStatus PROVE RepoInv'
  OBVIOUS
<1>a. IdsGiven /\ RowsTyped /\ DevicesIndexed /\ IndexesAgree
  BY DEF RepoInv
<1>1. CASE UNCHANGED <<userVars, catalogVars, bookingVars, nextID>>
  BY <1>1, RepoSame
<1>2. ASSUME NEW b \in DOMAIN bookings, NEW st \in BookingStatus,
             bookings' = [bookings EXCEPT ![b] = [bookings[b] EXCEPT !.status = st]],
             UNCHANGED <<userVars, catalogVars, nextID>>
      PROVE  RepoInv'
  <2>1. /\ DOMAIN bookings' = DOMAIN bookings /\ bookings'[b] = [bookings[b] EXCEPT !.status = st]
        /\ \A i \in DOMAIN bookings \ {b} : bookings'[i] = bookings[i]
    BY <1>2
  <2>2. bookings[b] \in Booking
    BY <1>a DEF RowsTyped
  <2>3. bookings'[b] \in Booking
    BY <2>1, <2>2 DEF Booking
  <2>4. IdsGiven' /\ RowsTyped' /\ DevicesIndexed'
    BY <1>2, <2>1, <2>3, <1>a DEF RowsTyped, IdsGiven, DevicesIndexed, userVars, catalogVars
  <2>5. IndexesAgree'
    BY <1>2, <1>a DEF IndexesAgree, userVars, catalogVars
  <2> QED
    BY <2>4, <2>5 DEF RepoInv
<1> QED
  BY <1>1, <1>2 DEF UpdateBookingStatus, Refused, Done

(* The reads, and the writes to the sessions, the seats and the settings.  *)
Reads ==
  \/ GetUserByEmail \/ GetUserByID \/ GetUserByDeviceID \/ GetSessionByToken
  \/ ListCoworkings \/ GetCoworkingByID \/ ListSeats \/ GetSeatByID \/ HasFutureBookingsForSeat
  \/ GetBookingByID \/ ListBookingsByUser \/ ListAllBookings \/ SeatHasConflict
  \/ CountActiveBookingsByUser \/ GetSettings

LEMMA ReadsChangeNothing ==
  Reads => UNCHANGED <<userVars, catalogVars, bookingVars, nextID>>
BY DEF Reads, Found, Listed, GetUserByEmail, GetUserByID, GetUserByDeviceID, GetSessionByToken,
   ListCoworkings, GetCoworkingByID, ListSeats, GetSeatByID, HasFutureBookingsForSeat,
   GetBookingByID, ListBookingsByUser, ListAllBookings, SeatHasConflict,
   CountActiveBookingsByUser, GetSettings

LEMMA RepoNext == RepoInv /\ [Next]_vars => RepoInv'
<1> SUFFICES ASSUME RepoInv, [Next]_vars PROVE RepoInv'
  OBVIOUS
<1>1. Reads => RepoInv'
  BY ReadsChangeNothing, RepoSame
<1>2. CreateSession \/ UpdateSeat \/ DeleteSeat \/ SetBookingLimit => RepoInv'
  <2> SUFFICES ASSUME CreateSession \/ UpdateSeat \/ DeleteSeat \/ SetBookingLimit PROVE RepoInv'
    OBVIOUS
  <2>1. UNCHANGED <<users, usersByEmail, usersByDeviceID, coworkings, coworkingsName, bookings,
                    nextID>>
    BY DEF CreateSession, UpdateSeat, DeleteSeat, SetBookingLimit, Refused, Done, userVars,
       catalogVars, bookingVars
  <2> QED
    BY <2>1, RepoQuiet DEF RepoInv, IdsGiven
<1>3. CreateSeat => RepoInv'
  <2>1. ASSUME NEW row \in Seat, Numbered(<<"CreateSeat", row>>, "seats"),
               UNCHANGED <<userVars, coworkings, coworkingsName, bookingVars>>
        PROVE  RepoInv'
    <3>1. /\ nextID' \in [Tables -> Nat \ {0}] /\ nextID'["users"] = nextID["users"]
          /\ nextID'["coworkings"] = nextID["coworkings"]
          /\ nextID'["bookings"] = nextID["bookings"]
      BY <2>1, NumberedEffect DEF RepoInv, IdsGiven, Tables
    <3> QED
      BY <2>1, <3>1, RepoQuiet DEF userVars, bookingVars
  <2> QED
    BY <2>1, RepoSame DEF CreateSeat, Refused
<1>4. CASE UNCHANGED vars
  BY <1>4, RepoSame DEF vars
<1> QED
  BY <1>1, <1>2, <1>3, <1>4, UserCreated, UserRenamed, CoworkingCreated, CoworkingRenamed,
     CoworkingDeleted, BookingCreated, StatusUpdated DEF Next, Reads

LEMMA RepoInvariance == Spec => []RepoInv
BY RepoInit, RepoNext, PTL DEF Spec

(* The indexes that the fake keeps by hand stay the inverses of its tables *)
(* for any number of rows, whatever the schema would say of them.          *)
THEOREM IndexesAlwaysAgree == Spec => []IndexesAgree
<1>1. RepoInv => IndexesAgree
  BY DEF RepoInv
<1> QED
  BY <1>1, RepoInvariance, PTL

-----------------------------------------------------------------------------
(* The refinement.  Database is what PostgreSQL would have in its tables.  *)
LEMMA DatabaseColumns ==
  /\ Database.users = users /\ Database.sessions = sessions
  /\ Database.coworkings = coworkings /\ Database.seats = seats
  /\ Database.bookings = bookings /\ Database.limit = settings /\ Database.next = nextID
BY DEF Database

LEMMA RefusedThere ==
  ASSUME NEW call, NEW err, Refused(call, err)
  PROVE  Postgres!Refused(call, err)
BY DEF Refused, Returns, Postgres!Refused, Postgres!Returns, Database, userVars, catalogVars,
   bookingVars

LEMMA FoundThere ==
  ASSUME NEW call, NEW rows, Found(call, rows)
  PROVE  Postgres!Found(call, rows)
BY DEF Found, Returns, Postgres!Found, Postgres!Returns, Database, userVars, catalogVars,
   bookingVars

LEMMA ListedThere ==
  ASSUME NEW call, NEW value, Listed(call, value)
  PROVE  Postgres!Listed(call, value)
BY DEF Listed, Returns, Postgres!Listed, Postgres!Returns, Database, userVars, catalogVars,
   bookingVars

(* A statement that writes one table.                                      *)
LEMMA OneTable ==
  /\ UNCHANGED <<sessions, coworkings, seats, bookings, settings, nextID>>
       => Database' = [Database EXCEPT !.users = users']
  /\ UNCHANGED <<users, coworkings, seats, bookings, settings, nextID>>
       => Database' = [Database EXCEPT !.sessions = sessions']
  /\ UNCHANGED <<users, sessions, seats, bookings, settings, nextID>>
       => Database' = [Database EXCEPT !.coworkings = coworkings']
  /\ UNCHANGED <<users, sessions, coworkings, bookings, settings, nextID>>
       => Database' = [Database EXCEPT !.seats = seats']
  /\ UNCHANGED <<users, sessions, coworkings, seats, settings, nextID>>
       => Database' = [Database EXCEPT !.bookings = bookings']
  /\ UNCHANGED <<users, sessions, coworkings, seats, bookings, nextID>>
       => Database' = [Database EXCEPT !.limit = settings']
BY DEF Database

(* ... and one that takes an id as well.                                   *)
LEMMA TableAndId ==
  ASSUME NEW table \in Tables, NEW id, nextID' = [nextID EXCEPT ![table] = id]
  PROVE  /\ table = "users" /\ UNCHANGED <<sessions, coworkings, seats, bookings, settings>>
              => Database' = [Database EXCEPT ![table] = users', !.next[table] = id]
         /\ table = "coworkings" /\ UNCHANGED <<users, sessions, seats, bookings, settings>>
              => Database' = [Database EXCEPT ![table] = coworkings', !.next[table] = id]
         /\ table = "seats" /\ UNCHANGED <<users, sessions, coworkings, bookings, settings>>
              => Database' = [Database EXCEPT ![table] = seats', !.next[table] = id]
         /\ table = "bookings" /\ UNCHANGED <<users, sessions, coworkings, seats, settings>>
              => Database' = [Database EXCEPT ![table] = bookings', !.next[table] = id]
<1> DEFINE Row(u, c, s, b) ==
             [users |-> u, sessions |-> sessions, coworkings |-> c, seats |-> s,
              bookings |-> b, limit |-> settings, next |-> nextID]
<1>1. ASSUME table = "users", UNCHANGED <<sessions, coworkings, seats, bookings, settings>>
      PROVE  Database' = [[Database EXCEPT ![table] = users'] EXCEPT !.next[table] = id]
  <2>1. [Database EXCEPT ![table] = users'] = Row(users', coworkings, seats, bookings)
    BY <1>1 DEF Database
  <2>2. Database' = [Row(users', coworkings, seats, bookings) EXCEPT !.next[table] = id]
    BY <1>1 DEF Database
  <2> QED
    BY <2>1, <2>2
<1>2. ASSUME table = "coworkings", UNCHANGED <<users, sessions, seats, bookings, settings>>
      PROVE  Database' = [[Database EXCEPT ![table] = coworkings'] EXCEPT !.next[table] = id]
  <2>1. [Database EXCEPT ![table] = coworkings'] = Row(users, coworkings', seats, bookings)
    BY <1>2 DEF Database
  <2>2. Database' = [Row(users, coworkings', seats, bookings) EXCEPT !.next[table] = id]
    BY <1>2 DEF Database
  <2> QED
    BY <2>1, <2>2
<1>3. ASSUME table = "seats", UNCHANGED <<users, sessions, coworkings, bookings, settings>>
      PROVE  Database' = [[Database EXCEPT ![table] = seats'] EXCEPT !.next[table] = id]
  <2>1. [Database EXCEPT ![table] = seats'] = Row(users, coworkings, seats', bookings)
    BY <1>3 DEF Database
  <2>2. Database' = [Row(users, coworkings, seats', bookings) EXCEPT !.next[table] = id]
    BY <1>3 DEF Database
  <2> QED
    BY <2>1, <2>2
<1>4. ASSUME table = "bookings", UNCHANGED <<users, sessions, coworkings, seats, settings>>
      PROVE  Database' = [[Database EXCEPT ![table] = bookings'] EXCEPT !.next[table] = id]
  <2>1. [Database EXCEPT ![table] = bookings'] = Row(users, coworkings, seats, bookings')
    BY <1>4 DEF Database
  <2>2. Database' = [Row(users, coworkings, seats, bookings') EXCEPT !.next[table] = id]
    BY <1>4 DEF Database
  <2> QED
    BY <2>1, <2>2
<1> QED
  BY <1>1, <1>2, <1>3, <1>4

(* The next id of the fake is one that the sequence may hand out.          *)
LEMMA NextIdThere ==
  ASSUME NEW call, NEW table \in Tables, Numbered(call, table)
  PROVE  nextID[table] \in nextID[table] .. MaxId[table]
<1>1. MaxId[table] \in Nat
  BY BoundAssumption DEF Tables
<1>2. nextID[table] \in 1 .. MaxId[table]
  BY DEF Numbered, IdsOf
<1> QED
  BY <1>1, <1>2

LEMMA InsertedThere ==
  ASSUME NEW call, NEW table \in Tables, NEW row, Numbered(call, table),
         Database' = [Database EXCEPT ![table] = Put(Database[table], nextID[table], row),
                                      !.next[table] = nextID[table] + 1]
  PROVE  Postgres!Inserted(call, table, row)
<1> DEFINE k == nextID[table]
<1>1. Database.next = nextID /\ k \in k .. MaxId[table]
  BY DatabaseColumns, NextIdThere
<1>2. Postgres!Returns(call, "ok", {k})
  BY DEF Numbered, Returns, Postgres!Returns
<1>3. Database' = [Database EXCEPT ![table] = Postgres!Put(Database[table], k, row),
                                   !.next[table] = k + 1]
  BY DEF Put, Postgres!Put
<1> QED
  BY <1>1, <1>2, <1>3 DEF Postgres!Inserted

-----------------------------------------------------------------------------
(* The reads.  A lookup by an index finds the row that the query finds.    *)
LEMMA ConflictThere ==
  ASSUME NEW s, NEW x, NEW except
  PROVE  Conflict(s, x, except) = Postgres!Conflicts(s, x, except)
BY DEF Conflict, Postgres!Conflicts, Postgres!ConfirmedOf, Confirmed, Postgres!Confirmed,
   Postgres!Overlaps, Database

LEMMA EmailLookup ==
  ASSUME RepoInv, NEW e
  PROVE  Indexed(usersByEmail, e) = Rows(users, {i \in DOMAIN users : users[i].email = e})
<1>a. IndexesAgree
  BY DEF RepoInv
<1>1. CASE e \in DOMAIN usersByEmail
  <2>1. {i \in DOMAIN users : users[i].email = e} = {usersByEmail[e]}
    BY <1>1, <1>a DEF IndexesAgree
  <2> QED
    BY <1>1, <2>1 DEF Indexed
<1>2. CASE e \notin DOMAIN usersByEmail
  <2>1. {i \in DOMAIN users : users[i].email = e} = {}
    BY <1>2, <1>a DEF IndexesAgree
  <2> QED
    BY <1>2, <2>1 DEF Indexed, Rows
<1> QED
  BY <1>1, <1>2

LEMMA DeviceLookup ==
  ASSUME RepoInv, NEW d
  PROVE  Indexed(usersByDeviceID, d)
           = Rows(users, {i \in DOMAIN users : d # NoDevice /\ users[i].device_id = d})
<1>a. IndexesAgree /\ DevicesIndexed
  BY DEF RepoInv
<1>1. CASE d \in DOMAIN usersByDeviceID
  <2>1. {i \in DOMAIN users : d # NoDevice /\ users[i].device_id = d} = {usersByDeviceID[d]}
    BY <1>1, <1>a DEF IndexesAgree, DevicesIndexed
  <2> QED
    BY <1>1, <2>1 DEF Indexed
<1>2. CASE d \notin DOMAIN usersByDeviceID
  <2>1. {i \in DOMAIN users : d # NoDevice /\ users[i].device_id = d} = {}
    BY <1>2, <1>a DEF IndexesAgree
  <2> QED
    BY <1>2, <2>1 DEF Indexed, Rows
<1> QED
  BY <1>1, <1>2

(* Both stores are written with the helpers of Repository and Schema.      *)
LEMMA SameHelpers ==
  ASSUME NEW table, NEW x
  PROVE  /\ Postgres!Rows(table, x) = Rows(table, x)
         /\ Postgres!SeatsOf(table, x) = SeatsOf(table, x)
         /\ Postgres!Without(table, x) = Without(table, x)
BY DEF Rows, Postgres!Rows, SeatsOf, Postgres!SeatsOf, Without, Postgres!Without

LEMMA SameCount == ASSUME NEW S PROVE Postgres!Cardinality(S) = Cardinality(S)
BY DEF Cardinality, Postgres!Cardinality

LEMMA SameLists == ASSUME NEW S PROVE Postgres!SetToSeqs(S) = SetToSeqs(S)
BY SameCount DEF SetToSeqs, Postgres!SetToSeqs

(* Nobody minds the order of seats and bookings.                           *)
OnlyCoworkingsInOrder == InOrder \subseteq {"ListCoworkings"}

(* A list of the fake is one that the query may return.                    *)
LEMMA ListThere ==
  ASSUME NEW call, NEW rows, NEW list \in SetToSeqs(rows), Listed(call, list),
         \/ call[1] \in {"ListSeats", "ListBookingsByUser", "ListAllBookings"}
         \/ call[1] = "ListCoworkings" /\ ById(list),
         OnlyCoworkingsInOrder
  PROVE  Postgres!ListedInOrder(call, rows)
<1>1. call[1] \in InOrder => Postgres!Ordered(list, call[1])
  BY DEF Postgres!Ordered, ById, Postgres!ById, OnlyCoworkingsInOrder
<1>2. Postgres!Listed(call, list) /\ list \in Postgres!SetToSeqs(rows)
  BY ListedThere, SameLists
<1> QED
  BY <1>1, <1>2 DEF Postgres!ListedInOrder

LEMMA UserReadsThere ==
  ASSUME RepoInv, GetUserByEmail \/ GetUserByID \/ GetUserByDeviceID \/ GetSessionByToken
  PROVE  Postgres!Next
<1>1. GetUserByEmail => Postgres!GetUserByEmail
  <2> SUFFICES ASSUME NEW e \in Emails, Found(<<"GetUserByEmail", e>>, Indexed(usersByEmail, e))
               PROVE  Postgres!GetUserByEmail
    BY DEF GetUserByEmail
  <2>1. Postgres!Found(<<"GetUserByEmail", e>>,
                       Rows(users, {i \in DOMAIN users : users[i].email = e}))
    BY FoundThere, EmailLookup
  <2> QED
    BY <2>1 DEF Postgres!GetUserByEmail, Database, Rows, Postgres!Rows
<1>2. GetUserByID => Postgres!GetUserByID
  BY FoundThere DEF GetUserByID, Postgres!GetUserByID, Database, Rows, Postgres!Rows, IdsOf, Postgres!IdsOf
<1>3. GetUserByDeviceID => Postgres!GetUserByDeviceID
  <2> SUFFICES ASSUME NEW d \in Devices \cup {NoDevice},
                      Found(<<"GetUserByDeviceID", d>>, Indexed(usersByDeviceID, d))
               PROVE  Postgres!GetUserByDeviceID
    BY DEF GetUserByDeviceID
  <2>1. Postgres!Found(<<"GetUserByDeviceID", d>>,
          Rows(users, {i \in DOMAIN users : d # NoDevice /\ users[i].device_id = d}))
    BY FoundThere, DeviceLookup
  <2> QED
    BY <2>1 DEF Postgres!GetUserByDeviceID, Database, Rows, Postgres!Rows
<1>4. GetSessionByToken => Postgres!GetSessionByToken
  BY FoundThere DEF GetSessionByToken, Postgres!GetSessionByToken, Database, Rows, Postgres!Rows
<1> QED
  BY <1>1, <1>2, <1>3, <1>4 DEF Postgres!Next

LEMMA CatalogReadsThere ==
  ASSUME OnlyCoworkingsInOrder,
         ListCoworkings \/ GetCoworkingByID \/ ListSeats \/ GetSeatByID
           \/ HasFutureBookingsForSeat
  PROVE  Postgres!Next
<1>1. ListCoworkings => Postgres!ListCoworkings
  <2> SUFFICES ASSUME NEW list \in SetToSeqs(Rows(coworkings, DOMAIN coworkings)), ById(list),
                      Listed(<<"ListCoworkings">>, list)
               PROVE  Postgres!ListCoworkings
    BY DEF ListCoworkings
  <2>1. Postgres!ListedInOrder(<<"ListCoworkings">>, Rows(coworkings, DOMAIN coworkings))
    BY ListThere
  <2> QED
    BY <2>1, DatabaseColumns, SameHelpers DEF Postgres!ListCoworkings
<1>2. GetCoworkingByID => Postgres!GetCoworkingByID
  BY FoundThere DEF GetCoworkingByID, Postgres!GetCoworkingByID, Database, Rows, Postgres!Rows,
     IdsOf, Postgres!IdsOf
<1>3. ListSeats => Postgres!ListSeats
  <2> SUFFICES ASSUME NEW c \in {0} \cup IdsOf("coworkings"),
                      NEW list \in SetToSeqs(Rows(seats, {s \in DOMAIN seats :
                                                c > 0 => seats[s].coworking_id = c})),
                      Listed(<<"ListSeats", c>>, list)
               PROVE  Postgres!ListSeats
    BY DEF ListSeats
  <2>1. {s \in DOMAIN seats : c > 0 => seats[s].coworking_id = c}
          = IF c = 0 THEN DOMAIN seats ELSE SeatsOf(seats, c)
    BY DEF SeatsOf, IdsOf
  <2>2. Postgres!ListedInOrder(<<"ListSeats", c>>,
          Rows(seats, IF c = 0 THEN DOMAIN seats ELSE SeatsOf(seats, c)))
    BY <2>1, ListThere
  <2>3. Postgres!Rows(Database.seats, IF c = 0 THEN DOMAIN Database.seats
                                      ELSE Postgres!SeatsOf(Database.seats, c))
          = Rows(seats, IF c = 0 THEN DOMAIN seats ELSE SeatsOf(seats, c))
    BY DatabaseColumns, SameHelpers
  <2> QED
    BY <2>2, <2>3 DEF Postgres!ListSeats, IdsOf, Postgres!IdsOf
<1>4. GetSeatByID => Postgres!GetSeatByID
  BY FoundThere DEF GetSeatByID, Postgres!GetSeatByID, Database, Rows, Postgres!Rows, IdsOf,
     Postgres!IdsOf
<1>5. HasFutureBookingsForSeat => Postgres!HasFutureBookingsForSeat
  <2> SUFFICES ASSUME NEW s \in IdsOf("seats"), NEW t \in Times,
                      Listed(<<"HasFutureBookingsForSeat", s, t>>,
                        \E b \in Confirmed(bookings) :
                          bookings[b].seat_id = s /\ bookings[b].start_at > t)
               PROVE  Postgres!HasFutureBookingsForSeat
    BY DEF HasFutureBookingsForSeat
  <2> DEFINE P == \E b \in Confirmed(bookings) : bookings[b].seat_id = s /\ bookings[b].start_at > t
             Q == \E b \in Postgres!ConfirmedOf(s) : Database.bookings[b].start_at > t
  <2>1. P = Q
    BY DEF Database, Confirmed, Postgres!ConfirmedOf, Postgres!Confirmed
  <2>2. Postgres!Listed(<<"HasFutureBookingsForSeat", s, t>>, Q)
    BY <2>1, ListedThere
  <2> QED
    BY <2>2 DEF Postgres!HasFutureBookingsForSeat, IdsOf, Postgres!IdsOf, Times, Postgres!Times
<1> QED
  BY <1>1, <1>2, <1>3, <1>4, <1>5 DEF Postgres!Next

LEMMA BookingReadsThere ==
  ASSUME RepoInv, OnlyCoworkingsInOrder,
         GetBookingByID \/ ListBookingsByUser \/ ListAllBookings \/ SeatHasConflict
           \/ CountActiveBookingsByUser \/ GetSettings
  PROVE  Postgres!Next
<1>1. GetBookingByID => Postgres!GetBookingByID
  BY FoundThere DEF GetBookingByID, Postgres!GetBookingByID, Database, Rows, Postgres!Rows, IdsOf,
     Postgres!IdsOf
<1>2. ListBookingsByUser => Postgres!ListBookingsByUser
  <2> SUFFICES ASSUME NEW u \in IdsOf("users"),
                      NEW list \in SetToSeqs(Rows(bookings,
                                     {b \in DOMAIN bookings : bookings[b].user_id = u})),
                      Listed(<<"ListBookingsByUser", u>>, list)
               PROVE  Postgres!ListBookingsByUser
    BY DEF ListBookingsByUser
  <2>1. Postgres!ListedInOrder(<<"ListBookingsByUser", u>>,
          Rows(bookings, {b \in DOMAIN bookings : bookings[b].user_id = u}))
    BY ListThere
  <2> QED
    BY <2>1, DatabaseColumns, SameHelpers DEF Postgres!ListBookingsByUser, IdsOf, Postgres!IdsOf
<1>3. ListAllBookings => Postgres!ListAllBookings
  <2> SUFFICES ASSUME NEW list \in SetToSeqs(Rows(bookings, DOMAIN bookings)),
                      Listed(<<"ListAllBookings">>, list)
               PROVE  Postgres!ListAllBookings
    BY DEF ListAllBookings
  <2>1. Postgres!ListedInOrder(<<"ListAllBookings">>, Rows(bookings, DOMAIN bookings))
    BY ListThere
  <2> QED
    BY <2>1, DatabaseColumns, SameHelpers DEF Postgres!ListAllBookings
<1>4. SeatHasConflict => Postgres!SeatHasConflict
  <2> SUFFICES ASSUME NEW s \in IdsOf("seats"), NEW x \in Windows,
                      Listed(<<"SeatHasConflict", s, x>>, Conflict(s, x, 0))
               PROVE  Postgres!SeatHasConflict
    BY DEF SeatHasConflict
  <2>1. Conflict(s, x, 0) = Postgres!Conflicts(s, x, 0)
    BY ConflictThere
  <2>2. Postgres!Listed(<<"SeatHasConflict", s, x>>, Postgres!Conflicts(s, x, 0))
    BY <2>1, ListedThere
  <2> QED
    BY <2>2 DEF Postgres!SeatHasConflict, IdsOf, Postgres!IdsOf
<1>5. CountActiveBookingsByUser => Postgres!CountActiveBookingsByUser
  <2> SUFFICES ASSUME NEW u \in IdsOf("users"), NEW t \in Times,
                      Listed(<<"CountActiveBookingsByUser", u, t>>,
                             Cardinality({b \in Confirmed(bookings) :
                                            bookings[b].user_id = u /\ EndsLater(b, t)}))
               PROVE  Postgres!CountActiveBookingsByUser
    BY DEF CountActiveBookingsByUser
  <2>1. {b \in Confirmed(bookings) : bookings[b].user_id = u /\ EndsLater(b, t)}
          = {b \in Postgres!Confirmed(Database.bookings) :
               Database.bookings[b].user_id = u /\ Database.bookings[b].end_at > t}
    BY DEF Database, Confirmed, Postgres!Confirmed, EndsLater
  <2>2. Postgres!Listed(<<"CountActiveBookingsByUser", u, t>>,
          Postgres!Cardinality({b \in Postgres!Confirmed(Database.bookings) :
               Database.bookings[b].user_id = u /\ Database.bookings[b].end_at > t}))
    BY <2>1, ListedThere, SameCount
  <2> QED
    BY <2>2 DEF Postgres!CountActiveBookingsByUser, IdsOf, Postgres!IdsOf, Times, Postgres!Times
<1>6. GetSettings => Postgres!GetSettings
  BY ListedThere DEF GetSettings, Postgres!GetSettings, Database
<1> QED
  BY <1>1, <1>2, <1>3, <1>4, <1>5, <1>6 DEF Postgres!Next

-----------------------------------------------------------------------------
(* The writes.  A call that succeeds without an id.                        *)
LEMMA DoneThere ==
  ASSUME NEW call, NEW d, Done(call), Database' = d
  PROVE  Postgres!Touched(call, TRUE, d)
BY DEF Done, Returns, Postgres!Touched, Postgres!Returns

(* The indexes refuse the user that the UNIQUE columns refuse.             *)
LEMMA SameUniqueUser ==
  ASSUME RepoInv, NEW row \in User
  PROVE  Postgres!UniqueUser(row) <=> ~ EmailOrDeviceTaken(row)
<1>a. IndexesAgree
  BY DEF RepoInv
<1>1. (\E i \in DOMAIN users : users[i].email = row.email) <=> row.email \in DOMAIN usersByEmail
  BY <1>a DEF IndexesAgree
<1>2. ASSUME row.device_id # NoDevice
      PROVE  (\E i \in DOMAIN users : users[i].device_id = row.device_id)
               <=> row.device_id \in DOMAIN usersByDeviceID
  BY <1>2, <1>a DEF IndexesAgree
<1> QED
  BY <1>1, <1>2, DatabaseColumns DEF Postgres!UniqueUser, EmailOrDeviceTaken

LEMMA CreateUserThere == RepoInv /\ CreateUser => Postgres!CreateUser
<1> SUFFICES ASSUME RepoInv, CreateUser PROVE Postgres!CreateUser
  OBVIOUS
<1>1. PICK row \in User :
        \/ EmailOrDeviceTaken(row) /\ Refused(<<"CreateUser", row>>, "ErrEmailTaken")
        \/ /\ ~ EmailOrDeviceTaken(row)
           /\ Numbered(<<"CreateUser", row>>, "users")
           /\ users' = Put(users, nextID["users"], row)
           /\ UNCHANGED <<sessions, catalogVars, bookingVars>>
  BY DEF CreateUser
<1>2. IF Postgres!UniqueUser(row) THEN Postgres!Inserted(<<"CreateUser", row>>, "users", row)
      ELSE Postgres!Refused(<<"CreateUser", row>>, "ErrEmailTaken")
  <2>1. CASE EmailOrDeviceTaken(row)
    BY <1>1, <2>1, SameUniqueUser, RefusedThere
  <2>2. CASE ~ EmailOrDeviceTaken(row)
    <3>1. nextID' = [nextID EXCEPT !["users"] = nextID["users"] + 1]
      BY <1>1, <2>2 DEF Numbered
    <3>2. Database' = [Database EXCEPT !["users"] = users', !.next["users"] = nextID["users"] + 1]
      BY <1>1, <2>2, <3>1, TableAndId DEF Tables, catalogVars, bookingVars
    <3>3. Database["users"] = users
      BY DEF Database
    <3>4. Postgres!Inserted(<<"CreateUser", row>>, "users", row)
      BY <1>1, <2>2, <3>2, <3>3, InsertedThere DEF Tables
    <3> QED
      BY <2>2, <3>4, SameUniqueUser
  <2> QED
    BY <2>1, <2>2
<1>3. row \in Postgres!User
  BY DEF User, Postgres!User
<1> QED
  BY <1>2, <1>3 DEF Postgres!CreateUser

LEMMA UpdateUserNameThere == UpdateUserName => Postgres!UpdateUserName
<1> SUFFICES ASSUME NEW i \in IdsOf("users"), NEW n \in Names,
                    \/ i \notin DOMAIN users
                         /\ Refused(<<"UpdateUserName", i, n>>, "ErrNotFound")
                    \/ /\ i \in DOMAIN users
                       /\ users' = [users EXCEPT ![i].name = n]
                       /\ Done(<<"UpdateUserName", i, n>>)
                       /\ UNCHANGED <<usersByEmail, usersByDeviceID, sessions, catalogVars,
                                      bookingVars>>
             PROVE  Postgres!UpdateUserName
  BY DEF UpdateUserName
<1> DEFINE d == [Database EXCEPT !.users[i].name = n]
<1>1. Postgres!Touched(<<"UpdateUserName", i, n>>, i \in DOMAIN Database.users, d)
  <2>1. CASE i \notin DOMAIN users
    BY <2>1, RefusedThere, DatabaseColumns DEF Postgres!Touched
  <2>2. CASE i \in DOMAIN users
    <3>1. Database' = [Database EXCEPT !.users = users']
      BY <2>2, OneTable DEF catalogVars, bookingVars, Done
    <3>2. Database' = d
      BY <2>2, <3>1 DEF Database
    <3> QED
      BY <2>2, <3>2, DatabaseColumns DEF Done, Returns, Postgres!Touched, Postgres!Returns
  <2> QED
    BY <2>1, <2>2
<1> QED
  BY <1>1 DEF Postgres!UpdateUserName, IdsOf, Postgres!IdsOf

(* A token that the primary key would have refused is one that is reused.  *)
LEMMA CreateSessionThere ==
  SchemaHolds' /\ ~ TokenReused /\ CreateSession => Postgres!CreateSession
<1> SUFFICES ASSUME SchemaHolds', ~ TokenReused, NEW t \in Tokens, NEW i \in IdsOf("users"),
                    sessions' = Put(sessions, t, i),
                    Done(<<"CreateSession", t, i>>),
                    UNCHANGED <<users, usersByEmail, usersByDeviceID, catalogVars, bookingVars>>
             PROVE  Postgres!CreateSession
  BY DEF CreateSession
<1>1. t \in DOMAIN sessions' /\ sessions'[t] = i
  BY DEF Put
<1>2. i \in DOMAIN users
  BY <1>1 DEF SchemaHolds
<1>3. Database' = [Database EXCEPT !.sessions = Put(Database.sessions, t, i)]
  BY OneTable, DatabaseColumns DEF catalogVars, bookingVars, Done
<1>4. Database' = [Database EXCEPT !.sessions = Postgres!Put(Database.sessions, t, i)]
  BY <1>3 DEF Put, Postgres!Put
<1>5. Postgres!Returns(<<"CreateSession", t, i>>, "ok", {})
  BY DEF Done, Returns, Postgres!Returns
<1>6. answer'.call = <<"CreateSession", t, i>>
  BY DEF Done, Returns
<1>7. t \notin DOMAIN sessions
  BY <1>6 DEF TokenReused
<1>8. t \notin DOMAIN Database.sessions /\ i \in DOMAIN Database.users
  BY <1>2, <1>7, DatabaseColumns
<1>9. i \in Postgres!IdsOf("users")
  BY DEF IdsOf, Postgres!IdsOf
<1> QED
  BY <1>4, <1>5, <1>8, <1>9 DEF Postgres!CreateSession

-----------------------------------------------------------------------------
(* The fake stores a whole row, the statement updates it in place.         *)
LEMMA PutIsUpdate ==
  ASSUME NEW table, NEW id \in DOMAIN table, NEW row
  PROVE  Put(table, id, row) = [table EXCEPT ![id] = row]
BY DEF Put

LEMMA CreateCoworkingThere == RepoInv /\ CreateCoworking => Postgres!CreateCoworking
<1> SUFFICES ASSUME RepoInv, NEW n \in CoworkingNames,
                    \/ n \in DOMAIN coworkingsName
                         /\ Refused(<<"CreateCoworking", n>>, "ErrConflictState")
                    \/ /\ n \notin DOMAIN coworkingsName
                       /\ Numbered(<<"CreateCoworking", n>>, "coworkings")
                       /\ coworkings' = Put(coworkings, nextID["coworkings"], n)
                       /\ UNCHANGED <<userVars, seats, bookingVars>>
             PROVE  Postgres!CreateCoworking
  BY DEF CreateCoworking
<1>1. Postgres!NameFree(Database.coworkings, 0, n) <=> n \notin DOMAIN coworkingsName
  <2>1. \A c \in DOMAIN coworkings : c # 0
    BY DEF RepoInv, IdsGiven
  <2>2. NameFree(coworkings, 0, n) <=> n \notin DOMAIN coworkingsName
    BY <2>1 DEF RepoInv, IndexesAgree, NameFree
  <2> QED
    BY <2>2, DatabaseColumns DEF NameFree, Postgres!NameFree
<1>2. IF Postgres!NameFree(Database.coworkings, 0, n)
      THEN Postgres!Inserted(<<"CreateCoworking", n>>, "coworkings", n)
      ELSE Postgres!Refused(<<"CreateCoworking", n>>, "ErrConflictState")
  <2>1. CASE n \in DOMAIN coworkingsName
    BY <1>1, <2>1, RefusedThere
  <2>2. CASE n \notin DOMAIN coworkingsName
    <3>1. nextID' = [nextID EXCEPT !["coworkings"] = nextID["coworkings"] + 1]
      BY <2>2 DEF Numbered
    <3>2. Database' = [Database EXCEPT !["coworkings"] = coworkings',
                                       !.next["coworkings"] = nextID["coworkings"] + 1]
      BY <2>2, <3>1, TableAndId DEF Tables, userVars, bookingVars
    <3>3. Database["coworkings"] = coworkings
      BY DEF Database
    <3>4. Postgres!Inserted(<<"CreateCoworking", n>>, "coworkings", n)
      BY <2>2, <3>2, <3>3, InsertedThere DEF Tables
    <3> QED
      BY <1>1, <2>2, <3>4
  <2> QED
    BY <2>1, <2>2
<1> QED
  BY <1>2 DEF Postgres!CreateCoworking

LEMMA UpdateCoworkingThere == RepoInv /\ UpdateCoworking => Postgres!UpdateCoworking
<1> SUFFICES ASSUME RepoInv, NEW c \in IdsOf("coworkings"), NEW n \in CoworkingNames,
                    \/ /\ c \notin DOMAIN coworkings
                       /\ Refused(<<"UpdateCoworking", c, n>>, "ErrNotFound")
                    \/ /\ c \in DOMAIN coworkings /\ n # coworkings[c]
                       /\ n \in DOMAIN coworkingsName
                       /\ Refused(<<"UpdateCoworking", c, n>>, "ErrConflictState")
                    \/ /\ c \in DOMAIN coworkings
                       /\ n # coworkings[c] => n \notin DOMAIN coworkingsName
                       /\ coworkings' = Put(coworkings, c, n)
                       /\ Done(<<"UpdateCoworking", c, n>>)
                       /\ UNCHANGED <<userVars, seats, bookingVars>>
             PROVE  Postgres!UpdateCoworking
  BY DEF UpdateCoworking
<1> DEFINE call == <<"UpdateCoworking", c, n>>
           d == [Database EXCEPT !.coworkings[c] = n]
<1>1. ASSUME c \in DOMAIN coworkings
      PROVE  Postgres!NameFree(Database.coworkings, c, n)
               <=> (n # coworkings[c] => n \notin DOMAIN coworkingsName)
  <2>1. NameFree(coworkings, c, n) <=> (n # coworkings[c] => n \notin DOMAIN coworkingsName)
    BY <1>1 DEF RepoInv, IndexesAgree, NameFree
  <2> QED
    BY <2>1, DatabaseColumns DEF NameFree, Postgres!NameFree
<1>2. IF c \in DOMAIN Database.coworkings /\ ~ Postgres!NameFree(Database.coworkings, c, n)
      THEN Postgres!Refused(call, "ErrConflictState")
      ELSE Postgres!Touched(call, c \in DOMAIN Database.coworkings, d)
  <2>1. CASE c \notin DOMAIN coworkings
    BY <2>1, RefusedThere, DatabaseColumns DEF Postgres!Touched
  <2>2. CASE c \in DOMAIN coworkings /\ n # coworkings[c] /\ n \in DOMAIN coworkingsName
    BY <1>1, <2>2, RefusedThere, DatabaseColumns
  <2>3. CASE c \in DOMAIN coworkings /\ (n # coworkings[c] => n \notin DOMAIN coworkingsName)
    <3>1. Database' = [Database EXCEPT !.coworkings = coworkings']
      BY <2>3, OneTable DEF userVars, bookingVars, Done
    <3>2. coworkings' = Put(coworkings, c, n) /\ Done(call)
      BY <2>3
    <3>3. coworkings' = [coworkings EXCEPT ![c] = n]
      BY <2>3, <3>2, PutIsUpdate
    <3>4. Database' = d
      BY <3>1, <3>3 DEF Database
    <3>5. Postgres!Touched(call, TRUE, d)
      BY <3>2, <3>4, DoneThere
    <3> QED
      BY <1>1, <2>3, <3>5, DatabaseColumns
  <2> QED
    BY <2>1, <2>2, <2>3
<1>3. c \in Postgres!IdsOf("coworkings")
  BY DEF IdsOf, Postgres!IdsOf
<1> QED
  BY <1>2, <1>3 DEF Postgres!UpdateCoworking

LEMMA DeleteCoworkingThere ==
  RepoInv /\ SchemaHolds /\ SchemaHolds' /\ DeleteCoworking => Postgres!DeleteCoworking
<1> SUFFICES ASSUME RepoInv, SchemaHolds, SchemaHolds', NEW c \in IdsOf("coworkings"),
                    \/ /\ c \notin DOMAIN coworkings
                       /\ Refused(<<"DeleteCoworking", c>>, "ErrNotFound")
                    \/ /\ c \in DOMAIN coworkings
                       /\ coworkings' = Without(coworkings, {c})
                       /\ seats' = Without(seats, SeatsOf(seats, c))
                       /\ Done(<<"DeleteCoworking", c>>)
                       /\ UNCHANGED <<userVars, bookingVars>>
             PROVE  Postgres!DeleteCoworking
  BY DEF DeleteCoworking
<1> DEFINE call == <<"DeleteCoworking", c>>
           gone == SeatsOf(seats, c)
           d == [Database EXCEPT !.coworkings = Without(@, {c}), !.seats = Without(@, gone)]
<1>1. ~ Postgres!Restricted(gone)
  <2>1. CASE c \notin DOMAIN coworkings
    <3>1. gone = {}
      BY <2>1 DEF SchemaHolds, SeatsOf
    <3> QED
      BY <3>1 DEF Postgres!Restricted
  <2>2. CASE c \in DOMAIN coworkings
    <3>1. DOMAIN seats' = DOMAIN seats \ gone /\ bookings' = bookings
      BY <2>1, <2>2 DEF Without, bookingVars
    <3>2. \A b \in DOMAIN bookings : bookings[b].seat_id \in DOMAIN seats'
      BY <3>1 DEF SchemaHolds
    <3> QED
      BY <3>1, <3>2, DatabaseColumns DEF Postgres!Restricted
  <2> QED
    BY <2>1, <2>2
<1>2. Postgres!Touched(call, c \in DOMAIN Database.coworkings, d)
  <2>1. CASE c \notin DOMAIN coworkings
    BY <2>1, RefusedThere, DatabaseColumns DEF Postgres!Touched
  <2>2. CASE c \in DOMAIN coworkings
    <3> DEFINE Row == [users |-> users, sessions |-> sessions, coworkings |-> coworkings',
                       seats |-> seats, bookings |-> bookings, limit |-> settings,
                       next |-> nextID]
    <3>1. UNCHANGED <<users, sessions, bookings, settings, nextID>>
      BY <2>2 DEF userVars, bookingVars, Done
    <3>2. d = [[Database EXCEPT !.coworkings = coworkings'] EXCEPT !.seats = seats']
      BY <2>2, DatabaseColumns
    <3>3. [Database EXCEPT !.coworkings = coworkings'] = Row
      BY DEF Database
    <3>4. Database' = [Row EXCEPT !.seats = seats']
      BY <3>1 DEF Database
    <3>5. Database' = d
      BY <3>2, <3>3, <3>4
    <3>6. Postgres!Touched(call, TRUE, d)
      BY <2>2, <3>5, DoneThere
    <3> QED
      BY <2>2, <3>6, DatabaseColumns
  <2> QED
    BY <2>1, <2>2
<1>3. gone = Postgres!SeatsOf(Database.seats, c)
  BY DatabaseColumns, SameHelpers
<1>4. d = [Database EXCEPT !.coworkings = Postgres!Without(@, {c}),
                           !.seats = Postgres!Without(@, gone)]
  BY DEF Without, Postgres!Without
<1>5. c \in Postgres!IdsOf("coworkings")
  BY DEF IdsOf, Postgres!IdsOf
<1> QED
  BY <1>1, <1>2, <1>3, <1>4, <1>5 DEF Postgres!DeleteCoworking

LEMMA SamePlaceFree ==
  ASSUME NEW s, NEW row
  PROVE  Postgres!PlaceFree(Database.seats, s, row) <=> PlaceFree(seats, s, row)
BY DatabaseColumns DEF PlaceFree, Postgres!PlaceFree

LEMMA SameSeat == Postgres!Seat = Seat
BY DEF Seat, Postgres!Seat, IdsOf, Postgres!IdsOf

LEMMA CreateSeatThere == SchemaHolds' /\ CreateSeat => Postgres!CreateSeat
<1> SUFFICES ASSUME SchemaHolds', NEW row \in Seat,
                    \/ /\ ~ PlaceFree(seats, 0, row)
                       /\ Refused(<<"CreateSeat", row>>, "ErrConflictState")
                    \/ /\ PlaceFree(seats, 0, row)
                       /\ Numbered(<<"CreateSeat", row>>, "seats")
                       /\ seats' = Put(seats, nextID["seats"], row)
                       /\ UNCHANGED <<userVars, coworkings, coworkingsName, bookingVars>>
             PROVE  Postgres!CreateSeat
  BY DEF CreateSeat
<1> DEFINE call == <<"CreateSeat", row>>
<1>1. IF ~ Postgres!PlaceFree(Database.seats, 0, row)
      THEN Postgres!Refused(call, "ErrConflictState")
      ELSE IF row.coworking_id \notin DOMAIN Database.coworkings
      THEN Postgres!Refused(call, "other")
      ELSE Postgres!Inserted(call, "seats", row)
  <2>1. CASE ~ PlaceFree(seats, 0, row)
    BY <2>1, SamePlaceFree, RefusedThere
  <2>2. CASE PlaceFree(seats, 0, row)
    <3>1. nextID' = [nextID EXCEPT !["seats"] = nextID["seats"] + 1]
      BY <2>2 DEF Numbered
    <3>2. Database' = [Database EXCEPT !["seats"] = seats',
                                       !.next["seats"] = nextID["seats"] + 1]
      BY <2>2, <3>1, TableAndId DEF Tables, userVars, bookingVars
    <3>3. Database["seats"] = seats
      BY DEF Database
    <3>4. Postgres!Inserted(call, "seats", row)
      BY <2>2, <3>2, <3>3, InsertedThere DEF Tables
    <3>5. nextID["seats"] \in DOMAIN seats' /\ seats'[nextID["seats"]] = row
      BY <2>2 DEF Put
    <3>6. row.coworking_id \in DOMAIN Database.coworkings
      BY <2>2, <3>5, DatabaseColumns DEF SchemaHolds
    <3> QED
      BY <2>2, <3>4, <3>6, SamePlaceFree
  <2> QED
    BY <2>1, <2>2
<1> QED
  BY <1>1, SameSeat DEF Postgres!CreateSeat

LEMMA UpdateSeatThere == SchemaHolds' /\ UpdateSeat => Postgres!UpdateSeat
<1> SUFFICES ASSUME SchemaHolds', NEW s \in IdsOf("seats"), NEW row \in Seat,
                    \/ s \notin DOMAIN seats /\ Refused(<<"UpdateSeat", s, row>>, "ErrNotFound")
                    \/ /\ s \in DOMAIN seats /\ ~ PlaceFree(seats, s, row)
                       /\ Refused(<<"UpdateSeat", s, row>>, "ErrConflictState")
                    \/ /\ s \in DOMAIN seats /\ PlaceFree(seats, s, row)
                       /\ seats' = Put(seats, s, row)
                       /\ Done(<<"UpdateSeat", s, row>>)
                       /\ UNCHANGED <<userVars, coworkings, coworkingsName, bookingVars>>
             PROVE  Postgres!UpdateSeat
  BY DEF UpdateSeat
<1> DEFINE call == <<"UpdateSeat", s, row>>
           d == [Database EXCEPT !.seats[s] = row]
<1>1. IF s \in DOMAIN Database.seats /\ ~ Postgres!PlaceFree(Database.seats, s, row)
      THEN Postgres!Refused(call, "ErrConflictState")
      ELSE IF s \in DOMAIN Database.seats /\ row.coworking_id \notin DOMAIN Database.coworkings
      THEN Postgres!Refused(call, "other")
      ELSE Postgres!Touched(call, s \in DOMAIN Database.seats, d)
  <2>1. CASE s \notin DOMAIN seats
    BY <2>1, RefusedThere, DatabaseColumns DEF Postgres!Touched
  <2>2. CASE s \in DOMAIN seats /\ ~ PlaceFree(seats, s, row)
    BY <2>2, SamePlaceFree, RefusedThere, DatabaseColumns
  <2>3. CASE s \in DOMAIN seats /\ PlaceFree(seats, s, row)
    <3>1. Database' = [Database EXCEPT !.seats = seats']
      BY <2>3, OneTable DEF userVars, bookingVars, Done
    <3>2. seats' = [seats EXCEPT ![s] = row]
      BY <2>3, PutIsUpdate
    <3>3. Database' = d
      BY <3>1, <3>2 DEF Database
    <3>4. Postgres!Touched(call, TRUE, d)
      BY <2>3, <3>3, DoneThere
    <3>5. row.coworking_id \in DOMAIN coworkings
      BY <2>3, <3>2 DEF SchemaHolds
    <3> QED
      BY <2>3, <3>4, <3>5, SamePlaceFree, DatabaseColumns
  <2> QED
    BY <2>1, <2>2, <2>3
<1>2. s \in Postgres!IdsOf("seats")
  BY DEF IdsOf, Postgres!IdsOf
<1> QED
  BY <1>1, <1>2, SameSeat DEF Postgres!UpdateSeat

LEMMA DeleteSeatThere == SchemaHolds /\ SchemaHolds' /\ DeleteSeat => Postgres!DeleteSeat
<1> SUFFICES ASSUME SchemaHolds, SchemaHolds', NEW s \in IdsOf("seats"),
                    \/ s \notin DOMAIN seats /\ Refused(<<"DeleteSeat", s>>, "ErrNotFound")
                    \/ /\ s \in DOMAIN seats
                       /\ seats' = Without(seats, {s})
                       /\ Done(<<"DeleteSeat", s>>)
                       /\ UNCHANGED <<userVars, coworkings, coworkingsName, bookingVars>>
             PROVE  Postgres!DeleteSeat
  BY DEF DeleteSeat
<1> DEFINE call == <<"DeleteSeat", s>>
           d == [Database EXCEPT !.seats = Without(@, {s})]
<1>1. ~ Postgres!Restricted({s})
  <2>1. bookings' = bookings /\ s \notin DOMAIN seats'
    BY DEF Refused, catalogVars, bookingVars, Without
  <2>2. \A b \in DOMAIN bookings : bookings[b].seat_id # s
    BY <2>1 DEF SchemaHolds
  <2> QED
    BY <2>2, DatabaseColumns DEF Postgres!Restricted
<1>2. Postgres!Touched(call, s \in DOMAIN Database.seats, d)
  <2>1. CASE s \notin DOMAIN seats
    BY <2>1, RefusedThere, DatabaseColumns DEF Postgres!Touched
  <2>2. CASE s \in DOMAIN seats
    <3>1. Database' = [Database EXCEPT !.seats = seats']
      BY <2>2, OneTable DEF userVars, bookingVars, Done
    <3>2. Database' = d
      BY <2>2, <3>1 DEF Database
    <3>3. Postgres!Touched(call, TRUE, d)
      BY <2>2, <3>2, DoneThere
    <3> QED
      BY <2>2, <3>3, DatabaseColumns
  <2> QED
    BY <2>1, <2>2
<1>3. d = [Database EXCEPT !.seats = Postgres!Without(@, {s})]
  BY DEF Without, Postgres!Without
<1>4. s \in Postgres!IdsOf("seats")
  BY DEF IdsOf, Postgres!IdsOf
<1> QED
  BY <1>1, <1>2, <1>3, <1>4 DEF Postgres!DeleteSeat

-----------------------------------------------------------------------------
LEMMA SameBooking == Postgres!Booking = Booking
BY DEF Booking, Postgres!Booking, IdsOf, Postgres!IdsOf, BookingStatus, Postgres!BookingStatus

(* A booking that the EXCLUDE constraint would have refused breaks the     *)
(* schema as soon as the fake has stored it.                               *)
LEMMA CreateBookingThere ==
  RepoInv /\ SchemaHolds' /\ CreateBooking => Postgres!CreateBooking
<1> SUFFICES ASSUME RepoInv, SchemaHolds', NEW row \in Booking, row.status = "confirmed",
                    Numbered(<<"CreateBooking", row>>, "bookings"),
                    bookings' = Put(bookings, nextID["bookings"], row),
                    UNCHANGED <<userVars, catalogVars, settings>>
             PROVE  Postgres!CreateBooking
  BY DEF CreateBooking
<1> DEFINE call == <<"CreateBooking", row>>
           k == nextID["bookings"]
<1>1. k \notin DOMAIN bookings /\ UNCHANGED <<users, seats>>
  BY DEF RepoInv, IdsGiven, Tables, userVars, catalogVars
<1>2. /\ DOMAIN bookings' = DOMAIN bookings \cup {k} /\ bookings'[k] = row
      /\ \A b \in DOMAIN bookings : bookings'[b] = bookings[b]
  BY <1>1 DEF Put
<1>3. row.user_id \in DOMAIN users /\ row.seat_id \in DOMAIN seats
  BY <1>1, <1>2 DEF SchemaHolds
<1>4. ~ Conflict(row.seat_id, row, 0)
  BY <1>1, <1>2 DEF SchemaHolds, Conflict, Confirmed
<1>5. Postgres!Inserted(call, "bookings", row)
  <2>1. nextID' = [nextID EXCEPT !["bookings"] = k + 1]
    BY DEF Numbered
  <2>2. Database' = [Database EXCEPT !["bookings"] = bookings', !.next["bookings"] = k + 1]
    BY <2>1, TableAndId DEF Tables, userVars, catalogVars
  <2>3. Database["bookings"] = bookings
    BY DEF Database
  <2> QED
    BY <2>2, <2>3, InsertedThere DEF Tables
<1> QED
  BY <1>3, <1>4, <1>5, SameBooking, ConflictThere, DatabaseColumns DEF Postgres!CreateBooking

LEMMA UpdateBookingStatusThere ==
  RepoInv /\ SchemaHolds' /\ UpdateBookingStatus => Postgres!UpdateBookingStatus
<1> SUFFICES ASSUME RepoInv, SchemaHolds', NEW b \in IdsOf("bookings"), NEW st \in BookingStatus,
                    \/ /\ b \notin DOMAIN bookings
                       /\ Refused(<<"UpdateBookingStatus", b, st>>, "ErrNotFound")
                    \/ /\ b \in DOMAIN bookings
                       /\ bookings' = [bookings EXCEPT ![b].status = st]
                       /\ Done(<<"UpdateBookingStatus", b, st>>)
                       /\ UNCHANGED <<userVars, catalogVars, settings>>
             PROVE  Postgres!UpdateBookingStatus
  BY DEF UpdateBookingStatus
<1> DEFINE call == <<"UpdateBookingStatus", b, st>>
           d == [Database EXCEPT !.bookings[b].status = st]
<1>1. ASSUME b \in DOMAIN bookings, st = "confirmed"
      PROVE  ~ Conflict(bookings[b].seat_id, bookings[b], b)
  <2>1. /\ DOMAIN bookings' = DOMAIN bookings
        /\ bookings'[b] = [bookings[b] EXCEPT !.status = st]
        /\ \A a \in DOMAIN bookings \ {b} : bookings'[a] = bookings[a]
    BY <1>1
  <2>2. bookings[b] \in Booking
    BY <1>1 DEF RepoInv, RowsTyped
  <2>3. /\ bookings'[b].status = "confirmed" /\ bookings'[b].seat_id = bookings[b].seat_id
        /\ bookings'[b].start_at = bookings[b].start_at
        /\ bookings'[b].end_at = bookings[b].end_at
    BY <1>1, <2>1, <2>2 DEF Booking
  <2> QED
    BY <1>1, <2>1, <2>3 DEF SchemaHolds, Conflict, Confirmed
<1>2. IF /\ b \in DOMAIN Database.bookings /\ st = "confirmed"
         /\ Postgres!Conflicts(Database.bookings[b].seat_id, Database.bookings[b], b)
      THEN Postgres!Refused(call, "other")
      ELSE Postgres!Touched(call, b \in DOMAIN Database.bookings, d)
  <2>1. CASE b \notin DOMAIN bookings
    BY <2>1, RefusedThere, DatabaseColumns DEF Postgres!Touched
  <2>2. CASE b \in DOMAIN bookings
    <3>1. Database' = [Database EXCEPT !.bookings = bookings']
      BY <2>2, OneTable DEF userVars, catalogVars, Done
    <3>2. Database' = d
      BY <2>2, <3>1 DEF Database
    <3>3. Postgres!Touched(call, TRUE, d)
      BY <2>2, <3>2, DoneThere
    <3>4. st = "confirmed" => ~ Postgres!Conflicts(bookings[b].seat_id, bookings[b], b)
      BY <1>1, <2>2, ConflictThere
    <3> QED
      BY <2>2, <3>3, <3>4, DatabaseColumns
  <2> QED
    BY <2>1, <2>2
<1>3. b \in Postgres!IdsOf("bookings") /\ st \in Postgres!BookingStatus
  BY DEF IdsOf, Postgres!IdsOf, BookingStatus, Postgres!BookingStatus
<1> QED
  BY <1>2, <1>3 DEF Postgres!UpdateBookingStatus

LEMMA SetBookingLimitThere == SchemaHolds' /\ SetBookingLimit => Postgres!SetBookingLimit
<1> SUFFICES ASSUME SchemaHolds', NEW n \in Limits, settings' = n,
                    Done(<<"SetBookingLimit", n>>), UNCHANGED <<userVars, catalogVars, bookings>>
             PROVE  Postgres!SetBookingLimit
  BY DEF SetBookingLimit
<1>1. n \in 1 .. 100
  BY DEF SchemaHolds
<1>2. Database' = [Database EXCEPT !.limit = n]
  BY OneTable DEF userVars, catalogVars, Done
<1>3. Postgres!Returns(<<"SetBookingLimit", n>>, "ok", {})
  BY DEF Done, Returns, Postgres!Returns
<1> QED
  BY <1>1, <1>2, <1>3 DEF Postgres!SetBookingLimit

-----------------------------------------------------------------------------
LEMMA FakeStartsThere == Init => Postgres!Init
BY DEF Init, Postgres!Init, Database, Empty

LEMMA FakeStepThere ==
  ASSUME OnlyCoworkingsInOrder
  PROVE  RepoInv /\ [Next]_vars => [SchemaAllows => Postgres!Next]_vars
<1> SUFFICES ASSUME RepoInv, Next, SchemaHolds, SchemaHolds', ~ TokenReused PROVE Postgres!Next
  BY DEF SchemaAllows
<1>1. ASSUME GetUserByEmail \/ GetUserByID \/ GetUserByDeviceID \/ GetSessionByToken
      PROVE  Postgres!Next
  BY <1>1, UserReadsThere
<1>2. ASSUME ListCoworkings \/ GetCoworkingByID \/ ListSeats \/ GetSeatByID
               \/ HasFutureBookingsForSeat
      PROVE  Postgres!Next
  BY <1>2, CatalogReadsThere
<1>3. ASSUME GetBookingByID \/ ListBookingsByUser \/ ListAllBookings \/ SeatHasConflict
               \/ CountActiveBookingsByUser \/ GetSettings
      PROVE  Postgres!Next
  BY <1>3, BookingReadsThere
<1>4. ASSUME CreateUser \/ UpdateUserName \/ CreateSession
      PROVE  Postgres!Next
  BY <1>4, CreateUserThere, UpdateUserNameThere, CreateSessionThere DEF Postgres!Next
<1>5. ASSUME CreateCoworking \/ UpdateCoworking \/ DeleteCoworking
      PROVE  Postgres!Next
  BY <1>5, CreateCoworkingThere, UpdateCoworkingThere, DeleteCoworkingThere DEF Postgres!Next
<1>6. ASSUME CreateSeat \/ UpdateSeat \/ DeleteSeat
      PROVE  Postgres!Next
  BY <1>6, CreateSeatThere, UpdateSeatThere, DeleteSeatThere DEF Postgres!Next
<1>7. ASSUME CreateBooking \/ UpdateBookingStatus \/ SetBookingLimit
      PROVE  Postgres!Next
  BY <1>7, CreateBookingThere, UpdateBookingStatusThere, SetBookingLimitThere DEF Postgres!Next
<1> QED
  BY <1>1, <1>2, <1>3, <1>4, <1>5, <1>6, <1>7 DEF Next

(* Whatever rows there are, the fake of the unit tests stores, finds and   *)
(* answers what PostgreSQL would, up to a call that the schema would not   *)
(* allow, for whoever does not mind in which order it lists seats and      *)
(* bookings.                                                               *)
THEOREM FakeMirrorsPostgres ==
  ASSUME InOrder \subseteq {"ListCoworkings"}
  PROVE  Spec => MirrorsPostgres
<1>0. OnlyCoworkingsInOrder
  BY DEF OnlyCoworkingsInOrder
<1>1. Init => Postgres!Init
  BY FakeStartsThere
<1>2. RepoInv /\ [Next]_vars => [SchemaAllows => Postgres!Next]_vars
  BY <1>0, FakeStepThere
<1> QED
  BY <1>1, <1>2, RepoInvariance, PTL DEF Spec, MirrorsPostgres
=============================================================================
