---------------------------- MODULE BookingProofs ----------------------------
(***************************************************************************)
(* Theorems about BookingService and, in the last section, about MapView,  *)
(* for every value of their constants.  The sections build on each other:  *)
(*   - the rows and the requests (RowsInv);                                *)
(*   - what the schema maintains (SchemaInv, IInv);                        *)
(*   - the booking limit under races (LimitInv);                           *)
(*   - the calendar the service implements (CalendarInv);                  *)
(*   - the contract of one handler at a time (ContractInv, NamesInv);      *)
(*   - the views of the free seats (ViewInv).                              *)
(***************************************************************************)
EXTENDS MapView, FiniteSetTheorems, TLAPS

-----------------------------------------------------------------------------
(* Rows and schema.  The type invariant, the fact that a pending status    *)
(* update names a row (rows are never deleted), and the two facts the      *)
(* schema maintains: the confirmed rows of a seat are pairwise disjoint,   *)
(* and every row's seat exists.                                            *)

(* A pending UPDATE ... WHERE id names a row of the table.                 *)
PendingRowExists ==
  \A w \in Workers : req[w].pc = "UpdateBookingStatus" => req[w].id \in DOMAIN bookings

(* bookings_no_confirmed_overlap, as the table satisfies it.               *)
ConfirmedDisjoint ==
  \A i, j \in DOMAIN bookings :
    /\ Confirmed(i) /\ Confirmed(j)
    /\ bookings[i].seat_id = bookings[j].seat_id
    /\ Overlaps(bookings[i], bookings[j])
    => i = j

(* Only a booking that has a display name goes on to the rename.           *)
RenameHasName ==
  \A w \in Workers :
    req[w].pc \in {"GetUserByID", "UpdateUserName"} => req[w].display_name \in Names

RowsInv == TypeOK /\ PendingRowExists /\ RenameHasName

SchemaInv == Store = "postgres" => ConfirmedDisjoint /\ BookedSeatExists

IInv == RowsInv /\ SchemaInv

-----------------------------------------------------------------------------
(* The pc of a request tells which record it is.                           *)
LEMMA RequestKinds ==
  ASSUME NEW r \in Request
  PROVE  /\ r.pc \in BookingPC => r \in BookingReq
         /\ r.pc = "UpdateBookingStatus" => r \in StatusReq
         /\ r.pc = "DeleteSeat" => r \in DeleteReq
  BY DEF Request, Idle, BookingReq, BookingPC, StatusReq, DeleteReq

(* What Check does: the request moves on, its data untouched, or is        *)
(* answered.                                                               *)
LEMMA CheckEffect ==
  ASSUME NEW w \in Workers, NEW ok, NEW next \in BookingPC,
         req \in [Workers -> Request], req[w].pc \in BookingPC, Check(w, ok, next)
  PROVE  \/ req' = [req EXCEPT ![w] = Idle]
         \/ /\ ok
            /\ \E r \in BookingReq : /\ r.pc = next
                                    /\ r.display_name = req[w].display_name
                                    /\ req' = [req EXCEPT ![w] = r]
<1> DEFINE r == [req[w] EXCEPT !.pc = next]
<1>1. req[w] \in BookingReq
  BY RequestKinds
<1>2. r \in BookingReq /\ r.pc = next /\ r.display_name = req[w].display_name
  BY <1>1 DEF BookingReq
<1>3. CASE ok
  <2>1. req' = [req EXCEPT ![w] = r]
    BY <1>3 DEF Check
  <2> QED
    BY <2>1, <1>2, <1>3
<1>4. CASE ~ ok
  BY <1>4 DEF Check, Reply
<1> QED
  BY <1>3, <1>4

(* What is to be shown of the request that a step leaves in req[w].        *)
Sound(r) ==
  /\ r \in Request
  /\ r.pc = "UpdateBookingStatus" => r.id \in DOMAIN bookings
  /\ r.pc \in {"GetUserByID", "UpdateUserName"} => r.display_name \in Names

LEMMA IdleSound == Sound(Idle)
BY DEF Sound, Request, Idle

(* A step that changes one request and drops no row.                       *)
LEMMA ReplaceRequest ==
  ASSUME RowsInv, NEW w \in Workers, NEW r, Sound(r), req' = [req EXCEPT ![w] = r],
         DOMAIN bookings \subseteq DOMAIN bookings'
  PROVE  req' \in [Workers -> Request] /\ PendingRowExists' /\ RenameHasName'
BY DEF RowsInv, TypeOK, Sound, PendingRowExists, RenameHasName

-----------------------------------------------------------------------------
LEMMA RowsInit == Init => RowsInv
<1> SUFFICES ASSUME Init PROVE RowsInv
  OBVIOUS
<1>1. now \in Time /\ limit \in 1 .. MaxLimit
  BY BoundsAssumption DEF Init, Time
<1>2. bookings \in Seq(Booking)
  BY DEF Init
<1>3. seats \in [Seats -> SeatState]
  BY DEF Init, SeatState
<1>4. names \in [Users -> Names \cup {StudentName}]
  BY DEF Init
<1>5. req \in [Workers -> Request]
  BY DEF Init, Request
<1>6. PendingRowExists /\ RenameHasName
  BY DEF Init, PendingRowExists, RenameHasName, Idle
<1> QED
  BY <1>1, <1>2, <1>3, <1>4, <1>5, <1>6 DEF RowsInv, TypeOK

(* A read that decides whether the booking request goes on.                *)
LEMMA RowsRead ==
  ASSUME RowsInv, NEW w \in Workers, NEW ok, NEW next \in BookingPC,
         req[w].pc \in BookingPC, Check(w, ok, next),
         next \in {"GetUserByID", "UpdateUserName"} => req[w].display_name \in Names,
         UNCHANGED <<now, bookings, seats, limit, names>>
  PROVE  RowsInv'
<1>1. PICK r : Sound(r) /\ req' = [req EXCEPT ![w] = r]
  BY CheckEffect, IdleSound DEF RowsInv, TypeOK, Sound, Request, BookingPC
<1> QED
  BY <1>1, ReplaceRequest DEF RowsInv, TypeOK

(* A step that only opens or answers a request.                            *)
LEMMA RowsRequest ==
  ASSUME RowsInv, NEW w \in Workers, NEW r, Sound(r), req' = [req EXCEPT ![w] = r],
         UNCHANGED <<now, bookings, seats, limit, names>>
  PROVE  RowsInv'
BY ReplaceRequest DEF RowsInv, TypeOK

LEMMA RowsNext == RowsInv /\ [Next]_vars => RowsInv'
<1> SUFFICES ASSUME RowsInv, [Next]_vars PROVE RowsInv'
  OBVIOUS
<1>a. TypeOK /\ PendingRowExists /\ RenameHasName
  BY DEF RowsInv
<1>1. ASSUME NEW w \in Workers, CreateBooking(w) PROVE RowsInv'
  <2>1. PICK u \in Users, s \in Seats, n \in Names \cup {NoName}, from, to \in Time :
          req' = [req EXCEPT ![w] =
                    [pc |-> "GetSeatByID", user_id |-> u, seat_id |-> s,
                     start_at |-> from, end_at |-> to, display_name |-> n,
                     at |-> now, limit |-> 0]]
    BY <1>1 DEF CreateBooking
  <2> DEFINE r == [pc |-> "GetSeatByID", user_id |-> u, seat_id |-> s,
                   start_at |-> from, end_at |-> to, display_name |-> n,
                   at |-> now, limit |-> 0]
  <2>2. r \in BookingReq
    BY <1>a, LimitAssumption DEF TypeOK, BookingReq, BookingPC
  <2>3. Sound(r)
    BY <2>2 DEF Sound, Request
  <2> QED
    BY <1>1, <2>1, <2>3, RowsRequest DEF CreateBooking
<1>2. ASSUME NEW w \in Workers, GetSeatByID(w) PROVE RowsInv'
  BY <1>2, RowsRead DEF GetSeatByID, BookingPC
<1>3. ASSUME NEW w \in Workers, GetSettings(w) PROVE RowsInv'
  <2> DEFINE r == [[req[w] EXCEPT !.pc = "CountActive"] EXCEPT !.limit = limit]
  <2>1. req[w] \in BookingReq
    BY <1>3, <1>a, RequestKinds DEF GetSettings, TypeOK, BookingPC
  <2>2. limit \in 0 .. MaxLimit
    BY <1>a, LimitAssumption DEF TypeOK
  <2>3. r \in BookingReq /\ r.pc = "CountActive"
    BY <2>1, <2>2 DEF BookingReq, BookingPC
  <2>4. Sound(r)
    BY <2>3 DEF Sound, Request
  <2>5. req' = [req EXCEPT ![w] = r]
    BY <1>3, <1>a DEF GetSettings, TypeOK
  <2> QED
    BY <1>3, <2>4, <2>5, RowsRequest DEF GetSettings
<1>4. ASSUME NEW w \in Workers, CountActiveBookingsByUser(w) PROVE RowsInv'
  BY <1>4, RowsRead DEF CountActiveBookingsByUser, BookingPC
<1>5. ASSUME NEW w \in Workers, SeatHasConflict(w) PROVE RowsInv'
  BY <1>5, RowsRead DEF SeatHasConflict, BookingPC
<1>6. ASSUME NEW w \in Workers, InsertBooking(w) PROVE RowsInv'
  <2>1. req[w] \in BookingReq
    BY <1>6, <1>a, RequestKinds DEF InsertBooking, TypeOK, BookingPC
  <2>2. NewRow(req[w]) \in Booking
    BY <2>1 DEF BookingReq, NewRow, Booking, Status
  <2>3. bookings' \in Seq(Booking) /\ DOMAIN bookings \subseteq DOMAIN bookings'
    BY <1>6, <1>a, <2>2 DEF InsertBooking, TypeOK
  <2>4. PICK r : Sound(r) /\ req' = [req EXCEPT ![w] = r]
    <3>1. req[w].display_name # NoName => req[w].display_name \in Names
      BY <2>1 DEF BookingReq
    <3>2. CASE InsertAllowed(req[w])
      BY <3>1, <3>2, <1>6, <1>a, CheckEffect, IdleSound
         DEF InsertBooking, TypeOK, Sound, Request, BookingPC
    <3>3. CASE ~ InsertAllowed(req[w])
      BY <3>3, <1>6, IdleSound DEF InsertBooking, Reply
    <3> QED
      BY <3>2, <3>3
  <2> QED
    BY <1>6, <1>a, <2>3, <2>4, ReplaceRequest DEF InsertBooking, RowsInv, TypeOK
<1>7. ASSUME NEW w \in Workers, GetUserByID(w) PROVE RowsInv'
  BY <1>7, <1>a, RowsRead DEF GetUserByID, BookingPC, RenameHasName
<1>8. ASSUME NEW w \in Workers, UpdateUserName(w) PROVE RowsInv'
  <2>1. names' \in [Users -> Names \cup {StudentName}]
    BY <1>8, <1>a DEF UpdateUserName, TypeOK, RenameHasName
  <2>2. req' \in [Workers -> Request] /\ PendingRowExists' /\ RenameHasName'
    BY <1>8, ReplaceRequest, IdleSound DEF UpdateUserName, Reply
  <2> QED
    BY <1>8, <1>a, <2>1, <2>2 DEF UpdateUserName, RowsInv, TypeOK
<1>9. ASSUME NEW w \in Workers, CancelBooking(w) PROVE RowsInv'
  <2>1. PICK i \in DOMAIN bookings :
          req' = [req EXCEPT ![w] =
                    [pc |-> "UpdateBookingStatus", id |-> i, status |-> "canceled"]]
    BY <1>9 DEF CancelBooking
  <2>2. Sound([pc |-> "UpdateBookingStatus", id |-> i, status |-> "canceled"])
    BY <1>a DEF TypeOK, Sound, Request, StatusReq, Status
  <2> QED
    BY <1>9, <2>1, <2>2, RowsRequest DEF CancelBooking
<1>10. ASSUME NEW w \in Workers, AdminUpdateBookingStatus(w) PROVE RowsInv'
  <2>1. PICK i \in DOMAIN bookings, st \in Status :
          req' = [req EXCEPT ![w] = [pc |-> "UpdateBookingStatus", id |-> i, status |-> st]]
    BY <1>10 DEF AdminUpdateBookingStatus
  <2>2. Sound([pc |-> "UpdateBookingStatus", id |-> i, status |-> st])
    BY <1>a DEF TypeOK, Sound, Request, StatusReq
  <2> QED
    BY <1>10, <2>1, <2>2, RowsRequest DEF AdminUpdateBookingStatus
<1>11. ASSUME NEW w \in Workers, UpdateBookingStatus(w) PROVE RowsInv'
  <2>1. req[w] \in StatusReq /\ req[w].id \in DOMAIN bookings
    BY <1>11, <1>a, RequestKinds DEF UpdateBookingStatus, TypeOK, PendingRowExists
  <2>2. [bookings[req[w].id] EXCEPT !.status = req[w].status] \in Booking
    <3>1. bookings[req[w].id] \in Booking
      BY <2>1, <1>a DEF TypeOK
    <3>2. req[w].status \in Status
      BY <2>1 DEF StatusReq
    <3> QED
      BY <3>1, <3>2 DEF Booking
  <2>3. bookings' \in Seq(Booking) /\ DOMAIN bookings' = DOMAIN bookings
    BY <1>11, <1>a, <2>1, <2>2 DEF UpdateBookingStatus, TypeOK
  <2>4. req' \in [Workers -> Request] /\ PendingRowExists' /\ RenameHasName'
    BY <1>11, <2>3, ReplaceRequest, IdleSound DEF UpdateBookingStatus, Reply
  <2> QED
    BY <1>11, <1>a, <2>3, <2>4 DEF UpdateBookingStatus, RowsInv, TypeOK
<1>12. ASSUME NEW w \in Workers, UpdateSeat(w) PROVE RowsInv'
  BY <1>12, <1>a DEF UpdateSeat, RowsInv, TypeOK, SeatState, PendingRowExists, RenameHasName
<1>13. ASSUME NEW w \in Workers, DeleteSeat(w) PROVE RowsInv'
  <2>1. PICK s \in Seats : req' = [req EXCEPT ![w] = [pc |-> "DeleteSeat", seat_id |-> s]]
    BY <1>13 DEF DeleteSeat
  <2>2. Sound([pc |-> "DeleteSeat", seat_id |-> s])
    BY DEF Sound, Request, DeleteReq
  <2> QED
    BY <1>13, <2>1, <2>2, RowsRequest DEF DeleteSeat
<1>14. ASSUME NEW w \in Workers, DeleteSeatRow(w) PROVE RowsInv'
  <2>1. seats' \in [Seats -> SeatState]
    BY <1>14, <1>a DEF DeleteSeatRow, TypeOK, SeatState
  <2>2. req' \in [Workers -> Request] /\ PendingRowExists' /\ RenameHasName'
    BY <1>14, ReplaceRequest, IdleSound DEF DeleteSeatRow, Reply
  <2> QED
    BY <1>14, <1>a, <2>1, <2>2 DEF DeleteSeatRow, RowsInv, TypeOK
<1>15. ASSUME NEW w \in Workers, DeleteCoworking(w) PROVE RowsInv'
  <2>1. seats' \in [Seats -> SeatState]
    BY <1>15, <1>a DEF DeleteCoworking, TypeOK, SeatState
  <2> QED
    BY <1>15, <1>a, <2>1 DEF DeleteCoworking, RowsInv, TypeOK, PendingRowExists, RenameHasName
<1>16. ASSUME NEW w \in Workers, UpdateBookingLimit(w) PROVE RowsInv'
  BY <1>16, <1>a
     DEF UpdateBookingLimit, LimitRange, RowsInv, TypeOK, PendingRowExists, RenameHasName
<1>17. ASSUME NEW w \in Workers, Abort(w) PROVE RowsInv'
  BY <1>17, IdleSound, RowsRequest DEF Abort, Reply
<1>18. ASSUME Tick PROVE RowsInv'
  BY <1>18, <1>a, BoundsAssumption DEF Tick, Time, RowsInv, TypeOK, PendingRowExists, RenameHasName
<1>19. CASE UNCHANGED vars
  BY <1>19, <1>a DEF vars, RowsInv, TypeOK, PendingRowExists, RenameHasName
<1> QED
  BY <1>1, <1>2, <1>3, <1>4, <1>5, <1>6, <1>7, <1>8, <1>9, <1>10, <1>11, <1>12, <1>13,
     <1>14, <1>15, <1>16, <1>17, <1>18, <1>19 DEF Next, Handle

(* A booking request keeps the window and the clock reading it has been    *)
(* opened with until it is answered.                                       *)
LEMMA RequestIsCarried ==
  ASSUME TypeOK, [Next]_vars, NEW v \in Workers, req'[v].pc \in BookingPC
  PROVE  \/ CreateBooking(v)
         \/ /\ req[v].pc \in BookingPC
            /\ req'[v].start_at = req[v].start_at /\ req'[v].end_at = req[v].end_at
            /\ req'[v].at = req[v].at
<1> DEFINE Carried == /\ req[v].pc \in BookingPC
                      /\ req'[v].start_at = req[v].start_at /\ req'[v].end_at = req[v].end_at
            /\ req'[v].at = req[v].at
<1>1. ASSUME NEW w \in Workers, CreateBooking(w) PROVE CreateBooking(v) \/ Carried
  <2>1. w # v => req'[v] = req[v]
    BY <1>1 DEF CreateBooking, TypeOK
  <2> QED
    BY <1>1, <2>1
<1>2. ASSUME NEW w \in Workers, GetSettings(w) PROVE Carried
  <2>1. req[w] \in BookingReq
    BY <1>2, RequestKinds DEF GetSettings, TypeOK, BookingPC
  <2> DEFINE r == [[req[w] EXCEPT !.pc = "CountActive"] EXCEPT !.limit = limit]
  <2>2. r.start_at = req[w].start_at /\ r.end_at = req[w].end_at /\ r.at = req[w].at
    BY <2>1 DEF BookingReq
  <2>3. req' = [req EXCEPT ![w] = r]
    BY <1>2 DEF GetSettings, TypeOK
  <2> QED
    BY <1>2, <2>2, <2>3 DEF GetSettings, BookingPC, TypeOK
<1>3. ASSUME NEW w \in Workers, NEW r, req' = [req EXCEPT ![w] = r], r.pc \notin BookingPC
      PROVE  Carried
  BY <1>3 DEF TypeOK
<1>4. ASSUME NEW w \in Workers, Reply(w) PROVE Carried
  BY <1>3, <1>4 DEF Reply, Idle, BookingPC
<1>5. ASSUME NEW w \in Workers, NEW ok, NEW next, Check(w, ok, next), req[w].pc \in BookingPC
      PROVE  Carried
  <2>1. req[w] \in BookingReq
    BY <1>5, RequestKinds DEF TypeOK
  <2> DEFINE r == [req[w] EXCEPT !.pc = next]
  <2>2. r.start_at = req[w].start_at /\ r.end_at = req[w].end_at /\ r.at = req[w].at
    BY <2>1 DEF BookingReq
  <2>3. CASE req' = [req EXCEPT ![w] = r]
    BY <1>5, <2>2, <2>3 DEF TypeOK
  <2> QED
    BY <1>4, <1>5, <2>3 DEF Check
<1>6. ASSUME req' = req PROVE Carried
  BY <1>6
<1>7. ASSUME NEW w \in Workers, InsertBooking(w) PROVE Carried
  BY <1>4, <1>5, <1>7 DEF InsertBooking, BookingPC
<1>8. ASSUME NEW w \in Workers, Handle(w) PROVE CreateBooking(v) \/ Carried
  <2>1. GetSeatByID(w) \/ CountActiveBookingsByUser(w) \/ SeatHasConflict(w) \/ GetUserByID(w)
        => Carried
    BY <1>5 DEF GetSeatByID, CountActiveBookingsByUser, SeatHasConflict, GetUserByID, BookingPC
  <2>2. UpdateUserName(w) \/ UpdateBookingStatus(w) \/ DeleteSeatRow(w) \/ Abort(w) => Carried
    BY <1>4 DEF UpdateUserName, UpdateBookingStatus, DeleteSeatRow, Abort
  <2>3. CancelBooking(w) \/ AdminUpdateBookingStatus(w) \/ DeleteSeat(w) => Carried
    BY <1>3 DEF CancelBooking, AdminUpdateBookingStatus, DeleteSeat, BookingPC
  <2>4. UpdateSeat(w) \/ DeleteCoworking(w) \/ UpdateBookingLimit(w) => Carried
    BY <1>6 DEF UpdateSeat, DeleteCoworking, UpdateBookingLimit
  <2> QED
    BY <1>1, <1>2, <1>7, <1>8, <2>1, <2>2, <2>3, <2>4 DEF Handle
<1> QED
  BY <1>6, <1>8 DEF Next, Tick, vars

(* TypeOK holds of every state of the service, for any number of handlers, *)
(* users, seats and bookings, whichever store is behind it.                *)
THEOREM TypeCorrect == Spec => []TypeOK
<1>1. RowsInv => TypeOK
  BY DEF RowsInv
<1> QED
  BY <1>1, RowsInit, RowsNext, PTL DEF Spec
-----------------------------------------------------------------------------
(* The schema.                                                             *)

(* A row of the table, and its window as integers.                         *)
LEMMA RowTypes ==
  ASSUME TypeOK, NEW i \in DOMAIN bookings
  PROVE  /\ bookings[i] \in Booking
         /\ bookings[i].seat_id \in Seats
         /\ bookings[i].start_at \in Int
         /\ bookings[i].end_at \in Int
<1>1. bookings[i] \in Booking
  BY DEF TypeOK
<1>2. Time \subseteq Int
  BY BoundsAssumption DEF Time
<1> QED
  BY <1>1, <1>2 DEF Booking

LEMMA SchemaInit == Init => SchemaInv
BY DEF Init, SchemaInv, ConfirmedDisjoint, BookedSeatExists

(* Only these six steps touch the bookings or the seats.                   *)
LEMMA SchemaNext == RowsInv /\ SchemaInv /\ [Next]_vars => SchemaInv'
<1> SUFFICES ASSUME RowsInv, SchemaInv, [Next]_vars, Store = "postgres"
             PROVE  (ConfirmedDisjoint /\ BookedSeatExists)'
  BY DEF SchemaInv
<1>a. TypeOK /\ PendingRowExists /\ ConfirmedDisjoint /\ BookedSeatExists
  BY DEF RowsInv, SchemaInv
<1>b. ASSUME UNCHANGED <<bookings, seats>>
      PROVE  (ConfirmedDisjoint /\ BookedSeatExists)'
  BY <1>a, <1>b DEF ConfirmedDisjoint, BookedSeatExists, Confirmed
<1>1. ASSUME NEW w \in Workers, InsertBooking(w)
      PROVE  (ConfirmedDisjoint /\ BookedSeatExists)'
  <2>1. CASE InsertAllowed(req[w])
    <3> DEFINE n == Len(bookings) + 1
               x == NewRow(req[w])
    <3>1. /\ bookings' = Append(bookings, x)
          /\ seats' = seats
      BY <1>1, <2>1 DEF InsertBooking
    <3>2. /\ DOMAIN bookings' = DOMAIN bookings \cup {n}
          /\ n \notin DOMAIN bookings
          /\ \A i \in DOMAIN bookings : bookings'[i] = bookings[i]
          /\ bookings'[n] = x
      BY <3>1, <1>a DEF TypeOK
    <3>3. \A i \in DOMAIN bookings :
            ~ (Confirmed(i) /\ bookings[i].seat_id = x.seat_id /\ Overlaps(bookings[i], x))
      BY <2>1, <3>2 DEF InsertAllowed, ExclusionAllows, ConflictsWith, NewRow, Overlaps
    <3>4. \A i \in DOMAIN bookings :
            ~ (Confirmed(i) /\ bookings[i].seat_id = x.seat_id /\ Overlaps(x, bookings[i]))
      <4>1. req[w] \in BookingReq
        BY <1>1, <1>a, RequestKinds DEF InsertBooking, TypeOK, BookingPC
      <4>2. x.start_at \in Int /\ x.end_at \in Int
        BY <4>1, BoundsAssumption DEF BookingReq, NewRow, Time
      <4>3. \A i \in DOMAIN bookings : bookings[i].start_at \in Int /\ bookings[i].end_at \in Int
        BY <1>a, RowTypes
      <4> QED
        BY <3>3, <4>2, <4>3 DEF Overlaps
    <3>5. ConfirmedDisjoint'
      BY <3>2, <3>3, <3>4, <1>a DEF ConfirmedDisjoint, Confirmed
    <3>6. seats[x.seat_id] # "deleted"
      BY <2>1 DEF InsertAllowed, NewRow
    <3>7. BookedSeatExists'
      BY <3>1, <3>2, <3>6, <1>a DEF BookedSeatExists
    <3> QED
      BY <3>5, <3>7
  <2>2. CASE ~ InsertAllowed(req[w])
    BY <2>2, <1>1, <1>b DEF InsertBooking
  <2> QED
    BY <2>1, <2>2
<1>2. ASSUME NEW w \in Workers, UpdateBookingStatus(w)
      PROVE  (ConfirmedDisjoint /\ BookedSeatExists)'
  <2> DEFINE k == req[w].id
             st == req[w].status
  <2>1. k \in DOMAIN bookings
    BY <1>2, <1>a DEF UpdateBookingStatus, PendingRowExists
  <2>2. CASE st = "confirmed" => ExclusionAllows(bookings[k], k)
    <3>1. bookings' = [bookings EXCEPT ![k].status = st] /\ seats' = seats
      BY <1>2, <2>2 DEF UpdateBookingStatus
    <3>2. /\ DOMAIN bookings' = DOMAIN bookings
          /\ \A i \in DOMAIN bookings : i # k => bookings'[i] = bookings[i]
          /\ bookings'[k] = [bookings[k] EXCEPT !.status = st]
      BY <3>1, <2>1, <1>a DEF TypeOK
    <3>3. bookings[k] \in Booking
      BY <2>1, <1>a, RowTypes
    <3>4. /\ bookings'[k].seat_id = bookings[k].seat_id
          /\ bookings'[k].start_at = bookings[k].start_at
          /\ bookings'[k].end_at = bookings[k].end_at
          /\ bookings'[k].status = st
      BY <3>2, <3>3 DEF Booking
    <3>5. BookedSeatExists'
      BY <3>1, <3>2, <3>4, <1>a DEF BookedSeatExists
    <3>6. CASE st = "confirmed"
      <4>1. \A i \in DOMAIN bookings \ {k} :
              ~ (/\ Confirmed(i)
                 /\ bookings[i].seat_id = bookings[k].seat_id
                 /\ Overlaps(bookings[i], bookings[k]))
        BY <2>2, <3>6 DEF ExclusionAllows, ConflictsWith
      <4>2. \A i \in DOMAIN bookings : bookings[i].start_at \in Int /\ bookings[i].end_at \in Int
        BY <1>a, RowTypes
      <4>3. \A i \in DOMAIN bookings \ {k} :
              ~ (/\ Confirmed(i)
                 /\ bookings[i].seat_id = bookings[k].seat_id
                 /\ Overlaps(bookings[k], bookings[i]))
        BY <4>1, <4>2, <2>1 DEF Overlaps
      <4>4. ConfirmedDisjoint'
        <5> SUFFICES ASSUME NEW i \in DOMAIN bookings, NEW j \in DOMAIN bookings,
                            Confirmed(i)', Confirmed(j)',
                            bookings'[i].seat_id = bookings'[j].seat_id,
                            Overlaps(bookings'[i], bookings'[j])
                     PROVE  i = j
          BY <3>2 DEF ConfirmedDisjoint
        <5>1. CASE i = k
          BY <5>1, <3>2, <3>4, <4>3 DEF Confirmed, Overlaps
        <5>2. CASE j = k
          BY <5>2, <3>2, <3>4, <4>1 DEF Confirmed, Overlaps
        <5>3. CASE i # k /\ j # k
          BY <5>3, <3>2, <1>a DEF ConfirmedDisjoint, Confirmed
        <5> QED
          BY <5>1, <5>2, <5>3
      <4> QED
        BY <4>4, <3>5
    <3>7. CASE st # "confirmed"
      <4>1. ConfirmedDisjoint'
        BY <3>2, <3>4, <3>7, <1>a DEF ConfirmedDisjoint, Confirmed, Overlaps
      <4> QED
        BY <4>1, <3>5
    <3> QED
      BY <3>6, <3>7
  <2>3. CASE ~ (st = "confirmed" => ExclusionAllows(bookings[k], k))
    BY <2>3, <1>2, <1>b DEF UpdateBookingStatus
  <2> QED
    BY <2>2, <2>3
<1>3. ASSUME NEW w \in Workers, UpdateSeat(w)
      PROVE  (ConfirmedDisjoint /\ BookedSeatExists)'
  <2>1. ConfirmedDisjoint'
    BY <1>3, <1>a DEF UpdateSeat, ConfirmedDisjoint, Confirmed
  <2>2. BookedSeatExists'
    BY <1>3, <1>a DEF UpdateSeat, BookedSeatExists, TypeOK
  <2> QED
    BY <2>1, <2>2
<1>4. ASSUME NEW w \in Workers, DeleteSeatRow(w)
      PROVE  (ConfirmedDisjoint /\ BookedSeatExists)'
  <2>1. ConfirmedDisjoint'
    BY <1>4, <1>a DEF DeleteSeatRow, ConfirmedDisjoint, Confirmed
  <2>2. BookedSeatExists'
    BY <1>4, <1>a, RowTypes DEF DeleteSeatRow, RestrictAllows, BookedSeatExists, TypeOK
  <2> QED
    BY <2>1, <2>2
<1>5. ASSUME NEW w \in Workers, DeleteCoworking(w)
      PROVE  (ConfirmedDisjoint /\ BookedSeatExists)'
  <2>1. ConfirmedDisjoint'
    BY <1>5, <1>a DEF DeleteCoworking, ConfirmedDisjoint, Confirmed
  <2>2. PICK gone : /\ \A s \in gone : RestrictAllows(s)
                    /\ seats' = [s \in Seats |-> IF s \in gone THEN "deleted" ELSE seats[s]]
    BY <1>5 DEF DeleteCoworking
  <2>3. \A i \in DOMAIN bookings : bookings[i].seat_id \in Seats
    BY <1>a, RowTypes
  <2>4. BookedSeatExists'
    BY <1>5, <2>2, <2>3, <1>a DEF DeleteCoworking, RestrictAllows, BookedSeatExists
  <2> QED
    BY <2>1, <2>4
<1> QED
  BY <1>1, <1>2, <1>3, <1>4, <1>5, <1>b
     DEF Next, Handle, vars, CreateBooking, GetSeatByID, GetSettings, CountActiveBookingsByUser,
         SeatHasConflict, GetUserByID, UpdateUserName, CancelBooking, AdminUpdateBookingStatus,
         DeleteSeat, UpdateBookingLimit, Abort, Tick

LEMMA Invariance == Spec => []IInv
<1>1. Init => IInv
  BY RowsInit, SchemaInit DEF IInv
<1>2. IInv /\ [Next]_vars => IInv'
  BY RowsNext, SchemaNext DEF IInv
<1> QED
  BY <1>1, <1>2, PTL DEF Spec

(* Over PostgreSQL no seat is ever promised twice for one instant: neither *)
(* the check in CreateBooking nor the one in AdminUpdateBookingStatus is   *)
(* needed for it, the EXCLUDE constraint is.                               *)
THEOREM NeverDoubleBooked ==
  ASSUME Store = "postgres" PROVE Spec => []NoDoubleBooking
<1>1. IInv => NoDoubleBooking
  <2> SUFFICES ASSUME IInv, NEW i \in DOMAIN bookings, NEW j \in DOMAIN bookings, NEW t \in Time,
                      Confirmed(i), Confirmed(j), bookings[i].seat_id = bookings[j].seat_id,
                      Covers(bookings[i], t), Covers(bookings[j], t)
               PROVE  i = j
    BY DEF NoDoubleBooking
  <2>1. /\ bookings[i].start_at \in Int /\ bookings[i].end_at \in Int
        /\ bookings[j].start_at \in Int /\ bookings[j].end_at \in Int
        /\ t \in Int
    BY RowTypes, BoundsAssumption DEF IInv, RowsInv, Time
  <2>2. Overlaps(bookings[i], bookings[j])
    BY <2>1 DEF Covers, Overlaps
  <2> QED
    BY <2>2 DEF IInv, SchemaInv, ConfirmedDisjoint
<1> QED
  BY <1>1, Invariance, PTL

(* Over PostgreSQL a booking's seat is always there, however the deletion  *)
(* of a seat or a coworking is interleaved with a booking of it.           *)
THEOREM BookedSeatNeverDeleted ==
  ASSUME Store = "postgres" PROVE Spec => []BookedSeatExists
<1>1. IInv => BookedSeatExists
  BY DEF IInv, SchemaInv
<1> QED
  BY <1>1, Invariance, PTL
-----------------------------------------------------------------------------
(* The booking limit under races, for any number of handlers.  A request   *)
(* that passes the count saw fewer active rows than the limit, and each    *)
(* other booking that may still become active belongs to another handler:  *)
(* a request past the count, or a pending update to "confirmed".           *)

(* The clock reading of a request is not ahead of the clock.               *)
ReadingIsPast == \A w \in Workers : req[w].pc \in BookingPC => req[w].at <= now

LimitInv == IInv /\ ReadingIsPast

LEMMA LimitInvariance == Spec => []LimitInv
<1>1. Init => ReadingIsPast
  BY DEF Init, ReadingIsPast, Idle, BookingPC
<1>2. IInv /\ ReadingIsPast /\ [Next]_vars => ReadingIsPast'
  <2> SUFFICES ASSUME IInv, ReadingIsPast, [Next]_vars, NEW v \in Workers, req'[v].pc \in BookingPC
               PROVE  req'[v].at <= now'
    BY DEF ReadingIsPast
  <2>1. TypeOK
    BY DEF IInv, RowsInv
  <2>2. now \in Int /\ now' \in Int /\ now <= now'
    <3>1. now \in Int
      BY <2>1, BoundsAssumption DEF TypeOK, Time
    <3>2. now' = now \/ Tick
      BY DEF Next, Handle, vars, CreateBooking, GetSeatByID, GetSettings,
         CountActiveBookingsByUser, SeatHasConflict, InsertBooking, GetUserByID, UpdateUserName,
         CancelBooking, AdminUpdateBookingStatus, UpdateBookingStatus, UpdateSeat, DeleteSeat,
         DeleteSeatRow, DeleteCoworking, UpdateBookingLimit, Abort
    <3> QED
      BY <3>1, <3>2 DEF Tick
  <2>3. CASE CreateBooking(v)
    BY <2>1, <2>2, <2>3 DEF CreateBooking, TypeOK
  <2>4. CASE ~ CreateBooking(v)
    <3>1. req[v].pc \in BookingPC /\ req'[v].at = req[v].at
      BY <2>1, <2>4, RequestIsCarried
    <3>2. req[v].at \in Int /\ req[v].at <= now
      <4>1. req[v] \in BookingReq
        BY <2>1, <3>1, RequestKinds DEF TypeOK
      <4> QED
        BY <3>1, <4>1, BoundsAssumption DEF ReadingIsPast, BookingReq, Time
    <3> QED
      BY <2>2, <3>1, <3>2
  <2> QED
    BY <2>3, <2>4
<1> QED
  BY <1>1, <1>2, Invariance, PTL DEF Spec, LimitInv
-----------------------------------------------------------------------------
(* A set grows by at most one when one element is added.                   *)
LEMMA OneMore ==
  ASSUME NEW S, IsFiniteSet(S), NEW x
  PROVE  /\ IsFiniteSet(S \cup {x})
         /\ Cardinality(S \cup {x}) \in Nat
         /\ Cardinality(S \cup {x}) <= Cardinality(S) + 1
<1>1. IsFiniteSet(S \cup {x}) /\ Cardinality(S) \in Nat
  BY FS_AddElement, FS_CardinalityType
<1>2. CASE x \in S
  <2>1. S \cup {x} = S
    BY <1>2
  <2> QED
    BY <1>1, <2>1
<1>3. CASE x \notin S
  <2>1. Cardinality(S \cup {x}) = Cardinality(S) + 1
    BY <1>3, FS_AddElement
  <2> QED
    BY <1>1, <2>1
<1> QED
  BY <1>2, <1>3

(* The two sets of OvershootBounded are finite.                            *)
LEMMA FiniteSets ==
  ASSUME TypeOK, NEW u, NEW t
  PROVE  /\ IsFiniteSet(DOMAIN bookings)
         /\ IsFiniteSet(MayBeActive(u)) /\ Cardinality(MayBeActive(u)) \in Nat
         /\ IsFiniteSet(ActiveBookings(u, t)) /\ Cardinality(ActiveBookings(u, t)) \in Nat
         /\ IsFiniteSet(PastTheLimit(u)) /\ Cardinality(PastTheLimit(u)) \in Nat
         /\ Cardinality(Workers) \in Nat
<1>1. DOMAIN bookings = 1 .. Len(bookings) /\ Len(bookings) \in Int
  BY DEF TypeOK
<1>2. IsFiniteSet(DOMAIN bookings)
  BY <1>1, FS_Interval
<1>3. MayBeActive(u) \in SUBSET DOMAIN bookings /\ ActiveBookings(u, t) \in SUBSET DOMAIN bookings
  BY DEF MayBeActive, ActiveBookings
<1>4. PastTheLimit(u) \in SUBSET Workers
  BY DEF PastTheLimit
<1>5. IsFiniteSet(MayBeActive(u)) /\ IsFiniteSet(ActiveBookings(u, t)) /\ IsFiniteSet(PastTheLimit(u))
  BY <1>2, <1>3, <1>4, FS_Subset, WorkersAssumption
<1> QED
  BY <1>2, <1>5, FS_CardinalityType, WorkersAssumption

Bounded(u) ==
  Cardinality(MayBeActive(u)) + Cardinality(PastTheLimit(u)) < MaxLimit + Cardinality(Workers)

(* A step that adds to neither set keeps the bound.                        *)
LEMMA Shrinking ==
  ASSUME TypeOK, NEW u, Bounded(u),
         MayBeActive(u)' \subseteq MayBeActive(u), PastTheLimit(u)' \subseteq PastTheLimit(u)
  PROVE  Bounded(u)'
<1>1. MayBeActive(u)' \in SUBSET MayBeActive(u) /\ PastTheLimit(u)' \in SUBSET PastTheLimit(u)
  OBVIOUS
<1>2. /\ IsFiniteSet(MayBeActive(u)) /\ Cardinality(MayBeActive(u)) \in Nat
      /\ IsFiniteSet(PastTheLimit(u)) /\ Cardinality(PastTheLimit(u)) \in Nat
      /\ Cardinality(Workers) \in Nat
  BY FiniteSets
<1>3. /\ IsFiniteSet(MayBeActive(u)') /\ Cardinality(MayBeActive(u)') <= Cardinality(MayBeActive(u))
      /\ IsFiniteSet(PastTheLimit(u)') /\ Cardinality(PastTheLimit(u)') <= Cardinality(PastTheLimit(u))
  BY <1>1, <1>2, FS_Subset
<1>4. Cardinality(MayBeActive(u)') \in Nat /\ Cardinality(PastTheLimit(u)') \in Nat
  BY <1>3, FS_CardinalityType
<1> QED
  BY <1>2, <1>3, <1>4, LimitAssumption DEF Bounded

(* Passing the count.  The rows of u that may be active are those counted  *)
(* and those that other handlers are about to confirm again.               *)
LEMMA PassingTheCount ==
  ASSUME LimitInv, NEW w \in Workers, req[w].pc = "CountActive", UnderLimit(req[w])
  PROVE  Cardinality(MayBeActive(req[w].user_id)) + Cardinality(PastTheLimit(req[w].user_id)) + 1
           < MaxLimit + Cardinality(Workers)
<1> DEFINE r == req[w]
           u == r.user_id
           A == MayBeActive(u)
           C == ActiveBookings(u, r.at)
           P == PastTheLimit(u)
           R == {v \in Workers : req[v].pc = "UpdateBookingStatus"}
           f == [v \in R |-> req[v].id]
           T == {req[v].id : v \in R}
<1>1. TypeOK /\ r \in BookingReq /\ r.at <= now
  BY RequestKinds DEF LimitInv, IInv, RowsInv, TypeOK, ReadingIsPast, BookingPC
<1>2. r.limit \in Nat /\ r.limit <= MaxLimit /\ r.at \in Int /\ now \in Int /\ MaxLimit \in Nat
  BY <1>1, LimitAssumption, BoundsAssumption DEF BookingReq, Time, TypeOK
<1>3. /\ IsFiniteSet(A) /\ Cardinality(A) \in Nat
      /\ IsFiniteSet(C) /\ Cardinality(C) \in Nat
      /\ IsFiniteSet(P) /\ Cardinality(P) \in Nat
      /\ Cardinality(Workers) \in Nat
  BY <1>1, FiniteSets
<1>4. R \in SUBSET Workers /\ P \in SUBSET Workers /\ R \cap P = {} /\ w \notin R \cup P
  BY DEF PastTheLimit
<1>5. IsFiniteSet(R) /\ Cardinality(R) \in Nat
  BY <1>4, FS_Subset, FS_CardinalityType, WorkersAssumption
<1>6. Cardinality(R) + Cardinality(P) + 1 <= Cardinality(Workers)
  <2>1. IsFiniteSet(R \cup P) /\ Cardinality(R \cup P) = Cardinality(R) + Cardinality(P)
    <3>1. Cardinality(R \cap P) = 0
      BY <1>4, FS_EmptySet
    <3>2. /\ IsFiniteSet(R \cup P)
          /\ Cardinality(R \cup P) = Cardinality(R) + Cardinality(P) - Cardinality(R \cap P)
      BY <1>3, <1>5, FS_Union
    <3> QED
      BY <3>1, <3>2, <1>3, <1>5
  <2>2. /\ IsFiniteSet((R \cup P) \cup {w})
        /\ Cardinality((R \cup P) \cup {w}) = Cardinality(R \cup P) + 1
    BY <2>1, <1>4, FS_AddElement
  <2>3. (R \cup P) \cup {w} \in SUBSET Workers
    BY <1>4
  <2>4. Cardinality((R \cup P) \cup {w}) <= Cardinality(Workers)
    BY <2>3, FS_Subset, WorkersAssumption
  <2> QED
    BY <2>1, <2>2, <2>4
<1>7. IsFiniteSet(T) /\ Cardinality(T) \in Nat /\ Cardinality(T) <= Cardinality(R)
  <2>1. f \in Surjection(R, T)
    BY DEF Surjection
  <2>2. IsFiniteSet(T) /\ Cardinality(T) <= Cardinality(R)
    BY <2>1, <1>5, FS_Surjection
  <2> QED
    BY <2>2, FS_CardinalityType
<1>8. A \subseteq C \cup T
  <2> SUFFICES ASSUME NEW i \in A, i \notin T PROVE i \in C
    OBVIOUS
  <2>1. i \in DOMAIN bookings /\ bookings[i].user_id = u /\ bookings[i].end_at > now /\ Confirmed(i)
    BY DEF MayBeActive
  <2>2. bookings[i].end_at \in Int
    BY <2>1, <1>1, RowTypes
  <2>3. bookings[i].end_at > r.at
    BY <2>1, <2>2, <1>1, <1>2
  <2> QED
    BY <2>1, <2>3 DEF ActiveBookings
<1>9. Cardinality(A) <= Cardinality(C) + Cardinality(T)
  <2>1. /\ IsFiniteSet(C \cup T)
        /\ Cardinality(C \cup T) = Cardinality(C) + Cardinality(T) - Cardinality(C \cap T)
    BY <1>3, <1>7, FS_Union
  <2>2. C \cap T \in SUBSET C
    OBVIOUS
  <2>3. Cardinality(C \cap T) \in Nat
    BY <2>2, <1>3, FS_Subset, FS_CardinalityType
  <2>4. Cardinality(A) <= Cardinality(C \cup T)
    BY <1>8, <2>1, FS_Subset
  <2> QED
    BY <2>1, <2>3, <2>4, <1>3, <1>7
<1>10. Cardinality(C) < r.limit
  BY DEF UnderLimit
<1> QED
  BY <1>2, <1>3, <1>5, <1>6, <1>7, <1>9, <1>10
-----------------------------------------------------------------------------
(* A request that answers, or moves on to a statement other than the two   *)
(* after the count, adds to neither set.                                   *)
LEMMA QuietStep ==
  ASSUME TypeOK, NEW u, Bounded(u), now' \in Int, now <= now', bookings' = bookings,
         \A w \in Workers :
           \/ req'[w] = req[w]
           \/ req'[w].pc \notin {"SeatHasConflict", "CreateBooking", "UpdateBookingStatus"}
           \/ /\ req'[w].pc = "UpdateBookingStatus"
              /\ Confirmed(req'[w].id)
           \/ req[w].pc = "SeatHasConflict" /\ req'[w].user_id = req[w].user_id
                                            /\ req'[w].pc = "CreateBooking"
  PROVE  Bounded(u)'
<1>1. PastTheLimit(u)' \subseteq PastTheLimit(u)
  BY DEF PastTheLimit
<1>2. MayBeActive(u)' \subseteq MayBeActive(u)
  <2> SUFFICES ASSUME NEW i \in MayBeActive(u)' PROVE i \in MayBeActive(u)
    OBVIOUS
  <2>1. /\ i \in DOMAIN bookings /\ bookings[i].user_id = u /\ bookings[i].end_at > now'
        /\ \/ bookings[i].status = "confirmed"
           \/ \E w \in Workers : /\ req'[w].pc = "UpdateBookingStatus"
                                 /\ req'[w].id = i
                                 /\ req'[w].status = "confirmed"
    BY DEF MayBeActive, Confirmed
  <2>2. bookings[i].end_at > now
    <3>1. bookings[i].end_at \in Int /\ now \in Int
      BY <2>1, RowTypes, BoundsAssumption DEF TypeOK, Time
    <3> QED
      BY <2>1, <3>1
  <2>3. CASE bookings[i].status = "confirmed"
    BY <2>1, <2>2, <2>3 DEF MayBeActive, Confirmed
  <2>4. ASSUME NEW w \in Workers, req'[w].pc = "UpdateBookingStatus", req'[w].id = i,
               req'[w].status = "confirmed"
        PROVE  i \in MayBeActive(u)
    BY <2>1, <2>2, <2>4 DEF MayBeActive, Confirmed
  <2> QED
    BY <2>1, <2>3, <2>4
<1> QED
  BY <1>1, <1>2, Shrinking

LEMMA OvershootNext == LimitInv /\ OvershootBounded /\ [Next]_vars => OvershootBounded'
<1> SUFFICES ASSUME LimitInv, OvershootBounded, [Next]_vars, NEW u \in Users PROVE Bounded(u)'
  BY DEF OvershootBounded, Bounded
<1>a. TypeOK /\ PendingRowExists /\ Bounded(u)
  BY DEF LimitInv, IInv, RowsInv, OvershootBounded, Bounded
<1>b. now \in Int
  BY <1>a, BoundsAssumption DEF TypeOK, Time
<1>1. ASSUME NEW w \in Workers, CountActiveBookingsByUser(w) PROVE Bounded(u)'
  <2> DEFINE r == req[w]
  <2>1. r \in BookingReq
    BY <1>1, <1>a, RequestKinds DEF CountActiveBookingsByUser, TypeOK, BookingPC
  <2>2. CASE UnderLimit(r) /\ r.user_id = u
    <3>1. req' = [req EXCEPT ![w] = [r EXCEPT !.pc = "SeatHasConflict"]] /\ bookings' = bookings /\ now' = now
      BY <1>1, <2>2 DEF CountActiveBookingsByUser, Check
    <3>2. /\ [r EXCEPT !.pc = "SeatHasConflict"].pc = "SeatHasConflict"
          /\ [r EXCEPT !.pc = "SeatHasConflict"].user_id = u
      BY <2>1, <2>2 DEF BookingReq
    <3>3. PastTheLimit(u)' = PastTheLimit(u) \cup {w}
      BY <3>1, <3>2, <1>a DEF PastTheLimit, TypeOK
    <3>4. MayBeActive(u)' = MayBeActive(u)
      BY <3>1, <3>2, <1>1, <1>a DEF MayBeActive, Confirmed, TypeOK, CountActiveBookingsByUser
    <3>5. w \notin PastTheLimit(u) /\ IsFiniteSet(PastTheLimit(u))
      BY <1>1, <1>a, FiniteSets DEF PastTheLimit, CountActiveBookingsByUser
    <3>6. Cardinality(PastTheLimit(u) \cup {w}) = Cardinality(PastTheLimit(u)) + 1
      BY <3>5, FS_AddElement
    <3>7. Cardinality(MayBeActive(u)) + Cardinality(PastTheLimit(u)) + 1
            < MaxLimit + Cardinality(Workers)
      BY <1>1, <2>2, PassingTheCount DEF CountActiveBookingsByUser
    <3>8. Cardinality(MayBeActive(u)) \in Nat /\ Cardinality(PastTheLimit(u)) \in Nat
      BY <1>a, FiniteSets
    <3> QED
      BY <3>3, <3>4, <3>6, <3>7, <3>8 DEF Bounded
  <2>3. CASE UnderLimit(r) /\ r.user_id # u
    <3>1. req' = [req EXCEPT ![w] = [r EXCEPT !.pc = "SeatHasConflict"]] /\ bookings' = bookings /\ now' = now
      BY <1>1, <2>3 DEF CountActiveBookingsByUser, Check
    <3>2. /\ [r EXCEPT !.pc = "SeatHasConflict"].pc = "SeatHasConflict"
          /\ [r EXCEPT !.pc = "SeatHasConflict"].user_id # u
      BY <2>1, <2>3 DEF BookingReq
    <3>3. PastTheLimit(u)' \subseteq PastTheLimit(u)
      BY <3>1, <3>2, <1>a DEF PastTheLimit, TypeOK
    <3>4. MayBeActive(u)' \subseteq MayBeActive(u)
      BY <3>1, <3>2, <1>a DEF MayBeActive, Confirmed, TypeOK
    <3> QED
      BY <3>3, <3>4, <1>a, Shrinking
  <2>4. CASE ~ UnderLimit(r)
    BY <1>1, <2>4, <1>a, <1>b, QuietStep DEF CountActiveBookingsByUser, Check, Reply, TypeOK, Idle
  <2> QED
    BY <2>2, <2>3, <2>4
<1>2. ASSUME NEW w \in Workers, InsertBooking(w) PROVE Bounded(u)'
  <2> DEFINE r == req[w]
             n == Len(bookings) + 1
  <2>1. r \in BookingReq
    BY <1>2, <1>a, RequestKinds DEF InsertBooking, TypeOK, BookingPC
  <2>2. CASE ~ InsertAllowed(r)
    BY <1>2, <2>2, <1>a, <1>b, QuietStep DEF InsertBooking, Reply, TypeOK, Idle
  <2>3. CASE InsertAllowed(r)
    <3>1. bookings' = Append(bookings, NewRow(r)) /\ now' = now
      BY <1>2, <2>3 DEF InsertBooking
    <3>2. /\ DOMAIN bookings' = DOMAIN bookings \cup {n}
          /\ \A i \in DOMAIN bookings : bookings'[i] = bookings[i]
          /\ bookings'[n] = NewRow(r)
      BY <3>1, <1>a DEF TypeOK
    <3>3. /\ \A v \in Workers \ {w} : req'[v] = req[v]
          /\ req'[w].pc \in {"idle", "GetUserByID"}
      <4>1. [r EXCEPT !.pc = "GetUserByID"].pc = "GetUserByID"
        BY <2>1 DEF BookingReq
      <4>2. CASE r.display_name # NoName
        <5>1. req' = [req EXCEPT ![w] = [r EXCEPT !.pc = "GetUserByID"]]
          BY <1>2, <2>3, <4>2 DEF InsertBooking, Check
        <5> QED
          BY <5>1, <4>1, <1>a DEF TypeOK
      <4>3. CASE r.display_name = NoName
        BY <1>2, <2>3, <4>3, <1>a DEF InsertBooking, Check, Reply, TypeOK, Idle
      <4> QED
        BY <4>2, <4>3
    <3>4. \A i \in DOMAIN bookings : i \in MayBeActive(u)' => i \in MayBeActive(u)
      BY <3>1, <3>2, <3>3, <1>a DEF MayBeActive, Confirmed, TypeOK
    <3>5. MayBeActive(u)' \subseteq MayBeActive(u) \cup {n}
      BY <3>2, <3>4 DEF MayBeActive
    <3>6. PastTheLimit(u)' \subseteq PastTheLimit(u) \ {w}
      BY <3>3 DEF PastTheLimit
    <3>7. CASE r.user_id # u
      <4>1. n \notin MayBeActive(u)'
        BY <3>2, <3>7 DEF MayBeActive, NewRow
      <4> QED
        BY <4>1, <3>5, <3>6, <1>a, Shrinking
    <3>8. CASE r.user_id = u
      <4>1. w \in PastTheLimit(u)
        BY <1>2, <3>8 DEF PastTheLimit, InsertBooking
      <4>2. /\ IsFiniteSet(MayBeActive(u)) /\ Cardinality(MayBeActive(u)) \in Nat
            /\ IsFiniteSet(PastTheLimit(u)) /\ Cardinality(PastTheLimit(u)) \in Nat
            /\ Cardinality(Workers) \in Nat
        BY <1>a, FiniteSets
      <4>3. /\ IsFiniteSet(MayBeActive(u) \cup {n})
            /\ Cardinality(MayBeActive(u) \cup {n}) \in Nat
            /\ Cardinality(MayBeActive(u) \cup {n}) <= Cardinality(MayBeActive(u)) + 1
        BY <4>2, OneMore
      <4>4. /\ IsFiniteSet(PastTheLimit(u) \ {w})
            /\ Cardinality(PastTheLimit(u) \ {w}) = Cardinality(PastTheLimit(u)) - 1
        BY <4>1, <4>2, FS_RemoveElement
      <4>5. /\ MayBeActive(u)' \in SUBSET (MayBeActive(u) \cup {n})
            /\ PastTheLimit(u)' \in SUBSET (PastTheLimit(u) \ {w})
        BY <3>5, <3>6
      <4>6. /\ IsFiniteSet(MayBeActive(u)')
            /\ Cardinality(MayBeActive(u)') <= Cardinality(MayBeActive(u) \cup {n})
            /\ IsFiniteSet(PastTheLimit(u)')
            /\ Cardinality(PastTheLimit(u)') <= Cardinality(PastTheLimit(u) \ {w})
        BY <4>3, <4>4, <4>5, FS_Subset
      <4>7. Cardinality(MayBeActive(u)') \in Nat /\ Cardinality(PastTheLimit(u)') \in Nat
        BY <4>6, FS_CardinalityType
      <4> QED
        BY <4>2, <4>3, <4>4, <4>6, <4>7, <1>a, LimitAssumption DEF Bounded
    <3> QED
      BY <3>7, <3>8
  <2> QED
    BY <2>2, <2>3
<1>3. ASSUME NEW w \in Workers, UpdateBookingStatus(w) PROVE Bounded(u)'
  <2> DEFINE k == req[w].id
             st == req[w].status
  <2>1. k \in DOMAIN bookings /\ bookings[k] \in Booking /\ now' = now
    BY <1>3, <1>a, RowTypes DEF UpdateBookingStatus, PendingRowExists
  <2>2. \/ bookings' = bookings
        \/ bookings' = [bookings EXCEPT ![k].status = st]
    BY <1>3 DEF UpdateBookingStatus
  <2>3. CASE bookings' = bookings
    BY <1>3, <2>1, <2>3, <1>a, <1>b, QuietStep DEF UpdateBookingStatus, Reply, TypeOK, Idle
  <2>4. CASE bookings' = [bookings EXCEPT ![k].status = st]
    <3>1. /\ DOMAIN bookings' = DOMAIN bookings
          /\ \A i \in DOMAIN bookings : i # k => bookings'[i] = bookings[i]
          /\ bookings'[k] = [bookings[k] EXCEPT !.status = st]
      BY <2>4, <2>1, <1>a DEF TypeOK
    <3>2. /\ bookings'[k].user_id = bookings[k].user_id
          /\ bookings'[k].end_at = bookings[k].end_at
          /\ bookings'[k].status = st
      BY <3>1, <2>1 DEF Booking
    <3>3. \A v \in Workers : req'[v] = req[v] \/ req'[v].pc = "idle"
      BY <1>3, <1>a DEF UpdateBookingStatus, Reply, TypeOK, Idle
    <3>4. PastTheLimit(u)' \subseteq PastTheLimit(u)
      BY <3>3 DEF PastTheLimit
    <3>5. \A i \in MayBeActive(u)' : i # k => i \in MayBeActive(u)
      BY <3>1, <3>3, <2>1 DEF MayBeActive, Confirmed
    <3>6. ASSUME k \in MayBeActive(u)' PROVE k \in MayBeActive(u)
      <4>1. bookings'[k].user_id = u /\ bookings'[k].end_at > now'
        BY <3>6 DEF MayBeActive
      <4>2. bookings[k].user_id = u /\ bookings[k].end_at > now
        BY <4>1, <3>2, <2>1
      <4>3. CASE st = "confirmed"
        BY <1>3, <2>1, <4>2, <4>3 DEF MayBeActive, UpdateBookingStatus
      <4>4. CASE st # "confirmed"
        <5>1. PICK v \in Workers : /\ req'[v].pc = "UpdateBookingStatus"
                                   /\ req'[v].id = k
                                   /\ req'[v].status = "confirmed"
          BY <3>6, <3>2, <4>4 DEF MayBeActive, Confirmed
        <5>2. req'[v] = req[v]
          BY <3>3, <5>1
        <5> QED
          BY <5>1, <5>2, <2>1, <4>2 DEF MayBeActive
      <4> QED
        BY <4>3, <4>4
    <3>7. MayBeActive(u)' \subseteq MayBeActive(u)
      BY <3>5, <3>6
    <3> QED
      BY <3>4, <3>7, <1>a, Shrinking
  <2> QED
    BY <2>2, <2>3, <2>4
<1>4. ASSUME NEW w \in Workers, CancelBooking(w) \/ AdminUpdateBookingStatus(w) PROVE Bounded(u)'
  <2>1. PICK i \in DOMAIN bookings, st \in Status :
          /\ Confirmed(i)
          /\ req' = [req EXCEPT ![w] = [pc |-> "UpdateBookingStatus", id |-> i, status |-> st]]
    <3>1. \A i \in DOMAIN bookings : NotTerminal(i) => Confirmed(i)
      BY <1>a, RowTypes DEF NotTerminal, Confirmed, Booking, Status
    <3> QED
      BY <1>4, <3>1 DEF CancelBooking, AdminUpdateBookingStatus, Status
  <2>2. bookings' = bookings /\ now' = now
    BY <1>4 DEF CancelBooking, AdminUpdateBookingStatus
  <2>3. \A v \in Workers : req'[v] = req[v] \/ (req'[v].pc = "UpdateBookingStatus" /\ Confirmed(req'[v].id))
    BY <2>1, <1>a DEF TypeOK
  <2> QED
    BY <2>2, <2>3, <1>a, <1>b, QuietStep
<1>5. ASSUME NEW w \in Workers, CreateBooking(w) \/ GetSeatByID(w) \/ GetSettings(w)
                               \/ GetUserByID(w) \/ SeatHasConflict(w)
      PROVE  Bounded(u)'
  <2>1. bookings' = bookings /\ now' = now
    BY <1>5 DEF CreateBooking, GetSeatByID, GetSettings, GetUserByID, SeatHasConflict
  <2>2. /\ \A v \in Workers \ {w} : req'[v] = req[v]
        /\ \/ req'[w].pc \notin {"SeatHasConflict", "CreateBooking", "UpdateBookingStatus"}
           \/ req[w].pc = "SeatHasConflict" /\ req'[w].user_id = req[w].user_id
                                            /\ req'[w].pc = "CreateBooking"
    <3>1. CASE CreateBooking(w)
      BY <3>1, <1>a DEF CreateBooking, TypeOK
    <3>2. CASE GetSettings(w)
      <4> DEFINE r == [[req[w] EXCEPT !.pc = "CountActive"] EXCEPT !.limit = limit]
      <4>1. req[w] \in BookingReq
        BY <3>2, <1>a, RequestKinds DEF GetSettings, TypeOK, BookingPC
      <4>2. req' = [req EXCEPT ![w] = r] /\ r.pc = "CountActive"
        BY <3>2, <4>1, <1>a DEF GetSettings, TypeOK, BookingReq
      <4> QED
        BY <4>2, <1>a DEF TypeOK
    <3>3. ASSUME NEW ok, NEW next \in {"GetSettings", "UpdateUserName", "CreateBooking"}, Check(w, ok, next),
                 req[w].pc \in BookingPC, next = "CreateBooking" => req[w].pc = "SeatHasConflict"
          PROVE  /\ \A v \in Workers \ {w} : req'[v] = req[v]
                 /\ \/ req'[w].pc \notin {"SeatHasConflict", "CreateBooking", "UpdateBookingStatus"}
                    \/ req[w].pc = "SeatHasConflict" /\ req'[w].user_id = req[w].user_id
                                                     /\ req'[w].pc = "CreateBooking"
      <4>1. req[w] \in BookingReq
        BY <3>3, <1>a, RequestKinds DEF TypeOK
      <4>2. [req[w] EXCEPT !.pc = next].pc = next /\ [req[w] EXCEPT !.pc = next].user_id = req[w].user_id
        BY <4>1 DEF BookingReq
      <4>3. CASE ok
        <5>1. req' = [req EXCEPT ![w] = [req[w] EXCEPT !.pc = next]]
          BY <3>3, <4>3 DEF Check
        <5> QED
          BY <5>1, <4>2, <3>3, <1>a DEF TypeOK
      <4>4. CASE ~ ok
        BY <3>3, <4>4, <1>a DEF Check, Reply, TypeOK, Idle
      <4> QED
        BY <4>3, <4>4
    <3> QED
      BY <1>5, <3>1, <3>2, <3>3 DEF GetSeatByID, GetUserByID, SeatHasConflict, BookingPC
  <2> QED
    BY <2>1, <2>2, <1>a, <1>b, QuietStep
<1>6. ASSUME NEW w \in Workers, UpdateUserName(w) \/ DeleteSeat(w) \/ DeleteSeatRow(w) \/ Abort(w)
      PROVE  Bounded(u)'
  <2>1. bookings' = bookings /\ now' = now
    BY <1>6 DEF UpdateUserName, DeleteSeat, DeleteSeatRow, Abort
  <2>2. \A v \in Workers : req'[v] = req[v] \/ req'[v].pc \in {"idle", "DeleteSeat"}
    BY <1>6, <1>a DEF UpdateUserName, DeleteSeat, DeleteSeatRow, Abort, Reply, TypeOK, Idle
  <2> QED
    BY <2>1, <2>2, <1>a, <1>b, QuietStep
<1>7. ASSUME NEW w \in Workers, UpdateSeat(w) \/ DeleteCoworking(w) \/ UpdateBookingLimit(w)
      PROVE  Bounded(u)'
  BY <1>7, <1>a, <1>b, QuietStep DEF UpdateSeat, DeleteCoworking, UpdateBookingLimit
<1>8. CASE Tick
  BY <1>8, <1>a, <1>b, QuietStep DEF Tick
<1>9. CASE UNCHANGED vars
  BY <1>9, <1>a, <1>b, QuietStep DEF vars
<1> QED
  BY <1>1, <1>2, <1>3, <1>4, <1>5, <1>6, <1>7, <1>8, <1>9 DEF Next, Handle

LEMMA OvershootInit == Init => OvershootBounded
<1> SUFFICES ASSUME Init, NEW u \in Users PROVE Bounded(u)
  BY DEF OvershootBounded, Bounded
<1>1. MayBeActive(u) = {} /\ PastTheLimit(u) = {}
  BY DEF Init, MayBeActive, PastTheLimit, Idle
<1>2. Cardinality(Workers) \in Nat
  BY FS_CardinalityType, WorkersAssumption
<1> QED
  BY <1>1, <1>2, FS_EmptySet, LimitAssumption DEF Bounded

(* A user passes the highest limit in force by less than the number of     *)
(* handlers at work, whatever the interleaving, for either store.          *)
THEOREM LimitOvershoot == Spec => []OvershootBounded
BY OvershootInit, OvershootNext, LimitInvariance, PTL DEF Spec
-----------------------------------------------------------------------------
(* The calendar.  A slot is held by the one confirmed row that covers it;  *)
(* an INSERT takes the window of the new row, an UPDATE takes it again or  *)
(* gives it back, and every other statement leaves the calendar alone.     *)

CalendarSlots == Seats \X (0 .. Horizon - 1)

(* Row i is confirmed and covers the slot.                                 *)
Occupies(i, slot) ==
  Confirmed(i) /\ bookings[i].seat_id = slot[1] /\ Covers(bookings[i], slot[2])

(* v is the row that occupies the slot, or 0 when none does.               *)
Holds(v, slot) ==
  /\ v \in DOMAIN bookings \cup {0}
  /\ \A i \in DOMAIN bookings : v = i <=> Occupies(i, slot)

HolderHolds ==
  /\ Holder = [slot \in CalendarSlots |-> Holder[slot]]
  /\ \A slot \in CalendarSlots : Holds(Holder[slot], slot)

HolderUnique == \A slot \in CalendarSlots : \A v : Holds(v, slot) => Holder[slot] = v

HolderInv == HolderHolds /\ HolderUnique

LEMMA SlotParts ==
  ASSUME NEW slot \in CalendarSlots
  PROVE  slot[1] \in Seats /\ slot[2] \in Time /\ slot[2] \in Int
BY BoundsAssumption DEF CalendarSlots, Time

(* Two confirmed rows do not occupy one slot.                              *)
LEMMA OneOccupant ==
  ASSUME TypeOK, ConfirmedDisjoint, NEW slot \in CalendarSlots,
         NEW i \in DOMAIN bookings, NEW j \in DOMAIN bookings,
         Occupies(i, slot), Occupies(j, slot)
  PROVE  i = j
<1>1. /\ bookings[i].start_at \in Int /\ bookings[i].end_at \in Int
      /\ bookings[j].start_at \in Int /\ bookings[j].end_at \in Int
      /\ slot[2] \in Int
  BY RowTypes, SlotParts
<1>2. Overlaps(bookings[i], bookings[j])
  BY <1>1 DEF Occupies, Covers, Overlaps
<1> QED
  BY <1>2 DEF Occupies, ConfirmedDisjoint

LEMMA RowIds == TypeOK => 0 \notin DOMAIN bookings
BY DEF TypeOK

LEMMA HolderIsInv == TypeOK /\ ConfirmedDisjoint => HolderInv
<1> SUFFICES ASSUME TypeOK, ConfirmedDisjoint PROVE HolderInv
  OBVIOUS
<1> DEFINE held(slot) == {i \in DOMAIN bookings :
                            /\ Confirmed(i)
                            /\ bookings[i].seat_id = slot[1]
                            /\ Covers(bookings[i], slot[2])}
<1>1. Holder = [slot \in CalendarSlots |->
                  IF held(slot) = {} THEN 0 ELSE CHOOSE i \in held(slot) : TRUE]
  BY DEF Holder, CalendarSlots
<1>2. ASSUME NEW slot \in CalendarSlots PROVE Holds(Holder[slot], slot)
  <2>1. \A i \in DOMAIN bookings : i \in held(slot) <=> Occupies(i, slot)
    BY DEF Occupies
  <2>2. Holder[slot] = IF held(slot) = {} THEN 0 ELSE CHOOSE i \in held(slot) : TRUE
    BY <1>1
  <2>3. CASE held(slot) = {}
    BY <2>1, <2>2, <2>3, RowIds DEF Holds
  <2>4. CASE held(slot) # {}
    <3>1. Holder[slot] \in held(slot)
      BY <2>2, <2>4
    <3> QED
      BY <2>1, <3>1, OneOccupant DEF Holds
  <2> QED
    BY <2>3, <2>4
<1>3. HolderHolds
  BY <1>1, <1>2 DEF HolderHolds
<1>4. HolderUnique
  <2> SUFFICES ASSUME NEW slot \in CalendarSlots, NEW v, Holds(v, slot) PROVE Holder[slot] = v
    BY DEF HolderUnique
  <2>1. Holds(Holder[slot], slot)
    BY <1>2
  <2> QED
    BY <2>1, RowIds DEF Holds
<1> QED
  BY <1>3, <1>4 DEF HolderInv

-----------------------------------------------------------------------------
(* The ids of the rows stay within the bound of the model: an insertion    *)
(* under way has its id reserved.                                          *)
InsertingPC == {"GetSeatByID", "GetSettings", "CountActive", "SeatHasConflict", "CreateBooking"}

Inserting == {w \in Workers : req[w].pc \in InsertingPC}

IdsReserved == Len(bookings) + Cardinality(Inserting) <= MaxBookings

CalendarInv == IInv /\ IdsReserved

LEMMA ReservationTypes ==
  ASSUME TypeOK
  PROVE  IsFiniteSet(Inserting) /\ Cardinality(Inserting) \in Nat /\ Len(bookings) \in Nat
<1>1. Inserting \in SUBSET Workers
  BY DEF Inserting
<1>2. IsFiniteSet(Inserting)
  BY <1>1, FS_Subset, WorkersAssumption
<1> QED
  BY <1>2, FS_CardinalityType DEF TypeOK

(* A step after which no more insertions are under way than before.        *)
LEMMA NothingReserved ==
  ASSUME TypeOK, IdsReserved, Len(bookings') = Len(bookings), Inserting' \subseteq Inserting
  PROVE  IdsReserved'
<1>1. IsFiniteSet(Inserting) /\ Cardinality(Inserting) \in Nat /\ Len(bookings) \in Nat
  BY ReservationTypes
<1>2. Inserting' \in SUBSET Inserting
  OBVIOUS
<1>3. IsFiniteSet(Inserting') /\ Cardinality(Inserting') <= Cardinality(Inserting)
  BY <1>1, <1>2, FS_Subset
<1>4. Cardinality(Inserting') \in Nat
  BY <1>3, FS_CardinalityType
<1> QED
  BY <1>1, <1>3, <1>4, BoundsAssumption DEF IdsReserved

LEMMA ReservedNext == RowsInv /\ IdsReserved /\ [Next]_vars => IdsReserved'
<1> SUFFICES ASSUME RowsInv, IdsReserved, [Next]_vars PROVE IdsReserved'
  OBVIOUS
<1>a. TypeOK /\ IsFiniteSet(Inserting) /\ Cardinality(Inserting) \in Nat /\ Len(bookings) \in Nat
  BY ReservationTypes DEF RowsInv
<1>b. ASSUME NEW w \in Workers, NEW r, req' = [req EXCEPT ![w] = r], Len(bookings') = Len(bookings),
             r.pc \in InsertingPC => req[w].pc \in InsertingPC
      PROVE  IdsReserved'
  <2>1. Inserting' \subseteq Inserting
    BY <1>a, <1>b DEF Inserting, TypeOK
  <2> QED
    BY <1>a, <1>b, <2>1, NothingReserved
<1>c. ASSUME NEW w \in Workers, Reply(w), Len(bookings') = Len(bookings) PROVE IdsReserved'
  BY <1>b, <1>c DEF Reply, Idle, InsertingPC
<1>d. ASSUME req' = req, bookings' = bookings PROVE IdsReserved'
  BY <1>d DEF IdsReserved, Inserting
<1>1. ASSUME NEW w \in Workers, CreateBooking(w) PROVE IdsReserved'
  <2> DEFINE F == {v \in Workers : InFlight(v)}
  <2>1. /\ Len(bookings) + Cardinality(F) < MaxBookings
        /\ bookings' = bookings
        /\ req[w] = Idle
    BY <1>1 DEF CreateBooking
  <2>2. Inserting \in SUBSET F /\ F \in SUBSET Workers /\ w \notin Inserting
    BY <2>1 DEF Inserting, InsertingPC, InFlight, BookingPC, Idle
  <2>3. IsFiniteSet(F) /\ Cardinality(F) \in Nat
    BY <2>2, FS_Subset, FS_CardinalityType, WorkersAssumption
  <2>4. Cardinality(Inserting) <= Cardinality(F)
    BY <2>2, <2>3, FS_Subset
  <2>5. Inserting' = Inserting \cup {w}
    BY <1>1, <1>a DEF CreateBooking, Inserting, InsertingPC, TypeOK
  <2>6. Cardinality(Inserting \cup {w}) = Cardinality(Inserting) + 1
    BY <1>a, <2>2, FS_AddElement
  <2> QED
    BY <1>a, <2>1, <2>3, <2>4, <2>5, <2>6, BoundsAssumption DEF IdsReserved
<1>2. ASSUME NEW w \in Workers, InsertBooking(w) PROVE IdsReserved'
  <2>1. CASE ~ InsertAllowed(req[w])
    BY <1>2, <1>c, <2>1 DEF InsertBooking
  <2>2. CASE InsertAllowed(req[w])
    <3>1. PICK r : r.pc \notin InsertingPC /\ req' = [req EXCEPT ![w] = r]
      BY <1>2, <2>2, <1>a, CheckEffect
         DEF InsertBooking, InsertingPC, BookingPC, Idle, TypeOK
    <3>2. Len(bookings') = Len(bookings) + 1
      BY <1>2, <2>2, <1>a DEF InsertBooking, TypeOK
    <3>3. Inserting' = Inserting \ {w} /\ w \in Inserting
      BY <1>2, <1>a, <3>1 DEF InsertBooking, Inserting, InsertingPC, TypeOK
    <3>4. Cardinality(Inserting \ {w}) = Cardinality(Inserting) - 1
      BY <1>a, <3>3, FS_RemoveElement
    <3> QED
      BY <1>a, <3>2, <3>3, <3>4, BoundsAssumption DEF IdsReserved
  <2> QED
    BY <2>1, <2>2
<1>3. ASSUME NEW w \in Workers, NEW ok, NEW next \in BookingPC, Check(w, ok, next),
             bookings' = bookings, req[w].pc \in InsertingPC \/ next \notin InsertingPC,
             req[w].pc \in BookingPC
      PROVE  IdsReserved'
  <2>1. PICK r : /\ req' = [req EXCEPT ![w] = r]
                 /\ r.pc \in InsertingPC => r.pc = next
    BY <1>3, <1>a, CheckEffect DEF TypeOK, Idle, InsertingPC
  <2> QED
    BY <1>3, <1>b, <2>1
<1>4. ASSUME NEW w \in Workers, GetSettings(w) PROVE IdsReserved'
  <2>1. req' = [req EXCEPT ![w] = [[req[w] EXCEPT !.pc = "CountActive"] EXCEPT !.limit = limit]]
    BY <1>4, <1>a DEF GetSettings, TypeOK
  <2> QED
    BY <1>4, <1>b, <2>1 DEF GetSettings, InsertingPC
<1>5. ASSUME NEW w \in Workers, UpdateBookingStatus(w) PROVE IdsReserved'
  <2>1. Len(bookings') = Len(bookings)
    BY <1>5, <1>a DEF UpdateBookingStatus, TypeOK
  <2> QED
    BY <1>5, <1>c, <2>1 DEF UpdateBookingStatus
<1>6. ASSUME NEW w \in Workers, Handle(w) PROVE IdsReserved'
  <2>1. GetSeatByID(w) \/ CountActiveBookingsByUser(w) \/ SeatHasConflict(w) \/ GetUserByID(w)
        => IdsReserved'
    BY <1>3 DEF GetSeatByID, CountActiveBookingsByUser, SeatHasConflict, GetUserByID,
                BookingPC, InsertingPC
  <2>2. UpdateUserName(w) \/ DeleteSeatRow(w) \/ Abort(w) => IdsReserved'
    BY <1>c DEF UpdateUserName, DeleteSeatRow, Abort
  <2>3. CancelBooking(w) \/ AdminUpdateBookingStatus(w) \/ DeleteSeat(w) => IdsReserved'
    BY <1>b DEF CancelBooking, AdminUpdateBookingStatus, DeleteSeat, InsertingPC
  <2>4. UpdateSeat(w) \/ DeleteCoworking(w) \/ UpdateBookingLimit(w) => IdsReserved'
    BY <1>d DEF UpdateSeat, DeleteCoworking, UpdateBookingLimit
  <2> QED
    BY <1>1, <1>2, <1>4, <1>5, <1>6, <2>1, <2>2, <2>3, <2>4 DEF Handle
<1>7. CASE Tick
  BY <1>7, <1>d DEF Tick
<1>8. CASE UNCHANGED vars
  BY <1>8, <1>d DEF vars
<1> QED
  BY <1>6, <1>7, <1>8 DEF Next

LEMMA ReservedInit == Init => IdsReserved
<1> SUFFICES ASSUME Init PROVE IdsReserved
  OBVIOUS
<1>1. Inserting = {} /\ Len(bookings) = 0
  BY DEF Init, Inserting, InsertingPC, Idle
<1>2. Cardinality(Inserting) = 0
  BY <1>1, FS_EmptySet
<1> QED
  BY <1>1, <1>2, BoundsAssumption DEF IdsReserved

LEMMA CalendarInvariance == Spec => []CalendarInv
<1>1. Init => IdsReserved
  BY ReservedInit
<1>2. IInv /\ IdsReserved /\ [Next]_vars => IdsReserved'
  BY ReservedNext DEF IInv
<1> QED
  BY <1>1, <1>2, Invariance, PTL DEF Spec, CalendarInv
-----------------------------------------------------------------------------
(* The value of Holder at a slot after a step.                             *)
LEMMA HolderAfter ==
  ASSUME HolderInv', NEW slot \in CalendarSlots, NEW v, Holds(v, slot)'
  PROVE  Holder'[slot] = v
BY DEF HolderInv, HolderUnique

(* Row k, which held nothing, is confirmed on a window that was free.      *)
LEMMA TakeStep ==
  ASSUME HolderInv', NEW k \in 1 .. MaxBookings, NEW x \in Booking,
         \A slot \in CalendarSlots :
           /\ Holder[slot] # k
           /\ slot[1] = x.seat_id /\ Covers(x, slot[2]) => Holder[slot] = 0
           /\ Holder'[slot] = IF slot[1] = x.seat_id /\ Covers(x, slot[2]) THEN k ELSE Holder[slot],
         HolderInv
  PROVE  [Calendar!Next]_Holder
<1> DEFINE from == x.start_at
           to == x.end_at - 1
           W == Calendar!Window(x.seat_id, from, to + 1)
<1>1. /\ x.seat_id \in Seats /\ x.start_at \in 0 .. Horizon /\ x.end_at \in 0 .. Horizon
      /\ Horizon \in Nat /\ to + 1 = x.end_at
  BY BoundsAssumption DEF Booking, Time
<1>2. /\ Holder = [slot \in CalendarSlots |-> Holder[slot]]
      /\ Holder' = [slot \in CalendarSlots |-> Holder'[slot]]
  BY DEF HolderInv, HolderHolds
<1>3. Calendar!Slots = CalendarSlots
  BY DEF Calendar!Slots, CalendarSlots
<1>4. W = {slot \in CalendarSlots : slot[1] = x.seat_id /\ Covers(x, slot[2])}
  BY <1>1, <1>3 DEF Calendar!Window, Covers
<1>5. CASE from < x.end_at
  <2>1. from \in 0 .. Horizon - 1 /\ to \in 0 .. Horizon - 1
    BY <1>1, <1>5
  <2>2. Calendar!HeldBy(k) = {}
    BY <1>3 DEF Calendar!HeldBy
  <2>3. \A slot \in W : Holder[slot] = 0
    BY <1>4
  <2>4. Holder' = [slot \in CalendarSlots |-> IF slot \in W THEN k ELSE Holder[slot]]
    <3>1. \A slot \in CalendarSlots : Holder'[slot] = IF slot \in W THEN k ELSE Holder[slot]
      BY <1>4
    <3> HIDE DEF W
    <3> QED
      BY <1>2, <3>1
  <2>5. Calendar!Take(k, x.seat_id, from, to + 1)
    BY <1>3, <2>2, <2>3, <2>4 DEF Calendar!Take
  <2> QED
    BY <1>1, <2>1, <2>5 DEF Calendar!Next
<1>6. CASE ~ (from < x.end_at)
  <2>1. \A slot \in CalendarSlots : Holder'[slot] = Holder[slot]
    BY <1>1, <1>6, SlotParts DEF Covers
  <2> QED
    BY <1>2, <2>1
<1> QED
  BY <1>5, <1>6

(* Row k is no longer confirmed.                                           *)
LEMMA ReleaseStep ==
  ASSUME HolderInv', NEW k \in 1 .. MaxBookings,
         \A slot \in CalendarSlots :
           Holder'[slot] = IF Holder[slot] = k THEN 0 ELSE Holder[slot]
  PROVE  Calendar!Next
<1>1. Holder' = [slot \in CalendarSlots |-> Holder'[slot]]
  BY DEF HolderInv, HolderHolds
<1>2. Calendar!Slots = CalendarSlots
  BY DEF Calendar!Slots, CalendarSlots
<1>3. Holder' = [slot \in CalendarSlots |-> IF Holder[slot] = k THEN 0 ELSE Holder[slot]]
  BY <1>1
<1>4. Calendar!Release(k)
  BY <1>2, <1>3 DEF Calendar!Release
<1> QED
  BY <1>4 DEF Calendar!Next

(* Nobody holds the slots of a window that the EXCLUDE constraint grants.  *)
LEMMA GrantedIsFree ==
  ASSUME Store = "postgres", TypeOK, HolderInv, NEW x, NEW id,
         x.start_at \in Int, x.end_at \in Int,
         ExclusionAllows(x, id), id \in DOMAIN bookings => ~ Confirmed(id),
         NEW slot \in CalendarSlots, slot[1] = x.seat_id, Covers(x, slot[2])
  PROVE  Holder[slot] = 0
<1> SUFFICES ASSUME Holder[slot] # 0 PROVE FALSE
  OBVIOUS
<1> DEFINE i == Holder[slot]
<1>1. i \in DOMAIN bookings /\ Occupies(i, slot)
  BY DEF HolderInv, HolderHolds, Holds
<1>2. bookings[i].start_at \in Int /\ bookings[i].end_at \in Int /\ slot[2] \in Int
  BY <1>1, RowTypes, SlotParts
<1>3. Overlaps(bookings[i], x)
  BY <1>1, <1>2 DEF Occupies, Covers, Overlaps
<1> QED
  BY <1>1, <1>3 DEF ExclusionAllows, ConflictsWith, Occupies

LEMMA InsertStep ==
  ASSUME Store = "postgres", CalendarInv, HolderInv, HolderInv', IInv',
         NEW w \in Workers, InsertBooking(w), InsertAllowed(req[w]),
         NEW n, n = Len(bookings) + 1
  PROVE  [Calendar!Next]_Holder
<1> DEFINE x == NewRow(req[w])
<1>a. TypeOK /\ 0 \notin DOMAIN bookings
  BY RowIds DEF CalendarInv, IInv, RowsInv
<1>1. /\ bookings' = Append(bookings, x)
      /\ req[w] \in BookingReq
  BY <1>a, RequestKinds DEF InsertBooking, TypeOK, BookingPC
<1>2. /\ DOMAIN bookings' = DOMAIN bookings \cup {n}
      /\ n \notin DOMAIN bookings /\ n # 0
      /\ \A i \in DOMAIN bookings : bookings'[i] = bookings[i]
      /\ bookings'[n] = x
  BY <1>1, <1>a DEF TypeOK
<1>3. x \in Booking /\ x.start_at \in Int /\ x.end_at \in Int /\ x.status = "confirmed"
  BY <1>1, BoundsAssumption DEF BookingReq, NewRow, Booking, Status, Time
<1>4. n \in 1 .. MaxBookings
  <2>1. w \in Inserting /\ IsFiniteSet(Inserting) /\ Cardinality(Inserting) \in Nat
        /\ Len(bookings) \in Nat
    BY <1>a, ReservationTypes DEF InsertBooking, Inserting, InsertingPC
  <2>2. Cardinality(Inserting) # 0
    BY <2>1, FS_EmptySet
  <2> QED
    BY <2>1, <2>2, BoundsAssumption DEF CalendarInv, IdsReserved
<1>5. ExclusionAllows(x, n)
  BY DEF InsertAllowed, ExclusionAllows, ConflictsWith, NewRow, Overlaps
<1>6. ASSUME NEW slot \in CalendarSlots
      PROVE  /\ Holder[slot] # n
             /\ slot[1] = x.seat_id /\ Covers(x, slot[2]) => Holder[slot] = 0
             /\ Holder'[slot] = IF slot[1] = x.seat_id /\ Covers(x, slot[2])
                                THEN n ELSE Holder[slot]
  <2>1. Holds(Holder[slot], slot)
    BY DEF HolderInv, HolderHolds
  <2>2. Holder[slot] # n
    BY <1>2, <2>1 DEF Holds
  <2>3. slot[1] = x.seat_id /\ Covers(x, slot[2]) => Holder[slot] = 0
    BY <1>a, <1>2, <1>3, <1>5, GrantedIsFree
  <2>4. /\ \A i \in DOMAIN bookings : Occupies(i, slot)' <=> Occupies(i, slot)
        /\ Occupies(n, slot)' <=> slot[1] = x.seat_id /\ Covers(x, slot[2])
    BY <1>2, <1>3 DEF Occupies, Confirmed
  <2>5. CASE slot[1] = x.seat_id /\ Covers(x, slot[2])
    <3>1. \A i \in DOMAIN bookings : ~ Occupies(i, slot)
      BY <2>1, <2>3, <2>5, <1>a DEF Holds
    <3>2. Holds(n, slot)'
      BY <1>2, <2>4, <2>5, <3>1 DEF Holds
    <3> QED
      BY <2>2, <2>3, <2>5, <3>2, HolderAfter
  <2>6. CASE ~ (slot[1] = x.seat_id /\ Covers(x, slot[2]))
    <3> DEFINE v == Holder[slot]
    <3>1. /\ v \in DOMAIN bookings' \cup {0}
          /\ \A i \in DOMAIN bookings' : v = i <=> Occupies(i, slot)'
      BY <1>2, <2>1, <2>2, <2>4, <2>6 DEF Holds
    <3>2. Holder'[slot] = v
      BY <3>1, HolderAfter DEF Holds
    <3> QED
      BY <2>2, <2>6, <3>2
  <2> QED
    BY <2>5, <2>6
<1> QED
  BY <1>3, <1>4, <1>6, TakeStep

LEMMA StatusStep ==
  ASSUME Store = "postgres", CalendarInv, HolderInv, HolderInv', IInv',
         NEW w \in Workers, UpdateBookingStatus(w), NEW k, k = req[w].id,
         req[w].status = "confirmed" => ExclusionAllows(bookings[k], k)
  PROVE  [Calendar!Next]_Holder
<1> DEFINE st == req[w].status
           x == bookings[k]
<1>a. TypeOK /\ PendingRowExists /\ 0 \notin DOMAIN bookings
  BY RowIds DEF CalendarInv, IInv, RowsInv
<1>1. k \in DOMAIN bookings /\ x \in Booking /\ x.start_at \in Int /\ x.end_at \in Int
  BY <1>a, RowTypes DEF UpdateBookingStatus, PendingRowExists
<1>2. bookings' = [bookings EXCEPT ![k].status = st]
  BY DEF UpdateBookingStatus
<1>3. /\ DOMAIN bookings' = DOMAIN bookings
      /\ \A i \in DOMAIN bookings : i # k => bookings'[i] = bookings[i]
      /\ bookings'[k] = [x EXCEPT !.status = st]
  BY <1>1, <1>2, <1>a DEF TypeOK
<1>4. /\ bookings'[k].seat_id = x.seat_id
      /\ bookings'[k].start_at = x.start_at
      /\ bookings'[k].end_at = x.end_at
      /\ bookings'[k].status = st
  BY <1>1, <1>3 DEF Booking
<1>5. k \in 1 .. MaxBookings
  <2>1. Cardinality(Inserting) \in Nat /\ Len(bookings) \in Nat
    BY <1>a, ReservationTypes
  <2>2. k \in 1 .. Len(bookings)
    BY <1>1, <1>a DEF TypeOK
  <2> QED
    BY <2>1, <2>2, BoundsAssumption DEF CalendarInv, IdsReserved
<1>6. ASSUME NEW slot \in CalendarSlots
      PROVE  /\ Holds(Holder[slot], slot)
             /\ \A i \in DOMAIN bookings : i # k => (Occupies(i, slot)' <=> Occupies(i, slot))
             /\ Occupies(k, slot)' <=> st = "confirmed" /\ slot[1] = x.seat_id /\ Covers(x, slot[2])
             /\ Occupies(k, slot) <=> Confirmed(k) /\ slot[1] = x.seat_id /\ Covers(x, slot[2])
  BY <1>3, <1>4 DEF HolderInv, HolderHolds, Occupies, Confirmed, Covers
<1>7. CASE Confirmed(k) <=> st = "confirmed"
  <2>1. ASSUME NEW slot \in CalendarSlots PROVE Holder'[slot] = Holder[slot]
    <3> DEFINE v == Holder[slot]
    <3>1. /\ v \in DOMAIN bookings' \cup {0}
          /\ \A i \in DOMAIN bookings' : v = i <=> Occupies(i, slot)'
      BY <1>3, <1>6, <1>7 DEF Holds
    <3> QED
      BY <3>1, HolderAfter DEF Holds
  <2>2. Holder' = Holder
    BY <2>1 DEF HolderInv, HolderHolds
  <2> QED
    BY <2>2
<1>8. CASE Confirmed(k) /\ st # "confirmed"
  <2>1. ASSUME NEW slot \in CalendarSlots
        PROVE  Holder'[slot] = IF Holder[slot] = k THEN 0 ELSE Holder[slot]
    <3> DEFINE v == IF Holder[slot] = k THEN 0 ELSE Holder[slot]
    <3>1. /\ v \in DOMAIN bookings' \cup {0}
          /\ \A i \in DOMAIN bookings' : v = i <=> Occupies(i, slot)'
      BY <1>3, <1>6, <1>8, <1>a DEF Holds
    <3> QED
      BY <3>1, HolderAfter DEF Holds
  <2> QED
    BY <2>1, <1>5, ReleaseStep
<1>9. CASE ~ Confirmed(k) /\ st = "confirmed"
  <2>1. ASSUME NEW slot \in CalendarSlots
        PROVE  /\ Holder[slot] # k
               /\ slot[1] = x.seat_id /\ Covers(x, slot[2]) => Holder[slot] = 0
               /\ Holder'[slot] = IF slot[1] = x.seat_id /\ Covers(x, slot[2])
                                  THEN k ELSE Holder[slot]
    <3>1. Holder[slot] # k
      BY <1>1, <1>6, <1>9 DEF Holds
    <3>2. slot[1] = x.seat_id /\ Covers(x, slot[2]) => Holder[slot] = 0
      BY <1>1, <1>9, <1>a, GrantedIsFree
    <3> DEFINE v == IF slot[1] = x.seat_id /\ Covers(x, slot[2]) THEN k ELSE Holder[slot]
    <3>3. /\ v \in DOMAIN bookings' \cup {0}
          /\ \A i \in DOMAIN bookings' : v = i <=> Occupies(i, slot)'
      BY <1>1, <1>3, <1>6, <1>9, <1>a, <3>1, <3>2 DEF Holds
    <3>4. Holder'[slot] = v
      BY <3>3, HolderAfter DEF Holds
    <3> QED
      BY <3>1, <3>2, <3>4
  <2> QED
    BY <1>1, <1>5, <2>1, TakeStep
<1> QED
  BY <1>7, <1>8, <1>9

(* Every other step leaves the bookings alone.                             *)
LEMMA CalendarNext ==
  ASSUME Store = "postgres"
  PROVE  CalendarInv /\ HolderInv /\ HolderInv' /\ IInv' /\ [Next]_vars => [Calendar!Next]_Holder
<1> SUFFICES ASSUME CalendarInv, HolderInv, HolderInv', IInv', [Next]_vars
             PROVE  [Calendar!Next]_Holder
  OBVIOUS
<1>1. ASSUME bookings' = bookings PROVE Holder' = Holder
  BY <1>1 DEF Holder, Confirmed
<1>2. ASSUME NEW w \in Workers, InsertBooking(w) PROVE [Calendar!Next]_Holder
  BY <1>1, <1>2, InsertStep DEF InsertBooking
<1>3. ASSUME NEW w \in Workers, UpdateBookingStatus(w) PROVE [Calendar!Next]_Holder
  BY <1>1, <1>3, StatusStep DEF UpdateBookingStatus
<1>4. ASSUME NEW w \in Workers, Handle(w), ~ InsertBooking(w), ~ UpdateBookingStatus(w)
      PROVE  bookings' = bookings
  BY <1>4 DEF Handle, CreateBooking, GetSeatByID, GetSettings, CountActiveBookingsByUser,
              SeatHasConflict, GetUserByID, UpdateUserName, CancelBooking,
              AdminUpdateBookingStatus, UpdateSeat, DeleteSeat, DeleteSeatRow,
              DeleteCoworking, UpdateBookingLimit, Abort
<1>5. CASE Tick \/ UNCHANGED vars
  BY <1>1, <1>5 DEF Tick, vars
<1> QED
  BY <1>1, <1>2, <1>3, <1>4, <1>5 DEF Next

LEMMA CalendarInit == Init => Calendar!Init
<1> SUFFICES ASSUME Init PROVE Holder = [slot \in Calendar!Slots |-> 0]
  BY DEF Calendar!Init
<1>1. DOMAIN bookings = {}
  BY DEF Init
<1>2. Calendar!Slots = CalendarSlots
  BY DEF Calendar!Slots, CalendarSlots
<1> QED
  BY <1>1, <1>2 DEF Holder, CalendarSlots

(* Whatever the interleaving of the handlers' statements and wherever      *)
(* requests die, the booking service is a calendar: a booking takes all of *)
(* a free window in one step or nothing, and gives all of it back.         *)
THEOREM CalendarImplemented ==
  ASSUME Store = "postgres" PROVE Spec => ImplementsCalendar
<1>1. IInv => HolderInv
  BY HolderIsInv DEF IInv, RowsInv, SchemaInv
<1>2. CalendarInv => IInv
  BY DEF CalendarInv
<1> QED
  BY <1>1, <1>2, CalendarInvariance, CalendarInit, CalendarNext, PTL
     DEF Spec, ImplementsCalendar, Calendar!Spec
-----------------------------------------------------------------------------
(* The contract of one handler.  CreateBooking, CancelBooking and          *)
(* AdminUpdateBookingStatus check in one statement and write in another;   *)
(* what they promise holds when requests come one at a time, and the runs  *)
(* racing_limit and racing_status show that it does not otherwise.         *)
OneHandler == \A v, w \in Workers : v = w

(* What CreateBooking has read of the seat and of the limit is still so,   *)
(* and its count has not grown since.                                      *)
SeatStillActive ==
  \A w \in Workers :
    req[w].pc \in {"GetSettings", "CountActive", "SeatHasConflict", "CreateBooking"}
      => seats[req[w].seat_id] = "active"

LimitStillKept ==
  \A w \in Workers :
    /\ req[w].pc \in {"CountActive", "SeatHasConflict", "CreateBooking"} => req[w].limit = limit
    /\ req[w].pc \in {"SeatHasConflict", "CreateBooking"} => UnderLimit(req[w])

(* The row that a pending status update has read is not yet final.         *)
RowStillConfirmed ==
  \A w \in Workers : req[w].pc = "UpdateBookingStatus" => Confirmed(req[w].id)

ContractInv == SeatStillActive /\ LimitStillKept /\ RowStillConfirmed

(* What is to be shown of the only request.                                *)
Kept(r) ==
  /\ r.pc \in {"GetSettings", "CountActive", "SeatHasConflict", "CreateBooking"}
       => seats[r.seat_id] = "active"
  /\ r.pc \in {"CountActive", "SeatHasConflict", "CreateBooking"} => r.limit = limit
  /\ r.pc \in {"SeatHasConflict", "CreateBooking"} => UnderLimit(r)
  /\ r.pc = "UpdateBookingStatus" => Confirmed(r.id)

LEMMA ContractIsKept == ContractInv <=> \A w \in Workers : Kept(req[w])
BY DEF ContractInv, SeatStillActive, LimitStillKept, RowStillConfirmed, Kept

(* The only request is replaced; the tables it has read stay.              *)
LEMMA KeptRequest ==
  ASSUME OneHandler, TypeOK, NEW w \in Workers, NEW r, req' = [req EXCEPT ![w] = r],
         Kept(r), UNCHANGED <<bookings, seats, limit>>
  PROVE  ContractInv'
<1>1. req'[w] = r /\ \A v \in Workers : v = w
  BY DEF TypeOK, OneHandler
<1>2. Kept(r)'
  BY DEF Kept, UnderLimit, ActiveBookings, Confirmed
<1> QED
  BY <1>1, <1>2 DEF ContractInv, SeatStillActive, LimitStillKept, RowStillConfirmed, Kept,
     UnderLimit, ActiveBookings, Confirmed

(* The only request has been answered, or waits for nothing.               *)
LEMMA KeptIdle ==
  ASSUME OneHandler, TypeOK, NEW w \in Workers,
         req'[w].pc \notin {"GetSettings", "CountActive", "SeatHasConflict", "CreateBooking",
                            "UpdateBookingStatus"}
  PROVE  ContractInv'
BY DEF OneHandler, ContractInv, SeatStillActive, LimitStillKept, RowStillConfirmed

LEMMA ContractInit == Init => ContractInv
BY DEF Init, ContractInv, SeatStillActive, LimitStillKept, RowStillConfirmed, Idle

(* The one handler reads, one statement after the other; what it writes    *)
(* ends what it has read, and the other operations find it idle.           *)
LEMMA ContractNext ==
  ASSUME OneHandler
  PROVE  IInv /\ ContractInv /\ [Next]_vars => ContractInv'
<1> SUFFICES ASSUME IInv, ContractInv, [Next]_vars PROVE ContractInv'
  OBVIOUS
<1>a. TypeOK /\ \A w \in Workers : Kept(req[w])
  BY ContractIsKept DEF IInv, RowsInv
<1>b. ASSUME NEW w \in Workers, req'[w] = Idle PROVE ContractInv'
  BY <1>b, <1>a, KeptIdle DEF Idle
<1>c. ASSUME NEW w \in Workers, Reply(w) PROVE ContractInv'
  <2>1. req'[w] = Idle
    BY <1>c, <1>a DEF Reply, TypeOK
  <2> QED
    BY <2>1, <1>b
<1>d. ASSUME NEW w \in Workers, NEW ok, NEW next, Check(w, ok, next), req[w].pc \in BookingPC,
             ok => Kept([req[w] EXCEPT !.pc = next]), UNCHANGED <<bookings, seats, limit>>
      PROVE  ContractInv'
  <2>1. CASE ok
    <3>1. req' = [req EXCEPT ![w] = [req[w] EXCEPT !.pc = next]]
      BY <1>d, <2>1 DEF Check
    <3> QED
      BY <3>1, <1>d, <2>1, <1>a, KeptRequest
  <2>2. CASE ~ ok
    BY <1>c, <1>d, <2>2 DEF Check
  <2> QED
    BY <2>1, <2>2
<1>e. ASSUME NEW w \in Workers, req[w].pc \in BookingPC PROVE req[w] \in BookingReq
  BY <1>e, <1>a, RequestKinds DEF TypeOK
<1>1. ASSUME NEW w \in Workers, CreateBooking(w) PROVE ContractInv'
  <2>1. PICK r : r.pc = "GetSeatByID" /\ req' = [req EXCEPT ![w] = r]
    BY <1>1 DEF CreateBooking
  <2>2. Kept(r)
    BY <2>1 DEF Kept
  <2> QED
    BY <2>1, <2>2, <1>1, <1>a, KeptRequest DEF CreateBooking
<1>2. ASSUME NEW w \in Workers, GetSeatByID(w) PROVE ContractInv'
  <2>1. req[w] \in BookingReq /\ req[w].pc \in BookingPC
    BY <1>2, <1>e DEF GetSeatByID, BookingPC
  <2>2. Bookable(req[w].seat_id) => Kept([req[w] EXCEPT !.pc = "GetSettings"])
    BY <2>1 DEF Bookable, Kept, BookingReq
  <2> QED
    BY <2>1, <2>2, <1>2, <1>d DEF GetSeatByID
<1>3. ASSUME NEW w \in Workers, GetSettings(w) PROVE ContractInv'
  <2> DEFINE r == [[req[w] EXCEPT !.pc = "CountActive"] EXCEPT !.limit = limit]
  <2>1. req[w] \in BookingReq /\ seats[req[w].seat_id] = "active"
    BY <1>3, <1>e, <1>a DEF GetSettings, BookingPC, Kept
  <2>2. r.pc = "CountActive" /\ r.limit = limit /\ r.seat_id = req[w].seat_id
    BY <2>1 DEF BookingReq
  <2>3. Kept(r)
    BY <2>1, <2>2 DEF Kept
  <2>4. req' = [req EXCEPT ![w] = r]
    BY <1>3, <1>a DEF GetSettings, TypeOK
  <2> QED
    BY <2>3, <2>4, <1>3, <1>a, KeptRequest DEF GetSettings
<1>4. ASSUME NEW w \in Workers, CountActiveBookingsByUser(w) PROVE ContractInv'
  <2> DEFINE r == [req[w] EXCEPT !.pc = "SeatHasConflict"]
  <2>1. /\ req[w] \in BookingReq /\ req[w].pc \in BookingPC
        /\ seats[req[w].seat_id] = "active" /\ req[w].limit = limit
    BY <1>4, <1>e, <1>a DEF CountActiveBookingsByUser, BookingPC, Kept
  <2>2. /\ r.pc = "SeatHasConflict" /\ r.limit = limit /\ r.seat_id = req[w].seat_id
        /\ r.user_id = req[w].user_id /\ r.at = req[w].at /\ req[w].limit = r.limit
    BY <2>1 DEF BookingReq
  <2>3. UnderLimit(req[w]) => Kept(r)
    BY <2>1, <2>2 DEF Kept, UnderLimit
  <2> QED
    BY <2>1, <2>3, <1>4, <1>d DEF CountActiveBookingsByUser
<1>5. ASSUME NEW w \in Workers, SeatHasConflict(w) PROVE ContractInv'
  <2> DEFINE r == [req[w] EXCEPT !.pc = "CreateBooking"]
  <2>1. /\ req[w] \in BookingReq /\ req[w].pc \in BookingPC
        /\ seats[req[w].seat_id] = "active" /\ req[w].limit = limit /\ UnderLimit(req[w])
    BY <1>5, <1>e, <1>a DEF SeatHasConflict, BookingPC, Kept
  <2>2. /\ r.pc = "CreateBooking" /\ r.limit = limit /\ r.seat_id = req[w].seat_id
        /\ r.user_id = req[w].user_id /\ r.at = req[w].at /\ req[w].limit = r.limit
    BY <2>1 DEF BookingReq
  <2>3. Kept(r)
    BY <2>1, <2>2 DEF Kept, UnderLimit
  <2> QED
    BY <2>1, <2>3, <1>5, <1>d DEF SeatHasConflict
<1>6. ASSUME NEW w \in Workers, InsertBooking(w) PROVE ContractInv'
  <2>1. req[w] \in BookingReq
    BY <1>6, <1>e DEF InsertBooking, BookingPC
  <2>2. req'[w].pc \in {"GetUserByID", "idle"}
    <3>1. [req[w] EXCEPT !.pc = "GetUserByID"].pc = "GetUserByID"
      BY <2>1 DEF BookingReq
    <3>2. Idle.pc = "idle"
      BY DEF Idle
    <3>3. req'[w] = [req[w] EXCEPT !.pc = "GetUserByID"] \/ req'[w] = Idle
      BY <1>6, <1>a DEF InsertBooking, Check, Reply, TypeOK
    <3> QED
      BY <3>1, <3>2, <3>3
  <2> QED
    BY <2>2, <1>a, KeptIdle
<1>7. ASSUME NEW w \in Workers, GetUserByID(w) PROVE ContractInv'
  <2>1. req[w] \in BookingReq /\ req[w].pc \in BookingPC
    BY <1>7, <1>e DEF GetUserByID, BookingPC
  <2>2. Kept([req[w] EXCEPT !.pc = "UpdateUserName"])
    BY <2>1 DEF Kept, BookingReq
  <2> QED
    BY <2>1, <2>2, <1>7, <1>d DEF GetUserByID
<1>8. ASSUME NEW w \in Workers, UpdateUserName(w) PROVE ContractInv'
  BY <1>8, <1>c DEF UpdateUserName
<1>9. ASSUME NEW w \in Workers, CancelBooking(w) PROVE ContractInv'
  <2>1. PICK i \in DOMAIN bookings :
          /\ Confirmed(i)
          /\ req' = [req EXCEPT ![w] =
                       [pc |-> "UpdateBookingStatus", id |-> i, status |-> "canceled"]]
    BY <1>9 DEF CancelBooking
  <2>2. Kept([pc |-> "UpdateBookingStatus", id |-> i, status |-> "canceled"])
    BY <2>1 DEF Kept
  <2> QED
    BY <2>1, <2>2, <1>9, <1>a, KeptRequest DEF CancelBooking
<1>10. ASSUME NEW w \in Workers, AdminUpdateBookingStatus(w) PROVE ContractInv'
  <2>1. PICK i \in DOMAIN bookings, st \in Status :
          /\ NotTerminal(i)
          /\ req' = [req EXCEPT ![w] = [pc |-> "UpdateBookingStatus", id |-> i, status |-> st]]
    BY <1>10 DEF AdminUpdateBookingStatus
  <2>2. Confirmed(i)
    <3>1. bookings[i].status \in Status
      BY <1>a, RowTypes DEF Booking
    <3> QED
      BY <2>1, <3>1 DEF NotTerminal, Status, Confirmed
  <2>3. Kept([pc |-> "UpdateBookingStatus", id |-> i, status |-> st])
    BY <2>2 DEF Kept
  <2> QED
    BY <2>1, <2>3, <1>10, <1>a, KeptRequest DEF AdminUpdateBookingStatus
<1>11. ASSUME NEW w \in Workers, UpdateBookingStatus(w) PROVE ContractInv'
  BY <1>11, <1>c DEF UpdateBookingStatus
<1>12. ASSUME NEW w \in Workers, UpdateSeat(w) PROVE ContractInv'
  BY <1>12, <1>b DEF UpdateSeat
<1>13. ASSUME NEW w \in Workers, DeleteSeat(w) PROVE ContractInv'
  <2>1. PICK s \in Seats : req' = [req EXCEPT ![w] = [pc |-> "DeleteSeat", seat_id |-> s]]
    BY <1>13 DEF DeleteSeat
  <2> QED
    BY <2>1, <1>a, KeptIdle DEF TypeOK
<1>14. ASSUME NEW w \in Workers, DeleteSeatRow(w) PROVE ContractInv'
  BY <1>14, <1>c DEF DeleteSeatRow
<1>15. ASSUME NEW w \in Workers, DeleteCoworking(w) PROVE ContractInv'
  BY <1>15, <1>b DEF DeleteCoworking
<1>16. ASSUME NEW w \in Workers, UpdateBookingLimit(w) PROVE ContractInv'
  BY <1>16, <1>b DEF UpdateBookingLimit
<1>17. ASSUME NEW w \in Workers, Abort(w) PROVE ContractInv'
  BY <1>17, <1>c DEF Abort
<1>18. CASE UNCHANGED <<bookings, seats, limit, req>>
  BY <1>18 DEF ContractInv, SeatStillActive, LimitStillKept, RowStillConfirmed, UnderLimit,
     ActiveBookings, Confirmed
<1> QED
  BY <1>1, <1>2, <1>3, <1>4, <1>5, <1>6, <1>7, <1>8, <1>9, <1>10, <1>11, <1>12, <1>13,
     <1>14, <1>15, <1>16, <1>17, <1>18 DEF Next, Handle, Tick, vars

LEMMA ContractInvariance ==
  ASSUME OneHandler PROVE Spec => [](LimitInv /\ ContractInv)
<1>1. IInv /\ ContractInv /\ [Next]_vars => ContractInv'
  BY ContractNext
<1>2. LimitInv => IInv
  BY DEF LimitInv
<1> QED
  BY <1>1, <1>2, ContractInit, LimitInvariance, PTL DEF Spec
-----------------------------------------------------------------------------
(* The table grows by the row of a request that stands before its INSERT.  *)
LEMMA GrowthIsInsert ==
  ASSUME TypeOK, [Next]_vars, Len(bookings') > Len(bookings)
  PROVE  \E w \in Workers :
           /\ req[w].pc = "CreateBooking" /\ req[w] \in BookingReq
           /\ LastRow = NewRow(req[w])
<1>1. ASSUME UNCHANGED bookings PROVE FALSE
  BY <1>1 DEF TypeOK
<1>2. ASSUME NEW w \in Workers, UpdateBookingStatus(w) PROVE FALSE
  BY <1>2 DEF UpdateBookingStatus, TypeOK
<1>3. PICK w \in Workers : InsertBooking(w)
  BY <1>1, <1>2
     DEF Next, Handle, vars, CreateBooking, GetSeatByID, GetSettings, CountActiveBookingsByUser,
         SeatHasConflict, GetUserByID, UpdateUserName, CancelBooking, AdminUpdateBookingStatus,
         UpdateSeat, DeleteSeat, DeleteSeatRow, DeleteCoworking, UpdateBookingLimit, Abort, Tick
<1>4. bookings' = Append(bookings, NewRow(req[w]))
  BY <1>1, <1>3 DEF InsertBooking
<1>5. LastRow = NewRow(req[w])
  BY <1>4 DEF LastRow, TypeOK
<1>6. req[w].pc = "CreateBooking" /\ req[w] \in BookingReq
  BY <1>3, RequestKinds DEF InsertBooking, TypeOK, BookingPC
<1> QED
  BY <1>5, <1>6

(* One handler at a time never lets a user past the booking limit that is  *)
(* in force at the insertion, by the clock of the insertion: the rows that *)
(* end after it are among those that CreateBooking has counted.            *)
THEOREM LimitKeptByOneHandler ==
  ASSUME OneHandler PROVE Spec => BookingLimitEnforced
<1> DEFINE A == Len(bookings') > Len(bookings) =>
                  Cardinality(ActiveBookings(LastRow.user_id, now)) < limit
<1>1. LimitInv /\ ContractInv /\ [Next]_vars => [A]_vars
  <2> SUFFICES ASSUME LimitInv, ContractInv, [Next]_vars, Len(bookings') > Len(bookings)
               PROVE  Cardinality(ActiveBookings(LastRow.user_id, now)) < limit
    OBVIOUS
  <2>1. TypeOK /\ ReadingIsPast
    BY DEF LimitInv, IInv, RowsInv
  <2>2. PICK w \in Workers : /\ req[w].pc = "CreateBooking" /\ req[w] \in BookingReq
                             /\ LastRow = NewRow(req[w])
    BY <2>1, GrowthIsInsert
  <2> DEFINE u == req[w].user_id
             t == req[w].at
  <2>3. LastRow.user_id = u
    BY <2>2 DEF NewRow
  <2>4. req[w].limit = limit /\ Cardinality(ActiveBookings(u, t)) < limit
    BY <2>2 DEF ContractInv, LimitStillKept, UnderLimit
  <2>5. t \in Int /\ now \in Int /\ t <= now
    BY <2>1, <2>2, BoundsAssumption DEF ReadingIsPast, BookingPC, BookingReq, TypeOK, Time
  <2>6. ActiveBookings(u, now) \subseteq ActiveBookings(u, t)
    BY <2>1, <2>5, RowTypes DEF ActiveBookings
  <2>7. /\ IsFiniteSet(ActiveBookings(u, t)) /\ Cardinality(ActiveBookings(u, t)) \in Nat
        /\ Cardinality(ActiveBookings(u, now)) \in Nat
    BY <2>1, FiniteSets
  <2>8. Cardinality(ActiveBookings(u, now)) <= Cardinality(ActiveBookings(u, t))
    BY <2>6, <2>7, FS_Subset
  <2>9. limit \in Int
    BY <2>1, LimitAssumption DEF TypeOK
  <2> QED
    BY <2>3, <2>4, <2>7, <2>8, <2>9
<1> QED
  BY <1>1, ContractInvariance, PTL DEF Spec, BookingLimitEnforced

(* One handler at a time never books a seat that has been switched off or  *)
(* deleted: the seat that GetSeatByID has found active is active still.    *)
THEOREM SeatActiveForOneHandler ==
  ASSUME OneHandler PROVE Spec => ActiveSeatAtInsert
<1> DEFINE A == Len(bookings') > Len(bookings) => seats[LastRow.seat_id] = "active"
<1>1. LimitInv /\ ContractInv /\ [Next]_vars => [A]_vars
  <2> SUFFICES ASSUME LimitInv, ContractInv, [Next]_vars, Len(bookings') > Len(bookings)
               PROVE  seats[LastRow.seat_id] = "active"
    OBVIOUS
  <2>1. PICK w \in Workers : req[w].pc = "CreateBooking" /\ LastRow = NewRow(req[w])
    BY GrowthIsInsert DEF LimitInv, IInv, RowsInv
  <2>2. LastRow.seat_id = req[w].seat_id
    BY <2>1 DEF NewRow
  <2> QED
    BY <2>1, <2>2 DEF ContractInv, SeatStillActive
<1> QED
  BY <1>1, ContractInvariance, PTL DEF Spec, ActiveSeatAtInsert

(* One handler at a time never changes a canceled or completed booking:    *)
(* the row it writes is the confirmed one it has read.                     *)
THEOREM TerminalForOneHandler ==
  ASSUME OneHandler PROVE Spec => TerminalStatusFinal
<1> DEFINE A == \A i \in DOMAIN bookings :
                  ~ Confirmed(i) => bookings'[i].status = bookings[i].status
<1>1. LimitInv /\ ContractInv /\ [Next]_vars => [A]_vars
  <2> SUFFICES ASSUME LimitInv, ContractInv, [Next]_vars, NEW i \in DOMAIN bookings, ~ Confirmed(i)
               PROVE  bookings'[i].status = bookings[i].status
    OBVIOUS
  <2>1. TypeOK /\ RowStillConfirmed
    BY DEF LimitInv, IInv, RowsInv, ContractInv
  <2>2. ASSUME NEW w \in Workers, InsertBooking(w) PROVE bookings'[i] = bookings[i]
    <3>1. bookings' = bookings \/ bookings' = Append(bookings, NewRow(req[w]))
      BY <2>2 DEF InsertBooking
    <3> QED
      BY <2>1, <3>1 DEF TypeOK
  <2>3. ASSUME NEW w \in Workers, UpdateBookingStatus(w) PROVE bookings'[i] = bookings[i]
    <3>1. req[w].id # i
      BY <2>1, <2>3 DEF UpdateBookingStatus, RowStillConfirmed
    <3> QED
      BY <2>1, <2>3, <3>1 DEF UpdateBookingStatus, TypeOK
  <2> QED
    BY <2>2, <2>3
       DEF Next, Handle, vars, CreateBooking, GetSeatByID, GetSettings, CountActiveBookingsByUser,
           SeatHasConflict, GetUserByID, UpdateUserName, CancelBooking, AdminUpdateBookingStatus,
           UpdateSeat, DeleteSeat, DeleteSeatRow, DeleteCoworking, UpdateBookingLimit, Abort, Tick
<1> QED
  BY <1>1, ContractInvariance, PTL DEF Spec, TerminalStatusFinal
-----------------------------------------------------------------------------
(* The names of the device users.  A request that has inserted a named     *)
(* booking of u has the name that u is about to bear.                      *)
Renaming(w, u) == req[w].pc \in {"GetUserByID", "UpdateUserName"} /\ req[w].user_id = u

(* The latest named booking of u, if there is one, bears the name n.       *)
LatestName(u, n) ==
  \A i \in NamedBookings(u) :
    (\A j \in NamedBookings(u) : j <= i) => bookings[i].display_name = n

NameSettled(u) ==
  /\ \A w \in Workers : Renaming(w, u) => LatestName(u, req[w].display_name)
  /\ (\A w \in Workers : ~ Renaming(w, u)) => LatestName(u, names[u])

NamesInv == \A u \in DeviceUsers : NameSettled(u)

(* A step that leaves the users and the names of the rows alone.           *)
LEMMA SameLatestName ==
  ASSUME NEW u, NEW n, DOMAIN bookings' = DOMAIN bookings,
         \A i \in DOMAIN bookings : /\ bookings'[i].user_id = bookings[i].user_id
                                    /\ bookings'[i].display_name = bookings[i].display_name
  PROVE  LatestName(u, n)' <=> LatestName(u, n)
<1>1. NamedBookings(u)' = NamedBookings(u)
  BY DEF NamedBookings
<1>2. NamedBookings(u) \subseteq DOMAIN bookings
  BY DEF NamedBookings
<1> QED
  BY <1>1, <1>2 DEF LatestName

(* ... and that is not about a rename of u.                                *)
LEMMA NoRename ==
  ASSUME OneHandler, NEW u, NameSettled(u), DOMAIN bookings' = DOMAIN bookings,
         \A i \in DOMAIN bookings : /\ bookings'[i].user_id = bookings[i].user_id
                                    /\ bookings'[i].display_name = bookings[i].display_name,
         names'[u] = names[u],
         NEW w \in Workers, ~ Renaming(w, u), ~ Renaming(w, u)'
  PROVE  NameSettled(u)'
<1>1. \A v \in Workers : v = w
  BY DEF OneHandler
<1>2. PICK n : n = names[u]
  OBVIOUS
<1>3. LatestName(u, n)
  BY <1>1, <1>2 DEF NameSettled
<1>4. LatestName(u, n)'
  BY <1>3, SameLatestName
<1>5. LatestName(u, names[u])'
  BY <1>2, <1>4 DEF LatestName, NamedBookings
<1>6. \A v \in Workers : ~ Renaming(v, u)'
  BY <1>1
<1> QED
  BY <1>5, <1>6 DEF NameSettled

LEMMA NamesInit == Init => NamesInv
BY DEF Init, NamesInv, NameSettled, LatestName, NamedBookings, Renaming, Idle

(* CreateBooking goes on to the rename whenever the row it has inserted is *)
(* named, and ends with the name of that row if no statement fails.        *)
LEMMA NamesNext ==
  ASSUME OneHandler, ~ Faults
  PROVE  IInv /\ NamesInv /\ [Next]_vars => NamesInv'
<1> SUFFICES ASSUME IInv, NamesInv, [Next]_vars, NEW u \in DeviceUsers PROVE NameSettled(u)'
  BY DEF NamesInv
<1>a. TypeOK /\ NameSettled(u) /\ u \in Users /\ \A v, w \in Workers : v = w
  BY UsersAssumption DEF IInv, RowsInv, NamesInv, OneHandler
<1>b. ASSUME NEW w \in Workers, UNCHANGED <<bookings, names>>,
             req[w].pc \notin {"GetUserByID", "UpdateUserName"},
             req'[w].pc \notin {"GetUserByID", "UpdateUserName"}
      PROVE  NameSettled(u)'
  BY <1>b, <1>a, NoRename DEF Renaming
<1>c. Idle.pc = "idle"
  BY DEF Idle
<1>1. ASSUME NEW w \in Workers, InsertBooking(w) PROVE NameSettled(u)'
  <2> DEFINE x == NewRow(req[w])
             k == Len(bookings) + 1
  <2>1. req[w] \in BookingReq
    BY <1>1, <1>a, RequestKinds DEF InsertBooking, TypeOK, BookingPC
  <2>2. CASE ~ InsertAllowed(req[w])
    <3>1. req'[w] = Idle /\ UNCHANGED <<bookings, names>>
      BY <1>1, <2>2, <1>a DEF InsertBooking, Reply, TypeOK
    <3> QED
      BY <3>1, <1>b, <1>c, <1>1 DEF InsertBooking
  <2>3. CASE InsertAllowed(req[w])
    <3>1. bookings' = Append(bookings, x) /\ names' = names
      BY <1>1, <2>3 DEF InsertBooking
    <3>2. /\ DOMAIN bookings' = DOMAIN bookings \cup {k} /\ k \notin DOMAIN bookings
          /\ \A i \in DOMAIN bookings : bookings'[i] = bookings[i] /\ i \in Int /\ i < k
          /\ bookings'[k] = x /\ k \in Int
      BY <3>1, <1>a DEF TypeOK
    <3>3. x.user_id = req[w].user_id /\ x.display_name = req[w].display_name
      BY DEF NewRow
    <3>4. CASE x.user_id = u /\ x.display_name # NoName
      <4>1. req' = [req EXCEPT ![w] = [req[w] EXCEPT !.pc = "GetUserByID"]]
        BY <1>1, <2>3, <3>3, <3>4 DEF InsertBooking, Check
      <4>2. /\ [req[w] EXCEPT !.pc = "GetUserByID"].pc = "GetUserByID"
            /\ [req[w] EXCEPT !.pc = "GetUserByID"].user_id = u
            /\ [req[w] EXCEPT !.pc = "GetUserByID"].display_name = x.display_name
        BY <2>1, <3>3, <3>4 DEF BookingReq
      <4>3. req'[w] = [req[w] EXCEPT !.pc = "GetUserByID"]
        BY <4>1, <1>a DEF TypeOK
      <4>4. Renaming(w, u)' /\ req'[w].display_name = x.display_name
        BY <4>2, <4>3 DEF Renaming
      <4>5. k \in NamedBookings(u)'
        BY <3>2, <3>4 DEF NamedBookings
      <4>6. \A i \in NamedBookings(u)' :
              (\A j \in NamedBookings(u)' : j <= i) => bookings'[i].display_name = x.display_name
        BY <3>2, <4>5 DEF NamedBookings
      <4>7. LatestName(u, req[w].display_name)'
        BY <4>4, <4>6 DEF LatestName
      <4> QED
        BY <4>4, <4>7, <1>a DEF NameSettled
    <3>5. CASE x.user_id # u \/ x.display_name = NoName
      <4>1. NamedBookings(u)' = NamedBookings(u)
        BY <3>2, <3>5 DEF NamedBookings
      <4>2. \A i \in NamedBookings(u) : bookings'[i] = bookings[i]
        BY <3>2 DEF NamedBookings
      <4>3. ~ Renaming(w, u)
        BY <1>1 DEF InsertBooking, Renaming
      <4>4. LatestName(u, names[u])
        BY <4>3, <1>a DEF NameSettled
      <4>5. LatestName(u, names[u])'
        BY <4>1, <4>2, <4>4, <3>1 DEF LatestName
      <4>6. ~ Renaming(w, u)'
        <5>1. CASE x.display_name = NoName
          <6>1. req'[w] = Idle
            BY <1>1, <2>3, <3>3, <5>1, <1>a DEF InsertBooking, Check, Reply, TypeOK
          <6> QED
            BY <6>1, <1>c DEF Renaming
        <5>2. CASE x.display_name # NoName
          <6>1. req'[w] = [req[w] EXCEPT !.pc = "GetUserByID"]
            BY <1>1, <2>3, <3>3, <5>2, <1>a DEF InsertBooking, Check, TypeOK
          <6>2. [req[w] EXCEPT !.pc = "GetUserByID"].user_id = req[w].user_id
            BY <2>1 DEF BookingReq
          <6> QED
            BY <6>1, <6>2, <3>3, <3>5, <5>2 DEF Renaming
        <5> QED
          BY <5>1, <5>2
      <4> QED
        BY <4>5, <4>6, <1>a DEF NameSettled
    <3> QED
      BY <3>4, <3>5
  <2> QED
    BY <2>2, <2>3
<1>2. ASSUME NEW w \in Workers, GetUserByID(w) PROVE NameSettled(u)'
  <2>1. req[w] \in BookingReq /\ UNCHANGED <<bookings, names>> /\ req[w].pc = "GetUserByID"
    BY <1>2, <1>a, RequestKinds DEF GetUserByID, TypeOK, BookingPC
  <2> DEFINE r == [req[w] EXCEPT !.pc = "UpdateUserName"]
  <2>2. /\ r.pc = "UpdateUserName" /\ r.user_id = req[w].user_id
        /\ r.display_name = req[w].display_name
    BY <2>1 DEF BookingReq
  <2>3. req'[w] = IF NeedsRename(req[w]) THEN r ELSE Idle
    BY <1>2, <1>a DEF GetUserByID, Check, Reply, TypeOK
  <2>4. CASE req[w].user_id # u
    <3>1. ~ Renaming(w, u) /\ ~ Renaming(w, u)'
      BY <2>2, <2>3, <2>4, <1>c DEF Renaming
    <3> QED
      BY <3>1, <2>1, <1>a, NoRename
  <2>5. CASE req[w].user_id = u
    <3>1. LatestName(u, req[w].display_name)
      BY <2>1, <2>5, <1>a DEF NameSettled, Renaming
    <3>2. CASE NeedsRename(req[w])
      <4>1. LatestName(u, req[w].display_name)'
        BY <2>1, <2>2, <2>3, <3>1, <3>2 DEF LatestName, NamedBookings
      <4>2. Renaming(w, u)'
        BY <2>2, <2>3, <2>5, <3>2 DEF Renaming
      <4> QED
        BY <4>1, <4>2, <1>a DEF NameSettled
    <3>3. CASE ~ NeedsRename(req[w])
      <4>1. names[u] = req[w].display_name
        BY <2>5, <3>3 DEF NeedsRename
      <4>2. LatestName(u, names[u])'
        BY <2>1, <3>1, <4>1 DEF LatestName, NamedBookings
      <4>3. ~ Renaming(w, u)'
        BY <2>3, <3>3, <1>c DEF Renaming
      <4> QED
        BY <4>2, <4>3, <1>a DEF NameSettled
    <3> QED
      BY <3>2, <3>3
  <2> QED
    BY <2>4, <2>5
<1>3. ASSUME NEW w \in Workers, UpdateUserName(w) PROVE NameSettled(u)'
  <2>1. /\ req[w].pc = "UpdateUserName" /\ bookings' = bookings
        /\ names' = [names EXCEPT ![req[w].user_id] = req[w].display_name]
        /\ req'[w] = Idle
    BY <1>3, <1>a DEF UpdateUserName, Reply, TypeOK
  <2>2. ~ Renaming(w, u)'
    BY <2>1, <1>c DEF Renaming
  <2>3. CASE req[w].user_id # u
    <3>1. ~ Renaming(w, u) /\ names'[u] = names[u]
      BY <2>1, <2>3, <1>a DEF Renaming, TypeOK
    <3> QED
      BY <3>1, <2>1, <2>2, <1>a, NoRename
  <2>4. CASE req[w].user_id = u
    <3>1. LatestName(u, req[w].display_name)
      BY <2>1, <2>4, <1>a DEF NameSettled, Renaming
    <3>2. names'[u] = req[w].display_name
      BY <2>1, <2>4, <1>a DEF TypeOK
    <3>3. LatestName(u, names[u])'
      BY <2>1, <3>1, <3>2 DEF LatestName, NamedBookings
    <3> QED
      BY <2>2, <3>3, <1>a DEF NameSettled
  <2> QED
    BY <2>3, <2>4
<1>4. ASSUME NEW w \in Workers, UpdateBookingStatus(w) PROVE NameSettled(u)'
  <2>1. req'[w] = Idle /\ names' = names /\ req[w].pc = "UpdateBookingStatus"
    BY <1>4, <1>a DEF UpdateBookingStatus, Reply, TypeOK
  <2>2. ~ Renaming(w, u) /\ ~ Renaming(w, u)'
    BY <2>1, <1>c DEF Renaming
  <2>3. \/ bookings' = bookings
        \/ bookings' = [bookings EXCEPT ![req[w].id].status = req[w].status]
    BY <1>4 DEF UpdateBookingStatus
  <2>4. DOMAIN bookings' = DOMAIN bookings
    BY <2>3
  <2>5. \A i \in DOMAIN bookings : /\ bookings'[i].user_id = bookings[i].user_id
                                   /\ bookings'[i].display_name = bookings[i].display_name
    <3> SUFFICES ASSUME NEW i \in DOMAIN bookings
                 PROVE  /\ bookings'[i].user_id = bookings[i].user_id
                        /\ bookings'[i].display_name = bookings[i].display_name
      OBVIOUS
    <3>1. bookings[i] \in Booking
      BY <1>a, RowTypes
    <3>2. bookings'[i] = bookings[i] \/ bookings'[i] = [bookings[i] EXCEPT !.status = req[w].status]
      BY <2>3, <1>a DEF TypeOK
    <3> QED
      BY <3>1, <3>2 DEF Booking
  <2> QED
    BY <2>1, <2>2, <2>4, <2>5, <1>a, NoRename
<1>5. ASSUME NEW w \in Workers, NEW ok, NEW next, Check(w, ok, next),
             req[w].pc \in BookingPC \ {"GetUserByID", "UpdateUserName"},
             next \notin {"GetUserByID", "UpdateUserName"}, UNCHANGED <<bookings, names>>
      PROVE  NameSettled(u)'
  <2>1. req[w] \in BookingReq
    BY <1>5, <1>a, RequestKinds DEF TypeOK
  <2>2. [req[w] EXCEPT !.pc = next].pc = next
    BY <2>1 DEF BookingReq
  <2>3. req'[w] = [req[w] EXCEPT !.pc = next] \/ req'[w] = Idle
    BY <1>5, <1>a DEF Check, Reply, TypeOK
  <2> QED
    BY <2>2, <2>3, <1>5, <1>b, <1>c
<1>6. ASSUME NEW w \in Workers, GetSettings(w) PROVE NameSettled(u)'
  <2>1. req[w] \in BookingReq
    BY <1>6, <1>a, RequestKinds DEF GetSettings, TypeOK, BookingPC
  <2>2. [[req[w] EXCEPT !.pc = "CountActive"] EXCEPT !.limit = limit].pc = "CountActive"
    BY <2>1 DEF BookingReq
  <2>3. req'[w] = [[req[w] EXCEPT !.pc = "CountActive"] EXCEPT !.limit = limit]
    BY <1>6, <1>a DEF GetSettings, TypeOK
  <2> QED
    BY <2>2, <2>3, <1>6, <1>b DEF GetSettings
<1>7. ASSUME NEW w \in Workers, NEW r, req' = [req EXCEPT ![w] = r], UNCHANGED <<bookings, names>>,
             req[w].pc \in {"idle", "DeleteSeat"},
             r.pc \notin {"GetUserByID", "UpdateUserName"}
      PROVE  NameSettled(u)'
  BY <1>7, <1>a, <1>b DEF TypeOK
<1>8. ASSUME NEW w \in Workers, req[w] = Idle, UNCHANGED <<bookings, names, req>>
      PROVE  NameSettled(u)'
  BY <1>8, <1>b, <1>c
<1>9. ASSUME NEW w \in Workers, Handle(w) PROVE NameSettled(u)'
  <2>1. GetSeatByID(w) \/ CountActiveBookingsByUser(w) \/ SeatHasConflict(w) => NameSettled(u)'
    BY <1>5 DEF GetSeatByID, CountActiveBookingsByUser, SeatHasConflict, BookingPC
  <2>2. CreateBooking(w) => NameSettled(u)'
    BY <1>7, <1>c DEF CreateBooking
  <2>3. CancelBooking(w) \/ AdminUpdateBookingStatus(w) \/ DeleteSeat(w) => NameSettled(u)'
    BY <1>7, <1>c DEF CancelBooking, AdminUpdateBookingStatus, DeleteSeat
  <2>4. DeleteSeatRow(w) => NameSettled(u)'
    BY <1>7, <1>c DEF DeleteSeatRow, Reply
  <2>5. UpdateSeat(w) \/ DeleteCoworking(w) \/ UpdateBookingLimit(w) => NameSettled(u)'
    BY <1>8 DEF UpdateSeat, DeleteCoworking, UpdateBookingLimit
  <2>6. ~ Abort(w)
    BY DEF Abort
  <2> QED
    BY <2>1, <2>2, <2>3, <2>4, <2>5, <2>6, <1>1, <1>2, <1>3, <1>4, <1>6, <1>9 DEF Handle
<1>10. CASE UNCHANGED <<bookings, names, req>>
  BY <1>10, <1>a DEF NameSettled, LatestName, NamedBookings, Renaming
<1> QED
  BY <1>9, <1>10 DEF Next, Tick, vars

(* One handler at a time, and no request dying between its statements: a   *)
(* device user is called what the latest booking made under a name says.   *)
THEOREM NameTracksLatestBooking ==
  ASSUME OneHandler, ~ Faults PROVE Spec => []NameTracksLatest
<1>1. IInv /\ NamesInv /\ [Next]_vars => NamesInv'
  BY NamesNext
<1>2. NamesInv => NameTracksLatest
  <2> SUFFICES ASSUME NamesInv, \A w \in Workers : req[w] = Idle, NEW u \in DeviceUsers,
                      NEW i \in NamedBookings(u), \A j \in NamedBookings(u) : j <= i
               PROVE  names[u] = bookings[i].display_name
    BY DEF NameTracksLatest
  <2>1. \A w \in Workers : ~ Renaming(w, u)
    BY DEF Renaming, Idle
  <2> QED
    BY <2>1 DEF NamesInv, NameSettled, LatestName
<1> QED
  BY <1>1, <1>2, NamesInit, Invariance, PTL DEF Spec
-----------------------------------------------------------------------------
(* The views of the free seats.  A view reads the seats in one statement   *)
(* and the conflicts of each active seat in one more, while handlers and   *)
(* administrators go on; every state it has lived through is recorded in   *)
(* could and couldnt.                                                      *)

(* The windows that are booked, and those of the requests.                 *)
WindowsOK ==
  /\ \A i \in DOMAIN bookings : ValidInterval(bookings[i])
  /\ \A w \in Workers : req[w].pc \in BookingPC => ValidInterval(req[w])

(* No window that is booked or asked for is empty, or runs backwards.      *)
LEMMA WindowsNext == TypeOK /\ WindowsOK /\ [Next]_vars => WindowsOK'
<1> SUFFICES ASSUME TypeOK, WindowsOK, [Next]_vars PROVE WindowsOK'
  OBVIOUS
<1>1. ASSUME NEW v \in Workers, req'[v].pc \in BookingPC PROVE ValidInterval(req'[v])
  <2>1. CASE CreateBooking(v)
    BY <2>1 DEF CreateBooking, TypeOK, ValidInterval
  <2>2. CASE ~ CreateBooking(v)
    BY <1>1, <2>2, RequestIsCarried DEF WindowsOK, ValidInterval
  <2> QED
    BY <2>1, <2>2
<1>2. ASSUME NEW i \in DOMAIN bookings' PROVE ValidInterval(bookings'[i])
  <2>1. ASSUME NEW w \in Workers, InsertBooking(w) PROVE ValidInterval(bookings'[i])
    <3>1. ValidInterval(NewRow(req[w]))
      BY <2>1 DEF InsertBooking, WindowsOK, BookingPC, NewRow, ValidInterval
    <3>2. bookings' = bookings \/ bookings' = Append(bookings, NewRow(req[w]))
      BY <2>1 DEF InsertBooking
    <3> QED
      BY <1>2, <3>1, <3>2 DEF WindowsOK, TypeOK
  <2>2. ASSUME NEW w \in Workers, UpdateBookingStatus(w) PROVE ValidInterval(bookings'[i])
    <3>1. \/ bookings' = bookings
          \/ bookings' = [bookings EXCEPT ![req[w].id].status = req[w].status]
      BY <2>2 DEF UpdateBookingStatus
    <3>2. i \in DOMAIN bookings
      BY <1>2, <3>1
    <3>3. bookings[i] \in Booking /\ ValidInterval(bookings[i])
      BY <3>2, RowTypes DEF WindowsOK
    <3>4. bookings'[i] = bookings[i] \/ bookings'[i] = [bookings[i] EXCEPT !.status = req[w].status]
      BY <3>1, <3>2 DEF TypeOK
    <3> QED
      BY <3>3, <3>4 DEF Booking, ValidInterval
  <2>3. CASE UNCHANGED bookings
    BY <1>2, <2>3 DEF WindowsOK
  <2> QED
    BY <2>1, <2>2, <2>3
       DEF Next, Handle, vars, CreateBooking, GetSeatByID, GetSettings, CountActiveBookingsByUser,
           SeatHasConflict, GetUserByID, UpdateUserName, CancelBooking, AdminUpdateBookingStatus,
           UpdateSeat, DeleteSeat, DeleteSeatRow, DeleteCoworking, UpdateBookingLimit, Abort, Tick
<1> QED
  BY <1>1, <1>2 DEF WindowsOK, ValidInterval
-----------------------------------------------------------------------------
(* The view still follows what happens to the seats.                       *)
Looking == view.pc \in {"GetCoworkingByID", "ListSeats", "SeatHasConflict"}

ViewTyped == view = NoView \/ (view \in Views /\ ValidInterval(view))

(* The present state is among those recorded.                              *)
PresentRecorded ==
  Looking => \A s \in Seats : IF Open(s, view) THEN s \in view.could ELSE s \in view.couldnt

(* The seats read are sorted one after the other.                          *)
SeatsSorted ==
  view \in Views =>
    /\ view.rows \cap view.free = {} /\ view.rows \cap view.busy = {}
    /\ view.free \cap view.busy = {}
    /\ view.pc \in {"GetCoworkingByID", "ListSeats"} =>
         view.rows = {} /\ view.free = {} /\ view.busy = {}
    /\ view.pc = "answered" => view.rows = {}

(* The seats that are still to be sorted were active when they were read.  *)
RowsActive == Looking /\ ~ view.edited => \A s \in view.rows : seats[s] = "active"

ShownWithReason ==
  view \in Views =>
    view.busy \subseteq view.couldnt /\ (~ view.edited => view.free \subseteq view.could)

ViewInv ==
  ViewTyped /\ PresentRecorded /\ SeatsSorted /\ RowsActive /\ ShownWithReason

(* Open looks at the window only.                                          *)
LEMMA SameWindow ==
  ASSUME NEW s, NEW x, NEW y, x.start_at = y.start_at, x.end_at = y.end_at
  PROVE  Open(s, x) <=> Open(s, y)
BY DEF Open, Covers

(* Two windows overlap when and only when they have an instant in common.  *)
LEMMA CommonInstant ==
  ASSUME NEW x, x.start_at \in Time, x.end_at \in Time, ValidInterval(x),
         NEW y, y.start_at \in Time, y.end_at \in Time, ValidInterval(y)
  PROVE  Overlaps(x, y) <=> \E t \in Time : Covers(x, t) /\ Covers(y, t)
<1>1. /\ x.start_at \in Int /\ x.end_at \in Int /\ x.start_at < x.end_at
      /\ y.start_at \in Int /\ y.end_at \in Int /\ y.start_at < y.end_at
      /\ Time \subseteq Int
  BY BoundsAssumption DEF Time, ValidInterval
<1>2. ASSUME Overlaps(x, y) PROVE \E t \in Time : Covers(x, t) /\ Covers(y, t)
  <2>1. CASE x.start_at <= y.start_at
    <3>1. Covers(x, y.start_at) /\ Covers(y, y.start_at)
      BY <1>1, <1>2, <2>1 DEF Overlaps, Covers
    <3> QED
      BY <3>1
  <2>2. CASE y.start_at <= x.start_at
    <3>1. Covers(x, x.start_at) /\ Covers(y, x.start_at)
      BY <1>1, <1>2, <2>2 DEF Overlaps, Covers
    <3> QED
      BY <3>1
  <2> QED
    BY <1>1, <2>1, <2>2
<1>3. ASSUME NEW t \in Time, Covers(x, t), Covers(y, t) PROVE Overlaps(x, y)
  <2>1. t \in Int
    BY <1>1
  <2> QED
    BY <1>1, <1>3, <2>1 DEF Overlaps, Covers
<1> QED
  BY <1>2, <1>3

(* So the SQL of SeatHasConflict decides whether an active seat is open.   *)
LEMMA ConflictDecides ==
  ASSUME TypeOK, WindowsOK, ViewTyped, view \in Views, NEW s \in Seats, seats[s] = "active"
  PROVE  Open(s, view) <=> ~ Conflict(s, view)
<1> DEFINE x == [seat_id |-> s, start_at |-> view.start_at, end_at |-> view.end_at]
<1>1. view.start_at \in Time /\ view.end_at \in Time /\ view.start_at < view.end_at
  <2>1. view # NoView
    BY DEF Views, NoView
  <2> QED
    BY <2>1 DEF ViewTyped, Views, ValidInterval
<1>2. ASSUME NEW i \in DOMAIN bookings
      PROVE  Overlaps(bookings[i], x)
               <=> \E t \in Time : Covers(bookings[i], t) /\ Covers(view, t)
  <2>1. /\ bookings[i].start_at \in Time /\ bookings[i].end_at \in Time
        /\ ValidInterval(bookings[i])
    BY RowTypes DEF Booking, WindowsOK
  <2>2. x.start_at = view.start_at /\ x.end_at = view.end_at
    OBVIOUS
  <2>3. Overlaps(bookings[i], view)
          <=> \E t \in Time : Covers(bookings[i], t) /\ Covers(view, t)
    BY <1>1, <2>1, CommonInstant DEF ValidInterval
  <2> QED
    BY <2>2, <2>3 DEF Overlaps
<1>3. Conflict(s, view) <=>
        \E i \in DOMAIN bookings : bookings[i].seat_id = s /\ Confirmed(i) /\ Overlaps(bookings[i], x)
  BY DEF Conflict, ConflictsWith
<1> QED
  BY <1>2, <1>3 DEF Open

(* A view that has been answered, or that nobody asked for.                *)
LEMMA NoViewSound ==
  ASSUME view' = NoView
  PROVE  ViewInv'
<1>1. NoView.pc = "idle" /\ NoView \notin Views
  BY DEF NoView, Views
<1> QED
  BY <1>1 DEF ViewInv, ViewTyped, PresentRecorded, SeatsSorted, RowsActive, ShownWithReason, Looking

LEMMA ViewBegins ==
  ASSUME NEW pc \in {"GetCoworkingByID", "ListSeats"}, NEW c \in {0} \cup Coworkings, Begin(pc, c)
  PROVE  ViewInv'
<1>1. PICK from \in Time, to \in Time :
        LET v == [pc |-> pc, coworking_id |-> c, start_at |-> from, end_at |-> to,
                  rows |-> {}, free |-> {}, busy |-> {}, could |-> {}, couldnt |-> {},
                  edited |-> FALSE]
        IN ValidInterval(v) /\ view' = Witnessed(v)
  BY DEF Begin
<1> DEFINE v == [pc |-> pc, coworking_id |-> c, start_at |-> from, end_at |-> to,
                 rows |-> {}, free |-> {}, busy |-> {}, could |-> {}, couldnt |-> {},
                 edited |-> FALSE]
           yes == {s \in Seats : Open(s, v)}
           no == {s \in Seats : ~ Open(s, v)}
<1>2. view' = [pc |-> pc, coworking_id |-> c, start_at |-> from, end_at |-> to,
               rows |-> {}, free |-> {}, busy |-> {}, could |-> yes, couldnt |-> no,
               edited |-> FALSE]
  BY <1>1 DEF Witnessed
<1>3. from < to
  BY <1>1 DEF ValidInterval
<1>4. UNCHANGED <<bookings, seats>>
  BY DEF Begin, vars
<1> HIDE DEF yes, no
<1>5. view' \in Views /\ ValidInterval(view')
  BY <1>2, <1>3 DEF Views, ValidInterval, yes, no
<1>6. \A s \in Seats : Open(s, view)' <=> Open(s, v)
  BY <1>2, <1>4 DEF Open, Covers, Confirmed
<1>7. PresentRecorded'
  BY <1>2, <1>6 DEF PresentRecorded, yes, no
<1> QED
  BY <1>2, <1>5, <1>7 DEF ViewInv, ViewTyped, SeatsSorted, RowsActive, ShownWithReason, Looking

(* A statement of the view itself: the seats and the bookings stay, and so *)
(* does the window.                                                        *)
LEMMA PresentStays ==
  ASSUME PresentRecorded, Looking, UNCHANGED vars, view'.start_at = view.start_at,
         view'.end_at = view.end_at, view'.could = view.could, view'.couldnt = view.couldnt
  PROVE  PresentRecorded'
<1>1. \A s \in Seats : Open(s, view)' <=> Open(s, view)
  BY DEF vars, Open, Covers, Confirmed
<1> QED
  BY <1>1 DEF PresentRecorded

LEMMA ViewStatement ==
  ASSUME TypeOK, WindowsOK, ViewInv,
         GetCoworkingByID \/ ListSeats \/ SeatHasConflictForView \/ Answer
  PROVE  ViewInv'
<1>a. /\ view \in Views /\ ValidInterval(view) /\ Looking /\ UNCHANGED vars
      /\ ViewTyped /\ PresentRecorded /\ SeatsSorted /\ RowsActive /\ ShownWithReason
  <2>1. Looking /\ UNCHANGED vars
    BY DEF GetCoworkingByID, ListSeats, SeatHasConflictForView, Answer, Looking
  <2>2. view # NoView
    BY <2>1 DEF Looking, NoView
  <2> QED
    BY <2>1, <2>2 DEF ViewInv, ViewTyped
<1>b. \A s \in Seats : Open(s, view) => seats[s] = "active" /\ s \in view.could
  BY <1>a DEF PresentRecorded, Open
<1>c. \A s \in Seats : ~ Open(s, view) => s \in view.couldnt
  BY <1>a DEF PresentRecorded
<1>1. ASSUME GetCoworkingByID PROVE ViewInv'
  <2>1. CASE view' = NoView
    BY <2>1, NoViewSound
  <2>2. CASE view' = [view EXCEPT !.pc = "ListSeats"]
    <3>1. /\ view' \in Views /\ view'.pc = "ListSeats" /\ view.pc = "GetCoworkingByID"
          /\ view'.start_at = view.start_at /\ view'.end_at = view.end_at
          /\ view'.rows = view.rows /\ view'.free = view.free /\ view'.busy = view.busy
          /\ view'.could = view.could /\ view'.couldnt = view.couldnt
          /\ view'.edited = view.edited
      BY <1>1, <1>a, <2>2 DEF Views, GetCoworkingByID
    <3>2. PresentRecorded'
      BY <3>1, <1>a, PresentStays
    <3> QED
      BY <3>1, <3>2, <1>a DEF ViewInv, ViewTyped, ValidInterval, SeatsSorted, RowsActive,
         ShownWithReason, Looking, vars
  <2> QED
    BY <1>1, <2>1, <2>2 DEF GetCoworkingByID
<1>2. ASSUME ListSeats PROVE ViewInv'
  <2>1. PICK rows \in SUBSET Seats :
          view' = [view EXCEPT !.pc = "SeatHasConflict",
                               !.rows = Unsettled(rows), !.busy = {s \in rows : ~ Active(s)}]
    BY <1>2 DEF ListSeats
  <2>2. Unsettled(rows) \subseteq Seats
    BY DEF Unsettled
  <2>3. /\ view' \in Views /\ view'.pc = "SeatHasConflict" /\ view.pc = "ListSeats"
        /\ view'.start_at = view.start_at /\ view'.end_at = view.end_at
        /\ view'.rows = Unsettled(rows) /\ view'.free = view.free
        /\ view'.busy = {s \in rows : ~ Active(s)}
        /\ view'.could = view.could /\ view'.couldnt = view.couldnt
        /\ view'.edited = view.edited
    BY <1>2, <1>a, <2>1, <2>2 DEF Views, ListSeats
  <2>4. PresentRecorded'
    BY <2>3, <1>a, PresentStays
  <2>5. view.free = {}
    BY <2>3, <1>a DEF SeatsSorted
  <2>6. SeatsSorted' /\ RowsActive'
    BY <2>3, <2>5, <1>a DEF SeatsSorted, RowsActive, Unsettled, Active, vars
  <2>7. view'.busy \subseteq view.couldnt
    BY <2>3, <1>b, <1>c DEF Active
  <2> QED
    BY <2>3, <2>4, <2>5, <2>6, <2>7, <1>a DEF ViewInv, ViewTyped, ValidInterval, ShownWithReason
<1>3. ASSUME SeatHasConflictForView PROVE ViewInv'
  <2>1. PICK s \in view.rows :
          view' = IF Conflict(s, view)
                  THEN [view EXCEPT !.rows = @ \ {s}, !.busy = @ \cup {s}]
                  ELSE [view EXCEPT !.rows = @ \ {s}, !.free = @ \cup {s}]
    BY <1>3 DEF SeatHasConflictForView
  <2>2. s \in Seats
    BY <2>1, <1>a DEF Views
  <2>3. /\ view' \in Views /\ view'.pc = view.pc
        /\ view'.start_at = view.start_at /\ view'.end_at = view.end_at
        /\ view'.rows = view.rows \ {s}
        /\ view'.free = IF Conflict(s, view) THEN view.free ELSE view.free \cup {s}
        /\ view'.busy = IF Conflict(s, view) THEN view.busy \cup {s} ELSE view.busy
        /\ view'.could = view.could /\ view'.couldnt = view.couldnt
        /\ view'.edited = view.edited
    <3>1. CASE Conflict(s, view)
      BY <3>1, <2>1, <2>2, <1>a DEF Views
    <3>2. CASE ~ Conflict(s, view)
      BY <3>2, <2>1, <2>2, <1>a DEF Views
    <3> QED
      BY <3>1, <3>2
  <2>4. view.pc = "SeatHasConflict"
    BY <1>3 DEF SeatHasConflictForView
  <2>5. PresentRecorded'
    BY <2>3, <1>a, PresentStays
  <2>6. SeatsSorted'
    BY <2>1, <2>3, <2>4, <1>a DEF SeatsSorted
  <2>7. RowsActive'
    BY <2>3, <1>a DEF RowsActive, Looking, vars
  <2>8. ShownWithReason'
    <3>1. Conflict(s, view) => s \in view.couldnt
      <4>1. CASE seats[s] = "active"
        BY <4>1, <2>2, <1>a, <1>c, ConflictDecides
      <4>2. CASE seats[s] # "active"
        BY <4>2, <2>2, <1>b, <1>c
      <4> QED
        BY <4>1, <4>2
    <3>2. ~ view.edited /\ ~ Conflict(s, view) => s \in view.could
      <4> SUFFICES ASSUME ~ view.edited, ~ Conflict(s, view) PROVE s \in view.could
        OBVIOUS
      <4>1. seats[s] = "active"
        BY <2>1, <1>a DEF RowsActive
      <4> QED
        BY <4>1, <2>2, <1>a, <1>b, ConflictDecides
    <3> QED
      BY <3>1, <3>2, <2>3, <1>a DEF ShownWithReason
  <2> QED
    BY <2>3, <2>5, <2>6, <2>7, <2>8, <1>a DEF ViewInv, ViewTyped, ValidInterval
<1>4. ASSUME Answer PROVE ViewInv'
  <2>1. /\ view' \in Views /\ view'.pc = "answered"
        /\ view'.start_at = view.start_at /\ view'.end_at = view.end_at
        /\ view'.rows = view.rows /\ view'.free = view.free /\ view'.busy = view.busy
        /\ view'.could = view.could /\ view'.couldnt = view.couldnt
        /\ view'.edited = view.edited /\ view.rows = {}
    BY <1>4, <1>a DEF Views, Answer
  <2> QED
    BY <2>1, <1>a DEF ViewInv, ViewTyped, ValidInterval, PresentRecorded, SeatsSorted, RowsActive,
       ShownWithReason, Looking
<1> QED
  BY <1>1, <1>2, <1>3, <1>4

(* The other handlers go on: the state they leave is recorded, and so is a *)
(* change of the seats.                                                    *)
LEMMA ViewOthers ==
  ASSUME ViewInv, Others
  PROVE  ViewInv'
<1>1. CASE view.pc \in {"idle", "answered"}
  <2>1. view' = view
    BY <1>1 DEF Others
  <2> QED
    BY <1>1, <2>1 DEF ViewInv, ViewTyped, PresentRecorded, SeatsSorted, RowsActive,
       ShownWithReason, Looking
<1>2. CASE view.pc \notin {"idle", "answered"}
  <2>1. PICK v : /\ v = view
                 /\ view' = [Witnessed(v)' EXCEPT !.edited = @ \/ seats' # seats]
    BY <1>2 DEF Others
  <2>2. v \in Views /\ ValidInterval(v) /\ Looking
    <3>1. NoView.pc = "idle"
      BY DEF NoView
    <3>2. v \in Views /\ ValidInterval(v)
      BY <1>2, <2>1, <3>1 DEF ViewInv, ViewTyped
    <3> QED
      BY <1>2, <2>1, <3>2 DEF Views, Looking
  <2> DEFINE yes == {s \in Seats : Open(s, v)'}
             no == {s \in Seats : ~ Open(s, v)'}
             touched == v.edited \/ seats' # seats
  <2>3. view' = [[[v EXCEPT !.could = v.could \cup yes]
                     EXCEPT !.couldnt = v.couldnt \cup no] EXCEPT !.edited = touched]
    BY <2>1, <2>2 DEF Witnessed, Views
  <2>4. yes \subseteq Seats /\ no \subseteq Seats /\ touched \in BOOLEAN
    BY <2>2 DEF Views
  <2> HIDE DEF yes, no, touched
  <2>5. /\ view' \in Views /\ view'.pc = v.pc
        /\ view'.start_at = v.start_at /\ view'.end_at = v.end_at
        /\ view'.rows = v.rows /\ view'.free = v.free /\ view'.busy = v.busy
        /\ view'.could = v.could \cup yes /\ view'.couldnt = v.couldnt \cup no
        /\ view'.edited = touched
    BY <2>2, <2>3, <2>4 DEF Views
  <2>6. ViewTyped'
    BY <2>2, <2>5 DEF ViewTyped, ValidInterval
  <2>7. \A s \in Seats : Open(s, view)' <=> Open(s, v)'
    BY <2>5 DEF Open, Covers, Confirmed
  <2>8. PresentRecorded'
    BY <2>5, <2>7 DEF PresentRecorded, yes, no
  <2>9. SeatsSorted'
    BY <2>1, <2>2, <2>5 DEF ViewInv, SeatsSorted
  <2>10. RowsActive'
    BY <2>1, <2>2, <2>5 DEF ViewInv, RowsActive, touched
  <2>11. ShownWithReason'
    BY <2>1, <2>2, <2>5 DEF ViewInv, ShownWithReason, touched
  <2> QED
    BY <2>6, <2>8, <2>9, <2>10, <2>11 DEF ViewInv
<1> QED
  BY <1>1, <1>2

ViewIInv == TypeOK /\ WindowsOK /\ ViewInv

LEMMA ViewInvariance == ViewSpec => []ViewIInv
<1>1. Init /\ view = NoView => IInv /\ WindowsOK /\ ViewInv
  <2> SUFFICES ASSUME Init, view = NoView PROVE IInv /\ WindowsOK /\ ViewInv
    OBVIOUS
  <2>1. IInv
    BY RowsInit, SchemaInit DEF IInv
  <2>2. WindowsOK
    BY DEF Init, WindowsOK, Idle, BookingPC
  <2>3. NoView.pc = "idle" /\ NoView \notin Views
    BY DEF NoView, Views
  <2>4. ViewInv
    BY <2>3 DEF ViewInv, ViewTyped, PresentRecorded, SeatsSorted, RowsActive, ShownWithReason,
       Looking
  <2> QED
    BY <2>1, <2>2, <2>4
<1>2. IInv /\ WindowsOK /\ ViewInv /\ [ViewNext]_viewVars => (IInv /\ WindowsOK /\ ViewInv)'
  <2> SUFFICES ASSUME IInv, WindowsOK, ViewInv, [ViewNext]_viewVars
               PROVE  IInv' /\ WindowsOK' /\ ViewInv'
    OBVIOUS
  <2>1. [Next]_vars
    BY DEF ViewNext, ListSeatsForMap, ListAvailableSeats, Begin, GetCoworkingByID, ListSeats,
       SeatHasConflictForView, Answer, Leave, Others, viewVars
  <2>2. TypeOK
    BY DEF IInv, RowsInv
  <2>3. IInv' /\ WindowsOK'
    BY <2>1, <2>2, RowsNext, SchemaNext, WindowsNext DEF IInv
  <2>4. ListSeatsForMap \/ ListAvailableSeats => ViewInv'
    BY ViewBegins DEF ListSeatsForMap, ListAvailableSeats
  <2>5. GetCoworkingByID \/ ListSeats \/ SeatHasConflictForView \/ Answer => ViewInv'
    BY <2>2, ViewStatement
  <2>6. Leave => ViewInv'
    BY NoViewSound DEF Leave
  <2>7. Others => ViewInv'
    BY ViewOthers
  <2>8. UNCHANGED viewVars => ViewInv'
    <3> SUFFICES ASSUME UNCHANGED viewVars PROVE ViewInv'
      OBVIOUS
    <3>1. UNCHANGED <<bookings, seats, view>>
      BY DEF viewVars, vars
    <3>2. PresentRecorded'
      BY <3>1 DEF ViewInv, PresentRecorded, Looking, Open, Confirmed
    <3> QED
      BY <3>1, <3>2 DEF ViewInv, ViewTyped, SeatsSorted, RowsActive, ShownWithReason, Looking
  <2> QED
    BY <2>3, <2>4, <2>5, <2>6, <2>7, <2>8 DEF ViewNext
<1>3. IInv => TypeOK
  BY DEF IInv, RowsInv
<1> QED
  BY <1>1, <1>2, <1>3, PTL DEF ViewSpec, ViewIInv

(* A view that has answered has looked at all the rows it has read, and    *)
(* shows no seat both free and busy.                                       *)
THEOREM ViewTypeCorrect == ViewSpec => []ViewTypeOK
<1>1. ViewIInv => ViewTypeOK
  <2> SUFFICES ASSUME ViewIInv PROVE ViewTypeOK
    OBVIOUS
  <2>1. NoView.pc = "idle"
    BY DEF NoView
  <2> QED
    BY <2>1 DEF ViewIInv, ViewInv, ViewTyped, SeatsSorted, ViewTypeOK
<1> QED
  BY <1>1, ViewInvariance, PTL

(* A seat that a view shows busy could not have been booked at some        *)
(* instant of the call, for any number of handlers and either store.       *)
THEOREM BusySeatsWereBusy == ViewSpec => []BusyWasBusy
<1>1. ViewIInv => BusyWasBusy
  <2> SUFFICES ASSUME ViewIInv, view.pc = "answered" PROVE view.busy \subseteq view.couldnt
    BY DEF BusyWasBusy
  <2>1. view \in Views
    BY DEF ViewIInv, ViewInv, ViewTyped, NoView
  <2> QED
    BY <2>1 DEF ViewIInv, ViewInv, ShownWithReason
<1> QED
  BY <1>1, ViewInvariance, PTL

(* Unless a seat has been edited meanwhile, a seat that a view shows free  *)
(* could have been booked for that window at some instant of the call.     *)
THEOREM FreeSeatsWereFree == ViewSpec => []FreeWasFree
<1>1. ViewIInv => FreeWasFree
  <2> SUFFICES ASSUME ViewIInv, view.pc = "answered", ~ view.edited
               PROVE  view.free \subseteq view.could
    BY DEF FreeWasFree
  <2>1. view \in Views
    BY DEF ViewIInv, ViewInv, ViewTyped, NoView
  <2> QED
    BY <2>1 DEF ViewIInv, ViewInv, ShownWithReason
<1> QED
  BY <1>1, ViewInvariance, PTL
=============================================================================
