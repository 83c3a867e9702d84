--------------------------- MODULE BookingService ---------------------------
(***************************************************************************)
(* The booking core of backend/internal/app/service.go over the store      *)
(* behind the Repository interface.  Each HTTP request is served by its    *)
(* own goroutine and no handler opens a transaction, so a handler is a     *)
(* sequence of autocommitted statements: one action here per statement,    *)
(* with everything the handler keeps between two of them in req[w].        *)
(* A handler that answers (with success or an error) leaves its worker     *)
(* idle.                                                                   *)
(***************************************************************************)
EXTENDS Integers, Sequences, FiniteSets, Intervals

CONSTANTS
  Users,         \* users.id of the users that exist
  DeviceUsers,   \* those with a device_id (anonymous students)
  Seats,         \* seats.id of the seats created so far
  Coworkings,    \* coworkings.id
  CoworkingOf,   \* the coworking_id of each seat
  Workers,       \* handler goroutines that may run at once
  Names,         \* display names a student types
  NoName,        \* the empty display_name
  StudentName,   \* the name a user has before the first named booking
  LeadTime,      \* cancelLeadTime
  MaxLimit,      \* upper end of the booking_limit the admin may set (100)
  Store,         \* the Repository: "postgres" or "fake" (apptest.FakeRepo)
  Faults,        \* may a request die between two statements?
  Horizon,       \* bound: the last instant of the model
  MaxBookings    \* bound: bookings created in a behaviour

ASSUME UsersAssumption == DeviceUsers \subseteq Users
ASSUME CoworkingAssumption == CoworkingOf \in [Seats -> Coworkings]
ASSUME WorkersAssumption == IsFiniteSet(Workers)
ASSUME NameAssumption == NoName \notin Names
ASSUME LimitAssumption == MaxLimit \in Nat \ {0}
ASSUME LeadAssumption == LeadTime \in Nat
ASSUME StoreAssumption == Store \in {"postgres", "fake"}
ASSUME BoundsAssumption == Horizon \in Nat /\ MaxBookings \in Nat

VARIABLES
  now,        \* what s.now() returns
  bookings,   \* the bookings table: bookings[i] is the row with id i
  seats,      \* what the seats table says of each seat
  limit,      \* settings.booking_limit
  names,      \* users.name
  req         \* the request each worker is serving

vars == <<now, bookings, seats, limit, names, req>>

-----------------------------------------------------------------------------
Time == 0 .. Horizon
Status == {"confirmed", "canceled", "completed"}
SeatState == {"active", "inactive", "deleted"}
Booking == [user_id : Users, seat_id : Seats, start_at : Time, end_at : Time,
            status : Status, display_name : Names \cup {NoName}]

Idle == [pc |-> "idle"]
BookingPC == {"GetSeatByID", "GetSettings", "CountActive", "SeatHasConflict",
              "CreateBooking", "GetUserByID", "UpdateUserName"}
BookingReq == [pc : BookingPC, user_id : Users, seat_id : Seats,
               start_at : Time, end_at : Time, display_name : Names \cup {NoName},
               at : Time, limit : 0 .. MaxLimit]
StatusReq == [pc : {"UpdateBookingStatus"}, id : Nat \ {0}, status : Status]
DeleteReq == [pc : {"DeleteSeat"}, seat_id : Seats]
Request == {Idle} \cup BookingReq \cup StatusReq \cup DeleteReq

TypeOK ==
  /\ now \in Time
  /\ bookings \in Seq(Booking)
  /\ seats \in [Seats -> SeatState]
  /\ limit \in 1 .. MaxLimit
  /\ names \in [Users -> Names \cup {StudentName}]
  /\ req \in [Workers -> Request]

Init ==
  /\ now = 0
  /\ bookings = <<>>
  /\ seats \in [Seats -> {"active", "inactive"}]
  /\ limit \in 1 .. MaxLimit
  /\ names = [u \in Users |-> StudentName]
  /\ req = [w \in Workers |-> Idle]

-----------------------------------------------------------------------------
(* What the statements see and what the schema lets them do.               *)

Confirmed(i) == bookings[i].status = "confirmed"

(* CountActiveBookingsByUser: confirmed rows of u that end after t.        *)
ActiveBookings(u, t) ==
  {i \in DOMAIN bookings : bookings[i].user_id = u /\ Confirmed(i) /\ bookings[i].end_at > t}

(* The rows the EXCLUDE constraint (and SeatHasConflict) would pair with a *)
(* confirmed booking x.                                                    *)
ConflictsWith(x) ==
  {i \in DOMAIN bookings :
     bookings[i].seat_id = x.seat_id /\ Confirmed(i) /\ Overlaps(bookings[i], x)}

MutExclusionOnInsertOnly(x, id) == id = Len(bookings) + 1 => ConflictsWith(x) = {}

(* bookings_no_confirmed_overlap lets row id become the confirmed x.  The  *)
(* FakeRepo stores whatever it is given.                                   *)
ExclusionAllows(x, id) == Store = "postgres" => ConflictsWith(x) \ {id} = {}

MutRestrictConfirmedOnly(s) ==
  \A i \in DOMAIN bookings : bookings[i].seat_id = s => ~Confirmed(i)

(* bookings.seat_id ... ON DELETE RESTRICT: a row of any status keeps its  *)
(* seat.                                                                   *)
RestrictAllows(s) ==
  Store = "postgres" => \A i \in DOMAIN bookings : bookings[i].seat_id # s

Reply(w) == req' = [req EXCEPT ![w] = Idle]

(* The handler goes on to its next statement, or answers an error.         *)
Check(w, ok, next) ==
  IF ok THEN req' = [req EXCEPT ![w].pc = next] ELSE Reply(w)

InFlight(w) == req[w].pc \in BookingPC

-----------------------------------------------------------------------------
(* POST /api/bookings                                                      *)

(* Input checks, the clock reading every later check uses, and GetUserByID *)
(* (users are never deleted, so it finds the authenticated user).          *)
CreateBooking(w) ==
  /\ req[w] = Idle
  /\ Len(bookings) + Cardinality({v \in Workers : InFlight(v)}) < MaxBookings
  /\ \E u \in Users, s \in Seats, n \in Names \cup {NoName}, from, to \in Time :
       LET r == [pc |-> "GetSeatByID", user_id |-> u, seat_id |-> s,
                 start_at |-> from, end_at |-> to, display_name |-> n,
                 at |-> now, limit |-> 0]
       IN  /\ ValidInterval(r)
           /\ from > now
           /\ req' = [req EXCEPT ![w] = r]
  /\ UNCHANGED <<now, bookings, seats, limit, names>>

MutExistsOnly(s) == seats[s] # "deleted"

(* A seat that is gone is ErrNotFound, an inactive one ErrSeatUnavailable. *)
Bookable(s) == seats[s] = "active"

GetSeatByID(w) ==
  /\ req[w].pc = "GetSeatByID"
  /\ Check(w, Bookable(req[w].seat_id), "GetSettings")
  /\ UNCHANGED <<now, bookings, seats, limit, names>>

GetSettings(w) ==
  /\ req[w].pc = "GetSettings"
  /\ req' = [req EXCEPT ![w].pc = "CountActive", ![w].limit = limit]
  /\ UNCHANGED <<now, bookings, seats, limit, names>>

MutLimitOffByOne(r) == Cardinality(ActiveBookings(r.user_id, r.at)) <= r.limit

UnderLimit(r) == Cardinality(ActiveBookings(r.user_id, r.at)) < r.limit

CountActiveBookingsByUser(w) ==
  /\ req[w].pc = "CountActive"
  /\ Check(w, UnderLimit(req[w]), "SeatHasConflict")
  /\ UNCHANGED <<now, bookings, seats, limit, names>>

SeatHasConflict(w) ==
  /\ req[w].pc = "SeatHasConflict"
  /\ Check(w, ConflictsWith(req[w]) = {}, "CreateBooking")
  /\ UNCHANGED <<now, bookings, seats, limit, names>>

NewRow(r) ==
  [user_id |-> r.user_id, seat_id |-> r.seat_id, start_at |-> r.start_at,
   end_at |-> r.end_at, status |-> "confirmed", display_name |-> r.display_name]

(* The INSERT: the foreign key wants the seat row, the EXCLUDE constraint  *)
(* a window no confirmed row of the seat overlaps.                         *)
InsertAllowed(r) ==
  /\ Store = "postgres" => seats[r.seat_id] # "deleted"
  /\ ExclusionAllows(r, Len(bookings) + 1)

InsertBooking(w) ==
  /\ req[w].pc = "CreateBooking"
  /\ IF InsertAllowed(req[w])
     THEN /\ bookings' = Append(bookings, NewRow(req[w]))
          /\ Check(w, req[w].display_name # NoName, "GetUserByID")
     ELSE UNCHANGED bookings /\ Reply(w)
  /\ UNCHANGED <<now, seats, limit, names>>

MutSyncUnnamed(r) == names[r.user_id] = StudentName

(* Only a device user whose name differs is renamed.                       *)
NeedsRename(r) == r.user_id \in DeviceUsers /\ names[r.user_id] # r.display_name

GetUserByID(w) ==
  /\ req[w].pc = "GetUserByID"
  /\ Check(w, NeedsRename(req[w]), "UpdateUserName")
  /\ UNCHANGED <<now, bookings, seats, limit, names>>

UpdateUserName(w) ==
  /\ req[w].pc = "UpdateUserName"
  /\ names' = [names EXCEPT ![req[w].user_id] = req[w].display_name]
  /\ Reply(w)
  /\ UNCHANGED <<now, bookings, seats, limit>>

-----------------------------------------------------------------------------
(* DELETE /api/bookings/{id} and PATCH /api/admin/bookings/{id}            *)

(* GetBookingByID and the owner's checks on the row it returned.           *)
CancelBooking(w) ==
  /\ req[w] = Idle
  /\ \E u \in Users, i \in DOMAIN bookings :
       /\ bookings[i].user_id = u
       /\ Confirmed(i)
       /\ bookings[i].start_at - now >= LeadTime
       /\ req' = [req EXCEPT ![w] =
                    [pc |-> "UpdateBookingStatus", id |-> i, status |-> "canceled"]]
  /\ UNCHANGED <<now, bookings, seats, limit, names>>

MutNotCanceled(i) == bookings[i].status # "canceled"

NotTerminal(i) == bookings[i].status \notin {"canceled", "completed"}

(* GetBookingByID and the admin's check; the admin may force any status.   *)
AdminUpdateBookingStatus(w) ==
  /\ req[w] = Idle
  /\ \E i \in DOMAIN bookings, st \in Status :
       /\ NotTerminal(i)
       /\ req' = [req EXCEPT ![w] =
                    [pc |-> "UpdateBookingStatus", id |-> i, status |-> st]]
  /\ UNCHANGED <<now, bookings, seats, limit, names>>

(* UPDATE bookings SET status ... WHERE id: the row is not read again, and *)
(* only a change to "confirmed" can break the EXCLUDE constraint.          *)
UpdateBookingStatus(w) ==
  /\ req[w].pc = "UpdateBookingStatus"
  /\ LET i == req[w].id IN
     IF req[w].status = "confirmed" => ExclusionAllows(bookings[i], i)
     THEN bookings' = [bookings EXCEPT ![i].status = req[w].status]
     ELSE UNCHANGED bookings
  /\ Reply(w)
  /\ UNCHANGED <<now, seats, limit, names>>

-----------------------------------------------------------------------------
(* The admin operations that decide what can be booked.                    *)

(* PUT /api/admin/seats/{id}: of the seat's columns only active matters.   *)
(* The row read before the UPDATE adds nothing: the UPDATE names the id.   *)
UpdateSeat(w) ==
  /\ req[w] = Idle
  /\ \E s \in Seats, active \in {"active", "inactive"} :
       /\ seats[s] # "deleted"
       /\ seats' = [seats EXCEPT ![s] = active]
  /\ UNCHANGED <<now, bookings, limit, names, req>>

(* DELETE /api/admin/seats/{id}: HasFutureBookingsForSeat says no.         *)
DeleteSeat(w) ==
  /\ req[w] = Idle
  /\ \E s \in Seats :
       /\ ~ \E i \in DOMAIN bookings :
              bookings[i].seat_id = s /\ Confirmed(i) /\ bookings[i].start_at > now
       /\ req' = [req EXCEPT ![w] = [pc |-> "DeleteSeat", seat_id |-> s]]
  /\ UNCHANGED <<now, bookings, seats, limit, names>>

(* DELETE FROM seats: the foreign key of bookings has the last word.       *)
DeleteSeatRow(w) ==
  /\ req[w].pc = "DeleteSeat"
  /\ LET s == req[w].seat_id IN
     IF RestrictAllows(s) THEN seats' = [seats EXCEPT ![s] = "deleted"] ELSE UNCHANGED seats
  /\ Reply(w)
  /\ UNCHANGED <<now, bookings, limit, names>>

(* DELETE /api/admin/coworkings/{id}: the cascade takes all the seats of c *)
(* unless one of them has a booking, which undoes the whole statement.     *)
DeleteCoworking(w) ==
  /\ req[w] = Idle
  /\ \E c \in Coworkings :
       LET gone == {s \in Seats : CoworkingOf[s] = c /\ seats[s] # "deleted"} IN
       /\ \A s \in gone : RestrictAllows(s)
       /\ seats' = [s \in Seats |-> IF s \in gone THEN "deleted" ELSE seats[s]]
  /\ UNCHANGED <<now, bookings, limit, names, req>>

MutLimitRange == 0 .. MaxLimit

LimitRange == 1 .. MaxLimit

(* PUT /api/admin/settings/limit                                           *)
UpdateBookingLimit(w) ==
  /\ req[w] = Idle
  /\ limit' \in LimitRange
  /\ UNCHANGED <<now, bookings, seats, names, req>>

-----------------------------------------------------------------------------
(* The request dies between two statements: a statement fails, the client  *)
(* goes away and r.Context() is canceled, or the process stops.  What was  *)
(* committed stays.                                                        *)
Abort(w) ==
  /\ Faults
  /\ req[w] # Idle
  /\ Reply(w)
  /\ UNCHANGED <<now, bookings, seats, limit, names>>

Tick ==
  /\ now < Horizon
  /\ now' = now + 1
  /\ UNCHANGED <<bookings, seats, limit, names, req>>

Handle(w) ==
  \/ CreateBooking(w) \/ GetSeatByID(w) \/ GetSettings(w)
  \/ CountActiveBookingsByUser(w) \/ SeatHasConflict(w) \/ InsertBooking(w)
  \/ GetUserByID(w) \/ UpdateUserName(w)
  \/ CancelBooking(w) \/ AdminUpdateBookingStatus(w) \/ UpdateBookingStatus(w)
  \/ UpdateSeat(w) \/ DeleteSeat(w) \/ DeleteSeatRow(w) \/ DeleteCoworking(w)
  \/ UpdateBookingLimit(w) \/ Abort(w)

Next == Tick \/ \E w \in Workers : Handle(w)

Spec == Init /\ [][Next]_vars

-----------------------------------------------------------------------------
(* Properties of the store: they hold whatever the interleaving.           *)

(* No instant of a seat belongs to two confirmed bookings, although every  *)
(* handler checks first and writes later and AdminUpdateBookingStatus can  *)
(* bring a booking that another request canceled back to "confirmed".      *)
NoDoubleBooking ==
  \A i, j \in DOMAIN bookings :
    /\ Confirmed(i) /\ Confirmed(j)
    /\ bookings[i].seat_id = bookings[j].seat_id
    /\ \E t \in Time : Covers(bookings[i], t) /\ Covers(bookings[j], t)
    => i = j

(* A booking never outlives its seat: DeleteSeat asks for future bookings  *)
(* only, in a statement of its own, and DeleteCoworking does not ask.      *)
BookedSeatExists == \A i \in DOMAIN bookings : seats[bookings[i].seat_id] # "deleted"

(* The bookings of u that are active, or that a pending status update      *)
(* would make active again.                                                *)
MayBeActive(u) ==
  {i \in DOMAIN bookings :
     /\ bookings[i].user_id = u
     /\ bookings[i].end_at > now
     /\ \/ Confirmed(i)
        \/ \E w \in Workers : /\ req[w].pc = "UpdateBookingStatus"
                              /\ req[w].id = i
                              /\ req[w].status = "confirmed"}

(* The requests of u that CountActiveBookingsByUser has let through.       *)
PastTheLimit(u) ==
  {w \in Workers : req[w].pc \in {"SeatHasConflict", "CreateBooking"} /\ req[w].user_id = u}

(* Count and insert are two statements, so a user can pass the booking     *)
(* limit, but only by as many bookings as there are other requests in      *)
(* flight: neither a re-confirmed booking nor a lowered limit adds to it.  *)
OvershootBounded ==
  \A u \in Users :
    Cardinality(MayBeActive(u)) + Cardinality(PastTheLimit(u)) < MaxLimit + Cardinality(Workers)

(* The handlers and the two constraints together give every seat a         *)
(* calendar: a booking takes a free window or nothing, and gives all of it *)
(* back when it is canceled or completed.                                  *)
Holder ==
  [slot \in Seats \X (0 .. Horizon - 1) |->
     LET held == {i \in DOMAIN bookings :
                    /\ Confirmed(i)
                    /\ bookings[i].seat_id = slot[1]
                    /\ Covers(bookings[i], slot[2])}
     IN  IF held = {} THEN 0 ELSE CHOOSE i \in held : TRUE]

Calendar == INSTANCE SeatCalendar WITH
  Instants <- 0 .. Horizon - 1, Holders <- 1 .. MaxBookings, Nobody <- 0, holder <- Holder

ImplementsCalendar == Calendar!Spec

-----------------------------------------------------------------------------
(* What the handlers promise, and keep when requests come one at a time.   *)

LastRow == bookings'[Len(bookings')]

(* A booking is created only while its user is under the limit in force    *)
(* (CreateBooking answers ErrLimitExceeded otherwise).                     *)
BookingLimitEnforced ==
  [][Len(bookings') > Len(bookings) =>
       Cardinality(ActiveBookings(LastRow.user_id, now)) < limit]_vars

(* A booking is created only on a seat that is active (CreateBooking       *)
(* answers ErrSeatUnavailable otherwise).                                  *)
ActiveSeatAtInsert ==
  [][Len(bookings') > Len(bookings) => seats[LastRow.seat_id] = "active"]_vars

(* Canceled and completed are final: CancelBooking and                     *)
(* AdminUpdateBookingStatus answer ErrConflictState for such a booking.    *)
TerminalStatusFinal ==
  [][\A i \in DOMAIN bookings :
       ~ Confirmed(i) => bookings'[i].status = bookings[i].status]_vars

(* The bookings of u made under a display name.                            *)
NamedBookings(u) ==
  {i \in DOMAIN bookings : bookings[i].user_id = u /\ bookings[i].display_name # NoName}

(* Between requests a device user bears the name of the latest booking it  *)
(* made under one.                                                         *)
NameTracksLatest ==
  (\A w \in Workers : req[w] = Idle) =>
    \A u \in DeviceUsers : \A i \in NamedBookings(u) :
      (\A j \in NamedBookings(u) : j <= i) => names[u] = bookings[i].display_name
=============================================================================
