------------------------------ MODULE MapView ------------------------------
(***************************************************************************)
(* The two views of the free seats, ListAvailableSeats and ListSeatsForMap *)
(* of backend/internal/app/service.go, beside the handlers that book and   *)
(* the administrators.  A view is many statements: one for the seats and   *)
(* one per active seat, with whatever happens in between.  `could`,        *)
(* `couldnt` and `edited` are not in the code: the seats that some state   *)
(* since the call began would have let be booked for its window, or would  *)
(* not, and whether an administrator has touched a seat meanwhile.         *)
(***************************************************************************)
EXTENDS BookingService

VARIABLE view         \* the view being put together

viewVars == <<vars, view>>

NoView == [pc |-> "idle"]

Views ==
  [pc : {"GetCoworkingByID", "ListSeats", "SeatHasConflict", "answered"},
   coworking_id : {0} \cup Coworkings, start_at : Time, end_at : Time,
   rows : SUBSET Seats, free : SUBSET Seats, busy : SUBSET Seats,
   could : SUBSET Seats, couldnt : SUBSET Seats, edited : BOOLEAN]

(* The view put together is typed; one that has answered has looked at all *)
(* its rows and shows no seat both free and busy.                          *)
ViewTypeOK ==
  /\ view = NoView \/ view \in Views
  /\ view.pc = "answered" => view.rows = {} /\ view.free \cap view.busy = {}

(* A booking of the window could begin right now.                          *)
Open(s, x) ==
  /\ seats[s] = "active"
  /\ \A i \in DOMAIN bookings, t \in Time :
       ~ (Confirmed(i) /\ bookings[i].seat_id = s /\ Covers(bookings[i], t) /\ Covers(x, t))

Witnessed(v) ==
  [v EXCEPT !.could = @ \cup {s \in Seats : Open(s, v)},
            !.couldnt = @ \cup {s \in Seats : ~ Open(s, v)}]

-----------------------------------------------------------------------------
(* GET /api/coworkings/{id}/map checks the coworking first, and            *)
(* GET /api/seats/available (coworking 0 stands for all) does not.         *)
Begin(pc, c) ==
  /\ view = NoView
  /\ \E from, to \in Time :
       LET v == [pc |-> pc, coworking_id |-> c, start_at |-> from, end_at |-> to,
                 rows |-> {}, free |-> {}, busy |-> {}, could |-> {}, couldnt |-> {},
                 edited |-> FALSE]
       IN ValidInterval(v) /\ view' = Witnessed(v)
  /\ UNCHANGED vars

ListSeatsForMap == \E c \in Coworkings : Begin("GetCoworkingByID", c)

ListAvailableSeats == \E c \in {0} \cup Coworkings : Begin("ListSeats", c)

(* A coworking that is gone is ErrNotFound.                                *)
GetCoworkingByID ==
  /\ view.pc = "GetCoworkingByID"
  /\ view' \in {NoView, [view EXCEPT !.pc = "ListSeats"]}
  /\ UNCHANGED vars

MutAnySeat(s) == seats[s] # "deleted"

(* An inactive seat is shown busy on the map and not at all in the list.   *)
Active(s) == seats[s] = "active"

MutToo(rows) == rows

Unsettled(rows) == {s \in rows : Active(s)}

(* The statement reads every row at once.                                  *)
ListSeats ==
  /\ view.pc = "ListSeats"
  /\ LET rows == {s \in Seats : /\ seats[s] # "deleted"
                                /\ view.coworking_id \in {0, CoworkingOf[s]}}
     IN view' = [view EXCEPT !.pc = "SeatHasConflict",
                             !.rows = Unsettled(rows),
                             !.busy = {s \in rows : ~ Active(s)}]
  /\ UNCHANGED vars

MutTouching(s, x) ==
  \E i \in DOMAIN bookings :
    /\ bookings[i].seat_id = s /\ Confirmed(i)
    /\ bookings[i].start_at <= x.end_at /\ x.start_at <= bookings[i].end_at

Conflict(s, x) ==
  ConflictsWith([seat_id |-> s, start_at |-> x.start_at, end_at |-> x.end_at]) # {}

(* One seat of the rows read, whatever has become of it since.             *)
SeatHasConflictForView ==
  /\ view.pc = "SeatHasConflict"
  /\ \E s \in view.rows :
       view' = IF Conflict(s, view)
               THEN [view EXCEPT !.rows = @ \ {s}, !.busy = @ \cup {s}]
               ELSE [view EXCEPT !.rows = @ \ {s}, !.free = @ \cup {s}]
  /\ UNCHANGED vars

Answer ==
  /\ view.pc = "SeatHasConflict" /\ view.rows = {}
  /\ view' = [view EXCEPT !.pc = "answered"]
  /\ UNCHANGED vars

Leave ==
  /\ view.pc = "answered"
  /\ view' = NoView
  /\ UNCHANGED vars

(* Meanwhile the other handlers go on.                                     *)
Others ==
  /\ Next
  /\ \E v \in {view} :
       view' = IF v.pc \in {"idle", "answered"} THEN v
               ELSE [Witnessed(v)' EXCEPT !.edited = @ \/ seats' # seats]

ViewNext ==
  \/ ListSeatsForMap \/ ListAvailableSeats \/ GetCoworkingByID \/ ListSeats
  \/ SeatHasConflictForView \/ Answer \/ Leave \/ Others

ViewSpec == Init /\ view = NoView /\ [][ViewNext]_viewVars

-----------------------------------------------------------------------------
(* A seat that a view shows busy could not have been booked at some        *)
(* instant of the call, although its row and its conflicts are read apart. *)
BusyWasBusy == view.pc = "answered" => view.busy \subseteq view.couldnt

(* A seat that a view shows free could have been booked at some instant of *)
(* the call ("free seats can be clicked, busy ones cannot"), provided no   *)
(* seat was switched off or deleted after the view had read its row.       *)
FreeWasFree ==
  view.pc = "answered" /\ ~ view.edited => view.free \subseteq view.could
=============================================================================
