-------------------------- MODULE FrontendSession --------------------------
(***************************************************************************)
(* The browser client, frontend/app.js: the two roles that share a page,   *)
(* their tokens and the calls in flight.  A call goes out with what the    *)
(* page says when it is made and its answer is applied to whatever the     *)
(* page has become.  A token is named after the user it was given to, and  *)
(* the page after what it shows: whose bookings, which map.  What the      *)
(* admin panel shows once it is open is left out.  `hurried` and           *)
(* `overtaken` are not in the code: they tell what the people and the      *)
(* network have done so far.                                               *)
(***************************************************************************)
EXTENDS Integers, Sequences, SequencesExt

CONSTANTS
  Student,     \* the hidden user of this device
  Admins,      \* users with role "admin"
  Others,      \* and without it, who try the admin form
  Nobody,      \* no token
  Coworkings,
  Windows,     \* what the two date inputs may hold
  NoWindow,    \* one of them is empty
  NoMap, Loading, Failed,  \* the map panel when it shows no map
  MaxCalls     \* bound: calls in flight

(* A map is told from the hint, from the error and from the empty panel.   *)
ASSUME PanelAssumption ==
  /\ {NoMap, Loading, Failed} \cap (Coworkings \X Windows) = {}
  /\ Loading \notin {NoMap, Failed}
  /\ NoWindow \notin Windows

VARIABLES
  screen,
  studentToken, adminToken,
  user,        \* state.user: who passed the role check last
  coworking,   \* state.selectedCoworkingId
  window,      \* the date inputs
  map,         \* what the map panel shows
  bookings,    \* whose bookings the list shows
  calls,       \* calls in flight, oldest first
  hurried,     \* has anybody left or logged in while a call was in flight?
  overtaken    \* has the youngest map arrived before an older one?

history == <<hurried, overtaken>>
vars == <<screen, studentToken, adminToken, user, coworking, window, map, bookings, calls,
          history>>

-----------------------------------------------------------------------------
StudentScreens == {"student_coworkings", "student_map"}
AdminScreens == {"admin_login", "admin"}
Users == {Student} \cup Admins \cup Others

MapCall(c, x, then) == [kind |-> "map", coworking |-> c, window |-> x, then |-> then]
UserCall(kind, token) == [kind |-> kind, token |-> token]

TypeOK ==
  /\ screen \in {"landing"} \cup StudentScreens \cup AdminScreens
  /\ studentToken \in {Student, Nobody}
  /\ adminToken \in Admins \cup Others \cup {Nobody}
  /\ user \in Admins \cup {Nobody}
  /\ coworking \in Coworkings \cup {Nobody} /\ window \in Windows \cup {NoWindow}
  /\ map \in {NoMap, Loading, Failed} \cup (Coworkings \X Windows)
  /\ bookings \in Users \cup {Nobody}
  /\ \A i \in DOMAIN calls :
       calls[i] \in {MapCall(c, x, then) : c \in Coworkings, x \in Windows, then \in BOOLEAN}
                      \cup {UserCall(k, u) : k \in {"device", "login", "me", "bookings", "change"},
                                             u \in Users \cup {Nobody}}
  /\ hurried \in BOOLEAN /\ overtaken \in BOOLEAN

(* The page is loaded; localStorage may hold tokens of an earlier visit.   *)
Init ==
  /\ screen = "landing"
  /\ studentToken \in {Student, Nobody} /\ adminToken \in Admins \cup Others \cup {Nobody}
  /\ user = Nobody
  /\ coworking = Nobody /\ window \in Windows \cup {NoWindow}
  /\ map = NoMap /\ bookings = Nobody
  /\ calls = <<>>
  /\ hurried = FALSE /\ overtaken = FALSE

(* Somebody clicks; an answer replaces its call by at most one more.       *)
Clicks == Len(calls) < MaxCalls /\ UNCHANGED hurried

(* Somebody leaves a role or takes one with a login.                       *)
ChangesRole == Len(calls) < MaxCalls /\ hurried' = (hurried \/ calls # <<>>)

(* A map is asked for, and the page hints at it.                           *)
MapAsked == map' = Loading /\ overtaken' = FALSE

SameMap == UNCHANGED <<map, overtaken>>

MutNeverEmpty(x) == TRUE

Given(x) == x # NoWindow

MutAdminTokenFirst == IF adminToken # Nobody THEN adminToken ELSE studentToken

(* api() takes the token of the screen's role unless it is given one.      *)
ScreenToken == IF screen \in AdminScreens THEN adminToken ELSE studentToken

-----------------------------------------------------------------------------
ChooseStudent ==
  /\ screen = "landing" /\ Clicks /\ SameMap
  /\ calls' = Append(calls, UserCall("device", Student))
  /\ UNCHANGED <<screen, studentToken, adminToken, user, coworking, window, bookings>>

ChooseAdmin ==
  /\ screen = "landing" /\ Clicks /\ SameMap
  /\ screen' = "admin_login"
  /\ UNCHANGED <<studentToken, adminToken, user, coworking, window, bookings, calls>>

BackHome ==
  /\ screen # "landing" /\ ChangesRole /\ SameMap
  /\ screen' = "landing"
  /\ UNCHANGED <<studentToken, adminToken, user, coworking, window, bookings, calls>>

BackToCoworkings ==
  /\ screen = "student_map" /\ Clicks /\ SameMap
  /\ screen' = "student_coworkings"
  /\ UNCHANGED <<studentToken, adminToken, user, coworking, window, bookings, calls>>

(* An empty date gets its default; then the map of the coworking, and then *)
(* the student's bookings.                                                 *)
OpenStudentMap ==
  /\ screen = "student_coworkings" /\ Clicks /\ MapAsked
  /\ coworking' \in Coworkings
  /\ window' \in IF Given(window) THEN {window} ELSE Windows
  /\ calls' = Append(calls, MapCall(coworking', window', TRUE))
  /\ screen' = "student_map"
  /\ UNCHANGED <<studentToken, adminToken, user, bookings>>

(* A date is changed, or the reload button is pressed.  With a date that   *)
(* was cleared no map is asked for, and the old one stays.                 *)
ReloadStudentMap ==
  /\ screen = "student_map" /\ Clicks
  /\ window' \in Windows \cup {NoWindow}
  /\ \/ /\ Given(window') /\ MapAsked
        /\ calls' = Append(calls, MapCall(coworking, window', FALSE))
     \/ ~ Given(window') /\ SameMap /\ UNCHANGED calls
  /\ UNCHANGED <<screen, studentToken, adminToken, user, coworking, bookings>>

(* confirmBooking on a seat of the map, or the cancel button of a booking. *)
ChangeBooking ==
  /\ screen = "student_map" /\ Clicks /\ SameMap
  /\ (map \in Coworkings \X Windows /\ Given(window)) \/ bookings # Nobody
  /\ calls' = Append(calls, UserCall("change", ScreenToken))
  /\ UNCHANGED <<screen, studentToken, adminToken, user, coworking, window, bookings>>

AdminLogin ==
  /\ screen = "admin_login" /\ ChangesRole /\ SameMap
  /\ \E u \in Admins \cup Others : calls' = Append(calls, UserCall("login", u))
  /\ UNCHANGED <<screen, studentToken, adminToken, user, coworking, window, bookings>>

-----------------------------------------------------------------------------
(* Call i is answered, and those in `more` follow.                         *)
Answered(i, more) == calls' = RemoveAt(calls, i) \o more /\ UNCHANGED hurried

(* A call fails, in the network or with an error status: a                 *)
(* toast is shown and nothing else happens.                                *)
CallFails ==
  /\ \E i \in DOMAIN calls : calls[i].kind # "map" /\ Answered(i, <<>>)
  /\ SameMap
  /\ UNCHANGED <<screen, studentToken, adminToken, user, coworking, window, bookings>>

DeviceLoggedIn ==
  /\ \E i \in DOMAIN calls : calls[i].kind = "device" /\ Answered(i, <<>>)
  /\ studentToken' = Student
  /\ screen' = "student_coworkings"
  /\ SameMap
  /\ UNCHANGED <<adminToken, user, coworking, window, bookings>>

MutHintStays(c) == {<<c.coworking, c.window>>, Loading}

(* The seats are rendered, or an error takes the place of the hint.        *)
Rendered(c) == {<<c.coworking, c.window>>, Failed}

Youngest(i) ==
  calls[i].kind = "map" /\ \A j \in DOMAIN calls : j > i => calls[j].kind # "map"

Overtakes(i) == Youngest(i) /\ \E j \in DOMAIN calls : j < i /\ calls[j].kind = "map"

(* reloadStudentMap catches its own errors, so the bookings follow anyway; *)
(* their call is made now, under the screen of now.                        *)
MapAnswered ==
  /\ \E i \in DOMAIN calls :
       /\ calls[i].kind = "map"
       /\ map' \in Rendered(calls[i])
       /\ overtaken' = (overtaken \/ Overtakes(i))
       /\ Answered(i, IF calls[i].then THEN <<UserCall("bookings", ScreenToken)>> ELSE <<>>)
  /\ UNCHANGED <<screen, studentToken, adminToken, user, coworking, window, bookings>>

BookingsAnswered ==
  /\ \E i \in DOMAIN calls :
       /\ calls[i].kind = "bookings" /\ calls[i].token # Nobody
       /\ Answered(i, <<>>)
       /\ bookings' = calls[i].token
  /\ SameMap
  /\ UNCHANGED <<screen, studentToken, adminToken, user, coworking, window>>

MutOldSelection == IF map \in Coworkings \X Windows THEN map ELSE <<coworking, window>>

Selection == <<coworking, window>>

(* The booking is made or canceled: the map and the bookings are read      *)
(* again, for what is selected by now; without dates the bookings only.    *)
BookingChanged ==
  /\ \E i \in DOMAIN calls :
       /\ calls[i].kind = "change" /\ calls[i].token # Nobody
       /\ \/ /\ Given(window) /\ MapAsked
             /\ Answered(i, <<MapCall(Selection[1], Selection[2], TRUE)>>)
          \/ /\ ~ Given(window) /\ SameMap
             /\ Answered(i, <<UserCall("bookings", ScreenToken)>>)
  /\ UNCHANGED <<screen, studentToken, adminToken, user, coworking, window, bookings>>

(* The token is stored before the role is known.                           *)
LoggedIn ==
  /\ \E i \in DOMAIN calls :
       /\ calls[i].kind = "login"
       /\ adminToken' = calls[i].token
       /\ Answered(i, <<UserCall("me", calls[i].token)>>)
  /\ SameMap
  /\ UNCHANGED <<screen, studentToken, user, coworking, window, bookings>>

MutAnyRole(u) == TRUE

IsAdmin(u) == u \in Admins

(* GET /api/auth/me: only the role admin opens the panel.                  *)
RoleAnswered ==
  /\ \E i \in DOMAIN calls :
       /\ calls[i].kind = "me" /\ IsAdmin(calls[i].token)
       /\ Answered(i, <<>>)
       /\ user' = calls[i].token
  /\ screen' = "admin"
  /\ SameMap
  /\ UNCHANGED <<studentToken, adminToken, coworking, window, bookings>>

Next ==
  \/ ChooseStudent \/ ChooseAdmin \/ BackHome \/ BackToCoworkings \/ OpenStudentMap
  \/ ReloadStudentMap \/ ChangeBooking \/ AdminLogin
  \/ CallFails \/ DeviceLoggedIn \/ MapAnswered \/ BookingsAnswered \/ BookingChanged
  \/ LoggedIn \/ RoleAnswered

(* fetch settles: a call for a map is answered or fails.                   *)
Spec == Init /\ [][Next]_vars /\ WF_vars(MapAnswered)

-----------------------------------------------------------------------------
(* The admin panel works with the token of somebody whose role is admin    *)
(* ("role-gated screens"), whatever else is in flight or fails, as long as *)
(* nobody goes home or logs in while a call is in flight: adminLogin       *)
(* stores the token before it knows the role, and a second login may be    *)
(* answered after the panel has opened.                                    *)
AdminScreenHasAdminToken == screen = "admin" /\ ~ hurried => adminToken \in Admins

(* When all maps have arrived the one on the page is that of the coworking *)
(* and the dates selected, however many were on their way and in whatever  *)
(* order they came, unless the youngest came before an older one.  A date  *)
(* that was cleared leaves the map of the coworking.                       *)
MapIsOfSelection ==
  /\ \A i \in DOMAIN calls : calls[i].kind # "map"
  /\ map \in Coworkings \X Windows
  /\ ~ overtaken
  => map[1] = coworking /\ (Given(window) => map[2] = window)

(* The student's list shows the bookings of this device's user, although   *)
(* administrator and student take turns on one page with both tokens kept  *)
(* (use case UC-4), however the answers to the student's calls interleave, *)
(* as long as nobody goes home or logs in while one is in flight.          *)
StudentSeesOwnBookings == ~ hurried => bookings \in {Student, Nobody}

(* The hint that a map is being loaded does not stay for ever.             *)
LoadingEnds == map = Loading ~> map # Loading
=============================================================================
