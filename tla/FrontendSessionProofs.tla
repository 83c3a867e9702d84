------------------------ MODULE FrontendSessionProofs ------------------------
(***************************************************************************)
(* The browser client, for any number of coworkings, dates and calls in    *)
(* flight: what its page shows is typed; a person who leaves or logs in    *)
(* only when nothing is in flight sees her own bookings and opens the      *)
(* panel with an administrator's token; a youngest map that overtakes no   *)
(* other is that of what is selected.                                      *)
(***************************************************************************)
EXTENDS FrontendSession, SequenceTheorems, TLAPS

-----------------------------------------------------------------------------
Bearers == Admins \cup Others

Call ==
  {MapCall(c, x, then) : c \in Coworkings, x \in Windows, then \in BOOLEAN}
    \cup {UserCall("device", Student)}
    \cup {UserCall(k, u) : k \in {"login", "me"}, u \in Bearers}
    \cup {UserCall(k, u) : k \in {"bookings", "change"}, u \in {Student, Nobody} \cup Bearers}

(* The calls in flight are those that the page makes, and it has selected  *)
(* a coworking before it asks for a map.                                   *)
PageInv ==
  /\ screen \in {"landing"} \cup StudentScreens \cup AdminScreens
  /\ studentToken \in {Student, Nobody}
  /\ adminToken \in Bearers \cup {Nobody}
  /\ user \in Admins \cup {Nobody}
  /\ coworking \in Coworkings \cup {Nobody} /\ window \in Windows \cup {NoWindow}
  /\ map \in {NoMap, Loading, Failed} \cup (Coworkings \X Windows)
  /\ bookings \in Users \cup {Nobody}
  /\ hurried \in BOOLEAN /\ overtaken \in BOOLEAN
  /\ calls \in Seq(Call)
  /\ screen = "student_map" => coworking \in Coworkings
  /\ \A i \in DOMAIN calls : calls[i].kind = "change" => coworking \in Coworkings

-----------------------------------------------------------------------------
(* What is in a call, by its kind.                                         *)
LEMMA CallFields ==
  ASSUME NEW c \in Call
  PROVE  /\ c.kind \in {"map", "device", "login", "me", "bookings", "change"}
         /\ c.kind = "map" => c.coworking \in Coworkings /\ c.window \in Windows
                                /\ c.then \in BOOLEAN
         /\ c.kind \in {"login", "me"} => c.token \in Bearers
         /\ c.kind \in {"bookings", "change"} => c.token \in {Student, Nobody} \cup Bearers
BY DEF Call, MapCall, UserCall

LEMMA MapCallMade ==
  ASSUME NEW c \in Coworkings, NEW x \in Windows, NEW then \in BOOLEAN
  PROVE  /\ MapCall(c, x, then) \in Call /\ MapCall(c, x, then).kind = "map"
         /\ MapCall(c, x, then).coworking = c /\ MapCall(c, x, then).window = x
BY DEF Call, MapCall

LEMMA UserCallMade ==
  ASSUME NEW k, NEW u
  PROVE  /\ UserCall(k, u).kind = k /\ UserCall(k, u).token = u
         /\ k = "device" /\ u = Student => UserCall(k, u) \in Call
         /\ k \in {"login", "me"} /\ u \in Bearers => UserCall(k, u) \in Call
         /\ k \in {"bookings", "change"} /\ u \in {Student, Nobody} \cup Bearers
              => UserCall(k, u) \in Call
BY DEF Call, UserCall

(* A call is made: it is the last of those in flight.                      *)
LEMMA CallMade ==
  ASSUME NEW c \in Call, calls \in Seq(Call), calls' = Append(calls, c)
  PROVE  /\ calls' \in Seq(Call) /\ Len(calls') = Len(calls) + 1
         /\ DOMAIN calls' = 1 .. Len(calls) + 1 /\ DOMAIN calls = 1 .. Len(calls)
         /\ calls'[Len(calls) + 1] = c
         /\ \A i \in 1 .. Len(calls) : calls'[i] = calls[i]
OBVIOUS

(* The calls younger than call i move up.                                  *)
LEMMA RemoveAtElements ==
  ASSUME NEW S, NEW s \in Seq(S), NEW i \in 1 .. Len(s)
  PROVE  /\ RemoveAt(s, i) \in Seq(S) /\ Len(RemoveAt(s, i)) = Len(s) - 1
         /\ \A j \in 1 .. Len(s) - 1 : RemoveAt(s, i)[j] = s[IF j < i THEN j ELSE j + 1]
<1> DEFINE a == SubSeq(s, 1, i - 1)
           b == SubSeq(s, i + 1, Len(s))
<1>1. /\ a \in Seq(S) /\ Len(a) = i - 1
      /\ \A j \in 1 .. i - 1 : a[j] = s[j]
  OBVIOUS
<1>2. /\ b \in Seq(S) /\ Len(b) = Len(s) - i
      /\ \A j \in 1 .. Len(s) - i : b[j] = s[i + j]
  OBVIOUS
<1> HIDE DEF a, b
<1>c. /\ a \o b \in Seq(S) /\ Len(a \o b) = Len(a) + Len(b)
      /\ \A j \in 1 .. Len(a) + Len(b) :
           (a \o b)[j] = IF j <= Len(a) THEN a[j] ELSE b[j - Len(a)]
  <2>1. a \in Seq(S) /\ b \in Seq(S)
    BY <1>1, <1>2
  <2> QED
    BY <2>1, ConcatProperties
<1>3. /\ a \o b \in Seq(S) /\ Len(a \o b) = Len(s) - 1
      /\ \A j \in 1 .. Len(s) - 1 :
           (a \o b)[j] = IF j <= i - 1 THEN a[j] ELSE b[j - (i - 1)]
  <2>1. Len(a) + Len(b) = Len(s) - 1 /\ Len(a) = i - 1
    BY <1>1, <1>2
  <2> QED
    BY <1>c, <2>1
<1>4. ASSUME NEW j \in 1 .. Len(s) - 1
      PROVE  (a \o b)[j] = s[IF j < i THEN j ELSE j + 1]
  <2>1. CASE j < i
    BY <1>1, <1>3, <2>1
  <2>2. CASE ~ (j < i)
    <3>1. j - (i - 1) \in 1 .. Len(s) - i /\ i + (j - (i - 1)) = j + 1
      BY <2>2
    <3> QED
      BY <1>2, <1>3, <2>2, <3>1
  <2> QED
    BY <2>1, <2>2
<1> QED
  BY <1>3, <1>4 DEF RemoveAt, a, b

(* Call i is answered and nothing follows.                                 *)
LEMMA CallGone ==
  ASSUME calls \in Seq(Call), NEW i \in DOMAIN calls, Answered(i, <<>>)
  PROVE  /\ calls' \in Seq(Call)
         /\ DOMAIN calls' = 1 .. Len(calls) - 1 /\ DOMAIN calls = 1 .. Len(calls)
         /\ Len(calls') = Len(calls) - 1
         /\ \A j \in DOMAIN calls' : calls'[j] = calls[IF j < i THEN j ELSE j + 1]
<1>0. i \in 1 .. Len(calls)
  OBVIOUS
<1>1. RemoveAt(calls, i) \in Seq(Call) /\ Len(RemoveAt(calls, i)) = Len(calls) - 1
  BY <1>0, RemoveAtElements
<1>2. \A j \in 1 .. Len(calls) - 1 :
        RemoveAt(calls, i)[j] = calls[IF j < i THEN j ELSE j + 1]
  BY <1>0, RemoveAtElements
<1>3. calls' = RemoveAt(calls, i)
  BY <1>1 DEF Answered
<1> QED
  BY <1>1, <1>2, <1>3

LEMMA LastElement ==
  ASSUME NEW S, NEW s \in Seq(S), NEW c \in S
  PROVE  /\ s \o <<c>> \in Seq(S) /\ Len(s \o <<c>>) = Len(s) + 1
         /\ (s \o <<c>>)[Len(s) + 1] = c
         /\ \A j \in 1 .. Len(s) : (s \o <<c>>)[j] = s[j]
<1> DEFINE b == <<c>>
<1>1. b \in Seq(S) /\ Len(b) = 1 /\ b[1] = c /\ Len(s) \in Nat
  OBVIOUS
<1> HIDE DEF b
<1>2. /\ s \o b \in Seq(S) /\ Len(s \o b) = Len(s) + Len(b)
      /\ \A j \in 1 .. Len(s) + Len(b) : (s \o b)[j] = IF j <= Len(s) THEN s[j] ELSE b[j - Len(s)]
  BY <1>1, ConcatProperties
<1>3. /\ s \o b \in Seq(S) /\ Len(s \o b) = Len(s) + 1 /\ (s \o b)[Len(s) + 1] = c
      /\ \A j \in 1 .. Len(s) : (s \o b)[j] = s[j]
  BY <1>1, <1>2
<1> QED
  BY <1>3 DEF b

(* Call i is answered and another one follows, as the last.                *)
LEMMA CallReplaced ==
  ASSUME calls \in Seq(Call), NEW i \in DOMAIN calls, NEW c \in Call, Answered(i, <<c>>)
  PROVE  /\ calls' \in Seq(Call)
         /\ DOMAIN calls' = 1 .. Len(calls) /\ DOMAIN calls = 1 .. Len(calls)
         /\ Len(calls') = Len(calls) /\ Len(calls) > 0
         /\ calls'[Len(calls)] = c
         /\ \A j \in 1 .. Len(calls) - 1 : calls'[j] = calls[IF j < i THEN j ELSE j + 1]
<1> DEFINE r == RemoveAt(calls, i)
<1>1. i \in 1 .. Len(calls) /\ Len(calls) \in Nat \ {0} /\ DOMAIN calls = 1 .. Len(calls)
  OBVIOUS
<1>2. /\ r \in Seq(Call) /\ Len(r) = Len(calls) - 1
      /\ \A j \in 1 .. Len(calls) - 1 : r[j] = calls[IF j < i THEN j ELSE j + 1]
  BY <1>1, RemoveAtElements
<1>3. calls' = r \o <<c>>
  BY DEF Answered
<1> HIDE DEF r
<1>4. /\ r \o <<c>> \in Seq(Call) /\ Len(r \o <<c>>) = Len(r) + 1
      /\ (r \o <<c>>)[Len(r) + 1] = c
      /\ \A j \in 1 .. Len(r) : (r \o <<c>>)[j] = r[j]
  BY <1>2, LastElement
<1>5. /\ calls' \in Seq(Call) /\ Len(calls') = Len(r) + 1 /\ calls'[Len(r) + 1] = c
      /\ \A j \in 1 .. Len(r) : calls'[j] = r[j]
  BY <1>3, <1>4
<1>6. Len(r) + 1 = Len(calls)
  BY <1>1, <1>2
<1>7. DOMAIN calls' = 1 .. Len(calls') /\ Len(calls') = Len(calls)
  BY <1>5, <1>6
<1> QED
  BY <1>1, <1>2, <1>5, <1>6, <1>7

(* The calls in flight after an answer were in flight before, but for the  *)
(* one that follows it.                                                    *)
LEMMA CallsLeft ==
  ASSUME calls \in Seq(Call), NEW i \in DOMAIN calls, Answered(i, <<>>)
  PROVE  /\ calls' \in Seq(Call)
         /\ \A j \in DOMAIN calls' : \E k \in DOMAIN calls : calls'[j] = calls[k]
<1>1. /\ calls' \in Seq(Call) /\ DOMAIN calls' = 1 .. Len(calls) - 1
      /\ DOMAIN calls = 1 .. Len(calls)
      /\ \A j \in DOMAIN calls' : calls'[j] = calls[IF j < i THEN j ELSE j + 1]
  BY CallGone
<1>2. \A j \in DOMAIN calls' : (IF j < i THEN j ELSE j + 1) \in DOMAIN calls
  BY <1>1
<1> QED
  BY <1>1, <1>2

LEMMA CallsAfter ==
  ASSUME calls \in Seq(Call), NEW i \in DOMAIN calls, NEW c \in Call, Answered(i, <<c>>)
  PROVE  /\ calls' \in Seq(Call)
         /\ \A j \in DOMAIN calls' :
              calls'[j] = c \/ \E k \in DOMAIN calls : calls'[j] = calls[k]
<1>1. /\ calls' \in Seq(Call) /\ DOMAIN calls' = 1 .. Len(calls)
      /\ DOMAIN calls = 1 .. Len(calls) /\ calls'[Len(calls)] = c /\ Len(calls) > 0
      /\ \A j \in 1 .. Len(calls) - 1 : calls'[j] = calls[IF j < i THEN j ELSE j + 1]
  BY CallReplaced
<1>2. \A j \in 1 .. Len(calls) - 1 : (IF j < i THEN j ELSE j + 1) \in DOMAIN calls
  BY <1>1
<1>3. \A j \in DOMAIN calls' : j = Len(calls) \/ j \in 1 .. Len(calls) - 1
  BY <1>1
<1> QED
  BY <1>1, <1>2, <1>3

-----------------------------------------------------------------------------
LEMMA PageInit == Init => PageInv
<1> SUFFICES ASSUME Init PROVE PageInv
  OBVIOUS
<1>1. calls \in Seq(Call) /\ DOMAIN calls = {}
  BY DEF Init
<1> QED
  BY <1>1 DEF Init, PageInv, Bearers, StudentScreens, AdminScreens, Users

(* A click that makes no call.                                             *)
LEMMA QuietClicks ==
  ASSUME PageInv, ChooseAdmin \/ BackHome \/ BackToCoworkings
  PROVE  PageInv'
BY DEF PageInv, ChooseAdmin, BackHome, BackToCoworkings, Clicks, ChangesRole, SameMap,
   StudentScreens, AdminScreens

(* With both dates there is a window.                                      *)
LEMMA DatesGiven ==
  ASSUME PageInv
  PROVE  Given(window) <=> window \in Windows
BY PanelAssumption DEF PageInv, Given

LEMMA CallingClicks ==
  ASSUME PageInv,
         ChooseStudent \/ OpenStudentMap \/ ReloadStudentMap \/ ChangeBooking \/ AdminLogin
  PROVE  PageInv'
<1>a. calls \in Seq(Call) /\ hurried' \in BOOLEAN /\ overtaken' \in BOOLEAN
  BY DEF PageInv, ChooseStudent, OpenStudentMap, ReloadStudentMap, ChangeBooking, AdminLogin,
         Clicks, ChangesRole, MapAsked, SameMap
<1>1. CASE ChooseStudent
  <2>1. /\ UserCall("device", Student) \in Call
        /\ UserCall("device", Student).kind = "device"
    BY UserCallMade
  <2>2. calls' = Append(calls, UserCall("device", Student))
    BY <1>1 DEF ChooseStudent
  <2> QED
    BY <1>1, <1>a, <2>1, <2>2, CallMade DEF PageInv, ChooseStudent, SameMap
<1>2. CASE OpenStudentMap
  <2>1. PICK c \in Coworkings, x \in Windows :
          /\ coworking' = c /\ window' = x
          /\ calls' = Append(calls, MapCall(c, x, TRUE))
    BY <1>2, DatesGiven DEF OpenStudentMap
  <2>2. MapCall(c, x, TRUE) \in Call /\ MapCall(c, x, TRUE).kind = "map"
    BY MapCallMade
  <2> QED
    BY <1>2, <1>a, <2>1, <2>2, CallMade DEF PageInv, OpenStudentMap, StudentScreens, MapAsked
<1>3. CASE ReloadStudentMap
  <2>1. CASE Given(window')
    <3>1. PICK x \in Windows :
            window' = x /\ calls' = Append(calls, MapCall(coworking, x, FALSE))
      BY <1>3, <2>1 DEF ReloadStudentMap, Given
    <3>2. MapCall(coworking, x, FALSE) \in Call /\ MapCall(coworking, x, FALSE).kind = "map"
      BY <1>3, MapCallMade DEF PageInv, ReloadStudentMap
    <3>3. map' = Loading
      BY <1>3, <2>1 DEF ReloadStudentMap, MapAsked
    <3> QED
      BY <1>3, <1>a, <3>1, <3>2, <3>3, CallMade DEF PageInv, ReloadStudentMap
  <2>2. CASE ~ Given(window')
    BY <1>3, <2>2, <1>a DEF PageInv, ReloadStudentMap, SameMap
  <2> QED
    BY <2>1, <2>2
<1>4. CASE ChangeBooking
  <2>1. ScreenToken = studentToken
    BY <1>4 DEF ChangeBooking, ScreenToken, AdminScreens
  <2>2. UserCall("change", studentToken) \in Call
    BY UserCallMade DEF PageInv
  <2>3. calls' = Append(calls, UserCall("change", studentToken))
    BY <1>4, <2>1 DEF ChangeBooking
  <2> QED
    BY <1>4, <1>a, <2>2, <2>3, CallMade DEF PageInv, ChangeBooking, SameMap
<1>5. CASE AdminLogin
  <2>1. PICK u \in Bearers : calls' = Append(calls, UserCall("login", u))
    BY <1>5 DEF AdminLogin, Bearers
  <2>2. UserCall("login", u) \in Call /\ UserCall("login", u).kind = "login"
    BY UserCallMade
  <2> QED
    BY <1>5, <1>a, <2>1, <2>2, CallMade DEF PageInv, AdminLogin, SameMap
<1> QED
  BY <1>1, <1>2, <1>3, <1>4, <1>5

(* An answer that nothing follows.                                         *)
LEMMA LastAnswers ==
  ASSUME PageInv, CallFails \/ DeviceLoggedIn \/ BookingsAnswered \/ RoleAnswered
  PROVE  PageInv'
<1>1. PICK i \in DOMAIN calls : Answered(i, <<>>)
  BY DEF CallFails, DeviceLoggedIn, BookingsAnswered, RoleAnswered
<1>a. calls \in Seq(Call) /\ hurried' \in BOOLEAN /\ overtaken' \in BOOLEAN
  BY <1>1 DEF PageInv, Answered, CallFails, DeviceLoggedIn, BookingsAnswered, RoleAnswered, SameMap
<1>2. /\ calls' \in Seq(Call)
      /\ \A j \in DOMAIN calls' : \E k \in DOMAIN calls : calls'[j] = calls[k]
  BY <1>1, <1>a, CallsLeft
<1>3. (\A k \in DOMAIN calls : calls[k].kind = "change" => coworking \in Coworkings)
        => \A j \in DOMAIN calls' : calls'[j].kind = "change" => coworking \in Coworkings
  BY <1>2
<1>4. CASE CallFails
  BY <1>4, <1>a, <1>2, <1>3 DEF PageInv, CallFails, SameMap
<1>5. CASE DeviceLoggedIn
  BY <1>5, <1>a, <1>2, <1>3 DEF PageInv, DeviceLoggedIn, StudentScreens, SameMap
<1>6. CASE BookingsAnswered
  <2>1. \A k \in DOMAIN calls : calls[k] \in Call
    BY <1>a
  <2>2. bookings' \in Users \cup {Nobody}
    BY <1>6, <2>1, CallFields DEF BookingsAnswered, Bearers, Users
  <2> QED
    BY <1>6, <1>a, <1>2, <1>3, <2>2 DEF PageInv, BookingsAnswered, SameMap
<1>7. CASE RoleAnswered
  <2>1. user' \in Admins \cup {Nobody}
    BY <1>7 DEF RoleAnswered, IsAdmin
  <2> QED
    BY <1>7, <1>a, <1>2, <1>3, <2>1 DEF PageInv, RoleAnswered, AdminScreens, SameMap
<1> QED
  BY <1>4, <1>5, <1>6, <1>7

(* An answer that leads to another call.                                   *)
LEMMA FollowedAnswers ==
  ASSUME PageInv, MapAnswered \/ BookingChanged \/ LoggedIn
  PROVE  PageInv'
<1>a. calls \in Seq(Call) /\ hurried' \in BOOLEAN /\ overtaken' \in BOOLEAN
  BY DEF PageInv, MapAnswered, BookingChanged, LoggedIn, Answered, MapAsked, SameMap, Overtakes,
         Youngest
<1>b. \A k \in DOMAIN calls : calls[k] \in Call
  BY <1>a
<1>1. CASE MapAnswered
  <2>1. PICK i \in DOMAIN calls :
          /\ calls[i].kind = "map" /\ map' \in Rendered(calls[i])
          /\ Answered(i, IF calls[i].then THEN <<UserCall("bookings", ScreenToken)>> ELSE <<>>)
    BY <1>1 DEF MapAnswered
  <2>2. map' \in {NoMap, Loading, Failed} \cup (Coworkings \X Windows)
    BY <2>1, <1>b, CallFields DEF Rendered
  <2>3. UserCall("bookings", ScreenToken) \in Call
    BY UserCallMade DEF PageInv, ScreenToken
  <2>4. UserCall("bookings", ScreenToken).kind = "bookings"
    BY UserCallMade
  <2>5. /\ calls' \in Seq(Call)
        /\ \A j \in DOMAIN calls' :
             calls'[j].kind = "change" => \E k \in DOMAIN calls : calls[k].kind = "change"
    <3>1. CASE calls[i].then
      BY <2>1, <2>3, <2>4, <3>1, <1>a, CallsAfter
    <3>2. CASE ~ calls[i].then
      BY <2>1, <3>2, <1>a, CallsLeft
    <3> QED
      BY <3>1, <3>2
  <2> QED
    BY <1>1, <1>a, <2>2, <2>5 DEF PageInv, MapAnswered
<1>2. CASE BookingChanged
  <2>1. PICK i \in DOMAIN calls :
          /\ calls[i].kind = "change"
          /\ \/ /\ Given(window) /\ MapAsked
                /\ Answered(i, <<MapCall(coworking, window, TRUE)>>)
             \/ /\ ~ Given(window) /\ SameMap
                /\ Answered(i, <<UserCall("bookings", ScreenToken)>>)
    BY <1>2 DEF BookingChanged, Selection
  <2>2. coworking \in Coworkings
    BY <2>1 DEF PageInv
  <2>3. UserCall("bookings", ScreenToken) \in Call
    BY UserCallMade DEF PageInv, ScreenToken
  <2>4. Given(window) => MapCall(coworking, window, TRUE) \in Call
    BY <2>2, DatesGiven, MapCallMade
  <2>5. calls' \in Seq(Call)
    BY <2>1, <2>3, <2>4, <1>a, CallsAfter
  <2>6. map' \in {NoMap, Loading, Failed} \cup (Coworkings \X Windows)
    BY <2>1 DEF MapAsked, SameMap, PageInv
  <2> QED
    BY <1>2, <1>a, <2>2, <2>5, <2>6 DEF PageInv, BookingChanged
<1>3. CASE LoggedIn
  <2>1. PICK i \in DOMAIN calls :
          /\ calls[i].kind = "login" /\ adminToken' = calls[i].token
          /\ Answered(i, <<UserCall("me", calls[i].token)>>)
    BY <1>3 DEF LoggedIn
  <2>2. calls[i].token \in Bearers
    BY <2>1, <1>b, CallFields
  <2>3. /\ UserCall("me", calls[i].token) \in Call
        /\ UserCall("me", calls[i].token).kind = "me"
    BY <2>2, UserCallMade
  <2>4. /\ calls' \in Seq(Call)
        /\ \A j \in DOMAIN calls' :
             calls'[j].kind = "change" => \E k \in DOMAIN calls : calls[k].kind = "change"
    BY <2>1, <2>3, <1>a, CallsAfter
  <2> QED
    BY <1>3, <1>a, <2>1, <2>2, <2>4 DEF PageInv, LoggedIn, SameMap
<1> QED
  BY <1>1, <1>2, <1>3

LEMMA PageNext == PageInv /\ [Next]_vars => PageInv'
<1>1. ASSUME PageInv, UNCHANGED vars PROVE PageInv'
  BY <1>1 DEF PageInv, vars, history
<1> QED
  BY <1>1, QuietClicks, CallingClicks, LastAnswers, FollowedAnswers DEF Next

LEMMA PageInvariance == Spec => []PageInv
BY PageInit, PageNext, PTL DEF Spec

(* TypeOK of FrontendSession for every number of calls in flight: no       *)
(* answer puts anything into the page that it does not expect there, and   *)
(* a map is only asked for a coworking that is selected.                   *)
THEOREM PageTypeCorrect == Spec => []TypeOK
<1>1. PageInv => TypeOK
  <2> SUFFICES ASSUME PageInv PROVE TypeOK
    OBVIOUS
  <2>1. \A i \in DOMAIN calls : calls[i] \in Call
    BY DEF PageInv
  <2>2. \A c \in Call :
          c \in {MapCall(b, x, then) : b \in Coworkings, x \in Windows, then \in BOOLEAN}
                  \cup {UserCall(k, u) : k \in {"device", "login", "me", "bookings", "change"},
                                         u \in Users \cup {Nobody}}
    BY DEF Call, Bearers, Users
  <2> QED
    BY <2>1, <2>2 DEF PageInv, TypeOK, Bearers
<1> QED
  BY <1>1, PageInvariance, PTL

-----------------------------------------------------------------------------
(* As long as nobody leaves or logs in while a call is in flight: either   *)
(* the calls in flight are the student's, made with the student's token,   *)
(* and the panel is not open, or the one call in flight is that of the     *)
(* login whose token the page holds.                                       *)
StudentCalls ==
  /\ calls # <<>> => screen # "admin"
  /\ \A i \in DOMAIN calls :
       /\ calls[i].kind \in {"device", "map", "bookings", "change"}
       /\ calls[i].kind \in {"map", "change"} => screen \in StudentScreens
       /\ calls[i].kind \in {"bookings", "change"} => calls[i].token \in {Student, Nobody}

LoginCall ==
  /\ Len(calls) = 1 /\ screen = "admin_login"
  /\ calls[1].kind \in {"login", "me"}
  /\ calls[1].kind = "me" => adminToken = calls[1].token

Waiting ==
  /\ StudentCalls \/ LoginCall
  /\ screen = "admin" => adminToken \in Admins
  /\ bookings \in {Student, Nobody}

WaitInv == ~ hurried => Waiting

LEMMA WaitInit == Init => WaitInv
<1> SUFFICES ASSUME Init PROVE Waiting
  BY DEF WaitInv
<1>1. calls = <<>> /\ DOMAIN calls = {}
  BY DEF Init
<1> QED
  BY <1>1 DEF Init, Waiting, StudentCalls

(* Who changes roles and does not hurry has no call in flight.             *)
LEMMA PatientChange ==
  ASSUME PageInv, ChangesRole, ~ hurried'
  PROVE  ~ hurried /\ calls = <<>> /\ DOMAIN calls = {} /\ Len(calls) = 0
<1>1. calls = <<>> /\ ~ hurried
  BY DEF PageInv, ChangesRole
<1> QED
  BY <1>1

(* A call of the student's follows those in flight.                        *)
LEMMA StudentCallMade ==
  ASSUME PageInv, StudentCalls, NEW c \in Call, calls' = Append(calls, c),
         c.kind \in {"device", "map", "bookings", "change"},
         c.kind \in {"map", "change"} => screen' \in StudentScreens,
         c.kind \in {"bookings", "change"} => c.token \in {Student, Nobody},
         screen' # "admin", screen \in StudentScreens => screen' \in StudentScreens
  PROVE  StudentCalls'
<1>1. /\ DOMAIN calls' = 1 .. Len(calls) + 1 /\ DOMAIN calls = 1 .. Len(calls)
      /\ calls'[Len(calls) + 1] = c
      /\ \A i \in 1 .. Len(calls) : calls'[i] = calls[i]
  BY CallMade DEF PageInv
<1>2. \A j \in DOMAIN calls' :
        calls'[j] = c \/ \E k \in DOMAIN calls : calls'[j] = calls[k]
  <2>1. \A j \in DOMAIN calls' : j = Len(calls) + 1 \/ j \in 1 .. Len(calls)
    BY <1>1 DEF PageInv
  <2> QED
    BY <1>1, <2>1
<1> QED
  BY <1>2 DEF StudentCalls

(* A call of the student's is answered, and at most another one follows.   *)
LEMMA StudentCallAnswered ==
  ASSUME PageInv, StudentCalls, NEW i \in DOMAIN calls,
         \/ Answered(i, <<>>)
         \/ \E c \in Call :
              /\ Answered(i, <<c>>)
              /\ c.kind \in {"map", "bookings"}
              /\ c.kind = "map" => screen' \in StudentScreens
              /\ c.kind = "bookings" => c.token \in {Student, Nobody},
         screen' # "admin", screen \in StudentScreens => screen' \in StudentScreens
  PROVE  StudentCalls'
<1>a. calls \in Seq(Call)
  BY DEF PageInv
<1>1. CASE Answered(i, <<>>)
  <2>1. \A j \in DOMAIN calls' : \E k \in DOMAIN calls : calls'[j] = calls[k]
    BY <1>a, <1>1, CallsLeft
  <2> QED
    BY <2>1 DEF StudentCalls
<1>2. ASSUME NEW c \in Call, Answered(i, <<c>>), c.kind \in {"map", "bookings"},
             c.kind = "map" => screen' \in StudentScreens,
             c.kind = "bookings" => c.token \in {Student, Nobody}
      PROVE  StudentCalls'
  <2>1. \A j \in DOMAIN calls' :
          calls'[j] = c \/ \E k \in DOMAIN calls : calls'[j] = calls[k]
    BY <1>a, <1>2, CallsAfter
  <2> QED
    BY <1>2, <2>1 DEF StudentCalls
<1> QED
  BY <1>1, <1>2

LEMMA LoginCallAlone ==
  ASSUME PageInv, LoginCall
  PROVE  DOMAIN calls = {1} /\ calls # <<>> /\ calls[1].kind \in {"login", "me"}
<1>1. calls \in Seq(Call) /\ Len(calls) = 1
  BY DEF PageInv, LoginCall
<1>2. DOMAIN calls = 1 .. 1 /\ calls # <<>>
  BY <1>1
<1> QED
  BY <1>2 DEF LoginCall

(* What is clicked on the landing page and on the student's screens.       *)
LEMMA PatientClicks ==
  ASSUME PageInv, WaitInv, ~ hurried',
         \/ ChooseStudent \/ ChooseAdmin \/ BackToCoworkings \/ OpenStudentMap
         \/ ReloadStudentMap \/ ChangeBooking
  PROVE  Waiting'
<1>a. Waiting /\ screen \in {"landing"} \cup StudentScreens
  BY DEF WaitInv, Clicks, ChooseStudent, ChooseAdmin, BackToCoworkings, OpenStudentMap,
         ReloadStudentMap, ChangeBooking, StudentScreens
<1>b. StudentCalls
  BY <1>a DEF Waiting, LoginCall, StudentScreens
<1>c. /\ screen' # "admin" /\ bookings' = bookings
      /\ screen \in StudentScreens => screen' \in StudentScreens
  BY <1>a DEF ChooseStudent, ChooseAdmin, BackToCoworkings, OpenStudentMap, ReloadStudentMap,
     ChangeBooking, StudentScreens
<1>d. StudentCalls' => Waiting'
  BY <1>a, <1>c DEF Waiting
<1>1. CASE UNCHANGED calls
  BY <1>1, <1>b, <1>c, <1>d DEF StudentCalls
<1>2. CASE ChooseStudent
  <2>1. UserCall("device", Student) \in Call /\ UserCall("device", Student).kind = "device"
    BY UserCallMade
  <2>2. calls' = Append(calls, UserCall("device", Student))
    BY <1>2 DEF ChooseStudent
  <2> QED
    BY <1>b, <1>c, <1>d, <2>1, <2>2, StudentCallMade
<1>3. CASE OpenStudentMap
  <2>1. PICK c \in Coworkings, x \in Windows : calls' = Append(calls, MapCall(c, x, TRUE))
    BY <1>3, DatesGiven DEF OpenStudentMap
  <2>2. MapCall(c, x, TRUE) \in Call /\ MapCall(c, x, TRUE).kind = "map"
    BY MapCallMade
  <2>3. screen' \in StudentScreens
    BY <1>3 DEF OpenStudentMap, StudentScreens
  <2> QED
    BY <1>b, <1>c, <1>d, <2>1, <2>2, <2>3, StudentCallMade
<1>4. CASE ReloadStudentMap /\ Given(window')
  <2>1. PICK x \in Windows : calls' = Append(calls, MapCall(coworking, x, FALSE))
    BY <1>4 DEF ReloadStudentMap, Given
  <2>2. MapCall(coworking, x, FALSE) \in Call /\ MapCall(coworking, x, FALSE).kind = "map"
    BY <1>4, MapCallMade DEF PageInv, ReloadStudentMap
  <2>3. screen' \in StudentScreens
    BY <1>4 DEF ReloadStudentMap, StudentScreens
  <2> QED
    BY <1>b, <1>c, <1>d, <2>1, <2>2, <2>3, StudentCallMade
<1>5. CASE ChangeBooking
  <2>1. ScreenToken = studentToken /\ studentToken \in {Student, Nobody}
    BY <1>5 DEF ChangeBooking, ScreenToken, AdminScreens, PageInv
  <2> DEFINE c == UserCall("change", studentToken)
  <2>2. c \in Call /\ c.kind = "change" /\ c.token = studentToken
    BY <2>1, UserCallMade
  <2>3. calls' = Append(calls, c) /\ screen' \in StudentScreens
    BY <1>5, <2>1 DEF ChangeBooking, StudentScreens
  <2> HIDE DEF c
  <2> QED
    BY <1>b, <1>c, <1>d, <2>1, <2>2, <2>3, StudentCallMade
<1> QED
  BY <1>1, <1>2, <1>3, <1>4, <1>5 DEF ChooseAdmin, BackToCoworkings, ReloadStudentMap

LEMMA PatientChanges ==
  ASSUME PageInv, WaitInv, ~ hurried', BackHome \/ AdminLogin
  PROVE  Waiting'
<1>a. ChangesRole
  BY DEF BackHome, AdminLogin
<1>b. Waiting /\ calls = <<>> /\ DOMAIN calls = {}
  BY <1>a, PatientChange DEF WaitInv
<1>1. CASE BackHome
  BY <1>1, <1>b DEF BackHome, Waiting, StudentCalls
<1>2. CASE AdminLogin
  <2>1. PICK u \in Bearers : calls' = Append(calls, UserCall("login", u))
    BY <1>2 DEF AdminLogin, Bearers
  <2>2. UserCall("login", u) \in Call /\ UserCall("login", u).kind = "login"
    BY UserCallMade
  <2>3. Len(calls) = 0 /\ calls \in Seq(Call)
    BY <1>b DEF PageInv
  <2>4. Len(calls') = 1 /\ calls'[1] = UserCall("login", u)
    BY <2>1, <2>2, <2>3, CallMade
  <2>5. LoginCall'
    BY <1>2, <2>2, <2>4 DEF LoginCall, AdminLogin
  <2> QED
    BY <1>2, <1>b, <2>5 DEF Waiting, AdminLogin
<1> QED
  BY <1>1, <1>2

(* The answers to the student's calls.                                     *)
LEMMA StudentAnswers ==
  ASSUME PageInv, WaitInv, ~ hurried',
         DeviceLoggedIn \/ MapAnswered \/ BookingsAnswered \/ BookingChanged
  PROVE  Waiting'
<1>a. Waiting
  BY DEF WaitInv, DeviceLoggedIn, MapAnswered, BookingsAnswered, BookingChanged, Answered
<1>b. PICK i \in DOMAIN calls : calls[i].kind \in {"device", "map", "bookings", "change"}
  BY DEF DeviceLoggedIn, MapAnswered, BookingsAnswered, BookingChanged
<1>c. StudentCalls /\ screen # "admin"
  <2>1. ~ LoginCall
    BY <1>b, LoginCallAlone
  <2>2. calls # <<>>
    BY <1>b
  <2> QED
    BY <1>a, <2>1, <2>2 DEF Waiting, StudentCalls
<1>1. CASE DeviceLoggedIn
  <2>1. /\ screen' # "admin" /\ screen' \in StudentScreens /\ bookings' = bookings
        /\ \E j \in DOMAIN calls : Answered(j, <<>>)
    BY <1>1 DEF DeviceLoggedIn, StudentScreens
  <2>2. StudentCalls'
    BY <1>c, <2>1, StudentCallAnswered
  <2> QED
    BY <1>a, <2>1, <2>2 DEF Waiting
<1>2. CASE MapAnswered
  <2>1. PICK j \in DOMAIN calls :
          /\ calls[j].kind = "map"
          /\ Answered(j, IF calls[j].then THEN <<UserCall("bookings", ScreenToken)>> ELSE <<>>)
    BY <1>2 DEF MapAnswered
  <2>2. ScreenToken = studentToken /\ studentToken \in {Student, Nobody}
    BY <1>c, <2>1 DEF StudentCalls, ScreenToken, AdminScreens, StudentScreens, PageInv
  <2> DEFINE c == UserCall("bookings", studentToken)
  <2>3. c \in Call /\ c.kind = "bookings" /\ c.token \in {Student, Nobody}
    BY <2>2, UserCallMade
  <2> HIDE DEF c
  <2>4. Answered(j, <<>>) \/ Answered(j, <<c>>)
    BY <2>1, <2>2 DEF c
  <2>5. UNCHANGED <<screen, bookings, adminToken>>
    BY <1>2 DEF MapAnswered
  <2>6. StudentCalls'
    BY <1>c, <2>3, <2>4, <2>5, StudentCallAnswered
  <2> QED
    BY <1>a, <2>5, <2>6 DEF Waiting
<1>3. CASE BookingsAnswered
  <2>1. PICK j \in DOMAIN calls :
          /\ calls[j].kind = "bookings" /\ Answered(j, <<>>) /\ bookings' = calls[j].token
    BY <1>3 DEF BookingsAnswered
  <2>2. UNCHANGED <<screen, adminToken>>
    BY <1>3 DEF BookingsAnswered
  <2>3. StudentCalls' /\ bookings' \in {Student, Nobody}
    BY <1>c, <2>1, <2>2, StudentCallAnswered DEF StudentCalls
  <2> QED
    BY <1>a, <2>2, <2>3 DEF Waiting
<1>4. CASE BookingChanged
  <2>1. PICK j \in DOMAIN calls :
          /\ calls[j].kind = "change"
          /\ \/ Given(window) /\ Answered(j, <<MapCall(coworking, window, TRUE)>>)
             \/ Answered(j, <<UserCall("bookings", ScreenToken)>>)
    BY <1>4 DEF BookingChanged, Selection
  <2>2. /\ ScreenToken = studentToken /\ studentToken \in {Student, Nobody}
        /\ screen \in StudentScreens /\ coworking \in Coworkings
    BY <1>c, <2>1 DEF StudentCalls, ScreenToken, AdminScreens, StudentScreens, PageInv
  <2>3. UNCHANGED <<screen, bookings, adminToken>>
    BY <1>4 DEF BookingChanged
  <2> DEFINE c == UserCall("bookings", studentToken)
             m == MapCall(coworking, window, TRUE)
  <2>4. c \in Call /\ c.kind = "bookings" /\ c.token \in {Student, Nobody}
    BY <2>2, UserCallMade
  <2>5. Given(window) => m \in Call /\ m.kind = "map"
    BY <2>2, DatesGiven, MapCallMade
  <2>6. (Given(window) /\ Answered(j, <<m>>)) \/ Answered(j, <<c>>)
    BY <2>1, <2>2
  <2> HIDE DEF c, m
  <2>7. StudentCalls'
    BY <1>c, <2>2, <2>3, <2>4, <2>5, <2>6, StudentCallAnswered
  <2> QED
    BY <1>a, <2>3, <2>7 DEF Waiting
<1> QED
  BY <1>1, <1>2, <1>3, <1>4

(* The answers to a login, and a call that fails.                          *)
LEMMA LoginAnswers ==
  ASSUME PageInv, WaitInv, ~ hurried', CallFails \/ LoggedIn \/ RoleAnswered
  PROVE  Waiting'
<1>a. Waiting /\ calls \in Seq(Call)
  BY DEF WaitInv, CallFails, LoggedIn, RoleAnswered, Answered, PageInv
<1>1. CASE CallFails
  <2>1. PICK i \in DOMAIN calls : Answered(i, <<>>)
    BY <1>1 DEF CallFails
  <2>2. UNCHANGED <<screen, bookings, adminToken>>
    BY <1>1 DEF CallFails
  <2>3. CASE StudentCalls
    <3>1. screen' # "admin"
      BY <2>1, <2>2, <2>3 DEF StudentCalls
    <3>2. StudentCalls'
      BY <2>1, <2>2, <2>3, <3>1, StudentCallAnswered
    <3> QED
      BY <1>a, <2>2, <3>2 DEF Waiting
  <2>4. CASE LoginCall
    <3>1. calls' \in Seq(Call) /\ Len(calls') = 0 /\ DOMAIN calls' = {}
      BY <1>a, <2>1, <2>4, CallGone DEF LoginCall
    <3>2. calls' = <<>>
      BY <3>1
    <3>3. StudentCalls'
      BY <3>1, <3>2 DEF StudentCalls
    <3> QED
      BY <1>a, <2>2, <3>3 DEF Waiting
  <2> QED
    BY <1>a, <2>3, <2>4 DEF Waiting
<1>2. ASSUME LoggedIn \/ RoleAnswered PROVE LoginCall /\ DOMAIN calls = {1}
  <2>1. \E i \in DOMAIN calls : calls[i].kind \in {"login", "me"}
    BY <1>2 DEF LoggedIn, RoleAnswered
  <2>2. LoginCall
    BY <1>a, <2>1 DEF Waiting, StudentCalls
  <2> QED
    BY <2>2, LoginCallAlone
<1>3. CASE LoggedIn
  <2>1. /\ calls[1].kind = "login" /\ adminToken' = calls[1].token
        /\ Answered(1, <<UserCall("me", calls[1].token)>>) /\ 1 \in DOMAIN calls
    BY <1>2, <1>3 DEF LoggedIn
  <2> DEFINE c == UserCall("me", calls[1].token)
  <2>2. calls[1].token \in Bearers
    BY <1>a, <2>1, CallFields
  <2>3. c \in Call /\ c.kind = "me" /\ c.token = calls[1].token
    BY <2>2, UserCallMade
  <2>4. screen = "admin_login" /\ UNCHANGED <<screen, bookings>> /\ Len(calls) = 1
    BY <1>2, <1>3 DEF LoginCall, LoggedIn
  <2>5. Answered(1, <<c>>)
    BY <2>1
  <2> HIDE DEF c
  <2>6. Len(calls') = 1 /\ calls'[1] = c
    BY <1>a, <2>1, <2>3, <2>4, <2>5, CallReplaced
  <2>7. LoginCall'
    BY <2>1, <2>3, <2>4, <2>6 DEF LoginCall
  <2> QED
    BY <1>a, <2>4, <2>7 DEF Waiting
<1>4. CASE RoleAnswered
  <2>1. /\ calls[1].kind = "me" /\ calls[1].token \in Admins
        /\ Answered(1, <<>>) /\ 1 \in DOMAIN calls
    BY <1>2, <1>4 DEF RoleAnswered, IsAdmin
  <2>2. Len(calls) = 1 /\ adminToken \in Admins /\ UNCHANGED <<adminToken, bookings>>
    BY <1>2, <1>4, <2>1 DEF LoginCall, RoleAnswered
  <2>3. calls' \in Seq(Call) /\ Len(calls') = 0 /\ DOMAIN calls' = {}
    BY <1>a, <2>1, <2>2, CallGone
  <2>4. calls' = <<>>
    BY <2>3
  <2>5. StudentCalls'
    BY <2>3, <2>4 DEF StudentCalls
  <2> QED
    BY <1>a, <2>2, <2>5 DEF Waiting
<1> QED
  BY <1>1, <1>3, <1>4

LEMMA WaitNext == PageInv /\ WaitInv /\ [Next]_vars => WaitInv'
<1> SUFFICES ASSUME PageInv, WaitInv, [Next]_vars, ~ hurried' PROVE Waiting'
  BY DEF WaitInv
<1>1. CASE UNCHANGED vars
  BY <1>1 DEF WaitInv, Waiting, StudentCalls, LoginCall, vars, history
<1> QED
  BY <1>1, PatientClicks, PatientChanges, StudentAnswers, LoginAnswers DEF Next

LEMMA WaitInvariance == Spec => []WaitInv
BY WaitInit, WaitNext, PageInvariance, PTL DEF Spec

(* The panel is open with the token of an administrator, for any number of *)
(* users of either role and of calls in flight, as long as nobody leaves   *)
(* or logs in while one is.                                                *)
THEOREM PanelHasAdminToken == Spec => []AdminScreenHasAdminToken
<1>1. WaitInv => AdminScreenHasAdminToken
  BY DEF WaitInv, Waiting, AdminScreenHasAdminToken
<1> QED
  BY <1>1, WaitInvariance, PTL

(* ... and the list of the student has nobody else's bookings, although    *)
(* both tokens are kept while student and administrator take turns.        *)
THEOREM OwnBookingsForPatient == Spec => []StudentSeesOwnBookings
<1>1. WaitInv => StudentSeesOwnBookings
  BY DEF WaitInv, Waiting, StudentSeesOwnBookings
<1> QED
  BY <1>1, WaitInvariance, PTL

-----------------------------------------------------------------------------
(* The youngest map in flight is of what is selected, and when none is in  *)
(* flight the page already shows that one.                                 *)
OfSelection(c, x) == c = coworking /\ (Given(window) => x = window)

NoMapComes == \A i \in DOMAIN calls : calls[i].kind # "map"

SelectionComing ==
  /\ \A i \in DOMAIN calls : Youngest(i) => OfSelection(calls[i].coworking, calls[i].window)
  /\ NoMapComes /\ map \in Coworkings \X Windows => OfSelection(map[1], map[2])

OrderInv == ~ overtaken => SelectionComing

LEMMA OrderInit == Init => OrderInv
<1> SUFFICES ASSUME Init PROVE SelectionComing
  BY DEF OrderInv
<1>1. DOMAIN calls = {} /\ map \notin Coworkings \X Windows
  BY PanelAssumption DEF Init
<1> QED
  BY <1>1 DEF SelectionComing

(* A map of what is selected now is asked for: it is the youngest.         *)
LEMMA MapComes ==
  ASSUME NEW n \in Nat, NEW m, DOMAIN calls' = 1 .. n + 1, calls'[n + 1] = m,
         m.kind = "map", m.coworking = coworking', m.window = window'
  PROVE  SelectionComing'
<1>1. n + 1 \in DOMAIN calls' /\ \A j \in DOMAIN calls' : j # n + 1 => n + 1 > j
  OBVIOUS
<1>2. ASSUME NEW j \in DOMAIN calls', Youngest(j)' PROVE j = n + 1
  BY <1>1, <1>2 DEF Youngest
<1>3. ~ NoMapComes'
  BY <1>1 DEF NoMapComes
<1> QED
  BY <1>2, <1>3 DEF SelectionComing, OfSelection

(* A call that is no map follows those in flight.                          *)
LEMMA OtherComes ==
  ASSUME NEW n \in Nat, NEW c, DOMAIN calls = 1 .. n, DOMAIN calls' = 1 .. n + 1,
         calls'[n + 1] = c, \A j \in 1 .. n : calls'[j] = calls[j],
         c.kind # "map", SelectionComing, UNCHANGED <<coworking, window, map>>
  PROVE  SelectionComing'
<1>1. ASSUME NEW j \in DOMAIN calls', Youngest(j)' PROVE j \in DOMAIN calls /\ Youngest(j)
  BY <1>1 DEF Youngest
<1>2. NoMapComes' => NoMapComes
  BY DEF NoMapComes
<1> QED
  BY <1>1, <1>2 DEF SelectionComing, OfSelection, Given

LEMMA OrderlyClicks ==
  ASSUME PageInv, OrderInv, ~ overtaken',
         \/ ChooseStudent \/ ChooseAdmin \/ BackHome \/ BackToCoworkings \/ OpenStudentMap
         \/ ReloadStudentMap \/ ChangeBooking \/ AdminLogin
  PROVE  SelectionComing'
<1>a. calls \in Seq(Call) /\ Len(calls) \in Nat
  BY DEF PageInv
<1>b. ASSUME SameMap PROVE SelectionComing /\ map' = map
  BY <1>b DEF OrderInv, SameMap
<1>1. CASE ChooseAdmin \/ BackHome \/ BackToCoworkings
  <2>1. SameMap /\ UNCHANGED <<coworking, window, calls>>
    BY <1>1 DEF ChooseAdmin, BackHome, BackToCoworkings
  <2> QED
    BY <2>1, <1>b DEF SelectionComing, OfSelection, NoMapComes, Youngest, Given
<1>2. ASSUME NEW c \in Call, c.kind # "map", calls' = Append(calls, c),
             SameMap, UNCHANGED <<coworking, window>>
      PROVE  SelectionComing'
  BY <1>2, <1>a, <1>b, CallMade, OtherComes
<1>3. ASSUME NEW c \in Call, calls' = Append(calls, c), c.kind = "map",
             c.coworking = coworking', c.window = window'
      PROVE  SelectionComing'
  BY <1>3, <1>a, CallMade, MapComes
<1>4. CASE ChooseStudent
  <2>1. UserCall("device", Student) \in Call /\ UserCall("device", Student).kind # "map"
    BY UserCallMade
  <2> QED
    BY <1>4, <1>2, <2>1 DEF ChooseStudent
<1>5. CASE OpenStudentMap
  <2>1. PICK c \in Coworkings, x \in Windows :
          coworking' = c /\ window' = x /\ calls' = Append(calls, MapCall(c, x, TRUE))
    BY <1>5, DatesGiven DEF OpenStudentMap
  <2>2. /\ MapCall(c, x, TRUE) \in Call /\ MapCall(c, x, TRUE).kind = "map"
        /\ MapCall(c, x, TRUE).coworking = c /\ MapCall(c, x, TRUE).window = x
    BY MapCallMade
  <2> QED
    BY <1>3, <2>1, <2>2
<1>6. CASE ReloadStudentMap
  <2>1. CASE Given(window')
    <3>1. PICK x \in Windows :
            /\ window' = x /\ coworking' = coworking
            /\ calls' = Append(calls, MapCall(coworking, x, FALSE))
      BY <1>6, <2>1 DEF ReloadStudentMap, Given
    <3>2. coworking \in Coworkings
      BY <1>6 DEF PageInv, ReloadStudentMap
    <3>3. /\ MapCall(coworking, x, FALSE) \in Call
          /\ MapCall(coworking, x, FALSE).kind = "map"
          /\ MapCall(coworking, x, FALSE).coworking = coworking
          /\ MapCall(coworking, x, FALSE).window = x
      BY <3>2, MapCallMade
    <3> QED
      BY <1>3, <3>1, <3>3
  <2>2. CASE ~ Given(window')
    <3>1. SelectionComing /\ UNCHANGED <<coworking, map, calls>>
      BY <1>6, <2>2, <1>b DEF ReloadStudentMap
    <3> QED
      BY <2>2, <3>1 DEF SelectionComing, OfSelection, NoMapComes, Youngest, Given
  <2> QED
    BY <2>1, <2>2
<1>7. CASE ChangeBooking
  <2>1. ScreenToken = studentToken /\ studentToken \in {Student, Nobody}
    BY <1>7 DEF ChangeBooking, ScreenToken, AdminScreens, PageInv
  <2>2. UserCall("change", studentToken) \in Call /\ UserCall("change", studentToken).kind # "map"
    BY <2>1, UserCallMade
  <2> QED
    BY <1>7, <1>2, <2>1, <2>2 DEF ChangeBooking
<1>8. CASE AdminLogin
  <2>1. PICK u \in Bearers : calls' = Append(calls, UserCall("login", u))
    BY <1>8 DEF AdminLogin, Bearers
  <2>2. UserCall("login", u) \in Call /\ UserCall("login", u).kind # "map"
    BY UserCallMade
  <2> QED
    BY <1>8, <1>2, <2>1, <2>2 DEF AdminLogin
<1> QED
  BY <1>1, <1>4, <1>5, <1>6, <1>7, <1>8

(* Call i is answered and no map follows: the youngest map stays the       *)
(* youngest, or it is the one that the page shows now, and then no older   *)
(* one is left.                                                            *)
LEMMA OthersMoveUp ==
  ASSUME SelectionComing, NEW n \in Nat \ {0}, NEW i \in 1 .. n, DOMAIN calls = 1 .. n,
         DOMAIN calls' \in {1 .. n - 1, 1 .. n},
         \A j \in 1 .. n - 1 : calls'[j] = calls[IF j < i THEN j ELSE j + 1],
         n \in DOMAIN calls' => calls'[n].kind # "map",
         \/ calls[i].kind # "map" /\ map' = map
         \/ calls[i].kind = "map" /\ map' \in Rendered(calls[i]) /\ ~ Overtakes(i),
         UNCHANGED <<coworking, window>>
  PROVE  SelectionComing'
<1>1. 1 .. n - 1 \subseteq DOMAIN calls' /\ DOMAIN calls' \subseteq 1 .. n
  OBVIOUS
<1>0. ASSUME NEW k \in DOMAIN calls, k # i
      PROVE  LET p == IF k < i THEN k ELSE k - 1
             IN  p \in 1 .. n - 1 /\ p \in DOMAIN calls' /\ calls'[p] = calls[k]
  <2>1. CASE k < i
    BY <1>1, <2>1
  <2>2. CASE k > i
    <3>1. k - 1 \in 1 .. n - 1 /\ ~ (k - 1 < i) /\ (k - 1) + 1 = k
      BY <2>2
    <3>2. k - 1 \in DOMAIN calls' /\ calls'[k - 1] = calls[k]
      BY <1>1, <3>1
    <3>3. ~ (k < i)
      BY <2>2
    <3> QED
      BY <3>1, <3>2, <3>3
  <2>3. k < i \/ k > i
    BY <1>0
  <2> QED
    BY <2>1, <2>2, <2>3
<1>2. ASSUME NEW j \in DOMAIN calls', Youngest(j)'
      PROVE  OfSelection(calls[j].coworking, calls[j].window)'
  <2> DEFINE k == IF j < i THEN j ELSE j + 1
  <2>1. j \in 1 .. n - 1
    BY <1>1, <1>2 DEF Youngest
  <2>2. /\ k \in DOMAIN calls /\ k # i /\ calls'[j] = calls[k]
        /\ j < i => k = j
        /\ j >= i => k = j + 1
    BY <2>1
  <2> HIDE DEF k
  <2>3. ASSUME NEW l \in DOMAIN calls, l # i, l > k PROVE calls[l].kind # "map"
    <3> DEFINE p == IF l < i THEN l ELSE l - 1
    <3>1. p \in DOMAIN calls' /\ calls'[p] = calls[l]
      BY <1>0, <2>3
    <3>2. p > j
      BY <2>1, <2>2, <2>3
    <3> HIDE DEF p
    <3> QED
      BY <1>2, <3>1, <3>2 DEF Youngest
  <2>4. calls[k].kind = "map"
    BY <1>2, <2>2 DEF Youngest
  <2>5. i > k => calls[i].kind # "map"
    <3> SUFFICES ASSUME i > k, calls[i].kind = "map" PROVE FALSE
      OBVIOUS
    <3>1. \A l \in DOMAIN calls : l > i => l # i /\ l > k
      BY <2>2
    <3>2. Youngest(i)
      BY <2>3, <3>1 DEF Youngest
    <3>3. k < i
      BY <2>2
    <3> QED
      BY <2>2, <2>4, <3>2, <3>3 DEF Overtakes
  <2>6. Youngest(k)
    BY <2>3, <2>4, <2>5 DEF Youngest
  <2> QED
    BY <2>2, <2>6 DEF SelectionComing, OfSelection, Given
<1>3. ASSUME NoMapComes', map' \in Coworkings \X Windows
      PROVE  OfSelection(map[1], map[2])'
  <2>1. \A k \in DOMAIN calls : k # i => calls[k].kind # "map"
    BY <1>0, <1>3 DEF NoMapComes
  <2>2. CASE calls[i].kind = "map"
    <3>1. Youngest(i)
      BY <2>1, <2>2 DEF Youngest
    <3>2. map' = <<calls[i].coworking, calls[i].window>>
      BY <1>3, <2>2, PanelAssumption DEF Rendered
    <3>3. map'[1] = calls[i].coworking /\ map'[2] = calls[i].window
      BY <3>2
    <3> QED
      BY <3>1, <3>3 DEF SelectionComing, OfSelection, Given
  <2>3. CASE calls[i].kind # "map"
    <3>1. NoMapComes /\ map' = map
      BY <2>1, <2>3 DEF NoMapComes
    <3> QED
      BY <1>3, <3>1 DEF SelectionComing, OfSelection, Given
  <2> QED
    BY <2>2, <2>3
<1> QED
  BY <1>2, <1>3 DEF SelectionComing

LEMMA OrderlyAnswers ==
  ASSUME PageInv, OrderInv, ~ overtaken',
         \/ CallFails \/ DeviceLoggedIn \/ MapAnswered \/ BookingsAnswered \/ BookingChanged
         \/ LoggedIn \/ RoleAnswered
  PROVE  SelectionComing'
<1>a. ASSUME SameMap PROVE SelectionComing /\ map' = map
  BY <1>a DEF OrderInv, SameMap
<1>b. calls \in Seq(Call) /\ \A i \in DOMAIN calls : calls[i] \in Call
  BY DEF PageInv
<1>1. ASSUME NEW i \in DOMAIN calls, Answered(i, <<>>), UNCHANGED <<coworking, window>>,
             SelectionComing,
             \/ calls[i].kind # "map" /\ map' = map
             \/ calls[i].kind = "map" /\ map' \in Rendered(calls[i]) /\ ~ Overtakes(i)
      PROVE  SelectionComing'
  <2>1. /\ Len(calls) \in Nat \ {0} /\ i \in 1 .. Len(calls)
        /\ DOMAIN calls' = 1 .. Len(calls) - 1 /\ DOMAIN calls = 1 .. Len(calls)
        /\ \A j \in 1 .. Len(calls) - 1 : calls'[j] = calls[IF j < i THEN j ELSE j + 1]
    BY <1>1, <1>b, CallGone
  <2>2. Len(calls) \notin DOMAIN calls'
    BY <2>1
  <2> QED
    BY <1>1, <2>1, <2>2, OthersMoveUp
<1>2. ASSUME NEW i \in DOMAIN calls, NEW c \in Call, c.kind # "map", Answered(i, <<c>>),
             UNCHANGED <<coworking, window>>, SelectionComing,
             \/ calls[i].kind # "map" /\ map' = map
             \/ calls[i].kind = "map" /\ map' \in Rendered(calls[i]) /\ ~ Overtakes(i)
      PROVE  SelectionComing'
  <2>1. /\ Len(calls) \in Nat \ {0} /\ i \in 1 .. Len(calls) /\ calls'[Len(calls)] = c
        /\ DOMAIN calls' = 1 .. Len(calls) /\ DOMAIN calls = 1 .. Len(calls)
        /\ \A j \in 1 .. Len(calls) - 1 : calls'[j] = calls[IF j < i THEN j ELSE j + 1]
    BY <1>2, <1>b, CallReplaced
  <2> QED
    BY <1>2, <2>1, OthersMoveUp
<1>3. CASE CallFails \/ DeviceLoggedIn \/ BookingsAnswered \/ RoleAnswered
  <2>1. /\ \E i \in DOMAIN calls : calls[i].kind # "map" /\ Answered(i, <<>>)
        /\ SameMap /\ UNCHANGED <<coworking, window>>
    BY <1>3 DEF CallFails, DeviceLoggedIn, BookingsAnswered, RoleAnswered
  <2> QED
    BY <1>1, <1>a, <2>1
<1>4. CASE MapAnswered
  <2>1. PICK i \in DOMAIN calls :
          /\ calls[i].kind = "map" /\ map' \in Rendered(calls[i])
          /\ overtaken' = (overtaken \/ Overtakes(i))
          /\ Answered(i, IF calls[i].then THEN <<UserCall("bookings", ScreenToken)>> ELSE <<>>)
    BY <1>4 DEF MapAnswered
  <2>2. UNCHANGED <<coworking, window>>
    BY <1>4 DEF MapAnswered
  <2>3. UserCall("bookings", ScreenToken) \in Call
    BY UserCallMade DEF PageInv, ScreenToken
  <2>4. UserCall("bookings", ScreenToken).kind # "map"
    BY UserCallMade
  <2>7. SelectionComing /\ ~ Overtakes(i)
    BY <2>1 DEF OrderInv
  <2>5. CASE calls[i].then
    BY <2>1, <2>2, <2>3, <2>4, <2>5, <2>7, <1>2
  <2>6. CASE ~ calls[i].then
    BY <2>1, <2>2, <2>6, <2>7, <1>1
  <2> QED
    BY <2>5, <2>6
<1>5. CASE BookingChanged
  <2>1. PICK i \in DOMAIN calls :
          /\ calls[i].kind = "change"
          /\ \/ /\ Given(window) /\ MapAsked
                /\ Answered(i, <<MapCall(coworking, window, TRUE)>>)
             \/ /\ ~ Given(window) /\ SameMap
                /\ Answered(i, <<UserCall("bookings", ScreenToken)>>)
    BY <1>5 DEF BookingChanged, Selection
  <2>2. UNCHANGED <<coworking, window>>
    BY <1>5 DEF BookingChanged
  <2>3. CASE Given(window)
    <3> DEFINE m == MapCall(coworking, window, TRUE)
    <3>1. coworking \in Coworkings /\ window \in Windows
      BY <2>1, <2>3, DatesGiven DEF PageInv
    <3>2. m \in Call /\ m.kind = "map" /\ m.coworking = coworking' /\ m.window = window'
      BY <2>2, <3>1, MapCallMade
    <3>3. Answered(i, <<m>>)
      BY <2>1, <2>3
    <3> HIDE DEF m
    <3>4. /\ Len(calls) \in Nat \ {0} /\ DOMAIN calls' = 1 .. Len(calls)
          /\ calls'[Len(calls)] = m
      BY <1>b, <3>2, <3>3, CallReplaced
    <3>5. Len(calls) - 1 \in Nat /\ (Len(calls) - 1) + 1 = Len(calls)
      BY <3>4
    <3> QED
      BY <3>2, <3>4, <3>5, MapComes
  <2>4. CASE ~ Given(window)
    <3>1. UserCall("bookings", ScreenToken) \in Call
      BY UserCallMade DEF PageInv, ScreenToken
    <3>2. UserCall("bookings", ScreenToken).kind # "map"
      BY UserCallMade
    <3>3. SameMap /\ Answered(i, <<UserCall("bookings", ScreenToken)>>)
      BY <2>1, <2>4
    <3>4. calls[i].kind # "map"
      BY <2>1
    <3> QED
      BY <1>2, <1>a, <2>2, <3>1, <3>2, <3>3, <3>4
  <2> QED
    BY <2>3, <2>4
<1>6. CASE LoggedIn
  <2>1. PICK i \in DOMAIN calls :
          calls[i].kind = "login" /\ Answered(i, <<UserCall("me", calls[i].token)>>)
    BY <1>6 DEF LoggedIn
  <2>2. calls[i].token \in Bearers
    BY <2>1, <1>b, CallFields
  <2>3. /\ UserCall("me", calls[i].token) \in Call
        /\ UserCall("me", calls[i].token).kind # "map"
    BY <2>2, UserCallMade
  <2>4. SameMap /\ UNCHANGED <<coworking, window>> /\ calls[i].kind # "map"
    BY <1>6, <2>1 DEF LoggedIn
  <2> QED
    BY <1>a, <2>1, <2>3, <2>4, <1>2
<1> QED
  BY <1>3, <1>4, <1>5, <1>6

LEMMA OrderNext == PageInv /\ OrderInv /\ [Next]_vars => OrderInv'
<1> SUFFICES ASSUME PageInv, OrderInv, [Next]_vars, ~ overtaken' PROVE SelectionComing'
  BY DEF OrderInv
<1>1. CASE UNCHANGED vars
  BY <1>1 DEF OrderInv, SelectionComing, OfSelection, NoMapComes, Youngest, Given, vars, history
<1> QED
  BY <1>1, OrderlyClicks, OrderlyAnswers DEF Next

LEMMA OrderInvariance == Spec => []OrderInv
BY OrderInit, OrderNext, PageInvariance, PTL DEF Spec

(* However many maps are on their way and in whatever order the older ones *)
(* come: if the youngest overtakes none, the map left on the page is that  *)
(* of the coworking selected, and of the dates too if both are given.      *)
THEOREM LastMapIsOfSelection == Spec => []MapIsOfSelection
<1>1. OrderInv => MapIsOfSelection
  BY DEF OrderInv, SelectionComing, OfSelection, NoMapComes, MapIsOfSelection
<1> QED
  BY <1>1, OrderInvariance, PTL

-----------------------------------------------------------------------------
(* The hint is shown only while a map is on its way: LoadingEnds needs no  *)
(* more of the network than that it settles every call.                    *)
HintHasCall == map = Loading => \E i \in DOMAIN calls : calls[i].kind = "map"

LEMMA HintNext == PageInv /\ HintHasCall /\ [Next]_vars => HintHasCall'
<1> SUFFICES ASSUME PageInv, HintHasCall, [Next]_vars, map' = Loading
             PROVE  \E i \in DOMAIN calls' : calls'[i].kind = "map"
  BY DEF HintHasCall
<1>a. calls \in Seq(Call) /\ \A i \in DOMAIN calls : calls[i] \in Call
  BY DEF PageInv
<1>1. CASE UNCHANGED vars
  BY <1>1 DEF HintHasCall, vars
<1>2. ASSUME NEW c \in Call, calls' = Append(calls, c), c.kind = "map" \/ map' = map
      PROVE  \E i \in DOMAIN calls' : calls'[i].kind = "map"
  <2>1. /\ DOMAIN calls' = 1 .. Len(calls) + 1 /\ DOMAIN calls = 1 .. Len(calls)
        /\ calls'[Len(calls) + 1] = c /\ Len(calls) \in Nat
        /\ \A i \in 1 .. Len(calls) : calls'[i] = calls[i]
    BY <1>2, <1>a, CallMade
  <2>2. CASE c.kind = "map"
    BY <2>1, <2>2
  <2>3. CASE map' = map
    <3>1. PICK k \in DOMAIN calls : calls[k].kind = "map"
      BY <2>3 DEF HintHasCall
    <3> QED
      BY <2>1, <3>1
  <2> QED
    BY <1>2, <2>2, <2>3
<1>3. ASSUME NEW i \in DOMAIN calls, calls[i].kind # "map", map' = map,
             Answered(i, <<>>) \/ \E c \in Call : Answered(i, <<c>>)
      PROVE  \E j \in DOMAIN calls' : calls'[j].kind = "map"
  <2>1. PICK k \in DOMAIN calls : calls[k].kind = "map"
    BY <1>3 DEF HintHasCall
  <2> DEFINE j == IF k < i THEN k ELSE k - 1
  <2>2. /\ Len(calls) \in Nat /\ DOMAIN calls = 1 .. Len(calls) /\ k # i
    BY <1>a, <1>3, <2>1
  <2>3. j \in 1 .. Len(calls) - 1 /\ k = IF j < i THEN j ELSE j + 1
    BY <2>2
  <2> HIDE DEF j
  <2>4. CASE Answered(i, <<>>)
    <3>1. DOMAIN calls' = 1 .. Len(calls) - 1 /\ calls'[j] = calls[k]
      BY <1>a, <2>3, <2>4, CallGone
    <3> QED
      BY <2>1, <2>3, <3>1
  <2>5. CASE \E c \in Call : Answered(i, <<c>>)
    <3>1. j \in DOMAIN calls' /\ calls'[j] = calls[k]
      BY <1>a, <2>2, <2>3, <2>5, CallReplaced
    <3> QED
      BY <2>1, <3>1
  <2> QED
    BY <1>3, <2>4, <2>5
<1>4. CASE ChooseAdmin \/ BackHome \/ BackToCoworkings
  BY <1>4 DEF HintHasCall, ChooseAdmin, BackHome, BackToCoworkings, SameMap
<1>5. CASE ChooseStudent
  <2>1. UserCall("device", Student) \in Call
    BY UserCallMade
  <2> QED
    BY <1>5, <1>2, <2>1 DEF ChooseStudent, SameMap
<1>6. CASE OpenStudentMap
  <2>1. PICK c \in Coworkings, x \in Windows : calls' = Append(calls, MapCall(c, x, TRUE))
    BY <1>6, DatesGiven DEF OpenStudentMap
  <2>2. MapCall(c, x, TRUE) \in Call /\ MapCall(c, x, TRUE).kind = "map"
    BY MapCallMade
  <2> QED
    BY <1>2, <2>1, <2>2
<1>7. CASE ReloadStudentMap
  <2>1. CASE Given(window')
    <3>1. PICK x \in Windows : calls' = Append(calls, MapCall(coworking, x, FALSE))
      BY <1>7, <2>1 DEF ReloadStudentMap, Given
    <3>2. MapCall(coworking, x, FALSE) \in Call /\ MapCall(coworking, x, FALSE).kind = "map"
      BY <1>7, MapCallMade DEF PageInv, ReloadStudentMap
    <3> QED
      BY <1>2, <3>1, <3>2
  <2>2. CASE ~ Given(window')
    BY <1>7, <2>2 DEF HintHasCall, ReloadStudentMap, SameMap
  <2> QED
    BY <2>1, <2>2
<1>8. CASE ChangeBooking
  <2>1. ScreenToken = studentToken /\ studentToken \in {Student, Nobody}
    BY <1>8 DEF ChangeBooking, ScreenToken, AdminScreens, PageInv
  <2>2. UserCall("change", studentToken) \in Call
    BY <2>1, UserCallMade
  <2> QED
    BY <1>8, <1>2, <2>1, <2>2 DEF ChangeBooking, SameMap
<1>9. CASE AdminLogin
  <2>1. PICK u \in Bearers : calls' = Append(calls, UserCall("login", u))
    BY <1>9 DEF AdminLogin, Bearers
  <2>2. UserCall("login", u) \in Call
    BY UserCallMade
  <2> QED
    BY <1>9, <1>2, <2>1, <2>2 DEF AdminLogin, SameMap
<1>10. CASE CallFails \/ DeviceLoggedIn \/ BookingsAnswered \/ RoleAnswered
  <2>1. /\ \E i \in DOMAIN calls : calls[i].kind # "map" /\ Answered(i, <<>>)
        /\ UNCHANGED map
    BY <1>10 DEF CallFails, DeviceLoggedIn, BookingsAnswered, RoleAnswered, SameMap
  <2> QED
    BY <1>3, <2>1
<1>11. CASE MapAnswered
  <2>1. map' # Loading
    <3>1. PICK i \in DOMAIN calls : calls[i].kind = "map" /\ map' \in Rendered(calls[i])
      BY <1>11 DEF MapAnswered
    <3>2. calls[i].coworking \in Coworkings /\ calls[i].window \in Windows
      BY <1>a, <3>1, CallFields
    <3> QED
      BY <3>1, <3>2, PanelAssumption DEF Rendered
  <2> QED
    BY <2>1
<1>12. CASE BookingChanged
  <2>1. PICK i \in DOMAIN calls :
          /\ calls[i].kind = "change"
          /\ \/ /\ Given(window) /\ MapAsked
                /\ Answered(i, <<MapCall(coworking, window, TRUE)>>)
             \/ /\ ~ Given(window) /\ SameMap
                /\ Answered(i, <<UserCall("bookings", ScreenToken)>>)
    BY <1>12 DEF BookingChanged, Selection
  <2>2. CASE Given(window)
    <3> DEFINE m == MapCall(coworking, window, TRUE)
    <3>1. m \in Call /\ m.kind = "map"
      BY <2>1, <2>2, DatesGiven, MapCallMade DEF PageInv
    <3>2. Answered(i, <<m>>)
      BY <2>1, <2>2
    <3> HIDE DEF m
    <3>3. /\ DOMAIN calls' = 1 .. Len(calls) /\ calls'[Len(calls)] = m /\ Len(calls) > 0
          /\ Len(calls) \in Nat
      BY <1>a, <3>1, <3>2, CallReplaced
    <3> QED
      BY <3>1, <3>3
  <2>3. CASE ~ Given(window)
    <3>1. UserCall("bookings", ScreenToken) \in Call
      BY UserCallMade DEF PageInv, ScreenToken
    <3>2. map' = map /\ Answered(i, <<UserCall("bookings", ScreenToken)>>)
      BY <2>1, <2>3 DEF SameMap
    <3>3. calls[i].kind # "map"
      BY <2>1
    <3> QED
      BY <1>3, <3>1, <3>2, <3>3
  <2> QED
    BY <2>2, <2>3
<1>13. CASE LoggedIn
  <2>1. PICK i \in DOMAIN calls :
          calls[i].kind = "login" /\ Answered(i, <<UserCall("me", calls[i].token)>>)
    BY <1>13 DEF LoggedIn
  <2>2. calls[i].token \in Bearers
    BY <2>1, <1>a, CallFields
  <2>3. UserCall("me", calls[i].token) \in Call /\ map' = map
    BY <1>13, <2>2, UserCallMade DEF LoggedIn, SameMap
  <2> QED
    BY <2>1, <2>3, <1>3
<1> QED
  BY <1>1, <1>4, <1>5, <1>6, <1>7, <1>8, <1>9, <1>10, <1>11, <1>12, <1>13 DEF Next

(* What LoadingEnds rests on: the hint never stays behind without a call   *)
(* that will take it away, however clicks and answers interleave.          *)
THEOREM HintHasItsCall == Spec => []HintHasCall
<1>1. Init => HintHasCall
  BY PanelAssumption DEF Init, HintHasCall
<1> QED
  BY <1>1, HintNext, PageInvariance, PTL DEF Spec
=============================================================================
