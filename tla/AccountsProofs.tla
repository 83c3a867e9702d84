--------------------------- MODULE AccountsProofs ---------------------------
(***************************************************************************)
(* Theorems about Accounts, for any number of handlers, users and          *)
(* sessions.  The tables only grow, so what a request has read stays true  *)
(* of the row it names; the rest is what Tables says of the rows and ReqOK *)
(* of a request between two statements.                                    *)
(***************************************************************************)
EXTENDS Accounts, TLAPS

(* The unique indexes hold, an account that was registered has the folded  *)
(* form of an address and a hidden user the address of its device.         *)
UsersOK ==
  /\ users \in Seq(User) /\ users # <<>>
  /\ \A i, j \in DOMAIN users :
       \/ users[i].email = users[j].email
       \/ users[i].device_id = users[j].device_id /\ users[i].device_id # NoDevice
       => i = j
  /\ \A i \in DOMAIN users :
       IF users[i].device_id = NoDevice
       THEN Normal[users[i].email] = users[i].email
       ELSE users[i].email = DeviceAddress[users[i].device_id]

(* user is a row, and that of the device if there is one.                  *)
Names(user, device) ==
  /\ user \in DOMAIN users
  /\ device # NoDevice => users[user].device_id = device

SessionsOK ==
  /\ sessions \in Seq(Session)
  /\ \A s \in DOMAIN sessions : Names(sessions[s].user_id, sessions[s].device)

Admitted(r) ==
  /\ r.at <= sessions[r.token].expires_at
  /\ r.route \in EnsureAdmin => users[sessions[r.token].user_id].role = "admin"

(* The row will fit, and the device's user, if it has one by now, came     *)
(* after the request looked.                                               *)
Fits(row) ==
  IF row.device_id = NoDevice THEN Normal[row.email] = row.email
  ELSE row.email = DeviceAddress[row.device_id]

Looked(r) ==
  /\ r.found <= Len(users)
  /\ r.row.device_id # NoDevice =>
       \A i \in DOMAIN users : users[i].device_id = r.row.device_id => i > r.found

ReqOK(r) ==
  /\ r.pc = "CreateUser" => Fits(r.row) /\ Looked(r)
  /\ r.pc = "CreateSession" => Names(r.user_id, r.device)
  /\ r.pc \in {"GetUserByID", "handler"} => r.token \in DOMAIN sessions /\ r.at <= now
  /\ r.pc = "handler" => Admitted(r)

(* The requests, and what the workers answered.                            *)
ReqsOK == req \in [Workers -> Request] /\ \A w \in Workers : ReqOK(req[w])

AnswersOK ==
  /\ answer \in [Workers -> {0} \cup Statuses]
  /\ \A w \in Workers : req[w].pc # "idle" => answer[w] = 0

AccountsInv == now \in Time /\ UsersOK /\ SessionsOK /\ ReqsOK /\ AnswersOK

(* Time goes on, and no row is changed or deleted.                         *)
Grows ==
  /\ now \in Time /\ now' \in Time /\ now <= now'
  /\ DOMAIN users \subseteq DOMAIN users'
  /\ \A i \in DOMAIN users : users'[i] = users[i]
  /\ \A i \in DOMAIN users' \ DOMAIN users : i > Len(users)
  /\ users \in Seq(User) /\ users' \in Seq(User) /\ Len(users) <= Len(users')
  /\ DOMAIN sessions \subseteq DOMAIN sessions'
  /\ \A s \in DOMAIN sessions : sessions'[s] = sessions[s]

-----------------------------------------------------------------------------
LEMMA Appended ==
  ASSUME NEW S, NEW q \in Seq(S), NEW x \in S
  PROVE  /\ Append(q, x) \in Seq(S) /\ Append(q, x) # <<>>
         /\ DOMAIN Append(q, x) = DOMAIN q \cup {Len(q) + 1}
         /\ Len(q) + 1 \notin DOMAIN q
         /\ \A i \in DOMAIN q : Append(q, x)[i] = q[i]
         /\ Append(q, x)[Len(q) + 1] = x
OBVIOUS

LEMMA StatusTypes ==
  \A err \in AppErrors \cup {"canceled"} : StatusOf(err) \in Statuses
<1>1. StatusOf("canceled") = StatusOf("ErrNotImplemented")
  BY DEF StatusOf
<1> QED
  BY <1>1 DEF Statuses, AppErrors

(* What a request kept stays true when the tables grow.                    *)
LEMMA StillNames ==
  ASSUME NEW user, NEW device, Names(user, device), Grows
  PROVE  Names(user, device)'
BY DEF Names, Grows

LEMMA StillOK ==
  ASSUME NEW r, r \in Request, ReqOK(r), Grows, SessionsOK
  PROVE  ReqOK(r)'
<1>1. r.pc = "CreateSession" => Names(r.user_id, r.device)'
  BY StillNames DEF ReqOK
<1>2. ASSUME r.pc \in {"GetUserByID", "handler"}
      PROVE  r.token \in DOMAIN sessions /\ r.token \in DOMAIN sessions' /\ r.at <= now'
  <2>1. r.token \in DOMAIN sessions /\ r.at <= now
    BY <1>2 DEF ReqOK
  <2>2. r.at \in Time
    BY <1>2 DEF Request, Idle, Insertion, Granting, Checking
  <2> QED
    BY <2>1, <2>2, TimeAssumption DEF Grows, Time
<1>3. ASSUME r.pc = "handler" PROVE Admitted(r)'
  <2>1. r.token \in DOMAIN sessions /\ sessions'[r.token] = sessions[r.token]
    BY <1>2, <1>3 DEF Grows
  <2>2. sessions[r.token].user_id \in DOMAIN users
    BY <2>1 DEF SessionsOK, Names
  <2>3. users'[sessions[r.token].user_id] = users[sessions[r.token].user_id]
    BY <2>2 DEF Grows
  <2>4. Admitted(r)
    BY <1>3 DEF ReqOK
  <2> QED
    BY <2>1, <2>3, <2>4 DEF Admitted
<1>4. ASSUME r.pc = "CreateUser" PROVE Looked(r)'
  <2>1. Looked(r)
    BY <1>4 DEF ReqOK
  <2>2. r.found \in Nat
    BY <1>4 DEF Request, Idle, Insertion, Granting, Checking
  <2>3. DOMAIN users' \subseteq Int /\ Len(users) \in Nat /\ Len(users') \in Nat
    BY DEF Grows
  <2>4. r.found <= Len(users')
    BY <2>1, <2>2, <2>3 DEF Looked, Grows
  <2>5. ASSUME r.row.device_id # NoDevice, NEW i \in DOMAIN users',
               users'[i].device_id = r.row.device_id
        PROVE  i > r.found
    <3>1. CASE i \in DOMAIN users
      BY <2>1, <2>5, <3>1 DEF Looked, Grows
    <3>2. CASE i \notin DOMAIN users
      BY <2>1, <2>2, <2>3, <3>2 DEF Looked, Grows
    <3> QED
      BY <3>1, <3>2
  <2> QED
    BY <2>4, <2>5 DEF Looked
<1> QED
  BY <1>1, <1>2, <1>3, <1>4 DEF ReqOK

LEMMA IdleOK == Idle \in Request /\ ReqOK(Idle)'
BY DEF Idle, Request, ReqOK

LEMMA ReqsStep ==
  ASSUME ReqsOK, SessionsOK, Grows, NEW w \in Workers, NEW r \in Request, ReqOK(r)',
         req' = [req EXCEPT ![w] = r]
  PROVE  ReqsOK'
<1>1. req' \in [Workers -> Request]
  BY DEF ReqsOK
<1>2. ASSUME NEW v \in Workers PROVE ReqOK(req[v])'
  <2>1. CASE v = w
    <3>1. req'[v] = r
      BY <2>1 DEF ReqsOK
    <3> QED
      BY <3>1 DEF ReqOK, Admitted, Names, Looked
  <2>2. CASE v # w
    <3>1. PICK q : q = req[v] /\ q \in Request /\ ReqOK(q)
      BY DEF ReqsOK
    <3>2. ReqOK(q)'
      BY <3>1, StillOK
    <3>3. req'[v] = q
      BY <2>2, <3>1 DEF ReqsOK
    <3> QED
      BY <3>2, <3>3 DEF ReqOK, Admitted, Names, Looked
  <2> QED
    BY <2>1, <2>2
<1> QED
  BY <1>1, <1>2 DEF ReqsOK

LEMMA ReplyStep ==
  ASSUME ReqsOK, SessionsOK, AnswersOK, Grows, NEW w \in Workers,
         NEW status \in Statuses, Reply(w, status)
  PROVE  ReqsOK' /\ AnswersOK'
<1>1. ReqsOK'
  BY IdleOK, ReqsStep DEF Reply
<1>2. AnswersOK'
  BY DEF AnswersOK, ReqsOK, Reply, Idle
<1> QED
  BY <1>1, <1>2

LEMMA ContinueStep ==
  ASSUME ReqsOK, SessionsOK, AnswersOK, Grows, NEW w \in Workers,
         NEW r \in Request, ReqOK(r)', Continue(w, r)
  PROVE  ReqsOK' /\ AnswersOK'
<1>1. ReqsOK'
  BY ReqsStep DEF Continue
<1>2. AnswersOK'
  BY DEF AnswersOK, ReqsOK, Continue
<1> QED
  BY <1>1, <1>2

LEMMA SameTables ==
  ASSUME now \in Time, UsersOK, SessionsOK, UNCHANGED <<now, users, sessions>>
  PROVE  Grows /\ UsersOK' /\ SessionsOK'
BY TimeAssumption DEF Grows, UsersOK, SessionsOK, Names, Time

-----------------------------------------------------------------------------
(* What a handler does between the statements that write: it reads, and    *)
(* keeps r or answers.                                                     *)
LEMMA ReadStep ==
  ASSUME AccountsInv, NEW w \in Workers, UNCHANGED <<now, users, sessions>>,
         \/ \E status \in Statuses : Reply(w, status)
         \/ \E r \in Request : ReqOK(r) /\ Continue(w, r)
  PROVE  AccountsInv'
<1>0. now \in Time /\ UsersOK /\ SessionsOK /\ ReqsOK /\ AnswersOK
  BY DEF AccountsInv
<1>1. Grows /\ UsersOK' /\ SessionsOK' /\ SessionsOK /\ ReqsOK /\ AnswersOK /\ now' \in Time
  BY <1>0, SameTables
<1>2. CASE \E status \in Statuses : Reply(w, status)
  BY <1>1, <1>2, ReplyStep DEF AccountsInv
<1>3. CASE \E r \in Request : ReqOK(r) /\ Continue(w, r)
  <2>1. PICK r \in Request : ReqOK(r) /\ Continue(w, r)
    BY <1>3
  <2>2. ReqOK(r)'
    BY <2>1, <1>1, StillOK
  <2>3. ReqsOK' /\ AnswersOK'
    BY <2>1, <2>2, <1>1, ContinueStep
  <2> QED
    BY <1>1, <2>3 DEF AccountsInv
<1> QED
  BY <1>2, <1>3

LEMMA InsertionOK ==
  ASSUME AccountsInv, NEW row \in User, Fits(row),
         row.device_id # NoDevice => UsersByDevice(row.device_id) = {}
  PROVE  Insert(row) \in Request /\ ReqOK(Insert(row))
<1>1. Len(users) \in Nat
  BY DEF AccountsInv, UsersOK
<1>2. Insert(row) \in Request
  BY <1>1 DEF Insert, Request, Insertion
<1>3. Looked(Insert(row))
  BY <1>1 DEF Insert, Looked, UsersByDevice
<1>4. ReqOK(Insert(row))
  BY <1>3 DEF Insert, ReqOK
<1> QED
  BY <1>2, <1>4

LEMMA GrantOK ==
  ASSUME AccountsInv, NEW user \in DOMAIN users, NEW device \in Anyone,
         device # NoDevice => users[user].device_id = device
  PROVE  Grant(user, device) \in Request /\ ReqOK(Grant(user, device))
<1>1. user \in Nat
  BY DEF AccountsInv, UsersOK
<1>2. Grant(user, device) \in Request
  BY <1>1 DEF Grant, Request, Granting, AccountsInv
<1>3. ReqOK(Grant(user, device))
  BY DEF Grant, ReqOK, Names
<1> QED
  BY <1>2, <1>3

LEMMA RegisterStep ==
  ASSUME AccountsInv, NEW w \in Workers, Register(w)
  PROVE  AccountsInv'
<1>1. PICK a \in Typed, p \in Passwords :
        IF UsersByEmail(RegisteredAddress(a)) # {}
        THEN Reply(w, StatusOf("ErrEmailTaken"))
        ELSE Continue(w, Insert([email |-> RegisteredAddress(a), password |-> p,
                                 role |-> "user", device_id |-> NoDevice]))
  BY DEF Register
<1> DEFINE row == [email |-> RegisteredAddress(a), password |-> p,
                   role |-> "user", device_id |-> NoDevice]
<1>2. RegisteredAddress(a) \in Addresses
      /\ Normal[RegisteredAddress(a)] = RegisteredAddress(a)
  BY AddressAssumption DEF RegisteredAddress
<1>3. row \in User
  BY <1>2 DEF User, Anyone
<1>4. Fits(row) /\ row.device_id = NoDevice
  BY <1>2 DEF Fits
<1>5. Insert(row) \in Request /\ ReqOK(Insert(row))
  BY <1>3, <1>4, InsertionOK
<1>6. StatusOf("ErrEmailTaken") \in Statuses
  BY StatusTypes DEF AppErrors
<1> QED
  BY <1>1, <1>5, <1>6, ReadStep DEF Register

LEMMA LoginStep ==
  ASSUME AccountsInv, NEW w \in Workers, Login(w)
  PROVE  AccountsInv'
<1>1. PICK a \in Typed, p \in Passwords :
        \/ Reply(w, StatusOf("ErrInvalidCredentials"))
        \/ \E i \in UsersByEmail(Normal[a]) : Continue(w, Grant(i, NoDevice))
  BY DEF Login
<1>2. StatusOf("ErrInvalidCredentials") \in Statuses
  BY StatusTypes DEF AppErrors
<1>3. ASSUME NEW i \in UsersByEmail(Normal[a])
      PROVE  Grant(i, NoDevice) \in Request /\ ReqOK(Grant(i, NoDevice))
  BY GrantOK DEF UsersByEmail, Anyone
<1> QED
  BY <1>1, <1>2, <1>3, ReadStep DEF Login

LEMMA DeviceStep ==
  ASSUME AccountsInv, NEW w \in Workers, LoginAsDevice(w)
  PROVE  AccountsInv'
<1>1. PICK d \in Devices :
        \/ /\ UsersByDevice(d) = {}
           /\ Continue(w, Insert([email |-> DeviceAddress[d], password |-> NoPassword,
                                  role |-> "user", device_id |-> d]))
        \/ \E i \in UsersByDevice(d) : Continue(w, Grant(i, d))
  BY DEF LoginAsDevice
<1> DEFINE row == [email |-> DeviceAddress[d], password |-> NoPassword,
                   role |-> "user", device_id |-> d]
<1>2. row \in User /\ row.device_id # NoDevice /\ Fits(row) /\ row.device_id = d
  BY DeviceAssumption DEF User, Anyone, Fits
<1>3. ASSUME UsersByDevice(d) = {}
      PROVE  Insert(row) \in Request /\ ReqOK(Insert(row))
  BY <1>2, <1>3, InsertionOK
<1>4. ASSUME NEW i \in UsersByDevice(d)
      PROVE  Grant(i, d) \in Request /\ ReqOK(Grant(i, d))
  BY GrantOK DEF UsersByDevice, Anyone
<1> QED
  BY <1>1, <1>3, <1>4, ReadStep DEF LoginAsDevice

-----------------------------------------------------------------------------
(* The two inserts.  The indexes and the fold of the address make the new  *)
(* user fit the others.                                                    *)
LEMMA UserAppended ==
  ASSUME UsersOK, SessionsOK, NEW row \in User, UniqueAllows(row),
         Fits(row), now \in Time, now' = now, users' = Append(users, row), sessions' = sessions
  PROVE  /\ UsersOK' /\ SessionsOK' /\ Grows
         /\ DOMAIN users' = DOMAIN users \cup {Len(users) + 1}
         /\ users'[Len(users) + 1] = row
<1>1. users \in Seq(User)
  BY DEF UsersOK
<1>2. /\ users' \in Seq(User) /\ users' # <<>>
      /\ DOMAIN users' = DOMAIN users \cup {Len(users) + 1}
      /\ Len(users) + 1 \notin DOMAIN users
      /\ \A i \in DOMAIN users : users'[i] = users[i]
      /\ users'[Len(users) + 1] = row
  BY <1>1, Appended
<1>3. ASSUME NEW i \in DOMAIN users
      PROVE  /\ users[i].email # row.email
             /\ row.device_id # NoDevice => users[i].device_id # row.device_id
  BY DEF UniqueAllows, UsersByEmail, UsersByDevice
<1>4. ASSUME NEW i \in DOMAIN users', NEW j \in DOMAIN users',
             \/ users'[i].email = users'[j].email
             \/ users'[i].device_id = users'[j].device_id /\ users'[i].device_id # NoDevice
      PROVE  i = j
  <2>1. CASE i \in DOMAIN users /\ j \in DOMAIN users
    BY <1>2, <1>4, <2>1 DEF UsersOK
  <2>2. CASE i \in DOMAIN users /\ j = Len(users) + 1
    BY <1>2, <1>3, <1>4, <2>2
  <2>3. CASE i = Len(users) + 1 /\ j \in DOMAIN users
    BY <1>2, <1>3, <1>4, <2>3
  <2> QED
    BY <1>2, <2>1, <2>2, <2>3
<1>5. ASSUME NEW i \in DOMAIN users'
      PROVE  IF users'[i].device_id = NoDevice
             THEN Normal[users'[i].email] = users'[i].email
             ELSE users'[i].email = DeviceAddress[users'[i].device_id]
  <2>1. CASE i \in DOMAIN users
    BY <1>2, <2>1 DEF UsersOK
  <2>2. CASE i = Len(users) + 1
    BY <1>2, <2>2 DEF Fits
  <2> QED
    BY <1>2, <2>1, <2>2
<1>6. UsersOK'
  BY <1>2, <1>4, <1>5 DEF UsersOK
<1>7. Grows
  BY <1>2, TimeAssumption DEF Grows, Time
<1>8. SessionsOK'
  BY <1>7 DEF SessionsOK, Names, Grows
<1> QED
  BY <1>2, <1>6, <1>7, <1>8

LEMMA CreateUserStep ==
  ASSUME AccountsInv, NEW w \in Workers, CreateUser(w)
  PROVE  AccountsInv'
<1> DEFINE row == req[w].row
<1>1. UsersOK /\ SessionsOK /\ ReqsOK /\ AnswersOK /\ now \in Time
  BY DEF AccountsInv
<1>2. req[w] \in Request /\ ReqOK(req[w]) /\ req[w].pc = "CreateUser"
  BY <1>1 DEF ReqsOK, CreateUser
<1>3. row \in User
  BY <1>2 DEF Request, Idle, Insertion, Granting, Checking
<1>4. Fits(row)
  BY <1>2 DEF ReqOK
<1>5. StatusOf("ErrEmailTaken") \in Statuses /\ 201 \in Statuses
  BY StatusTypes DEF AppErrors, Statuses
<1>6. CASE ~ UniqueAllows(row)
  BY <1>5, <1>6, ReadStep DEF CreateUser
<1>7. CASE UniqueAllows(row)
  <2>1. /\ users' = Append(users, row) /\ sessions' = sessions /\ now' = now
        /\ IF row.device_id = NoDevice
           THEN Reply(w, 201)
           ELSE Continue(w, Grant(Len(users) + 1, row.device_id))
    BY <1>7 DEF CreateUser
  <2>2. /\ UsersOK' /\ SessionsOK' /\ Grows
        /\ DOMAIN users' = DOMAIN users \cup {Len(users) + 1}
        /\ users'[Len(users) + 1] = row
    BY <1>1, <1>3, <1>4, <1>7, <2>1, UserAppended
  <2>3. CASE row.device_id = NoDevice
    <3>1. ReqsOK' /\ AnswersOK'
      BY <1>1, <1>5, <2>1, <2>2, <2>3, ReplyStep
    <3> QED
      BY <1>1, <2>1, <2>2, <3>1 DEF AccountsInv
  <2>4. CASE row.device_id # NoDevice
    <3>1. PICK r : r = Grant(Len(users) + 1, row.device_id)
      OBVIOUS
    <3>2. r \in Request /\ r.pc = "CreateSession" /\ r.user_id = Len(users) + 1
          /\ r.device = row.device_id
      <4>1. Len(users) + 1 \in Nat /\ row.device_id \in Anyone
        BY <1>1, <1>3 DEF UsersOK, User
      <4> QED
        BY <1>1, <3>1, <4>1 DEF Grant, Request, Granting
    <3>3. ReqOK(r)'
      BY <2>2, <3>2 DEF ReqOK, Names
    <3>4. ReqsOK' /\ AnswersOK'
      BY <1>1, <2>1, <2>2, <2>4, <3>1, <3>2, <3>3, ContinueStep
    <3> QED
      BY <1>1, <2>1, <2>2, <3>4 DEF AccountsInv
  <2> QED
    BY <2>3, <2>4
<1> QED
  BY <1>6, <1>7

LEMMA CreateSessionStep ==
  ASSUME AccountsInv, NEW w \in Workers, CreateSession(w)
  PROVE  AccountsInv'
<1>1. UsersOK /\ SessionsOK /\ ReqsOK /\ AnswersOK /\ now \in Time
  BY DEF AccountsInv
<1>2. req[w] \in Request /\ ReqOK(req[w]) /\ req[w].pc = "CreateSession"
  BY <1>1 DEF ReqsOK, CreateSession
<1>3. req[w] \in Granting
  BY <1>2 DEF Request, Idle, Insertion, Granting, Checking
<1>4. PICK at \in req[w].at .. now :
        sessions' = Append(sessions, [user_id |-> req[w].user_id, expires_at |-> ExpiresAt(at),
                                      device |-> req[w].device])
  BY DEF CreateSession
<1> DEFINE row == [user_id |-> req[w].user_id, expires_at |-> ExpiresAt(at),
                   device |-> req[w].device]
<1>5. ExpiresAt(at) \in 0 .. Horizon + TTL
  BY <1>1, <1>3, TimeAssumption DEF ExpiresAt, Granting, Time
<1>6. row \in Session
  BY <1>3, <1>5 DEF Granting, Session
<1>7. /\ sessions' \in Seq(Session)
      /\ DOMAIN sessions' = DOMAIN sessions \cup {Len(sessions) + 1}
      /\ Len(sessions) + 1 \notin DOMAIN sessions
      /\ \A s \in DOMAIN sessions : sessions'[s] = sessions[s]
      /\ sessions'[Len(sessions) + 1] = row
  BY <1>1, <1>4, <1>6, Appended DEF SessionsOK
<1>8. users' = users /\ now' = now /\ Reply(w, 200)
  BY DEF CreateSession
<1>9. Grows
  <2>1. users \in Seq(User) /\ Len(users) \in Nat
    BY <1>1 DEF UsersOK
  <2> QED
    BY <1>1, <1>7, <1>8, <2>1, TimeAssumption DEF Grows, Time
<1>10. ASSUME NEW s \in DOMAIN sessions'
       PROVE  Names(sessions[s].user_id, sessions[s].device)'
  <2>1. CASE s \in DOMAIN sessions
    BY <1>1, <1>7, <1>8, <2>1 DEF SessionsOK, Names
  <2>2. CASE s = Len(sessions) + 1
    <3>1. Names(req[w].user_id, req[w].device)
      BY <1>2 DEF ReqOK
    <3> QED
      BY <1>7, <1>8, <2>2, <3>1 DEF Names
  <2> QED
    BY <1>7, <2>1, <2>2
<1>11. SessionsOK'
  BY <1>7, <1>10 DEF SessionsOK
<1>12. UsersOK'
  BY <1>1, <1>8 DEF UsersOK
<1>13. ReqsOK' /\ AnswersOK'
  BY <1>1, <1>8, <1>9, ReplyStep DEF Statuses
<1> QED
  BY <1>1, <1>8, <1>11, <1>12, <1>13 DEF AccountsInv

LEMMA SessionReadStep ==
  ASSUME AccountsInv, NEW w \in Workers, GetSessionByToken(w)
  PROVE  AccountsInv'
<1>1. now \in Time /\ sessions \in Seq(Session)
  BY DEF AccountsInv, SessionsOK
<1>2. PICK route \in Routes, token \in {0} \cup DOMAIN sessions :
        IF token = 0
        THEN Reply(w, StatusOf("ErrUnauthorized"))
        ELSE Continue(w, [pc |-> "GetUserByID", token |-> token, route |-> route, at |-> now])
  BY DEF GetSessionByToken
<1> DEFINE r == [pc |-> "GetUserByID", token |-> token, route |-> route, at |-> now]
<1>3. StatusOf("ErrUnauthorized") \in Statuses
  BY StatusTypes DEF AppErrors
<1>4. ASSUME token # 0 PROVE r \in Request /\ ReqOK(r)
  <2>1. token \in DOMAIN sessions /\ token \in Nat
    BY <1>1, <1>4
  <2> QED
    BY <1>1, <2>1, TimeAssumption DEF Request, Checking, ReqOK, Time
<1> QED
  BY <1>2, <1>3, <1>4, ReadStep DEF GetSessionByToken

LEMMA UserReadStep ==
  ASSUME AccountsInv, NEW w \in Workers, GetUserByID(w)
  PROVE  AccountsInv'
<1> DEFINE user == users[sessions[req[w].token].user_id]
           r == [req[w] EXCEPT !.pc = "handler"]
<1>1. req[w] \in Request /\ ReqOK(req[w]) /\ req[w].pc = "GetUserByID"
      /\ now \in Time /\ sessions \in Seq(Session)
  BY DEF AccountsInv, SessionsOK, ReqsOK, GetUserByID
<1>2. req[w] \in Checking
  BY <1>1 DEF Request, Idle, Insertion, Granting, Checking
<1>3. StatusOf("ErrUnauthorized") \in Statuses /\ StatusOf("ErrForbidden") \in Statuses
  BY StatusTypes DEF AppErrors
<1>4. \/ Reply(w, StatusOf("ErrUnauthorized"))
      \/ Reply(w, StatusOf("ErrForbidden"))
      \/ Fresh(req[w]) /\ AdminMiddleware(req[w].route, user) /\ Continue(w, r)
  BY DEF GetUserByID
<1>5. ASSUME Fresh(req[w]), AdminMiddleware(req[w].route, user)
      PROVE  r \in Request /\ ReqOK(r)
  <2>1. /\ r.pc = "handler" /\ r.token = req[w].token /\ r.route = req[w].route
        /\ r.at = req[w].at /\ r \in Checking
    BY <1>2 DEF Checking
  <2>2. r.token \in DOMAIN sessions /\ r.at <= now
    BY <1>1, <2>1 DEF ReqOK
  <2>3. sessions[r.token].expires_at \in 0 .. Horizon + TTL
    <3>1. sessions[r.token] \in Session
      BY <1>1, <2>2
    <3> QED
      BY <3>1 DEF Session
  <2>4. r.at <= sessions[r.token].expires_at
    <3>1. now <= sessions[r.token].expires_at /\ r.at \in Int /\ now \in Int
      BY <1>1, <1>5, <2>1, TimeAssumption DEF Fresh, Checking, Time
    <3> QED
      BY <2>2, <2>3, <3>1, TimeAssumption
  <2>5. r.route \in EnsureAdmin => users[sessions[r.token].user_id].role = "admin"
    BY <1>5, <2>1 DEF AdminMiddleware, EnsureAdmin, AdminRoutes
  <2> QED
    BY <2>1, <2>2, <2>4, <2>5 DEF Request, ReqOK, Admitted
<1> QED
  BY <1>3, <1>4, <1>5, ReadStep DEF GetUserByID

LEMMA TickStep ==
  ASSUME AccountsInv, Tick
  PROVE  AccountsInv'
<1>1. now' \in Time /\ Grows /\ UsersOK' /\ SessionsOK' /\ AnswersOK'
  BY TimeAssumption DEF AccountsInv, Tick, Time, Grows, UsersOK, SessionsOK, Names, AnswersOK
<1>2. ASSUME NEW w \in Workers PROVE ReqOK(req[w])'
  <2>1. PICK r : r = req[w] /\ r \in Request /\ ReqOK(r)
    BY DEF AccountsInv, ReqsOK
  <2>2. ReqOK(r)'
    BY <1>1, <2>1, StillOK DEF AccountsInv
  <2>3. req'[w] = r
    BY <2>1 DEF Tick
  <2> QED
    BY <2>2, <2>3 DEF ReqOK, Admitted, Names, Looked
<1>3. ReqsOK'
  BY <1>2 DEF AccountsInv, ReqsOK, Tick
<1> QED
  BY <1>1, <1>3 DEF AccountsInv

LEMMA AccountsInit == Init => AccountsInv
<1> SUFFICES ASSUME Init PROVE AccountsInv
  OBVIOUS
<1>1. PICK p \in Passwords :
        users = <<[email |-> AdminAddress, password |-> p, role |-> "admin",
                   device_id |-> NoDevice]>>
  BY DEF Init
<1>2. [email |-> AdminAddress, password |-> p, role |-> "admin", device_id |-> NoDevice] \in User
  BY AddressAssumption DEF User, Anyone
<1>3. UsersOK
  BY <1>1, <1>2, AddressAssumption DEF UsersOK
<1>4. now \in Time /\ SessionsOK /\ AnswersOK
  BY TimeAssumption DEF Init, Time, SessionsOK, AnswersOK, Idle
<1>5. ReqsOK
  BY DEF Init, ReqsOK, ReqOK, Idle, Request
<1> QED
  BY <1>3, <1>4, <1>5 DEF AccountsInv

LEMMA AccountsNext == AccountsInv /\ [Next]_vars => AccountsInv'
<1> SUFFICES ASSUME AccountsInv, [Next]_vars PROVE AccountsInv'
  OBVIOUS
<1>1. CASE Tick
  BY <1>1, TickStep
<1>2. ASSUME NEW w \in Workers, Handle(w) PROVE AccountsInv'
  <2>1. CASE Serve(w) \/ Abort(w)
    <3>1. 200 \in Statuses /\ StatusOf("canceled") \in Statuses
      BY StatusTypes DEF Statuses
    <3> QED
      BY <2>1, <3>1, ReadStep DEF Serve, Abort
  <2> QED
    BY <1>2, <2>1, RegisterStep, LoginStep, DeviceStep, CreateUserStep, CreateSessionStep,
       SessionReadStep, UserReadStep DEF Handle
<1>3. CASE UNCHANGED vars
  <2>1. now' = now /\ users' = users /\ sessions' = sessions /\ req' = req /\ answer' = answer
    BY <1>3 DEF vars
  <2> QED
    BY <2>1 DEF AccountsInv, UsersOK, SessionsOK, Names, ReqsOK, ReqOK, Admitted, Looked,
                AnswersOK
<1> QED
  BY <1>1, <1>2, <1>3 DEF Next

LEMMA AccountsInvariance == Spec => []AccountsInv
BY AccountsInit, AccountsNext, PTL DEF Spec

-----------------------------------------------------------------------------
(* Every session and every request refers to rows that exist.              *)
THEOREM AccountsTypeCorrect == Spec => []TypeOK
<1>1. AccountsInv => TypeOK
  BY DEF AccountsInv, UsersOK, SessionsOK, ReqsOK, ReqOK, Names, AnswersOK, TypeOK
<1> QED
  BY <1>1, AccountsInvariance, PTL

(* All sessions of a device name one user: each names a row with the       *)
(* device's id, and the unique index has only one such row.                *)
THEOREM DeviceUserIsOne == Spec => []DeviceKeepsItsUser
<1>1. AccountsInv => DeviceKeepsItsUser
  <2> SUFFICES ASSUME AccountsInv, NEW s \in DOMAIN sessions, NEW t \in DOMAIN sessions,
                      sessions[s].device = sessions[t].device, sessions[s].device # NoDevice
               PROVE  sessions[s].user_id = sessions[t].user_id
    BY DEF DeviceKeepsItsUser
  <2>1. Names(sessions[s].user_id, sessions[s].device) /\ Names(sessions[t].user_id, sessions[t].device)
    BY DEF AccountsInv, SessionsOK
  <2> QED
    BY <2>1 DEF AccountsInv, UsersOK, Names
<1> QED
  BY <1>1, AccountsInvariance, PTL

(* People who differ in the spelling of an address only share an account.  *)
THEOREM AccountIsOne == Spec => []OneAccountPerAddress
<1>1. AccountsInv => OneAccountPerAddress
  BY DEF AccountsInv, UsersOK, OneAccountPerAddress
<1> QED
  BY <1>1, AccountsInvariance, PTL

(* A handler runs only for a request that came in time, and an             *)
(* administrator's only for one.                                           *)
THEOREM AdmissionCorrect == Spec => []AdmittedRightly
<1>1. AccountsInv => AdmittedRightly
  BY DEF AccountsInv, ReqsOK, ReqOK, Admitted, AdmittedRightly
<1> QED
  BY <1>1, AccountsInvariance, PTL

(* A device login is refused only if it lost a race, or somebody has       *)
(* registered the address derived from the device: a user with the row's   *)
(* device or address came after the request looked, or is no device's.     *)
THEOREM RefusalCorrect == Spec => RefusedOnlyByRace
<1>1. AccountsInv /\ [Next]_vars =>
        \A w \in Workers : RefusedDevice(w) =>
          \/ \E i \in UsersByDevice(req[w].row.device_id) : i > req[w].found
          \/ \E i \in UsersByEmail(req[w].row.email) : users[i].device_id = NoDevice
  <2> SUFFICES ASSUME AccountsInv, [Next]_vars, NEW w \in Workers, RefusedDevice(w)
               PROVE  \/ \E i \in UsersByDevice(req[w].row.device_id) : i > req[w].found
                      \/ \E i \in UsersByEmail(req[w].row.email) : users[i].device_id = NoDevice
    OBVIOUS
  <2> DEFINE row == req[w].row
  <2>1. /\ req[w].pc = "CreateUser" /\ row.device_id # NoDevice
        /\ answer'[w] = 409 /\ answer[w] = 0
        /\ req[w] \in Request /\ Fits(row) /\ Looked(req[w])
        /\ answer \in [Workers -> {0} \cup Statuses] /\ req \in [Workers -> Request]
    BY DEF RefusedDevice, StatusOf, AccountsInv, AnswersOK, ReqsOK, ReqOK
  <2>2. row \in User
    BY <2>1 DEF Request, Idle, Insertion, Granting, Checking
  <2>3. ~ UniqueAllows(row)
    <3>1. PICK v \in Workers : Handle(v)
      BY <2>1 DEF Next, vars, Tick
    <3>2. v = w
      <4>1. \E status : answer' = [answer EXCEPT ![v] = status]
        <5>1. CASE Register(v) \/ Login(v) \/ LoginAsDevice(v)
          BY <5>1 DEF Register, Login, LoginAsDevice, Reply, Continue
        <5>2. CASE CreateUser(v) \/ CreateSession(v)
          BY <5>2 DEF CreateUser, CreateSession, Reply, Continue
        <5>3. CASE GetSessionByToken(v) \/ GetUserByID(v) \/ Serve(v) \/ Abort(v)
          BY <5>3 DEF GetSessionByToken, GetUserByID, Serve, Abort, Reply, Continue
        <5> QED
          BY <3>1, <5>1, <5>2, <5>3 DEF Handle
      <4> QED
        BY <2>1, <4>1
    <3>3. CreateUser(w) \/ Abort(w)
      BY <2>1, <3>1, <3>2 DEF Handle, Register, Login, LoginAsDevice, CreateSession,
         GetSessionByToken, GetUserByID, Serve, Idle
    <3>4. ~ Abort(w)
      BY <2>1 DEF Abort, Reply, StatusOf
    <3> QED
      BY <2>1, <3>3, <3>4 DEF CreateUser, Reply, Continue
  <2>4. CASE UsersByDevice(row.device_id) # {}
    BY <2>1, <2>4 DEF Looked, UsersByDevice
  <2>5. CASE UsersByDevice(row.device_id) = {}
    <3>1. PICK i \in DOMAIN users : users[i].email = row.email
      BY <2>3, <2>5 DEF UniqueAllows, UsersByEmail
    <3>2. ASSUME users[i].device_id # NoDevice PROVE FALSE
      <4>1. users[i] \in User
        BY DEF AccountsInv, UsersOK
      <4>2. users[i].email = DeviceAddress[users[i].device_id] /\ users[i].device_id \in Devices
        BY <3>2, <4>1 DEF AccountsInv, UsersOK, User, Anyone
      <4>3. row.email = DeviceAddress[row.device_id] /\ row.device_id \in Devices
        BY <2>1, <2>2 DEF Fits, User, Anyone
      <4>4. users[i].device_id = row.device_id
        BY <3>1, <4>2, <4>3, DeviceAssumption
      <4> QED
        BY <2>5, <4>4 DEF UsersByDevice
    <3> QED
      BY <3>1, <3>2 DEF UsersByEmail
  <2> QED
    BY <2>4, <2>5
<1>2. AccountsInv /\ [Next]_vars =>
        [\A w \in Workers : RefusedDevice(w) =>
          \/ \E i \in UsersByDevice(req[w].row.device_id) : i > req[w].found
          \/ \E i \in UsersByEmail(req[w].row.email) : users[i].device_id = NoDevice]_vars
  BY <1>1
<1> QED
  BY <1>2, AccountsInvariance, PTL DEF Spec, RefusedOnlyByRace
=============================================================================
