------------------------------ MODULE Accounts ------------------------------
(***************************************************************************)
(* Users and sessions: Register, Login, LoginAsDevice and Authenticate of  *)
(* backend/internal/app/service.go, the middleware of httpapi that calls   *)
(* the last of them, and the statements they make.  As in BookingService   *)
(* there is one action per statement and req[w] is what handler w keeps    *)
(* between two of them; answer[w] is the status of its last answer.        *)
(* Users and sessions are never deleted: a row is found by its number.     *)
(***************************************************************************)
EXTENDS Integers, Sequences, FiniteSets, HttpApi

CONSTANTS
  Addresses,      \* e-mail addresses, in any spelling
  Typed,          \* those people type into the register and login forms
  Normal,         \* strings.TrimSpace(strings.ToLower(address))
  AdminAddress,   \* the address of the seeded administrator
  Passwords,      \* passwords people type
  NoPassword,     \* "!device": no password matches this hash
  Devices,        \* device ids of a valid length
  NoDevice,       \* device_id IS NULL
  DeviceAddress,  \* "device-" + id + "@local.invalid"
  Routes,         \* the protected routes people ask for
  Workers,        \* handler goroutines that may run at once
  TTL,            \* how long a session lives (24 hours)
  Faults,         \* may a request die between two statements?
  Horizon,        \* bound: the last instant of the model
  MaxUsers,       \* bound: users created in a behaviour
  MaxSessions     \* bound: sessions created in a behaviour

ASSUME AddressAssumption ==
  /\ Typed \subseteq Addresses
  /\ Normal \in [Addresses -> Addresses]
  /\ \A a \in Addresses : Normal[Normal[a]] = Normal[a]
  /\ AdminAddress \in Addresses /\ Normal[AdminAddress] = AdminAddress
ASSUME DeviceAssumption ==
  /\ NoDevice \notin Devices /\ NoPassword \notin Passwords
  /\ DeviceAddress \in [Devices -> Addresses]
  /\ \A d, f \in Devices : DeviceAddress[d] = DeviceAddress[f] => d = f
ASSUME RoutesAssumption == Routes \subseteq ProtectedRoutes
ASSUME TimeAssumption == TTL \in Nat \ {0} /\ Horizon \in Nat

VARIABLES
  now,       \* what s.now() returns
  users,     \* the users table
  sessions,  \* the sessions table, in the order of the inserts
  req,       \* the request each worker is serving
  answer     \* the status each worker answered last, 0 while it works

vars == <<now, users, sessions, req, answer>>

-----------------------------------------------------------------------------
Time == 0 .. Horizon
Anyone == Devices \cup {NoDevice}
User == [email : Addresses, password : Passwords \cup {NoPassword},
         role : {"user", "admin"}, device_id : Anyone]

(* device is not a column: it is the device whose login made the session.  *)
Session == [user_id : Nat, expires_at : 0 .. Horizon + TTL, device : Anyone]

Idle == [pc |-> "idle"]
Insertion == [pc : {"CreateUser"}, row : User, found : Nat]
Granting == [pc : {"CreateSession"}, user_id : Nat, at : Time, device : Anyone]
Checking == [pc : {"GetUserByID", "handler"}, token : Nat, route : Routes, at : Time]
Request == {Idle} \cup Insertion \cup Granting \cup Checking

(* Every session, and every request, refers to rows that exist.            *)
TypeOK ==
  /\ now \in Time
  /\ users \in Seq(User) /\ users # <<>>
  /\ sessions \in Seq(Session)
  /\ \A s \in DOMAIN sessions : sessions[s].user_id \in DOMAIN users
  /\ req \in [Workers -> Request]
  /\ \A w \in Workers :
       /\ req[w].pc = "CreateSession" => req[w].user_id \in DOMAIN users
       /\ req[w].pc \in {"GetUserByID", "handler"} => req[w].token \in DOMAIN sessions
  /\ answer \in [Workers -> {0} \cup Statuses]

Init ==
  /\ now = 0
  /\ \E p \in Passwords :
       users = <<[email |-> AdminAddress, password |-> p, role |-> "admin",
                  device_id |-> NoDevice]>>
  /\ sessions = <<>>
  /\ req = [w \in Workers |-> Idle]
  /\ answer = [w \in Workers |-> 0]

-----------------------------------------------------------------------------
(* What the statements find, and what the unique indexes let in.           *)

UsersByEmail(a) == {i \in DOMAIN users : users[i].email = a}

MutByDeviceAddress(d) == UsersByEmail(Normal[DeviceAddress[d]])

UsersByDevice(d) == {i \in DOMAIN users : users[i].device_id = d}

MutUniqueEmailOnly(row) == row.device_id = NoDevice => UsersByEmail(row.email) = {}

(* users.email is UNIQUE and so is users.device_id where it is not null.   *)
UniqueAllows(row) ==
  /\ UsersByEmail(row.email) = {}
  /\ row.device_id # NoDevice => UsersByDevice(row.device_id) = {}

Pending(pcs) == Cardinality({w \in Workers : req[w].pc \in pcs})
RoomForUser == Len(users) + Pending({"CreateUser"}) <= MaxUsers
RoomForSession == Len(sessions) + Pending({"CreateUser", "CreateSession"}) < MaxSessions

Reply(w, status) ==
  req' = [req EXCEPT ![w] = Idle] /\ answer' = [answer EXCEPT ![w] = status]

Continue(w, r) ==
  req' = [req EXCEPT ![w] = r] /\ answer' = [answer EXCEPT ![w] = 0]

Insert(row) == [pc |-> "CreateUser", row |-> row, found |-> Len(users)]

Grant(user, device) ==
  [pc |-> "CreateSession", user_id |-> user, at |-> now, device |-> device]

-----------------------------------------------------------------------------
(* POST /api/auth/register: GetUserByEmail, and bcrypt if nobody is found. *)
MutTypedAddress(a) == a

RegisteredAddress(a) == Normal[a]

Register(w) ==
  /\ req[w] = Idle
  /\ RoomForUser
  /\ \E a \in Typed, p \in Passwords :
       IF UsersByEmail(RegisteredAddress(a)) # {}
       THEN Reply(w, StatusOf("ErrEmailTaken"))
       ELSE Continue(w, Insert([email |-> RegisteredAddress(a), password |-> p,
                                role |-> "user", device_id |-> NoDevice]))
  /\ UNCHANGED <<now, users, sessions>>

(* POST /api/auth/login: GetUserByEmail and the comparison of the hash.    *)
Login(w) ==
  /\ req[w] = Idle
  /\ RoomForSession
  /\ \E a \in Typed, p \in Passwords :
       LET known == {i \in UsersByEmail(Normal[a]) : users[i].password = p} IN
       \/ known = {} /\ Reply(w, StatusOf("ErrInvalidCredentials"))
       \/ \E i \in known : Continue(w, Grant(i, NoDevice))
  /\ UNCHANGED <<now, users, sessions>>

(* POST /api/auth/device: GetUserByDeviceID, and a hidden user with an     *)
(* address derived from the device id if there is none.                    *)
LoginAsDevice(w) ==
  /\ req[w] = Idle
  /\ RoomForUser /\ RoomForSession
  /\ \E d \in Devices :
       \/ /\ UsersByDevice(d) = {}
          /\ Continue(w, Insert([email |-> DeviceAddress[d], password |-> NoPassword,
                                 role |-> "user", device_id |-> d]))
       \/ \E i \in UsersByDevice(d) : Continue(w, Grant(i, d))
  /\ UNCHANGED <<now, users, sessions>>

(* INSERT INTO users; Register answers then, LoginAsDevice goes on.        *)
CreateUser(w) ==
  /\ req[w].pc = "CreateUser"
  /\ LET row == req[w].row IN
     IF ~ UniqueAllows(row)
     THEN UNCHANGED users /\ Reply(w, StatusOf("ErrEmailTaken"))
     ELSE /\ users' = Append(users, row)
          /\ IF row.device_id = NoDevice
             THEN Reply(w, 201)
             ELSE Continue(w, Grant(Len(users) + 1, row.device_id))
  /\ UNCHANGED <<now, sessions>>

MutTwoDays(at) == at + TTL + TTL

ExpiresAt(at) == at + TTL

(* INSERT INTO sessions; the clock was read at some point since the last   *)
(* statement.                                                              *)
CreateSession(w) ==
  /\ req[w].pc = "CreateSession"
  /\ \E at \in req[w].at .. now :
       sessions' = Append(sessions, [user_id |-> req[w].user_id, expires_at |-> ExpiresAt(at),
                                     device |-> req[w].device])
  /\ Reply(w, 200)
  /\ UNCHANGED <<now, users>>

-----------------------------------------------------------------------------
(* A request to a protected route: authMiddleware reads the session of the *)
(* bearer token (0: none, or one nobody was given), ...                    *)
GetSessionByToken(w) ==
  /\ req[w] = Idle
  /\ \E route \in Routes, token \in {0} \cup DOMAIN sessions :
       IF token = 0
       THEN Reply(w, StatusOf("ErrUnauthorized"))
       ELSE Continue(w, [pc |-> "GetUserByID", token |-> token, route |-> route, at |-> now])
  /\ UNCHANGED <<now, users, sessions>>

MutFreshWhenRead(r) == now <= sessions[r.token].expires_at + TTL

(* now.After(ExpiresAt) refuses: the instant itself is still accepted.     *)
Fresh(r) == now <= sessions[r.token].expires_at

(* ... compares its expiry with the clock and reads the user; then         *)
(* adminMiddleware looks at the role.                                      *)
GetUserByID(w) ==
  /\ req[w].pc = "GetUserByID"
  /\ LET user == users[sessions[req[w].token].user_id] IN
     CASE ~ Fresh(req[w]) -> Reply(w, StatusOf("ErrUnauthorized"))
       [] Fresh(req[w]) /\ ~ AdminMiddleware(req[w].route, user) ->
            Reply(w, StatusOf("ErrForbidden"))
       [] OTHER -> Continue(w, [req[w] EXCEPT !.pc = "handler"])
  /\ UNCHANGED <<now, users, sessions>>

(* The handler of the route does its work, however long it takes.          *)
Serve(w) ==
  /\ req[w].pc = "handler"
  /\ Reply(w, 200)
  /\ UNCHANGED <<now, users, sessions>>

-----------------------------------------------------------------------------
(* The request dies between two statements; what was committed stays.      *)
Abort(w) ==
  /\ Faults
  /\ req[w] # Idle
  /\ Reply(w, StatusOf("canceled"))
  /\ UNCHANGED <<now, users, sessions>>

Tick ==
  /\ now < Horizon
  /\ now' = now + 1
  /\ UNCHANGED <<users, sessions, req, answer>>

Handle(w) ==
  \/ Register(w) \/ Login(w) \/ LoginAsDevice(w) \/ CreateUser(w) \/ CreateSession(w)
  \/ GetSessionByToken(w) \/ GetUserByID(w) \/ Serve(w) \/ Abort(w)

Next == Tick \/ \E w \in Workers : Handle(w)

Spec == Init /\ [][Next]_vars

-----------------------------------------------------------------------------
(* All the sessions a device ever gets name the same user, although two    *)
(* first logins may both find none and a login may die after it has made   *)
(* one (LoginAsDevice: "subsequent calls return tokens for the same user").*)
DeviceKeepsItsUser ==
  \A s, t \in DOMAIN sessions :
    sessions[s].device = sessions[t].device /\ sessions[s].device # NoDevice =>
      sessions[s].user_id = sessions[t].user_id

(* People who differ in the spelling of an address only share an account:  *)
(* the unique index compares bytes, Register and Login fold them first.    *)
OneAccountPerAddress ==
  \A i, j \in DOMAIN users :
    /\ users[i].device_id = NoDevice /\ users[j].device_id = NoDevice
    /\ Normal[users[i].email] = Normal[users[j].email]
    => i = j

(* A handler runs only for a request that arrived before its session had   *)
(* expired, and a method that asks ensureAdmin only for an administrator:  *)
(* the handlers pass it a constant, so the router alone sees to that.      *)
AdmittedRightly ==
  \A w \in Workers : req[w].pc = "handler" =>
    LET session == sessions[req[w].token] IN
    /\ req[w].at <= session.expires_at
    /\ req[w].route \in EnsureAdmin => users[session.user_id].role = "admin"

(* A device login is refused only because another login of the device made *)
(* the user since this one looked, or because somebody registered the      *)
(* address as an ordinary one: so a second attempt after a lost race, or   *)
(* after a login that died half-way, is not refused again.                 *)
RefusedDevice(w) ==
  /\ req[w].pc = "CreateUser" /\ req[w].row.device_id # NoDevice
  /\ answer'[w] = StatusOf("ErrEmailTaken")

RefusedOnlyByRace ==
  [][\A w \in Workers : RefusedDevice(w) =>
       \/ \E i \in UsersByDevice(req[w].row.device_id) : i > req[w].found
       \/ \E i \in UsersByEmail(req[w].row.email) : users[i].device_id = NoDevice]_vars
=============================================================================
