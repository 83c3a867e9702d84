# SeatBookingMAI: models, checks and proofs

TLA+ models of the seat booking service (`src/backend`, `src/frontend`), the
TLC configurations that check them on small instances, and theorems about them
that TLAPS checks for every value of the constants. Paths below are relative to
the repository.

## 1. Inventory

The backend is one Go process over one PostgreSQL database; nginx serves the
static client and forwards `/api`. Every HTTP request runs in a goroutine of
its own. **No handler opens a transaction**: each call of the `Repository`
interface is one autocommitted statement, so a handler is a sequence of
statements and any two handlers interleave between them. What stays true
whatever the interleaving is what single statements and the schema's
constraints enforce; everything else is check-then-act.

| Component | State | Operations | What makes it correct |
|---|---|---|---|
| Booking core (`app/service.go`, `repo/postgres`) | `bookings`, `settings.booking_limit` | `CreateBooking` (up to eight statements), `CancelBooking`, `AdminUpdateBookingStatus`, `UpdateBookingLimit` | a seat is promised once per instant; the per-user limit; only active seats are booked; final statuses stay |
| Schema (`migrations/*.sql`) | tables, unique indexes, foreign keys, the EXCLUDE constraint | every statement | what holds under any interleaving |
| Catalog | `coworkings`, `seats` | create, update, delete of both | a booking keeps its seat; names and grid cells are unique |
| Accounts and sessions | `users`, `sessions` | register, login, device login, authenticate | one user per address and per device; an expired session is refused |
| Availability and map | reads only | `ListAvailableSeats`, `ListSeatsForMap` | a seat is shown as it was at some instant of the call |
| Reports | reads only | `BuildReport` | its numbers are of one read and add up |
| Event log (`app/logring.go`) | ring buffer in memory, its mutex | `logEvent`, `Push`, `Snapshot` | the latest entries, newest first |
| Test store (`app/apptest/fake_repo.go`) | maps under a mutex | the same interface | behaves like the real store |
| HTTP layer (`httpapi/handler.go`, `domain/errors.go`) | none | routing, role check, decoding, status codes | every handler behind the right role |
| Server process (`cmd/server/main.go`) | main, the listening goroutine, the signal channel | connect with retry, serve, shut down | starts or gives up; waits for requests in flight |
| Browser client (`frontend/app.js`) | screen, tokens, form and cached lists | callbacks of the user and of `fetch` | shows the answer to the last question asked |

How they interact: the client calls the HTTP layer; the HTTP layer calls
`Service` after `Authenticate`; `Service` calls `Repository` (PostgreSQL in
production, the fake in tests) and pushes an event into the log after the
statement it tells of. The catalog and the booking core share the `seats`
table: `CreateBooking` reads a seat that an administrator may switch off or
delete before the INSERT. Accounts and the booking core share `users.name`:
the first statements of `CreateBooking` insert, the last two rename.

What is hard here:

- check-then-act without a transaction: limit, conflict, seat state, status;
- a request that dies between two statements (canceled context, failed
  statement, restart): what was committed stays, the rest never happens;
- a booking that leaves `confirmed` and comes back to it;
- deletion of seats and coworkings against bookings of any status;
- half-open windows compared in three places (service, SQL, constraint);
- the order of log entries and the wrap of the ring;
- lookups and inserts of users, seats and coworkings that race for a unique
  index;
- views made of several reads while the tables change;
- a process that is told to stop while it starts, a port that fails while
  requests are served, and requests that outlast the shutdown;
- in the client, answers that come after the question has changed.

`PROJECT.json` lists each of these hazards at its line with the properties
that would catch it.

## 2. Modules

| Module | What it is |
|---|---|
| `Intervals` | windows: `validateInterval`, `overlapsWindow`, the `[)` range of the constraint |
| `BookingService` | the booking core over the store, one action per statement, and its properties |
| `SeatCalendar` | abstract: a calendar of free and held instants for every seat |
| `MCBooking` | instances of `BookingService` for TLC, its handlers racing |
| `MapView`, `MCMapView` | both views of the free seats, put together beside `BookingService`; its instance has one handler |
| `BookingProofs` | the theorems about `BookingService` and `MapView`, a section each: rows and schema, the limit, the calendar, the contract of one handler, the names, the views |
| `HttpApi` | routes and their middleware, the status of an error |
| `Accounts`, `MCAccounts` | users and sessions, one action per statement, and the middleware |
| `AccountsProofs` | the five properties of `Accounts` |
| `Schema` | tables as functions from ids to rows, the unique indexes of the catalog |
| `Catalog`, `MCCatalog` | coworkings and seats, one action per statement |
| `FloorPlan` | abstract: rooms whose cells hold at most one seat |
| `CatalogProofs` | the properties of `Catalog`, and that it implements `FloorPlan` |
| `Repository` | the `Repository` interface: calls, rows, answers |
| `PostgresRepo` | the production store, one statement per call; the abstract specification of a store |
| `FakeRepo`, `MCFakeRepo` | the store of the unit tests, and that it implements `PostgresRepo` |
| `FakeRepoProofs` | its indexes, and the refinement |
| `Report`, `ReportProofs` | the tally of `BuildReport` while the table changes |
| `Startup`, `StartupProofs` | the server process from the first ping to its exit |
| `FrontendSession` | the browser client: screens, tokens, calls in flight |
| `FrontendSessionProofs` | its four invariants, and that a hint has a call |
| `LogRing` | the ring buffer and the goroutines that log |
| `EventLog` | abstract: the latest entries, newest first |
| `LogRingProofs` | the ring implements the log, for every capacity |

How they are composed: `BookingService` is extended by `MapView`, so that the
views run beside the very handlers that book. `Accounts` takes its routes and
statuses from `HttpApi`. `Catalog` and both stores take their tables and unique
indexes from `Schema`; `Catalog` sees the booking core as two actions (`Book`,
`Pass`), `BookingService` sees the catalog as seats that are switched and
deleted. The three abstract specifications are instantiated with a refinement
mapping by the modules that implement them, as is `PostgresRepo` by `FakeRepo`.

### BookingService

`bookings[i]` is the row with id `i`: rows are never deleted by the handlers, and
the ids a refused INSERT skips in the real sequence are not counted, as nothing
compares ids but for equality and age. `seats[s]` is `active`, `inactive` or `deleted`; the
other columns of a seat do not matter to bookings. `limit`, `names` and `now`
are `settings.booking_limit`, `users.name` and the service's clock. `req[w]` is
what handler `w` keeps between two statements: `pc` names the repository call
it is about to make, the other fields are the handler's local variables. In
particular `at` is the clock reading taken once at the top of `CreateBooking`
and used by every later check, and `limit` is the value `GetSettings` returned.

| Action | Code |
|---|---|
| `CreateBooking` | input checks, clock reading, `GetUserByID` (users are never deleted) |
| `GetSeatByID`, `GetSettings`, `CountActiveBookingsByUser`, `SeatHasConflict` | the four reads, each with the answer that ends the request |
| `InsertBooking` | the INSERT under the foreign key and the EXCLUDE constraint |
| `GetUserByID`, `UpdateUserName` | the rename of a device user; its errors are dropped by the code |
| `CancelBooking`, `AdminUpdateBookingStatus` | the read of the row and the checks on it |
| `UpdateBookingStatus` | the UPDATE by id, which does not read the status again |
| `DeleteSeat`, `DeleteSeatRow` | the question for future bookings, then the DELETE |
| `DeleteCoworking` | one statement: the cascade to seats against RESTRICT of bookings |
| `UpdateSeat`, `UpdateBookingLimit` | the UPDATE. Of the seat's columns only `active` is kept; as the handler may write back the value it read, the step may write either |
| `Abort` | the request dies between two statements |
| `Tick` | time passes |

Constants choose the store (`Store = "postgres"` or `"fake"`: the test store
has none of the constraints) and whether requests may die (`Faults`). Seats and
coworkings exist from the start: their creation adds nothing to what a booking
can meet, and is in `Catalog`.

### LogRing

`logEvent` reads the clock and builds the entry before `Push` takes the mutex,
so an entry is first *stamped* and then *pushed*; the mutex makes the push one
step. `Restart` empties the ring: it is not persisted.

### MapView

`view` is the view being put together: the rows read and not yet looked at, the
seats found free and busy. `ListSeats` reads all rows at once,
`SeatHasConflictForView` asks for one seat, and every action of
`BookingService` may come in between (`Others`). Three fields are not in the
code: `could` and `couldnt` collect, state by state since the call began, the
seats that could or could not have been booked for the window, and `edited`
says whether an administrator has switched or deleted a seat meanwhile. The
properties compare the answer with them.

### Accounts and HttpApi

A user's row number is its id and a session's row number its token: what is
drawn at random in the code is new in the model. Addresses are folded by the
function `Normal`, so that `Anna` and `anna` are two strings and one account.
`DeviceAddress` is the address derived from a device id; it is injective, and
the proofs need that. `Register`, `Login` and `LoginAsDevice` are the lookups,
`CreateUser` and `CreateSession` the inserts, and `GetSessionByToken`,
`GetUserByID` and `Serve` the way of a protected request through both
middlewares to its handler. `answer[w]` keeps the status of the last answer.
The service's own `ensureAdmin` is asked with the constant `RoleAdmin`, so it
never refuses: `EnsureAdmin` names the routes where it is asked, and
`AdmittedRightly` says that the router makes up for it. `Routes` are the routes
people ask for; the theorems take any of the protected ones.

### Catalog and Schema

A coworking is its name and a seat its coworking, name and cell; the other
columns are written together with these and no rule reads them. Of the bookings
the catalog keeps what a deletion asks for: the seats some row refers to
(`booked`, the RESTRICT) and those with a confirmed booking to come (`upcoming`,
the question `DeleteSeat` asks first). `UpdateSeat` keeps the coworking of the
row it has read and takes everything else from the form, which is what the code
does: an edit can therefore be stale in the coworking only.

### Repository, PostgresRepo, FakeRepo

One action per call of the interface, in both stores. `answer` is the call, the
error and what was found, so that refinement compares not only the tables but
every answer. The test store has no constraints beyond its unique names and
addresses, and its calls are made without restriction; a token used before is
overwritten.
`SchemaHolds` says what the schema would have kept true of the same tables
(foreign keys, the EXCLUDE constraint, the range of the limit).
`MirrorsPostgres` says that every call which does not leave it, nor uses a token
twice (`SchemaAllows`), is a call of `PostgresRepo` with the same effect and the
same answer: a fake that refuses too much, or finds the wrong row, breaks it.
What the handlers make of a call that does leave it is shown by `fake_store`,
where `BookingService` runs over a store without constraints.

A list is a sequence of rows in the order the store gives it (`ById`,
`EarliestFirst`, `LatestFirst`, `InGridOrder` in `Repository`); rows that an order
does not tell apart come in any. The package comment of the fake says that it
"mirrors the behaviour of the production postgres repository", but the two agree
on the order of coworkings only:

| List | Fake | PostgreSQL |
|---|---|---|
| `ListCoworkings` | by id | by id |
| `ListSeats` | by id (`fake_repo.go:303`) | by place in the grid (`repository.go:222-224`) |
| `ListBookingsByUser` | earliest first (`fake_repo.go:404`) | latest first (`repository.go:432`) |
| `ListAllBookings` | by id (`fake_repo.go:415`) | latest first (`repository.go:439`) |

So the lists whose order counts are a constant, `InOrder`. `fake_calls` and the
theorem give it the list of coworkings; with any other one in it, TLC finds
`MirrorsPostgres` violated by the first list of two rows that differ.

### Report

The read of the table is one statement; the loop looks at one row per step.
`rows` is what it has read, `bookings` goes on changing.

### Startup

Seconds pass while `main` waits with a timer (`left`): in a ping that hangs, in
the pause, in `Shutdown`. `clock` counts the seconds of connecting, `waited`
those of shutting down. The goroutine that listens is a thread of its own:
`main` may be at `signal.Notify` before or after the port is open. Its
`log.Fatalf` has two causes: the port cannot be opened (`ListenAndServe`), or it is
open and Accept fails for good (`AcceptFails`), with requests in flight. `Exit`
ends the process and counts in `cut` the requests it cuts off. A signal that
comes before `signal.Notify` kills the process (`killed`), as Go does with a
signal nobody has asked for.

### FrontendSession

`calls` are the calls in flight, oldest first; an answer may be given to any of
them. A token is named after the user it was
given to, the list of bookings after the user whose they are, the map after the
coworking and the dates it is of. A token in a call is the one `api()` picks at
that moment. `window` is what the two date inputs hold, `NoWindow` when one of
them is cleared: `reloadStudentMap` then returns at once, no map is asked for and
the old one stays, both in `ReloadStudentMap` and in `BookingChanged`.
Two variables are not in the code: `hurried` says whether anybody has gone home
or logged in while a call was in flight, `overtaken` whether the youngest map
arrived before an older one, until the next is asked for. Three properties hold
only while they are false; every other click and every other order of answers is
met.
A call for a seat map that fails still replaces the loading hint; any other
call that fails shows a message and changes nothing.

## 3. What is checked

Runs that pass:

| Run | Instance | Shows |
|---|---|---|
| `booking_core` | 2 handlers, 2 users, 1 seat, 3 bookings, 4 instants, 1 name, limit 1, requests may die | `TypeOK`; no instant is promised twice (`NoDoubleBooking`); a booking keeps its seat (`BookedSeatExists`); the seat behaves as a calendar (`ImplementsCalendar`); the limit is overshot by at most the other requests in flight (`OvershootBounded`), although a re-confirmed booking is not counted at all |
| `booking_serial` | 1 handler, 1 device user, 1 seat, 2 names, 2 bookings, 4 instants, limit up to 2, and a view beside them | with one request at a time the limit (`BookingLimitEnforced`), inactive seats (`ActiveSeatAtInsert`), final statuses (`TerminalStatusFinal`) and the device user's name (`NameTracksLatest`) are respected. `ViewTypeOK`; a seat shown busy was busy at some instant of the call (`BusyWasBusy`), one shown free was free (`FreeWasFree`) |
| `accounts_races` | 2 handlers, 2 devices, 3 users, 2 sessions that live 1 of 3 instants, an address in two spellings and one derived from a device, a route of each kind; requests may die | `TypeOK`; a device keeps one user (`DeviceKeepsItsUser`), an address one account (`OneAccountPerAddress`), a device is refused only by a lost race or a registered address (`RefusedOnlyByRace`), and a handler runs only for a request that came in time and from somebody with the role (`AdmittedRightly`) |
| `catalog_races` | 2 administrators, 2 coworkings, 2 seats that may agree in name or cell; requests may die | `TypeOK`; unique places (`PlacesUnique`), nothing dangles (`NothingDangles`), a seat's id is never reused and its coworking never changes (`SeatIdentity`), the floor plan is implemented (`ImplementsFloorPlan`) |
| `report` | 2 seats, 2 bookings, 3 instants | the numbers are of one read (`ReportAddsUp`) |
| `fake_calls` | up to 2 rows of a table, 2 touching windows, limits 0 and 1 | the test store answers every call as PostgreSQL does, up to the order in which it lists seats and bookings, or leaves what the schema allows (`MirrorsPostgres`); its indexes agree with its tables (`IndexesAgree`) |
| `server_life` | the code's own timeouts (30, 3, 1 and 10 seconds), 3 requests | `TypeOK`; gives up at most one pause and one ping late (`GivesUpInTime`); serves or ends (`ConnectsOrExits`); a signal ends it (`SignalStops`); from `signal.Notify` on, a request is cut off only after the grace period or by an Accept that fails for good (`CutOnlyAfterGrace`) |
| `client_session` | 3 calls in flight, answered in any order; 2 coworkings, 2 windows and cleared dates | `TypeOK`; until somebody goes home or logs in while a call is in flight, the panel works with an administrator's token (`AdminScreenHasAdminToken`) and the student sees the own bookings (`StudentSeesOwnBookings`); unless the youngest map overtakes an older one, the map left on the page is that of the coworking and, if they are given, the dates selected (`MapIsOfSelection`); the hint always goes away (`LoadingEnds`) |
| `log_ring` | 3 goroutines, 4 slots, 2 events, 2 instants | `TypeOK`; the ring implements the abstract log (`ImplementsEventLog`); a bounded snapshot is a prefix and never shows an unwritten slot (`SnapshotIsPrefix`); nothing but a restart shortens the log (`OnlyRestartForgets`); above an entry there are fewer older ones than goroutines (`NearlyNewestFirst`) |

Runs in which TLC finds what the repository's documents or tests rule out; each
is a finding in `PROJECT.json` with the line that says otherwise:

| Run | Violated | What happens |
|---|---|---|
| `racing_limit` | `BookingLimitEnforced` | both requests count, then both insert: two active bookings with limit 1 |
| `racing_status` | `TerminalStatusFinal` | two requests read `confirmed`; the second UPDATE replaces a final status |
| `fake_store` | `NoDoubleBooking` | the test store takes two overlapping confirmed bookings, which the real one refuses |

Several properties above hold only under a condition the code does not see to,
and the condition is part of the property or of the instance. Without it:

- with two handlers (`ActiveSeatAtInsert`), a seat that is switched off after
  `CreateBooking` has read it is booked all the same;
- with two handlers (`NameTracksLatest`), two bookings may rename their device
  user in the opposite order of their inserts, and the older name stays;
- of two first logins of one device the slower one is answered 409, although
  the device is its own (`RefusedOnlyByRace` names this case);
- a seat that is switched off after a view has read its row, and whose booking
  is canceled before the view asks for its conflicts, is shown free and at no
  instant was (`FreeWasFree` without `~ edited`);
- a seat with past bookings only cannot be deleted: `DeleteSeat` asks for future
  ones, then the foreign key refuses, with an error no handler recognises;
- the test store deletes a seat that is booked and takes a token twice
  (`SchemaAllows` fails), and lists seats and bookings in an order of its own
  (`MirrorsPostgres` with these lists in `InOrder`);
- the views promise something of each seat, not of the combination of seats they
  show, which may never have existed;
- a session that expires while its request is checked or served is let through
  (`AdmittedRightly` compares with the instant the request came);
- a signal between the start of the listener and `signal.Notify` cuts off
  requests at once, and so does an Accept that fails for good before `Shutdown`
  (the last two cases of `CutOnlyAfterGrace`);
- the button back to the landing page keeps both tokens, although
  `src/README.md:22-24` says that it clears them; if the role is changed
  while a map is loading, the bookings that follow are asked for with the other
  role's token (`StudentSeesOwnBookings` without `~ hurried`);
- the answer to a second login replaces the token of a panel that is open
  (`AdminScreenHasAdminToken` without `~ hurried`);
- the map of an earlier selection, answered after the youngest, stays
  (`MapIsOfSelection` without `~ overtaken`);
- with a date cleared the map of the dates given last stays on the page;
- entries are stamped first and pushed second, so the log is in order of time
  only with one goroutine.

### Bounds

In the booking modules `Horizon` is the last instant, `MaxBookings` the bookings
of a behaviour (rows and creations in flight), and the sets of users, seats,
handlers and names are given by the cfg. A booking starts after the instant it
is made, so four instants leave three windows that can be booked: two that touch
and one that holds both. Together with equal ones these are the cases the
comparisons of `Overlaps` tell apart; windows that overlap in part only are left
to the theorems. The views ask for windows that may have begun. Two handlers
meet every race between a check of one and a write of another, and both ways
past the limit: two counts before either insert, and a count while a canceled
booking waits to be confirmed again. Three bookings leave room to break the
bound by one, which a handler that counts wrongly does. A limit that is lowered
is met in `booking_serial`; that `OvershootBounded` survives it among several
handlers, and larger limits, is a theorem. One seat is enough where no rule
compares two: the views settle each of their seats apart from the others.

The renames of device users are compared in `booking_serial`. In `booking_core`
they only have to meet every other statement, so its constraint `OneNamed` gives
a name to a booking only while it is the only row. `SYMMETRY` is over handlers
and users there and over names in `booking_serial`, and no liveness property is
checked with it.

In the ring, four slots let it be empty, part full, full and wrapped with a
snapshot that crosses the seam, and leave room above an entry for the two older
ones that two other goroutines still hold, and for a third.

`MaxUsers` and `MaxSessions` leave room for the administrator and two more
users, which two racing inserts need, and for two sessions to be compared. The
three routes are one that anybody may use, one that the router and the service
both keep for administrators, and one that the router alone does: no other
distinction is made between routes. `MaxCoworkings = MaxSeats = 2` is a pair for
every unique index, a coworking to delete under a seat, and a place to move to.
In `MaxId` the test store has ids for one user and two rows of the other tables;
the constraint `SchemaHolds` stops a behaviour where it leaves the schema, after
that step has been checked, and the view leaves out the last answer, which no
call reads and which `MirrorsPostgres` compares at the step that gives it.
`MaxCalls` is three: one to overtake, one to be overtaken and one that
follows; two windows are one to be replaced by the other.
`MaxRequests` is three, and the timeouts of `server_life` are those of the code.
Every safety property of these runs is proved beyond its bounds; the bounds of
the two runs with liveness (`server_life`, `client_session`) matter for that only.

`CHECK_DEADLOCK` is off in the run of `Startup` only, because the process
ends; elsewhere something can always happen.

### Fairness

`Startup`: weak fairness of `Main`, `ListenAndServe` and `Tick`. `main` is a
goroutine that is never blocked but by what its actions say, so is the
listener, and time passes. Nothing is assumed of the database, the requests or
the signals: a ping may hang for ever, which is why `PingContext` has a
deadline, and `Signal`, `Accept` and `Finish` need not happen.

`FrontendSession`: weak fairness of `MapAnswered`, as `fetch` settles: it is
answered or fails, and both are this action.

The handlers have no fairness and no liveness property. A handler has no loop
and waits for nothing but the database; whether a statement ends is up to the
database and the request's context, on which the code sets no timeout.

## 4. What is proved

All theorems quantify over every value of the constants: any number of users,
seats, handlers and bookings, any clock, any capacity.

| Theorem | Says |
|---|---|
| `TypeCorrect` | `Spec => []TypeOK`, over both stores |
| `NeverDoubleBooked` | over PostgreSQL, `Spec => []NoDoubleBooking` |
| `BookedSeatNeverDeleted` | over PostgreSQL, `Spec => []BookedSeatExists` |
| `LimitOvershoot` | `Spec => []OvershootBounded`, over both stores |
| `CalendarImplemented` | over PostgreSQL, `Spec => ImplementsCalendar` |
| `LimitKeptByOneHandler`, `SeatActiveForOneHandler`, `TerminalForOneHandler` | for one handler, over both stores, `BookingLimitEnforced`, `ActiveSeatAtInsert`, `TerminalStatusFinal` |
| `NameTracksLatestBooking` | for one handler whose requests do not die, `Spec => []NameTracksLatest` |
| `ViewTypeCorrect`, `BusySeatsWereBusy`, `FreeSeatsWereFree` | `ViewSpec => []...`: the properties of `MapView`, beside any number of handlers and over both stores |
| `IndexesAlwaysAgree` | `Spec => []IndexesAgree` of the test store, also outside what the schema allows |
| `FakeMirrorsPostgres` | if only the list of coworkings is `InOrder`, `Spec => MirrorsPostgres` |
| `PageTypeCorrect`, `PanelHasAdminToken`, `OwnBookingsForPatient`, `LastMapIsOfSelection` | the four invariants of `FrontendSession` |
| `HintHasItsCall` | the hint is shown only while a map is on its way |
| `AccountsTypeCorrect`, `DeviceUserIsOne`, `AccountIsOne`, `AdmissionCorrect`, `RefusalCorrect` | the five properties of `Accounts` |
| `CatalogTypeCorrect`, `PlacesStayUnique`, `ReferencesHold`, `SeatsKeepIdentity` | the invariants and the action property of `Catalog` |
| `CatalogRefinesFloorPlan` | `Spec => ImplementsFloorPlan` |
| `StartupTypeCorrect`, `ConnectingIsBounded` | for any timeouts |
| `GraceIsHonoured` | `Spec => CutOnlyAfterGrace`: from `signal.Notify` on, unless Accept fails for good |
| `ReportTypeCorrect`, `ReportsAddUp` | for any table |
| `LogTypeCorrect` | `Spec => []TypeOK` of the ring |
| `RingImplementsEventLog` | `Spec => ImplementsEventLog` |
| `SnapshotsArePrefixes` | `Spec => []SnapshotIsPrefix` |
| `OnlyRestartsForget` | `Spec => OnlyRestartForgets` |
| `OrderIsNearlyKept` | `Spec => []NearlyNewestFirst` |

Assumptions, each named in the module that declares the constant: device users
are users, every seat has a coworking, there are finitely many handlers, the
empty name is not a name, the upper end of the limit is positive, bounds and
lead time are natural numbers; finitely many goroutines log, the ring's
capacity is positive and its zero entry is not a real one; the routes asked for
are protected ones; folding an address twice is folding it once, the
seeded address is folded, different devices have different derived addresses and
a session lives for some time; at least one coworking may be created; pauses and
pings take at least a second; each table of the stores has an upper end of its
ids; a map is told from the hint, the error and the empty panel, and given
dates from a cleared one.

Some theorems have a hypothesis besides. That of `FakeMirrorsPostgres` leaves
open an order on which the stores differ. `Store = "postgres"` is production, and
`fake_store` shows what happens otherwise. `OneHandler` (no two handlers are
different) is that of four promises which the code keeps only if
requests come one at a time: `racing_limit` and `racing_status` show two of them
broken by two handlers, the list in section 3 tells how the other two are. `~ Faults`, for the
names only, is needed because a request that dies between its INSERT and its
rename leaves the older name.

**Bookings.** The inductive invariant `IInv` has two halves. `RowsInv` is
`TypeOK` with two facts about requests: a pending UPDATE names a row
(`PendingRowExists`; without it the UPDATE could write outside the table), and
a pending rename has a name (`RenameHasName`; without it `names` could become
empty). `SchemaInv` says, over PostgreSQL, that confirmed rows of a seat are
pairwise disjoint and that every row's seat exists. `NoDoubleBooking` is not
inductive by itself: it speaks of instants, the constraint of windows; two
disjoint windows share no instant. Six steps touch bookings or seats, and
each is shown to keep the two facts from the constraint alone: no check
made in an earlier statement is used, which is the point of the theorem.

**The limit.** `LimitInv` adds that a request's clock reading is not ahead of
the clock. A request that passes the count saw fewer than `limit` active rows
at an earlier instant, so no fewer than are active now; each row it did not see
and that may still count belongs to another handler's pending re-confirmation.
These handlers, the ones past their own count and the one counting are
distinct, hence the bound `MaxLimit + Cardinality(Workers)`.

**The ring.** `RingInv` is `TypeOK`, `Pending`, and `Written`: every slot below
`head`, and every slot once the head has come round, holds an entry. The only
arithmetic is that of `%` below twice the capacity, stated in two lemmas.
`OnlyRestartsForget` is stated beside the refinement because the abstract log
may restart at any time: a ring that emptied itself when it wraps would
implement it too.

**The order of the log.** That there are fewer older entries above an entry than
writers is not inductive: a writer that holds an older one may push it next.
`FewBehind` counts these writers (`Behind`) with the older entries already above
(`OlderAbove`). A push moves one from the first count to the second, and the
entry just pushed has none above and, as its own writer holds nothing now, fewer
than all writers behind it; `NotFromTheFuture` says that whoever stamps next is
behind no entry of the log.

**The calendar.** `CalendarInv` adds to `IInv` that the ids of insertions under
way stay within the bound of the model (`IdsReserved`). The mapping `Holder` is
characterised first: at each slot it is the one confirmed row that covers the
slot, or 0 (`HolderInv`, from `ConfirmedDisjoint`). With that, an INSERT that
the constraint allows is a `Take`; an UPDATE of the status is a `Release` when
it leaves `confirmed`, a `Take` when it returns there, and otherwise a
stutter, as is every other step.

**The contract of one handler.** `ContractInv` says that what a request has read
still holds when it writes: the seat it found active is active, the limit it
read is in force, its user has fewer active bookings than that, and the row of
a pending status update is still confirmed. With `OneHandler`, every step is one
of the only handler or of time, and the operations of a single statement find
the handler idle: nothing else writes between a read and the write that relies on it. The clock moves, though: the count
was made by the reading taken at the top of `CreateBooking`, the property speaks
of the clock at the insertion, and a booking that is active later was active
then. `NamesInv` follows a name from the insertion to the rename: until the
rename is done it is the pending request, and afterwards `users.name`, that has
the name of the user's latest named booking.

**The views.** `ViewInv` is about the fields that are not in the code.
`PresentRecorded` says that `could` and `couldnt` have recorded the present
state, so that whatever is read is read in a recorded one; `RowsActive` that a
seat still to be looked at is active unless it was edited; `SeatsSorted` that
the seats read are in exactly one of `rows`, `free` and `busy`. The theorem then
rests on one fact about windows: two that are not empty overlap if and only if
they share an instant (`CommonInstant`), hence on `WindowsOK`, that no window in
a row or a request is empty. Nothing is asked of the number of handlers.

**The test store.** `RepoInv` makes the indexes inductive: `IndexesAgree` says
that they are the exact inverses, `IdsGiven` that a counter is past every id of
its table, so a new row never takes a place in an index from an old one, and
`DevicesIndexed` that the empty device id has no entry. For the refinement,
every call has a lemma of its own (`...There`). The reads need `RepoInv` alone:
a lookup by an index finds the row that the query finds (`EmailLookup`,
`DeviceLookup`). A write that the schema would have refused is recognised by
what it leaves behind: `SchemaHolds'` gives the foreign keys and the absence of
a conflict which the statement of `PostgresRepo` asks for. Only a session made
with a token that is there already leaves nothing to recognise it by, hence
`TokenReused`.

**The client.** `PageInv` types the calls in flight by their kind and keeps a
coworking selected while the map is open or a change is on its way. `Waiting`
holds until somebody goes home or logs in while a call is in flight: whatever is
in flight then belongs to one role (`StudentCalls`, or the one call of a login,
`LoginCall`), and what an answer takes from the page, the screen after a map and
the token after a login, is still of that role. `SelectionComing` holds until the youngest map
overtakes an older one: the youngest in flight is of what is selected, and if
none is, the page shows that one. Any other answer leaves the youngest the
youngest (`OthersMoveUp`), and a new map makes itself the youngest (`MapComes`),
so the order in which the older ones come does not matter. A date that is cleared
asks for nothing and gives up the part about the dates.

**Accounts.** `AccountsInv` strengthens `TypeOK` by what the inserts rely on:
emails and devices are unique, an ordinary user's email is folded and a device's
user has the address derived from it (`UsersOK`); a session made by a device is
of that device's user (`SessionsOK`); a pending insert has found its device or
address free among the first `found` users, a pending grant is of an existing
user of its device, and a request being served was fresh when it came
(`ReqsOK`). As rows are only appended, what a request has read stays true of
the rows it has read (`Grows`). `RefusedOnlyByRace` follows: whoever holds the
device has come later, and whoever holds the address without the device is not a
device user, for derived addresses are injective.

**The catalog.** `CatalogInv` says that the tables satisfy the schema
(`TablesOK`) and that a pending edit names the coworking its seat has as long as
the seat exists (`EditOK`); this is what makes a stale edit harmless, and it
holds because ids are never reused and no edit changes the coworking. For the
floor plan, `Occupant` is characterised first (`Shown`): a cell shows the one
seat that is there, or none. An INSERT is then a `Place`, an edit of the cell a
`Move`, a deletion a `Remove` or a `Close`, and everything else a stutter.

**The server process.** `InTime` bounds the clock at each step of the loop by
what may still be waited there: the deadline at `open` and `ping` is at most a
pause past, and `left` seconds of a ping are still to come. `Draining` says that
`waited` and `left` add up to the grace period during `Shutdown`, so an expired
timer means a whole grace period, and that the port is open only while `main` is
at `signal.Notify` or waits for a signal, so Accept cannot fail any more once
`Shutdown` has begun.

**The report.** `ReportAddsUp` is inductive with the type invariant; the
counters are cardinalities of sets that grow by one row or not at all.

Only model-checked: liveness under fairness (`ConnectsOrExits`, `SignalStops`,
`LoadingEnds`), which is out of the prover's reach; of the last one the part
that is a matter of safety is `HintHasItsCall`. What the violated properties of
the three findings say is shown by their counterexamples. No module declares a
`RECURSIVE` operator.

## 5. Not modelled

- The decoding of request bodies, paths and queries, CORS headers and the
  writing of JSON: they refuse a request before its first statement or format
  its answer, and keep no state. Input that the service itself refuses before
  any statement (empty names, a grid position off the grid) is left out of the
  inputs for the same reason.
- Password hashing and the randomness of tokens: a hash is the password it
  matches, a token is new.
- The columns no rule reads.
- The resolution of the clock: PostgreSQL keeps microseconds, the service
  compares nanoseconds. A window shorter than a microsecond is refused by the
  table's CHECK with an unrecognised error and leaves nothing behind.
- The client's coworking list and what the admin panel shows once it is open:
  forms over the operations of `Catalog`, `BookingService` and `Report`.
- The compose file, Dockerfiles, nginx and the smoke script.
