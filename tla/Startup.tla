------------------------------ MODULE Startup ------------------------------
(***************************************************************************)
(* The server process, backend/cmd/server/main.go: the connection to the   *)
(* database is retried until a deadline, requests are served, and a signal *)
(* shuts the server down, giving the requests in flight a grace period.    *)
(* main and the goroutine that listens are the two threads; the database,  *)
(* the clients and whoever sends the signal are the environment.  Time is  *)
(* in seconds and a timer fires at the instant it is set for.              *)
(***************************************************************************)
EXTENDS Integers

CONSTANTS
  Timeout,      \* of openDBWithRetry (30)
  PingTimeout,  \* 3
  Pause,        \* between two attempts (1)
  Grace,        \* for the requests in flight (10)
  MaxRequests   \* bound: requests in flight

ASSUME TimeAssumption ==
  Timeout \in Nat /\ PingTimeout \in Nat \ {0} /\ Pause \in Nat \ {0} /\ Grace \in Nat
ASSUME RequestsAssumption == MaxRequests \in Nat

VARIABLES
  main,      \* where main is
  clock,     \* how long it has been connecting
  left,      \* until what main waits for times out
  waited,    \* how long it has been shutting down
  listener,  \* the goroutine and its socket
  stop,      \* a signal is in the channel
  database,  \* what the database does with a ping
  inFlight,  \* requests being served
  cut        \* requests the exit of the process cut off

timeVars == <<clock, left, waited>>
serverVars == <<listener, stop, inFlight, cut>>
vars == <<main, timeVars, serverVars, database>>

-----------------------------------------------------------------------------
Connecting == {"open", "ping", "check", "sleep"}
Serving == {"listen", "notify", "wait", "shutdown"}
Ended == {"gave up", "failed", "killed", "stopped"}

TypeOK ==
  /\ main \in Connecting \cup Serving \cup Ended
  /\ clock \in Nat /\ left \in Nat /\ waited \in 0 .. Grace
  /\ listener \in {"none", "starting", "open", "closed"}
  /\ stop \in BOOLEAN
  /\ database \in {"up", "refuses", "hangs"}
  /\ inFlight \in 0 .. MaxRequests /\ cut \in 0 .. MaxRequests
  /\ main \in Connecting \cup {"listen"} => listener = "none"
  /\ main \notin Serving => inFlight = 0

Init ==
  /\ main = "open"
  /\ clock = 0 /\ left = 0 /\ waited = 0
  /\ listener = "none" /\ stop = FALSE
  /\ database \in {"up", "refuses", "hangs"}
  /\ inFlight = 0 /\ cut = 0

(* The process ends, and with it whatever it was doing.                    *)
Exit(how) ==
  /\ main' = how
  /\ cut' = inFlight
  /\ inFlight' = 0
  /\ listener' = "closed"
  /\ UNCHANGED <<timeVars, stop, database>>

Goes(from, to) == main = from /\ main' = to

-----------------------------------------------------------------------------
(* openDBWithRetry                                                         *)

(* sql.Open, which fails or does not touch the network, and PingContext.   *)
Open ==
  /\ \/ Goes("open", "check") /\ UNCHANGED left
     \/ Goes("open", "ping") /\ left' = PingTimeout
  /\ UNCHANGED <<clock, waited, serverVars, database>>

Connect ==
  /\ Goes("ping", "listen")
  /\ database = "up"
  /\ UNCHANGED <<timeVars, serverVars, database>>

MutRefusedOnly == database = "refuses"

(* PingContext returns an error at once or when its context expires.       *)
PingError == database = "refuses" \/ (database = "hangs" /\ left = 0)

PingFails ==
  /\ Goes("ping", "check")
  /\ PingError
  /\ UNCHANGED <<timeVars, serverVars, database>>

MutExactDeadline == clock = Timeout

(* time.Now().After(deadline)                                              *)
Late == clock > Timeout

GiveUp == main = "check" /\ Late /\ Exit("gave up")

Sleep ==
  /\ Goes("check", "sleep")
  /\ ~ Late
  /\ left' = Pause
  /\ UNCHANGED <<clock, waited, serverVars, database>>

Wake ==
  /\ Goes("sleep", "open")
  /\ left = 0
  /\ UNCHANGED <<timeVars, serverVars, database>>

-----------------------------------------------------------------------------
(* main starts the goroutine that listens, ...                             *)
StartListener ==
  /\ Goes("listen", "notify")
  /\ listener' = "starting"
  /\ UNCHANGED <<timeVars, stop, inFlight, cut, database>>

(* ... which opens the port, or cannot and ends the process (log.Fatalf);  *)
(* after Shutdown ListenAndServe returns at once.                          *)
ListenAndServe ==
  /\ listener = "starting"
  /\ \/ /\ listener' = "open"
        /\ UNCHANGED <<main, timeVars, stop, inFlight, cut, database>>
     \/ Exit("failed")

(* The same log.Fatalf when the port is open and Accept fails for good:    *)
(* ListenAndServe returns that error, unless Shutdown has closed the port. *)
AcceptFails == listener = "open" /\ Exit("failed")

(* signal.Notify: from here on SIGINT and SIGTERM no longer kill.          *)
Notify ==
  /\ Goes("notify", "wait")
  /\ UNCHANGED <<timeVars, serverVars, database>>

Shutdown ==
  /\ Goes("wait", "shutdown")
  /\ stop
  /\ left' = Grace
  /\ listener' = "closed"
  /\ UNCHANGED <<clock, waited, stop, inFlight, cut, database>>

MutNoWait == TRUE
MutWaitForAll == inFlight = 0

(* Shutdown returns when nothing is in flight or the grace is over.        *)
Drained == inFlight = 0 \/ left = 0

Stopped == main = "shutdown" /\ Drained /\ Exit("stopped")

-----------------------------------------------------------------------------
MutStillOpen == listener \in {"open", "closed"}

Reachable == listener = "open"

Accept ==
  /\ Reachable /\ inFlight < MaxRequests
  /\ inFlight' = inFlight + 1
  /\ UNCHANGED <<main, timeVars, listener, stop, cut, database>>

Finish ==
  /\ inFlight > 0
  /\ inFlight' = inFlight - 1
  /\ UNCHANGED <<main, timeVars, listener, stop, cut, database>>

(* Before Notify a signal ends the process; the channel holds one signal   *)
(* and those that come while it is full are lost.                          *)
Signal ==
  \/ /\ main \in {"wait", "shutdown"}
     /\ stop' = TRUE
     /\ UNCHANGED <<main, timeVars, listener, inFlight, cut, database>>
  \/ /\ main \in Connecting \cup {"listen", "notify"}
     /\ Exit("killed")

(* Once the database has answered a ping, it has.                          *)
DatabaseChanges ==
  /\ main = "sleep" \/ (main = "ping" /\ database = "hangs")
  /\ database' \in {"up", "refuses", "hangs"}
  /\ UNCHANGED <<main, timeVars, serverVars>>

(* Time matters while main waits with a timer.  A ping that is answered or *)
(* refused takes none.                                                     *)
Tick ==
  /\ \/ main = "ping" /\ database = "hangs"
     \/ main = "sleep"
     \/ main = "shutdown" /\ inFlight > 0
  /\ left > 0
  /\ left' = left - 1
  /\ IF main = "shutdown" THEN waited' = waited + 1 /\ UNCHANGED clock
     ELSE clock' = clock + 1 /\ UNCHANGED waited
  /\ UNCHANGED <<main, serverVars, database>>

-----------------------------------------------------------------------------
Main ==
  \/ Open \/ Connect \/ PingFails \/ GiveUp \/ Sleep \/ Wake
  \/ StartListener \/ Notify \/ Shutdown \/ Stopped

Next == Main \/ ListenAndServe \/ AcceptFails \/ Accept \/ Finish \/ Signal \/ DatabaseChanges \/ Tick

(* Both threads go on when they can, and so does time.                     *)
Spec == Init /\ [][Next]_vars /\ WF_vars(Main) /\ WF_vars(ListenAndServe) /\ WF_vars(Tick)

-----------------------------------------------------------------------------
(* The deadline is looked at only after a failed ping, so the attempts go  *)
(* on beyond it, but by no more than one pause and one ping.               *)
GivesUpInTime == main \in Connecting => clock <= Timeout + Pause + PingTimeout

(* What main promises the requests in flight ("entrypoint with graceful    *)
(* shutdown"): once it has caught a signal they are cut off only when the  *)
(* grace period is over, and while it waits for one only if Accept fails   *)
(* for good.  Before signal.Notify the port may be open already: a signal  *)
(* then ends the process at once.                                          *)
CutOnlyAfterGrace ==
  [][cut' > cut =>
       \/ main = "shutdown" /\ waited = Grace
       \/ main = "wait" /\ main' = "failed"
       \/ main = "notify" /\ main' \in {"failed", "killed"}]_vars

(* Whatever the database does, the process ends up serving, or ends.       *)
ConnectsOrExits == <>(main \notin Connecting)

(* Once main has been sent a signal the process ends, although its         *)
(* requests may take for ever and more signals may come.                   *)
SignalStops == stop ~> main \in Ended
=============================================================================
