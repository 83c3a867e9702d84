--------------------------- MODULE StartupProofs ----------------------------
(***************************************************************************)
(* Theorems about Startup, for all timeouts and any number of requests.    *)
(* InTime says how far the clock can be when main waits for what, and      *)
(* Draining that the grace period is used up second by second.             *)
(***************************************************************************)
EXTENDS Startup, TLAPS

InTime ==
  /\ main = "open" => clock <= Timeout + Pause
  /\ main = "ping" => clock + left <= Timeout + Pause + PingTimeout
  /\ main = "check" => clock <= Timeout + Pause + PingTimeout
  /\ main = "sleep" => clock + left <= Timeout + Pause

Draining ==
  /\ main \in Connecting \cup {"listen", "notify", "wait"} => waited = 0
  /\ main = "shutdown" => waited + left = Grace
  /\ main \in Ended => listener = "closed"
  /\ listener \in {"none", "starting"} => inFlight = 0
  /\ listener \in {"starting", "open"} => main \in {"notify", "wait"}
  /\ main \in Connecting \cup Serving => cut = 0

StartupInv == TypeOK /\ InTime /\ Draining

LEMMA StartupInit == Init => StartupInv
<1> SUFFICES ASSUME Init PROVE StartupInv
  OBVIOUS
<1>1. 0 \in 0 .. Grace /\ 0 \in 0 .. MaxRequests /\ 0 <= Timeout + Pause
  BY TimeAssumption, RequestsAssumption
<1>2. TypeOK
  BY <1>1 DEF Init, TypeOK, Connecting, Serving, Ended
<1>3. InTime /\ Draining
  BY <1>1 DEF Init, InTime, Draining, Connecting, Serving, Ended
<1> QED
  BY <1>2, <1>3 DEF StartupInv

(* main, from sql.Open to the loop's sleep.                                *)
LEMMA ConnectingStep ==
  ASSUME StartupInv, Open \/ Connect \/ PingFails \/ GiveUp \/ Sleep \/ Wake
  PROVE  StartupInv'
<1>1. CASE Open
  <2>1. TypeOK'
    BY <1>1, TimeAssumption, RequestsAssumption DEF StartupInv, TypeOK, Connecting, Serving, Ended,
       Open, Goes, serverVars
  <2>2. InTime'
    BY <1>1, TimeAssumption DEF StartupInv, TypeOK, InTime, Open, Goes, serverVars
  <2>3. Draining'
    BY <1>1, TimeAssumption DEF StartupInv, TypeOK, Draining, Connecting, Serving, Ended,
       Open, Goes, serverVars
  <2> QED
    BY <2>1, <2>2, <2>3 DEF StartupInv
<1>2. CASE Connect
  BY <1>2, TimeAssumption DEF StartupInv, TypeOK, InTime, Draining, Connecting, Serving, Ended,
     Connect, Goes, serverVars, timeVars
<1>3. CASE PingFails
  BY <1>3, TimeAssumption DEF StartupInv, TypeOK, InTime, Draining, Connecting, Serving, Ended,
     PingFails, Goes, serverVars, timeVars
<1>4. CASE GiveUp
  BY <1>4, TimeAssumption DEF StartupInv, TypeOK, InTime, Draining, Connecting, Serving, Ended,
     GiveUp, Exit, timeVars
<1>5. CASE Sleep
  BY <1>5, TimeAssumption DEF StartupInv, TypeOK, InTime, Draining, Connecting, Serving, Ended,
     Sleep, Late, Goes, serverVars
<1>6. CASE Wake
  BY <1>6, TimeAssumption DEF StartupInv, TypeOK, InTime, Draining, Connecting, Serving, Ended,
     Wake, Goes, serverVars, timeVars
<1> QED
  BY <1>1, <1>2, <1>3, <1>4, <1>5, <1>6

(* main and the listener, from the start of the goroutine to the exit.     *)
LEMMA ServingStep ==
  ASSUME StartupInv,
         StartListener \/ ListenAndServe \/ AcceptFails \/ Notify \/ Shutdown \/ Stopped
  PROVE  StartupInv'
<1>1. CASE StartListener
  BY <1>1, TimeAssumption DEF StartupInv, TypeOK, InTime, Draining, Connecting, Serving, Ended,
     StartListener, Goes, timeVars
<1>2. CASE ListenAndServe
  BY <1>2, TimeAssumption DEF StartupInv, TypeOK, InTime, Draining, Connecting, Serving, Ended,
     ListenAndServe, Exit, timeVars
<1>3. CASE Notify
  BY <1>3, TimeAssumption DEF StartupInv, TypeOK, InTime, Draining, Connecting, Serving, Ended,
     Notify, Goes, serverVars, timeVars
<1>4. CASE Shutdown
  BY <1>4, TimeAssumption DEF StartupInv, TypeOK, InTime, Draining, Connecting, Serving, Ended,
     Shutdown, Goes
<1>5. CASE Stopped
  BY <1>5, TimeAssumption DEF StartupInv, TypeOK, InTime, Draining, Connecting, Serving, Ended,
     Stopped, Exit, timeVars
<1>6. CASE AcceptFails
  BY <1>6, TimeAssumption DEF StartupInv, TypeOK, InTime, Draining, Connecting, Serving, Ended,
     AcceptFails, Exit, timeVars
<1> QED
  BY <1>1, <1>2, <1>3, <1>4, <1>5, <1>6

(* The clients, whoever sends the signal, the database and time.           *)
LEMMA EnvironmentStep ==
  ASSUME StartupInv, Accept \/ Finish \/ Signal \/ DatabaseChanges \/ Tick
  PROVE  StartupInv'
<1>1. CASE Accept
  <2>0. inFlight' \in 0 .. MaxRequests
    BY <1>1, RequestsAssumption DEF StartupInv, TypeOK, Accept
  <2>1. TypeOK'
    BY <1>1, <2>0 DEF StartupInv, TypeOK, Draining, Connecting, Serving, Ended, Accept, Reachable, timeVars
  <2>2. InTime'
    BY <1>1, TimeAssumption DEF StartupInv, TypeOK, InTime, Accept, Reachable, timeVars
  <2>3. Draining'
    BY <1>1, TimeAssumption DEF StartupInv, TypeOK, Draining, Connecting, Serving, Ended,
       Accept, Reachable, timeVars
  <2> QED
    BY <2>1, <2>2, <2>3 DEF StartupInv
<1>2. CASE Finish
  <2>1. /\ inFlight \in Nat /\ inFlight > 0 /\ inFlight # 0
        /\ inFlight' = inFlight - 1 /\ inFlight' \in 0 .. MaxRequests
        /\ UNCHANGED <<main, clock, left, waited, listener, stop, cut, database>>
    BY <1>2, RequestsAssumption DEF StartupInv, TypeOK, Finish, timeVars
  <2>2. TypeOK'
    BY <2>1 DEF StartupInv, TypeOK
  <2>3. InTime' /\ Draining'
    BY <2>1 DEF StartupInv, InTime, Draining
  <2> QED
    BY <2>2, <2>3 DEF StartupInv
<1>3. CASE Signal
  BY <1>3, TimeAssumption DEF StartupInv, TypeOK, InTime, Draining, Connecting, Serving, Ended,
     Signal, Exit, timeVars
<1>4. CASE DatabaseChanges
  BY <1>4, TimeAssumption DEF StartupInv, TypeOK, InTime, Draining, Connecting, Serving, Ended,
     DatabaseChanges, serverVars, timeVars
<1>5. CASE Tick
  <2>1. /\ clock \in Nat /\ left \in Nat /\ left > 0 /\ waited \in 0 .. Grace
        /\ main = "shutdown" => waited + left = Grace
    BY <1>5 DEF StartupInv, TypeOK, Draining, Tick
  <2>2. /\ left' = left - 1
        /\ main = "shutdown" => waited' = waited + 1 /\ clock' = clock
        /\ main # "shutdown" => clock' = clock + 1 /\ waited' = waited
        /\ UNCHANGED <<main, listener, stop, inFlight, cut, database>>
    BY <1>5 DEF Tick, serverVars
  <2>3. /\ clock' \in Nat /\ left' \in Nat /\ waited' \in 0 .. Grace
        /\ main = "shutdown" => waited' + left' = Grace
    <3>1. CASE main = "shutdown"
      BY <2>1, <2>2, <3>1, TimeAssumption
    <3>2. CASE main # "shutdown"
      BY <2>1, <2>2, <3>2, TimeAssumption
    <3> QED
      BY <3>1, <3>2
  <2>4. TypeOK'
    BY <2>2, <2>3 DEF StartupInv, TypeOK
  <2>5. InTime'
    BY <1>5, TimeAssumption DEF StartupInv, TypeOK, InTime, Tick, serverVars
  <2>6. Draining'
    BY <2>2, <2>3 DEF StartupInv, Draining, Connecting
  <2> QED
    BY <2>4, <2>5, <2>6 DEF StartupInv
<1> QED
  BY <1>1, <1>2, <1>3, <1>4, <1>5

LEMMA StartupNext == StartupInv /\ [Next]_vars => StartupInv'
<1> SUFFICES ASSUME StartupInv, [Next]_vars PROVE StartupInv'
  OBVIOUS
<1>1. CASE UNCHANGED vars
  BY <1>1 DEF vars, timeVars, serverVars, StartupInv, TypeOK, InTime, Draining
<1> QED
  BY <1>1, ConnectingStep, ServingStep, EnvironmentStep DEF Next, Main

LEMMA StartupInvariance == Spec => []StartupInv
BY StartupInit, StartupNext, PTL DEF Spec

-----------------------------------------------------------------------------
(* The type invariant, for all timeouts.                                   *)
THEOREM StartupTypeCorrect == Spec => []TypeOK
<1>1. StartupInv => TypeOK
  BY DEF StartupInv
<1> QED
  BY <1>1, StartupInvariance, PTL

(* However the database behaves, main stops trying one pause and one ping  *)
(* after the deadline at the latest.                                       *)
THEOREM ConnectingIsBounded == Spec => []GivesUpInTime
<1>1. StartupInv => GivesUpInTime
  BY TimeAssumption DEF StartupInv, TypeOK, InTime, GivesUpInTime, Connecting, Serving
<1> QED
  BY <1>1, StartupInvariance, PTL

(* Once a signal is caught the grace period is honoured whatever happens   *)
(* next, more signals and requests that never end included; before that    *)
(* only the ends named cut a request off.                                  *)
THEOREM GraceIsHonoured == Spec => CutOnlyAfterGrace
<1> DEFINE Promised == \/ main = "shutdown" /\ waited = Grace
                       \/ main = "wait" /\ main' = "failed"
                       \/ main = "notify" /\ main' \in {"failed", "killed"}
<1>1. ASSUME StartupInv, Next, cut' > cut PROVE Promised
  <2>1. cut \in Nat /\ inFlight \in Nat
    BY <1>1, RequestsAssumption DEF StartupInv, TypeOK
  <2>2. /\ cut \in Nat /\ inFlight \in Nat
        /\ inFlight # 0 => /\ main \in {"notify", "wait", "shutdown"}
                           /\ listener \in {"open", "closed"}
    BY <1>1, <2>1 DEF StartupInv, TypeOK, Draining, Serving
  <2>3. cut' # cut
    BY <1>1, <2>1
  <2>4. GiveUp \/ Stopped \/ ListenAndServe \/ AcceptFails \/ Signal
    BY <1>1, <2>3 DEF Next, Main, Open, Connect, PingFails, Sleep, Wake, StartListener, Notify,
       Shutdown, Accept, Finish, DatabaseChanges, Tick, serverVars
  <2>5. cut' = inFlight
    BY <2>3, <2>4 DEF GiveUp, Stopped, ListenAndServe, AcceptFails, Signal, Exit
  <2>6. inFlight > 0 /\ inFlight # 0
    BY <1>1, <2>1, <2>5
  <2>7. Stopped \/ AcceptFails \/ Signal
    BY <2>2, <2>6, <2>3, <2>4 DEF GiveUp, ListenAndServe
  <2>8. CASE Stopped
    <3>1. main = "shutdown" /\ left = 0
      BY <2>6, <2>8 DEF Stopped, Drained
    <3>2. waited \in Nat /\ waited + left = Grace
      BY <1>1, <3>1, TimeAssumption DEF StartupInv, TypeOK, Draining
    <3> QED
      BY <3>1, <3>2, TimeAssumption
  <2>9. CASE AcceptFails
    BY <1>1, <2>9 DEF AcceptFails, Exit, StartupInv, Draining
  <2>10. CASE Signal
    BY <2>2, <2>6, <2>3, <2>10 DEF Signal, Exit, Connecting
  <2> QED
    BY <2>7, <2>8, <2>9, <2>10
<1>2. StartupInv /\ [Next]_vars => [cut' > cut => Promised]_vars
  BY <1>1
<1> QED
  BY <1>2, StartupInvariance, PTL DEF Spec, CutOnlyAfterGrace
=============================================================================
