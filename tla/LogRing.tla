------------------------------ MODULE LogRing ------------------------------
(***************************************************************************)
(* The in-memory log of backend/internal/app/logring.go and its writers.   *)
(* Service.logEvent stamps an entry with the clock first; Push takes the   *)
(* ring's mutex afterwards, so each is a step of the logging goroutine.    *)
(***************************************************************************)
EXTENDS Integers, Sequences, FiniteSets

CONSTANTS
  Writers,     \* goroutines that may log at once
  Events,      \* event names
  Cap,         \* capacity of the ring (200 in NewService)
  Unwritten,   \* the zero LogEntry of a fresh buffer
  Nothing,     \* a goroutine that logs nothing
  Horizon      \* bound: the last clock reading of the model

ASSUME WritersAssumption == IsFiniteSet(Writers)
ASSUME CapAssumption == Cap \in Nat \ {0}
ASSUME HorizonAssumption == Horizon \in Nat

VARIABLES
  now,         \* what s.now() returns
  buf,         \* the ring's slots
  head,        \* the slot the next entry goes to
  filled,      \* has head come round?
  stamped      \* the entry each goroutine has made and not yet pushed

vars == <<now, buf, head, filled, stamped>>

Time == 0 .. Horizon
LogEntry == [at : Time, event : Events]
Slots == 0 .. Cap - 1

ASSUME UnwrittenAssumption == Unwritten \notin LogEntry

TypeOK ==
  /\ now \in Time
  /\ buf \in [Slots -> LogEntry \cup {Unwritten}]
  /\ head \in Slots
  /\ filled \in BOOLEAN
  /\ stamped \in [Writers -> LogEntry \cup {Nothing}]

NewLogRing ==
  /\ buf = [k \in Slots |-> Unwritten]
  /\ head = 0
  /\ filled = FALSE

Init ==
  /\ now = 0
  /\ NewLogRing
  /\ stamped = [w \in Writers |-> Nothing]

(* logEvent builds the entry, At included, before it calls Push.           *)
LogEvent(w) ==
  /\ stamped[w] = Nothing
  /\ \E e \in Events : stamped' = [stamped EXCEPT ![w] = [at |-> now, event |-> e]]
  /\ UNCHANGED <<now, buf, head, filled>>

MutNoWrap(k) == k + 1

After(k) == (k + 1) % Cap

MutNeverWrapped(k) == FALSE

MutWrappedEarly(k) == k = Cap - 1

Wrapped(k) == k = 0

(* The ring's mutex makes Push one step.                                   *)
Push(w) ==
  /\ stamped[w] # Nothing
  /\ buf' = [buf EXCEPT ![head] = stamped[w]]
  /\ head' = After(head)
  /\ filled' = (filled \/ Wrapped(head'))
  /\ stamped' = [stamped EXCEPT ![w] = Nothing]
  /\ UNCHANGED now

(* The process restarts: nothing of the log is on disk.                    *)
Restart ==
  /\ buf' = [k \in Slots |-> Unwritten]
  /\ head' = 0
  /\ filled' = FALSE
  /\ stamped' = [w \in Writers |-> Nothing]
  /\ UNCHANGED now

Tick ==
  /\ now < Horizon
  /\ now' = now + 1
  /\ UNCHANGED <<buf, head, filled, stamped>>

Next ==
  \/ Tick
  \/ Restart
  \/ \E w \in Writers : LogEvent(w) \/ Push(w)

Spec == Init /\ [][Next]_vars

-----------------------------------------------------------------------------
(* What GET /api/admin/logs answers.                                       *)

Size == IF filled THEN Cap ELSE head

MutFromHead(k) == (head + k) % Cap

MutOldestFirst(k) == (head - Size + k + Cap) % Cap

(* Slot of the k-th newest entry, counting from 0.                         *)
Slot(k) == (head - 1 - k + Cap) % Cap

Snapshot(n) ==
  LET count == IF n <= 0 \/ n > Size THEN Size ELSE n
  IN  [k \in 1 .. count |-> buf[Slot(k - 1)]]

-----------------------------------------------------------------------------
(* The ring arithmetic keeps exactly the most recent entries, newest       *)
(* pushed first, across the wrap of head and a restart.                    *)
Log == INSTANCE EventLog WITH Entries <- LogEntry, Capacity <- Cap, recent <- Snapshot(0)

ImplementsEventLog == Log!Spec

(* A full ring stays full when head comes round: nothing but a restart     *)
(* makes the log shorter (EventLog could not tell that from a restart).    *)
OnlyRestartForgets ==
  [][Restart \/ Len(Snapshot(0)') >= Len(Snapshot(0))]_vars

(* A snapshot that was asked for n entries shows the n newest of them and  *)
(* no slot that was never written.                                         *)
SnapshotIsPrefix ==
  \A n \in 1 .. Cap :
    /\ Len(Snapshot(n)) = Log!Shorter(n, Len(Snapshot(0)))
    /\ \A k \in DOMAIN Snapshot(n) :
         Snapshot(n)[k] = Snapshot(0)[k] /\ Snapshot(n)[k] # Unwritten

(* Entries are stamped before they are pushed, so the log viewer may show  *)
(* an older entry above a newer one, but above none of them as many as     *)
(* there are goroutines that log: with one the log is "newest first".      *)
OlderAbove(k) == {d \in 1 .. k - 1 : Snapshot(0)[k - d].at < Snapshot(0)[k].at}

NearlyNewestFirst ==
  \A k \in DOMAIN Snapshot(0) : Cardinality(OlderAbove(k)) < Cardinality(Writers)
=============================================================================
