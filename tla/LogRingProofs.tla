--------------------------- MODULE LogRingProofs ---------------------------
(***************************************************************************)
(* Theorems about LogRing, for a ring of any capacity and any number of    *)
(* writers.  Written says that the slots below head hold entries and, once *)
(* head has come round, all of them do: without it a snapshot could show   *)
(* the zero entry of a fresh buffer.  How far the log is from the order of *)
(* time is the last section, with an invariant of its own (OrderInv).      *)
(***************************************************************************)
EXTENDS LogRing, FiniteSetTheorems, TLAPS

Written == \A k \in Slots : filled \/ k < head => buf[k] \in LogEntry

Pending == \A w \in Writers : stamped[w] # Nothing => stamped[w] \in LogEntry

RingInv == TypeOK /\ Written /\ Pending

(* The two cases of the modulus that the ring meets.                       *)
LEMMA ModBelow ==
  ASSUME NEW x \in Nat, x < Cap
  PROVE  x % Cap = x
BY CapAssumption

LEMMA ModOnce ==
  ASSUME NEW x \in Nat, Cap <= x, x < 2 * Cap
  PROVE  x % Cap = x - Cap
BY CapAssumption

(* The slots after head and before it.                                     *)
LEMMA AfterSlot ==
  ASSUME NEW k \in Slots
  PROVE  /\ After(k) \in Slots
         /\ After(k) = IF k + 1 = Cap THEN 0 ELSE k + 1
<1>1. k \in Nat /\ k < Cap
  BY CapAssumption DEF Slots
<1>2. CASE k + 1 = Cap
  BY <1>1, <1>2, ModOnce, CapAssumption DEF After, Slots
<1>3. CASE k + 1 # Cap
  BY <1>1, <1>3, ModBelow, CapAssumption DEF After, Slots
<1> QED
  BY <1>2, <1>3

SlotArithmetic ==
  \A k \in 0 .. Cap - 1 :
    /\ Slot(k) \in Slots
    /\ Slot(k) = IF k < head THEN head - 1 - k ELSE head - 1 - k + Cap

LEMMA SlotValue == TypeOK => SlotArithmetic
<1> SUFFICES ASSUME head \in Slots, NEW k \in 0 .. Cap - 1
             PROVE  /\ Slot(k) \in Slots
                    /\ Slot(k) = IF k < head THEN head - 1 - k ELSE head - 1 - k + Cap
  BY DEF TypeOK, SlotArithmetic
<1>1. head \in Nat /\ head < Cap /\ k \in Nat /\ k < Cap
  BY CapAssumption DEF Slots
<1>2. CASE k < head
  <2>1. head - 1 - k + Cap \in Nat /\ Cap <= head - 1 - k + Cap /\ head - 1 - k + Cap < 2 * Cap
    BY <1>1, <1>2, CapAssumption
  <2>2. Slot(k) = head - 1 - k
    BY <2>1, <1>1, ModOnce, CapAssumption DEF Slot
  <2> QED
    BY <2>2, <1>1, <1>2, CapAssumption DEF Slots
<1>3. CASE ~ (k < head)
  <2>1. head - 1 - k + Cap \in Nat /\ head - 1 - k + Cap < Cap
    BY <1>1, <1>3, CapAssumption
  <2>2. Slot(k) = head - 1 - k + Cap
    BY <2>1, ModBelow DEF Slot
  <2> QED
    BY <2>1, <2>2, <1>3, CapAssumption DEF Slots
<1> QED
  BY <1>2, <1>3

-----------------------------------------------------------------------------
LEMMA RingInit == Init => RingInv
<1> SUFFICES ASSUME Init PROVE RingInv
  OBVIOUS
<1>1. now \in Time /\ head \in Slots
  BY CapAssumption, HorizonAssumption DEF Init, NewLogRing, Time, Slots
<1>2. TypeOK
  BY <1>1 DEF Init, NewLogRing, TypeOK
<1>3. Written
  BY CapAssumption DEF Init, NewLogRing, Written, Slots
<1>4. Pending
  BY DEF Init, Pending
<1> QED
  BY <1>2, <1>3, <1>4 DEF RingInv

LEMMA RingNext == RingInv /\ [Next]_vars => RingInv'
<1> SUFFICES ASSUME RingInv, [Next]_vars PROVE RingInv'
  OBVIOUS
<1>a. TypeOK /\ Written /\ Pending
  BY DEF RingInv
<1>1. CASE Tick
  BY <1>1, <1>a, HorizonAssumption DEF Tick, RingInv, TypeOK, Written, Pending, Time
<1>2. CASE Restart
  <2>1. head' \in Slots
    BY <1>2, CapAssumption DEF Restart, Slots
  <2>2. TypeOK'
    BY <1>2, <1>a, <2>1 DEF Restart, TypeOK
  <2>3. Written'
    BY <1>2, CapAssumption DEF Restart, Written, Slots
  <2>4. Pending'
    BY <1>2 DEF Restart, Pending
  <2> QED
    BY <2>2, <2>3, <2>4 DEF RingInv
<1>3. ASSUME NEW w \in Writers, LogEvent(w) PROVE RingInv'
  <2>1. PICK e \in Events : stamped' = [stamped EXCEPT ![w] = [at |-> now, event |-> e]]
    BY <1>3 DEF LogEvent
  <2>2. [at |-> now, event |-> e] \in LogEntry
    BY <1>a DEF TypeOK, LogEntry
  <2> QED
    BY <1>3, <1>a, <2>1, <2>2 DEF LogEvent, RingInv, TypeOK, Written, Pending
<1>4. ASSUME NEW w \in Writers, Push(w) PROVE RingInv'
  <2>1. stamped[w] \in LogEntry
    BY <1>4, <1>a DEF Push, Pending
  <2>2. head' \in Slots /\ head' = IF head + 1 = Cap THEN 0 ELSE head + 1
    BY <1>4, <1>a, AfterSlot DEF Push, TypeOK
  <2>3. TypeOK'
    BY <1>4, <1>a, <2>1, <2>2 DEF Push, TypeOK
  <2>4. Written'
    BY <1>4, <1>a, <2>1, <2>2, CapAssumption DEF Push, TypeOK, Written, Wrapped, Slots
  <2>5. Pending'
    BY <1>4, <1>a DEF Push, TypeOK, Pending
  <2> QED
    BY <2>3, <2>4, <2>5 DEF RingInv
<1>5. CASE UNCHANGED vars
  BY <1>5, <1>a DEF vars, RingInv, TypeOK, Written, Pending
<1> QED
  BY <1>1, <1>2, <1>3, <1>4, <1>5 DEF Next

LEMMA RingInvariance == Spec => []RingInv
BY RingInit, RingNext, PTL DEF Spec

(* The type invariant, for every capacity of the ring.                     *)
THEOREM LogTypeCorrect == Spec => []TypeOK
<1>1. RingInv => TypeOK
  BY DEF RingInv
<1> QED
  BY <1>1, RingInvariance, PTL

-----------------------------------------------------------------------------
(* The whole snapshot, as a function on 1 .. Size.                         *)
SnapshotIsWhole ==
  /\ Size \in 0 .. Cap
  /\ Snapshot(0) = [k \in 1 .. Size |-> buf[Slot(k - 1)]]
  /\ Len(Snapshot(0)) = Size

LEMMA WholeSnapshot == TypeOK => SnapshotIsWhole
<1> SUFFICES ASSUME TypeOK PROVE SnapshotIsWhole
  OBVIOUS
<1>1. Size \in 0 .. Cap
  BY CapAssumption DEF TypeOK, Size, Slots
<1>2. Snapshot(0) = [k \in 1 .. Size |-> buf[Slot(k - 1)]]
  BY <1>1 DEF Snapshot
<1> QED
  BY <1>1, <1>2, CapAssumption DEF SnapshotIsWhole

(* A push records its entry in the log.                                    *)
LEMMA PushRecords ==
  ASSUME TypeOK, NEW w \in Writers, Push(w), stamped[w] \in LogEntry, TypeOK'
  PROVE  Log!Record(stamped[w])
<1> DEFINE n == Log!Shorter(Len(Snapshot(0)) + 1, Cap)
<1>1. head' \in Slots /\ head' = IF head + 1 = Cap THEN 0 ELSE head + 1
  BY AfterSlot DEF Push, TypeOK
<1>2. head \in Nat /\ head < Cap /\ Cap \in Nat
  BY CapAssumption DEF TypeOK, Slots
<1>3. Size \in Nat /\ Size <= Cap /\ Len(Snapshot(0)) = Size
  BY <1>2, WholeSnapshot DEF SnapshotIsWhole
<1>4. filled' = (filled \/ head' = 0) /\ filled \in BOOLEAN
  BY DEF Push, Wrapped, TypeOK
<1>5. Size' = n
  <2>1. n = IF Size + 1 < Cap THEN Size + 1 ELSE Cap
    BY <1>3 DEF Log!Shorter
  <2>2. Size' = IF filled' THEN Cap ELSE head'
    BY DEF Size
  <2>3. CASE filled
    <3>1. Size = Cap /\ Size' = Cap
      BY <2>2, <2>3, <1>4 DEF Size
    <3> QED
      BY <3>1, <2>1, <1>2
  <2>4. CASE ~ filled
    <3>1. Size = head /\ Size' = IF head' = 0 THEN Cap ELSE head'
      BY <2>2, <2>4, <1>4 DEF Size
    <3> QED
      BY <3>1, <2>1, <1>1, <1>2
  <2> QED
    BY <2>3, <2>4
<1>6. Snapshot(0)' = [k \in 1 .. Size' |-> buf'[Slot(k - 1)']]
  <2>1. SnapshotIsWhole'
    BY WholeSnapshot, PTL
  <2> QED
    BY <2>1 DEF SnapshotIsWhole
<1>7. ASSUME NEW k \in 1 .. n
      PROVE  buf'[Slot(k - 1)'] = IF k = 1 THEN stamped[w] ELSE Snapshot(0)[k - 1]
  <2>1. n \in Nat /\ n <= Cap /\ n <= Size + 1
    BY <1>2, <1>3 DEF Log!Shorter
  <2>2. k - 1 \in 0 .. Cap - 1 /\ k - 1 <= Size
    BY <2>1, <1>2, <1>3
  <2>3. \A j \in 0 .. Cap - 1 :
          Slot(j)' = IF j < head' THEN head' - 1 - j ELSE head' - 1 - j + Cap
    <3>1. SlotArithmetic'
      BY SlotValue, PTL
    <3> QED
      BY <3>1 DEF SlotArithmetic
  <2>4. Slot(k - 1)' = IF k - 1 < head' THEN head' - 1 - (k - 1) ELSE head' - 1 - (k - 1) + Cap
    BY <2>2, <2>3
  <2>5. CASE k = 1
    <3>1. Slot(k - 1)' = head
      BY <2>4, <2>5, <1>1, <1>2
    <3> QED
      BY <3>1, <2>5, <1>2 DEF Push, TypeOK
  <2>6. CASE k # 1
    <3>1. k - 2 \in 0 .. Cap - 1 /\ k - 1 \in 1 .. Size /\ k - 1 - 1 = k - 2
      BY <2>2, <2>6, <2>1, <1>2, <1>3
    <3>2. /\ Slot(k - 2) \in Slots
          /\ Slot(k - 2) = IF k - 2 < head THEN head - 1 - (k - 2) ELSE head - 1 - (k - 2) + Cap
      BY <3>1, SlotValue DEF SlotArithmetic
    <3>3. Slot(k - 1)' = Slot(k - 2) /\ Slot(k - 2) # head
      BY <2>4, <3>1, <3>2, <2>1, <2>2, <2>6, <1>1, <1>2
    <3>4. Snapshot(0)[k - 1] = buf[Slot(k - 2)]
      BY <3>1, WholeSnapshot DEF SnapshotIsWhole
    <3> QED
      BY <3>2, <3>3, <3>4, <2>6 DEF Push, TypeOK
  <2> QED
    BY <2>5, <2>6
<1> QED
  BY <1>5, <1>6, <1>7 DEF Log!Record

LEMMA LogInit == Init => Log!Init
<1> SUFFICES ASSUME Init PROVE Snapshot(0) = <<>>
  BY DEF Log!Init
<1>1. Size = 0
  BY DEF Init, NewLogRing, Size
<1> QED
  BY <1>1 DEF Snapshot

LEMMA LogNext == RingInv /\ [Next]_vars => [Log!Next]_(Snapshot(0))
<1> SUFFICES ASSUME RingInv, [Next]_vars PROVE [Log!Next]_(Snapshot(0))
  OBVIOUS
<1>a. TypeOK /\ TypeOK' /\ Pending
  BY RingNext DEF RingInv
<1>1. ASSUME UNCHANGED <<buf, head, filled>> PROVE UNCHANGED Snapshot(0)
  BY <1>1 DEF Snapshot, Size, Slot
<1>2. ASSUME Restart PROVE Log!Restart
  <2>1. Size' = 0
    BY <1>2 DEF Restart, Size
  <2>2. Snapshot(0)' = <<>>
    BY <2>1 DEF Snapshot
  <2> QED
    BY <2>2 DEF Log!Restart
<1>3. ASSUME NEW w \in Writers, Push(w) PROVE Log!Next
  <2>1. stamped[w] \in LogEntry
    BY <1>3, <1>a DEF Push, Pending
  <2> QED
    BY <1>3, <1>a, <2>1, PushRecords DEF Log!Next
<1>4. CASE Tick \/ (\E w \in Writers : LogEvent(w)) \/ UNCHANGED vars
  BY <1>1, <1>4 DEF Tick, LogEvent, vars
<1> QED
  BY <1>2, <1>3, <1>4 DEF Next, Log!Next

(* The ring implements the abstract log: whatever its capacity and however *)
(* its writers interleave, what it shows is the latest Cap entries since   *)
(* the last restart, in the order of their pushes.                         *)
THEOREM RingImplementsEventLog == Spec => ImplementsEventLog
BY RingInvariance, LogInit, LogNext, PTL DEF Spec, ImplementsEventLog, Log!Spec

(* Whatever its capacity, the ring forgets nothing it has room for: only a *)
(* restart shortens what it shows.                                         *)
THEOREM OnlyRestartsForget == Spec => OnlyRestartForgets
<1>1. RingInv /\ [Next]_vars => [Restart \/ Len(Snapshot(0)') >= Len(Snapshot(0))]_vars
  <2> SUFFICES ASSUME RingInv, Next, ~ Restart
               PROVE  Len(Snapshot(0)') >= Len(Snapshot(0))
    BY DEF vars
  <2>1. TypeOK /\ TypeOK'
    BY RingNext DEF RingInv
  <2>2. SnapshotIsWhole /\ SnapshotIsWhole'
    BY <2>1, WholeSnapshot, PTL
  <2>3. /\ Len(Snapshot(0)) = Size /\ Len(Snapshot(0)') = Size'
        /\ Size \in Nat /\ Size <= Cap /\ Cap \in Nat
    BY <2>2, CapAssumption DEF SnapshotIsWhole
  <2>4. CASE Tick \/ \E w \in Writers : LogEvent(w)
    <3>1. Size' = Size
      BY <2>4 DEF Tick, LogEvent, Size
    <3> QED
      BY <2>3, <3>1
  <2>5. ASSUME NEW w \in Writers, Push(w) PROVE Size' >= Size
    <3>1. head \in Nat /\ head < Cap /\ filled \in BOOLEAN
      BY <2>1, CapAssumption DEF TypeOK, Slots
    <3>2. /\ head' = IF head + 1 = Cap THEN 0 ELSE head + 1
          /\ filled' = (filled \/ head' = 0)
      BY <2>1, <2>5, AfterSlot DEF Push, Wrapped, TypeOK
    <3>3. CASE filled'
      BY <2>3, <3>3 DEF Size
    <3>4. CASE ~ filled'
      <4>1. ~ filled /\ head' # 0
        BY <3>2, <3>4
      <4>2. Size = head /\ Size' = head'
        BY <3>4, <4>1 DEF Size
      <4> QED
        BY <3>1, <3>2, <4>1, <4>2
    <3> QED
      BY <3>3, <3>4
  <2> QED
    BY <2>3, <2>4, <2>5 DEF Next
<1> QED
  BY <1>1, RingInvariance, PTL DEF Spec, OnlyRestartForgets

(* However many entries are asked for, a snapshot is the head of the whole *)
(* one and shows no slot that was never written.                           *)
THEOREM SnapshotsArePrefixes == Spec => []SnapshotIsPrefix
<1>1. RingInv => SnapshotIsPrefix
  <2> SUFFICES ASSUME RingInv, NEW n \in 1 .. Cap
               PROVE  /\ Len(Snapshot(n)) = Log!Shorter(n, Len(Snapshot(0)))
                      /\ \A k \in DOMAIN Snapshot(n) :
                           Snapshot(n)[k] = Snapshot(0)[k] /\ Snapshot(n)[k] # Unwritten
    BY DEF SnapshotIsPrefix
  <2> DEFINE count == IF n > Size THEN Size ELSE n
  <2>1. TypeOK /\ Written /\ SnapshotIsWhole /\ SlotArithmetic
    BY WholeSnapshot, SlotValue DEF RingInv
  <2>2. Cap \in Nat /\ Size \in Nat /\ Size <= Cap /\ n \in Nat /\ n >= 1
    BY <2>1, CapAssumption DEF SnapshotIsWhole
  <2>3. Snapshot(n) = [k \in 1 .. count |-> buf[Slot(k - 1)]]
    BY <2>2 DEF Snapshot
  <2>4. Len(Snapshot(n)) = Log!Shorter(n, Len(Snapshot(0)))
    BY <2>1, <2>2, <2>3 DEF SnapshotIsWhole, Log!Shorter
  <2>5. ASSUME NEW k \in 1 .. count
        PROVE  Snapshot(n)[k] = Snapshot(0)[k] /\ Snapshot(n)[k] # Unwritten
    <3>1. k \in 1 .. Size /\ k - 1 \in 0 .. Cap - 1 /\ k - 1 < Size
      BY <2>2
    <3>2. Snapshot(n)[k] = buf[Slot(k - 1)] /\ Snapshot(0)[k] = buf[Slot(k - 1)]
      BY <2>1, <2>3, <3>1 DEF SnapshotIsWhole
    <3>3. Slot(k - 1) \in Slots /\ (filled \/ Slot(k - 1) < head)
      BY <2>1, <3>1, CapAssumption DEF SlotArithmetic, Size, TypeOK, Slots
    <3> QED
      BY <2>1, <3>2, <3>3, UnwrittenAssumption DEF Written
  <2> QED
    BY <2>3, <2>4, <2>5
<1> QED
  BY <1>1, RingInvariance, PTL
-----------------------------------------------------------------------------
(* Behind(k) are the writers that hold an entry older than the k-th: each  *)
(* may still push it above, and once it has it holds nothing older.        *)
Behind(k) == {w \in Writers : stamped[w] # Nothing /\ stamped[w].at < Snapshot(0)[k].at}

NotFromTheFuture ==
  /\ \A k \in DOMAIN Snapshot(0) : Snapshot(0)[k] \in LogEntry /\ Snapshot(0)[k].at <= now
  /\ \A w \in Writers : stamped[w] # Nothing => stamped[w].at <= now

FewBehind ==
  \A k \in DOMAIN Snapshot(0) :
    Cardinality(OlderAbove(k)) + Cardinality(Behind(k)) < Cardinality(Writers)

OrderInv == RingInv /\ NotFromTheFuture /\ FewBehind

LEMMA Counts ==
  ASSUME NEW k \in Nat
  PROVE  /\ IsFiniteSet(OlderAbove(k)) /\ Cardinality(OlderAbove(k)) \in Nat
         /\ IsFiniteSet(Behind(k)) /\ Cardinality(Behind(k)) \in Nat
         /\ Cardinality(Writers) \in Nat
<1>1. IsFiniteSet(1 .. k - 1)
  BY FS_Interval
<1>2. IsFiniteSet(OlderAbove(k))
  BY <1>1, FS_Subset DEF OlderAbove
<1>3. IsFiniteSet(Behind(k))
  BY WritersAssumption, FS_Subset DEF Behind
<1> QED
  BY <1>2, <1>3, WritersAssumption, FS_CardinalityType

(* A push puts its entry on top and moves the others down.                 *)
LEMMA OrderPush ==
  ASSUME OrderInv, NEW w \in Writers, Push(w), RingInv'
  PROVE  OrderInv'
<1> DEFINE S == Snapshot(0)
           e == stamped[w]
           n == Log!Shorter(Len(S) + 1, Cap)
<1>1. /\ e \in LogEntry /\ e # Nothing /\ e.at <= now /\ e.at \in Int
      /\ stamped' = [stamped EXCEPT ![w] = Nothing] /\ now' = now
      /\ now \in Int
  BY DEF OrderInv, RingInv, Pending, TypeOK, NotFromTheFuture, Push, LogEntry, Time
<1>2. /\ n \in Nat /\ n <= Len(S) + 1 /\ Len(S) \in Nat /\ DOMAIN S = 1 .. Len(S)
      /\ S' = [k \in 1 .. n |-> IF k = 1 THEN e ELSE S[k - 1]]
  <2>1. TypeOK /\ TypeOK' /\ SnapshotIsWhole
    BY WholeSnapshot DEF OrderInv, RingInv
  <2>2. Log!Record(e)
    BY <1>1, <2>1, PushRecords
  <2>3. Len(S) \in Nat /\ DOMAIN S = 1 .. Len(S)
    BY <2>1, CapAssumption DEF SnapshotIsWhole
  <2> QED
    BY <2>2, <2>3, CapAssumption DEF Log!Record, Log!Shorter
<1>3. stamped \in [Writers -> LogEntry \cup {Nothing}]
  BY DEF OrderInv, RingInv, TypeOK
<1>4. NotFromTheFuture'
  BY <1>1, <1>2, <1>3 DEF OrderInv, NotFromTheFuture
<1>5. ASSUME NEW k \in 1 .. n
      PROVE  Cardinality(OlderAbove(k)') + Cardinality(Behind(k)') < Cardinality(Writers)
  <2>1. k \in Nat /\ Cardinality(Writers) \in Nat
    BY <1>2, Counts
  <2>2. CASE k = 1
    <3>1. OlderAbove(k)' = {}
      BY <2>2 DEF OlderAbove
    <3>2. Behind(k)' \subseteq Writers \ {w}
      BY <1>1, <1>3 DEF Behind
    <3>3. /\ IsFiniteSet(Writers \ {w})
          /\ Cardinality(Writers \ {w}) = Cardinality(Writers) - 1
      BY WritersAssumption, FS_RemoveElement
    <3>4. Cardinality(Behind(k)') <= Cardinality(Writers) - 1 /\ Cardinality(Behind(k)') \in Nat
      BY <3>2, <3>3, FS_Subset, FS_CardinalityType
    <3> QED
      BY <2>1, <3>1, <3>4, FS_EmptySet
  <2>3. CASE k # 1
    <3> DEFINE j == k - 1
    <3>1. j \in DOMAIN S /\ j \in Nat /\ S'[k] = S[j] /\ S[j].at \in Int
      BY <1>2, <2>1, <2>3 DEF OrderInv, NotFromTheFuture, LogEntry, Time
    <3>2. Cardinality(OlderAbove(j)) + Cardinality(Behind(j)) < Cardinality(Writers)
      BY <3>1 DEF OrderInv, FewBehind
    <3>3. OlderAbove(k)' = OlderAbove(j) \cup (IF e.at < S[j].at THEN {j} ELSE {})
      <4>1. ASSUME NEW d \in 1 .. k - 1 PROVE S'[k - d] = IF d = j THEN e ELSE S[j - d]
        <5>1. k - d \in 1 .. n /\ (k - d = 1 <=> d = j) /\ k - d - 1 = j - d
          BY <1>2, <2>1
        <5>2. S'[k - d] = IF k - d = 1 THEN e ELSE S[k - d - 1]
          BY <1>2, <5>1
        <5> QED
          BY <5>1, <5>2
      <4>2. 1 .. k - 1 = (1 .. j - 1) \cup {j}
        BY <2>1, <2>3
      <4>3. j \notin 1 .. j - 1
        BY <3>1
      <4>4. OlderAbove(k)' = {d \in 1 .. k - 1 : S'[k - d].at < S'[k].at}
        BY DEF OlderAbove
      <4>5. OlderAbove(k)' =
              {d \in 1 .. k - 1 : (IF d = j THEN e ELSE S[j - d]).at < S[j].at}
        BY <3>1, <4>1, <4>4
      <4>6. OlderAbove(j) = {d \in 1 .. j - 1 : S[j - d].at < S[j].at}
        BY DEF OlderAbove
      <4> HIDE DEF j, S, e
      <4> QED
        BY <4>2, <4>3, <4>5, <4>6
    <3>4. Behind(k)' = Behind(j) \ {w}
      BY <1>1, <1>3, <3>1 DEF Behind
    <3>5. w \in Behind(j) <=> e.at < S[j].at
      BY <1>1 DEF Behind
    <3>6. j \notin OlderAbove(j)
      BY <3>1 DEF OlderAbove
    <3>7. CASE e.at < S[j].at
      <4>0. IsFiniteSet(OlderAbove(j)) /\ IsFiniteSet(Behind(j)) /\ w \in Behind(j)
        BY <3>1, <3>5, <3>7, Counts
      <4>1. Cardinality(OlderAbove(k)') = Cardinality(OlderAbove(j)) + 1
        <5>1. OlderAbove(k)' = OlderAbove(j) \cup {j}
          BY <3>3, <3>7
        <5>2. Cardinality(OlderAbove(j) \cup {j}) = Cardinality(OlderAbove(j)) + 1
          BY <4>0, <3>6, FS_AddElement
        <5> QED
          BY <5>1, <5>2
      <4>2. Cardinality(Behind(k)') = Cardinality(Behind(j)) - 1
        <5>1. Cardinality(Behind(j) \ {w}) = Cardinality(Behind(j)) - 1
          BY <4>0, FS_RemoveElement
        <5> QED
          BY <3>4, <5>1
      <4> QED
        BY <2>1, <3>1, <3>2, <4>1, <4>2, Counts
    <3>8. CASE ~ (e.at < S[j].at)
      BY <3>2, <3>3, <3>4, <3>5, <3>8
    <3> QED
      BY <3>7, <3>8
  <2> QED
    BY <2>2, <2>3
<1>6. FewBehind'
  BY <1>2, <1>5 DEF FewBehind
<1> QED
  BY <1>4, <1>6 DEF OrderInv

LEMMA OrderNext == OrderInv /\ [Next]_vars => OrderInv'
<1> SUFFICES ASSUME OrderInv, [Next]_vars PROVE OrderInv'
  OBVIOUS
<1>1. RingInv /\ RingInv' /\ NotFromTheFuture /\ FewBehind
  BY RingNext DEF OrderInv
<1>2. /\ now \in Int /\ \A k \in DOMAIN Snapshot(0) : Snapshot(0)[k].at \in Int
      /\ stamped \in [Writers -> LogEntry \cup {Nothing}]
      /\ \A w \in Writers : stamped[w] # Nothing => stamped[w].at \in Int
  BY <1>1 DEF RingInv, TypeOK, Pending, NotFromTheFuture, LogEntry, Time
<1>3. ASSUME UNCHANGED <<buf, head, filled>>
      PROVE  Snapshot(0)' = Snapshot(0) /\ \A k : OlderAbove(k)' = OlderAbove(k)
  <2>1. Snapshot(0)' = Snapshot(0)
    BY <1>3 DEF Snapshot, Size, Slot
  <2> QED
    BY <2>1 DEF OlderAbove
<1>4. CASE Tick \/ UNCHANGED vars
  <2>1. /\ UNCHANGED <<buf, head, filled, stamped>>
        /\ now' = now \/ now' = now + 1
    BY <1>4 DEF Tick, vars
  <2>2. NotFromTheFuture'
    BY <1>1, <1>2, <1>3, <2>1 DEF NotFromTheFuture
  <2>3. FewBehind'
    BY <1>1, <1>3, <2>1 DEF FewBehind, Behind
  <2> QED
    BY <1>1, <2>2, <2>3 DEF OrderInv
<1>5. CASE Restart
  <2>1. Snapshot(0)' = <<>> /\ \A w \in Writers : stamped'[w] = Nothing
    <3>1. Size' = 0
      BY <1>5 DEF Restart, Size
    <3> QED
      BY <1>5, <3>1 DEF Restart, Snapshot
  <2> QED
    BY <1>1, <2>1 DEF OrderInv, NotFromTheFuture, FewBehind
<1>6. ASSUME NEW w \in Writers, LogEvent(w) PROVE OrderInv'
  <2>1. PICK x \in Events : stamped' = [stamped EXCEPT ![w] = [at |-> now, event |-> x]]
    BY <1>6 DEF LogEvent
  <2>2. UNCHANGED <<now, buf, head, filled>> /\ stamped[w] = Nothing
    BY <1>6 DEF LogEvent
  <2>3. NotFromTheFuture'
    BY <1>1, <1>2, <1>3, <2>1, <2>2 DEF NotFromTheFuture
  <2>4. \A k \in DOMAIN Snapshot(0) : Behind(k)' = Behind(k)
    BY <1>1, <1>2, <1>3, <2>1, <2>2 DEF Behind, NotFromTheFuture
  <2>5. FewBehind'
    BY <1>1, <1>3, <2>2, <2>4 DEF FewBehind
  <2> QED
    BY <1>1, <2>3, <2>5 DEF OrderInv
<1> QED
  BY <1>1, <1>4, <1>5, <1>6, OrderPush DEF Next

(* However many entries the ring holds and however the writers interleave, *)
(* above an entry there are fewer older ones than there are writers: each  *)
(* of the others can be overtaken with one entry in its hands.             *)
THEOREM OrderIsNearlyKept == Spec => []NearlyNewestFirst
<1>1. Init => OrderInv
  <2> SUFFICES ASSUME Init PROVE OrderInv
    OBVIOUS
  <2>1. Snapshot(0) = <<>>
    BY LogInit DEF Log!Init
  <2> QED
    BY <2>1, RingInit DEF OrderInv, NotFromTheFuture, FewBehind, Init
<1>2. OrderInv => NearlyNewestFirst
  <2> SUFFICES ASSUME OrderInv, NEW k \in DOMAIN Snapshot(0)
               PROVE  Cardinality(OlderAbove(k)) < Cardinality(Writers)
    BY DEF NearlyNewestFirst
  <2>1. k \in Nat
    BY WholeSnapshot, CapAssumption DEF OrderInv, RingInv, SnapshotIsWhole
  <2> QED
    BY <2>1, Counts DEF OrderInv, FewBehind
<1> QED
  BY <1>1, <1>2, OrderNext, PTL DEF Spec
=============================================================================
