---------------------------- MODULE ReportProofs ----------------------------
(***************************************************************************)
(* Theorems about Report, for any number of seats and bookings.  The type  *)
(* invariant and the tally are inductive together: every round adds its    *)
(* row to the three sets that are counted, or to none of them.             *)
(***************************************************************************)
EXTENDS Report, FiniteSetTheorems, TLAPS

Counted == {i \in 1 .. next - 1 : Overlaps(rows[i], window)}
Canceled == {i \in 1 .. next - 1 : Overlaps(rows[i], window) /\ rows[i].status = "canceled"}
OnSeat(s) == {i \in 1 .. next - 1 : Overlaps(rows[i], window) /\ rows[i].seat_id = s}

LEMMA AddsUpIsCounts ==
  ReportAddsUp <=>
    /\ report.TotalBookings = Cardinality(Counted)
    /\ report.CanceledBookings = Cardinality(Canceled)
    /\ \A s \in Seats : report.BySeat[s] = Cardinality(OnSeat(s))
BY DEF ReportAddsUp, Counted, Canceled, OnSeat

LEMMA Finite ==
  ASSUME NEW n \in Nat, NEW A \in SUBSET (1 .. n)
  PROVE  IsFiniteSet(A)
<1>1. IsFiniteSet(1 .. n)
  BY FS_Interval
<1> QED
  BY <1>1, FS_Subset

(* One element more.                                                       *)
LEMMA OneMore ==
  ASSUME NEW n \in Nat, NEW A \in SUBSET (1 .. n)
  PROVE  Cardinality(A \cup {n + 1}) = Cardinality(A) + 1
<1>1. IsFiniteSet(A) /\ n + 1 \notin A
  <2>1. n + 1 \notin 1 .. n
    OBVIOUS
  <2>2. IsFiniteSet(A)
    BY Finite
  <2> QED
    BY <2>1, <2>2
<1>2. Cardinality(A \cup {n + 1}) = IF n + 1 \in A THEN Cardinality(A) ELSE Cardinality(A) + 1
  BY <1>1, FS_AddElement
<1> QED
  BY <1>1, <1>2

(* The tally of a row, field by field.                                     *)
LEMMA TalliedFields ==
  ASSUME TypeOK, NEW b \in Booking
  PROVE  /\ Tallied(b) \in [TotalBookings : Nat, CanceledBookings : Nat, BySeat : [Seats -> Nat]]
         /\ Tallied(b).TotalBookings = report.TotalBookings + 1
         /\ Tallied(b).CanceledBookings =
              IF b.status = "canceled" THEN report.CanceledBookings + 1 ELSE report.CanceledBookings
         /\ \A s \in Seats : Tallied(b).BySeat[s] =
              IF s = b.seat_id THEN report.BySeat[s] + 1 ELSE report.BySeat[s]
<1>1. /\ report \in [TotalBookings : Nat, CanceledBookings : Nat, BySeat : [Seats -> Nat]]
      /\ report.TotalBookings \in Nat /\ report.CanceledBookings \in Nat
      /\ report.BySeat \in [Seats -> Nat] /\ b.seat_id \in Seats
  BY DEF TypeOK, Booking
<1>2. Tallied(b).TotalBookings = report.TotalBookings + 1
  BY <1>1 DEF Tallied
<1>3. Tallied(b).CanceledBookings =
        IF b.status = "canceled" THEN report.CanceledBookings + 1 ELSE report.CanceledBookings
  BY <1>1 DEF Tallied
<1>4. Tallied(b).BySeat = [report.BySeat EXCEPT ![b.seat_id] = @ + 1]
  BY <1>1 DEF Tallied
<1>5. Tallied(b).BySeat \in [Seats -> Nat]
  BY <1>1, <1>4
<1>6. Tallied(b) \in [TotalBookings : Nat, CanceledBookings : Nat, BySeat : [Seats -> Nat]]
  BY <1>1, <1>5 DEF Tallied
<1> QED
  BY <1>1, <1>2, <1>3, <1>4, <1>5, <1>6

-----------------------------------------------------------------------------
LEMMA ReportInit == Init => TypeOK /\ ReportAddsUp
<1> SUFFICES ASSUME Init PROVE TypeOK /\ ReportAddsUp
  OBVIOUS
<1>1. NewReport \in [TotalBookings : Nat, CanceledBookings : Nat, BySeat : [Seats -> Nat]]
  BY DEF NewReport
<1>2. TypeOK
  BY <1>1 DEF Init, TypeOK
<1>3. Counted = {} /\ Canceled = {} /\ \A s \in Seats : OnSeat(s) = {}
  BY DEF Init, Counted, Canceled, OnSeat
<1>4. ReportAddsUp
  BY <1>3, AddsUpIsCounts, FS_EmptySet DEF Init, NewReport
<1> QED
  BY <1>2, <1>4

(* Bookings come and change, the report does not.                          *)
LEMMA OthersStep ==
  ASSUME TypeOK, ReportAddsUp, Book \/ UpdateStatus
  PROVE  TypeOK' /\ ReportAddsUp'
<1>1. bookings' \in Seq(Booking)
  <2>1. CASE Book
    BY <2>1 DEF Book, TypeOK
  <2>2. CASE UpdateStatus
    <3>1. PICK i \in DOMAIN bookings, st \in BookingStatus :
            bookings' = [bookings EXCEPT ![i].status = st]
      BY <2>2 DEF UpdateStatus
    <3>2. bookings[i] \in Booking
      BY DEF TypeOK
    <3>3. [bookings[i] EXCEPT !.status = st] \in Booking
      BY <3>2 DEF Booking
    <3> QED
      BY <3>1, <3>3 DEF TypeOK
  <2> QED
    BY <2>1, <2>2
<1>2. UNCHANGED <<rows, window, next, report, pc>>
  BY DEF Book, UpdateStatus
<1> QED
  BY <1>1, <1>2 DEF TypeOK, ReportAddsUp

LEMMA BuildStep ==
  ASSUME TypeOK, BuildReport
  PROVE  TypeOK' /\ ReportAddsUp'
<1>1. report' = NewReport /\ next' = 1 /\ rows' = bookings /\ bookings' = bookings
      /\ window' \in Window /\ pc' = "loop"
  BY DEF BuildReport
<1>2. NewReport \in [TotalBookings : Nat, CanceledBookings : Nat, BySeat : [Seats -> Nat]]
  BY DEF NewReport
<1>3. TypeOK'
  BY <1>1, <1>2 DEF TypeOK
<1>4. /\ {i \in 1 .. next' - 1 : Overlaps(rows'[i], window')} = {}
      /\ {i \in 1 .. next' - 1 : Overlaps(rows'[i], window') /\ rows'[i].status = "canceled"} = {}
      /\ \A s \in Seats :
           {i \in 1 .. next' - 1 : Overlaps(rows'[i], window') /\ rows'[i].seat_id = s} = {}
  BY <1>1
<1>5. Cardinality({}) = 0
  BY FS_EmptySet
<1>6. ReportAddsUp'
  BY <1>1, <1>4, <1>5 DEF ReportAddsUp, NewReport
<1> QED
  BY <1>3, <1>6

LEMMA TallyStep ==
  ASSUME TypeOK, ReportAddsUp, TallyRow
  PROVE  TypeOK' /\ ReportAddsUp'
<1>1. /\ rows' = rows /\ window' = window /\ bookings' = bookings /\ pc' = pc
      /\ next' = next + 1 /\ next \in 1 .. Len(rows)
  BY DEF TallyRow, Following, TypeOK
<1>2. rows[next] \in Booking
  BY <1>1 DEF TypeOK
<1>3. PICK b \in Booking : b = rows[next]
  BY <1>2
<1>4. PICK n \in Nat : n = next - 1
  BY <1>1 DEF TypeOK
<1>5. 1 .. next' - 1 = (1 .. n) \cup {n + 1} /\ 1 .. next - 1 = 1 .. n /\ next = n + 1
  BY <1>1, <1>4 DEF TypeOK
<1>6. /\ Counted \in SUBSET (1 .. n) /\ Canceled \in SUBSET (1 .. n)
      /\ \A s \in Seats : OnSeat(s) \in SUBSET (1 .. n)
  BY <1>5 DEF Counted, Canceled, OnSeat
<1>7. /\ report.TotalBookings = Cardinality(Counted)
      /\ report.CanceledBookings = Cardinality(Canceled)
      /\ \A s \in Seats : report.BySeat[s] = Cardinality(OnSeat(s))
  BY AddsUpIsCounts
<1>8. /\ Counted' = {i \in (1 .. n) \cup {n + 1} : Overlaps(rows[i], window)}
      /\ Canceled' = {i \in (1 .. n) \cup {n + 1} :
                        Overlaps(rows[i], window) /\ rows[i].status = "canceled"}
      /\ \A s \in Seats :
           OnSeat(s)' = {i \in (1 .. n) \cup {n + 1} :
                           Overlaps(rows[i], window) /\ rows[i].seat_id = s}
  BY <1>1, <1>5 DEF Counted, Canceled, OnSeat
<1>9. CASE Counts(rows[next])
  <2>1. report' = Tallied(b) /\ Overlaps(rows[n + 1], window) /\ rows[n + 1] = b
    BY <1>3, <1>5, <1>9 DEF TallyRow, Counts
  <2>2. Counted' = Counted \cup {n + 1}
    BY <1>5, <1>8, <2>1 DEF Counted
  <2>3. Canceled' = IF b.status = "canceled" THEN Canceled \cup {n + 1} ELSE Canceled
    BY <1>5, <1>8, <2>1 DEF Canceled
  <2>4. \A s \in Seats :
          OnSeat(s)' = IF s = b.seat_id THEN OnSeat(s) \cup {n + 1} ELSE OnSeat(s)
    BY <1>5, <1>8, <2>1 DEF OnSeat
  <2>5. TypeOK'
    BY <1>1, <2>1, TalliedFields DEF TypeOK
  <2>6. report'.TotalBookings = Cardinality(Counted')
    BY <1>6, <1>7, <2>1, <2>2, TalliedFields, OneMore
  <2>7. report'.CanceledBookings = Cardinality(Canceled')
    BY <1>6, <1>7, <2>1, <2>3, TalliedFields, OneMore
  <2>8. \A s \in Seats : report'.BySeat[s] = Cardinality(OnSeat(s)')
    BY <1>6, <1>7, <2>1, <2>4, TalliedFields, OneMore
  <2> QED
    BY <2>5, <2>6, <2>7, <2>8 DEF ReportAddsUp, Counted, Canceled, OnSeat
<1>10. CASE ~ Counts(rows[next])
  <2>1. report' = report /\ ~ Overlaps(rows[n + 1], window)
    BY <1>5, <1>10 DEF TallyRow, Counts
  <2>2. Counted' = Counted /\ Canceled' = Canceled /\ \A s \in Seats : OnSeat(s)' = OnSeat(s)
    BY <1>5, <1>8, <2>1 DEF Counted, Canceled, OnSeat
  <2>3. TypeOK'
    BY <1>1, <2>1 DEF TypeOK
  <2>4. /\ report'.TotalBookings = Cardinality(Counted')
        /\ report'.CanceledBookings = Cardinality(Canceled')
        /\ \A s \in Seats : report'.BySeat[s] = Cardinality(OnSeat(s)')
    BY <1>7, <2>1, <2>2
  <2> QED
    BY <2>3, <2>4 DEF ReportAddsUp, Counted, Canceled, OnSeat
<1> QED
  BY <1>9, <1>10

LEMMA ReportNext == TypeOK /\ ReportAddsUp /\ [Next]_vars => TypeOK' /\ ReportAddsUp'
<1> SUFFICES ASSUME TypeOK, ReportAddsUp, [Next]_vars PROVE TypeOK' /\ ReportAddsUp'
  OBVIOUS
<1>1. CASE Answer
  BY <1>1 DEF Answer, TypeOK, ReportAddsUp
<1>2. CASE UNCHANGED vars
  BY <1>2 DEF vars, TypeOK, ReportAddsUp
<1> QED
  BY <1>1, <1>2, OthersStep, BuildStep, TallyStep DEF Next

(* The type invariant, for any table.                                      *)
THEOREM ReportTypeCorrect == Spec => []TypeOK
BY ReportInit, ReportNext, PTL DEF Spec

(* A report adds up, for any table and whatever changes while it is made.  *)
THEOREM ReportsAddUp == Spec => []ReportAddsUp
BY ReportInit, ReportNext, PTL DEF Spec
=============================================================================
