--------------------------- MODULE CatalogProofs ----------------------------
(***************************************************************************)
(* Theorems about Catalog, for any number of administrators, rooms and     *)
(* seats.  TablesOK is what the schema and the statements keep true of the *)
(* tables; EditOK ties an edit between its SELECT and its UPDATE to the    *)
(* seat it has read, which keeps its coworking as long as it exists and    *)
(* whose id no other seat will have.                                       *)
(***************************************************************************)
EXTENDS Catalog, TLAPS

CoworkingsOK ==
  /\ nextCoworking \in 1 .. MaxCoworkings + 1
  /\ DOMAIN coworkings \subseteq 1 .. nextCoworking - 1
  /\ coworkings \in [DOMAIN coworkings -> CoworkingNames]
  /\ \A c, d \in DOMAIN coworkings : coworkings[c] = coworkings[d] => c = d

SeatsTyped ==
  /\ nextSeat \in 1 .. MaxSeats + 1
  /\ DOMAIN seats \subseteq 1 .. nextSeat - 1
  /\ seats \in [DOMAIN seats -> Seat]

Distinct ==
  \A s, t \in DOMAIN seats :
    /\ seats[s].coworking_id = seats[t].coworking_id
    /\ seats[s].cell = seats[t].cell \/ seats[s].name = seats[t].name
    => s = t

TablesOK ==
  CoworkingsOK /\ SeatsTyped /\ Distinct /\ NothingDangles /\ upcoming \subseteq booked

EditOK(r) ==
  r.pc = "UpdateSeat" =>
    /\ r.id < nextSeat
    /\ r.id \in DOMAIN seats => seats[r.id].coworking_id = r.row.coworking_id

ReqsOK == req \in [Workers -> Request] /\ \A w \in Workers : EditOK(req[w])

CatalogInv == TablesOK /\ ReqsOK

(* What a step may do to the seats.                                        *)
SeatsKept ==
  /\ nextSeat \in Nat /\ nextSeat' \in Nat /\ nextSeat <= nextSeat'
  /\ DOMAIN seats' \subseteq Nat
  /\ \A s \in DOMAIN seats' :
       IF s \in DOMAIN seats THEN seats'[s].coworking_id = seats[s].coworking_id
                             ELSE s >= nextSeat

-----------------------------------------------------------------------------
LEMMA PutFacts ==
  ASSUME NEW table, NEW id, NEW row
  PROVE  /\ DOMAIN Put(table, id, row) = DOMAIN table \cup {id}
         /\ Put(table, id, row)[id] = row
         /\ \A i \in DOMAIN table : i # id => Put(table, id, row)[i] = table[i]
BY DEF Put

LEMMA PutTyped ==
  ASSUME NEW S, NEW table, table \in [DOMAIN table -> S], NEW id, NEW row \in S
  PROVE  Put(table, id, row) \in [DOMAIN Put(table, id, row) -> S]
<1>1. DOMAIN Put(table, id, row) = DOMAIN table \cup {id}
  BY PutFacts
<1>2. \A i \in DOMAIN table \cup {id} : (IF i = id THEN row ELSE table[i]) \in S
  OBVIOUS
<1>3. Put(table, id, row) \in [DOMAIN table \cup {id} -> S]
  BY <1>2 DEF Put
<1> QED
  BY <1>1, <1>3

LEMMA WithoutFacts ==
  ASSUME NEW table, NEW ids
  PROVE  /\ DOMAIN Without(table, ids) = DOMAIN table \ ids
         /\ \A i \in DOMAIN table \ ids : Without(table, ids)[i] = table[i]
BY DEF Without

LEMMA WithoutTyped ==
  ASSUME NEW S, NEW table, table \in [DOMAIN table -> S], NEW ids
  PROVE  Without(table, ids) \in [DOMAIN Without(table, ids) -> S]
BY DEF Without

(* A seat whose place is free can be put there.                            *)
LEMMA PlacePut ==
  ASSUME Distinct, NEW id, NEW row, PlaceFree(seats, id, row), seats' = Put(seats, id, row)
  PROVE  Distinct'
<1>1. /\ DOMAIN seats' = DOMAIN seats \cup {id} /\ seats'[id] = row
      /\ \A i \in DOMAIN seats : i # id => seats'[i] = seats[i]
  BY DEF Put
<1> SUFFICES ASSUME NEW s \in DOMAIN seats', NEW t \in DOMAIN seats',
                    seats'[s].coworking_id = seats'[t].coworking_id,
                    seats'[s].cell = seats'[t].cell \/ seats'[s].name = seats'[t].name
             PROVE  s = t
  BY DEF Distinct
<1>2. CASE s # id /\ t # id
  BY <1>1, <1>2 DEF Distinct
<1>3. CASE s = id /\ t # id
  BY <1>1, <1>3 DEF PlaceFree
<1>4. CASE s # id /\ t = id
  BY <1>1, <1>4 DEF PlaceFree
<1> QED
  BY <1>2, <1>3, <1>4

LEMMA EditKept ==
  ASSUME NEW r, r \in Request, EditOK(r), SeatsKept
  PROVE  EditOK(r)'
<1> SUFFICES ASSUME r.pc = "UpdateSeat"
             PROVE  /\ r.id < nextSeat'
                    /\ r.id \in DOMAIN seats' => seats'[r.id].coworking_id = r.row.coworking_id
  BY DEF EditOK
<1>1. r.id < nextSeat /\ (r.id \in DOMAIN seats => seats[r.id].coworking_id = r.row.coworking_id)
  BY DEF EditOK
<1>2. r.id \in Nat
  BY DEF Request, Idle, SeatIds
<1> QED
  BY <1>1, <1>2 DEF SeatsKept

(* Worker w goes on with r, or is idle again, and the seats are kept.      *)
LEMMA ReqsStep ==
  ASSUME ReqsOK, SeatsKept, NEW w \in Workers, NEW r \in Request, EditOK(r)',
         Continue(w, r)
  PROVE  ReqsOK'
<1>1. req' \in [Workers -> Request]
  BY DEF ReqsOK, Continue
<1>2. ASSUME NEW v \in Workers PROVE EditOK(req[v])'
  <2>1. CASE v = w
    <3>1. req'[v] = r
      BY <2>1 DEF ReqsOK, Continue
    <3> QED
      BY <3>1 DEF EditOK
  <2>2. CASE v # w
    <3>1. PICK q : q = req[v] /\ q \in Request /\ EditOK(q)
      BY DEF ReqsOK
    <3>2. EditOK(q)'
      BY <3>1, EditKept
    <3>3. req'[v] = q
      BY <2>2, <3>1 DEF ReqsOK, Continue
    <3> QED
      BY <3>2, <3>3 DEF EditOK
  <2> QED
    BY <2>1, <2>2
<1> QED
  BY <1>1, <1>2 DEF ReqsOK

LEMMA AnswerStep ==
  ASSUME ReqsOK, SeatsKept, NEW w \in Workers, Answer(w)
  PROVE  ReqsOK'
<1>1. Idle \in Request /\ EditOK(Idle)' /\ Continue(w, Idle)
  BY DEF Request, Idle, EditOK, Answer, Continue
<1> QED
  BY <1>1, ReqsStep

(* A step that leaves the requests alone.                                  *)
LEMMA ReqsSame ==
  ASSUME ReqsOK, SeatsKept, req' = req
  PROVE  ReqsOK'
<1>1. ASSUME NEW v \in Workers PROVE EditOK(req[v])'
  <2>1. PICK q : q = req[v] /\ q \in Request /\ EditOK(q)
    BY DEF ReqsOK
  <2>2. EditOK(q)'
    BY <2>1, EditKept
  <2> QED
    BY <2>1, <2>2 DEF EditOK
<1> QED
  BY <1>1 DEF ReqsOK

LEMMA SeatsSame ==
  ASSUME TablesOK, UNCHANGED <<seats, nextSeat>>
  PROVE  SeatsKept
BY BoundsAssumption DEF TablesOK, SeatsTyped, SeatsKept

LEMMA TablesSame ==
  ASSUME TablesOK, UNCHANGED <<coworkings, seats, nextCoworking, nextSeat, booked, upcoming>>
  PROVE  TablesOK'
BY DEF TablesOK, CoworkingsOK, SeatsTyped, Distinct, NothingDangles

(* A handler reads and keeps r.                                            *)
LEMMA ReadStep ==
  ASSUME CatalogInv, NEW w \in Workers, NEW r \in Request, EditOK(r), Continue(w, r),
         UNCHANGED <<coworkings, seats, nextCoworking, nextSeat, booked, upcoming>>
  PROVE  CatalogInv' /\ SeatsKept
<1>1. TablesOK' /\ SeatsKept
  BY TablesSame, SeatsSame DEF CatalogInv
<1>2. EditOK(r)'
  BY <1>1, EditKept
<1>3. ReqsOK'
  BY <1>1, <1>2, ReqsStep DEF CatalogInv
<1> QED
  BY <1>1, <1>3 DEF CatalogInv

-----------------------------------------------------------------------------
(* The requests that are admitted.                                         *)
LEMMA FormTyped ==
  ASSUME NEW c \in CoworkingIds, NEW f \in Forms
  PROVE  Row(c, f) \in Seat
BY DEF Row, Seat, SeatNames, Cells

LEMMA ReadsStep ==
  ASSUME CatalogInv, NEW w \in Workers,
         UpdateCoworking(w) \/ CreateSeat(w) \/ UpdateSeat(w) \/ DeleteSeat(w)
  PROVE  CatalogInv' /\ SeatsKept
<1>1. /\ DOMAIN coworkings \subseteq CoworkingIds /\ DOMAIN seats \subseteq SeatIds
      /\ seats \in [DOMAIN seats -> Seat]
      /\ \A s \in DOMAIN seats : s < nextSeat
  BY BoundsAssumption DEF CatalogInv, TablesOK, CoworkingsOK, SeatsTyped, CoworkingIds, SeatIds
<1>2. CASE UpdateCoworking(w)
  <2>1. PICK c \in DOMAIN coworkings, n \in CoworkingNames :
          Continue(w, [pc |-> "UpdateCoworking", id |-> c, name |-> n])
    BY <1>2 DEF UpdateCoworking
  <2>2. [pc |-> "UpdateCoworking", id |-> c, name |-> n] \in Request
    BY <1>1 DEF Request
  <2>3. EditOK([pc |-> "UpdateCoworking", id |-> c, name |-> n])
    BY DEF EditOK
  <2> QED
    BY <1>2, <2>1, <2>2, <2>3, ReadStep DEF UpdateCoworking
<1>3. CASE CreateSeat(w)
  <2>1. PICK c \in DOMAIN coworkings, f \in Forms :
          Continue(w, [pc |-> "CreateSeat", row |-> Row(c, f)])
    BY <1>3 DEF CreateSeat
  <2>2. [pc |-> "CreateSeat", row |-> Row(c, f)] \in Request
    BY <1>1, FormTyped DEF Request
  <2>3. EditOK([pc |-> "CreateSeat", row |-> Row(c, f)])
    BY DEF EditOK
  <2> QED
    BY <1>3, <2>1, <2>2, <2>3, ReadStep DEF CreateSeat
<1>4. CASE UpdateSeat(w)
  <2>1. PICK s \in DOMAIN seats, c \in CoworkingIds, f \in Forms :
          Continue(w, [pc |-> "UpdateSeat", id |-> s, row |-> Edited(seats[s], Row(c, f))])
    BY <1>4 DEF UpdateSeat
  <2>2. /\ Edited(seats[s], Row(c, f)) \in Seat
        /\ Edited(seats[s], Row(c, f)).coworking_id = seats[s].coworking_id
    <3>1. Row(c, f) \in Seat /\ seats[s] \in Seat
      BY <1>1, FormTyped
    <3> QED
      BY <3>1 DEF Edited, Seat
  <2>3. PICK row \in Seat : row = Edited(seats[s], Row(c, f))
    BY <2>2
  <2>4. [pc |-> "UpdateSeat", id |-> s, row |-> row] \in Request
    BY <1>1 DEF Request
  <2>5. EditOK([pc |-> "UpdateSeat", id |-> s, row |-> row])
    BY <1>1, <2>2, <2>3 DEF EditOK
  <2> QED
    BY <1>4, <2>1, <2>3, <2>4, <2>5, ReadStep DEF UpdateSeat
<1>5. CASE DeleteSeat(w)
  <2>1. PICK s \in SeatIds : Continue(w, [pc |-> "DeleteSeat", id |-> s])
    BY <1>5 DEF DeleteSeat
  <2>2. [pc |-> "DeleteSeat", id |-> s] \in Request
    BY DEF Request
  <2>3. EditOK([pc |-> "DeleteSeat", id |-> s])
    BY DEF EditOK
  <2> QED
    BY <1>5, <2>1, <2>2, <2>3, ReadStep DEF DeleteSeat
<1> QED
  BY <1>2, <1>3, <1>4, <1>5

-----------------------------------------------------------------------------
(* The statements that write coworkings.                                   *)
LEMMA CoworkingPut ==
  ASSUME CoworkingsOK, NEW id, NEW n \in CoworkingNames, NameFree(coworkings, id, n),
         id < nextCoworking', nextCoworking' \in 1 .. MaxCoworkings + 1, id \in CoworkingIds,
         nextCoworking <= nextCoworking', coworkings' = Put(coworkings, id, n)
  PROVE  CoworkingsOK' /\ DOMAIN coworkings \subseteq DOMAIN coworkings'
<1>1. /\ DOMAIN coworkings' = DOMAIN coworkings \cup {id} /\ coworkings'[id] = n
      /\ \A i \in DOMAIN coworkings : i # id => coworkings'[i] = coworkings[i]
  BY DEF Put
<1>2. coworkings' \in [DOMAIN coworkings' -> CoworkingNames]
  BY PutTyped DEF CoworkingsOK
<1>3. DOMAIN coworkings' \subseteq 1 .. nextCoworking' - 1
  BY <1>1, BoundsAssumption DEF CoworkingsOK, CoworkingIds
<1>4. \A c, d \in DOMAIN coworkings' : coworkings'[c] = coworkings'[d] => c = d
  BY <1>1 DEF CoworkingsOK, NameFree
<1> QED
  BY <1>1, <1>2, <1>3, <1>4 DEF CoworkingsOK

(* When coworkings are only added or renamed.                              *)
LEMMA CoworkingsGrow ==
  ASSUME TablesOK, CoworkingsOK', DOMAIN coworkings \subseteq DOMAIN coworkings',
         UNCHANGED <<seats, nextSeat, booked, upcoming>>
  PROVE  TablesOK' /\ SeatsKept
BY SeatsSame DEF TablesOK, SeatsTyped, Distinct, NothingDangles

LEMMA CreateCoworkingStep ==
  ASSUME CatalogInv, NEW w \in Workers, CreateCoworking(w)
  PROVE  CatalogInv' /\ SeatsKept
<1>1. PICK n \in CoworkingNames :
        /\ NameFree(coworkings, nextCoworking, n)
        /\ coworkings' = Put(coworkings, nextCoworking, n)
  BY DEF CreateCoworking
<1>2. /\ nextCoworking \in CoworkingIds /\ nextCoworking' = nextCoworking + 1
      /\ nextCoworking' \in 1 .. MaxCoworkings + 1
      /\ nextCoworking < nextCoworking' /\ nextCoworking <= nextCoworking'
  BY BoundsAssumption DEF CreateCoworking, NextVal, CoworkingIds
<1>3. TablesOK /\ ReqsOK /\ CoworkingsOK
  BY DEF CatalogInv, TablesOK
<1>4. CoworkingsOK' /\ DOMAIN coworkings \subseteq DOMAIN coworkings'
  BY <1>1, <1>2, <1>3, CoworkingPut
<1>5. TablesOK' /\ SeatsKept
  BY <1>3, <1>4, CoworkingsGrow DEF CreateCoworking
<1> QED
  BY <1>3, <1>5, ReqsSame DEF CreateCoworking, CatalogInv

LEMMA UpdateCoworkingStep ==
  ASSUME CatalogInv, NEW w \in Workers, UpdateCoworkingRow(w)
  PROVE  CatalogInv' /\ SeatsKept
<1>1. TablesOK /\ ReqsOK /\ CoworkingsOK
  BY DEF CatalogInv, TablesOK
<1>2. req[w].id \in CoworkingIds /\ req[w].name \in CoworkingNames
  BY <1>1 DEF ReqsOK, UpdateCoworkingRow, Request, Idle
<1>3. CoworkingsOK' /\ DOMAIN coworkings \subseteq DOMAIN coworkings'
  <2>1. CASE Matches(coworkings, req[w].id) /\ NameFree(coworkings, req[w].id, req[w].name)
    <3>1. coworkings' = Put(coworkings, req[w].id, req[w].name) /\ nextCoworking' = nextCoworking
      BY <2>1 DEF UpdateCoworkingRow
    <3>2. nextCoworking \in 1 .. MaxCoworkings + 1 /\ req[w].id < nextCoworking
          /\ nextCoworking <= nextCoworking
      BY <1>1, <2>1, BoundsAssumption DEF CoworkingsOK, Matches
    <3> QED
      BY <1>1, <1>2, <2>1, <3>1, <3>2, CoworkingPut
  <2>2. CASE ~ (Matches(coworkings, req[w].id) /\ NameFree(coworkings, req[w].id, req[w].name))
    BY <1>1, <2>2 DEF UpdateCoworkingRow, CoworkingsOK
  <2> QED
    BY <2>1, <2>2
<1>4. TablesOK' /\ SeatsKept
  BY <1>1, <1>3, CoworkingsGrow DEF UpdateCoworkingRow
<1> QED
  BY <1>1, <1>4, AnswerStep DEF UpdateCoworkingRow, CatalogInv

(* Seats are taken away, none of which is booked.                          *)
LEMMA SeatsRemoved ==
  ASSUME TablesOK, NEW ids, Unbooked(ids), seats' = Without(seats, ids),
         UNCHANGED <<nextSeat, booked, upcoming>>,
         \A s \in DOMAIN seats \ ids : seats[s].coworking_id \in DOMAIN coworkings'
  PROVE  SeatsTyped' /\ Distinct' /\ NothingDangles' /\ SeatsKept /\ upcoming' \subseteq booked'
<1>1. /\ DOMAIN seats' = DOMAIN seats \ ids
      /\ \A s \in DOMAIN seats \ ids : seats'[s] = seats[s]
  BY WithoutFacts
<1>2. seats' \in [DOMAIN seats' -> Seat]
  BY WithoutTyped DEF TablesOK, SeatsTyped
<1>3. SeatsTyped'
  BY <1>1, <1>2 DEF TablesOK, SeatsTyped
<1>4. Distinct'
  BY <1>1 DEF TablesOK, Distinct
<1>5. NothingDangles'
  BY <1>1 DEF TablesOK, NothingDangles, Unbooked
<1>6. SeatsKept
  BY <1>1, BoundsAssumption DEF TablesOK, SeatsTyped, SeatsKept
<1> QED
  BY <1>3, <1>4, <1>5, <1>6 DEF TablesOK

LEMMA DeleteCoworkingStep ==
  ASSUME CatalogInv, NEW w \in Workers, DeleteCoworking(w)
  PROVE  CatalogInv' /\ SeatsKept
<1>1. PICK c \in DOMAIN coworkings :
        /\ Unbooked(SeatsOf(seats, c))
        /\ coworkings' = Without(coworkings, {c})
        /\ seats' = Without(seats, SeatsOf(seats, c))
  BY DEF DeleteCoworking
<1>2. TablesOK /\ ReqsOK
  BY DEF CatalogInv
<1>3. /\ DOMAIN coworkings' = DOMAIN coworkings \ {c}
      /\ \A d \in DOMAIN coworkings \ {c} : coworkings'[d] = coworkings[d]
      /\ coworkings' \in [DOMAIN coworkings' -> CoworkingNames]
  <2>1. coworkings \in [DOMAIN coworkings -> CoworkingNames]
    BY <1>2 DEF TablesOK, CoworkingsOK
  <2> QED
    BY <1>1, <2>1 DEF Without
<1>4. CoworkingsOK'
  BY <1>2, <1>3 DEF TablesOK, CoworkingsOK, DeleteCoworking
<1>5. \A s \in DOMAIN seats \ SeatsOf(seats, c) : seats[s].coworking_id \in DOMAIN coworkings'
  BY <1>2, <1>3 DEF TablesOK, NothingDangles, SeatsOf
<1>6. SeatsTyped' /\ Distinct' /\ NothingDangles' /\ SeatsKept /\ upcoming' \subseteq booked'
  BY <1>1, <1>2, <1>5, SeatsRemoved DEF DeleteCoworking
<1>7. TablesOK'
  BY <1>4, <1>6 DEF TablesOK
<1> QED
  BY <1>2, <1>6, <1>7, ReqsSame DEF DeleteCoworking, CatalogInv

-----------------------------------------------------------------------------
(* The statements that write seats.                                        *)
LEMMA SeatPut ==
  ASSUME TablesOK, NEW id \in SeatIds, NEW row \in Seat, PlaceFree(seats, id, row),
         row.coworking_id \in DOMAIN coworkings, seats' = Put(seats, id, row),
         nextSeat' \in 1 .. MaxSeats + 1, id < nextSeat', nextSeat <= nextSeat',
         IF id \in DOMAIN seats THEN row.coworking_id = seats[id].coworking_id ELSE id >= nextSeat,
         UNCHANGED <<coworkings, nextCoworking, booked, upcoming>>
  PROVE  TablesOK' /\ SeatsKept
<1>1. /\ DOMAIN seats' = DOMAIN seats \cup {id} /\ seats'[id] = row
      /\ \A i \in DOMAIN seats : i # id => seats'[i] = seats[i]
  BY DEF Put
<1>2. seats' \in [DOMAIN seats' -> Seat]
  BY PutTyped DEF TablesOK, SeatsTyped
<1>3. DOMAIN seats' \subseteq 1 .. nextSeat' - 1
  BY <1>1, BoundsAssumption DEF TablesOK, SeatsTyped, SeatIds
<1>4. SeatsTyped'
  BY <1>2, <1>3 DEF SeatsTyped
<1>5. Distinct'
  BY PlacePut DEF TablesOK
<1>6. NothingDangles'
  BY <1>1 DEF TablesOK, NothingDangles
<1>7. SeatsKept
  <2>1. nextSeat \in Nat /\ nextSeat' \in Nat /\ DOMAIN seats' \subseteq Nat
    BY <1>3, BoundsAssumption DEF TablesOK, SeatsTyped
  <2>2. ASSUME NEW s \in DOMAIN seats'
        PROVE  IF s \in DOMAIN seats THEN seats'[s].coworking_id = seats[s].coworking_id
                                     ELSE s >= nextSeat
    BY <1>1
  <2> QED
    BY <2>1, <2>2 DEF SeatsKept
<1>8. CoworkingsOK' /\ upcoming' \subseteq booked'
  BY DEF TablesOK, CoworkingsOK
<1> QED
  BY <1>4, <1>5, <1>6, <1>7, <1>8 DEF TablesOK

LEMMA InsertSeatStep ==
  ASSUME CatalogInv, NEW w \in Workers, InsertSeat(w)
  PROVE  CatalogInv' /\ SeatsKept
<1> DEFINE row == req[w].row
<1>1. TablesOK /\ ReqsOK
  BY DEF CatalogInv
<1>2. row \in Seat
  BY <1>1 DEF ReqsOK, InsertSeat, Request, Idle
<1>3. TablesOK' /\ SeatsKept
  <2>1. CASE CoworkingExists(row) /\ PlaceFree(seats, nextSeat, row) /\ nextSeat \in SeatIds
    <3>1. /\ seats' = Put(seats, nextSeat, row) /\ nextSeat' = nextSeat + 1
          /\ UNCHANGED <<coworkings, nextCoworking, booked, upcoming>>
      BY <2>1 DEF InsertSeat, NextVal
    <3>2. /\ nextSeat' \in 1 .. MaxSeats + 1 /\ nextSeat < nextSeat' /\ nextSeat <= nextSeat'
          /\ nextSeat \notin DOMAIN seats /\ nextSeat >= nextSeat
      BY <1>1, <2>1, <3>1, BoundsAssumption DEF TablesOK, SeatsTyped, SeatIds
    <3> QED
      BY <1>1, <1>2, <2>1, <3>1, <3>2, SeatPut DEF CoworkingExists
  <2>2. CASE ~ (CoworkingExists(row) /\ PlaceFree(seats, nextSeat, row) /\ nextSeat \in SeatIds)
    <3>1. UNCHANGED <<coworkings, seats, nextCoworking, nextSeat, booked, upcoming>>
      BY <2>2 DEF InsertSeat
    <3> QED
      BY <1>1, <3>1, TablesSame, SeatsSame
  <2> QED
    BY <2>1, <2>2
<1> QED
  BY <1>1, <1>3, AnswerStep DEF InsertSeat, CatalogInv

LEMMA UpdateSeatStep ==
  ASSUME CatalogInv, NEW w \in Workers, UpdateSeatRow(w)
  PROVE  CatalogInv' /\ SeatsKept
<1> DEFINE s == req[w].id
           row == req[w].row
<1>1. TablesOK /\ ReqsOK
  BY DEF CatalogInv
<1>2. row \in Seat /\ s \in SeatIds
  BY <1>1 DEF ReqsOK, UpdateSeatRow, Request, Idle
<1>3. TablesOK' /\ SeatsKept
  <2>1. CASE Matches(seats, s) /\ PlaceFree(seats, s, row)
    <3>1. /\ seats' = Put(seats, s, row) /\ nextSeat' = nextSeat
          /\ UNCHANGED <<coworkings, nextCoworking, booked, upcoming>>
      BY <2>1 DEF UpdateSeatRow
    <3>2. s \in DOMAIN seats /\ row.coworking_id = seats[s].coworking_id /\ s < nextSeat
      BY <1>1, <2>1 DEF ReqsOK, EditOK, UpdateSeatRow, Matches
    <3>3. nextSeat' \in 1 .. MaxSeats + 1 /\ s < nextSeat' /\ nextSeat <= nextSeat'
      BY <1>1, <3>1, <3>2, BoundsAssumption DEF TablesOK, SeatsTyped
    <3>4. row.coworking_id \in DOMAIN coworkings
      BY <1>1, <3>2 DEF TablesOK, NothingDangles
    <3> QED
      BY <1>1, <1>2, <2>1, <3>1, <3>2, <3>3, <3>4, SeatPut
  <2>2. CASE ~ (Matches(seats, s) /\ PlaceFree(seats, s, row))
    <3>1. UNCHANGED <<coworkings, seats, nextCoworking, nextSeat, booked, upcoming>>
      BY <2>2 DEF UpdateSeatRow
    <3> QED
      BY <1>1, <3>1, TablesSame, SeatsSame
  <2> QED
    BY <2>1, <2>2
<1> QED
  BY <1>1, <1>3, AnswerStep DEF UpdateSeatRow, CatalogInv

LEMMA DeleteSeatStep ==
  ASSUME CatalogInv, NEW w \in Workers, DeleteSeatRow(w)
  PROVE  CatalogInv' /\ SeatsKept
<1>1. TablesOK /\ ReqsOK
  BY DEF CatalogInv
<1>2. TablesOK' /\ SeatsKept
  <2>1. CASE Unbooked({req[w].id})
    <3>1. \A s \in DOMAIN seats \ {req[w].id} : seats[s].coworking_id \in DOMAIN coworkings'
      BY <1>1 DEF DeleteSeatRow, TablesOK, NothingDangles
    <3>2. SeatsTyped' /\ Distinct' /\ NothingDangles' /\ SeatsKept /\ upcoming' \subseteq booked'
      BY <1>1, <2>1, <3>1, SeatsRemoved DEF DeleteSeatRow
    <3> QED
      BY <1>1, <3>2 DEF DeleteSeatRow, TablesOK, CoworkingsOK
  <2>2. CASE ~ Unbooked({req[w].id})
    <3>1. UNCHANGED <<coworkings, seats, nextCoworking, nextSeat, booked, upcoming>>
      BY <2>2 DEF DeleteSeatRow
    <3> QED
      BY <1>1, <3>1, TablesSame, SeatsSame
  <2> QED
    BY <2>1, <2>2
<1> QED
  BY <1>1, <1>2, AnswerStep DEF DeleteSeatRow, CatalogInv

LEMMA BookingStep ==
  ASSUME CatalogInv, Book \/ Pass
  PROVE  CatalogInv' /\ SeatsKept
<1>1. /\ UNCHANGED <<coworkings, seats, nextCoworking, nextSeat, req>>
      /\ booked' \subseteq DOMAIN seats /\ upcoming' \subseteq booked'
  BY DEF CatalogInv, TablesOK, NothingDangles, Book, Pass
<1>2. TablesOK /\ ReqsOK
  BY DEF CatalogInv
<1>3. TablesOK' /\ SeatsKept
  BY <1>1, <1>2, SeatsSame DEF TablesOK, CoworkingsOK, SeatsTyped, Distinct, NothingDangles
<1> QED
  BY <1>1, <1>2, <1>3, ReqsSame DEF CatalogInv

-----------------------------------------------------------------------------
LEMMA CatalogInit == Init => CatalogInv
<1> SUFFICES ASSUME Init PROVE CatalogInv
  OBVIOUS
<1>1. PICK n \in CoworkingNames : coworkings = [c \in {1} |-> n]
  BY DEF Init
<1>2. CoworkingsOK
  BY <1>1, BoundsAssumption DEF Init, CoworkingsOK
<1>3. SeatsTyped /\ Distinct /\ NothingDangles /\ upcoming \subseteq booked
  BY BoundsAssumption DEF Init, SeatsTyped, Distinct, NothingDangles
<1>4. ReqsOK
  BY DEF Init, ReqsOK, EditOK, Request, Idle
<1> QED
  BY <1>2, <1>3, <1>4 DEF CatalogInv, TablesOK

LEMMA CatalogNext == CatalogInv /\ [Next]_vars => CatalogInv' /\ SeatsKept
<1> SUFFICES ASSUME CatalogInv, [Next]_vars PROVE CatalogInv' /\ SeatsKept
  OBVIOUS
<1>1. CASE Book \/ Pass
  BY <1>1, BookingStep
<1>2. ASSUME NEW w \in Workers, Handle(w) PROVE CatalogInv' /\ SeatsKept
  <2>1. CASE Abort(w)
    <3>1. TablesOK' /\ SeatsKept
      BY <2>1, TablesSame, SeatsSame DEF CatalogInv, Abort
    <3> QED
      BY <2>1, <3>1, AnswerStep DEF CatalogInv, Abort
  <2> QED
    BY <1>2, <2>1, ReadsStep, CreateCoworkingStep, UpdateCoworkingStep, DeleteCoworkingStep,
       InsertSeatStep, UpdateSeatStep, DeleteSeatStep DEF Handle
<1>3. CASE UNCHANGED vars
  <2>1. TablesOK' /\ SeatsKept
    BY <1>3, TablesSame, SeatsSame DEF CatalogInv, vars
  <2> QED
    BY <1>3, <2>1, ReqsSame DEF CatalogInv, vars
<1> QED
  BY <1>1, <1>2, <1>3 DEF Next

LEMMA CatalogInvariance == Spec => []CatalogInv
<1>1. CatalogInv /\ [Next]_vars => CatalogInv'
  BY CatalogNext
<1> QED
  BY <1>1, CatalogInit, PTL DEF Spec

(* The tables and the requests keep their types.                           *)
THEOREM CatalogTypeCorrect == Spec => []TypeOK
<1>1. CatalogInv => TypeOK
  BY DEF CatalogInv, TablesOK, CoworkingsOK, SeatsTyped, ReqsOK, TypeOK
<1> QED
  BY <1>1, CatalogInvariance, PTL

(* Names of coworkings, and cells and names of seats, stay unique.         *)
THEOREM PlacesStayUnique == Spec => []PlacesUnique
<1>1. CatalogInv => PlacesUnique
  BY DEF CatalogInv, TablesOK, CoworkingsOK, Distinct, PlacesUnique
<1> QED
  BY <1>1, CatalogInvariance, PTL

(* No seat outlives its coworking and no booking its seat.                 *)
THEOREM ReferencesHold == Spec => []NothingDangles
<1>1. CatalogInv => NothingDangles
  BY DEF CatalogInv, TablesOK
<1> QED
  BY <1>1, CatalogInvariance, PTL

(* A seat keeps its coworking, and its id is never used again.             *)
THEOREM SeatsKeepIdentity == Spec => SeatIdentity
<1>1. CatalogInv /\ [Next]_vars =>
        [\A s \in DOMAIN seats' :
           IF s \in DOMAIN seats THEN seats'[s].coworking_id = seats[s].coworking_id
                                 ELSE s >= nextSeat]_vars
  BY CatalogNext DEF SeatsKept
<1> QED
  BY <1>1, CatalogInvariance, PTL DEF Spec, SeatIdentity

-----------------------------------------------------------------------------
(* The refinement of FloorPlan.  Shown is all that is used of Occupant:    *)
(* a cell shows the one seat that is in it.                                *)
Places == CoworkingIds \X Cells

Shown ==
  /\ Occupant = [p \in Places |-> Occupant[p]]
  /\ \A p \in Places : At(p) = {} => Occupant[p] = 0
  /\ \A p \in Places : \A s \in At(p) : Occupant[p] = s
  /\ \A p \in Places : \A s \in SeatIds : Occupant[p] = s => s \in At(p)

LEMMA ShownAll == CatalogInv => Shown
<1> SUFFICES ASSUME CatalogInv PROVE Shown
  OBVIOUS
<1>1. Distinct /\ DOMAIN seats \subseteq SeatIds
  BY BoundsAssumption DEF CatalogInv, TablesOK, SeatsTyped, SeatIds
<1>2. Occupant = [p \in Places |-> Occupant[p]]
  BY DEF Occupant, Places
<1>3. ASSUME NEW p \in Places, At(p) = {} PROVE Occupant[p] = 0
  BY <1>3 DEF Occupant, Places
<1>4. ASSUME NEW p \in Places, NEW s \in At(p) PROVE Occupant[p] = s
  <2>1. Occupant[p] = CHOOSE t \in At(p) : TRUE
    BY DEF Occupant, Places
  <2>2. Occupant[p] \in At(p)
    BY <2>1
  <2> QED
    BY <1>1, <2>2 DEF At, Distinct
<1>5. ASSUME NEW p \in Places, NEW s \in SeatIds, Occupant[p] = s PROVE s \in At(p)
  <2>1. 0 \notin SeatIds
    BY BoundsAssumption DEF SeatIds
  <2>2. At(p) # {}
    BY <1>3, <1>5, <2>1
  <2> QED
    BY <1>4, <1>5, <2>2
<1> QED
  BY <1>2, <1>3, <1>4, <1>5 DEF Shown

LEMMA PlanSame ==
  ASSUME seats' = seats
  PROVE  Occupant' = Occupant
BY DEF Occupant, At

(* Two plans are equal if they agree in every place.                       *)
LEMMA PlansEqual ==
  ASSUME NEW f, NEW g, f = [p \in Places |-> f[p]], g = [p \in Places |-> g[p]],
         \A p \in Places : f[p] = g[p]
  PROVE  f = g
<1>1. [p \in Places |-> f[p]] = [p \in Places |-> g[p]]
  OBVIOUS
<1> QED
  BY <1>1

(* A place whose seats a step does not touch shows what it has shown.      *)
LEMMA PlaceSame ==
  ASSUME Shown, Shown', NEW p \in Places, At(p)' = At(p)
  PROVE  Occupant'[p] = Occupant[p]
<1>1. CASE At(p) = {}
  BY <1>1 DEF Shown
<1>2. CASE At(p) # {}
  BY <1>2 DEF Shown
<1> QED
  BY <1>1, <1>2

LEMMA PlacedStep ==
  ASSUME CatalogInv, CatalogInv', Shown, Shown', NEW s \in SeatIds, NEW row \in Seat,
         s \notin DOMAIN seats, PlaceFree(seats, s, row), seats' = Put(seats, s, row)
  PROVE  Plan!Place(s)
<1> DEFINE place == <<row.coworking_id, row.cell>>
<1>1. place \in Places /\ DOMAIN seats' = DOMAIN seats \cup {s} /\ seats'[s] = row
      /\ \A i \in DOMAIN seats : seats'[i] = seats[i]
  BY DEF Put, Places, Seat
<1>2. At(place) = {} /\ At(place)' = {s}
  BY <1>1 DEF At, PlaceFree
<1>3. \A p \in Places : p # place => At(p)' = At(p)
  <2> SUFFICES ASSUME NEW p \in Places, p # place PROVE At(p)' = At(p)
    OBVIOUS
  <2>1. ~ (seats'[s].coworking_id = p[1] /\ seats'[s].cell = p[2])
    BY <1>1 DEF Places
  <2> QED
    BY <1>1, <2>1 DEF At
<1>4. Occupant[place] = 0 /\ Occupant'[place] = s
  BY <1>1, <1>2 DEF Shown
<1>5. \A p \in Places : Occupant[p] # s
  BY DEF Shown, At
<1>6. \A p \in Places : p # place => Occupant'[p] = Occupant[p]
  BY <1>3, PlaceSame
<1>7. Occupant' = [Occupant EXCEPT ![place] = s]
  <2>1. Occupant = [p \in Places |-> Occupant[p]] /\ Occupant' = [p \in Places |-> Occupant'[p]]
    BY DEF Shown
  <2>2. [Occupant EXCEPT ![place] = s] = [p \in Places |-> IF p = place THEN s ELSE Occupant[p]]
    BY <2>1
  <2>3. \A p \in Places : Occupant'[p] = IF p = place THEN s ELSE Occupant[p]
    BY <1>4, <1>6
  <2> QED
    BY <2>1, <2>2, <2>3
<1> QED
  BY <1>1, <1>4, <1>5, <1>7 DEF Plan!Place, Places

LEMMA RemovedStep ==
  ASSUME Shown, Shown', NEW s \in SeatIds, seats' = Without(seats, {s})
  PROVE  Plan!Remove(s)
<1>1. DOMAIN seats' = DOMAIN seats \ {s} /\ \A i \in DOMAIN seats' : seats'[i] = seats[i]
  BY DEF Without
<1>2. ASSUME NEW p \in Places
      PROVE  Occupant'[p] = IF Occupant[p] = s THEN 0 ELSE Occupant[p]
  <2>1. At(p)' = At(p) \ {s}
    BY <1>1 DEF At
  <2>2. CASE Occupant[p] = s
    <3>1. At(p) \subseteq {s}
      BY <2>2 DEF Shown
    <3> QED
      BY <2>1, <2>2, <3>1 DEF Shown
  <2>3. CASE Occupant[p] # s
    <3>1. s \notin At(p)
      BY <2>3 DEF Shown
    <3>2. At(p)' = At(p)
      BY <2>1, <3>1
    <3> QED
      BY <2>3, <3>2, PlaceSame
  <2> QED
    BY <2>2, <2>3
<1>3. Occupant' = [p \in Places |-> Occupant'[p]]
  BY DEF Shown
<1>4. Occupant' = [p \in Places |-> IF Occupant[p] = s THEN 0 ELSE Occupant[p]]
  BY <1>2, <1>3
<1> QED
  BY <1>4 DEF Plan!Remove, Places

LEMMA ClosedStep ==
  ASSUME Shown, Shown', NEW c \in CoworkingIds, seats' = Without(seats, SeatsOf(seats, c))
  PROVE  Plan!Close(c)
<1>1. DOMAIN seats' = DOMAIN seats \ SeatsOf(seats, c)
      /\ \A i \in DOMAIN seats' : seats'[i] = seats[i]
  BY DEF Without
<1>2. ASSUME NEW p \in Places
      PROVE  Occupant'[p] = IF p[1] = c THEN 0 ELSE Occupant[p]
  <2>1. CASE p[1] = c
    <3>1. At(p)' = {}
      BY <1>1, <2>1 DEF At, SeatsOf
    <3> QED
      BY <2>1, <3>1 DEF Shown
  <2>2. CASE p[1] # c
    <3>1. At(p)' = At(p)
      BY <1>1, <2>2 DEF At, SeatsOf
    <3> QED
      BY <2>2, <3>1, PlaceSame
  <2> QED
    BY <2>1, <2>2
<1>3. Occupant' = [p \in Places |-> Occupant'[p]]
  BY DEF Shown
<1>4. Occupant' = [p \in Places |-> IF p[1] = c THEN 0 ELSE Occupant[p]]
  BY <1>2, <1>3
<1> QED
  BY <1>4 DEF Plan!Close, Places

(* An edit moves a seat within its room, or leaves it where it is.         *)
LEMMA MovedStep ==
  ASSUME CatalogInv, CatalogInv', Shown, Shown', NEW s \in SeatIds, NEW row \in Seat,
         s \in DOMAIN seats, row.coworking_id = seats[s].coworking_id,
         PlaceFree(seats, s, row), seats' = Put(seats, s, row)
  PROVE  Plan!Move(s) \/ Occupant' = Occupant
<1>1. DOMAIN seats' = DOMAIN seats /\ seats'[s] = row
      /\ \A i \in DOMAIN seats : i # s => seats'[i] = seats[i]
  BY DEF Put
<1>2. seats[s] \in Seat
  BY DEF CatalogInv, TablesOK, SeatsTyped
<1>3. PICK room \in CoworkingIds, from \in Cells, to \in Cells :
        /\ seats[s].coworking_id = room /\ seats[s].cell = from
        /\ row.coworking_id = room /\ row.cell = to
  BY <1>2 DEF Seat
<1>4. Occupant = [p \in Places |-> Occupant[p]] /\ Occupant' = [p \in Places |-> Occupant'[p]]
  BY DEF Shown
<1>5. <<room, from>> \in Places /\ <<room, to>> \in Places
  BY DEF Places
<1>6. Occupant[<<room, from>>] = s /\ Occupant'[<<room, to>>] = s
  <2>1. s \in At(<<room, from>>) /\ s \in At(<<room, to>>)'
    BY <1>1, <1>3 DEF At
  <2> QED
    BY <1>5, <2>1 DEF Shown
<1>7. ASSUME NEW p \in Places, p # <<room, from>>, p # <<room, to>>
      PROVE  Occupant'[p] = Occupant[p]
  <2>1. /\ ~ (seats[s].coworking_id = p[1] /\ seats[s].cell = p[2])
        /\ ~ (seats'[s].coworking_id = p[1] /\ seats'[s].cell = p[2])
    BY <1>1, <1>3, <1>7 DEF Places
  <2>2. At(p)' = At(p)
    BY <1>1, <2>1 DEF At
  <2> QED
    BY <2>2, PlaceSame
<1>8. CASE from = to
  <2>1. \A p \in Places : Occupant'[p] = Occupant[p]
    BY <1>6, <1>7, <1>8
  <2> QED
    BY <1>4, <2>1, PlansEqual
<1>9. CASE from # to
  <2>1. At(<<room, to>>) = {}
    <3>1. ASSUME NEW t \in At(<<room, to>>) PROVE FALSE
      <4>1. t \in DOMAIN seats /\ seats[t].coworking_id = room /\ seats[t].cell = to
        BY DEF At
      <4>2. t # s
        BY <1>3, <1>9, <4>1
      <4> QED
        BY <1>3, <4>1, <4>2 DEF PlaceFree
    <3> QED
      BY <3>1
  <2>2. At(<<room, from>>)' = {}
    <3>1. ASSUME NEW t \in DOMAIN seats', seats'[t].coworking_id = room, seats'[t].cell = from
          PROVE  FALSE
      <4>1. t # s
        BY <1>1, <1>3, <1>9, <3>1
      <4> QED
        BY <1>1, <1>3, <3>1, <4>1 DEF CatalogInv, TablesOK, Distinct
    <3> QED
      BY <3>1 DEF At
  <2>3. Occupant[<<room, to>>] = 0 /\ Occupant'[<<room, from>>] = 0
    BY <1>5, <2>1, <2>2 DEF Shown
  <2>4. <<room, from>> # <<room, to>>
    BY <1>9
  <2>5. [Occupant EXCEPT ![<<room, from>>] = 0, ![<<room, to>>] = s]
          = [p \in Places |-> IF p = <<room, to>> THEN s
                              ELSE IF p = <<room, from>> THEN 0 ELSE Occupant[p]]
    BY <1>4, <1>5, <2>4
  <2>6. \A p \in Places : Occupant'[p] = IF p = <<room, to>> THEN s
                                         ELSE IF p = <<room, from>> THEN 0 ELSE Occupant[p]
    BY <1>6, <1>7, <2>3
  <2>7. Occupant' = [Occupant EXCEPT ![<<room, from>>] = 0, ![<<room, to>>] = s]
    BY <1>4, <2>5, <2>6
  <2> QED
    BY <1>6, <2>3, <2>7 DEF Plan!Move
<1> QED
  BY <1>8, <1>9

LEMMA PlanInit == Init => Plan!Init
<1> SUFFICES ASSUME Init PROVE Plan!Init
  OBVIOUS
<1>1. \A p \in Places : At(p) = {}
  BY DEF Init, At
<1> QED
  BY <1>1 DEF Plan!Init, Occupant, Places

LEMMA PlanNext ==
  CatalogInv /\ CatalogInv' /\ Shown /\ Shown' /\ [Next]_vars => [Plan!Next]_Occupant
<1> SUFFICES ASSUME CatalogInv, CatalogInv', Shown, Shown', [Next]_vars
             PROVE  Plan!Next \/ Occupant' = Occupant
  OBVIOUS
<1>1. CASE seats' = seats
  BY <1>1, PlanSame
<1>2. ASSUME NEW w \in Workers, InsertSeat(w), seats' # seats
      PROVE  Plan!Next
  <2>1. /\ req[w].row \in Seat
        /\ nextSeat \in SeatIds /\ PlaceFree(seats, nextSeat, req[w].row)
        /\ seats' = Put(seats, nextSeat, req[w].row)
    BY <1>2 DEF InsertSeat, CatalogInv, ReqsOK, Request, Idle
  <2>2. nextSeat \notin DOMAIN seats
    BY BoundsAssumption DEF CatalogInv, TablesOK, SeatsTyped
  <2>3. Plan!Place(nextSeat)
    BY <2>1, <2>2, PlacedStep
  <2> QED
    BY <2>1, <2>3 DEF Plan!Next
<1>3. ASSUME NEW w \in Workers, UpdateSeatRow(w), seats' # seats
      PROVE  Plan!Next \/ Occupant' = Occupant
  <2>1. /\ req[w].row \in Seat /\ req[w].id \in SeatIds
        /\ req[w].id \in DOMAIN seats /\ PlaceFree(seats, req[w].id, req[w].row)
        /\ seats' = Put(seats, req[w].id, req[w].row)
        /\ req[w].row.coworking_id = seats[req[w].id].coworking_id
    BY <1>3 DEF UpdateSeatRow, Matches, CatalogInv, ReqsOK, EditOK, Request, Idle
  <2>2. Plan!Move(req[w].id) \/ Occupant' = Occupant
    BY <2>1, MovedStep
  <2> QED
    BY <2>1, <2>2 DEF Plan!Next
<1>4. ASSUME NEW w \in Workers, DeleteSeatRow(w), seats' # seats
      PROVE  Plan!Next
  <2>1. req[w].id \in SeatIds /\ seats' = Without(seats, {req[w].id})
    BY <1>4 DEF DeleteSeatRow, CatalogInv, ReqsOK, Request, Idle
  <2>2. Plan!Remove(req[w].id)
    BY <2>1, RemovedStep
  <2> QED
    BY <2>1, <2>2 DEF Plan!Next
<1>5. ASSUME NEW w \in Workers, DeleteCoworking(w)
      PROVE  Plan!Next
  <2>1. PICK c \in CoworkingIds : seats' = Without(seats, SeatsOf(seats, c))
    BY <1>5, BoundsAssumption DEF DeleteCoworking, CatalogInv, TablesOK, CoworkingsOK, CoworkingIds
  <2>2. Plan!Close(c)
    BY <2>1, ClosedStep
  <2> QED
    BY <2>2 DEF Plan!Next
<1>6. ASSUME seats' # seats
      PROVE  \E w \in Workers :
               InsertSeat(w) \/ UpdateSeatRow(w) \/ DeleteSeatRow(w) \/ DeleteCoworking(w)
  BY <1>6 DEF Next, vars, Book, Pass, Handle, CreateCoworking, UpdateCoworking,
     UpdateCoworkingRow, CreateSeat, UpdateSeat, DeleteSeat, Abort
<1> QED
  BY <1>1, <1>2, <1>3, <1>4, <1>5, <1>6

(* The catalog implements the floor plan.                                  *)
THEOREM CatalogRefinesFloorPlan == Spec => ImplementsFloorPlan
<1>1. CatalogInv => Shown
  BY ShownAll
<1>2. Spec => Plan!Spec
  BY <1>1, CatalogInvariance, PlanInit, PlanNext, PTL DEF Spec, Plan!Spec
<1> QED
  BY <1>2 DEF ImplementsFloorPlan
=============================================================================
