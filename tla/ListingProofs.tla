---------------------------- MODULE ListingProofs ----------------------------
(***************************************************************************)
(* The listings of reapers and of the shelf, for all jobs, times and       *)
(* limits: comparing text is never wrong by a second.                      *)
(***************************************************************************)
EXTENDS Listing, FiniteSetTheorems, TLAPS

\* What comparing text says of two times.
LEMMA TextIsNear ==
  ASSUME NEW a \in Nat, NEW b \in Nat
  PROVE  /\ TextBefore(a, b) => a < b + Second
         /\ a + Second <= b => TextBefore(a, b)
<1>1. /\ a \div Second \in Nat /\ Second * (a \div Second) <= a
      /\ a < Second * (a \div Second) + Second
  BY DEF Second
<1>2. /\ b \div Second \in Nat /\ Second * (b \div Second) <= b
      /\ b < Second * (b \div Second) + Second
  BY DEF Second
<1>3. TextBefore(a, b) => a \div Second <= b \div Second
  BY <1>1, <1>2 DEF TextBefore
<1> DEFINE p == a \div Second
           q == b \div Second
<1>4. p <= q => a < b + Second
  BY <1>1, <1>2 DEF Second
<1>5. a + Second <= b => p < q
  BY <1>1, <1>2 DEF Second
<1> QED
  BY <1>3, <1>4, <1>5 DEF TextBefore

Statuses == {"none", "uploading", "active", "completed", "failed", "gone"}

Timed ==
  /\ clock \in Instants
  /\ row \in [Jobs -> [status : Statuses, created : Nat]]
  /\ DOMAIN doomed = Reapers

LEMMA NextTimed ==
  ASSUME Timed, [Next]_vars
  PROVE  Timed'
<1> USE DEF Timed
<1>1. CASE UNCHANGED vars
  BY <1>1 DEF vars
<1>2. CASE Advance \/ ListVideos
  BY <1>2 DEF Advance, ListVideos
<1>3. ASSUME NEW j \in Jobs, Create(j) \/ Update(j)
      PROVE  Timed'
  <2>1. CASE Create(j)
    BY <2>1, ListingAssumption DEF Create, Statuses
  <2>2. CASE Update(j)
    <3>1. PICK s \in NextStatus[row[j].status] : row' = [row EXCEPT ![j].status = s]
      BY <2>2 DEF Update
    <3>2. s \in Statuses
      BY DEF NextStatus, Statuses
    <3> QED
      BY <2>2, <3>1, <3>2 DEF Update
  <2> QED
    BY <1>3, <2>1, <2>2
<1>4. ASSUME NEW s \in Reapers, List(s) \/ \E j \in Jobs : Delete(s, j)
      PROVE  Timed'
  BY <1>4 DEF List, Delete, Statuses
<1> QED
  BY <1>1, <1>2, <1>3, <1>4 DEF Next

LEMMA AlwaysTimed == Spec => []Timed
<1>1. Init => Timed
  BY DEF Init, Timed, NoRow, Statuses
<1>2. Timed /\ [Next]_vars => Timed'
  BY NextTimed
<1> QED
  BY <1>1, <1>2, PTL DEF Spec

\* A reaper is given no job that is a second too young, and every one that is
\* a second past its time.
THEOREM ReapsOnTimeCorrect == Spec => ReapsOnTime
<1>1. Timed => [\A s \in Reapers : List(s) => OnTime(s)]_vars
  <2> SUFFICES ASSUME Timed, NEW s \in Reapers, List(s), NEW j \in Jobs
               PROVE  LET due == row[j].created + Ttl(s) IN
                      /\ j \in doomed'[s] => due < clock + Second
                      /\ row[j].status \in Listed(s) /\ due + Second <= clock
                           => j \in doomed'[s]
    BY DEF OnTime
  <2>1. /\ row[j].created \in Nat /\ clock \in Nat /\ Ttl(s) \in Nat /\ clock >= Ttl(s)
    BY ListingAssumption DEF Timed, Ttl
  <2>2. clock - Ttl(s) \in Nat
    BY <2>1
  <2>3. /\ TextBefore(row[j].created, clock - Ttl(s))
             => row[j].created < clock - Ttl(s) + Second
        /\ row[j].created + Second <= clock - Ttl(s)
             => TextBefore(row[j].created, clock - Ttl(s))
    BY <2>1, <2>2, TextIsNear
  <2>4. j \in doomed'[s] <=> Eligible(s, j)
    BY DEF List, Timed
  <2> QED
    BY <2>1, <2>3, <2>4 DEF Eligible, Second
<1> QED
  BY <1>1, AlwaysTimed, PTL DEF Spec, ReapsOnTime

-----------------------------------------------------------------------------
(* The shelf.                                                              *)

\* The store has finitely many rows: one more with each upload.
LEMMA AlwaysFinite == Spec => [](Timed /\ IsFiniteSet(Rows))
<1>1. Init => IsFiniteSet(Rows)
  <2> SUFFICES ASSUME Init PROVE IsFiniteSet(Rows)
    OBVIOUS
  <2>1. Rows = {}
    BY DEF Init, Rows, NoRow
  <2> QED
    BY <2>1, FS_EmptySet
<1>2. Timed /\ IsFiniteSet(Rows) /\ [Next]_vars => IsFiniteSet(Rows)'
  <2> SUFFICES ASSUME Timed, IsFiniteSet(Rows), [Next]_vars PROVE IsFiniteSet(Rows')
    BY DEF Rows
  <2>1. Rows' \subseteq Rows \/ \E j \in Jobs : Rows' \subseteq Rows \cup {j}
    <3>1. CASE row' = row
      BY <3>1 DEF Rows
    <3>2. ASSUME NEW j \in Jobs, NEW new, row' = [row EXCEPT ![j] = new]
          PROVE  Rows' \subseteq Rows \cup {j}
      BY <3>2 DEF Timed, Rows
    <3>3. ASSUME NEW j \in Jobs, Create(j) \/ Update(j)
          PROVE  Rows' \subseteq Rows \cup {j}
      BY <3>2, <3>3 DEF Create, Update
    <3>4. ASSUME NEW s \in Reapers, NEW j \in Jobs, Delete(s, j)
          PROVE  Rows' \subseteq Rows \cup {j}
      <4>1. CASE row' = row
        BY <4>1 DEF Rows
      <4>2. CASE row' = [row EXCEPT ![j].status = "gone"]
        BY <3>2, <4>2
      <4> QED
        BY <3>4, <4>1, <4>2 DEF Delete
    <3> QED
      BY <3>1, <3>3, <3>4 DEF Next, vars, Advance, ListVideos, List
  <2> QED
    BY <2>1, FS_AddElement, FS_Subset
<1> QED
  BY <1>1, <1>2, AlwaysTimed, PTL DEF Spec

\* The newest of some rows: some of them, all when there are not too many, and
\* none that is left is a second newer.
LEMMA NewestAreNewest ==
  ASSUME Timed, NEW rows \in SUBSET Jobs, IsFiniteSet(rows), NEW n \in Nat,
         NEW some \in Newest(rows, n)
  PROVE  /\ some \subseteq rows /\ IsFiniteSet(some)
         /\ Cardinality(some) = n \/ some = rows
         /\ \A a \in rows \ some, b \in some : row[a].created < row[b].created + Second
<1>1. /\ some \subseteq rows
      /\ Cardinality(some) = IF Cardinality(rows) < n THEN Cardinality(rows) ELSE n
      /\ \A a \in rows \ some, b \in some : ~TextBefore(row[b].created, row[a].created)
  BY DEF Newest
<1>2. IsFiniteSet(some) /\ (Cardinality(some) = Cardinality(rows) => some = rows)
  BY <1>1, FS_Subset
<1>3. ASSUME NEW a \in rows \ some, NEW b \in some
      PROVE  row[a].created < row[b].created + Second
  <2>1. row[a].created \in Nat /\ row[b].created \in Nat
    BY <1>1 DEF Timed
  <2>2. ~TextBefore(row[b].created, row[a].created)
    BY <1>1
  <2>3. ~(row[b].created + Second <= row[a].created)
    BY <2>1, <2>2, TextIsNear
  <2> QED
    BY <2>1, <2>3 DEF Second
<1> QED
  BY <1>1, <1>2, <1>3

\* A completed job is on the shelf, or no newer than those that are; and the
\* shelf is full, or the job is behind as many newer rows as were asked for.
THEOREM ShelfFairCorrect == Spec => ShelfFair
<1>1. Timed /\ IsFiniteSet(Rows)
        => [ListVideos =>
              /\ shelf' \subseteq Completed(Rows)
              /\ \A j \in Completed(Rows) \ shelf' :
                   /\ \A k \in shelf' : row[j].created < row[k].created + Second
                   /\ Cardinality(shelf') = Limit \/ Crowded(j)]_vars
  <2> SUFFICES ASSUME Timed, IsFiniteSet(Rows), ListVideos
               PROVE  /\ shelf' \subseteq Completed(Rows)
                      /\ \A j \in Completed(Rows) \ shelf' :
                           /\ \A k \in shelf' : row[j].created < row[k].created + Second
                           /\ Cardinality(shelf') = Limit \/ Crowded(j)
    OBVIOUS
  <2>1. PICK recent \in Newest(Rows, Asked) : shelf' \in Newest(Completed(recent), Limit)
    BY DEF ListVideos
  <2>2. Asked \in Nat /\ Limit \in Nat /\ Rows \subseteq Jobs
    BY ListingAssumption DEF Asked, Rows
  <2>3. /\ recent \subseteq Rows /\ IsFiniteSet(recent)
        /\ Cardinality(recent) = Asked \/ recent = Rows
        /\ \A a \in Rows \ recent, b \in recent : row[a].created < row[b].created + Second
    BY <2>2, NewestAreNewest
  <2>4. /\ Completed(recent) \in SUBSET Jobs /\ IsFiniteSet(Completed(recent))
        /\ Completed(recent) \subseteq recent /\ Completed(recent) \subseteq Completed(Rows)
    BY <2>2, <2>3, FS_Subset DEF Completed
  <2>5. /\ shelf' \subseteq Completed(recent)
        /\ Cardinality(shelf') = Limit \/ shelf' = Completed(recent)
        /\ \A a \in Completed(recent) \ shelf', b \in shelf' :
             row[a].created < row[b].created + Second
    BY <2>1, <2>2, <2>4, NewestAreNewest
  <2>6. ASSUME NEW j \in Completed(Rows) \ shelf', NEW k \in shelf'
        PROVE  row[j].created < row[k].created + Second
    <3>1. j \in Rows /\ k \in recent /\ (j \in recent => j \in Completed(recent))
      BY <2>4, <2>5 DEF Completed
    <3> QED
      BY <2>3, <2>5, <3>1
  <2>7. ASSUME NEW j \in Completed(Rows) \ shelf', Cardinality(shelf') # Limit
        PROVE  Crowded(j)
    <3> DEFINE newer == {k \in Rows : row[k].created + Second > row[j].created}
    <3>1. j \in Rows \ recent
      BY <2>5, <2>7 DEF Completed
    <3>2. Cardinality(recent) = Asked /\ recent # Rows
      BY <2>3, <3>1
    <3>3. \A k \in Rows : row[k].created \in Nat
      BY <2>2 DEF Timed
    <3>4. recent \cup {j} \subseteq newer
      BY <2>3, <3>1, <3>3 DEF Second
    <3>5. IsFiniteSet(newer)
      BY FS_Subset
    <3>6. Cardinality(recent \cup {j}) = Asked + 1
      BY <2>3, <3>1, <3>2, FS_AddElement
    <3>7. Cardinality(recent \cup {j}) <= Cardinality(newer) /\ Cardinality(newer) \in Nat
      BY <3>4, <3>5, FS_Subset, FS_CardinalityType
    <3> HIDE DEF newer
    <3>8. Cardinality(newer) > Limit * Oversample
      BY <2>2, <3>6, <3>7 DEF Asked
    <3> QED
      BY <3>8 DEF Crowded, newer
  <2> QED
    BY <2>4, <2>5, <2>6, <2>7
<1> QED
  BY <1>1, AlwaysFinite, PTL DEF Spec, ShelfFair

=============================================================================
