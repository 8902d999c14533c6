--------------------------- MODULE DeliveryProofs ---------------------------
(***************************************************************************)
(* What the plan of a transcode promises, for every size a video can have: *)
(* the model checker tries eight.  All of it comes down to two ways of     *)
(* rounding a quotient to an even number.                                  *)
(***************************************************************************)
EXTENDS Delivery, FiniteSetTheorems, WellFoundedInduction, TLAPS

\* A video that ffprobe finds has a size.
Sized(src) == src.width \in Nat \ {0} /\ src.height \in Nat \ {0}

-----------------------------------------------------------------------------
(* Rounding.                                                               *)

\* A quotient and its remainder.
LEMMA Quotient ==
  ASSUME NEW a \in Nat, NEW b \in Nat \ {0}
  PROVE  /\ a \div b \in Nat
         /\ b * (a \div b) <= a
         /\ a < b * (a \div b) + b
  BY SMT

\* ffmpeg's "-2" is off by one at most.
LEMMA NearestEvenIsNear ==
  ASSUME NEW n \in Nat, NEW d \in Nat \ {0}
  PROVE  /\ NearestEven(n, d) \in Nat
         /\ NearestEven(n, d) * d <= n + d
         /\ n < NearestEven(n, d) * d + d
<1> DEFINE q == (n + d) \div (2 * d)
<1>0. n + d \in Nat /\ 2 * d \in Nat \ {0}
  OBVIOUS
<1>1. /\ q \in Nat
      /\ (2 * d) * q <= n + d
      /\ n + d < (2 * d) * q + 2 * d
  BY <1>0, Quotient, Zenon
<1>2. NearestEven(n, d) = 2 * q
  BY DEF NearestEven
<1> HIDE DEF q
<1>3. NearestEven(n, d) * d = (2 * d) * q
  BY <1>1, <1>2
<1> QED
  BY <1>1, <1>2, <1>3

\* The code's rounding is at most half below, and one and a half above.
LEMMA RoundEvenIsNear ==
  ASSUME NEW n \in Nat, NEW d \in Nat \ {0}
  PROVE  /\ roundEven(n, d) \in Nat
         /\ 2 * (roundEven(n, d) * d) <= 2 * n + 3 * d
         /\ 2 * n < 2 * (roundEven(n, d) * d) + d
<1> DEFINE q == (2 * n + d) \div (2 * d)
<1>0. 2 * n + d \in Nat /\ 2 * d \in Nat \ {0}
  OBVIOUS
<1>1. /\ q \in Nat
      /\ (2 * d) * q <= 2 * n + d
      /\ 2 * n + d < (2 * d) * q + 2 * d
  BY <1>0, Quotient, Zenon
<1>2. roundEven(n, d) = q \/ roundEven(n, d) = q + 1
  BY DEF roundEven
<1> HIDE DEF q
<1>3. CASE roundEven(n, d) = q
  <2>1. 2 * (q * d) = (2 * d) * q
    BY <1>1
  <2> QED
    BY <1>1, <1>3, <2>1
<1>4. CASE roundEven(n, d) = q + 1
  <2>1. 2 * ((q + 1) * d) = (2 * d) * q + 2 * d
    BY <1>1
  <2> QED
    BY <1>1, <1>4, <2>1
<1> QED
  BY <1>2, <1>3, <1>4

\* So they differ by two at most.
LEMMA RoundingsAgree ==
  ASSUME NEW n \in Nat, NEW d \in Nat \ {0}
  PROVE  /\ roundEven(n, d) <= NearestEven(n, d) + 2
         /\ NearestEven(n, d) <= roundEven(n, d) + 2
<1> DEFINE a == roundEven(n, d)
           b == NearestEven(n, d)
<1>1. /\ a \in Nat /\ 2 * (a * d) <= 2 * n + 3 * d /\ 2 * n < 2 * (a * d) + d
      /\ b \in Nat /\ b * d <= n + d /\ n < b * d + d
  BY NearestEvenIsNear, RoundEvenIsNear
<1> HIDE DEF a, b
<1>2. a * d < b * d + 3 * d
  BY <1>1
<1>3. b * d < a * d + 3 * d
  BY <1>1
<1>4. ASSUME NEW x \in Nat, NEW y \in Nat, x * d < y * d + 3 * d
      PROVE  x <= y + 2
  <2>1. SUFFICES ASSUME x >= y + 3 PROVE FALSE
    BY <1>4
  <2>2. PICK z \in Nat : x = y + 3 + z
    BY <2>1
  <2>3. x * d = y * d + 3 * d + z * d
    BY <2>2
  <2>4. z * d >= 0
    BY <2>2
  <2> QED
    BY <1>4, <2>3, <2>4
<1> QED
  BY <1>1, <1>2, <1>3, <1>4 DEF a, b

-----------------------------------------------------------------------------
(* Plans.                                                                  *)

\* The edges of a source.
LEMMA Edges ==
  ASSUME NEW src, Sized(src)
  PROVE  ShortEdge(src) \in Nat \ {0} /\ LongEdge(src) \in Nat
  BY DEF Sized, ShortEdge, LongEdge, Landscape

\* A plan never upscales, and is never empty.
LEMMA PlanFits ==
  ASSUME NEW src, Sized(src)
  PROVE  /\ planRenditions(src, DefaultLadder) # {}
         /\ \A r \in planRenditions(src, DefaultLadder) :
              r.short \in Nat /\ r.short <= ShortEdge(src)
<1> DEFINE picked == {r \in DefaultLadder : r.short <= ShortEdge(src)}
<1>1. \A r \in picked : r.short \in Nat /\ r.short <= ShortEdge(src)
  BY DEF DefaultLadder
<1>2. planRenditions(src, DefaultLadder) =
        IF picked = {} THEN {[name |-> "source", short |-> ShortEdge(src)]} ELSE picked
  BY DEF planRenditions
<1>3. ShortEdge(src) \in Nat
  BY Edges
<1> HIDE DEF picked
<1>4. CASE picked = {}
  <2>1. planRenditions(src, DefaultLadder) = {[name |-> "source", short |-> ShortEdge(src)]}
    BY <1>2, <1>4
  <2> QED
    BY <1>3, <2>1
<1>5. CASE picked # {}
  <2>1. planRenditions(src, DefaultLadder) = picked
    BY <1>2, <1>5
  <2> QED
    BY <1>1, <1>5, <2>1
<1> QED
  BY <1>4, <1>5

\* The size ffmpeg gives a rendition, and the one the code believes in, by edges.
LEMMA Sizes ==
  ASSUME NEW src, Sized(src), NEW short \in Nat
  PROVE  LET f == scaleFilter(src, short)
             d == actualDimensions(src, short)
             n == LongEdge(src) * short IN
         /\ Landscape(src) => /\ f.height = short /\ f.width = NearestEven(n, ShortEdge(src))
                              /\ d.height = short /\ d.width = roundEven(n, ShortEdge(src))
         /\ ~Landscape(src) => /\ f.width = short /\ f.height = NearestEven(n, ShortEdge(src))
                               /\ d.width = short /\ d.height = roundEven(n, ShortEdge(src))
<1>1. CASE Landscape(src)
  BY <1>1 DEF scaleFilter, actualDimensions, LongEdge, ShortEdge
<1>2. CASE ~Landscape(src)
  BY <1>2 DEF scaleFilter, actualDimensions, LongEdge, ShortEdge
<1> QED
  BY <1>1, <1>2

\* Each rendition of a plan keeps the shape of its source.
LEMMA PlanKeepsShape ==
  ASSUME NEW src, Sized(src), NEW r \in planRenditions(src, DefaultLadder)
  PROVE  ShapeKept(src, r)
<1> DEFINE d == ShortEdge(src)
           l == LongEdge(src)
           long == NearestEven(l * r.short, d)
<1>1. /\ r.short \in Nat /\ r.short <= d
      /\ d \in Nat \ {0} /\ l \in Nat
  BY PlanFits, Edges
<1>2. l * r.short \in Nat
  BY <1>1
<1>3. /\ long \in Nat
      /\ long * d <= l * r.short + d
      /\ l * r.short < long * d + d
  BY <1>1, <1>2, NearestEvenIsNear, Zenon
<1> HIDE DEF d, l, long
<1>4. /\ long * d <= r.short * l + d
      /\ r.short * l <= long * d + d
  BY <1>1, <1>3
<1>5. CASE Landscape(src)
  <2>1. scaleFilter(src, r.short).height = r.short /\ scaleFilter(src, r.short).width = long
    BY <1>1, <1>5, Sizes DEF d, l, long
  <2> QED
    BY <1>1, <1>4, <1>5, <2>1 DEF ShapeKept, d, l
<1>6. CASE ~Landscape(src)
  <2>1. scaleFilter(src, r.short).width = r.short /\ scaleFilter(src, r.short).height = long
    BY <1>1, <1>6, Sizes DEF d, l, long
  <2> QED
    BY <1>1, <1>4, <1>6, <2>1 DEF ShapeKept, d, l
<1> QED
  BY <1>5, <1>6

\* What is believed of a rendition is near to what it is.
LEMMA BelievedIsNear ==
  ASSUME NEW src, Sized(src), NEW short \in Nat
  PROVE  /\ Near(actualDimensions(src, short), scaleFilter(src, short))
         /\ Near(scaleFilter(src, short), scaleFilter(src, short))
<1> DEFINE d == ShortEdge(src)
           n == LongEdge(src) * short
<1>1. d \in Nat \ {0} /\ n \in Nat
  BY Edges
<1>2. /\ roundEven(n, d) \in Nat /\ NearestEven(n, d) \in Nat
      /\ roundEven(n, d) <= NearestEven(n, d) + 2
      /\ NearestEven(n, d) <= roundEven(n, d) + 2
  BY <1>1, RoundEvenIsNear, NearestEvenIsNear, RoundingsAgree, Zenon
<1> HIDE DEF d, n
<1>3. CASE Landscape(src)
  BY <1>2, <1>3, Sizes DEF Near, d, n
<1>4. CASE ~Landscape(src)
  BY <1>2, <1>4, Sizes DEF Near, d, n
<1> QED
  BY <1>3, <1>4

-----------------------------------------------------------------------------
(* Files and their order.                                                  *)

\* The rungs that a plan picks from.
LEMMA PlanNames ==
  ASSUME NEW src
  PROVE  /\ Names(src) \subseteq {"1080p", "720p", "480p", "360p", "source"}
         /\ VariantDirs(src) \subseteq {"1080p", "720p", "480p", "360p", "native"}
         /\ Dirs(src) \subseteq {"1080p", "720p", "480p", "360p", "native", "audio"}
<1>1. \A r \in planRenditions(src, DefaultLadder) :
        r.name \in {"1080p", "720p", "480p", "360p", "source"}
  BY DEF planRenditions, DefaultLadder
<1>2. Names(src) \subseteq {"1080p", "720p", "480p", "360p", "source"}
  BY <1>1 DEF Names
<1>3. VariantDirs(src) \subseteq {"1080p", "720p", "480p", "360p", "native"}
  BY <1>2 DEF VariantDirs, hlsDir
<1> QED
  BY <1>2, <1>3 DEF Dirs, AudioDir

OrderOf(k) == IF k = "hls" THEN WalkOrder ELSE LadderOrder

\* A key is a name of its order, and a number below four.
LEMMA KeyShape ==
  ASSUME NEW src, NEW k \in {"mp4", "hls"}, NEW key \in FilesOf(k, src)
  PROVE  /\ key = <<key[1], key[2]>> /\ key[2] \in 0..3
         /\ \E i \in 1..7 : i \in DOMAIN OrderOf(k) /\ OrderOf(k)[i] = key[1]
<1>1. CASE k = "hls"
  <2>1. key = Master \/ \E d \in Dirs(src), i \in 1..3 : key = <<d, i>>
    BY <1>1 DEF FilesOf, Tree, InDir, VariantFiles
  <2>2. /\ key = <<key[1], key[2]>> /\ key[2] \in 0..3
        /\ key[1] \in {"1080p", "720p", "480p", "360p", "native", "audio", "master.m3u8"}
    BY <2>1, PlanNames DEF Master
  <2>3. /\ DOMAIN WalkOrder = 1..7
        /\ WalkOrder[1] = "1080p" /\ WalkOrder[2] = "360p" /\ WalkOrder[3] = "480p"
        /\ WalkOrder[4] = "720p" /\ WalkOrder[5] = "audio" /\ WalkOrder[6] = "master.m3u8"
        /\ WalkOrder[7] = "native"
    BY DEF WalkOrder
  <2> QED
    BY <1>1, <2>2, <2>3 DEF OrderOf
<1>2. CASE k = "mp4"
  <2>1. \E n \in Names(src) : key = <<n, 0>>
    BY <1>2 DEF FilesOf, Mp4Files, Mp4
  <2>2. /\ key = <<key[1], key[2]>> /\ key[2] = 0
        /\ key[1] \in {"1080p", "720p", "480p", "360p", "source"}
    BY <2>1, PlanNames
  <2>3. /\ DOMAIN LadderOrder = 1..5
        /\ LadderOrder[1] = "1080p" /\ LadderOrder[2] = "720p" /\ LadderOrder[3] = "480p"
        /\ LadderOrder[4] = "360p" /\ LadderOrder[5] = "source"
    BY DEF LadderOrder
  <2> QED
    BY <1>2, <2>2, <2>3 DEF OrderOf
<1> QED
  BY <1>1, <1>2

\* So its place is a number, and no other key has it.
LEMMA Places ==
  ASSUME NEW src, NEW k \in {"mp4", "hls"}, NEW key \in FilesOf(k, src)
  PROVE  /\ Place(k, key) \in 4..31
         /\ \A other \in FilesOf(k, src) : Place(k, other) = Place(k, key) => other = key
<1> DEFINE p(x) == PlaceIn(OrderOf(k), x[1])
<1>1. \A x \in FilesOf(k, src) :
        /\ p(x) \in 1..7 /\ OrderOf(k)[p(x)] = x[1]
        /\ x = <<x[1], x[2]>> /\ x[2] \in 0..3
  <2> SUFFICES ASSUME NEW x \in FilesOf(k, src)
               PROVE  p(x) \in DOMAIN OrderOf(k) /\ OrderOf(k)[p(x)] = x[1]
    <3>1. DOMAIN OrderOf(k) \subseteq 1..7
      BY DEF OrderOf, WalkOrder, LadderOrder
    <3> QED
      BY <3>1, KeyShape
  <2>1. \E i \in DOMAIN OrderOf(k) : OrderOf(k)[i] = x[1]
    BY KeyShape
  <2> QED
    BY <2>1 DEF PlaceIn
<1>2. \A x : Place(k, x) = 4 * p(x) + x[2]
  BY DEF Place, OrderOf
<1> HIDE DEF p
<1>3. Place(k, key) \in 4..31
  BY <1>1, <1>2
<1>4. ASSUME NEW other \in FilesOf(k, src), Place(k, other) = Place(k, key)
      PROVE  other = key
  <2>1. 4 * p(other) + other[2] = 4 * p(key) + key[2]
    BY <1>2, <1>4
  <2>2. p(other) = p(key) /\ other[2] = key[2]
    BY <1>1, <2>1
  <2> QED
    BY <1>1, <2>2
<1> QED
  BY <1>3, <1>4

\* A job has finitely many files.
LEMMA FilesFinite ==
  ASSUME NEW src, NEW k \in {"mp4", "hls"}, NEW S \in SUBSET FilesOf(k, src)
  PROVE  IsFiniteSet(S) /\ Cardinality(S) \in Nat
<1> DEFINE f == [x \in S |-> Place(k, x)]
<1>1. f \in Injection(S, 4..31)
  <2>1. \A x \in S : Place(k, x) \in 4..31
    BY Places
  <2>2. \A x, y \in S : Place(k, x) = Place(k, y) => x = y
    BY Places
  <2> QED
    BY <2>1, <2>2 DEF Injection, IsInjective
<1>2. IsFiniteSet(4..31)
  <2>1. 4 \in Int /\ 31 \in Int
    OBVIOUS
  <2> QED
    BY ONLY <2>1, FS_Interval, Zenon
<1> HIDE DEF f
<1>3. IsFiniteSet(S)
  BY <1>1, <1>2, FS_Injection
<1> QED
  BY <1>3, FS_CardinalityType

\* A set of natural numbers with a bound has a greatest member.
LEMMA Greatest ==
  ASSUME NEW S \in SUBSET Nat, S # {}, NEW top \in Nat, \A x \in S : x <= top
  PROVE  \E x \in S : \A y \in S : y <= x
<1> DEFINE bounds == {b \in Nat : \A x \in S : x <= b}
<1>1. bounds # {} /\ bounds \subseteq Nat
  OBVIOUS
<1>2. PICK b \in bounds : \A c \in bounds : ~(<<c, b>> \in OpToRel(<, Nat))
  BY <1>1, NatLessThanWellFounded, WFMin
<1>3. \A c \in bounds : ~(c < b)
  BY <1>1, <1>2 DEF OpToRel
<1>4. b \in Nat /\ \A x \in S : x <= b
  BY <1>2
<1>5. CASE b \notin S
  <2>1. \A x \in S : x < b
    BY <1>4, <1>5
  <2>2. PICK x \in S : x < b /\ x \in Nat
    BY <2>1
  <2>3. b - 1 \in Nat
    BY <1>4, <2>2
  <2>4. \A y \in S : y <= b - 1
    BY <1>4, <2>1
  <2>5. b - 1 \in bounds
    BY <2>3, <2>4
  <2> QED
    BY <1>3, <1>4, <2>5
<1> QED
  BY <1>4, <1>5

\* The last of some files is one of them.
LEMMA LastIsGreatest ==
  ASSUME kind \in {"mp4", "hls"}, NEW page \in SUBSET Files, page # {}
  PROVE  /\ Last(page) \in Nat
         /\ \A k \in page : Place(kind, k) <= Last(page)
         /\ \E k \in page : Place(kind, k) = Last(page)
<1> DEFINE S == {Place(kind, k) : k \in page}
<1>1. S \in SUBSET Nat /\ S # {} /\ \A x \in S : x <= 31
  BY Places DEF Files
<1> HIDE DEF S
<1>2. \E x \in S : \A y \in S : x >= y
  <2>1. \E x \in S : \A y \in S : y <= x
    BY <1>1, Greatest
  <2> QED
    BY <1>1, <2>1
<1>3. Max(S) \in S /\ \A y \in S : Max(S) >= y
  BY <1>2 DEF Max
<1>4. Last(page) = Max(S)
  BY DEF Last, S
<1> QED
  BY <1>1, <1>3, <1>4 DEF S

\* What comes before a key.
LEMMA EarlierGrows ==
  ASSUME kind \in {"mp4", "hls"}, NEW S \in SUBSET Files, NEW k \in S, NEW l \in S
  PROVE  /\ Cardinality(Earlier(kind, S, k)) \in Nat
         /\ Cardinality(Earlier(kind, S, k)) < Cardinality(S)
         /\ Place(kind, k) <= Place(kind, l)
              => Cardinality(Earlier(kind, S, k)) <= Cardinality(Earlier(kind, S, l))
         /\ Place(kind, k) < Place(kind, l)
              => Cardinality(Earlier(kind, S, k)) < Cardinality(Earlier(kind, S, l))
<1> DEFINE before(x) == Earlier(kind, S, x)
<1>1. \A x \in S : Place(kind, x) \in Nat
  BY Places DEF Files
<1>2. \A T \in SUBSET S : IsFiniteSet(T) /\ Cardinality(T) \in Nat
  BY FilesFinite DEF Files
<1>3. before(k) \in SUBSET S /\ before(l) \in SUBSET S /\ k \notin before(k)
  BY <1>1 DEF Earlier
<1>4. ASSUME NEW T \in SUBSET S, NEW U \in SUBSET T
      PROVE  Cardinality(U) <= Cardinality(T) /\ (U # T => Cardinality(U) < Cardinality(T))
  <2>1. /\ IsFiniteSet(T) /\ Cardinality(T) \in Nat /\ Cardinality(U) \in Nat
    BY <1>2
  <2>2. Cardinality(U) <= Cardinality(T) /\ (Cardinality(T) = Cardinality(U) => T = U)
    BY <2>1, FS_Subset
  <2> QED
    BY <2>1, <2>2
<1>5. Place(kind, k) <= Place(kind, l) => before(k) \subseteq before(l)
  BY <1>1 DEF Earlier
<1>6. Place(kind, k) < Place(kind, l) => k \in before(l)
  BY <1>1 DEF Earlier
<1>7. Place(kind, k) < Place(kind, l) => Place(kind, k) <= Place(kind, l)
  BY <1>1
<1>8. before(k) # S
  BY <1>3
<1> HIDE DEF before
<1>9. /\ Cardinality(before(k)) \in Nat /\ Cardinality(before(k)) < Cardinality(S)
      /\ Place(kind, k) <= Place(kind, l) => Cardinality(before(k)) <= Cardinality(before(l))
      /\ Place(kind, k) < Place(kind, l) => Cardinality(before(k)) < Cardinality(before(l))
  BY <1>2, <1>3, <1>4, <1>5, <1>6, <1>7, <1>8
<1> QED
  BY <1>9 DEF before

\* The first n of some files: n at most, none later than one that is left,
\* and all of them when there are no more.
LEMMA FirstAreFirst ==
  ASSUME kind \in {"mp4", "hls"}, NEW S \in SUBSET Files, NEW n \in Nat
  PROVE  /\ FirstOf(kind, S, n) \subseteq S
         /\ IsFiniteSet(FirstOf(kind, S, n)) /\ Cardinality(FirstOf(kind, S, n)) <= n
         /\ \A k \in FirstOf(kind, S, n), l \in S \ FirstOf(kind, S, n) :
              Place(kind, k) < Place(kind, l)
<1> DEFINE T == FirstOf(kind, S, n)
           c == [k \in T |-> Cardinality(Earlier(kind, S, k)) + 1]
<1>1. T \in SUBSET S /\ \A k \in S : k \in T <=> Cardinality(Earlier(kind, S, k)) < n
  BY DEF FirstOf
<1>2. \A k, l \in S : Place(kind, k) \in Nat /\ (Place(kind, k) = Place(kind, l) => k = l)
  BY Places DEF Files
<1>3. ASSUME NEW k \in T, NEW l \in S \ T
      PROVE  Place(kind, k) < Place(kind, l)
  <2> SUFFICES ASSUME Place(kind, l) <= Place(kind, k) PROVE FALSE
    BY <1>1, <1>2
  <2>1. Cardinality(Earlier(kind, S, l)) <= Cardinality(Earlier(kind, S, k))
    BY <1>1, EarlierGrows
  <2>2. Cardinality(Earlier(kind, S, l)) \in Nat /\ Cardinality(Earlier(kind, S, k)) \in Nat
    BY <1>1, EarlierGrows
  <2> QED
    BY <1>1, <2>1, <2>2
<1>4. c \in Injection(T, 1..n)
  <2>1. \A k \in T : Cardinality(Earlier(kind, S, k)) \in Nat /\ Cardinality(Earlier(kind, S, k)) < n
    BY <1>1, EarlierGrows
  <2>2. ASSUME NEW k \in T, NEW l \in T, c[k] = c[l] PROVE k = l
    <3>1. Cardinality(Earlier(kind, S, k)) = Cardinality(Earlier(kind, S, l))
      BY <2>1, <2>2
    <3>2. ~(Place(kind, k) < Place(kind, l)) /\ ~(Place(kind, l) < Place(kind, k))
      BY <1>1, <2>1, <3>1, EarlierGrows
    <3> QED
      BY <1>1, <1>2, <3>2
  <2>3. c \in [T -> 1..n]
    BY <2>1
  <2> QED
    BY <2>2, <2>3 DEF Injection, IsInjective
<1>5. IsFiniteSet(1..n) /\ Cardinality(1..n) = n
  BY FS_Interval
<1> HIDE DEF c
<1>6. IsFiniteSet(T) /\ Cardinality(T) <= n
  BY <1>4, <1>5, FS_Injection
<1> QED
  BY <1>1, <1>3, <1>6

-----------------------------------------------------------------------------
(* The job.                                                                *)

\* Sizes as SizesTold wants them, in the record and on their way there.
Told(src, how, outs) ==
  \A o \in outs : \E r \in planRenditions(src, DefaultLadder) :
    /\ o.name \in {r.name, hlsDir(r.name)}
    /\ Near(o, scaleFilter(src, r.short))
    /\ how = "mp4" => SameSize(o, scaleFilter(src, r.short))

\* A write of the record that fails was stored, or was not.
LEMMA StoredOrNot ==
  ASSUME NEW row, NEW done, StoreFails(row, done)
  PROVE  record' \in {record, row} /\ faults' \in {faults, faults + 1}
  BY DEF StoreFails, Fails, Fault

\* A percentage is cut to itself, so what is reported is what is stored.
LEMMA ProgressMoves ==
  ASSUME NEW percent \in 0..100, NEW step, onProgress(percent, step)
  PROVE  \/ /\ Milestone(percent)
            /\ worker' = [worker EXCEPT !.pc = step, !.copy = [worker.copy EXCEPT !.progress = percent],
                                        !.last = percent]
            /\ \/ Succeeds(worker.late) /\ record' = [worker.copy EXCEPT !.progress = percent]
               \/ StoreFails([worker.copy EXCEPT !.progress = percent], worker.late)
         \/ /\ ~Milestone(percent)
            /\ worker' = [worker EXCEPT !.pc = step, !.copy = [worker.copy EXCEPT !.progress = percent]]
            /\ UNCHANGED <<record, faults>>
<1>1. Clamped(percent) = percent
  BY DEF Clamped
<1> QED
  BY <1>1 DEF onProgress

\* Records that have the fields in question.
IsRow(r)  == "outs" \in DOMAIN r
IsHand(w) == {"outs", "copy"} \subseteq DOMAIN w

\* The inductive invariant: an upload keeps its shape, and what the worker
\* holds is as well told as the record.
Honest ==
  /\ source \in Sources
  /\ IsRow(record) /\ IsHand(worker) /\ IsRow(worker.copy)
  /\ \A outs \in {record.outs, worker.copy.outs, worker.outs} : Told(source, kind, outs)

\* What Measure finds is told as it should be.
LEMMA OutputsTold ==
  ASSUME source \in Sources, NEW unread, kind = "mp4" => unread = {}
  PROVE  Told(source, kind, Outputs(unread))
<1>1. Sized(source)
  BY TranscodingAssumption DEF Sized
<1>2. ASSUME NEW r \in planRenditions(source, DefaultLadder), NEW name \in {r.name, hlsDir(r.name)},
             NEW size \in {actualDimensions(source, r.short), scaleFilter(source, r.short)}
      PROVE  /\ Output(name, size).name = name
             /\ Near(Output(name, size), scaleFilter(source, r.short))
  <2>1. Near(size, scaleFilter(source, r.short))
    BY <1>1, PlanFits, BelievedIsNear
  <2> QED
    BY <2>1 DEF Near, Output
<1>3. ASSUME NEW o \in Outputs(unread)
      PROVE  \E r \in planRenditions(source, DefaultLadder) :
               /\ o.name \in {r.name, hlsDir(r.name)}
               /\ Near(o, scaleFilter(source, r.short))
               /\ kind = "mp4" => SameSize(o, scaleFilter(source, r.short))
  <2>1. PICK r \in planRenditions(source, DefaultLadder) :
          o = Output(IF kind = "hls" THEN hlsDir(r.name) ELSE r.name,
                     IF r \in unread THEN actualDimensions(source, r.short)
                                     ELSE scaleFilter(source, r.short))
    BY DEF Outputs
  <2>2. o.name \in {r.name, hlsDir(r.name)} /\ Near(o, scaleFilter(source, r.short))
    BY <1>2, <2>1
  <2>3. kind = "mp4" => SameSize(o, scaleFilter(source, r.short))
    BY <2>1 DEF SameSize, Output
  <2> QED
    BY <2>2, <2>3
<1> QED
  BY <1>3 DEF Told

\* The upload stays as it is, and outputs stay, move, are measured or go.
LEMMA NextHonest ==
  ASSUME Honest, [Next]_vars
  PROVE  Honest'
<1> DEFINE Good(outs) == Told(source, kind, outs)
           Row(r)  == IsRow(r) /\ Good(r.outs)
           Hand(w) == IsHand(w) /\ Good(w.outs) /\ Row(w.copy)
<1> USE DEF upload, transcoding, Retention, Watch
<1>1. Row(record) /\ Hand(worker) /\ Row(NewRecord) /\ Hand(Queued) /\ Good({})
  BY DEF Honest, Told, NewRecord, Queued, IsRow, IsHand
<1>2. \A unread : (kind = "mp4" => unread = {}) => Good(Outputs(unread))
  BY OutputsTold DEF Honest
<1> HIDE DEF Good
<1>3. source' = source /\ kind' = kind /\ Row(record') /\ Hand(worker')
  <2> USE <1>1 DEF IsRow, IsHand
  <2>1. CASE UNCHANGED transcoding
    BY <2>1
  <2>2. CASE Begin
    <3> DEFINE marked == [record EXCEPT !.status = "processing", !.progress = 0]
    <3>1. Row(marked)
      OBVIOUS
    <3>2. /\ record' \in {record, marked}
          /\ worker' = [worker EXCEPT !.pc = "fetch", !.copy = marked] \/ Rest
          /\ source' = source /\ kind' = kind
      BY <2>2, StoredOrNot DEF Begin
    <3> HIDE DEF marked
    <3> QED
      BY <3>1, <3>2 DEF Rest
  <2>3. CASE JobTimeout \/ Fetch \/ Report \/ Exit \/ EndOfOutput \/ Put
    BY <2>3 DEF JobTimeout, Fetch, Report, Exit, EndOfOutput, Put, To
  <2>4. ASSUME NEW percent, NEW step, onProgress(percent, step)
        PROVE  Row(record') /\ Hand(worker')
    <3> DEFINE copy == [worker.copy EXCEPT !.progress = Clamped(percent)]
    <3>1. Row(copy)
      OBVIOUS
    <3>2. /\ record' \in {record, copy}
          /\ \/ worker' = [worker EXCEPT !.pc = step, !.copy = copy, !.last = Clamped(percent)]
             \/ worker' = [worker EXCEPT !.pc = step, !.copy = copy]
      BY <2>4, StoredOrNot DEF onProgress
    <3> HIDE DEF copy
    <3> QED
      BY <3>1, <3>2
  <2>5. CASE ReadLine \/ Wait
    BY <2>4, <2>5 DEF ReadLine, Wait, To
  <2>6. CASE Measure
    <3>1. UNCHANGED <<source, kind, record>>
      BY <2>6 DEF Measure
    <3>2. \/ To("fail")
          \/ \E unread : (kind = "mp4" => unread = {})
                         /\ worker' = [worker EXCEPT !.pc = "put", !.outs = Outputs(unread)]
      BY <2>6 DEF Measure
    <3> QED
      BY <1>2, <3>1, <3>2 DEF To
  <2>7. ASSUME NEW copy, Row(copy), End(copy)
        PROVE  source' = source /\ kind' = kind /\ Row(record') /\ Hand(worker')
    BY <2>7, StoredOrNot DEF End, Rest
  <2>8. CASE Finish
    <3>1. Row([status |-> "completed", progress |-> 100, outs |-> worker.outs, master |-> kind = "hls"])
      OBVIOUS
    <3> QED
      BY <2>8, <2>7, <3>1 DEF Finish
  <2>9. CASE Fail
    <3>1. Row([worker.copy EXCEPT !.status = "failed"])
      OBVIOUS
    <3> QED
      BY <2>9, <2>7, <3>1 DEF Fail
  <2>10. CASE Crash
    BY <2>10 DEF Crash, CrashAndRecover, Rest
  <2>11. CASE Players
    BY <2>11 DEF Players, GetMaster, GetLinked, GetRendition
  <2>12. CASE Sweep
    <3>1. record' = record \/ record' = [NewRecord EXCEPT !.status = "none"]
      BY <2>12, StoredOrNot DEF Sweep, SweepBegin, DeleteRendition, NextPage, Collect, Flush, SweepRecord
    <3>2. UNCHANGED <<source, kind, worker>>
      BY <2>12 DEF Sweep, SweepBegin, DeleteRendition, NextPage, Collect, Flush, SweepRecord
    <3> QED
      BY <3>1, <3>2
  <2> QED
    BY <2>1, <2>2, <2>3, <2>5, <2>6, <2>8, <2>9, <2>10, <2>11, <2>12
       DEF Next, vars, TranscodingNext, WorkerStep, FFmpegStep
<1> QED
  BY <1>3 DEF Honest, Good

-----------------------------------------------------------------------------
\* The invariant holds, for all sources, times, pages, faults and restarts.
LEMMA AlwaysHonest == Spec => []Honest
<1>1. Init => Honest
  BY DEF Init, TranscodingInit, Honest, NewRecord, Queued, IsRow, IsHand, Told
<1>2. Honest /\ [Next]_vars => Honest'
  BY NextHonest
<1> QED
  BY <1>1, <1>2, PTL DEF Spec

\* A plan never upscales and never distorts, whatever the size of the upload.
THEOREM ShapesKeptCorrect == Spec => []ShapesKept
<1>1. Honest => ShapesKept
  BY PlanKeepsShape, TranscodingAssumption DEF Honest, ShapesKept, Sized
<1> QED
  BY <1>1, AlwaysHonest, PTL

\* The sizes in the record of an MP4 job are those of its videos; those of an HLS
\* job are, or are the even number next to them, whatever could be measured and
\* whatever failed.
THEOREM SizesToldCorrect == Spec => []SizesTold
<1>1. Honest => SizesTold
  BY DEF Honest, Told, SizesTold
<1> QED
  BY <1>1, AlwaysHonest, PTL

-----------------------------------------------------------------------------
(* Types.                                                                  *)

Rows ==
  [status   : {"none", "pending", "processing", "completed", "failed"},
   progress : 0..100, outs : SUBSET Described, master : BOOLEAN]

Hands ==
  [pc   : {"queued", "idle", "fetch", "read", "wait", "measure", "put", "fail"},
   copy : Rows, last : 0..100, late : BOOLEAN,
   outs : SUBSET Described, sent : SUBSET Files]

Processes == [pc : {"off", "run", "ok", "bad"}, at : Nat, pipe : Seq(Nat)]

Sweepers ==
  [pc : {"idle", "files", "list"}, todo : SUBSET Files, batch : SUBSET Files,
   token : Nat, more : BOOLEAN]

Typed ==
  /\ source \in Sources /\ kind \in {"mp4", "hls"}
  /\ record \in Rows /\ worker \in Hands
  /\ ffmpeg \in Processes /\ Len(ffmpeg.pipe) <= PipeSize
  /\ bucket \subseteq Files /\ refused \subseteq Files
  /\ sweeper \in Sweepers
  /\ faults \in Nat /\ expired \in BOOLEAN

\* What a job of this kind is to have, and what the record and the worker name.
Planned == IF kind = "hls" THEN VariantDirs(source) ELSE Names(source)

Named(outs) == \A o \in outs : o.name \in Planned

\* Whose turn it is: a record is processed while a worker is busy with it, and
\* retention comes when it has ended.  No outputs are in it before.
Turns ==
  /\ worker.pc = "queued" => worker = Queued /\ record.status = "pending"
  /\ Busy => record.status = "processing"
  /\ record.status # "completed" => record.outs = {}
  /\ worker.copy.outs = {}
  /\ worker.copy.status = IF Busy THEN "processing" ELSE "pending"
  /\ Named(record.outs) /\ Named(worker.outs)
  /\ sweeper.pc # "idle" => record.status \in {"completed", "failed"} /\ expired = TRUE
  /\ sweeper.pc = "files" => kind = "mp4"
  /\ sweeper.pc = "list" => kind = "hls"
  /\ record.master = TRUE \/ worker.copy.master = TRUE => kind = "hls"
  /\ record.status = "none" => expired = TRUE

-----------------------------------------------------------------------------
(* Who changes what.                                                       *)

LEMMA Moves ==
  ASSUME [Next]_vars
  PROVE  /\ UNCHANGED <<source, kind>>
         /\ record' # record
              => Begin \/ ReadLine \/ Wait \/ Finish \/ Fail \/ SweepRecord \/ Crash
         /\ worker' # worker => WorkerStep \/ JobTimeout \/ Crash
         /\ ffmpeg' # ffmpeg => Fetch \/ Report \/ Exit \/ ReadLine \/ Crash
         /\ bucket' # bucket => Put \/ DeleteRendition \/ Flush
         /\ sweeper' # sweeper => Sweep \/ Crash
         /\ expired' # expired => SweepBegin
         /\ player' # player => Players
         /\ refused' # refused => Flush
<1>1. CASE UNCHANGED vars
  BY <1>1 DEF vars, transcoding, delivery
<1>2. CASE TranscodingNext /\ UNCHANGED delivery
  <2>1. UNCHANGED <<player, sweeper, expired, refused>>
    BY <1>2 DEF delivery
  <2>2. CASE Begin \/ Fetch \/ EndOfOutput \/ Measure
    BY <2>1, <2>2 DEF Begin, Fetch, EndOfOutput, Measure, upload, WorkerStep
  <2>3. CASE ReadLine \/ Wait
    BY <2>1, <2>3 DEF ReadLine, Wait, upload, WorkerStep
  <2>4. CASE Put \/ Finish \/ Fail
    BY <2>1, <2>4 DEF Put, Finish, Fail, End, upload, WorkerStep
  <2>5. CASE JobTimeout \/ Report \/ Exit
    BY <2>1, <2>5 DEF JobTimeout, Report, Exit, upload
  <2> QED
    BY <1>2, <2>2, <2>3, <2>4, <2>5 DEF TranscodingNext, WorkerStep, FFmpegStep
<1>3. CASE Players
  BY <1>3 DEF Players, GetMaster, GetLinked, GetRendition, Watch, transcoding
<1>4. CASE Sweep
  <2>1. CASE SweepBegin
    BY <1>4, <2>1 DEF SweepBegin, transcoding
  <2>2. CASE DeleteRendition \/ NextPage \/ Collect
    BY <1>4, <2>2 DEF DeleteRendition, NextPage, Collect, Retention
  <2>3. CASE Flush \/ SweepRecord
    BY <1>4, <2>3 DEF Flush, SweepRecord, Retention
  <2> QED
    BY <1>4, <2>1, <2>2, <2>3 DEF Sweep
<1>5. CASE Crash
  BY <1>5 DEF Crash, CrashAndRecover, upload
<1> QED
  BY <1>1, <1>2, <1>3, <1>4, <1>5 DEF Next

LEMMA SameFiles ==
  ASSUME [Next]_vars
  PROVE  Files' = Files /\ Hands' = Hands /\ Sweepers' = Sweepers /\ Planned' = Planned
<1>1. source' = source /\ kind' = kind
  BY Moves
<1>2. Files' = Files /\ Planned' = Planned
  BY <1>1 DEF Files, Planned
<1> QED
  BY <1>2 DEF Hands, Sweepers

\* Milestones are percentages.
LEMMA PercentTyped ==
  ASSUME source \in Sources, source.duration > 0, NEW t \in Nat
  PROVE  Percent(t) \in 0..100
<1>1. source.duration \in Nat \ {0}
  BY TranscodingAssumption
<1>2. 100 * t \in Nat
  OBVIOUS
<1>3. (100 * t) \div source.duration \in Nat
  BY <1>1, <1>2, Quotient, Zenon
<1>4. \A p \in Nat : Clamped(p) \in 0..100
  BY DEF Clamped
<1> QED
  BY <1>3, <1>4 DEF Percent

LEMMA ProgressTyped ==
  ASSUME record \in Rows, worker \in Hands, NEW percent \in 0..100,
         NEW step \in {"read", "measure"}, onProgress(percent, step)
  PROVE  record' \in Rows /\ worker' \in Hands
<1>1. worker.copy \in Rows
  BY DEF Hands
<1>2. [worker.copy EXCEPT !.progress = percent] \in Rows
  BY <1>1 DEF Rows
<1>3. worker' \in Hands
  <2> DEFINE copy == [worker.copy EXCEPT !.progress = percent]
  <2>1. ASSUME NEW w \in Hands PROVE [w EXCEPT !.pc = step] \in Hands
    BY DEF Hands
  <2>2. ASSUME NEW w \in Hands, NEW c \in Rows PROVE [w EXCEPT !.copy = c] \in Hands
    BY DEF Hands
  <2>3. ASSUME NEW w \in Hands PROVE [w EXCEPT !.last = percent] \in Hands
    BY DEF Hands
  <2>4. \/ worker' = [worker EXCEPT !.pc = step, !.copy = copy, !.last = percent]
        \/ worker' = [worker EXCEPT !.pc = step, !.copy = copy]
    BY ProgressMoves
  <2> HIDE DEF copy
  <2>5. [worker EXCEPT !.pc = step, !.copy = copy] \in Hands
    BY <1>2, <2>1, <2>2 DEF copy
  <2>6. [worker EXCEPT !.pc = step, !.copy = copy, !.last = percent] \in Hands
    BY <2>3, <2>5
  <2> QED
    BY <2>4, <2>5, <2>6
<1>4. record' = record \/ record' = [worker.copy EXCEPT !.progress = percent]
  BY ProgressMoves, StoredOrNot
<1> QED
  BY <1>2, <1>3, <1>4

\* What Measure finds has the names of the plan, and sizes.
LEMMA OutputsTyped ==
  ASSUME source \in Sources, kind \in {"mp4", "hls"}, NEW unread
  PROVE  /\ Outputs(unread) \subseteq Described
         /\ {o.name : o \in Outputs(unread)} = Planned
<1>1. Sized(source)
  BY TranscodingAssumption DEF Sized
<1> DEFINE plan == planRenditions(source, DefaultLadder)
           name(r) == IF kind = "hls" THEN hlsDir(r.name) ELSE r.name
           size(r) == IF r \in unread THEN actualDimensions(source, r.short)
                                      ELSE scaleFilter(source, r.short)
<1>2. ASSUME NEW r \in plan PROVE size(r).width \in Nat /\ size(r).height \in Nat
  <2>1. r.short \in Nat /\ ShortEdge(source) \in Nat \ {0} /\ LongEdge(source) \in Nat
    BY <1>1, PlanFits, Edges
  <2>2. LongEdge(source) * r.short \in Nat
    BY <2>1
  <2>3. /\ NearestEven(LongEdge(source) * r.short, ShortEdge(source)) \in Nat
        /\ roundEven(LongEdge(source) * r.short, ShortEdge(source)) \in Nat
    BY <2>1, <2>2, NearestEvenIsNear, RoundEvenIsNear, Zenon
  <2> QED
    BY <1>1, <2>1, <2>3, Sizes
<1>3. ASSUME NEW r \in plan
      PROVE  name(r) \in {"1080p", "720p", "480p", "360p", "source", "native"}
  <2>1. r.name \in Names(source)
    BY DEF Names
  <2> QED
    BY <2>1, PlanNames DEF hlsDir
<1>4. Outputs(unread) = {Output(name(r), size(r)) : r \in plan}
  BY DEF Outputs
<1>5. {name(r) : r \in plan} = Planned
  <2>1. CASE kind = "hls"
    BY <2>1 DEF Planned, VariantDirs, Names
  <2>2. CASE kind # "hls"
    BY <2>2 DEF Planned, Names
  <2> QED
    BY <2>1, <2>2
<1> HIDE DEF plan, name, size
<1>6. \A r \in plan : /\ Output(name(r), size(r)) \in Described
                      /\ Output(name(r), size(r)).name = name(r)
  BY <1>2, <1>3 DEF Output, Described
<1>7. Outputs(unread) \subseteq Described
  BY <1>4, <1>6
<1>8. {o.name : o \in Outputs(unread)} = {name(r) : r \in plan}
  BY <1>4, <1>6
<1> QED
  BY <1>5, <1>7, <1>8

LEMMA RecordTyped ==
  ASSUME Typed, [Next]_vars
  PROVE  record' \in Rows /\ worker' \in Hands
<1>t. /\ record \in Rows /\ worker \in Hands /\ worker.copy \in Rows
      /\ source \in Sources /\ kind \in {"mp4", "hls"} /\ ffmpeg.pipe \in Seq(Nat)
  BY DEF Typed, Hands, Processes
<1>n. NewRecord \in Rows /\ Queued \in Hands /\ [Queued EXCEPT !.pc = "idle"] \in Hands
  <2>1. NewRecord \in Rows
    BY DEF NewRecord, Rows
  <2>2. Queued \in Hands
    BY <2>1 DEF Queued, Hands
  <2>3. [Queued EXCEPT !.pc = "idle"] \in Hands
    BY <2>2 DEF Hands
  <2> QED
    BY <2>1, <2>2, <2>3
<1>1. CASE Begin
  <2>1. [record EXCEPT !.status = "processing", !.progress = 0] \in Rows
    <3>1. [record EXCEPT !.status = "processing"] \in Rows
      BY <1>t DEF Rows
    <3>2. ASSUME NEW row \in Rows, NEW p \in 0..100 PROVE [row EXCEPT !.progress = p] \in Rows
      BY DEF Rows
    <3>3. 0 \in 0..100
      OBVIOUS
    <3> QED
      BY <3>1, <3>2, <3>3
  <2>2. record' \in Rows
    BY <1>t, <1>1, <2>1, StoredOrNot DEF Begin
  <2>3. \/ \E copy \in Rows : worker' = [worker EXCEPT !.pc = "fetch", !.copy = copy]
        \/ worker' = [Queued EXCEPT !.pc = "idle"]
    BY <1>1, <2>1 DEF Begin, Rest
  <2> QED
    BY <1>t, <1>n, <2>2, <2>3 DEF Hands
<1>2. CASE JobTimeout \/ Fetch \/ EndOfOutput
  <2>1. record' = record
    BY <1>2 DEF JobTimeout, Fetch, EndOfOutput
  <2>2. [worker EXCEPT !.late = TRUE] \in Hands
    BY <1>t DEF Hands
  <2>3. \A pc \in {"read", "wait", "fail"} : [worker EXCEPT !.pc = pc] \in Hands
    BY <1>t DEF Hands
  <2>4. \/ worker' = [worker EXCEPT !.late = TRUE]
        \/ \E pc \in {"read", "wait", "fail"} : worker' = [worker EXCEPT !.pc = pc]
    BY <1>2 DEF JobTimeout, Fetch, EndOfOutput, To
  <2> QED
    BY <1>t, <2>1, <2>2, <2>3, <2>4
<1>3. CASE ReadLine
  <2>1. CASE source.duration = 0 /\ UNCHANGED <<record, faults, worker>>
    BY <1>t, <2>1
  <2>2. CASE source.duration > 0 /\ onProgress(Percent(Head(ffmpeg.pipe)), "read")
    <3>1. Head(ffmpeg.pipe) \in Nat
      BY <1>t, <1>3 DEF ReadLine
    <3>2. Percent(Head(ffmpeg.pipe)) \in 0..100
      BY <1>t, <2>2, <3>1, PercentTyped
    <3> QED
      BY <1>t, <2>2, <3>2, ProgressTyped
  <2> QED
    BY <1>3, <2>1, <2>2 DEF ReadLine
<1>4. CASE Wait
  <2>1. CASE onProgress(100, "measure")
    <3>1. 100 \in 0..100
      OBVIOUS
    <3> QED
      BY <1>t, <2>1, <3>1, ProgressTyped
  <2>2. CASE To("fail") /\ UNCHANGED <<record, faults>>
    BY <1>t, <2>2 DEF To, Hands
  <2> QED
    BY <1>4, <2>1, <2>2 DEF Wait
<1>5. CASE Measure
  <2>1. record' = record
    BY <1>5 DEF Measure
  <2>2. \/ worker' = [worker EXCEPT !.pc = "fail"]
        \/ \E unread : worker' = [worker EXCEPT !.pc = "put", !.outs = Outputs(unread)]
    BY <1>5 DEF Measure, To
  <2>3. \A unread : Outputs(unread) \in SUBSET Described
    BY <1>t, OutputsTyped
  <2>4. [worker EXCEPT !.pc = "fail"] \in Hands
    BY <1>t DEF Hands
  <2>5. ASSUME NEW outs \in SUBSET Described
        PROVE  [worker EXCEPT !.pc = "put", !.outs = outs] \in Hands
    BY <1>t DEF Hands
  <2> QED
    BY <1>t, <2>1, <2>2, <2>3, <2>4, <2>5
<1>6. CASE Put
  <2>1. record' = record
    BY <1>6 DEF Put
  <2>2. \/ worker' = [worker EXCEPT !.pc = "fail"]
        \/ \E key \in Files : worker' = [worker EXCEPT !.sent = @ \cup {key}]
    BY <1>6 DEF Put, To, FirstOf
  <2> QED
    BY <1>t, <2>1, <2>2 DEF Hands
<1>7. CASE Finish \/ Fail
  <2>1. ASSUME NEW copy \in Rows, End(copy) PROVE record' \in Rows /\ worker' \in Hands
    BY <1>t, <1>n, <2>1, StoredOrNot DEF End, Rest
  <2>2. [worker.copy EXCEPT !.status = "failed"] \in Rows
    BY <1>t DEF Rows
  <2>3. [status |-> "completed", progress |-> 100, outs |-> worker.outs,
         master |-> kind = "hls"] \in Rows
    BY <1>t DEF Rows, Hands
  <2> QED
    BY <1>7, <2>1, <2>2, <2>3 DEF Finish, Fail
<1>8. CASE SweepRecord
  <2>1. [NewRecord EXCEPT !.status = "none"] \in Rows
    BY <1>n DEF Rows
  <2> QED
    BY <1>t, <1>8, <2>1, StoredOrNot DEF SweepRecord, Retention
<1>9. CASE Crash
  <2>1. [record EXCEPT !.status = "pending"] \in Rows
    BY <1>t DEF Rows
  <2> QED
    BY <1>t, <1>n, <1>9, <2>1 DEF Crash, CrashAndRecover, Rest
<1>10. CASE UNCHANGED <<record, worker>>
  BY <1>t, <1>10
<1> QED
  BY <1>1, <1>2, <1>3, <1>4, <1>5, <1>6, <1>7, <1>8, <1>9, <1>10, Moves DEF WorkerStep

LEMMA ProcessTyped ==
  ASSUME Typed, [Next]_vars
  PROVE  ffmpeg' \in Processes /\ Len(ffmpeg'.pipe) <= PipeSize
<1>t. /\ ffmpeg \in Processes /\ ffmpeg.pipe \in Seq(Nat) /\ Len(ffmpeg.pipe) <= PipeSize
      /\ PipeSize \in Nat \ {0} /\ ReportTimes \subseteq Nat
  BY TranscodingAssumption DEF Typed, Processes
<1>0. NoFFmpeg \in Processes /\ NoFFmpeg.pipe = <<>>
  BY DEF NoFFmpeg, Processes
<1>1. CASE Fetch \/ Crash
  <2>1. \/ ffmpeg' = ffmpeg \/ ffmpeg' = NoFFmpeg
        \/ ffmpeg' = [NoFFmpeg EXCEPT !.pc = "run"]
    BY <1>1 DEF Fetch, Crash, CrashAndRecover
  <2>2. [NoFFmpeg EXCEPT !.pc = "run"] \in Processes /\ [NoFFmpeg EXCEPT !.pc = "run"].pipe = <<>>
    BY <1>0 DEF Processes
  <2>3. \A pipe : pipe = <<>> => Len(pipe) = 0
    OBVIOUS
  <2>4. \A p : p.pipe = <<>> => Len(p.pipe) <= PipeSize
    BY <1>t, <2>3
  <2> QED
    BY <1>t, <1>0, <2>1, <2>2, <2>4
<1>2. CASE Report
  <2>1. PICK t \in ReportTimes : ffmpeg' = [ffmpeg EXCEPT !.at = t, !.pipe = Append(@, t)]
    BY <1>2 DEF Report
  <2>2. Append(ffmpeg.pipe, t) \in Seq(Nat) /\ Len(Append(ffmpeg.pipe, t)) = Len(ffmpeg.pipe) + 1
    BY <1>t
  <2>3. Len(ffmpeg.pipe) < PipeSize
    BY <1>2 DEF Report, Room
  <2>4. ffmpeg' \in Processes /\ ffmpeg'.pipe = Append(ffmpeg.pipe, t)
    BY <1>t, <2>1, <2>2 DEF Processes
  <2> QED
    BY <1>t, <2>2, <2>3, <2>4
<1>3. CASE Exit
  <2>1. \E pc \in {"ok", "bad"} : ffmpeg' = [ffmpeg EXCEPT !.pc = pc]
    BY <1>3 DEF Exit
  <2> QED
    BY <1>t, <2>1 DEF Processes
<1>4. CASE ReadLine
  <2>1. ffmpeg' = [ffmpeg EXCEPT !.pipe = Tail(@)] /\ ffmpeg.pipe # <<>>
    BY <1>4 DEF ReadLine
  <2>2. Tail(ffmpeg.pipe) \in Seq(Nat) /\ Len(Tail(ffmpeg.pipe)) = Len(ffmpeg.pipe) - 1
    BY <1>t, <2>1
  <2>3. ffmpeg' \in Processes /\ ffmpeg'.pipe = Tail(ffmpeg.pipe)
    BY <1>t, <2>1, <2>2 DEF Processes
  <2> QED
    BY <1>t, <2>2, <2>3
<1> QED
  BY <1>t, <1>1, <1>2, <1>3, <1>4, Moves

LEMMA BucketTyped ==
  ASSUME Typed, [Next]_vars
  PROVE  /\ bucket' \subseteq Files /\ refused' \subseteq Files
         /\ faults' \in Nat /\ expired' \in BOOLEAN
         /\ faults' \in {faults, faults + 1}
<1>t. /\ bucket \subseteq Files /\ refused \subseteq Files
      /\ sweeper.batch \subseteq Files
  BY DEF Typed, Sweepers
<1>1. bucket' \subseteq Files
  <2>1. CASE Put
    <3>1. \E key \in Files : bucket' \in {bucket, bucket \cup {key}}
      BY <2>1 DEF Put, FirstOf
    <3> QED
      BY <1>t, <3>1
  <2>2. CASE DeleteRendition
    BY <1>t, <2>2 DEF DeleteRendition
  <2>3. CASE Flush
    BY <1>t, <2>3 DEF Flush
  <2> QED
    BY <1>t, <2>1, <2>2, <2>3, Moves
<1>2. refused' \subseteq Files
  <2>1. CASE Flush
    BY <1>t, <2>1 DEF Flush
  <2> QED
    BY <1>t, <2>1, Moves
<1>3. expired' \in BOOLEAN
  BY Moves DEF SweepBegin, Typed
<1>4. faults' \in {faults, faults + 1}
  <2> USE DEF Succeeds, Fails, Fault
  <2>1. CASE TranscodingNext
    <3>1. CASE Begin \/ JobTimeout \/ Fetch \/ Report \/ Exit \/ EndOfOutput
      BY <3>1, StoredOrNot DEF Begin, JobTimeout, Fetch, Report, Exit, EndOfOutput
    <3>2. ASSUME NEW percent, NEW step, onProgress(percent, step)
          PROVE  faults' \in {faults, faults + 1}
      BY <3>2, StoredOrNot DEF onProgress
    <3>3. CASE ReadLine \/ Wait \/ Measure \/ Put
      BY <3>2, <3>3 DEF ReadLine, Wait, Measure, Put
    <3>4. CASE Finish \/ Fail
      BY <3>4, StoredOrNot DEF Finish, Fail, End
    <3> QED
      BY <2>1, <3>1, <3>3, <3>4 DEF TranscodingNext, WorkerStep, FFmpegStep
  <2>2. CASE Players \/ UNCHANGED vars
    BY <2>2 DEF Players, GetMaster, GetLinked, GetRendition, Watch, vars, transcoding
  <2>3. CASE Sweep
    BY <2>3, StoredOrNot DEF Sweep, SweepBegin, DeleteRendition, NextPage, Collect, Flush,
       SweepRecord, transcoding
  <2>4. CASE Crash
    BY <2>4 DEF Crash, CrashAndRecover
  <2> QED
    BY <2>1, <2>2, <2>3, <2>4 DEF Next
<1>5. faults' \in Nat
  BY <1>4 DEF Typed
<1> QED
  BY <1>1, <1>2, <1>3, <1>4, <1>5

\* What the sweeper takes and gives up.
LEMMA SweeperTyped ==
  ASSUME Typed, Turns, [Next]_vars
  PROVE  sweeper' \in Sweepers
<1>t. /\ sweeper \in Sweepers /\ bucket \subseteq Files /\ kind \in {"mp4", "hls"}
  BY DEF Typed
<1>0. IdleSweeper \in Sweepers
  BY DEF IdleSweeper, Sweepers
<1>1. CASE SweepBegin
  <2>1. CASE kind = "hls" \/ record.master
    <3>1. sweeper' = [IdleSweeper EXCEPT !.pc = "list"]
      BY <1>1, <2>1 DEF SweepBegin
    <3> QED
      BY <1>0, <3>1 DEF Sweepers
  <2>2. CASE ~(kind = "hls" \/ record.master)
    <3>1. sweeper' = [IdleSweeper EXCEPT !.pc = "files", !.todo = {Mp4(o.name) : o \in record.outs}]
      BY <1>1, <2>2 DEF SweepBegin
    <3>2. kind = "mp4" /\ \A o \in record.outs : o.name \in Names(source)
      BY <1>t, <2>2 DEF Turns, Named, Planned
    <3>3. {Mp4(o.name) : o \in record.outs} \subseteq Files
      BY <3>2 DEF Files, FilesOf, Mp4Files
    <3> QED
      BY <1>0, <3>1, <3>3 DEF Sweepers
  <2> QED
    BY <2>1, <2>2
<1>2. CASE DeleteRendition
  BY <1>t, <1>0, <1>2 DEF DeleteRendition, GiveUp, Sweepers
<1>3. CASE NextPage
  <2> DEFINE page == FirstOf(kind, After(sweeper.token), PageSize)
             token == IF page = {} THEN sweeper.token ELSE Last(page)
             more == page # After(sweeper.token)
  <2>1. page \subseteq Files
    BY <1>t DEF FirstOf, After
  <2>2. token \in Nat
    BY <1>t, <2>1, LastIsGreatest DEF Sweepers
  <2>3. \/ sweeper' = IdleSweeper
        \/ sweeper' = [sweeper EXCEPT !.todo = page, !.more = more, !.token = token]
    BY <1>3 DEF NextPage, GiveUp
  <2>4. more \in BOOLEAN
    OBVIOUS
  <2> HIDE DEF page, token, more
  <2> QED
    BY <1>t, <1>0, <2>1, <2>2, <2>3, <2>4 DEF Sweepers
<1>4. CASE Collect
  <2>1. PICK some \in SUBSET sweeper.todo :
          sweeper' = [sweeper EXCEPT !.todo = @ \ some, !.batch = @ \cup some]
    BY <1>4 DEF Collect, FirstOf
  <2> QED
    BY <1>t, <2>1 DEF Sweepers
<1>5. CASE Flush
  BY <1>t, <1>0, <1>5 DEF Flush, GiveUp, Sweepers
<1>6. CASE SweepRecord \/ Crash
  BY <1>0, <1>6 DEF SweepRecord, Crash, GiveUp
<1> QED
  BY <1>t, <1>1, <1>2, <1>3, <1>4, <1>5, <1>6, Moves DEF Sweep

LEMMA KeepsTyped ==
  ASSUME Typed, Turns, [Next]_vars
  PROVE  Typed'
<1>1. source' = source /\ kind' = kind /\ Files' = Files /\ Hands' = Hands /\ Sweepers' = Sweepers
  BY Moves, SameFiles
<1>2. record' \in Rows /\ worker' \in Hands
  BY RecordTyped
<1>3. ffmpeg' \in Processes /\ Len(ffmpeg'.pipe) <= PipeSize
  BY ProcessTyped
<1>4. bucket' \subseteq Files /\ refused' \subseteq Files /\ faults' \in Nat /\ expired' \in BOOLEAN
  BY BucketTyped
<1>5. sweeper' \in Sweepers
  BY SweeperTyped
<1>6. source \in Sources /\ kind \in {"mp4", "hls"}
  BY DEF Typed
<1> QED
  BY <1>1, <1>2, <1>3, <1>4, <1>5, <1>6 DEF Typed

-----------------------------------------------------------------------------
(* Turns.                                                                  *)

LEMMA KeepsTurns ==
  ASSUME Typed, Turns, [Next]_vars
  PROVE  Turns'
<1>p. Planned' = Planned /\ kind' = kind /\ source' = source
  BY Moves, SameFiles
<1>n. \A outs : Named(outs)' <=> Named(outs)
  BY <1>p DEF Named
<1>t. /\ record \in Rows /\ worker \in Hands /\ sweeper \in Sweepers /\ kind \in {"mp4", "hls"}
      /\ worker.copy \in Rows
  BY DEF Typed, Hands
<1>o. Named({}) /\ \A unread : Named(Outputs(unread))
  <2>1. source \in Sources /\ kind \in {"mp4", "hls"}
    BY DEF Typed
  <2>2. ASSUME NEW unread PROVE Named(Outputs(unread))
    <3>1. {o.name : o \in Outputs(unread)} = Planned
      BY <2>1, OutputsTyped
    <3> QED
      BY <3>1 DEF Named
  <2>3. Named({})
    BY DEF Named
  <2> QED
    BY <2>2, <2>3
<1>i. /\ [Queued EXCEPT !.pc = "idle"].pc = "idle"
      /\ [Queued EXCEPT !.pc = "idle"].copy = NewRecord
      /\ [Queued EXCEPT !.pc = "idle"].outs = {}
  BY DEF Queued
<1>r. /\ NewRecord.status = "pending" /\ NewRecord.outs = {} /\ NewRecord.master = FALSE
      /\ Queued.pc = "queued" /\ Queued.copy = NewRecord /\ Queued.outs = {}
      /\ IdleSweeper.pc = "idle"
  BY DEF NewRecord, Queued, IdleSweeper
\* A worker that rests.
<1>w. ASSUME Rest, sweeper'.pc # "idle" => record'.status \in {"completed", "failed"} /\ expired' = TRUE,
             sweeper'.pc = "files" => kind = "mp4", sweeper'.pc = "list" => kind = "hls",
             record'.status # "completed" => record'.outs = {}, Named(record'.outs),
             record'.master = TRUE => kind = "hls", record'.status = "none" => expired' = TRUE
      PROVE  Turns'
  <2>1. worker'.pc = "idle" /\ worker'.copy = NewRecord /\ worker'.outs = {}
    BY <1>w, <1>i DEF Rest
  <2>2. Named(worker.outs)' /\ Named(record.outs)'
    BY <1>w, <1>n, <1>o, <2>1
  <2> QED
    BY <1>p, <1>w, <1>r, <2>1, <2>2 DEF Turns, Busy
<1>1. CASE TranscodingNext /\ UNCHANGED delivery
  <2>0. UNCHANGED <<player, sweeper, expired, refused>>
    BY <1>1 DEF delivery
  <2>1. CASE Begin
    <3>0. worker = Queued /\ record.status = "pending" /\ record.outs = {} /\ sweeper.pc = "idle"
      BY <2>1 DEF Begin, On, Turns
    <3>1. CASE Rest /\ record' \in {record, [record EXCEPT !.status = "processing", !.progress = 0]}
      <4>1. /\ record'.status \in {"pending", "processing"} /\ record'.outs = {}
            /\ record'.master = record.master
        BY <1>t, <3>0, <3>1 DEF Rows
      <4> QED
        BY <1>o, <1>w, <2>0, <3>0, <3>1, <4>1 DEF Turns
    <3>2. CASE /\ record' = [record EXCEPT !.status = "processing", !.progress = 0]
               /\ worker' = [worker EXCEPT !.pc = "fetch", !.copy = record']
      <4>1. /\ record'.status = "processing" /\ record'.outs = {} /\ record'.master = record.master
        BY <1>t, <3>0, <3>2 DEF Rows
      <4>2. /\ worker'.pc = "fetch" /\ worker'.copy = record' /\ worker'.outs = {}
        BY <1>t, <1>r, <3>0, <3>2 DEF Hands
      <4> QED
        BY <1>n, <1>o, <1>p, <2>0, <3>0, <4>1, <4>2 DEF Turns, Busy
    <3> QED
      BY <2>1, <3>1, <3>2, StoredOrNot DEF Begin
  <2>2. CASE JobTimeout \/ Fetch \/ EndOfOutput \/ Put
    <3>1. record' = record /\ Busy
      BY <2>2 DEF JobTimeout, Fetch, EndOfOutput, Put, On, Busy
    <3>2. /\ worker'.copy = worker.copy /\ worker'.outs = worker.outs
          /\ worker'.pc \in {worker.pc, "read", "wait", "fail"}
      BY <1>t, <2>2 DEF JobTimeout, Fetch, EndOfOutput, Put, To, Hands
    <3>3. worker'.pc # "queued"
      BY <3>1, <3>2 DEF Busy
    <3> QED
      BY <1>n, <1>p, <2>0, <3>1, <3>2, <3>3 DEF Turns, Busy
  <2>3. ASSUME Busy, NEW reported, NEW step \in {"read", "measure"}, onProgress(reported, step)
        PROVE  Turns'
    <3>1. /\ worker'.pc = step
          /\ worker'.copy = [worker.copy EXCEPT !.progress = Clamped(reported)]
          /\ worker'.outs = worker.outs
      BY <1>t, <2>3 DEF onProgress, Hands
    <3>2. /\ worker'.copy.outs = worker.copy.outs /\ worker'.copy.status = worker.copy.status
          /\ worker'.copy.master = worker.copy.master
      BY <1>t, <3>1 DEF Rows
    <3>3. record' = record \/ record' = worker'.copy
      BY <2>3, <3>1, StoredOrNot DEF onProgress
    <3>4. /\ record.status = "processing" /\ record.outs = {} /\ sweeper.pc = "idle"
          /\ worker'.pc \notin {"queued", "idle"} /\ Named(worker.outs)
      BY <1>t, <2>3, <3>1 DEF Turns
    <3>5. worker'.copy.outs = {} /\ worker'.copy.status = "processing"
      BY <2>3, <3>2 DEF Turns
    <3>6. /\ record'.status = "processing" /\ record'.outs = {}
          /\ record'.master \in {record.master, worker.copy.master}
      BY <3>2, <3>3, <3>4, <3>5
    <3>7. Named(record.outs)' /\ Named(worker.outs)'
      BY <1>n, <1>o, <3>1, <3>4, <3>6
    <3>8. record.master = TRUE \/ worker.copy.master = TRUE => kind = "hls"
      BY DEF Turns
    <3> QED
      BY <1>p, <2>0, <3>2, <3>4, <3>5, <3>6, <3>7, <3>8 DEF Turns, Busy
  <2>4. CASE ReadLine \/ Wait
    <3>1. CASE UNCHANGED <<record, worker>>
      BY <1>n, <1>p, <2>0, <3>1 DEF Turns, Busy
    <3>2. CASE To("fail") /\ UNCHANGED <<record, faults>>
      <4>1. worker'.copy = worker.copy /\ worker'.outs = worker.outs /\ worker'.pc = "fail"
        BY <1>t, <3>2 DEF To, Hands
      <4>2. Busy
        BY <2>4 DEF ReadLine, Wait, On, Busy
      <4> QED
        BY <1>n, <1>p, <2>0, <3>2, <4>1, <4>2 DEF Turns, Busy
    <3>3. Busy
      BY <2>4 DEF ReadLine, Wait, On, Busy
    <3> QED
      BY <2>3, <2>4, <3>1, <3>2, <3>3 DEF ReadLine, Wait
  <2>5. CASE Measure
    <3>1. record' = record /\ Busy
      BY <2>5 DEF Measure, On, Busy
    <3>2. \/ worker' = [worker EXCEPT !.pc = "fail"]
          \/ \E unread : worker' = [worker EXCEPT !.pc = "put", !.outs = Outputs(unread)]
      BY <2>5 DEF Measure, To
    <3>3. /\ worker'.copy = worker.copy /\ worker'.pc \in {"fail", "put"}
          /\ worker'.outs = worker.outs \/ \E unread : worker'.outs = Outputs(unread)
      BY <1>t, <3>2 DEF Hands
    <3>4. Named(worker'.outs)
      BY <1>o, <3>3 DEF Turns
    <3> QED
      BY <1>n, <1>p, <2>0, <3>1, <3>3, <3>4 DEF Turns, Busy
  <2>6. CASE Finish
    <3>1. record.status = "processing" /\ sweeper.pc = "idle" /\ Named(worker.outs)
      BY <2>6 DEF Finish, On, Turns, Busy
    <3>2. \/ record' = record
          \/ /\ record'.status = "completed" /\ record'.outs = worker.outs
             /\ record'.master = (kind = "hls")
      <4>1. \/ record' = record
            \/ record' = [status |-> "completed", progress |-> 100, outs |-> worker.outs,
                          master |-> kind = "hls"]
        BY <2>6, StoredOrNot DEF Finish, End
      <4> QED
        BY <4>1
    <3>3. Rest
      BY <2>6 DEF Finish, End
    <3> QED
      BY <1>w, <2>0, <3>1, <3>2, <3>3 DEF Turns
  <2>7. CASE Fail
    <3>1. record.status = "processing" /\ sweeper.pc = "idle"
      BY <2>7 DEF Fail, On, Turns, Busy
    <3>2. record' = record \/ record' = [worker.copy EXCEPT !.status = "failed"]
      BY <2>7, StoredOrNot DEF Fail, End
    <3>3. \/ record' = record
          \/ /\ record'.status = "failed" /\ record'.outs = worker.copy.outs
             /\ record'.master = worker.copy.master
      BY <1>t, <3>2 DEF Rows
    <3>4. Rest
      BY <2>7 DEF Fail, End
    <3>5. /\ record'.status \in {"processing", "failed"} /\ record'.outs = {}
          /\ record'.master \in {record.master, worker.copy.master}
      BY <3>1, <3>3 DEF Turns
    <3>6. record'.master = TRUE => kind = "hls"
      BY <3>5 DEF Turns
    <3> QED
      BY <1>o, <1>w, <2>0, <3>1, <3>4, <3>5, <3>6
  <2>8. CASE Report \/ Exit
    <3>1. UNCHANGED <<record, worker>>
      BY <2>8 DEF Report, Exit
    <3> QED
      BY <1>n, <1>p, <2>0, <3>1 DEF Turns, Busy
  <2> QED
    BY <1>1, <2>1, <2>2, <2>4, <2>5, <2>6, <2>7, <2>8 DEF TranscodingNext, WorkerStep, FFmpegStep
<1>2. CASE Players \/ UNCHANGED vars
  <2>1. UNCHANGED <<record, worker, sweeper, expired>>
    BY <1>2 DEF Players, GetMaster, GetLinked, GetRendition, Watch, vars, transcoding, delivery
  <2> QED
    BY <1>n, <1>p, <2>1 DEF Turns, Busy
<1>3. CASE SweepBegin
  <2>1. /\ UNCHANGED <<record, worker>> /\ expired' = TRUE
        /\ record.status \in {"completed", "failed"}
    BY <1>3 DEF SweepBegin, transcoding
  <2>2. sweeper'.pc = IF kind = "hls" THEN "list" ELSE "files"
    <3>1. CASE kind = "hls" \/ record.master
      <4>1. sweeper'.pc = "list"
        BY <1>3, <1>r, <3>1 DEF SweepBegin, IdleSweeper
      <4>2. kind = "hls"
        BY <1>t, <3>1 DEF Turns
      <4> QED
        BY <4>1, <4>2
    <3>2. CASE ~(kind = "hls" \/ record.master)
      BY <1>3, <3>2 DEF SweepBegin, IdleSweeper
    <3> QED
      BY <3>1, <3>2
  <2> QED
    BY <1>n, <1>p, <1>t, <2>1, <2>2 DEF Turns, Busy
<1>4. CASE DeleteRendition \/ NextPage \/ Collect \/ Flush
  <2>1. UNCHANGED <<record, worker, expired>>
    BY <1>4 DEF DeleteRendition, NextPage, Collect, Flush, Retention
  <2>2. sweeper'.pc \in {sweeper.pc, "idle"}
    BY <1>4, <1>t, <1>r DEF DeleteRendition, NextPage, Collect, Flush, GiveUp, Sweepers
  <2> QED
    BY <1>n, <1>p, <2>1, <2>2 DEF Turns, Busy
<1>5. CASE SweepRecord
  <2>1. /\ UNCHANGED <<worker, expired>> /\ sweeper' = IdleSweeper /\ sweeper.pc # "idle"
        /\ record' = record \/ record' = [NewRecord EXCEPT !.status = "none"]
    BY <1>5, StoredOrNot DEF SweepRecord, Retention, GiveUp, At
  <2>2. \/ record' = record
        \/ record'.status = "none" /\ record'.outs = {} /\ record'.master = FALSE
    BY <2>1 DEF NewRecord
  <2>3. worker.pc = "idle" /\ expired = TRUE
    BY <1>t, <2>1 DEF Turns, Busy
  <2> QED
    BY <1>n, <1>o, <1>p, <1>r, <2>1, <2>2, <2>3 DEF Turns, Busy
<1>6. CASE Crash
  <2>1. sweeper' = IdleSweeper /\ expired' = expired
    BY <1>6 DEF Crash, GiveUp
  <2>2. CASE record.status \in {"pending", "processing"}
    <3>1. record' = [record EXCEPT !.status = "pending"] /\ worker' = Queued
      BY <1>6, <2>2 DEF Crash, CrashAndRecover
    <3>2. record'.status = "pending" /\ record'.outs = record.outs /\ record'.master = record.master
      BY <1>t, <3>1 DEF Rows
    <3>3. record.outs = {}
      BY <2>2 DEF Turns
    <3> QED
      BY <1>n, <1>o, <1>p, <1>r, <2>1, <3>1, <3>2, <3>3 DEF Turns, Busy
  <2>3. CASE record.status \notin {"pending", "processing"}
    <3>1. record' = record /\ Rest
      BY <1>6, <2>3 DEF Crash, CrashAndRecover
    <3> QED
      BY <1>w, <1>r, <2>1, <3>1 DEF Turns
  <2> QED
    BY <2>2, <2>3
<1> QED
  BY <1>1, <1>2, <1>3, <1>4, <1>5, <1>6 DEF Next, Sweep

\* What is written to the record.
LEMMA Writes ==
  ASSUME Typed, Turns, [Next]_vars
  PROVE  \/ record' = record
         \/ /\ Finish
            /\ record' = [status |-> "completed", progress |-> 100, outs |-> worker.outs,
                          master |-> kind = "hls"]
         \/ SweepRecord /\ record'.status = "none"
         \/ record'.status \in {"pending", "processing", "failed"}
<1>t. record \in Rows /\ worker.copy \in Rows /\ worker.copy.status \in {"pending", "processing"}
  BY DEF Typed, Hands, Turns
<1>1. CASE Begin
  <2>1. record' = record \/ record' = [record EXCEPT !.status = "processing", !.progress = 0]
    BY <1>1, StoredOrNot DEF Begin
  <2> QED
    BY <1>t, <2>1 DEF Rows
<1>2. CASE ReadLine \/ Wait
  <2>1. record' = record \/ \E percent : record' = [worker.copy EXCEPT !.progress = percent]
    <3>1. ASSUME NEW reported, NEW step, onProgress(reported, step)
          PROVE  \/ record' = record
                 \/ record' = [worker.copy EXCEPT !.progress = Clamped(reported)]
      BY <3>1, StoredOrNot DEF onProgress
    <3> QED
      BY <1>2, <3>1 DEF ReadLine, Wait
  <2>2. \A percent : [worker.copy EXCEPT !.progress = percent].status = worker.copy.status
    BY <1>t DEF Rows
  <2> QED
    BY <1>t, <2>1, <2>2
<1>3. CASE Finish
  BY <1>3, StoredOrNot DEF Finish, End
<1>4. CASE Fail
  <2>1. record' = record \/ record' = [worker.copy EXCEPT !.status = "failed"]
    BY <1>4, StoredOrNot DEF Fail, End
  <2> QED
    BY <1>t, <2>1 DEF Rows
<1>5. CASE SweepRecord
  <2>1. record' = record \/ record' = [NewRecord EXCEPT !.status = "none"]
    BY <1>5, StoredOrNot DEF SweepRecord
  <2> QED
    BY <1>5, <2>1 DEF NewRecord
<1>6. CASE Crash
  <2>1. record' = record \/ record' = [record EXCEPT !.status = "pending"]
    BY <1>6 DEF Crash, CrashAndRecover
  <2> QED
    BY <1>t, <2>1 DEF Rows
<1> QED
  BY <1>1, <1>2, <1>3, <1>4, <1>5, <1>6, Moves

LEMMA Shaped == Spec => [](Typed /\ Turns)
<1>1. Init => Typed /\ Turns
  <2> SUFFICES ASSUME Init PROVE Typed /\ Turns
    OBVIOUS
  <2> USE DEF Init, TranscodingInit
  <2>1. NewRecord \in Rows /\ Queued \in Hands /\ IdleSweeper \in Sweepers
    <3>1. NewRecord \in Rows
      BY DEF NewRecord, Rows
    <3>2. Queued \in Hands
      BY <3>1 DEF Queued, Hands
    <3>3. IdleSweeper \in Sweepers
      BY DEF IdleSweeper, Sweepers
    <3> QED
      BY <3>1, <3>2, <3>3
  <2>2. NoFFmpeg \in Processes /\ Len(NoFFmpeg.pipe) <= PipeSize
    <3>1. Len(<<>>) = 0 /\ <<>> \in Seq(Nat)
      OBVIOUS
    <3> QED
      BY <3>1, TranscodingAssumption DEF NoFFmpeg, Processes
  <2>3. Typed
    <3>1. source \in Sources /\ kind \in {"mp4", "hls"}
      BY TranscodingAssumption
    <3>2. bucket \subseteq Files /\ refused \subseteq Files /\ faults \in Nat /\ expired \in BOOLEAN
      OBVIOUS
    <3> QED
      BY <2>1, <2>2, <3>1, <3>2 DEF Typed
  <2>4. /\ record.status = "pending" /\ record.outs = {} /\ record.master = FALSE
        /\ worker.pc = "queued" /\ worker.copy = record /\ worker.outs = {} /\ sweeper.pc = "idle"
    BY DEF NewRecord, Queued, IdleSweeper
  <2>5. Turns
    BY <2>4 DEF Turns, Named, Busy
  <2> QED
    BY <2>3, <2>5
<1>2. (Typed /\ Turns) /\ [Next]_vars => (Typed /\ Turns)'
  BY KeepsTyped, KeepsTurns
<1> QED
  BY <1>1, <1>2, PTL DEF Spec

-----------------------------------------------------------------------------
(* Retention.                                                              *)

\* Of an HLS job, what is in the bucket is in retention's hands, or was
\* refused, or comes in the pages that are left; and when the record has
\* gone there are no such pages.
Ahead == sweeper.todo \cup sweeper.batch

Swept ==
  /\ refused \subseteq bucket
  /\ Cardinality(sweeper.batch) <= BatchSize
  /\ kind = "mp4" => refused = {}
  /\ sweeper.pc = "files" => sweeper.batch = {}
  /\ sweeper.pc = "list" =>
       /\ Ahead \subseteq bucket /\ sweeper.todo \cap sweeper.batch = {}
       /\ \A k \in Ahead : Place(kind, k) <= sweeper.token
       /\ \A k \in bucket : \/ k \in Ahead \/ k \in refused
                            \/ sweeper.more = TRUE /\ Place(kind, k) > sweeper.token
  /\ kind = "hls" /\ record.status = "none" => bucket \subseteq refused

\* Retention has nothing in hand when it begins and when it gives up.
LEMMA NothingAhead ==
  ASSUME Typed, kind' = kind, sweeper' = IdleSweeper, refused' \subseteq bucket',
         kind = "mp4" => refused' = {},
         kind = "hls" /\ record'.status = "none" => bucket' \subseteq refused'
  PROVE  Swept'
<1>1. sweeper'.pc = "idle" /\ sweeper'.batch = {}
  BY DEF IdleSweeper
<1>2. Cardinality({}) = 0
  BY FS_EmptySet
<1>3. BatchSize \in Nat
  BY DeliveryAssumption
<1> QED
  BY <1>1, <1>2, <1>3 DEF Swept

LEMMA KeepsSwept ==
  ASSUME Typed, Turns, Swept, [Next]_vars
  PROVE  Swept'
<1>t. /\ sweeper \in Sweepers /\ bucket \subseteq Files /\ refused \subseteq bucket
      /\ kind \in {"mp4", "hls"} /\ record \in Rows /\ kind' = kind /\ BatchSize \in Nat
  BY Moves, DeliveryAssumption DEF Typed, Swept
<1>p. \A k \in Files : Place(kind, k) \in Nat
  BY <1>t, Places DEF Files
<1>e. Cardinality({}) = 0
  BY FS_EmptySet
\* The record goes only when SweepRecord deletes it.
<1>r. ~SweepRecord => (record'.status = "none" => record.status = "none")
  <2>1. CASE record' = [status |-> "completed", progress |-> 100, outs |-> worker.outs,
                        master |-> kind = "hls"]
    BY <2>1
  <2> QED
    BY <2>1, Writes
<1>1. CASE UNCHANGED <<bucket, sweeper, refused>> /\ ~SweepRecord
  BY <1>1, <1>r, <1>t DEF Swept, Ahead
<1>2. CASE UNCHANGED <<sweeper, refused>> /\ Put
  <2>1. record.status = "processing" /\ sweeper.pc = "idle"
    BY <1>2, <1>t DEF Turns, Put, On, Busy, Sweepers
  <2>2. record' = record /\ bucket \subseteq bucket'
    BY <1>2 DEF Put
  <2> QED
    BY <1>t, <1>2, <2>1, <2>2 DEF Swept
<1>3. CASE SweepBegin
  <2>1. UNCHANGED <<record, bucket, refused>>
    BY <1>3 DEF SweepBegin, transcoding
  <2>2. sweeper'.batch = {} /\ sweeper'.token = 0 /\ sweeper'.more = TRUE
    BY <1>3 DEF SweepBegin, IdleSweeper
  <2>3. sweeper'.pc = "list" => sweeper'.todo = {}
    BY <1>3 DEF SweepBegin, IdleSweeper
  <2>4. \A k \in Files : Place(kind, k) > 0
    BY <1>t, Places DEF Files
  <2>5. record.status # "none"
    BY <1>3 DEF SweepBegin
  <2> QED
    BY <1>t, <1>e, <2>1, <2>2, <2>3, <2>4, <2>5 DEF Swept, Ahead
<1>4. ASSUME GiveUp, UNCHANGED <<bucket, refused>>, record'.status = "none" => record.status = "none"
      PROVE  Swept'
  BY <1>t, <1>4, NothingAhead DEF Swept, GiveUp
<1>5. CASE DeleteRendition
  <2>1. UNCHANGED <<record, refused>> /\ sweeper.pc = "files"
    BY <1>5 DEF DeleteRendition, Retention, At
  <2>2. kind = "mp4" /\ refused = {} /\ sweeper.batch = {}
    BY <2>1 DEF Turns, Swept
  <2>3. CASE sweeper' = [sweeper EXCEPT !.todo = @ \ FirstOf(kind, sweeper.todo, 1)]
    <3>1. sweeper'.pc = "files" /\ sweeper'.batch = {}
      BY <1>t, <2>1, <2>2, <2>3 DEF Sweepers
    <3> QED
      BY <1>t, <1>e, <2>1, <2>2, <3>1 DEF Swept
  <2>4. CASE GiveUp
    BY <1>t, <2>1, <2>2, <2>4, NothingAhead DEF GiveUp
  <2> QED
    BY <1>5, <2>3, <2>4 DEF DeleteRendition
<1>6. CASE NextPage
  <2> DEFINE keys == After(sweeper.token)
             page == FirstOf(kind, keys, PageSize)
             token == IF page = {} THEN sweeper.token ELSE Last(page)
  <2>1. /\ UNCHANGED <<record, bucket, refused>> /\ sweeper.pc = "list"
        /\ sweeper.todo = {}
    BY <1>6 DEF NextPage, Retention, At
  <2>2. /\ kind = "hls" /\ record.status # "none" /\ sweeper.token \in Nat
        /\ sweeper.batch \subseteq bucket
        /\ \A k \in sweeper.batch : Place(kind, k) <= sweeper.token
        /\ \A k \in bucket : Place(kind, k) <= sweeper.token => k \in sweeper.batch \/ k \in refused
    BY <1>t, <1>p, <2>1 DEF Turns, Swept, Ahead, Sweepers
  <2>3. CASE sweeper' = [sweeper EXCEPT !.todo = page, !.more = page # keys, !.token = token]
    <3>1. /\ sweeper'.pc = "list" /\ sweeper'.todo = page /\ sweeper'.batch = sweeper.batch
          /\ sweeper'.token = token /\ sweeper'.more = (page # keys)
      BY <1>t, <2>1, <2>3 DEF Sweepers
    <3>2. keys \subseteq Files /\ keys \subseteq bucket
      BY <1>t DEF After
    <3>3. page \subseteq keys /\ \A k \in page, l \in keys \ page : Place(kind, k) < Place(kind, l)
      BY <1>t, <3>2, FirstAreFirst, DeliveryAssumption
    <3>4. /\ token \in Nat /\ sweeper.token <= token
          /\ \A k \in page : Place(kind, k) <= token
          /\ \A l \in keys \ page : Place(kind, l) > token
      <4>1. CASE page = {}
        BY <2>2, <3>2, <4>1 DEF After
      <4>2. CASE page # {}
        <5>1. page \in SUBSET Files
          BY <3>2, <3>3
        <5>2. /\ Last(page) \in Nat /\ \A k \in page : Place(kind, k) <= Last(page)
              /\ \E k \in page : Place(kind, k) = Last(page)
          BY <1>t, <4>2, <5>1, LastIsGreatest
        <5>3. \A k \in keys : Place(kind, k) > sweeper.token
          BY DEF After
        <5> HIDE DEF page, keys
        <5> QED
          BY <2>2, <3>2, <3>3, <4>2, <5>2, <5>3, <1>p
      <4> QED
        BY <4>1, <4>2
    <3>5. page \cap sweeper.batch = {}
      BY <1>p, <1>t, <2>2, <3>2, <3>3 DEF After
    <3>6. \A k \in bucket : k \notin keys => k \in sweeper.batch \/ k \in refused
      BY <1>p, <1>t, <2>2 DEF After
    <3>7. \A k \in keys \ page : (page # keys) = TRUE
      OBVIOUS
    <3> HIDE DEF page, keys, token
    <3>8. /\ Ahead' \subseteq bucket' /\ sweeper'.todo \cap sweeper'.batch = {}
          /\ \A k \in Ahead' : Place(kind, k) <= sweeper'.token
      BY <1>p, <1>t, <2>1, <2>2, <3>1, <3>2, <3>3, <3>4, <3>5 DEF Ahead
    <3>9. \A k \in bucket : \/ k \in Ahead' \/ k \in refused
                            \/ sweeper'.more = TRUE /\ Place(kind, k) > sweeper'.token
      BY <3>1, <3>4, <3>6, <3>7 DEF Ahead
    <3> QED
      BY <1>t, <2>1, <2>2, <3>1, <3>8, <3>9 DEF Swept
  <2> QED
    BY <1>4, <1>6, <2>1, <2>3 DEF NextPage
<1>7. CASE Collect
  <2> DEFINE n == BatchSize - Cardinality(sweeper.batch)
             some == FirstOf(kind, sweeper.todo, n)
  <2>1. /\ UNCHANGED <<record, bucket, refused>> /\ sweeper.pc = "list"
        /\ sweeper' = [sweeper EXCEPT !.todo = @ \ some, !.batch = @ \cup some]
    BY <1>7 DEF Collect, Retention, At
  <2>2. /\ sweeper'.pc = "list" /\ sweeper'.todo = sweeper.todo \ some
        /\ sweeper'.batch = sweeper.batch \cup some
        /\ sweeper'.token = sweeper.token /\ sweeper'.more = sweeper.more
    BY <1>t, <2>1 DEF Sweepers
  <2>3. sweeper.todo \in SUBSET Files /\ sweeper.batch \in SUBSET Files
    BY <1>t DEF Sweepers
  <2>4. IsFiniteSet(sweeper.batch) /\ Cardinality(sweeper.batch) \in Nat
    BY <1>t, <2>3, FilesFinite DEF Files
  <2>5. Cardinality(sweeper.batch) <= BatchSize
    BY DEF Swept
  <2>6. n \in Nat
    BY <1>t, <2>4, <2>5
  <2>7. some \subseteq sweeper.todo /\ IsFiniteSet(some) /\ Cardinality(some) <= n
    BY <1>t, <2>3, <2>6, FirstAreFirst
  <2>8. Cardinality(sweeper.batch \cup some) <= BatchSize
    <3>1. /\ IsFiniteSet(sweeper.batch \cap some)
          /\ Cardinality(sweeper.batch \cap some) \in Nat /\ Cardinality(some) \in Nat
      BY <2>4, <2>7, FS_Intersection, FS_CardinalityType
    <3>2. Cardinality(sweeper.batch \cup some)
            = Cardinality(sweeper.batch) + Cardinality(some) - Cardinality(sweeper.batch \cap some)
      BY <2>4, <2>7, FS_Union
    <3> HIDE DEF some
    <3> QED
      BY <1>t, <2>4, <2>5, <2>7, <3>1, <3>2
  <2>9. kind = "hls" /\ record.status # "none"
    BY <2>1 DEF Turns
  <2> HIDE DEF some, n
  <2>10. Ahead' = Ahead /\ sweeper'.todo \cap sweeper'.batch = {}
    BY <2>1, <2>2, <2>7 DEF Ahead, Swept
  <2> QED
    BY <1>t, <2>1, <2>2, <2>8, <2>9, <2>10 DEF Swept
<1>8. CASE Flush
  <2>1. UNCHANGED record /\ sweeper.pc = "list"
    BY <1>8 DEF Flush, Retention, At
  <2>2. kind = "hls" /\ record.status # "none"
    BY <2>1 DEF Turns
  <2>3. ASSUME NEW gone \in SUBSET sweeper.batch, bucket' = bucket \ gone,
               refused' = (refused \ sweeper.batch) \cup (sweeper.batch \ gone),
               sweeper' = [sweeper EXCEPT !.batch = {}]
        PROVE  Swept'
    <3>1. /\ sweeper'.pc = "list" /\ sweeper'.todo = sweeper.todo /\ sweeper'.batch = {}
          /\ sweeper'.token = sweeper.token /\ sweeper'.more = sweeper.more
      BY <1>t, <2>1, <2>3 DEF Sweepers
    <3>2. refused' \subseteq bucket' /\ Ahead' = sweeper.todo /\ sweeper.todo \subseteq bucket'
      BY <2>1, <2>3, <3>1 DEF Swept, Ahead
    <3>3. \A k \in bucket' : \/ k \in Ahead' \/ k \in refused'
                             \/ sweeper.more = TRUE /\ Place(kind, k) > sweeper.token
      BY <2>1, <2>3, <3>2 DEF Swept, Ahead
    <3>4. \A k \in sweeper.todo : Place(kind, k) <= sweeper.token
      BY <2>1 DEF Swept, Ahead
    <3> QED
      BY <1>t, <1>e, <2>1, <2>2, <3>1, <3>2, <3>3, <3>4 DEF Swept
  <2>4. CASE /\ GiveUp
             /\ \E some \in SUBSET sweeper.batch :
                  bucket' = bucket \ some /\ refused' = refused \ some
    BY <1>t, <2>1, <2>2, <2>4, NothingAhead DEF GiveUp
  <2>5. CASE /\ bucket' = bucket \ sweeper.batch
             /\ sweeper' = [sweeper EXCEPT !.batch = {}]
             /\ refused' = refused \ sweeper.batch
    <3>1. refused' = (refused \ sweeper.batch) \cup (sweeper.batch \ sweeper.batch)
      BY <2>5
    <3> QED
      BY <2>3, <2>5, <3>1
  <2>6. ASSUME NEW kept \in SUBSET sweeper.batch, bucket' = bucket \ (sweeper.batch \ kept),
               refused' = (refused \ sweeper.batch) \cup kept,
               sweeper' = [sweeper EXCEPT !.batch = {}]
        PROVE  Swept'
    <3> DEFINE gone == sweeper.batch \ kept
    <3>1. gone \in SUBSET sweeper.batch /\ sweeper.batch \ gone = kept
      OBVIOUS
    <3>2. bucket' = bucket \ gone /\ refused' = (refused \ sweeper.batch) \cup (sweeper.batch \ gone)
      BY <2>6, <3>1
    <3> HIDE DEF gone
    <3> QED
      BY <2>3, <2>6, <3>1, <3>2
  <2> QED
    BY <1>8, <2>4, <2>5, <2>6 DEF Flush
<1>9. CASE SweepRecord
  <2>1. GiveUp /\ UNCHANGED <<bucket, refused>>
    BY <1>9 DEF SweepRecord, Retention
  <2>2. kind = "hls" => bucket \subseteq refused
    <3> SUFFICES ASSUME kind = "hls" PROVE bucket \subseteq refused
      OBVIOUS
    <3>1. /\ sweeper.pc = "list" /\ ~sweeper.more /\ sweeper.todo = {} /\ sweeper.batch = {}
      BY <1>9 DEF SweepRecord, At, Listed, FlushNow, Turns
    <3>2. Ahead = {}
      BY <3>1 DEF Ahead
    <3> QED
      BY <3>1, <3>2 DEF Swept
  <2> QED
    BY <1>t, <2>1, <2>2, NothingAhead DEF GiveUp, Swept
<1>10. CASE Crash
  <2>1. UNCHANGED <<bucket, refused>> /\ GiveUp
    BY <1>10 DEF Crash, CrashAndRecover
  <2>2. CASE SweepRecord
    BY <1>9, <2>2
  <2> QED
    BY <1>4, <1>r, <2>1, <2>2
<1> QED
  BY <1>1, <1>2, <1>3, <1>5, <1>6, <1>7, <1>8, <1>9, <1>10, Moves DEF Sweep

LEMMA Retained == Spec => [](Typed /\ Turns /\ Swept)
<1>1. Init => Swept
  <2> SUFFICES ASSUME Init PROVE Swept
    OBVIOUS
  <2>1. bucket = {} /\ refused = {} /\ sweeper.batch = {} /\ sweeper.pc = "idle"
    BY DEF Init, TranscodingInit, IdleSweeper
  <2>2. Cardinality({}) = 0 /\ BatchSize \in Nat
    BY FS_EmptySet, DeliveryAssumption
  <2> QED
    BY <2>1, <2>2 DEF Swept
<1>2. (Typed /\ Turns) /\ Swept /\ [Next]_vars => Swept'
  BY KeepsSwept
<1> QED
  BY <1>1, <1>2, Shaped, PTL DEF Spec

\* Types, and no key in the hands of retention that a job of this kind has not;
\* a batch is never above the limit of DeleteObjects.
THEOREM TypesCorrect == Spec => []TypeOK
<1>1. Typed /\ Swept => TypeOK
  <2> SUFFICES ASSUME Typed, Swept PROVE TypeOK
    OBVIOUS
  <2>1. record \in Rows /\ worker.copy \in Rows
    BY DEF Typed, Hands
  <2>2. ASSUME NEW r \in Rows PROVE IsRecord(r)
    BY DEF Rows, IsRecord
  <2>3. worker.outs \subseteq Described /\ worker.sent \subseteq Files
    BY DEF Typed, Hands
  <2>4. ffmpeg.pc \in {"off", "run", "ok", "bad"} /\ Len(ffmpeg.pipe) <= PipeSize
    BY DEF Typed, Processes
  <2>5. bucket \subseteq Files /\ refused \subseteq bucket /\ Cardinality(sweeper.batch) <= BatchSize
    BY DEF Typed, Swept
  <2>6. sweeper.todo \cup sweeper.batch \subseteq Files
    BY DEF Typed, Sweepers
  <2> QED
    BY <2>1, <2>2, <2>3, <2>4, <2>5, <2>6 DEF TypeOK
<1> QED
  BY <1>1, Retained, PTL

\* Whatever the pages, the batches and the calls that fail, the tree of an HLS
\* job goes with its record, but for what B2 refused to delete.
THEOREM OnlyRefusedLeftCorrect == Spec => []OnlyRefusedLeft
<1>1. Swept => OnlyRefusedLeft
  BY DEF Swept, OnlyRefusedLeft, Found
<1> QED
  BY <1>1, Retained, PTL

-----------------------------------------------------------------------------
(* Storage.                                                                *)

\* Until retention comes, what was sent is there, and with each file all that
\* come before it; a completed job is there as a whole.
Whole ==
  /\ Files \subseteq bucket
  /\ {o.name : o \in record.outs} = Planned
  /\ record.master = (kind = "hls")

Stored ==
  /\ worker.pc = "put" => {o.name : o \in worker.outs} = Planned
  /\ player = "master" => kind = "hls"
  /\ expired = FALSE =>
       /\ worker.sent \subseteq bucket
       /\ \A k \in bucket, l \in Files : Place(kind, l) < Place(kind, k) => l \in bucket
       /\ record.status = "completed" => Whole
       /\ player = "master" => Master \in bucket

\* Before retention comes, the bucket grows, by the uploads of Put.
LEMMA BucketGrows ==
  ASSUME Typed, Turns, [Next]_vars, expired' = FALSE
  PROVE  /\ expired = FALSE /\ sweeper.pc = "idle" /\ ~Sweep
         /\ bucket' # bucket => Put
         /\ bucket \subseteq bucket'
<1>1. ~SweepBegin
  BY DEF SweepBegin
<1>2. expired = FALSE
  BY <1>1, Moves
<1>3. sweeper.pc = "idle"
  BY <1>2 DEF Turns
<1>4. ~Sweep
  BY <1>1, <1>3 DEF Sweep, DeleteRendition, NextPage, Collect, Flush, SweepRecord, At
<1>5. bucket' # bucket => Put
  BY <1>4, Moves DEF Sweep
<1>6. Put => bucket \subseteq bucket'
  BY DEF Put
<1> QED
  BY <1>2, <1>3, <1>4, <1>5, <1>6

\* What a worker has before it puts, and what it has sent.
LEMMA Sends ==
  ASSUME Typed, Turns, [Next]_vars
  PROVE  /\ \/ worker'.sent = {} \/ worker'.sent = worker.sent
            \/ \E key \in FirstOf(kind, Files \ worker.sent, 1) :
                 worker'.sent = worker.sent \cup {key} /\ bucket' = bucket \cup {key}
         /\ worker'.pc = "put" => \/ worker.pc = "put" /\ worker'.outs = worker.outs
                                  \/ \E unread : worker'.outs = Outputs(unread)
<1>t. worker \in Hands
  BY DEF Typed
<1>q. Queued.pc = "queued" /\ Queued.sent = {} /\ [Queued EXCEPT !.pc = "idle"].sent = {}
      /\ [Queued EXCEPT !.pc = "idle"].pc = "idle"
  BY DEF Queued
<1>1. CASE Begin
  <2>1. worker = Queued
    BY <1>1 DEF Begin, On, Turns
  <2>2. worker' = [worker EXCEPT !.pc = "fetch", !.copy = record'] \/ Rest
    BY <1>1 DEF Begin
  <2> QED
    BY <1>t, <1>q, <2>1, <2>2 DEF Rest, Hands
<1>2. CASE Fetch \/ EndOfOutput \/ JobTimeout
  BY <1>t, <1>2 DEF Fetch, EndOfOutput, JobTimeout, To, On, Hands
<1>3. CASE ReadLine \/ Wait
  <2>1. ASSUME NEW percent, NEW step \in {"read", "measure"}, onProgress(percent, step)
        PROVE  worker'.sent = worker.sent /\ worker'.pc # "put"
    BY <1>t, <2>1 DEF onProgress, Hands
  <2>2. CASE To("fail")
    BY <1>t, <2>2 DEF To, Hands
  <2>3. CASE ReadLine /\ worker' = worker
    BY <1>t, <2>3 DEF ReadLine, On
  <2> QED
    BY <1>3, <2>1, <2>2, <2>3 DEF ReadLine, Wait
<1>4. CASE Measure
  <2>1. \/ worker' = [worker EXCEPT !.pc = "fail"]
        \/ \E unread : worker' = [worker EXCEPT !.pc = "put", !.outs = Outputs(unread)]
    BY <1>4 DEF Measure, To
  <2> QED
    BY <1>t, <2>1 DEF Hands
<1>5. CASE Put
  <2>1. PICK key \in FirstOf(kind, Files \ worker.sent, 1) :
          \/ bucket' = bucket \cup {key} /\ worker' = [worker EXCEPT !.sent = @ \cup {key}]
          \/ worker' = [worker EXCEPT !.pc = "fail"]
    BY <1>5 DEF Put, To
  <2>2. worker.pc = "put"
    BY <1>5 DEF Put, On
  <2>3. CASE bucket' = bucket \cup {key} /\ worker' = [worker EXCEPT !.sent = @ \cup {key}]
    BY <1>t, <2>1, <2>2, <2>3 DEF Hands
  <2>4. CASE worker' = [worker EXCEPT !.pc = "fail"]
    BY <1>t, <2>4 DEF Hands
  <2> QED
    BY <2>1, <2>3, <2>4
<1>6. CASE Finish \/ Fail \/ Crash
  <2>1. worker' = Queued \/ worker' = [Queued EXCEPT !.pc = "idle"]
    BY <1>6 DEF Finish, Fail, End, Crash, CrashAndRecover, Rest
  <2> QED
    BY <1>q, <2>1
<1>7. CASE UNCHANGED worker
  BY <1>7
<1> QED
  BY <1>1, <1>2, <1>3, <1>4, <1>5, <1>6, <1>7, Moves DEF WorkerStep

LEMMA KeepsStored ==
  ASSUME Typed, Turns, Stored, [Next]_vars
  PROVE  Stored'
<1>t. /\ worker \in Hands /\ bucket \subseteq Files /\ source \in Sources
      /\ kind \in {"mp4", "hls"} /\ kind' = kind /\ Files' = Files /\ Planned' = Planned
      /\ worker.sent \subseteq Files
  BY Moves, SameFiles DEF Typed, Hands
<1>1. worker'.pc = "put" => {o.name : o \in worker'.outs} = Planned
  <2>1. \A unread : {o.name : o \in Outputs(unread)} = Planned
    BY <1>t, OutputsTyped
  <2> QED
    BY <2>1, Sends DEF Stored
<1>2. player' = "master" => \/ player = "master"
                            \/ kind = "hls" /\ Master \in bucket /\ bucket' = bucket
  BY Moves DEF Players, GetMaster, GetLinked, GetRendition, Watch, transcoding
<1>3. ASSUME expired' = FALSE
      PROVE  /\ worker'.sent \subseteq bucket'
             /\ \A k \in bucket', l \in Files : Place(kind, l) < Place(kind, k) => l \in bucket'
             /\ record'.status = "completed" => Whole'
             /\ player' = "master" => Master \in bucket'
  <2>b. /\ expired = FALSE /\ ~Sweep /\ bucket \subseteq bucket'
        /\ bucket' # bucket => Put
    BY <1>3, BucketGrows
  <2>s. /\ worker.sent \subseteq bucket
        /\ \A k \in bucket, l \in Files : Place(kind, l) < Place(kind, k) => l \in bucket
        /\ record.status = "completed" => Whole
        /\ player = "master" => Master \in bucket
    BY <2>b DEF Stored
  <2>1. worker'.sent \subseteq bucket'
    BY <2>b, <2>s, Sends
  <2>2. ASSUME NEW k \in bucket', NEW l \in Files, Place(kind, l) < Place(kind, k)
        PROVE  l \in bucket'
    <3>1. CASE k \in bucket
      BY <2>b, <2>s, <2>2, <3>1
    <3>2. CASE k \notin bucket
      <4>1. PICK key \in FirstOf(kind, Files \ worker.sent, 1) : bucket' \in {bucket, bucket \cup {key}}
        BY <2>b, <3>2 DEF Put
      <4>2. k \in FirstOf(kind, Files \ worker.sent, 1)
        BY <2>2, <3>2, <4>1
      <4>3. Earlier(kind, Files \ worker.sent, k) = {}
        <5> DEFINE before == Earlier(kind, Files \ worker.sent, k)
        <5>1. k \in Files \ worker.sent /\ Cardinality(before) < 1
          BY <4>2 DEF FirstOf
        <5>2. before \in SUBSET Files
          BY DEF Earlier
        <5> HIDE DEF before
        <5>3. IsFiniteSet(before) /\ Cardinality(before) \in Nat
          BY <1>t, <5>2, FilesFinite DEF Files
        <5>4. before = {}
          BY <5>1, <5>3, FS_EmptySet
        <5> QED
          BY <5>4 DEF before
      <4>4. CASE l \in worker.sent
        BY <2>b, <2>s, <4>4
      <4>5. CASE l \notin worker.sent
        BY <2>2, <4>3, <4>5 DEF Earlier
      <4> QED
        BY <4>4, <4>5
    <3> QED
      BY <3>1, <3>2
  <2>3. ASSUME record'.status = "completed" PROVE Whole'
    <3>1. CASE record' = record
      BY <1>t, <2>b, <2>s, <2>3, <3>1 DEF Whole
    <3>2. CASE /\ Finish
               /\ record' = [status |-> "completed", progress |-> 100, outs |-> worker.outs,
                             master |-> kind = "hls"]
      <4>1. worker.sent = Files /\ worker.pc = "put"
        BY <3>2 DEF Finish, AllSent, On
      <4>2. record'.outs = worker.outs /\ record'.master = (kind = "hls")
        BY <3>2
      <4>3. {o.name : o \in worker.outs} = Planned
        BY <4>1 DEF Stored
      <4> QED
        BY <1>t, <2>b, <2>s, <4>1, <4>2, <4>3 DEF Whole
    <3> QED
      BY <2>3, <3>1, <3>2, Writes
  <2>4. player' = "master" => Master \in bucket'
    BY <1>2, <2>b, <2>s
  <2> QED
    BY <2>1, <2>2, <2>3, <2>4
<1> QED
  BY <1>t, <1>1, <1>2, <1>3 DEF Stored

LEMMA AlwaysStored == Spec => [](Typed /\ Turns /\ Stored)
<1>1. Init => Stored
  <2> SUFFICES ASSUME Init PROVE Stored
    OBVIOUS
  <2>1. /\ bucket = {} /\ worker.pc = "queued" /\ worker.sent = {} /\ player = "new"
        /\ record.status = "pending"
    BY DEF Init, TranscodingInit, Queued, NewRecord
  <2> QED
    BY <2>1 DEF Stored
<1>2. (Typed /\ Turns) /\ Stored /\ [Next]_vars => Stored'
  BY KeepsStored
<1> QED
  BY <1>1, <1>2, Shaped, PTL DEF Spec

\* A job is marked when all of its files are in the bucket, and they stay
\* there until retention comes, through crashes and repetitions of the job.
THEOREM CompletedAsPlannedCorrect == Spec => []CompletedAsPlanned
<1>1. Typed /\ Stored => CompletedAsPlanned
  <2> SUFFICES ASSUME Typed, Stored, record.status = "completed", ~expired
               PROVE  /\ Files \subseteq bucket
                      /\ {o.name : o \in record.outs} = Planned
                      /\ record.master = (kind = "hls")
    BY DEF CompletedAsPlanned, Planned
  <2>1. expired = FALSE
    BY DEF Typed
  <2> QED
    BY <2>1 DEF Stored, Whole
<1> QED
  BY <1>1, AlwaysStored, PTL

\* No directory of a plan but "native" comes after the master playlist.
LEMMA MasterComesLast ==
  ASSUME NEW src, NEW d \in Dirs(src), d # "native", NEW i \in VariantFiles
  PROVE  Place("hls", <<d, i>>) < Place("hls", Master)
<1>1. d \in {"1080p", "360p", "480p", "720p", "audio"} /\ i \in 1..3
  BY PlanNames DEF VariantFiles
<1>2. /\ DOMAIN WalkOrder = 1..7
      /\ WalkOrder[1] = "1080p" /\ WalkOrder[2] = "360p" /\ WalkOrder[3] = "480p"
      /\ WalkOrder[4] = "720p" /\ WalkOrder[5] = "audio" /\ WalkOrder[6] = "master.m3u8"
      /\ WalkOrder[7] = "native"
  BY DEF WalkOrder
<1>3. PlaceIn(WalkOrder, d) \in 1..5
  <2>1. \E n \in DOMAIN WalkOrder : WalkOrder[n] = d
    BY <1>1, <1>2
  <2>2. PlaceIn(WalkOrder, d) \in DOMAIN WalkOrder /\ WalkOrder[PlaceIn(WalkOrder, d)] = d
    BY <2>1 DEF PlaceIn
  <2> QED
    BY <1>1, <1>2, <2>2
<1>4. PlaceIn(WalkOrder, "master.m3u8") = 6
  <2>1. \E n \in DOMAIN WalkOrder : WalkOrder[n] = "master.m3u8"
    BY <1>2
  <2>2. /\ PlaceIn(WalkOrder, "master.m3u8") \in DOMAIN WalkOrder
        /\ WalkOrder[PlaceIn(WalkOrder, "master.m3u8")] = "master.m3u8"
    BY <2>1 DEF PlaceIn
  <2> QED
    BY <1>2, <2>2
<1>5. /\ Place("hls", <<d, i>>) = 4 * PlaceIn(WalkOrder, d) + i
      /\ Place("hls", Master) = 4 * PlaceIn(WalkOrder, "master.m3u8") + 0
  BY DEF Place, Master
<1> QED
  BY <1>1, <1>3, <1>4, <1>5

\* A master playlist in the bucket is there with all it links to, but for the
\* "native" variant; and a completed job is there with that.
LEMMA LinksAlive ==
  ASSUME Typed, Stored, expired = FALSE, player = "master", NEW d \in Links(source),
         "native" \notin Dirs(source) \/ record.status = "completed"
  PROVE  InDir(d) \subseteq bucket
<1>1. kind = "hls" /\ Master \in bucket
  BY DEF Stored
<1>2. d \in Dirs(source)
  BY DEF Links, Dirs, VariantDirs
<1>3. InDir(d) \subseteq Files
  BY <1>1, <1>2 DEF Files, FilesOf, Tree
<1>4. CASE record.status = "completed"
  BY <1>3, <1>4 DEF Stored, Whole
<1>5. CASE "native" \notin Dirs(source)
  <2> SUFFICES ASSUME NEW i \in VariantFiles PROVE <<d, i>> \in bucket
    BY DEF InDir
  <2>1. Place(kind, <<d, i>>) < Place(kind, Master)
    BY <1>1, <1>2, <1>5, MasterComesLast
  <2>2. <<d, i>> \in Files
    BY <1>3 DEF InDir
  <2> QED
    BY <1>1, <2>1, <2>2 DEF Stored
<1> QED
  BY <1>4, <1>5

\* No player and no download is given a link that is dead.
THEOREM NoDeadLinksCorrect == Spec => NoDeadLinks
<1>1. Typed /\ Turns /\ Stored /\ [Next]_vars
        => [player # "dead" /\ player' = "dead" =>
              expired \/ ("native" \in Dirs(source) /\ record.status # "completed")]_vars
  <2> SUFFICES ASSUME Typed, Turns, Stored, [Next]_vars, player # "dead", player' = "dead",
                      ~expired, "native" \notin Dirs(source) \/ record.status = "completed"
               PROVE  FALSE
    OBVIOUS
  <2>1. expired = FALSE
    BY DEF Typed
  <2>2. GetLinked \/ GetRendition
    BY Moves DEF Players, GetMaster
  <2>3. CASE GetLinked
    BY <2>1, <2>3, LinksAlive DEF GetLinked
  <2>4. CASE GetRendition
    <3>1. PICK o \in record.outs : Mp4(o.name) \notin bucket
      BY <2>4 DEF GetRendition
    <3>2. kind = "mp4" /\ record.status = "completed" /\ o.name \in Names(source)
      BY <2>4, <3>1 DEF GetRendition, Turns, Named, Planned
    <3>3. Mp4(o.name) \in Files
      BY <3>2 DEF Files, FilesOf, Mp4Files
    <3> QED
      BY <2>1, <3>1, <3>2, <3>3 DEF Stored, Whole
  <2> QED
    BY <2>2, <2>3, <2>4
<1> QED
  BY <1>1, AlwaysStored, PTL DEF Spec, NoDeadLinks

-----------------------------------------------------------------------------
(* Failures.                                                               *)

\* What ffmpeg's "-2" gives is even, and something.
LEMMA NearestEvenIsEven ==
  ASSUME NEW n \in Nat, NEW d \in Nat \ {0}, n >= d
  PROVE  NearestEven(n, d) % 2 = 0 /\ NearestEven(n, d) > 0
<1> DEFINE q == (n + d) \div (2 * d)
<1>0. n + d \in Nat /\ 2 * d \in Nat \ {0}
  OBVIOUS
<1>1. q \in Nat /\ n + d < (2 * d) * q + 2 * d
  BY <1>0, Quotient, Zenon
<1>2. NearestEven(n, d) = 2 * q
  BY DEF NearestEven
<1> HIDE DEF q
<1>3. q # 0
  BY <1>1
<1> QED
  BY <1>1, <1>2, <1>3

\* Only a source below the ladder with an odd short edge is refused.
LEMMA EncoderRefuses ==
  ASSUME NEW src, Sized(src), ~Renders(src)
  PROVE  ShortEdge(src) < 360 /\ ShortEdge(src) % 2 = 1
<1> DEFINE d == ShortEdge(src)
           l == LongEdge(src)
<1>1. d \in Nat \ {0} /\ l \in Nat /\ d <= l
  BY DEF Sized, ShortEdge, LongEdge, Landscape
<1>2. PICK r \in planRenditions(src, DefaultLadder) : ~Encodable(scaleFilter(src, r.short))
  BY PlanFits DEF Renders
<1>3. r.short \in {1080, 720, 480, 360} \/ (r.short = d /\ d < 360)
  <2>1. CASE {x \in DefaultLadder : x.short <= ShortEdge(src)} = {}
    <3>1. r.short = d
      BY <1>2, <2>1 DEF planRenditions
    <3>2. [name |-> "360p", short |-> 360] \in DefaultLadder
      BY DEF DefaultLadder
    <3>3. ~(360 <= d)
      BY <2>1, <3>2
    <3> QED
      BY <1>1, <3>1, <3>3
  <2>2. CASE {x \in DefaultLadder : x.short <= ShortEdge(src)} # {}
    BY <1>2, <2>2 DEF planRenditions, DefaultLadder
  <2> QED
    BY <2>1, <2>2
<1> HIDE DEF d, l
<1>4. r.short \in Nat \ {0} /\ l * r.short \in Nat /\ l * r.short >= d
  <2>1. r.short \in Nat \ {0}
    BY <1>1, <1>3
  <2>2. PICK m \in Nat : r.short = m + 1
    BY <2>1
  <2>3. l * r.short = l * m + l /\ l * m \in Nat
    BY <1>1, <2>2
  <2> QED
    BY <1>1, <2>1, <2>3
<1> DEFINE long == NearestEven(l * r.short, d)
<1>5. long % 2 = 0 /\ long > 0
  BY <1>1, <1>4, NearestEvenIsEven, Zenon
<1> HIDE DEF long
<1>6. ~(r.short % 2 = 0 /\ r.short > 0)
  <2> SUFFICES ASSUME r.short % 2 = 0, r.short > 0 PROVE Encodable(scaleFilter(src, r.short))
    BY <1>2
  <2>1. CASE Landscape(src)
    BY <1>4, <1>5, <2>1, Sizes DEF Encodable, long, l, d
  <2>2. CASE ~Landscape(src)
    BY <1>4, <1>5, <2>2, Sizes DEF Encodable, long, l, d
  <2> QED
    BY <2>1, <2>2
<1>7. r.short = d /\ d < 360 /\ d % 2 = 1
  BY <1>1, <1>3, <1>4, <1>6
<1> QED
  BY <1>7 DEF d

\* Without faults: a milestone is stored when it counts as stored, and a job
\* fails by the encoder alone.
Smooth ==
  /\ worker.late = FALSE
  /\ Busy => /\ record.progress = worker.last
             /\ worker.last \div 10 = worker.copy.progress \div 10
  /\ ffmpeg.pc = "bad" \/ worker.pc = "fail" \/ record.status = "failed" => ~Renders(source)

\* A step without a fault.
LEMMA FaultFree ==
  ASSUME Typed, [Next]_vars, faults' = 0
  PROVE  faults = 0 /\ ~Fault
<1>1. faults' \in {faults, faults + 1}
  BY BucketTyped
<1> QED
  BY <1>1 DEF Typed, Fault

LEMMA KeepsSmooth ==
  ASSUME Typed, Turns, Smooth, [Next]_vars, ~Fault
  PROVE  Smooth'
<1>t. /\ record \in Rows /\ worker \in Hands /\ worker.copy \in Rows /\ ffmpeg \in Processes
      /\ source' = source
  BY Moves DEF Typed, Hands
<1>l. worker.late = FALSE /\ ~Fails(worker.late) /\ ~Fails(FALSE)
  BY DEF Smooth, Fails
<1>s. \A row : ~StoreFails(row, worker.late) /\ ~StoreFails(row, FALSE)
  BY <1>l DEF StoreFails
<1>b. ffmpeg.pc = "bad" \/ worker.pc = "fail" \/ record.status = "failed" => ~Renders(source)
  BY DEF Smooth
<1>q. /\ Queued.pc = "queued" /\ Queued.late = FALSE
      /\ [Queued EXCEPT !.pc = "idle"].pc = "idle" /\ [Queued EXCEPT !.pc = "idle"].late = FALSE
      /\ NoFFmpeg.pc = "off" /\ [NoFFmpeg EXCEPT !.pc = "run"].pc = "run"
      /\ NewRecord.status = "pending"
  BY DEF Queued, NoFFmpeg, NewRecord
\* A worker that does not work.
<1>w. ASSUME worker' \in {Queued, [Queued EXCEPT !.pc = "idle"]},
             ffmpeg' \in {ffmpeg, NoFFmpeg}, record'.status = "failed" => ~Renders(source)
      PROVE  Smooth'
  BY <1>b, <1>q, <1>t, <1>w DEF Smooth, Busy
\* A worker that works on.
<1>v. ASSUME Busy, record' = record,
             /\ worker'.late = worker.late /\ worker'.last = worker.last
             /\ worker'.copy = worker.copy,
             ffmpeg'.pc = "bad" \/ worker'.pc = "fail" => ~Renders(source)
      PROVE  Smooth'
  BY <1>b, <1>l, <1>t, <1>v DEF Smooth, Busy
<1>1. CASE Begin
  <2>1. /\ record' = [record EXCEPT !.status = "processing", !.progress = 0]
        /\ worker' = [worker EXCEPT !.pc = "fetch", !.copy = record'] /\ ffmpeg' = ffmpeg
    BY <1>1, <1>s DEF Begin
  <2>2. record'.status = "processing" /\ record'.progress = 0
    BY <1>t, <2>1 DEF Rows
  <2>3. worker = Queued
    BY <1>1 DEF Begin, On, Turns
  <2>4. /\ worker'.pc = "fetch" /\ worker'.copy = record'
        /\ worker'.last = 0 /\ worker'.late = FALSE
    BY <2>1, <2>3 DEF Queued
  <2> QED
    BY <1>b, <1>t, <2>1, <2>2, <2>4 DEF Smooth, Busy
<1>2. CASE JobTimeout
  BY <1>2 DEF JobTimeout
<1>3. CASE Fetch
  <2>1. worker' = [worker EXCEPT !.pc = "read"] /\ ffmpeg' = [NoFFmpeg EXCEPT !.pc = "run"]
    BY <1>3, <1>l DEF Fetch, To
  <2>2. Busy /\ record' = record
    BY <1>3 DEF Fetch, On, Busy
  <2>3. /\ worker'.late = worker.late /\ worker'.last = worker.last
        /\ worker'.copy = worker.copy /\ worker'.pc = "read"
    BY <1>t, <2>1 DEF Hands
  <2> QED
    BY <1>q, <1>v, <2>1, <2>2, <2>3
<1>4. CASE Report \/ Exit
  <2>1. UNCHANGED <<record, worker>>
    BY <1>4 DEF Report, Exit
  <2>2. ffmpeg'.pc = "bad" => ~Renders(source)
    BY <1>4, <1>l, <1>b, <1>t DEF Report, Exit, Processes
  <2> QED
    BY <1>b, <1>l, <1>t, <2>1, <2>2 DEF Smooth, Busy
<1>5. ASSUME Busy, NEW percent \in 0..100, NEW step \in {"read", "measure"},
             onProgress(percent, step), ffmpeg'.pc = ffmpeg.pc
      PROVE  Smooth'
  <2>1. record.progress = worker.last /\ record.status = "processing"
    BY <1>5 DEF Smooth, Turns
  <2>2. /\ worker'.pc = step /\ worker'.late = FALSE
        /\ worker'.copy = [worker.copy EXCEPT !.progress = percent]
        /\ worker'.last = IF Milestone(percent) THEN percent ELSE worker.last
    <3> DEFINE copy == [worker.copy EXCEPT !.progress = percent]
    <3>0. \/ /\ Milestone(percent)
             /\ worker' = [worker EXCEPT !.pc = step, !.copy = copy, !.last = percent]
          \/ /\ ~Milestone(percent)
             /\ worker' = [worker EXCEPT !.pc = step, !.copy = copy]
      BY <1>5, ProgressMoves
    <3> HIDE DEF copy
    <3>1. CASE Milestone(percent)
      BY <1>l, <1>t, <3>0, <3>1 DEF Hands, copy
    <3>2. CASE ~Milestone(percent)
      BY <1>l, <1>t, <3>0, <3>2 DEF Hands, copy
    <3> QED
      BY <3>1, <3>2
  <2>3. /\ worker'.copy.progress = percent
        /\ worker'.copy.status \in {"pending", "processing"}
    BY <1>t, <2>2 DEF Rows, Turns
  <2>4. CASE Milestone(percent)
    <3>1. record' = worker'.copy
      BY <1>5, <1>s, <2>2, <2>4, ProgressMoves
    <3> QED
      BY <1>5, <1>b, <1>t, <2>2, <2>3, <2>4, <3>1 DEF Smooth, Busy
  <2>5. CASE ~Milestone(percent)
    <3>1. record' = record /\ percent \div 10 = worker.last \div 10
      BY <1>5, <2>5, ProgressMoves DEF Milestone
    <3> QED
      BY <1>5, <1>b, <1>t, <2>1, <2>2, <2>3, <2>5, <3>1 DEF Smooth, Busy
  <2> QED
    BY <2>4, <2>5
<1>6. CASE ReadLine
  <2>1. Busy /\ ffmpeg'.pc = ffmpeg.pc
    BY <1>6, <1>t DEF ReadLine, On, Busy, Processes
  <2>2. CASE UNCHANGED <<record, worker>>
    BY <1>b, <1>v, <2>1, <2>2
  <2>3. CASE source.duration > 0 /\ onProgress(Percent(Head(ffmpeg.pipe)), "read")
    <3>1. Head(ffmpeg.pipe) \in Nat
      BY <1>t, <1>6 DEF ReadLine, Processes
    <3>2. Percent(Head(ffmpeg.pipe)) \in 0..100
      BY <2>3, <3>1, PercentTyped DEF Typed
    <3> QED
      BY <1>5, <2>1, <2>3, <3>2
  <2> QED
    BY <1>6, <2>2, <2>3 DEF ReadLine
<1>7. CASE Wait
  <2>1. Busy /\ ffmpeg' = ffmpeg
    BY <1>7 DEF Wait, On, Busy
  <2>2. CASE onProgress(100, "measure")
    <3>1. 100 \in 0..100
      OBVIOUS
    <3> QED
      BY <1>5, <2>1, <2>2, <3>1
  <2>3. CASE ffmpeg.pc = "bad" /\ To("fail") /\ record' = record
    <3>1. /\ worker'.late = worker.late /\ worker'.last = worker.last
          /\ worker'.copy = worker.copy
      BY <1>t, <2>3 DEF To, Hands
    <3> QED
      BY <1>b, <1>v, <2>1, <2>3, <3>1
  <2> QED
    BY <1>7, <2>2, <2>3 DEF Wait
<1>8. CASE EndOfOutput \/ Measure \/ Put
  <2>1. Busy /\ record' = record /\ ffmpeg' = ffmpeg
    BY <1>8 DEF EndOfOutput, Measure, Put, On, Busy
  <2>2. \/ worker' = [worker EXCEPT !.pc = "wait"]
        \/ \E outs : worker' = [worker EXCEPT !.pc = "put", !.outs = outs]
        \/ \E key : worker' = [worker EXCEPT !.sent = @ \cup {key}]
    BY <1>8, <1>l DEF EndOfOutput, Measure, Put, To
  <2>3. /\ worker'.late = worker.late /\ worker'.last = worker.last
        /\ worker'.copy = worker.copy /\ worker'.pc \in {"wait", "put", worker.pc}
    BY <1>t, <2>2 DEF Hands
  <2> QED
    BY <1>b, <1>v, <2>1, <2>3
<1>9. CASE Finish
  <2>1. Rest /\ ffmpeg' = ffmpeg
    BY <1>9 DEF Finish, End
  <2>2. record' = [status |-> "completed", progress |-> 100, outs |-> worker.outs,
                   master |-> kind = "hls"]
    BY <1>9, <1>s DEF Finish, End
  <2>3. record'.status = "completed"
    BY <2>2
  <2> QED
    BY <1>w, <2>1, <2>3 DEF Rest
<1>10. CASE Fail
  <2>1. Rest /\ ffmpeg' = ffmpeg /\ worker.pc = "fail"
    BY <1>10 DEF Fail, End, On
  <2> QED
    BY <1>b, <1>w, <2>1 DEF Rest
<1>11. CASE Crash
  <2>1. /\ worker' \in {Queued, [Queued EXCEPT !.pc = "idle"]} /\ ffmpeg' = NoFFmpeg
        /\ record' = record \/ record' = [record EXCEPT !.status = "pending"]
    BY <1>11 DEF Crash, CrashAndRecover, Rest
  <2>2. record' = record \/ record'.status = "pending"
    BY <1>t, <2>1 DEF Rows
  <2> QED
    BY <1>b, <1>w, <2>1, <2>2
<1>12. CASE SweepRecord
  <2>1. /\ UNCHANGED <<worker, ffmpeg>> /\ sweeper.pc # "idle"
        /\ record' = [NewRecord EXCEPT !.status = "none"]
    BY <1>12, <1>s DEF SweepRecord, Retention, At
  <2>2. record'.status = "none"
    BY <2>1 DEF NewRecord
  <2>3. ~Busy
    BY <2>1 DEF Turns
  <2> QED
    BY <1>b, <1>l, <1>t, <2>1, <2>2, <2>3 DEF Smooth, Busy
<1>13. CASE UNCHANGED <<record, worker, ffmpeg>>
  BY <1>13, <1>t DEF Smooth, Busy
<1> QED
  BY <1>1, <1>2, <1>3, <1>4, <1>6, <1>7, <1>8, <1>9, <1>10, <1>11, <1>12, <1>13, Moves
     DEF WorkerStep

LEMMA AlwaysSmooth == Spec => [](Typed /\ Turns /\ (faults = 0 => Smooth))
<1>1. Init => Smooth
  <2> SUFFICES ASSUME Init PROVE Smooth
    OBVIOUS
  <2>1. /\ worker.late = FALSE /\ worker.pc = "queued" /\ ffmpeg.pc = "off"
        /\ record.status = "pending"
    BY DEF Init, TranscodingInit, Queued, NoFFmpeg, NewRecord
  <2> QED
    BY <2>1 DEF Smooth, Busy
<1>2. (Typed /\ Turns) /\ (faults = 0 => Smooth) /\ [Next]_vars => (faults = 0 => Smooth)'
  BY FaultFree, KeepsSmooth
<1> QED
  BY <1>1, <1>2, Shaped, PTL DEF Spec

\* A crash loses one band of progress at most: what the record has is in the
\* band of what the worker has, whatever ffmpeg reports and when.
THEOREM OneBandLostCorrect == Spec => []OneBandLost
<1>1. (faults = 0 => Smooth) => OneBandLost
  BY DEF Smooth, OneBandLost
<1> QED
  BY <1>1, AlwaysSmooth, PTL

\* A job whose calls all succeed fails for its encoder only, and that for the
\* sources below the ladder with an odd edge.
THEOREM FailsForAReasonCorrect == Spec => []FailsForAReason
<1>1. Typed /\ (faults = 0 => Smooth) => FailsForAReason
  <2> SUFFICES ASSUME Typed, Smooth, record.status = "failed"
               PROVE  ShortEdge(source) < 360 /\ ShortEdge(source) % 2 = 1
    BY DEF FailsForAReason
  <2>1. Sized(source)
    BY TranscodingAssumption DEF Typed, Sized
  <2> QED
    BY <2>1, EncoderRefuses DEF Smooth
<1> QED
  BY <1>1, AlwaysSmooth, PTL

=============================================================================
