------------------------- MODULE PersistenceScanProofs -------------------------
(***************************************************************************)
(* What a scan reports, for every archive, every set of options and every  *)
(* sketch within its error bounds: findings are true of the contributors,  *)
(* they persisted exactly as asked, and a quiet answer covers everything   *)
(* up to now.                                                              *)
(***************************************************************************)
EXTENDS PersistenceScan, SumLemmas

-----------------------------------------------------------------------------
(* Numbers and products.                                                   *)

\* A product grows with its first factor.
LEMMA TimesMonotone ==
    ASSUME NEW a \in Nat, NEW b \in Nat, NEW c \in Nat, a <= b
    PROVE  a * c \in Nat /\ b * c \in Nat /\ a * c <= b * c
<1>1. PICK d \in Nat : b = a + d
  <2>1. b - a \in Nat /\ b = a + (b - a)
    OBVIOUS
  <2>2. QED
    BY <2>1
<1>2. b * c = a * c + d * c /\ a * c \in Nat /\ d * c \in Nat
  BY <1>1
<1>3. QED
  BY <1>2

\* The larger of two numbers is one of them.
LEMMA LargerIs ==
    ASSUME NEW a \in Int, NEW b \in Int
    PROVE  Larger(a, b) \in {a, b} /\ a <= Larger(a, b) /\ b <= Larger(a, b)
  BY DEF Larger

\* The smaller of two numbers is one of them.
LEMMA SmallerIs ==
    ASSUME NEW a \in Nat, NEW b \in Nat
    PROVE  Smaller(a, b) \in Nat /\ Smaller(a, b) <= a /\ Smaller(a, b) <= b
           /\ Smaller(a, b) \in {a, b}
  BY DEF Smaller

\* The largest and the smallest of a finite set of numbers.
LEMMA MaxIs ==
    ASSUME NEW S, S \subseteq Nat, IsFiniteSet(S), S # {}
    PROVE  Max(S) \in S /\ Max(S) \in Nat /\ \A x \in S : x <= Max(S)
<1>1. \E m \in S : \A x \in S : x <= m
  BY Extremes
<1>2. \E m \in S : \A x \in S : m >= x
  BY <1>1
<1>3. Max(S) \in S /\ \A x \in S : Max(S) >= x
  BY <1>2 DEF Max
<1>4. QED
  BY <1>3

\* The smallest of a finite set of numbers is one of them.
LEMMA MinIs ==
    ASSUME NEW S, S \subseteq Nat, IsFiniteSet(S), S # {}
    PROVE  Min(S) \in S /\ Min(S) \in Nat /\ \A x \in S : Min(S) <= x
<1>1. \E m \in S : \A x \in S : m <= x
  BY Extremes
<1>2. Min(S) \in S /\ \A x \in S : Min(S) <= x
  BY <1>1 DEF Min
<1>3. QED
  BY <1>2
-----------------------------------------------------------------------------
(* The oldest windows of a set, one after the other.                       *)

UpTo(ws, w) == {v \in ws : v <= w}

\* A later window has more windows up to it.
LEMMA RankGrows ==
    ASSUME NEW ws, ws \subseteq Nat, IsFiniteSet(ws), NEW v \in ws, NEW w \in ws, v < w
    PROVE  Cardinality(UpTo(ws, v)) < Cardinality(UpTo(ws, w))
<1>1. UpTo(ws, v) \subseteq UpTo(ws, w) /\ UpTo(ws, w) \subseteq ws
  <2>1. ASSUME NEW u \in ws, u <= v PROVE u <= w
    <3>1. u \in Nat /\ v \in Nat /\ w \in Nat
      OBVIOUS
    <3>2. QED
      BY <2>1, <3>1
  <2>2. QED
    BY <2>1 DEF UpTo
<1>2. IsFiniteSet(UpTo(ws, w))
  BY <1>1, FS_Subset
<1>3. w \in UpTo(ws, w) /\ w \notin UpTo(ws, v)
  BY DEF UpTo
<1>4. IsFiniteSet(UpTo(ws, v)) /\ Cardinality(UpTo(ws, v)) <= Cardinality(UpTo(ws, w))
      /\ (Cardinality(UpTo(ws, w)) = Cardinality(UpTo(ws, v)) => UpTo(ws, w) = UpTo(ws, v))
  BY <1>1, <1>2, FS_Subset
<1>5. Cardinality(UpTo(ws, v)) \in Nat /\ Cardinality(UpTo(ws, w)) \in Nat
  BY <1>2, <1>4, FS_CardinalityType
<1>6. Cardinality(UpTo(ws, w)) # Cardinality(UpTo(ws, v))
  BY <1>3, <1>4
<1>7. QED
  BY <1>4, <1>5, <1>6

\* The rank of a window is at most the number of windows.
LEMMA RankRange ==
    ASSUME NEW ws, ws \subseteq Nat, IsFiniteSet(ws), NEW w \in ws
    PROVE  Cardinality(UpTo(ws, w)) \in 1..Cardinality(ws)
<1>1. UpTo(ws, w) \subseteq ws /\ {w} \subseteq UpTo(ws, w)
  BY DEF UpTo
<1>2. IsFiniteSet(UpTo(ws, w)) /\ Cardinality(UpTo(ws, w)) <= Cardinality(ws)
  BY <1>1, FS_Subset
<1>3. Cardinality({w}) <= Cardinality(UpTo(ws, w))
  BY <1>1, <1>2, FS_Subset
<1>4. Cardinality({w}) = 1
  BY FS_Singleton
<1>5. Cardinality(UpTo(ws, w)) \in Nat /\ Cardinality(ws) \in Nat
  BY <1>2, FS_CardinalityType
<1>6. QED
  BY <1>2, <1>3, <1>4, <1>5

\* Every place up to the number of windows is somebody's.
LEMMA RankOnto ==
    ASSUME NEW ws, ws \subseteq Nat, IsFiniteSet(ws), NEW x \in 1..Cardinality(ws)
    PROVE  \E w \in ws : Cardinality(UpTo(ws, w)) = x
<1> DEFINE n == Cardinality(ws)
           rank == [w \in ws |-> Cardinality(UpTo(ws, w))]
<1>1. n \in Nat
  BY FS_CardinalityType
<1>2. rank \in [ws -> 1..n]
  BY RankRange
<1>3. ASSUME NEW v \in ws, NEW w \in ws, rank[v] = rank[w] PROVE v = w
  <2>1. v \in Nat /\ w \in Nat
    OBVIOUS
  <2>2. v < w => rank[v] < rank[w]
    BY RankGrows
  <2>3. w < v => rank[w] < rank[v]
    BY RankGrows
  <2>4. rank[v] \in Nat
    BY <1>1, <1>2
  <2>5. QED
    BY <1>3, <2>1, <2>2, <2>3, <2>4
<1> HIDE DEF rank
<1>4. rank \in Injection(ws, 1..n)
  BY <1>2, <1>3 DEF Injection, IsInjective
<1>5. IsFiniteSet(1..n) /\ Cardinality(1..n) = n
  <2>1. IsFiniteSet(1..n) /\ Cardinality(1..n) = IF 1 > n THEN 0 ELSE n - 1 + 1
    BY <1>1, FS_Interval
  <2>2. QED
    BY <1>1, <2>1
<1>6. rank \in Surjection(ws, 1..n)
  BY <1>4, <1>5, FS_Injection
<1>7. \E w \in ws : rank[w] = x
  BY <1>6 DEF Surjection
<1>8. QED
  BY <1>7 DEF rank

\* Ranks have a window each.
LEMMA NthIs ==
    ASSUME NEW ws, ws \subseteq Nat, IsFiniteSet(ws), NEW x \in 1..Cardinality(ws)
    PROVE  Nth(ws, x) \in ws /\ Cardinality(UpTo(ws, Nth(ws, x))) = x
<1>1. \E w \in ws : Cardinality({v \in ws : v <= w}) = x
  BY RankOnto DEF UpTo
<1>2. QED
  BY <1>1 DEF Nth, UpTo

\* Later ranks have later windows.
LEMMA NthGrows ==
    ASSUME NEW ws, ws \subseteq Nat, IsFiniteSet(ws), NEW x \in 1..Cardinality(ws),
           NEW y \in 1..Cardinality(ws), x < y
    PROVE  Nth(ws, x) < Nth(ws, y)
<1> DEFINE v == Nth(ws, x)
           w == Nth(ws, y)
<1>1. v \in ws /\ w \in ws /\ Cardinality(UpTo(ws, v)) = x /\ Cardinality(UpTo(ws, w)) = y
  BY NthIs
<1> HIDE DEF v, w
<1>2. w < v => y < x
  BY <1>1, RankGrows
<1>3. v # w
  <2>1. x # y
    BY FS_CardinalityType
  <2>2. QED
    BY <1>1, <2>1
<1>4. x \in Nat /\ y \in Nat
  BY FS_CardinalityType
<1>5. v < w
  BY <1>1, <1>2, <1>3, <1>4
<1>6. QED
  BY <1>5 DEF v, w

\* Every window has a rank.
LEMMA NthOnto ==
    ASSUME NEW ws, ws \subseteq Nat, IsFiniteSet(ws), NEW w \in ws
    PROVE  \E x \in 1..Cardinality(ws) : Nth(ws, x) = w
<1> DEFINE x == Cardinality(UpTo(ws, w))
           v == Nth(ws, x)
<1>1. x \in 1..Cardinality(ws)
  BY RankRange
<1>2. v \in ws /\ Cardinality(UpTo(ws, v)) = x
  BY <1>1, NthIs
<1> HIDE DEF v
<1>3. v < w => Cardinality(UpTo(ws, v)) < Cardinality(UpTo(ws, w))
  BY <1>2, RankGrows
<1>4. w < v => Cardinality(UpTo(ws, w)) < Cardinality(UpTo(ws, v))
  BY <1>2, RankGrows
<1>5. v = w
  <2>1. x \in Nat
    BY <1>1, FS_CardinalityType
  <2>2. QED
    BY <1>2, <1>3, <1>4, <2>1
<1>6. QED
  BY <1>1, <1>5 DEF v
-----------------------------------------------------------------------------
(* Sketches: their bounds enclose the truth.                               *)

Sound(s) == s \in Sketches /\ Encloses(s)

\* No contributor has more than the whole of a sketch.
LEMMA TotalIs ==
    ASSUME NEW s, Sound(s)
    PROVE  /\ Total(s) \in Nat
           /\ \A key \in Keys : s.truth[key] \in Nat /\ s.truth[key] <= Total(s)
<1>1. s.truth \in [Keys -> Nat]
  BY DEF Sound, Sketches
<1>2. IsFiniteSet(Keys)
  BY ScanAssumption
<1>3. Total(s) \in Nat
  BY <1>1, <1>2, SumType DEF Total
<1>4. ASSUME NEW key \in Keys PROVE s.truth[key] <= Total(s)
  <2>1. SumFunctionOnSet(s.truth, Keys) = s.truth[key] + SumFunctionOnSet(s.truth, Keys \ {key})
    BY <1>1, <1>2, SumRemove
  <2>2. IsFiniteSet(Keys \ {key})
    BY <1>2, FS_RemoveElement
  <2>3. SumFunctionOnSet(s.truth, Keys \ {key}) \in Nat
    BY <1>1, <2>2, SumType
  <2>4. s.truth[key] \in Nat
    BY <1>1
  <2>5. QED
    BY <2>1, <2>3, <2>4 DEF Total
<1>5. QED
  BY <1>1, <1>3, <1>4

\* The bounds of a sketch enclose what a contributor has.
LEMMA UpperHolds ==
    ASSUME NEW s, Sound(s), NEW key \in Keys
    PROVE  /\ s.count[key] \in Nat /\ s.truth[key] \in Nat /\ s.count[key] <= s.truth[key]
           /\ Upper(s, key) \in Nat /\ s.truth[key] <= Upper(s, key) /\ Upper(s, key) <= Total(s)
<1>1. s.count[key] \in Nat /\ s.offset \in Nat /\ s.truth[key] \in Nat
  BY DEF Sound, Sketches
<1>2. s.count[key] <= s.truth[key] /\ s.truth[key] <= s.count[key] + s.offset
  BY DEF Sound, Encloses
<1>3. Total(s) \in Nat /\ s.truth[key] <= Total(s)
  BY TotalIs
<1> DEFINE n == s.count[key] + s.offset
<1>4. n \in Nat /\ s.truth[key] <= n
  BY <1>1, <1>2
<1> HIDE DEF n
<1>5. Smaller(Total(s), n) \in Nat /\ Smaller(Total(s), n) <= Total(s) /\ Smaller(Total(s), n) \in {Total(s), n}
  BY <1>3, <1>4, SmallerIs
<1>6. Upper(s, key) = Smaller(Total(s), n)
  BY DEF Upper, n
<1>7. QED
  BY <1>1, <1>2, <1>3, <1>4, <1>5, <1>6

\* No contributor has more than the largest upper bound, dropped ones included.
LEMMA MostHolds ==
    ASSUME NEW s, Sound(s)
    PROVE  MostOf(s) \in Nat /\ \A key \in Keys : s.truth[key] <= MostOf(s)
<1> DEFINE low == Smaller(Total(s), s.offset)
           T == {Upper(s, key) : key \in Items(s)}
           S == {low} \cup T
<1>1. Total(s) \in Nat /\ s.offset \in Nat
  BY TotalIs DEF Sound, Sketches
<1>2. low \in Nat /\ low <= Total(s) /\ low \in {Total(s), s.offset}
  BY <1>1, SmallerIs
<1>3. Items(s) \subseteq Keys
  BY DEF Items
<1>4. \A key \in Items(s) : Upper(s, key) \in Nat /\ Upper(s, key) <= Total(s)
  BY <1>3, UpperHolds
<1> HIDE DEF low
<1>5. S \subseteq Nat /\ \A x \in S : x <= Total(s)
  BY <1>2, <1>4
<1>6. IsFiniteSet(S)
  BY <1>1, <1>5, FS_BoundedSetOfNaturals
<1>7. low \in S /\ \A key \in Items(s) : Upper(s, key) \in S
  OBVIOUS
<1> HIDE DEF S
<1>8. Max(S) \in Nat /\ \A x \in S : x <= Max(S)
  BY <1>5, <1>6, <1>7, MaxIs
<1>9. MostOf(s) = Max(S)
  BY DEF MostOf, S, low
<1>10. ASSUME NEW key \in Keys PROVE s.truth[key] <= Max(S)
  <2>1. s.truth[key] \in Nat /\ s.truth[key] <= Total(s)
    BY TotalIs
  <2>2. CASE key \in Items(s)
    <3>1. Upper(s, key) <= Max(S) /\ Upper(s, key) \in Nat /\ s.truth[key] <= Upper(s, key)
      BY <1>7, <1>8, <2>2, UpperHolds
    <3>2. QED
      BY <1>8, <2>1, <3>1
  <2>3. CASE key \notin Items(s)
    <3>1. s.count[key] \in Nat /\ ~(s.count[key] > 0)
      BY <2>3, UpperHolds DEF Items
    <3>2. s.truth[key] <= s.count[key] + s.offset
      BY DEF Sound, Encloses
    <3>3. s.truth[key] <= s.offset
      BY <1>1, <2>1, <3>1, <3>2
    <3>4. s.truth[key] <= low /\ low <= Max(S)
      BY <1>1, <1>2, <1>7, <1>8, <2>1, <3>3
    <3>5. QED
      BY <1>2, <1>8, <2>1, <3>4
  <2>4. QED
    BY <2>2, <2>3
<1>11. QED
  BY <1>8, <1>9, <1>10
-----------------------------------------------------------------------------
(* The statistics of a baseline.                                           *)

\* A value of a series can be told at every rank.
LEMMA RankedIs ==
    ASSUME NEW n \in Nat, n >= 1, NEW v \in [1..n -> Nat], NEW k \in 1..n
    PROVE  Ranked(v, k) \in Nat
<1> DEFINE R == {v[y] : y \in 1..n}
           Q == {x \in ToSet(v) : Upto(v, x) >= k}
<1>1. IsFiniteSet(1..n) /\ Cardinality(1..n) = n
  <2>1. IsFiniteSet(1..n) /\ Cardinality(1..n) = IF 1 > n THEN 0 ELSE n - 1 + 1
    BY FS_Interval
  <2>2. QED
    BY <2>1
<1>2. IsFiniteSet(R)
  BY <1>1, ImageFinite
<1>3. ToSet(v) = R
  BY DEF ToSet
<1>4. R \subseteq Nat /\ v[1] \in R
  OBVIOUS
<1> HIDE DEF R
<1>5. PICK m \in R : \A x \in R : x <= m
  BY <1>2, <1>4, Extremes
<1>6. {y \in DOMAIN v : v[y] <= m} = 1..n
  <2>1. \A y \in 1..n : v[y] <= m
    BY <1>5 DEF R
  <2>2. DOMAIN v = 1..n
    OBVIOUS
  <2>3. QED
    BY <2>1, <2>2
<1>7. Upto(v, m) = n
  BY <1>1, <1>6 DEF Upto
<1>8. m \in Q
  BY <1>3, <1>7
<1>9. Q \subseteq R
  BY <1>3
<1> HIDE DEF Q
<1>10. Q \subseteq Nat /\ Q # {} /\ IsFiniteSet(Q)
  BY <1>2, <1>4, <1>8, <1>9, FS_Subset
<1>11. Min(Q) \in Nat
  BY <1>10, MinIs
<1>12. QED
  BY <1>11 DEF Ranked, Q

\* The length of a sequence with a known domain.
LEMMA LengthOf ==
    ASSUME NEW n \in Nat, NEW v, DOMAIN v = 1..n
    PROVE  Len(v) = n
  BY DEF Len

\* Products of natural numbers, for the steps whose factors are opaque.
LEMMA Products == ASSUME NEW a \in Nat, NEW b \in Nat PROVE a * b \in Nat
  OBVIOUS

\* Distances are natural numbers.
LEMMA AbsIs ==
    ASSUME NEW x \in Int
    PROVE  Abs(x) \in Nat
  BY DEF Abs

\* The largest of three numbers is one.
LEMMA MaxOfThree ==
    ASSUME NEW a \in Nat, NEW b \in Nat, NEW c \in Nat
    PROVE  Max({a, b, c}) \in Nat
<1>1. \E m \in {a, b, c} : \A x \in {a, b, c} : m >= x
  OBVIOUS
<1>2. Max({a, b, c}) \in {a, b, c}
  BY <1>1 DEF Max
<1>3. QED
  BY <1>2

\* Twice the median of a series.
LEMMA MedianIs ==
    ASSUME NEW n \in Nat, n >= 1, NEW v \in [1..n -> Nat]
    PROVE  Median2(v) \in Nat
<1>1. Len(v) = n
  BY LengthOf
<1>2. (n + 1) \div 2 \in 1..n /\ n \div 2 + 1 \in 1..n
  OBVIOUS
<1>3. Ranked(v, (n + 1) \div 2) \in Nat /\ Ranked(v, n \div 2 + 1) \in Nat
  BY <1>2, RankedIs
<1>4. QED
  BY <1>1, <1>3 DEF Median2

\* The threshold is a number, and the upper value is above every value.
LEMMA SignalIs ==
    ASSUME opts \in OptionSet, NEW n \in Nat, n >= 1, NEW v \in [1..n -> Nat], NEW minimum \in Nat
    PROVE  /\ Signal(v, minimum).threshold \in Nat /\ Signal(v, minimum).upper \in Nat
           /\ \A y \in 1..n : v[y] <= Signal(v, minimum).upper
<1> DEFINE m2 == Median2(v)
           dev == [y \in DOMAIN v |-> Abs(2 * v[y] - m2)]
           mad4 == Median2(dev)
           scale == Larger(14826 * mad4, 40000)
           C == {opts.z * scale, opts.relative * 200 * m2, 40000 * minimum}
           R == {v[y] : y \in 1..n}
<1>1. m2 \in Nat
  BY MedianIs
<1> HIDE DEF m2
<1>2. dev \in [1..n -> Nat]
  <2>1. ASSUME NEW y \in 1..n PROVE Abs(2 * v[y] - m2) \in Nat
    <3>1. v[y] \in Nat
      OBVIOUS
    <3>2. 2 * v[y] - m2 \in Int
      BY <1>1, <3>1
    <3>3. QED
      BY <3>2, AbsIs
  <2>2. DOMAIN v = 1..n
    OBVIOUS
  <2>3. QED
    BY <2>1, <2>2
<1> HIDE DEF dev
<1>3. mad4 \in Nat
  BY <1>2, MedianIs
<1> HIDE DEF mad4
<1>4. scale \in Nat
  BY <1>3, LargerIs
<1> HIDE DEF scale
<1>5. opts.z \in Nat /\ opts.relative \in Nat
  BY ScanAssumption DEF OptionFields
<1>6. opts.z * scale \in Nat /\ opts.relative * 200 * m2 \in Nat /\ 40000 * minimum \in Nat
  <2>1. opts.relative * 200 \in Nat
    BY <1>5
  <2>2. opts.z * scale \in Nat
    BY <1>4, <1>5, Products
  <2>3. (opts.relative * 200) * m2 \in Nat
    BY <1>1, <2>1, Products
  <2>4. 40000 * minimum \in Nat
    BY <1>1
  <2>5. QED
    BY <2>2, <2>3, <2>4
<1>9. Max(C) \in Nat
  BY <1>6, MaxOfThree
<1>10. IsFiniteSet(R)
  <2>1. IsFiniteSet(1..n)
    BY FS_Interval
  <2>2. QED
    BY <2>1, ImageFinite
<1>11. R \subseteq Nat /\ \A y \in 1..n : v[y] \in R
  OBVIOUS
<1>12. ToSet(v) = R
  BY DEF ToSet
<1> HIDE DEF R
<1>13. R # {}
  BY <1>11
<1>14. Max(R) \in Nat /\ \A x \in R : x <= Max(R)
  BY <1>10, <1>11, <1>13, MaxIs
<1>15. /\ Signal(v, minimum).threshold = 20000 * m2 + Max(C)
       /\ Signal(v, minimum).upper = Max(ToSet(v))
  BY DEF Signal, C, scale, mad4, dev, m2
<1>16. QED
  BY <1>1, <1>9, <1>11, <1>12, <1>14, <1>15
-----------------------------------------------------------------------------
(* The windows of a scan.                                                  *)

Due == {w \in Starts : w + 1 <= opts.now}
DueFrames == {Frame(w) : w \in Due}

\* The closed frames are those of all windows that ended by now, in order.
ClosedOK ==
    /\ closed \in Seq(DueFrames)
    /\ \A x, y \in 1..Len(closed) : x < y => closed[x].start < closed[y].start
    /\ \A w \in Due : \E x \in 1..Len(closed) : closed[x].start = w

Options == opts \in OptionSet /\ archive \in Series

\* Options are numbers.
LEMMA OptionTypes ==
    ASSUME opts \in OptionSet
    PROVE  /\ opts.baseline \in Nat /\ opts.recent \in Nat \ {0} /\ opts.persist \in Nat \ {0}
           /\ opts.floor \in Nat /\ opts.shareChange \in Nat /\ opts.now \in Nat /\ opts.maxAge \in Nat
           /\ opts.top \in Nat /\ opts.minAttempts \in Nat
  BY ScanAssumption DEF OptionFields

\* The windows that are due are finitely many, and archived.
LEMMA DueIs ==
    ASSUME Options
    PROVE  Due \subseteq Nat /\ IsFiniteSet(Due) /\ \A w \in Due : archive[w] \in Frames
<1>1. archive \in Seq(Frames \cup {None})
  BY ScanAssumption DEF Options
<1>2. Len(archive) \in Nat /\ DOMAIN archive = 1..Len(archive)
      /\ \A w \in 1..Len(archive) : archive[w] \in Frames \cup {None}
  BY <1>1
<1>3. Due \subseteq 1..Len(archive)
  BY <1>2 DEF Due, Starts
<1>4. IsFiniteSet(1..Len(archive))
  BY <1>2, FS_Interval
<1>5. IsFiniteSet(Due)
  BY <1>3, <1>4, FS_Subset
<1>6. \A w \in Due : archive[w] \in Frames
  BY <1>2, <1>3 DEF Due, Starts
<1>7. Due \subseteq Nat
  BY <1>2, <1>3
<1>8. QED
  BY <1>5, <1>6, <1>7

\* The frame of a window that is due has its data and lasts one unit.
LEMMA FrameIs ==
    ASSUME Options, NEW f \in DueFrames
    PROVE  /\ f.data \in Frames /\ f.start \in Due /\ f.start \in Nat /\ f.end = f.start + 1
           /\ f = Frame(f.start) /\ f.data = archive[f.start]
<1>1. PICK w \in Due : f = Frame(w)
  BY DEF DueFrames
<1>2. f.start = w /\ f.end = w + 1 /\ f.data = archive[w]
  BY <1>1 DEF Frame
<1>3. QED
  BY <1>1, <1>2, DueIs

\* Where the baseline, the lookback and the recent windows begin.
LEMMA PlacesAre ==
    ASSUME opts \in OptionSet, NEW n \in Nat, n >= 1
    PROVE  /\ RecentStart(n) \in 1..n /\ CheckStart(n) \in 1..RecentStart(n)
           /\ BaselineStart(n) \in 1..CheckStart(n)
           /\ n - RecentStart(n) + 1 <= opts.recent
           /\ RecentStart(n) - CheckStart(n) <= opts.persist - 1
           /\ CheckStart(n) > 1 => CheckStart(n) = RecentStart(n) - opts.persist + 1
<1> DEFINE r == RecentStart(n)
           c == CheckStart(n)
<1>1. opts.baseline \in Nat /\ opts.recent \in Nat \ {0} /\ opts.persist \in Nat \ {0}
  BY OptionTypes
<1>2. r \in 1..n /\ n - r + 1 <= opts.recent
  BY <1>1 DEF RecentStart, Larger
<1>3. c = Larger(0, r - 1 - opts.persist + 1) + 1
  BY DEF CheckStart
<1>4. BaselineStart(n) = Larger(0, c - 1 - opts.baseline) + 1
  BY DEF BaselineStart
<1> HIDE DEF r, c
<1>5. c \in 1..r /\ r - c <= opts.persist - 1 /\ (c > 1 => c = r - opts.persist + 1)
  BY <1>1, <1>2, <1>3 DEF Larger
<1>6. BaselineStart(n) \in 1..c
  BY <1>1, <1>2, <1>4, <1>5 DEF Larger
<1>7. QED
  BY <1>2, <1>5, <1>6 DEF r, c

\* There is a baseline.
HasBase == /\ Len(closed) >= 1
           /\ CheckStart(Len(closed)) - BaselineStart(Len(closed)) >= MinBaseline

\* The baseline is the closed frames between its two places.
LEMMA BaseIs ==
    ASSUME Options, ClosedOK, HasBase
    PROVE  LET n == Len(closed)
               a == BaselineStart(n)
               c == CheckStart(n)
           IN /\ Len(Base) = c - a /\ Len(Base) \in Nat /\ Len(Base) >= 1
              /\ DOMAIN Base = 1..Len(Base) /\ \A y \in 1..Len(Base) : Base[y] \in DueFrames
              /\ ToSet(Base) = {closed[y] : y \in a..(c - 1)}
              /\ \A b \in ToSet(Base) : b \in DueFrames
<1> DEFINE n == Len(closed)
           a == BaselineStart(n)
           c == CheckStart(n)
<1>1. n \in Nat /\ n >= 1
  BY DEF ClosedOK, HasBase
<1>2. a \in 1..c /\ c \in 1..n
  <2>1. RecentStart(n) \in 1..n /\ c \in 1..RecentStart(n) /\ a \in 1..c
    BY <1>1, PlacesAre DEF Options
  <2>2. QED
    BY <1>1, <2>1
<1>3. c - a >= 1
  BY <1>1, <1>2, ScanAssumption DEF HasBase
<1>4. Base = SubSeq(closed, a, c - 1)
  BY DEF Base
<1>5. closed \in Seq(DueFrames) /\ \A y \in 1..n : closed[y] \in DueFrames
  BY DEF ClosedOK
<1> HIDE DEF n, a, c
<1>6. /\ Len(Base) = c - a
      /\ DOMAIN Base = 1..(c - a) /\ \A y \in 1..(c - a) : Base[y] = closed[a + y - 1]
  BY <1>1, <1>2, <1>3, <1>4, <1>5 DEF n
<1>7. \A y \in 1..(c - a) : Base[y] \in DueFrames
  BY <1>1, <1>2, <1>3, <1>5, <1>6
<1>8. ToSet(Base) = {Base[y] : y \in 1..(c - a)}
  BY <1>6 DEF ToSet
<1>9. \A y \in a..(c - 1) : y - a + 1 \in 1..(c - a) /\ Base[y - a + 1] = closed[y]
  BY <1>1, <1>2, <1>3, <1>6
<1>10. \A y \in 1..(c - a) : a + y - 1 \in a..(c - 1)
  BY <1>1, <1>2, <1>3
<1>11. ToSet(Base) = {closed[y] : y \in a..(c - 1)}
  <2>1. ASSUME NEW b \in ToSet(Base) PROVE b \in {closed[y] : y \in a..(c - 1)}
    BY <1>6, <1>8, <1>10
  <2>2. ASSUME NEW y \in a..(c - 1) PROVE closed[y] \in ToSet(Base)
    BY <1>8, <1>9
  <2>3. QED
    BY <2>1, <2>2
<1>12. \A b \in ToSet(Base) : b \in DueFrames
  BY <1>7, <1>8
<1>13. c - a \in Nat
  BY <1>1, <1>2, <1>3
<1>14. QED
  BY <1>3, <1>6, <1>7, <1>11, <1>12, <1>13 DEF n, a, c
-----------------------------------------------------------------------------
(* Findings about a contributor are true.                                  *)

\* What FindingsTrue says of candidate c in window f.
Holds(c, f) ==
    \A b \in ToSet(Base) :
        LET s == f.data.sketch[c.of]
            t == b.data.sketch[c.of]
        IN IF Rankings[c.of].errors THEN s.truth[c.key] > t.truth[c.key]
           ELSE /\ 100 * s.truth[c.key] > opts.floor * Total(s)
                /\ s.truth[c.key] * Total(t) > t.truth[c.key] * Total(s)
                /\ c.signal = "top_share" =>
                      \A key \in Keys : s.truth[c.key] * Total(t) > t.truth[key] * Total(s)

\* A sketch in an archived window is within its error bounds.
LEMMA UsableSound ==
    ASSUME Options, NEW f \in DueFrames, NEW m \in Measurements, f.data.sketch[m] # None
    PROVE  Sound(f.data.sketch[m])
<1>1. f.data \in Frames
  BY FrameIs
<1>2. f.data \in FrameFields
  BY <1>1, ScanAssumption
<1>3. f.data.sketch[m] \in Sketches \cup {None}
  BY <1>2 DEF FrameFields
<1>4. Encloses(f.data.sketch[m])
  BY <1>1, ScanAssumption
<1>5. QED
  BY <1>3, <1>4 DEF Sound

\* A share shown by the lower bounds to be above the upper bounds is above
\* the true one.
LEMMA SharesTrue ==
    ASSUME NEW low \in Nat, NEW true \in Nat, NEW most \in Nat, NEW other \in Nat,
           NEW total \in Nat, NEW before \in Nat,
           low <= true, other <= most, low * before > most * total
    PROVE  true * before > other * total
<1>1. low * before \in Nat /\ true * before \in Nat /\ low * before <= true * before
  BY TimesMonotone
<1>2. other * total \in Nat /\ most * total \in Nat /\ other * total <= most * total
  BY TimesMonotone
<1>3. QED
  BY <1>1, <1>2

\* A lower bound above the floor puts the truth above it.
LEMMA FloorTrue ==
    ASSUME opts \in OptionSet, NEW s, Sound(s), NEW low \in Nat, NEW true \in Nat, low <= true, AboveFloor(low, s)
    PROVE  100 * true > opts.floor * Total(s)
<1>1. opts.floor \in Nat /\ Total(s) \in Nat
  BY OptionTypes, TotalIs
<1>2. opts.floor * Total(s) \in Nat
  BY <1>1
<1>3. 100 * low > opts.floor * Total(s)
  BY DEF AboveFloor
<1>4. QED
  BY <1>2, <1>3

\* Errors above the upper bounds of every baseline window.
LEMMA ErrorsTrue ==
    ASSUME Options, ClosedOK, HasBase, NEW s, Sound(s), NEW m \in Measurements, NEW key \in Keys,
           \A b \in ToSet(Base) : Sound(b.data.sketch[m]), ErrorClears(s, m, key)
    PROVE  \A b \in ToSet(Base) : s.truth[key] > b.data.sketch[m].truth[key]
<1> DEFINE n == Len(Base)
           v == [y \in DOMAIN Base |-> Upper(Base[y].data.sketch[m], key)]
           signal == Signal(v, 10)
<1>1. n \in Nat /\ n >= 1 /\ DOMAIN Base = 1..n /\ \A y \in 1..n : Base[y] \in ToSet(Base)
  BY BaseIs DEF ToSet
<1> HIDE DEF n
<1>2. v \in [1..n -> Nat]
  BY <1>1, UpperHolds
<1>3. \A y \in 1..n : v[y] = Upper(Base[y].data.sketch[m], key)
  BY <1>1
<1> HIDE DEF v
<1>4. signal.threshold \in Nat /\ signal.upper \in Nat /\ \A y \in 1..n : v[y] <= signal.upper
  BY <1>1, <1>2, SignalIs DEF Options
<1>5. 40000 * s.count[key] > Larger(signal.threshold, 40000 * signal.upper)
  BY DEF ErrorClears, v
<1> HIDE DEF signal
<1>6. s.count[key] \in Nat /\ s.truth[key] \in Nat /\ s.count[key] <= s.truth[key]
  BY UpperHolds
<1>7. Larger(signal.threshold, 40000 * signal.upper) \in Int /\ 40000 * signal.upper <= Larger(signal.threshold, 40000 * signal.upper)
  BY <1>4, LargerIs
<1>8. s.count[key] > signal.upper
  BY <1>4, <1>5, <1>6, <1>7
<1>9. ASSUME NEW y \in 1..n PROVE s.truth[key] > Base[y].data.sketch[m].truth[key]
  <2>1. Sound(Base[y].data.sketch[m])
    BY <1>1
  <2>2. /\ Base[y].data.sketch[m].truth[key] \in Nat
        /\ Upper(Base[y].data.sketch[m], key) \in Nat
        /\ Base[y].data.sketch[m].truth[key] <= Upper(Base[y].data.sketch[m], key)
    BY <2>1, UpperHolds
  <2>3. Upper(Base[y].data.sketch[m], key) <= signal.upper
    BY <1>3, <1>4
  <2>4. QED
    BY <1>4, <1>6, <1>8, <2>2, <2>3
<1>10. \A b \in ToSet(Base) : \E y \in 1..n : b = Base[y]
  BY <1>1 DEF ToSet
<1>11. QED
  BY <1>9, <1>10

\* What clears its share is above the floor.
LEMMA ClearsFloor ==
    ASSUME NEW s, NEW m, NEW x, NEW bound, ShareClears(s, m, x, bound)
    PROVE  AboveFloor(x, s)
  BY DEF ShareClears

\* Every candidate with a contributor is true of its window.
LEMMA CandidatesHold ==
    ASSUME Options, ClosedOK, HasBase, NEW f \in DueFrames, NEW c \in Candidates(f), c.of # None
    PROVE  Holds(c, f)
<1>1. c \notin ScalarFindings(f)
  BY DEF ScalarFindings, Scalar1
<1>2. PICK m \in Measurements : Usable(f, m) /\ c \in ItemFindings(f, m)
  BY <1>1 DEF Candidates
<1> DEFINE s == f.data.sketch[m]
<1>3. \A b \in ToSet(Base) : b \in DueFrames
  BY BaseIs
<1>4. Sound(s) /\ \A b \in ToSet(Base) : Sound(b.data.sketch[m])
  BY <1>2, <1>3, UsableSound DEF Usable
<1>5. /\ c.of = m /\ c.key \in Items(s)
      /\ \/ Prominent(s, m, c.key) /\ c.signal # "top_share"
         \/ Rankings[m].leader /\ ShareClears(s, m, s.count[c.key], [b \in ToSet(Base) |-> MostOf(b.data.sketch[m])])
  BY <1>2 DEF ItemFindings
<1> HIDE DEF s
<1>6. c.key \in Keys
  BY <1>5 DEF Items
<1>7. /\ s.count[c.key] \in Nat /\ s.truth[c.key] \in Nat /\ s.count[c.key] <= s.truth[c.key]
      /\ Total(s) \in Nat
  BY <1>4, <1>6, UpperHolds, TotalIs
<1>8. CASE Rankings[m].errors
  <2>1. ~Rankings[m].leader
    BY <1>8, ScanAssumption
  <2>2. ErrorClears(s, m, c.key)
    BY <1>5, <1>8, <2>1 DEF Prominent
  <2>3. \A b \in ToSet(Base) : s.truth[c.key] > b.data.sketch[m].truth[c.key]
    BY <1>4, <1>6, <2>2, ErrorsTrue
  <2>4. QED
    BY <1>5, <1>8, <2>3 DEF Holds, s
<1>9. CASE ~Rankings[m].errors
  <2>1. \/ ShareClears(s, m, s.count[c.key], [b \in ToSet(Base) |-> Upper(b.data.sketch[m], c.key)])
        \/ ShareClears(s, m, s.count[c.key], [b \in ToSet(Base) |-> MostOf(b.data.sketch[m])])
    BY <1>5, <1>9, Zenon DEF Prominent
  <2>6. AboveFloor(s.count[c.key], s)
    BY <2>1, ClearsFloor, Zenon
  <2>2. 100 * s.truth[c.key] > opts.floor * Total(s)
    BY <1>4, <1>7, <2>6, FloorTrue DEF Options
  <2>3. ASSUME NEW b \in ToSet(Base)
        PROVE  LET t == b.data.sketch[m]
               IN /\ s.truth[c.key] * Total(t) > t.truth[c.key] * Total(s)
                  /\ c.signal = "top_share" =>
                        \A key \in Keys : s.truth[c.key] * Total(t) > t.truth[key] * Total(s)
    <3> DEFINE t == b.data.sketch[m]
    <3>1. Sound(t)
      BY <1>4
    <3>2. Total(t) \in Nat
      BY <3>1, TotalIs
    <3>3. CASE Prominent(s, m, c.key) /\ c.signal # "top_share"
      <4>1. s.count[c.key] * Total(t) > Upper(t, c.key) * Total(s)
        BY <1>9, <3>3 DEF Prominent, ShareClears
      <4>2. Upper(t, c.key) \in Nat /\ t.truth[c.key] \in Nat /\ t.truth[c.key] <= Upper(t, c.key)
        BY <1>6, <3>1, UpperHolds
      <4>3. s.truth[c.key] * Total(t) > t.truth[c.key] * Total(s)
        BY <1>7, <3>2, <4>1, <4>2, SharesTrue
      <4>4. QED
        BY <3>3, <4>3
    <3>4. CASE Rankings[m].leader /\ ShareClears(s, m, s.count[c.key], [d \in ToSet(Base) |-> MostOf(d.data.sketch[m])])
      <4>1. s.count[c.key] * Total(t) > MostOf(t) * Total(s)
        BY <3>4 DEF ShareClears
      <4>2. MostOf(t) \in Nat /\ \A key \in Keys : t.truth[key] \in Nat /\ t.truth[key] <= MostOf(t)
        BY <3>1, MostHolds, TotalIs
      <4>3. \A key \in Keys : s.truth[c.key] * Total(t) > t.truth[key] * Total(s)
        BY <1>7, <3>2, <4>1, <4>2, SharesTrue
      <4>4. QED
        BY <1>6, <4>3
    <3>5. QED
      BY <1>5, <3>3, <3>4
  <2>4. QED
    BY <1>5, <1>9, <2>2, <2>3 DEF Holds, s
<1>10. QED
  BY <1>8, <1>9
-----------------------------------------------------------------------------
(* Once the frames are closed, judging a window always gives the same.     *)

Fixed == opts' = opts /\ archive' = archive /\ closed' = closed

\* While the options and the closed frames stay, so does the baseline.
LEMMA SameBase ==
    ASSUME Fixed
    PROVE  Base' = Base
  BY DEF Fixed, Base, BaselineStart, CheckStart, RecentStart

\* Signal as a function of the options.
SignalOf(o, values, minimum) ==
    LET m2 == Median2(values)
        mad4 == Median2([x \in DOMAIN values |-> Abs(2 * values[x] - m2)])
        scale == Larger(14826 * mad4, 40000)
        change == Max({o.z * scale, o.relative * 200 * m2, 40000 * minimum})
    IN [median |-> 20000 * m2, change |-> change, threshold |-> 20000 * m2 + change, upper |-> Max(ToSet(values))]

\* So do the statistics of a window,
LEMMA SameScalar ==
    ASSUME Fixed, NEW f, NEW name
    PROVE  Scalar(f, name)' = Scalar(f, name)
  BY DEF Fixed, Scalar

\* whether a sketch is usable,
LEMMA SameUsable ==
    ASSUME Fixed, NEW f, NEW m
    PROVE  Usable(f, m)' = Usable(f, m)
  BY SameBase, SameScalar DEF Fixed, Usable

\* which way a statistic moved,
LEMMA SameDirection ==
    ASSUME Fixed, NEW f, NEW name
    PROVE  Direction(f, name)' = Direction(f, name)
<1> DEFINE values == [x \in DOMAIN Base |-> Scalar(Base[x], name)]
           minimum == IF name = "missing_usage_share" THEN opts.coverage ELSE 0
           s == Signal(values, minimum)
<1>2. Scalar(f, name)' = Scalar(f, name) /\ opts' = opts
  BY SameScalar DEF Fixed
<1>3. values' = values
  <2>1. ASSUME NEW x \in DOMAIN Base PROVE Scalar(Base[x], name)' = Scalar(Base[x], name)
    BY SameBase, SameScalar DEF Fixed, Scalar
  <2>2. QED
    BY <2>1, SameBase
<1>4. minimum' = minimum
  BY <1>2
<1> HIDE DEF values, minimum
<1>5. s' = s
  <2>1. s = SignalOf(opts, values, minimum) /\ s' = SignalOf(opts', values', minimum')
    BY DEF Signal, SignalOf
  <2>2. QED
    BY <1>2, <1>3, <1>4, <2>1
<1> HIDE DEF s
<1>6. Direction(f, name) = LET now == Scalar(f, name)
          IN IF now = None \/ None \in ToSet(values) THEN "limited"
             ELSE IF /\ name = "attempt_volume" /\ now < opts.minAttempts
                     /\ s.median < 40000 * opts.minAttempts THEN "limited"
             ELSE IF name # "missing_usage_share" /\ s.median - 40000 * now >= s.change THEN "down"
             ELSE IF 40000 * now - s.median >= s.change THEN "up" ELSE "quiet"
  BY DEF Direction, values, s, minimum
<1>7. Direction(f, name)' = LET now == Scalar(f, name)'
          IN IF now = None \/ None \in ToSet(values') THEN "limited"
             ELSE IF /\ name = "attempt_volume" /\ now < opts'.minAttempts
                     /\ s'.median < 40000 * opts'.minAttempts THEN "limited"
             ELSE IF name # "missing_usage_share" /\ s'.median - 40000 * now >= s'.change THEN "down"
             ELSE IF 40000 * now - s'.median >= s'.change THEN "up" ELSE "quiet"
  BY DEF Direction, values, s, minimum
<1>8. QED
  BY <1>2, <1>3, <1>5, <1>6, <1>7

\* the findings about statistics,
LEMMA SameScalarFindings ==
    ASSUME Fixed, NEW f
    PROVE  ScalarFindings(f)' = ScalarFindings(f)
  BY SameDirection DEF ScalarFindings

\* ShareClears as a function of the options and the baseline.
ClearsOf(o, base, s, m, x, bound) ==
    LET signal == SignalOf(o, [y \in DOMAIN base |-> Percent(bound[base[y]], base[y].data.sketch[m])], o.shareChange)
    IN /\ \A b \in ToSet(base) : x * Total(b.data.sketch[m]) > bound[b] * Total(s)
       /\ 40000 * 100 * x > Max({signal.threshold, 40000 * signal.upper, 40000 * o.floor}) * Total(s)
       /\ 100 * x > o.floor * Total(s)

\* the test of tool errors,
LEMMA SameErrorClears ==
    ASSUME Fixed, NEW s, NEW m, NEW key
    PROVE  ErrorClears(s, m, key)' = ErrorClears(s, m, key)
<1> DEFINE values == [y \in DOMAIN Base |-> Upper(Base[y].data.sketch[m], key)]
           signal == Signal(values, 10)
<1>1. values' = values /\ opts' = opts
  BY SameBase DEF Fixed
<1> HIDE DEF values
<1>2. signal' = signal
  <2>1. signal = SignalOf(opts, values, 10) /\ signal' = SignalOf(opts', values', 10)
    BY DEF Signal, SignalOf
  <2>2. QED
    BY <1>1, <2>1
<1> HIDE DEF signal
<1>3. QED
  BY <1>2 DEF ErrorClears, values, signal

\* the test of a prominent contributor,
LEMMA SameProminent ==
    ASSUME Fixed, NEW s, NEW m, NEW key
    PROVE  Prominent(s, m, key)' = Prominent(s, m, key)
<1> DEFINE bound == [b \in ToSet(Base) |-> Upper(b.data.sketch[m], key)]
           x == s.count[key]
<1>1. bound' = bound /\ opts' = opts /\ Base' = Base
  BY SameBase DEF Fixed
<1> HIDE DEF bound
<1>2. ShareClears(s, m, x, bound) = ClearsOf(opts, Base, s, m, x, bound)
  BY DEF ShareClears, ClearsOf, Signal, SignalOf, AboveFloor
<1>3. ShareClears(s, m, x, bound)' = ClearsOf(opts', Base', s, m, x, bound')
  BY DEF ShareClears, ClearsOf, Signal, SignalOf, AboveFloor
<1>4. ShareClears(s, m, x, bound)' = ShareClears(s, m, x, bound)
  BY <1>1, <1>2, <1>3
<1>5. QED
  BY <1>1, <1>4, SameErrorClears DEF Prominent, bound

\* the findings about contributors,
LEMMA SameItemFindings ==
    ASSUME Fixed, NEW f, NEW m
    PROVE  ItemFindings(f, m)' = ItemFindings(f, m)
<1> DEFINE bound == [b \in ToSet(Base) |-> MostOf(b.data.sketch[m])]
           s == f.data.sketch[m]
           Clears(x) == ShareClears(s, m, x, bound)
<1>1. bound' = bound /\ opts' = opts /\ Base' = Base
  BY SameBase DEF Fixed
<1> HIDE DEF bound
<1>2. ASSUME NEW x PROVE Clears(x)' = Clears(x)
  <2>1. ShareClears(s, m, x, bound) = ClearsOf(opts, Base, s, m, x, bound)
    BY DEF ShareClears, ClearsOf, Signal, SignalOf, AboveFloor
  <2>2. ShareClears(s, m, x, bound)' = ClearsOf(opts', Base', s, m, x, bound')
    BY DEF ShareClears, ClearsOf, Signal, SignalOf, AboveFloor
  <2>3. QED
    BY <1>1, <2>1, <2>2
<1>3. {key \in Items(s) : Prominent(s, m, key)}' = {key \in Items(s) : Prominent(s, m, key)}
  BY SameProminent
<1>4. {key \in Items(s) : /\ Rankings[m].leader /\ key = Leader(s) /\ Clears(s.count[key])}'
      = {key \in Items(s) : /\ Rankings[m].leader /\ key = Leader(s) /\ Clears(s.count[key])}
  BY <1>2
<1>5. QED
  BY <1>3, <1>4 DEF ItemFindings, bound

\* all candidates of a window,
LEMMA SameCandidates ==
    ASSUME Fixed, NEW f
    PROVE  Candidates(f)' = Candidates(f)
<1>1. {m \in Measurements : Usable(f, m)}' = {m \in Measurements : Usable(f, m)}
  BY SameUsable
<1>2. \A m : ItemFindings(f, m)' = ItemFindings(f, m)
  BY SameItemFindings
<1>3. QED
  BY <1>1, <1>2, SameScalarFindings DEF Candidates

\* and its limits.
LEMMA SameLimited ==
    ASSUME Fixed, NEW f
    PROVE  Limited(f)' = Limited(f)
  BY SameDirection, SameUsable DEF Limited
-----------------------------------------------------------------------------
(* The inductive invariant.                                                *)

N == Len(closed)

\* The candidates of a window, if it is complete.
Found(n) == IF closed[n].complete THEN Candidates(closed[n]) ELSE {}

\* c was there in the k judged windows up to the n-th.
Lasts(c, n, k) == \A y \in (n - k + 1)..n : y >= CheckStart(N) /\ c \in Found(y)

Reported(n) == {c \in Found(n) : Lasts(c, n, opts.persist)}

Verdict(f) == IF ~f.complete THEN "incomplete" ELSE IF Limited(f) THEN "limited" ELSE "evaluated"

\* What the report says of the n-th closed window.
Judged(n) == [start |-> closed[n].start, status |-> Verdict(closed[n]), findings |-> Reported(n),
              pending |-> Cardinality(Found(n) \ Reported(n)),
              omitted |-> Larger(0, Cardinality(Reported(n)) - opts.top)]

JudgedWindows == {Judged(n) : n \in RecentStart(N)..N}

\* A streak is as long as the candidate has been there without a break.
StreaksOK ==
    /\ DOMAIN streaks = IF i = CheckStart(N) THEN {} ELSE Found(i - 1)
    /\ \A c \in DOMAIN streaks : /\ streaks[c] \in 1..(i - CheckStart(N))
                                 /\ \A k \in Nat : streaks[c] >= k <=> Lasts(c, i - 1, k)

WindowsOK ==
    /\ windows \in Seq(JudgedWindows) /\ Len(windows) = Larger(0, i - RecentStart(N))
    /\ \A x \in 1..Len(windows) : windows[x] = Judged(RecentStart(N) - 1 + x)
    /\ status \in {"evaluated", "limited"}
    /\ status = "evaluated" => \A x \in 1..Len(windows) : windows[x].status = "evaluated"

Ready == /\ pc = "ready" /\ closed = <<>> /\ windows = <<>> /\ streaks = <<>>
         /\ work = 0 /\ i = 0 /\ status = "evaluated"

NotJudged ==
    /\ pc = "done" /\ status = "not_ready" /\ i = 0 /\ streaks = <<>> /\ ClosedOK
    /\ windows \in Seq({NotReady(closed[n]) : n \in 1..N}) /\ Len(windows) <= opts.recent

Judging ==
    /\ pc \in {"check", "done", "error"} /\ ClosedOK
    /\ closed # <<>> /\ ~Problem(closed)
    /\ i \in CheckStart(N)..(N + 1) /\ (pc = "done" => i = N + 1)
    /\ StreaksOK /\ WindowsOK

ScanInv == Options /\ work \in 0..MaxWork /\ (Ready \/ NotJudged \/ Judging)
-----------------------------------------------------------------------------
(* The frames are closed in order.                                         *)

\* The closed frames are those of all windows that are due, in order.
LEMMA ClosedFramesOK ==
    ASSUME Options
    PROVE  /\ ClosedFrames \in Seq(DueFrames) /\ Len(ClosedFrames) = Cardinality(Due)
           /\ \A x, y \in 1..Len(ClosedFrames) : x < y => ClosedFrames[x].start < ClosedFrames[y].start
           /\ \A w \in Due : \E x \in 1..Len(ClosedFrames) : ClosedFrames[x].start = w
<1> DEFINE n == Cardinality(Due)
           cl == ClosedFrames
<1>1. Due \subseteq Nat /\ IsFiniteSet(Due)
  BY DueIs
<1>2. n \in Nat
  BY <1>1, FS_CardinalityType
<1>3. cl = [x \in 1..n |-> Frame(Nth(Due, x))]
  BY DEF ClosedFrames, Due
<1>4. \A x \in 1..n : Nth(Due, x) \in Due
  BY <1>1, NthIs
<1> HIDE DEF cl, n
<1>5. \A x \in 1..n : cl[x] = Frame(Nth(Due, x)) /\ cl[x] \in DueFrames /\ cl[x].start = Nth(Due, x)
  BY <1>3, <1>4 DEF DueFrames, Frame
<1>6. cl \in Seq(DueFrames) /\ Len(cl) = n
  BY <1>2, <1>3, <1>5
<1>7. ASSUME NEW x \in 1..n, NEW y \in 1..n, x < y PROVE cl[x].start < cl[y].start
  <2>1. Nth(Due, x) < Nth(Due, y)
    BY <1>1, <1>7, NthGrows DEF n
  <2>2. QED
    BY <1>5, <2>1
<1>8. ASSUME NEW w \in Due PROVE \E x \in 1..n : cl[x].start = w
  <2>1. \E x \in 1..n : Nth(Due, x) = w
    BY <1>1, NthOnto DEF n
  <2>2. QED
    BY <1>5, <2>1
<1>9. QED
  BY <1>6, <1>7, <1>8 DEF cl, n

\* Which windows are due depends on the options and the archive only.
LEMMA SameDue ==
    ASSUME opts' = opts, archive' = archive
    PROVE  Due' = Due /\ DueFrames' = DueFrames
<1>1. Due' = Due
  BY DEF Due, Starts
<1>2. \A w : Frame(w)' = Frame(w)
  BY DEF Frame
<1>3. QED
  BY <1>1, <1>2 DEF DueFrames

\* The places in the report depend on the options and the number of frames only.
LEMMA SamePlaces ==
    ASSUME opts' = opts, closed' = closed
    PROVE  /\ N' = N /\ RecentStart(N)' = RecentStart(N) /\ CheckStart(N)' = CheckStart(N)
           /\ BaselineStart(N)' = BaselineStart(N) /\ Problem(closed)' = Problem(closed)
  BY DEF N, RecentStart, CheckStart, BaselineStart, Problem

\* At first nothing is read.
LEMMA InitScan == Init => ScanInv
<1>1. SUFFICES ASSUME Init PROVE ScanInv
  OBVIOUS
<1>2. Options /\ Ready
  BY <1>1 DEF Init, Options, Ready
<1>3. work \in 0..MaxWork
  BY <1>1, ScanAssumption DEF Init
<1>4. QED
  BY <1>2, <1>3 DEF ScanInv

\* Start closes the frames, or finds no baseline.
LEMMA StartStep ==
    ASSUME ScanInv, Start
    PROVE  ScanInv'
<1>1. pc = "ready" /\ Ready /\ Options
  BY DEF Start, ScanInv, NotJudged, Judging
<1>2. opts' = opts /\ archive' = archive /\ streaks' = <<>> /\ work' = work /\ closed' = ClosedFrames
  BY <1>1 DEF Start, Ready
<1>3. Options'
  BY <1>1, <1>2 DEF Options
<1>4. Due' = Due /\ DueFrames' = DueFrames
  BY <1>2, SameDue
<1>5. ClosedOK'
  BY <1>1, <1>2, <1>4, ClosedFramesOK DEF ClosedOK
<1> DEFINE n == Len(closed')
           r == RecentStart(n)
<1>6. n \in Nat /\ closed' \in Seq(DueFrames')
  BY <1>5 DEF ClosedOK
<1>7. opts \in OptionSet /\ opts.recent \in Nat \ {0}
  BY <1>1, OptionTypes DEF Options
<1>8. r \in 1..(n + 1) /\ n - r + 1 <= opts.recent /\ n - r + 1 \in Nat
  BY <1>6, <1>7 DEF RecentStart, Larger
<1>9. work' \in 0..MaxWork
  BY <1>2 DEF ScanInv
<1>10. CASE closed' = <<>> \/ Problem(closed')
  <2>1. /\ pc' = "done" /\ status' = "not_ready" /\ i' = 0
        /\ windows' = [x \in 1..(n - r + 1) |-> NotReady(closed'[r - 1 + x])]
    BY <1>1, <1>10 DEF Start, Ready
  <2> HIDE DEF n, r
  <2>2. \A x \in 1..(n - r + 1) : r - 1 + x \in 1..n
    BY <1>6, <1>8
  <2>3. windows' \in Seq({NotReady(closed'[m]) : m \in 1..n}) /\ Len(windows') = n - r + 1
    <3> DEFINE S == {NotReady(closed'[m]) : m \in 1..n}
    <3>1. \A x \in 1..(n - r + 1) : NotReady(closed'[r - 1 + x]) \in S
      BY <2>2
    <3> HIDE DEF S
    <3>2. windows' \in Seq(S) /\ Len(windows') = n - r + 1
      BY <1>8, <2>1, <3>1
    <3>3. QED
      BY <3>2 DEF S
  <2>4. {NotReady(closed[m]) : m \in 1..N}' = {NotReady(closed'[m]) : m \in 1..n}
    BY DEF N, NotReady, n
  <2>5. Len(windows') <= opts'.recent
    BY <1>2, <1>8, <2>3
  <2>6. NotJudged'
    BY <1>2, <1>5, <2>1, <2>3, <2>4, <2>5 DEF NotJudged
  <2>7. QED
    BY <1>3, <1>9, <2>6 DEF ScanInv
<1>11. CASE ~(closed' = <<>> \/ Problem(closed'))
  <2>1. /\ pc' = "check" /\ i' = CheckStart(n) /\ status' = "evaluated" /\ windows' = <<>>
    BY <1>1, <1>11 DEF Start, Ready
  <2>2. n >= 1
    BY <1>6, <1>11
  <2>3. /\ N' = n /\ RecentStart(N)' = r /\ CheckStart(N)' = CheckStart(n)
        /\ Problem(closed)' = Problem(closed')
    BY <1>2 DEF N, RecentStart, CheckStart, BaselineStart, Problem
  <2>4. r \in 1..n /\ CheckStart(n) \in 1..r
    BY <1>6, <1>7, <2>2, PlacesAre
  <2> HIDE DEF n, r
  <2>5. i' = CheckStart(N)' /\ i' \in CheckStart(N)'..(N' + 1)
    BY <1>6, <2>1, <2>3, <2>4
  <2>6. StreaksOK'
    <3>1. DOMAIN streaks' = {}
      BY <1>2
    <3>2. QED
      BY <2>5, <3>1 DEF StreaksOK
  <2>7. Larger(0, i' - RecentStart(N)') = 0
    BY <1>6, <2>1, <2>3, <2>4 DEF Larger
  <2>8. Larger(0, i - RecentStart(N))' = Larger(0, i' - RecentStart(N)')
    BY DEF Larger
  <2>9. WindowsOK'
    BY <2>1, <2>7, <2>8 DEF WindowsOK
  <2>10. Judging'
    BY <1>5, <1>11, <2>1, <2>3, <2>5, <2>6, <2>9 DEF Judging
  <2>11. QED
    BY <1>3, <1>9, <2>10 DEF ScanInv
<1>12. QED
  BY <1>10, <1>11
-----------------------------------------------------------------------------
(* One window is judged.                                                   *)

\* While windows are judged, all places are in range.
LEMMA JudgingNumbers ==
    ASSUME Options, Judging
    PROVE  /\ N \in Nat /\ N >= 1 /\ HasBase
           /\ RecentStart(N) \in 1..N /\ CheckStart(N) \in 1..RecentStart(N)
           /\ BaselineStart(N) \in 1..CheckStart(N)
           /\ N - RecentStart(N) + 1 <= opts.recent
           /\ CheckStart(N) = RecentStart(N) - opts.persist + 1
           /\ i \in Nat /\ i >= CheckStart(N) /\ i <= N + 1
           /\ \A n \in 1..N : closed[n] \in DueFrames
<1>1. closed \in Seq(DueFrames) /\ closed # <<>> /\ ~Problem(closed)
  BY DEF Judging, ClosedOK
<1>2. N \in Nat /\ N >= 1 /\ \A n \in 1..N : closed[n] \in DueFrames
  BY <1>1 DEF N
<1> DEFINE r == RecentStart(N)
           c == CheckStart(N)
           a == BaselineStart(N)
<1>3. /\ r \in 1..N /\ c \in 1..r /\ a \in 1..c /\ N - r + 1 <= opts.recent
      /\ (c > 1 => c = r - opts.persist + 1)
  BY <1>2, PlacesAre DEF Options
<1>4. ~(c - a < MinBaseline)
  BY <1>1 DEF Problem, N
<1>5. i \in c..(N + 1)
  BY DEF Judging
<1> HIDE DEF r, c, a
<1>6. MinBaseline \in Nat \ {0}
  BY ScanAssumption
<1>7. c - a >= MinBaseline /\ c > 1
  BY <1>2, <1>3, <1>4, <1>6
<1>8. HasBase
  BY <1>2, <1>7 DEF HasBase, N, c, a
<1>9. QED
  BY <1>2, <1>3, <1>5, <1>7, <1>8 DEF r, c, a

\* While nothing else changes, findings and streaks stay.
LEMMA SameFound ==
    ASSUME Fixed
    PROVE  /\ \A n : Found(n)' = Found(n) /\ Reported(n)' = Reported(n)
           /\ \A c, n, k : Lasts(c, n, k)' = Lasts(c, n, k)
           /\ \A n : Judged(n)' = Judged(n)
           /\ JudgedWindows' = JudgedWindows
<1>1. opts' = opts /\ closed' = closed
  BY DEF Fixed
<1>2. N' = N /\ CheckStart(N)' = CheckStart(N) /\ RecentStart(N)' = RecentStart(N)
  BY <1>1, SamePlaces
<1>3. ASSUME NEW n PROVE Found(n)' = Found(n)
  <2> DEFINE f == closed[n]
  <2>1. f' = f
    BY <1>1
  <2>2. PICK g : g = f
    OBVIOUS
  <2>3. Candidates(g)' = Candidates(g)
    BY SameCandidates
  <2>4. QED
    BY <1>1, <2>1, <2>2, <2>3 DEF Found
<1>4. ASSUME NEW c, NEW n, NEW k PROVE Lasts(c, n, k)' = Lasts(c, n, k)
  BY <1>2, <1>3 DEF Lasts
<1>5. ASSUME NEW n PROVE Reported(n)' = Reported(n)
  BY <1>1, <1>3, <1>4 DEF Reported
<1>6. ASSUME NEW n PROVE Verdict(closed[n])' = Verdict(closed[n])
  <2>1. PICK g : g = closed[n]
    OBVIOUS
  <2>2. Limited(g)' = Limited(g)
    BY SameLimited
  <2>3. QED
    BY <1>1, <2>1, <2>2 DEF Verdict
<1>7. ASSUME NEW n PROVE Judged(n)' = Judged(n)
  BY <1>1, <1>3, <1>5, <1>6 DEF Judged
<1>8. JudgedWindows' = JudgedWindows
  BY <1>2, <1>7 DEF JudgedWindows
<1>9. QED
  BY <1>3, <1>4, <1>5, <1>7, <1>8

\* The work of a window is a number.
LEMMA WorkIs ==
    ASSUME Options, Judging, NEW f \in DueFrames
    PROVE  WorkOf(f) \in Nat
<1> DEFINE g == [m \in Measurements |-> IF Usable(f, m) THEN Cardinality(Items(f.data.sketch[m])) * Len(Base) ELSE 0]
<1>1. Len(Base) \in Nat
  BY JudgingNumbers, BaseIs DEF Judging
<1>2. ASSUME NEW m \in Measurements PROVE g[m] \in Nat
  <2>1. IsFiniteSet(Items(f.data.sketch[m])) /\ Items(f.data.sketch[m]) \subseteq Keys
    <3>1. Items(f.data.sketch[m]) \subseteq Keys
      BY DEF Items
    <3>2. QED
      BY <3>1, FS_Subset, ScanAssumption
  <2>2. Cardinality(Items(f.data.sketch[m])) \in Nat
    BY <2>1, FS_CardinalityType
  <2>3. Cardinality(Items(f.data.sketch[m])) * Len(Base) \in Nat
    BY <1>1, <2>2
  <2>4. QED
    BY <2>3
<1> HIDE DEF g
<1>3. SumFunctionOnSet(g, Measurements) \in Nat
  BY <1>2, SumType, ScanAssumption
<1>4. QED
  BY <1>3 DEF WorkOf, g

\* One more window: the streaks grow by it or end.
LEMMA StreakStep ==
    ASSUME Options, Judging, i <= N, NEW c \in Found(i)
    PROVE  /\ Seen(c) + 1 \in 1..(i + 1 - CheckStart(N))
           /\ \A k \in Nat : Seen(c) + 1 >= k <=> Lasts(c, i, k)
<1> DEFINE s == CheckStart(N)
<1>1. /\ i \in Nat /\ i >= s /\ s \in Nat
  BY JudgingNumbers
<1>2. StreaksOK
  BY DEF Judging
<1>3. c \in DOMAIN streaks => i > s /\ streaks[c] \in 1..(i - s)
  BY <1>1, <1>2 DEF StreaksOK
<1>4. Seen(c) \in Nat /\ Seen(c) <= i - s
  BY <1>1, <1>3 DEF Seen
<1>5. ASSUME NEW k \in Nat PROVE Seen(c) >= k <=> Lasts(c, i - 1, k)
  <2>1. CASE c \in DOMAIN streaks
    BY <1>2, <2>1 DEF StreaksOK, Seen
  <2>2. CASE c \notin DOMAIN streaks
    <3>1. Seen(c) = 0
      BY <2>2 DEF Seen
    <3>2. k = 0 => Lasts(c, i - 1, k)
      BY <1>1 DEF Lasts
    <3>3. ASSUME k > 0 PROVE ~Lasts(c, i - 1, k)
      <4>1. i - 1 \in (i - 1 - k + 1)..(i - 1)
        BY <1>1, <3>3
      <4>2. ~(i - 1 >= s /\ c \in Found(i - 1))
        BY <1>1, <1>2, <2>2 DEF StreaksOK
      <4>3. QED
        BY <4>1, <4>2 DEF Lasts
    <3>4. QED
      BY <3>1, <3>2, <3>3
  <2>3. QED
    BY <2>1, <2>2
<1>6. ASSUME NEW k \in Nat PROVE Seen(c) + 1 >= k <=> Lasts(c, i, k)
  <2>1. CASE k = 0
    <3>1. Lasts(c, i, k)
      BY <1>1, <2>1 DEF Lasts
    <3>2. QED
      BY <1>4, <2>1, <3>1
  <2>2. CASE k # 0
    <3>1. k - 1 \in Nat /\ (i - 1) - (k - 1) + 1 = i - k + 1
      BY <1>1, <2>2
    <3>2. (i - k + 1)..i = ((i - k + 1)..(i - 1)) \cup {i}
      BY <1>1, <2>2
    <3>3. Lasts(c, i, k) <=> Lasts(c, i - 1, k - 1)
      BY <1>1, <3>1, <3>2 DEF Lasts
    <3>4. Seen(c) >= k - 1 <=> Lasts(c, i - 1, k - 1)
      BY <1>5, <3>1
    <3>5. QED
      BY <1>4, <3>3, <3>4
  <2>3. QED
    BY <2>1, <2>2
<1>7. QED
  BY <1>1, <1>4, <1>6

\* Nothing but the phase changes.
LEMMA JudgingKept ==
    ASSUME Options, Judging, Fixed, UNCHANGED <<status, i, streaks, windows>>,
           pc' \in {"check", "done", "error"}, pc' = "done" => i = N + 1
    PROVE  Options' /\ Judging'
<1>1. opts' = opts /\ archive' = archive /\ closed' = closed
  BY DEF Fixed
<1>2. Options'
  BY <1>1 DEF Options
<1>3. ClosedOK'
  BY <1>1, SameDue DEF ClosedOK, Judging
<1>4. N' = N /\ RecentStart(N)' = RecentStart(N) /\ CheckStart(N)' = CheckStart(N) /\ Problem(closed)' = Problem(closed)
  BY <1>1, SamePlaces
<1>5. StreaksOK'
  <2>1. StreaksOK
    BY DEF Judging
  <2>2. Found(i - 1)' = Found(i - 1)
    BY SameFound DEF Found
  <2>3. ASSUME NEW c, NEW k PROVE Lasts(c, i - 1, k)' = Lasts(c, i - 1, k)
    BY SameFound DEF Lasts
  <2>4. QED
    BY <1>4, <2>1, <2>2, <2>3 DEF StreaksOK
<1>6. WindowsOK'
  <2>1. WindowsOK
    BY DEF Judging
  <2>2. JudgedWindows' = JudgedWindows /\ \A n : Judged(n)' = Judged(n)
    BY SameFound
  <2>3. \A x : Judged(RecentStart(N) - 1 + x)' = Judged(RecentStart(N) - 1 + x)
    BY <1>4, <2>2 DEF Judged
  <2>4. Larger(0, i - RecentStart(N))' = Larger(0, i - RecentStart(N))
    BY <1>4 DEF Larger
  <2>5. QED
    BY <1>4, <2>1, <2>2, <2>3, <2>4 DEF WindowsOK
<1>7. QED
  BY <1>1, <1>2, <1>3, <1>4, <1>5, <1>6 DEF Judging

\* A window that is checked extends each streak it belongs to.
LEMMA CheckStep ==
    ASSUME ScanInv, CheckWindow
    PROVE  ScanInv'
<1> DEFINE f == closed[i]
           found == Found(i)
           new == NextStreaks(found)
           lasting == {c \in found : new[c] >= opts.persist}
           spent == IF f.complete THEN work + WorkOf(f) ELSE work
           r == RecentStart(N)
           s == CheckStart(N)
<1>1. Options /\ Judging /\ pc = "check" /\ i <= N
  BY DEF CheckWindow, ScanInv, Ready, NotJudged, N
<1>2. /\ N \in Nat /\ N >= 1 /\ r \in 1..N /\ s \in 1..r
      /\ i \in Nat /\ i >= s /\ i <= N
      /\ \A n \in 1..N : closed[n] \in DueFrames
  BY <1>1, JudgingNumbers
<1>3. Fixed
  BY DEF CheckWindow, Fixed
<1>4. found = IF f.complete THEN Candidates(f) ELSE {}
  BY DEF Found
<1>5. work \in 0..MaxWork /\ work \in Nat /\ MaxWork \in Nat
  BY ScanAssumption DEF ScanInv
<1>6. CASE OverBudget(spent)
  <2>1. pc' = "error" /\ UNCHANGED <<status, i, streaks, work, windows>>
    BY <1>6 DEF CheckWindow
  <2>2. Options' /\ Judging'
    BY <1>1, <1>3, <2>1, JudgingKept
  <2>3. QED
    BY <1>5, <2>1, <2>2 DEF ScanInv
<1>7. CASE ~OverBudget(spent)
  <2>1. /\ streaks' = new /\ work' = spent /\ i' = i + 1 /\ pc' = "check"
        /\ IF i < r THEN UNCHANGED <<status, windows>>
           ELSE /\ windows' = Append(windows, [start |-> f.start, status |-> Verdict(f), findings |-> lasting,
                                               pending |-> Cardinality(found \ lasting),
                                               omitted |-> Larger(0, Cardinality(lasting) - opts.top)])
                /\ status' = IF Verdict(f) # "evaluated" THEN "limited" ELSE status
    BY <1>1, <1>4, <1>7 DEF CheckWindow, Verdict, N
  <2>2. work' \in 0..MaxWork
    <3>1. spent \in Nat
      BY <1>1, <1>2, <1>5, WorkIs
    <3>2. ~(spent > MaxWork)
      BY <1>7 DEF OverBudget
    <3>3. QED
      BY <1>5, <2>1, <3>1, <3>2
  <2>3. opts' = opts /\ archive' = archive /\ closed' = closed
    BY <1>3 DEF Fixed
  <2>4. Options'
    BY <1>1, <2>3 DEF Options
  <2>5. ClosedOK' /\ closed' # <<>>
    BY <1>1, <2>3, SameDue DEF ClosedOK, Judging
  <2>6. N' = N /\ RecentStart(N)' = r /\ CheckStart(N)' = s /\ ~Problem(closed)'
    BY <1>1, <2>3, SamePlaces DEF Judging
  <2>7. i' \in CheckStart(N)'..(N' + 1)
    BY <1>2, <2>1, <2>6
  <2>8. \A c \in found : /\ new[c] = Seen(c) + 1
                         /\ new[c] \in 1..(i + 1 - s)
                         /\ \A k \in Nat : new[c] >= k <=> Lasts(c, i, k)
    BY <1>1, StreakStep DEF NextStreaks
  <2>9. DOMAIN new = found
    BY DEF NextStreaks
  <2> HIDE DEF new, spent, s, r
  <2>10. StreaksOK'
    <3>1. Found(i - 1)' = found
      <4>1. PICK n : n = i
        OBVIOUS
      <4>2. (i - 1)' = n
        BY <1>2, <2>1, <4>1
      <4>3. Found(n)' = Found(n)
        BY <1>3, SameFound
      <4>4. QED
        BY <4>1, <4>2, <4>3 DEF Found
    <3>2. ASSUME NEW c, NEW k PROVE Lasts(c, i - 1, k)' = Lasts(c, i, k)
      <4>1. PICK n : n = i
        OBVIOUS
      <4>2. (i - 1)' = n
        BY <1>2, <2>1, <4>1
      <4>3. Lasts(c, n, k)' = Lasts(c, n, k)
        BY <1>3, SameFound
      <4>4. QED
        BY <4>1, <4>2, <4>3 DEF Lasts
    <3>3. i' # CheckStart(N)'
      BY <1>2, <2>1, <2>6 DEF s
    <3>4. DOMAIN streaks' = found
      BY <2>1, <2>9
    <3>5. ASSUME NEW c \in found
          PROVE  /\ streaks'[c] \in 1..(i' - CheckStart(N)')
                 /\ \A k \in Nat : streaks'[c] >= k <=> Lasts(c, i - 1, k)'
      <4>1. i' - CheckStart(N)' = i + 1 - s
        <5>1. CheckStart(N)' = s /\ i' = i + 1
          BY <2>1, <2>6
        <5>2. i \in Int /\ s \in Int
          BY <1>2 DEF s
        <5>3. QED
          BY <5>1, <5>2
      <4>2. QED
        BY <2>1, <2>8, <3>2, <4>1
    <3>6. QED
      BY <3>1, <3>3, <3>4, <3>5 DEF StreaksOK
  <2>11. WindowsOK
    BY <1>1 DEF Judging
  <2>12. /\ JudgedWindows' = JudgedWindows /\ \A n : Judged(n)' = Judged(n)
    BY <1>3, SameFound
  <2>13. \A x : Judged(RecentStart(N) - 1 + x)' = Judged(r - 1 + x)
    <3>1. ASSUME NEW x PROVE Judged(RecentStart(N) - 1 + x)' = Judged(r - 1 + x)
      <4>1. PICK n : n = r - 1 + x
        OBVIOUS
      <4>2. (RecentStart(N) - 1 + x)' = n
        BY <2>6, <4>1
      <4>3. Judged(n)' = Judged(n)
        BY <2>12
      <4>4. QED
        BY <4>1, <4>2, <4>3 DEF Judged
    <3>2. QED
      BY <3>1
  <2>14. Larger(0, i - RecentStart(N))' = Larger(0, i' - r)
    BY <2>6 DEF Larger
  <2>15. WindowsOK'
    <3>1. CASE i < r
      <4>1. windows' = windows /\ status' = status
        BY <2>1, <3>1
      <4>2. Larger(0, i' - r) = 0 /\ Larger(0, i - r) = 0
        BY <1>2, <2>1, <3>1 DEF Larger, r
      <4>3. Len(windows) = 0 /\ windows \in Seq(JudgedWindows) /\ status \in {"evaluated", "limited"}
        BY <2>11, <4>2 DEF WindowsOK, r
      <4>4. QED
        BY <2>12, <2>14, <4>1, <4>2, <4>3 DEF WindowsOK
    <3>2. CASE i >= r
      <4>1. lasting = Reported(i)
        <5>1. opts.persist \in Nat
          BY <1>1, OptionTypes DEF Options
        <5>2. QED
          BY <2>8, <5>1 DEF Reported
      <4>2. windows' = Append(windows, Judged(i))
        <5>1. ~(i < r)
          BY <1>2, <3>2 DEF r
        <5>2. QED
          BY <2>1, <4>1, <5>1 DEF Judged
      <4>3. Judged(i) \in JudgedWindows
        BY <1>2, <3>2 DEF JudgedWindows, r
      <4>4. windows \in Seq(JudgedWindows) /\ Len(windows) = i - r
        <5>1. Larger(0, i - r) = i - r
          BY <1>2, <3>2 DEF Larger, r
        <5>2. QED
          BY <2>11, <5>1 DEF WindowsOK, r
      <4>5. windows' \in Seq(JudgedWindows) /\ Len(windows') = i - r + 1
        BY <4>2, <4>3, <4>4
      <4>6. Larger(0, i' - r) = i - r + 1
        BY <1>2, <2>1, <3>2 DEF Larger, r
      <4>7. ASSUME NEW x \in 1..Len(windows') PROVE windows'[x] = Judged(r - 1 + x)
        <5>1. CASE x = i - r + 1
          <6>1. r - 1 + x = i
            BY <1>2, <5>1 DEF r
          <6>2. windows'[x] = Judged(i)
            BY <4>2, <4>3, <4>4, <5>1
          <6>3. QED
            BY <6>1, <6>2
        <5>2. CASE x # i - r + 1
          <6>1. x \in 1..Len(windows)
            BY <1>2, <3>2, <4>4, <4>5, <5>2 DEF r
          <6>2. windows'[x] = windows[x]
            BY <4>2, <4>3, <4>4, <6>1
          <6>3. windows[x] = Judged(r - 1 + x)
            BY <2>11, <6>1 DEF WindowsOK, r
          <6>4. QED
            BY <6>2, <6>3
        <5>3. QED
          BY <5>1, <5>2
      <4>8. status' \in {"evaluated", "limited"}
            /\ (status' = "evaluated" => status = "evaluated" /\ Verdict(f) = "evaluated")
        <5>1. ~(i < r)
          BY <1>2, <3>2 DEF r
        <5>2. status' = IF Verdict(f) # "evaluated" THEN "limited" ELSE status
          BY <2>1, <5>1
        <5>3. status \in {"evaluated", "limited"}
          BY <2>11 DEF WindowsOK
        <5>4. QED
          BY <5>2, <5>3
      <4>9. ASSUME status' = "evaluated", NEW x \in 1..Len(windows') PROVE windows'[x].status = "evaluated"
        <5>1. CASE x = i - r + 1
          <6>1. windows'[x] = Judged(i)
            BY <4>2, <4>3, <4>4, <5>1
          <6>2. QED
            BY <4>8, <4>9, <6>1 DEF Judged
        <5>2. CASE x # i - r + 1
          <6>1. x \in 1..Len(windows)
            BY <1>2, <3>2, <4>4, <4>5, <5>2 DEF r
          <6>2. windows'[x] = windows[x]
            BY <4>2, <4>3, <4>4, <6>1
          <6>3. windows[x].status = "evaluated"
            BY <2>11, <4>8, <4>9, <6>1 DEF WindowsOK
          <6>4. QED
            BY <6>2, <6>3
        <5>3. QED
          BY <5>1, <5>2
      <4>10. QED
        BY <2>12, <2>13, <2>14, <4>5, <4>6, <4>7, <4>8, <4>9 DEF WindowsOK
    <3>3. QED
      BY <1>2, <3>1, <3>2 DEF r
  <2>16. Judging'
    BY <2>1, <2>5, <2>6, <2>7, <2>10, <2>15 DEF Judging
  <2>17. QED
    BY <2>2, <2>4, <2>16 DEF ScanInv
<1>8. QED
  BY <1>6, <1>7

\* Finish ends the report.
LEMMA FinishStep ==
    ASSUME ScanInv, Finish
    PROVE  ScanInv'
<1>1. Options /\ Judging /\ pc = "check"
  BY DEF Finish, ScanInv, Ready, NotJudged
<1>2. Fixed /\ pc' = "done" /\ UNCHANGED <<status, i, streaks, work, windows>>
  BY DEF Finish, Fixed
<1>3. i = N + 1
  <2>1. i \in Nat /\ N \in Nat /\ i <= N + 1
    BY <1>1, JudgingNumbers
  <2>2. ~(i <= N)
    <3>1. i > N
      BY DEF Finish, N
    <3>2. QED
      BY <2>1, <3>1
  <2>3. QED
    BY <2>1, <2>2
<1>4. Options' /\ Judging'
  BY <1>1, <1>2, <1>3, JudgingKept
<1>5. QED
  BY <1>2, <1>4 DEF ScanInv

\* Nothing happens.
LEMMA StutterStep ==
    ASSUME ScanInv, UNCHANGED vars
    PROVE  ScanInv'
<1>1. /\ opts' = opts /\ archive' = archive /\ closed' = closed /\ pc' = pc /\ work' = work
      /\ status' = status /\ i' = i /\ streaks' = streaks /\ windows' = windows
  BY DEF vars
<1>2. Options' /\ work' \in 0..MaxWork
  BY <1>1 DEF ScanInv, Options
<1>3. CASE Ready
  BY <1>1, <1>2, <1>3 DEF Ready, ScanInv
<1>4. CASE NotJudged
  <2>1. ClosedOK'
    BY <1>1, <1>4, SameDue DEF ClosedOK, NotJudged
  <2>2. QED
    BY <1>1, <1>2, <1>4, <2>1 DEF NotJudged, ScanInv, N
<1>5. CASE Judging
  <2>1. Fixed /\ pc' \in {"check", "done", "error"} /\ (pc' = "done" => i = N + 1)
    BY <1>1, <1>5 DEF Fixed, Judging
  <2>2. Options' /\ Judging'
    BY <1>1, <1>5, <2>1, JudgingKept DEF ScanInv
  <2>3. QED
    BY <1>2, <2>2 DEF ScanInv
<1>6. QED
  BY <1>3, <1>4, <1>5 DEF ScanInv

\* The invariant of the scan.
LEMMA ScanInvariant == Spec => []ScanInv
<1>1. ASSUME ScanInv, [Next]_vars PROVE ScanInv'
  BY <1>1, StartStep, CheckStep, FinishStep, StutterStep DEF Next
<1>2. QED
  BY InitScan, <1>1, PTL DEF Spec
-----------------------------------------------------------------------------
(* Findings about contributors.                                            *)

\* Whatever the sketches dropped, a reported contributor really did what the
\* finding says.
THEOREM FindingsAreTrue == Spec => []FindingsTrue
<1>1. ASSUME ScanInv PROVE FindingsTrue
  <2>1. SUFFICES ASSUME pc = "done", NEW x \in DOMAIN windows, NEW c \in windows[x].findings, c.of # None
                 PROVE  LET s == WindowOf(windows[x]).data.sketch[c.of]
                            true == s.truth[c.key]
                        IN \A b \in ToSet(Base) :
                              LET t == b.data.sketch[c.of]
                              IN IF Rankings[c.of].errors THEN true > t.truth[c.key]
                                 ELSE /\ 100 * true > opts.floor * Total(s)
                                      /\ true * Total(t) > t.truth[c.key] * Total(s)
                                      /\ c.signal = "top_share" =>
                                            \A key \in Keys : true * Total(t) > t.truth[key] * Total(s)
    BY DEF FindingsTrue
  <2>2. ~Ready
    BY <2>1 DEF Ready
  <2>3. ~NotJudged
    <3>1. SUFFICES ASSUME NotJudged PROVE FALSE
      OBVIOUS
    <3>2. PICK n \in 1..N : windows[x] = NotReady(closed[n])
      BY <2>1, <3>1 DEF NotJudged
    <3>3. windows[x].findings = {}
      BY <3>2 DEF NotReady
    <3>4. QED
      BY <2>1, <3>3
  <2>4. Options /\ Judging /\ ClosedOK
    BY <1>1, <2>2, <2>3 DEF ScanInv, Judging
  <2>5. HasBase
    BY <2>4, JudgingNumbers
  <2>6. PICK n \in RecentStart(N)..N : windows[x] = Judged(n)
    BY <2>1, <2>4 DEF Judging, WindowsOK, JudgedWindows
  <2>7. n \in 1..N
    BY <2>4, JudgingNumbers
  <2>8. closed[n] \in DueFrames
    BY <2>4, <2>7, JudgingNumbers
  <2>9. closed[n] = Frame(closed[n].start)
    BY <2>4, <2>8, FrameIs
  <2>10. windows[x].start = closed[n].start /\ c \in Candidates(closed[n])
    BY <2>1, <2>6 DEF Judged, Reported, Found
  <2>11. WindowOf(windows[x]) = closed[n]
    BY <2>9, <2>10 DEF WindowOf
  <2>12. Holds(c, closed[n])
    BY <2>1, <2>4, <2>5, <2>8, <2>10, CandidatesHold
  <2>13. QED
    BY <2>11, <2>12 DEF Holds
<1>2. QED
  BY ScanInvariant, <1>1, PTL
-----------------------------------------------------------------------------
(* Windows follow each other.                                              *)

\* Without a gap, the windows from the baseline on are numbered like their
\* places.
LEMMA NoGap ==
    ASSUME Options, Judging
    PROVE  \A y \in BaselineStart(N)..N :
              closed[y].start = closed[BaselineStart(N)].start + (y - BaselineStart(N))
<1> DEFINE a == BaselineStart(N)
           first == closed[a].start
           Bad == {y \in a..N : closed[y].start # first + (y - a)}
<1>1. /\ N \in Nat /\ a \in 1..N /\ \A n \in 1..N : closed[n] \in DueFrames
  BY JudgingNumbers
<1>2. \A n \in 1..N : closed[n].start \in Nat /\ closed[n].end = closed[n].start + 1
  BY <1>1, FrameIs
<1>3. ~Problem(closed)
  BY DEF Judging
<1>4. \A y \in a..N : y > a => closed[y - 1].end = closed[y].start
  BY <1>3 DEF Problem, N
<1> HIDE DEF a
<1>5. SUFFICES ASSUME Bad # {} PROVE FALSE
  BY DEF a
<1>6. Bad \subseteq Nat /\ IsFiniteSet(Bad)
  <2>1. IsFiniteSet(a..N) /\ Bad \subseteq a..N
    BY <1>1, FS_Interval
  <2>2. QED
    BY <1>1, <2>1, FS_Subset
<1>7. PICK y \in Bad : \A z \in Bad : y <= z
  BY <1>5, <1>6, Extremes
<1>8. y \in a..N /\ closed[y].start # first + (y - a)
  OBVIOUS
<1>9. y # a
  BY <1>1, <1>2, <1>8
<1>10. y - 1 \in a..N /\ y - 1 \notin Bad
  BY <1>1, <1>7, <1>8, <1>9
<1>11. closed[y - 1].start = first + (y - 1 - a)
  BY <1>10
<1>12. closed[y].start = closed[y - 1].start + 1
  BY <1>1, <1>2, <1>4, <1>8, <1>9, <1>10
<1>13. first \in Nat /\ a \in Nat /\ y \in Nat
  BY <1>1, <1>2, <1>8
<1>14. QED
  BY <1>8, <1>11, <1>12, <1>13

\* A judged window is none of the baseline.
LEMMA NotInBase ==
    ASSUME Options, Judging, NEW y \in CheckStart(N)..N
    PROVE  closed[y] \notin ToSet(Base)
<1> DEFINE a == BaselineStart(N)
           s == CheckStart(N)
<1>1. N \in Nat /\ s \in 1..N /\ a \in 1..s /\ HasBase
  BY JudgingNumbers
<1>2. ClosedOK
  BY DEF Judging
<1>3. ToSet(Base) = {closed[z] : z \in a..(s - 1)}
  BY <1>1, <1>2, BaseIs DEF N
<1> HIDE DEF a, s
<1>4. SUFFICES ASSUME NEW z \in a..(s - 1), closed[y] = closed[z] PROVE FALSE
  BY <1>3
<1>5. y \in 1..N /\ z \in 1..N /\ z < y
  BY <1>1 DEF s
<1>6. closed[z].start < closed[y].start
  BY <1>2, <1>5 DEF ClosedOK, N
<1>7. closed[z].start \in Nat
  BY <1>5, JudgingNumbers, FrameIs
<1>8. QED
  BY <1>4, <1>6, <1>7

\* A reported finding lasted as long as asked, without a break and without
\* the baseline's help, and no finding that did is left out.
THEOREM PersistenceIsExact == Spec => []PersistenceExact
<1>1. ASSUME ScanInv PROVE PersistenceExact
  <2> DEFINE Run(l) == (l - opts.persist + 1)..l
             U(w) == IF w \in Starts /\ Frame(w).complete /\ Frame(w) \notin ToSet(Base)
                     THEN Candidates(Frame(w)) ELSE {}
             Unusual(l) == [w \in Run(l) |-> U(w)]
  <2>1. SUFFICES ASSUME pc = "done", NEW x \in DOMAIN windows, windows[x].status # "not_ready"
                 PROVE  windows[x].findings = {c \in Unusual(windows[x].start)[windows[x].start] :
                            \A w \in Run(windows[x].start) : c \in Unusual(windows[x].start)[w]}
    BY DEF PersistenceExact
  <2>2. ~Ready
    BY <2>1 DEF Ready
  <2>3. ~NotJudged
    <3>1. SUFFICES ASSUME NotJudged PROVE FALSE
      OBVIOUS
    <3>2. PICK n \in 1..N : windows[x] = NotReady(closed[n])
      BY <2>1, <3>1 DEF NotJudged
    <3>3. QED
      BY <2>1, <3>2 DEF NotReady
  <2>4. Options /\ Judging
    BY <1>1, <2>2, <2>3 DEF ScanInv
  <2>5. PICK n \in RecentStart(N)..N : windows[x] = Judged(n)
    BY <2>1, <2>4 DEF Judging, WindowsOK, JudgedWindows
  <2> DEFINE last == closed[n].start
             a == BaselineStart(N)
             s == CheckStart(N)
             first == closed[a].start
             p == opts.persist
  <2>6. /\ N \in Nat /\ s \in 1..N /\ a \in 1..s /\ n \in s..N /\ s <= n - p + 1
        /\ p \in Nat \ {0}
    <3>1. p \in Nat \ {0}
      BY <2>4, OptionTypes DEF Options
    <3>2. N \in Nat /\ RecentStart(N) \in 1..N /\ s \in 1..RecentStart(N) /\ a \in 1..s
          /\ s = RecentStart(N) - p + 1
      BY <2>4, JudgingNumbers
    <3>3. QED
      BY <3>1, <3>2
  <2>7. \A y \in a..N : closed[y] \in DueFrames /\ closed[y].start = first + (y - a)
    BY <2>4, <2>6, NoGap, JudgingNumbers
  <2>8. first \in Nat
    <3>1. closed[a] \in DueFrames
      BY <2>6, <2>7
    <3>2. QED
      BY <2>4, <3>1, FrameIs
  <2>9. windows[x].start = last /\ windows[x].findings = Reported(n)
    BY <2>5 DEF Judged
  <2> HIDE DEF s, a, p, first
  <2>10. last \in Nat /\ last = first + (n - a)
    BY <2>6, <2>7, <2>8
  <2>11. ASSUME NEW y \in s..N PROVE U(closed[y].start) = Found(y)
    <3>1. closed[y] \in DueFrames
      BY <2>6, <2>7
    <3>2. closed[y] = Frame(closed[y].start) /\ closed[y].start \in Starts
      BY <2>4, <3>1, FrameIs DEF Due
    <3>3. closed[y] \notin ToSet(Base)
      BY <2>4, NotInBase DEF s
    <3>4. QED
      BY <3>2, <3>3 DEF Found
  <2> HIDE DEF last, U
  <2>12. ASSUME NEW w \in Run(last) PROVE \E y \in (n - p + 1)..n : U(w) = Found(y)
    <3> DEFINE y == n - (last - w)
    <3>1. y \in (n - p + 1)..n /\ y \in s..N /\ y \in a..N
      BY <2>6, <2>10 DEF p
    <3>2. closed[y].start = w
      BY <2>6, <2>7, <2>8, <2>10, <3>1
    <3>3. U(w) = Found(y)
      BY <2>11, <3>1, <3>2
    <3>4. QED
      BY <3>1, <3>3
  <2>13. ASSUME NEW y \in (n - p + 1)..n PROVE \E w \in Run(last) : U(w) = Found(y)
    <3> DEFINE w == last - (n - y)
    <3>1. w \in Run(last) /\ y \in s..N /\ y \in a..N
      BY <2>6, <2>10 DEF p
    <3>2. closed[y].start = w
      BY <2>6, <2>7, <2>8, <2>10, <3>1
    <3>3. U(w) = Found(y)
      BY <2>11, <3>1, <3>2
    <3>4. QED
      BY <3>1, <3>3
  <2>14. last \in Run(last)
    BY <2>6, <2>10 DEF p
  <2>15. U(last) = Found(n)
    <3>1. n \in s..N
      BY <2>6
    <3>2. QED
      BY <2>11, <3>1 DEF last
  <2>16. \A c \in Found(n) : Lasts(c, n, p) <=> \A w \in Run(last) : c \in U(w)
    <3>1. \A c : Lasts(c, n, p) <=> \A y \in (n - p + 1)..n : c \in Found(y)
      <4>1. \A y \in (n - p + 1)..n : y >= s
        BY <2>6
      <4>2. QED
        BY <4>1 DEF Lasts, s
    <3>2. QED
      BY <2>12, <2>13, <3>1
  <2>17. Reported(n) = {c \in U(last) : \A w \in Run(last) : c \in U(w)}
    BY <2>15, <2>16 DEF Reported, p
  <2>18. \A w \in Run(last) : Unusual(last)[w] = U(w)
    OBVIOUS
  <2>19. QED
    BY <2>9, <2>14, <2>17, <2>18
<1>2. QED
  BY ScanInvariant, <1>1, PTL
-----------------------------------------------------------------------------
(* A quiet answer.                                                         *)

\* No document of a window was emitted after its latest.
LEMMA EmittedIs ==
    ASSUME Options, NEW f \in DueFrames
    PROVE  f.emitted \in Nat /\ \A d \in f.data.docs : d.emitted \in Nat /\ d.emitted <= f.emitted
<1> DEFINE S == {d.emitted : d \in f.data.docs}
<1>1. PICK w \in Due : f = Frame(w)
  BY DEF DueFrames
<1>2. f.data = archive[w] /\ f.emitted = Max(S)
  BY <1>1 DEF Frame
<1>3. f.data \in Frames
  BY FrameIs
<1>4. IsFiniteSet(f.data.docs) /\ f.data.docs # {} /\ \A d \in f.data.docs : d.emitted \in Nat
  BY <1>3, ScanAssumption DEF FrameFields
<1>5. IsFiniteSet(S)
  <2> DEFINE g == [d \in f.data.docs |-> d.emitted]
  <2>1. IsFiniteSet({g[d] : d \in f.data.docs})
    BY <1>4, ImageFinite
  <2>2. {g[d] : d \in f.data.docs} = S
    OBVIOUS
  <2>3. QED
    BY <2>1, <2>2
<1>6. S \subseteq Nat /\ S # {} /\ \A d \in f.data.docs : d.emitted \in S
  BY <1>4
<1> HIDE DEF S
<1>7. Max(S) \in Nat /\ \A x \in S : x <= Max(S)
  BY <1>5, <1>6, MaxIs
<1>8. QED
  BY <1>2, <1>4, <1>6, <1>7

\* The scan says nothing is unusual only if it looked at everything due.
THEOREM QuietIsNoHole == Spec => []QuietIsCovered
<1>1. ASSUME ScanInv PROVE QuietIsCovered
  <2> DEFINE a == BaselineStart(N)
             s == CheckStart(N)
             first == closed[a].start
             last == closed[N].start
  <2>1. SUFFICES ASSUME pc = "done", ExitCode = 0
                 PROVE  /\ first..last \subseteq Starts /\ last - first + 1 >= MinBaseline + 1
                        /\ \A w \in Starts : w + 1 <= opts.now => w <= last
                        /\ opts.now - (last + 1) <= opts.maxAge
                        /\ \A b \in ToSet(Base) : b.complete
                        /\ \A x \in DOMAIN windows : Frame(windows[x].start).complete
                        /\ \A w \in first..last : \A d \in archive[w].docs : d.emitted <= opts.now
    BY DEF QuietIsCovered, N
  <2>2. status = "evaluated"
    BY <2>1 DEF ExitCode
  <2>3. Options /\ Judging
    BY <1>1, <2>1, <2>2 DEF ScanInv, Ready, NotJudged
  <2>4. /\ N \in Nat /\ N >= 1 /\ s \in 1..N /\ a \in 1..s /\ HasBase
        /\ \A y \in 1..N : closed[y] \in DueFrames
    BY <2>3, JudgingNumbers
  <2>5. ~Problem(closed) /\ ClosedOK /\ WindowsOK
    BY <2>3 DEF Judging
  <2>6. \A y \in a..N : closed[y].start = first + (y - a)
    BY <2>3, NoGap
  <2>7. \A y \in 1..N : closed[y].start \in Due /\ closed[y].start \in Nat /\ closed[y].end = closed[y].start + 1
                        /\ closed[y] = Frame(closed[y].start) /\ closed[y].data = archive[closed[y].start]
    BY <2>3, <2>4, FrameIs
  <2>8. s - a >= MinBaseline /\ MinBaseline \in Nat
    BY <2>4, ScanAssumption DEF HasBase, N
  <2>9. /\ ~(opts.now - closed[N].end > opts.maxAge)
        /\ \A y \in a..N : ~(closed[y].emitted > opts.now)
        /\ \A y \in a..N : y < s => closed[y].complete
    BY <2>5 DEF Problem, N
  <2> HIDE DEF a, s
  <2>10. first \in Nat /\ last \in Nat /\ last = first + (N - a)
    BY <2>4, <2>6, <2>7
  <2>11. ASSUME NEW w \in first..last
         PROVE  \E y \in a..N : closed[y].start = w
    <3> HIDE DEF first, last
    <3>1. PICK y \in a..N : y - a = w - first
      <4>1. a + (w - first) \in a..N /\ (a + (w - first)) - a = w - first
        BY <2>4, <2>10
      <4>2. QED
        BY <4>1
    <3>2. closed[y].start = first + (y - a)
      BY <2>6 DEF first
    <3>3. first + (y - a) = w
      BY <2>10, <3>1
    <3>4. QED
      BY <3>2, <3>3
  <2>12. first..last \subseteq Starts
    <3>1. \A y \in a..N : closed[y].start \in Starts
      BY <2>4, <2>7 DEF Due
    <3>2. QED
      BY <2>11, <3>1
  <2>13. last - first + 1 >= MinBaseline + 1
    BY <2>4, <2>8, <2>10
  <2>14. ASSUME NEW w \in Starts, w + 1 <= opts.now PROVE w <= last
    <3>1. w \in Due
      BY <2>14 DEF Due
    <3>2. PICK y \in 1..N : closed[y].start = w
      BY <2>5, <3>1 DEF ClosedOK, N
    <3>3. CASE y = N
      BY <2>7, <3>2, <3>3
    <3>4. CASE y < N
      <4>1. closed[y].start < closed[N].start
        BY <2>4, <2>5, <3>4 DEF ClosedOK, N
      <4>2. QED
        BY <2>4, <2>7, <3>2, <4>1
    <3>5. QED
      BY <2>4, <3>3, <3>4
  <2>15. opts.now - (last + 1) <= opts.maxAge
    <3>1. opts.now \in Nat /\ opts.maxAge \in Nat
      BY <2>3, OptionTypes DEF Options
    <3>2. closed[N].end = last + 1
      BY <2>4, <2>7
    <3>3. QED
      BY <2>9, <2>10, <3>1, <3>2
  <2>16. \A b \in ToSet(Base) : b.complete
    <3>1. ToSet(Base) = {closed[y] : y \in a..(s - 1)}
      BY <2>3, <2>4, <2>5, BaseIs DEF N, a, s
    <3>2. \A y \in a..(s - 1) : closed[y].complete
      BY <2>4, <2>9
    <3>3. QED
      BY <3>1, <3>2
  <2>17. ASSUME NEW x \in DOMAIN windows PROVE Frame(windows[x].start).complete
    <3>1. x \in 1..Len(windows) /\ windows[x].status = "evaluated"
      BY <2>2, <2>5 DEF WindowsOK
    <3>2. PICK n \in RecentStart(N)..N : windows[x] = Judged(n)
      BY <2>5, <3>1 DEF WindowsOK, JudgedWindows
    <3>3. windows[x].start = closed[n].start /\ Verdict(closed[n]) = "evaluated"
      BY <3>1, <3>2 DEF Judged
    <3>4. closed[n].complete
      BY <3>3 DEF Verdict
    <3>5. n \in 1..N
      BY <2>3, JudgingNumbers
    <3>6. QED
      BY <2>7, <3>3, <3>4, <3>5
  <2>18. ASSUME NEW w \in first..last, NEW d \in archive[w].docs PROVE d.emitted <= opts.now
    <3>1. PICK y \in a..N : closed[y].start = w
      BY <2>11
    <3>2. y \in 1..N /\ closed[y] \in DueFrames
      BY <2>4
    <3>3. closed[y].data = archive[w]
      BY <2>7, <3>1, <3>2
    <3>4. d.emitted <= closed[y].emitted
      BY <2>3, <3>2, <3>3, EmittedIs
    <3>5. closed[y].emitted \in Nat /\ d.emitted \in Nat /\ opts.now \in Nat
      BY <2>3, <3>2, <3>3, OptionTypes, EmittedIs DEF Options
    <3>6. QED
      BY <2>9, <3>4, <3>5
  <2>19. QED
    BY <2>12, <2>13, <2>14, <2>15, <2>16, <2>17, <2>18
<1>2. QED
  BY ScanInvariant, <1>1, PTL
-----------------------------------------------------------------------------
(* Types and bounds.                                                       *)

\* Candidates are findings.
LEMMA CandidatesTyped == ASSUME NEW f PROVE Candidates(f) \subseteq Findings
<1>1. ScalarFindings(f) \subseteq Findings
  <2>1. ASSUME NEW y \in Scalars \X {"up", "down"} PROVE Scalar1(y[1], y[2]) \in Findings
    BY DEF Scalar1, Findings
  <2>2. QED
    BY <2>1 DEF ScalarFindings
<1>2. ASSUME NEW m \in Measurements PROVE ItemFindings(f, m) \subseteq Findings
  <2>1. SUFFICES ASSUME NEW c \in ItemFindings(f, m) PROVE c \in Findings
    OBVIOUS
  <2>2. \E key \in Keys : \E name \in {"newly_prominent", "top_share", "tool_error_surge"} :
           c = [signal |-> name, of |-> m, key |-> key, direction |-> "up"]
    BY DEF ItemFindings, Items
  <2>3. QED
    BY <2>2 DEF Findings
<1>3. QED
  BY <1>1, <1>2 DEF Candidates

\* The types, the budget of all comparisons together, and the longest streak.
THEOREM ScanTypes == Spec => []TypeOK
<1>1. ASSUME ScanInv PROVE TypeOK
  <2>1. opts \in OptionSet /\ archive \in Series /\ work \in 0..MaxWork /\ Options
    BY <1>1 DEF ScanInv, Options
  <2>2. opts.recent \in Nat \ {0} /\ opts.persist \in Nat \ {0}
    BY <2>1, OptionTypes
  <2>3. CASE Ready
    BY <2>1, <2>2, <2>3 DEF Ready, TypeOK
  <2>4. CASE NotJudged
    <3>1. Len(closed) \in Nat
      BY <2>4 DEF NotJudged, ClosedOK
    <3>2. windows \in Seq({NotReady(closed[n]) : n \in 1..N}) /\ Len(windows) <= opts.recent
      BY <2>4 DEF NotJudged
    <3>3. \A x \in DOMAIN windows : windows[x].findings \subseteq Findings
      <4>1. ASSUME NEW x \in DOMAIN windows PROVE windows[x].findings = {}
        <5>1. PICK n \in 1..N : windows[x] = NotReady(closed[n])
          BY <3>2
        <5>2. QED
          BY <5>1 DEF NotReady
      <4>2. QED
        BY <4>1
    <3>4. pc = "done" /\ status = "not_ready" /\ i = 0 /\ DOMAIN streaks = {}
      BY <2>4 DEF NotJudged
    <3>5. QED
      BY <2>1, <3>1, <3>2, <3>3, <3>4 DEF TypeOK
  <2>5. CASE Judging
    <3>1. /\ N \in Nat /\ N >= 1 /\ i \in Nat /\ i <= N + 1 /\ i >= CheckStart(N)
          /\ RecentStart(N) \in 1..N /\ CheckStart(N) \in 1..RecentStart(N)
          /\ N - RecentStart(N) + 1 <= opts.recent
          /\ CheckStart(N) = RecentStart(N) - opts.persist + 1
      BY <2>1, <2>5, JudgingNumbers
    <3>2. StreaksOK /\ WindowsOK /\ pc \in {"check", "done", "error"}
      BY <2>5 DEF Judging
    <3>3. \A n : Found(n) \subseteq Findings
      BY CandidatesTyped DEF Found
    <3>4. DOMAIN streaks \subseteq Findings
      BY <3>2, <3>3 DEF StreaksOK
    <3>5. ASSUME NEW c \in DOMAIN streaks PROVE streaks[c] \in 1..(opts.persist + opts.recent)
      <4>1. streaks[c] \in 1..(i - CheckStart(N))
        BY <3>2 DEF StreaksOK
      <4>2. i - CheckStart(N) <= opts.persist + opts.recent
        BY <2>2, <3>1
      <4>3. QED
        BY <2>2, <3>1, <4>1, <4>2
    <3>6. Len(windows) <= opts.recent
      <4>1. Len(windows) = Larger(0, i - RecentStart(N))
        BY <3>2 DEF WindowsOK
      <4>2. QED
        BY <2>2, <3>1, <4>1 DEF Larger
    <3>7. ASSUME NEW x \in DOMAIN windows PROVE windows[x].findings \subseteq Findings
      <4>1. PICK n \in RecentStart(N)..N : windows[x] = Judged(n)
        BY <3>2 DEF WindowsOK, JudgedWindows
      <4>2. QED
        BY <3>3, <4>1 DEF Judged, Reported
    <3>8. status \in {"evaluated", "limited"}
      BY <3>2 DEF WindowsOK
    <3>9. i \in 0..(Len(closed) + 1)
      BY <3>1 DEF N
    <3>10. QED
      BY <2>1, <3>2, <3>4, <3>5, <3>6, <3>7, <3>8, <3>9 DEF TypeOK
  <2>6. QED
    BY <1>1, <2>3, <2>4, <2>5 DEF ScanInv
<1>2. QED
  BY ScanInvariant, <1>1, PTL
=============================================================================
