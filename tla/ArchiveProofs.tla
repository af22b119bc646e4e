---------------------------- MODULE ArchiveProofs ----------------------------
(***************************************************************************)
(* Proofs about the summary archive helper: for any number of helpers,     *)
(* producers, windows and faults, the archive is never torn, never goes    *)
(* back, is changed only as inventoried, keeps its history through power   *)
(* losses and stays within its limits.                                     *)
(***************************************************************************)
EXTENDS Archive, SumLemmas

-----------------------------------------------------------------------------
(* Numbers, names and sums.                                                *)

\* A non-empty set of natural numbers has a least element.
LEMMA LeastNat ==
    ASSUME NEW S, S \subseteq Nat, S # {}
    PROVE  \E m \in S : \A x \in S : m <= x
<1>1. IsWellFoundedOn(OpToRel(<, Nat), Nat)
  BY NatLessThanWellFounded
<1>2. PICK m \in S : \A x \in S : ~(<<x, m>> \in OpToRel(<, Nat))
  BY <1>1, WFMin
<1>3. \A x \in S : ~(x < m)
  BY <1>2 DEF OpToRel
<1>4. \A x \in S : m <= x
  BY <1>3
<1>5. QED
  BY <1>4

\* A bounded one has a greatest.
LEMMA GreatestNat ==
    ASSUME NEW S, NEW b \in Nat, S \subseteq 0..b, S # {}
    PROVE  \E m \in S : \A x \in S : x <= m
<1> DEFINE T == {b - x : x \in S}
<1>1. T \subseteq Nat /\ T # {}
  <2>1. \A x \in S : b - x \in Nat
    OBVIOUS
  <2>2. QED
    BY <2>1
<1>2. PICK k \in T : \A y \in T : k <= y
  <2> HIDE DEF T
  <2>1. QED
    BY <1>1, LeastNat
<1>3. PICK m \in S : k = b - m
  BY <1>2
<1>4. ASSUME NEW x \in S PROVE x <= m
  <2>1. b - x \in T
    OBVIOUS
  <2>2. k <= b - x
    BY <2>1, <1>2
  <2>3. QED
    BY <2>2, <1>3
<1>5. QED
  BY <1>4

\* Least picks the least value of --keep-windows.
LEMMA LeastKeeps == Least(Keeps) \in Keeps /\ \A k \in Keeps : Least(Keeps) <= k
<1>1. \E m \in Keeps : \A x \in Keeps : m <= x
  BY LeastNat, ArchiveAssumption
<1>2. QED
  BY <1>1 DEF Least

\* There are finitely many archived names.
LEMMA NamesFinite == IsFiniteSet(Names) /\ IsFiniteSet(Windows)
<1>1. IsFiniteSet(Windows)
  BY FS_Interval, ArchiveAssumption DEF Windows
<1>2. IsFiniteSet(Owners)
  BY ArchiveAssumption
<1>3. QED
  BY <1>1, <1>2, FS_Product DEF Names

\* A name is a window and an owner.
LEMMA NameParts == \A n \in Names : n[1] \in Windows /\ n[1] \in Nat /\ n[2] \in Nat
<1>1. SUFFICES ASSUME NEW w \in Windows, NEW o \in Owners
               PROVE  w \in Nat /\ o \in Nat
  BY DEF Names
<1>2. QED
  BY ArchiveAssumption DEF Windows

\* The stage, rename or removal that comes first in sorted order is one of them.
LEMMA FirstIn ==
    ASSUME NEW S \in SUBSET Names, S # {}
    PROVE  First(S) \in S
<1>1. \A n \in Names : n[1] \in Nat /\ n[2] \in Nat
  BY NameParts
<1> DEFINE W == {n[1] : n \in S}
<1>2. PICK w \in W : \A x \in W : w <= x
  <2>1. W \subseteq Nat /\ W # {}
    BY <1>1
  <2> HIDE DEF W
  <2>2. QED
    BY <2>1, LeastNat
<1> DEFINE O == {n[2] : n \in {m \in S : m[1] = w}}
<1>3. PICK o \in O : \A x \in O : o <= x
  <2>1. O \subseteq Nat /\ O # {}
    BY <1>1, <1>2
  <2> HIDE DEF O
  <2>2. QED
    BY <2>1, LeastNat
<1>4. PICK n \in S : n[1] = w /\ n[2] = o
  BY <1>3
<1>5. ASSUME NEW m \in S PROVE Before(n, m)
  <2>1. m[1] \in W /\ w <= m[1]
    BY <1>2
  <2>2. CASE m[1] = w
    <3>1. m[2] \in O
      BY <2>2
    <3>2. o <= m[2]
      BY <3>1, <1>3
    <3>3. QED
      BY <3>2, <2>2, <1>4 DEF Before
  <2>3. CASE m[1] # w
    BY <2>1, <2>3, <1>1, <1>4 DEF Before
  <2>4. QED
    BY <2>2, <2>3
<1>6. \E x \in S : \A m \in S : Before(x, m)
  BY <1>5
<1>7. QED
  BY <1>6 DEF First

\* Sizes are natural numbers.
LEMMA SizeNat ==
    ASSUME NEW d \in Docs
    PROVE  Size(d) \in Nat /\ Size(d) >= 1
  BY ArchiveAssumption DEF Docs, Size

\* The bytes of some of the files of a directory.
LEMMA BytesNat ==
    ASSUME NEW dir \in [Names -> Docs \cup {None}], NEW S \in SUBSET Files(dir)
    PROVE  IsFiniteSet(S) /\ Cardinality(S) \in Nat /\ Bytes(dir, S) \in Nat
<1>1. S \subseteq Names /\ \A n \in S : dir[n] \in Docs
  BY DEF Files
<1>2. IsFiniteSet(S)
  BY <1>1, NamesFinite, FS_Subset
<1> DEFINE g == [n \in S |-> Size(dir[n])]
<1>3. \A n \in S : g[n] \in Nat
  BY <1>1, SizeNat
<1>4. SumFunctionOnSet(g, S) \in Nat
  <2> HIDE DEF g
  <2>1. QED
    BY <1>2, <1>3, SumType
<1>5. QED
  BY <1>2, <1>4, FS_CardinalityType DEF Bytes

-----------------------------------------------------------------------------
(* The plan.                                                               *)

\* There is a newest snapshot among any that there are.
LEMMA NewestIn ==
    ASSUME NEW all \in SUBSET Docs, all # {}
    PROVE  Newest(all) \in all /\ \A x \in all : x.seq <= Newest(all).seq
<1> DEFINE S == {x.seq : x \in all}
<1>1. S \subseteq 0..MaxSeq /\ S # {}
  BY DEF Docs
<1>2. PICK m \in S : \A x \in S : x <= m
  <2> HIDE DEF S
  <2>1. QED
    BY <1>1, GreatestNat, ArchiveAssumption
<1>3. PICK d \in all : d.seq = m
  BY <1>2
<1>4. \A x \in all : x.seq <= d.seq
  BY <1>2, <1>3
<1>5. QED
  BY <1>4 DEF Newest

\* The k greatest members of a set of windows.
Top(S, k) == {w \in S : Cardinality({v \in S : v > w}) < k}

\* They are at most k.
LEMMA TopBound ==
    ASSUME NEW S \in SUBSET Windows, NEW k \in Nat
    PROVE  Cardinality(Top(S, k)) <= k
<1>0. IsFiniteSet(S) /\ S \subseteq Nat /\ Top(S, k) \subseteq S
  <2>1. IsFiniteSet(S)
    BY NamesFinite, FS_Subset
  <2>2. S \subseteq Nat
    BY ArchiveAssumption DEF Windows
  <2>3. QED
    BY <2>1, <2>2 DEF Top
<1>1. CASE Top(S, k) = {}
  BY <1>1, FS_EmptySet
<1>2. CASE Top(S, k) # {}
  <2>1. PICK m \in Top(S, k) : \A x \in Top(S, k) : m <= x
    BY <1>0, <1>2, LeastNat
  <2> DEFINE U == {v \in S : v > m}
  <2>2. Top(S, k) \subseteq U \cup {m}
    <3>1. ASSUME NEW x \in Top(S, k), x # m PROVE x \in U
      <4>1. m \in Nat /\ x \in S /\ x \in Nat /\ m <= x
        BY <1>0, <2>1
      <4>2. QED
        BY <4>1, <3>1
    <3>2. QED
      BY <3>1
  <2>3. Cardinality(U) < k /\ m \notin U
    BY <1>0, <2>1 DEF Top
  <2>4. IsFiniteSet(U)
    BY <1>0, FS_Subset
  <2> HIDE DEF U
  <2>5. IsFiniteSet(U \cup {m}) /\ Cardinality(U \cup {m}) = Cardinality(U) + 1 /\ Cardinality(U) \in Nat
    BY <2>3, <2>4, FS_AddElement, FS_CardinalityType
  <2>6. Cardinality(Top(S, k)) <= Cardinality(U \cup {m}) /\ IsFiniteSet(Top(S, k))
    BY <2>2, <2>5, FS_Subset
  <2>7. Cardinality(Top(S, k)) \in Nat
    BY <2>6, FS_CardinalityType
  <2>8. QED
    BY <2>3, <2>5, <2>6, <2>7
<1>3. QED
  BY <1>1, <1>2

\* They are k, and newer, when something is left out.
LEMMA TopFull ==
    ASSUME NEW S \in SUBSET Windows, NEW k \in Nat, NEW u \in S, u \notin Top(S, k)
    PROVE  Cardinality(Top(S, k)) >= k /\ \A w \in Top(S, k) : w > u
<1>0. IsFiniteSet(S) /\ S \subseteq 0..MaxClock /\ S \subseteq Nat /\ Top(S, k) \subseteq S
  <2>1. IsFiniteSet(S)
    BY NamesFinite, FS_Subset
  <2>2. S \subseteq Nat /\ S \subseteq 0..MaxClock
    BY ArchiveAssumption DEF Windows
  <2>3. QED
    BY <2>1, <2>2 DEF Top
<1> DEFINE Above(w) == {v \in S : v > w}
<1>1. \A w \in S : IsFiniteSet(Above(w)) /\ Cardinality(Above(w)) \in Nat
  BY <1>0, FS_Subset, FS_CardinalityType
<1>2. PICK m \in S \ Top(S, k) : \A x \in S \ Top(S, k) : x <= m
  <2>1. S \ Top(S, k) \subseteq 0..MaxClock /\ S \ Top(S, k) # {}
    BY <1>0
  <2>2. QED
    BY <2>1, GreatestNat, ArchiveAssumption
<1>3. Above(m) \subseteq Top(S, k)
  <2>1. ASSUME NEW x \in S, x > m, x \notin Top(S, k) PROVE FALSE
    <3>1. x \in Nat /\ m \in Nat /\ x <= m
      BY <1>0, <1>2, <2>1
    <3>2. QED
      BY <3>1, <2>1
  <2>2. QED
    BY <2>1
<1>4. Cardinality(Above(m)) >= k
  BY <1>1, <1>2 DEF Top
<1>5. Cardinality(Above(m)) <= Cardinality(Top(S, k)) /\ Cardinality(Top(S, k)) \in Nat
  <2>1. IsFiniteSet(Top(S, k))
    BY <1>0, FS_Subset
  <2> HIDE DEF Above
  <2>2. QED
    BY <1>3, <2>1, FS_Subset, FS_CardinalityType
<1>6. ASSUME NEW w \in Top(S, k), ~(w > u) PROVE FALSE
  <2>1. Above(u) \subseteq Above(w)
    <3>1. ASSUME NEW x \in S, x > u PROVE x > w
      <4>1. x \in Nat /\ u \in Nat /\ w \in Nat
        BY <1>0
      <4>2. QED
        BY <4>1, <3>1, <1>6
    <3>2. QED
      BY <3>1
  <2>2. w \in S /\ Cardinality(Above(w)) < k
    BY DEF Top
  <2>3. Cardinality(Above(u)) >= k
    <3>1. ~(Cardinality(Above(u)) < k)
      BY DEF Top
    <3>2. Cardinality(Above(u)) \in Nat
      BY <1>1
    <3> HIDE DEF Above
    <3>3. QED
      BY <3>1, <3>2
  <2>4. Cardinality(Above(u)) <= Cardinality(Above(w))
    <3>1. IsFiniteSet(Above(w))
      BY <1>1, <2>2
    <3> HIDE DEF Above
    <3>2. QED
      BY <2>1, <3>1, FS_Subset
  <2>5. Cardinality(Above(u)) \in Nat /\ Cardinality(Above(w)) \in Nat
    BY <1>1, <2>2
  <2> HIDE DEF Above
  <2>6. QED
    BY <2>2, <2>3, <2>4, <2>5
<1>7. Cardinality(Above(m)) \in Nat
  BY <1>1, <1>2
<1> HIDE DEF Above
<1>8. QED
  BY <1>4, <1>5, <1>6, <1>7

\* Every archived snapshot in a directory has the name it is stored under.
NamedRight(dir) == \A n \in Names : dir[n] # None => dir[n].name = n

\* What planArchive is given.
PlanInput(h) ==
    /\ cur[h] \in [Names -> Docs \cup {None}] /\ NamedRight(cur[h])
    /\ docs[h] \in SUBSET Docs /\ keep[h] \in Nat

\* What is selected is the newest of the archived and the eligible snapshots.
LEMMA SelectedFacts ==
    ASSUME NEW h, PlanInput(h)
    PROVE  /\ Selected(h) \in [Names -> Docs \cup {None}]
           /\ \A n \in Names : Selected(h)[n] # None => Selected(h)[n].name = n
           /\ \A n \in Names : cur[h][n] # None =>
                 Selected(h)[n] # None /\ cur[h][n].seq <= Selected(h)[n].seq
           /\ \A d \in Eligible(h) :
                 d.name \in Names /\ Selected(h)[d.name] # None /\ d.seq <= Selected(h)[d.name].seq
<1> DEFINE All(n) == {d \in Archived(h) \cup Eligible(h) : d.name = n}
<1>1. Archived(h) \subseteq Docs /\ Eligible(h) \subseteq Docs
  BY DEF PlanInput, Archived, Eligible, Files
<1>2. \A n \in Names : All(n) \in SUBSET Docs
  BY <1>1
<1>3. \A n \in Names : Selected(h)[n] = IF All(n) = {} THEN None ELSE Newest(All(n))
  BY DEF Selected
<1>4. \A n \in Names : All(n) # {} => /\ Newest(All(n)) \in All(n)
                                      /\ \A x \in All(n) : x.seq <= Newest(All(n)).seq
  <2> HIDE DEF All
  <2>1. QED
    BY <1>2, NewestIn
<1>5. \A n \in Names : \A d \in All(n) :
         Selected(h)[n] \in All(n) /\ d.seq <= Selected(h)[n].seq
  <2> HIDE DEF All
  <2>1. QED
    BY <1>3, <1>4
<1>6. None \notin Docs
  BY SpecialValues
<1>7. Selected(h) \in [Names -> Docs \cup {None}]
  <2>1. \A n \in Names : Selected(h)[n] \in Docs \cup {None}
    <3> HIDE DEF All
    <3>1. QED
      BY <1>2, <1>3, <1>4
  <2>2. Selected(h) = [n \in Names |-> Selected(h)[n]]
    BY DEF Selected
  <2>3. QED
    BY <2>1, <2>2
<1>8. \A n \in Names : Selected(h)[n] # None => Selected(h)[n].name = n
  <2>1. ASSUME NEW n \in Names, Selected(h)[n] # None PROVE Selected(h)[n] \in All(n)
    <3> HIDE DEF All
    <3>1. QED
      BY <1>3, <1>4, <2>1
  <2>2. QED
    BY <2>1
<1>9. ASSUME NEW n \in Names, cur[h][n] # None
      PROVE  Selected(h)[n] # None /\ cur[h][n].seq <= Selected(h)[n].seq
  <2>1. cur[h][n] \in All(n)
    BY <1>9 DEF PlanInput, NamedRight, Archived, Files
  <2>2. QED
    <3> HIDE DEF All
    <3>1. QED
      BY <2>1, <1>2, <1>5, <1>6
<1>10. ASSUME NEW d \in Eligible(h)
       PROVE  d.name \in Names /\ Selected(h)[d.name] # None /\ d.seq <= Selected(h)[d.name].seq
  <2>1. d.name \in Names /\ d \in All(d.name)
    BY <1>1 DEF Docs
  <2>2. QED
    <3> HIDE DEF All
    <3>1. QED
      BY <2>1, <1>2, <1>5, <1>6
<1>11. QED
  BY <1>7, <1>8, <1>9, <1>10

\* Retention keeps at most as many windows as asked for, and exactly as many,
\* all newer, when it lets one go.
LEMMA KeptFacts ==
    ASSUME NEW h, PlanInput(h)
    PROVE  /\ KeptWindows(h) \subseteq SelectedWindows(h) /\ SelectedWindows(h) \subseteq Windows
           /\ Cardinality(KeptWindows(h)) <= keep[h]
           /\ \A u \in SelectedWindows(h) \ KeptWindows(h) :
                 Cardinality(KeptWindows(h)) >= keep[h] /\ \A w \in KeptWindows(h) : w > u
<1>1. KeptWindows(h) = Top(SelectedWindows(h), keep[h])
  BY DEF KeptWindows, Top
<1>2. SelectedWindows(h) \in SUBSET Windows
  BY NameParts DEF SelectedWindows, Files
<1>3. keep[h] \in Nat
  BY DEF PlanInput
<1>4. Top(SelectedWindows(h), keep[h]) \subseteq SelectedWindows(h)
  BY DEF Top
<1>5. QED
  BY <1>1, <1>2, <1>3, <1>4, TopBound, TopFull

\* What is written, and what is removed.
LEMMA PlanFacts ==
    ASSUME NEW h, PlanInput(h)
    PROVE  /\ PlannedWrites(h) \in [Names -> Docs \cup {None}] /\ NamedRight(PlannedWrites(h))
           /\ \A n \in Files(PlannedWrites(h)) :
                 /\ PlannedWrites(h)[n] = Selected(h)[n] /\ n[1] \in KeptWindows(h)
                 /\ cur[h][n] # None => cur[h][n].seq <= PlannedWrites(h)[n].seq
           /\ \A n \in Names \ Files(PlannedWrites(h)) :
                 n[1] \in KeptWindows(h) => cur[h][n] = Selected(h)[n]
           /\ \A w \in KeptWindows(h) : \E n \in Names : n[1] = w /\ Selected(h)[n] # None
           /\ PlannedRemove(h) \subseteq Files(cur[h])
           /\ \A n \in PlannedRemove(h) : n[1] \in SelectedWindows(h) \ KeptWindows(h)
           /\ \A n \in Files(cur[h]) \ PlannedRemove(h) : n[1] \in KeptWindows(h)
           /\ \A d \in Eligible(h) : d.name[1] \in SelectedWindows(h)
<1> DEFINE P == PlannedWrites(h)
<1>1. \A n \in Names : P[n] = IF Selected(h)[n] # None /\ n[1] \in KeptWindows(h)
                                 /\ Selected(h)[n] # cur[h][n]
                              THEN Selected(h)[n] ELSE None
  BY DEF PlannedWrites
<1>2. P = [n \in Names |-> P[n]]
  BY DEF PlannedWrites
<1>3. P \in [Names -> Docs \cup {None}] /\ NamedRight(P)
  <2>1. \A n \in Names : P[n] \in Docs \cup {None}
    <3> HIDE DEF P
    <3>1. QED
      BY <1>1, SelectedFacts
  <2>2. NamedRight(P)
    <3> HIDE DEF P
    <3>1. QED
      BY <1>1, SelectedFacts DEF NamedRight
  <2>3. P \in [Names -> Docs \cup {None}]
    <3> HIDE DEF P
    <3>1. QED
      BY <1>2, <2>1
  <2>4. QED
    BY <2>2, <2>3
<1>4. \A n \in Files(P) : /\ P[n] = Selected(h)[n] /\ n[1] \in KeptWindows(h)
                          /\ cur[h][n] # None => cur[h][n].seq <= P[n].seq
  <2> HIDE DEF P
  <2>1. QED
    BY <1>1, SelectedFacts DEF Files
<1>5. \A n \in Names \ Files(P) : n[1] \in KeptWindows(h) => cur[h][n] = Selected(h)[n]
  <2> HIDE DEF P
  <2>1. QED
    BY <1>1, SelectedFacts DEF Files
<1>6. \A w \in KeptWindows(h) : \E n \in Names : n[1] = w /\ Selected(h)[n] # None
  BY DEF KeptWindows, SelectedWindows, Files
<1>7. \A n \in Names : Selected(h)[n] # None => n[1] \in SelectedWindows(h)
  BY DEF SelectedWindows, Files
<1>8. /\ PlannedRemove(h) \subseteq Files(cur[h])
      /\ \A n \in PlannedRemove(h) : n[1] \notin KeptWindows(h)
      /\ \A n \in Files(cur[h]) \ PlannedRemove(h) : n[1] \in KeptWindows(h)
  BY DEF PlannedRemove
<1>9. \A n \in Files(cur[h]) : n[1] \in SelectedWindows(h)
  BY <1>7, SelectedFacts DEF Files
<1>10. \A d \in Eligible(h) : d.name[1] \in SelectedWindows(h)
  BY <1>7, SelectedFacts
<1> HIDE DEF P
<1>11. QED
  BY <1>3, <1>4, <1>5, <1>6, <1>8, <1>9, <1>10 DEF P

\* The plan follows from the inventory, the source, the clock and the flag.
LEMMA PlanStable ==
    ASSUME NEW h, cur'[h] = cur[h], docs'[h] = docs[h], now'[h] = now[h], keep'[h] = keep[h]
    PROVE  /\ Eligible(h)' = Eligible(h) /\ Selected(h)' = Selected(h)
           /\ SelectedWindows(h)' = SelectedWindows(h) /\ KeptWindows(h)' = KeptWindows(h)
           /\ PlannedWrites(h)' = PlannedWrites(h) /\ PlannedRemove(h)' = PlannedRemove(h)
<1>1. Eligible(h)' = Eligible(h)
  BY DEF Eligible
<1>2. Files(cur[h])' = Files(cur[h])
  BY DEF Files
<1>3. Archived(h)' = Archived(h)
  BY <1>2 DEF Archived
<1>4. Selected(h)' = Selected(h)
  BY <1>1, <1>3 DEF Selected
<1>5. SelectedWindows(h)' = SelectedWindows(h)
  BY <1>4 DEF SelectedWindows, Files
<1>6. KeptWindows(h)' = KeptWindows(h)
  BY <1>5 DEF KeptWindows
<1>7. PlannedWrites(h)' = PlannedWrites(h)
  BY <1>4, <1>6 DEF PlannedWrites
<1>8. PlannedRemove(h)' = PlannedRemove(h)
  BY <1>2, <1>6 DEF PlannedRemove
<1>9. QED
  BY <1>1, <1>4, <1>5, <1>6, <1>7, <1>8

-----------------------------------------------------------------------------
(* The invariant that holds whatever goes wrong.                           *)

Holding == {"read", "plan", "stage", "syncStage", "install", "prune", "failed", "done"}
Unplanned == {"idle", "open", "read", "plan"}
Installing == {"syncStage", "install", "prune", "done"}

\* The lock is held from lockArchive to the end of the run, by one helper.
Locked == \A h \in Helpers : pc[h] \in Holding <=> lock = h

\* The directory shows what a power loss may leave, under the right names.
DirOK == \A n \in Names : vis[n] \in maybe[n] /\ \A v \in maybe[n] : v # None => v.name = n

\* A helper's memory: stages are synced parts of the plan, and the plan stays
\* what planArchive made of the inventory.
HelperOK(h) ==
    /\ staged[h] \subseteq flushed[h] /\ staged[h] \subseteq Files(writes[h])
    /\ pc[h] \in Unplanned => staged[h] = {} /\ writes[h] = NoFiles /\ remove[h] = {}
    /\ pc[h] # "idle" => keep[h] \in Keeps
    /\ NamedRight(cur[h])
    /\ pc[h] \in Installing \cup {"stage"} =>
          writes[h] = PlannedWrites(h) /\ remove[h] \subseteq PlannedRemove(h)
    /\ pc[h] \in {"stage", "syncStage", "install"} => remove[h] = PlannedRemove(h)
    /\ pc[h] = "syncStage" => staged[h] = Files(writes[h])
    /\ pc[h] \in {"prune", "done"} => staged[h] = {}
    /\ pc[h] = "done" => remove[h] = {}

\* How far the plan was carried out: staged names still show the inventory,
\* installed ones the plan, removed ones nothing.
Progress(h) ==
    pc[h] \in Installing =>
        /\ \A n \in Files(writes[h]) : vis[n] = IF n \in staged[h] THEN cur[h][n] ELSE writes[h][n]
        /\ \A n \in Files(cur[h]) \ Files(writes[h]) :
              vis[n] = IF n \in PlannedRemove(h) \ remove[h] THEN None ELSE cur[h][n]

Inv ==
    /\ TypeOK /\ NeverTorn /\ Locked /\ DirOK
    /\ \A h \in Helpers : HelperOK(h) /\ Progress(h)

\* Nothing has happened yet.
LEMMA InitInv == Init => Inv
<1> SUFFICES ASSUME Init PROVE Inv
  OBVIOUS
<1>1. NoFiles \in [Names -> Docs \cup {None}]
  BY DEF NoFiles
<1>2. TypeOK
  <2>1. 0 \in Windows /\ 0 \in 0..MaxSeq /\ 0 \in 0..MaxFaults
    BY ArchiveAssumption DEF Windows
  <2>2. vis \in [Names -> Docs \cup {None}] /\ maybe \in [Names -> SUBSET Values]
    BY <1>1 DEF Init, Values
  <2>3. cur \in [Helpers -> [Names -> Docs \cup {None}]] /\ writes \in [Helpers -> [Names -> Docs \cup {None}]]
    BY <1>1 DEF Init
  <2>4. clock \in Windows /\ src \in SUBSET Docs /\ issued \in [Names -> 0..MaxSeq]
        /\ kept \in [Names -> 0..MaxSeq] /\ faults \in 0..MaxFaults
    BY <2>1 DEF Init
  <2>5. QED
    BY <2>1, <2>2, <2>3, <2>4 DEF Init, TypeOK
<1>3. NeverTorn /\ DirOK
  BY SpecialValues DEF Init, NeverTorn, DirOK, NoFiles
<1>4. Locked
  BY ArchiveAssumption DEF Init, Locked, Holding
<1>5. ASSUME NEW h \in Helpers PROVE HelperOK(h) /\ Progress(h)
  BY DEF Init, HelperOK, Progress, Installing, NamedRight, NoFiles
<1>6. QED
  BY <1>2, <1>3, <1>4, <1>5 DEF Inv

\* The plan has what it needs.
LEMMA InvPlanInput ==
    ASSUME Inv, NEW h \in Helpers
    PROVE  PlanInput(h)
<1>1. keep[h] \in Nat
  <2>1. keep[h] \in Keeps \cup {1}
    BY DEF Inv, TypeOK
  <2>2. Keeps \subseteq Nat
    BY ArchiveAssumption
  <2>3. 1 \in Nat
    OBVIOUS
  <2>4. QED
    BY <2>1, <2>2, <2>3, Zenon
<1>2. QED
  BY <1>1 DEF Inv, TypeOK, HelperOK, PlanInput

\* A summary the collector writes, or an editor leaves, is well-formed.
LEMMA SummaryType ==
    ASSUME TypeOK, NEW n \in Names, NEW s \in 1..MaxSeq, NEW c \in 0..MaxSeq
    PROVE  Summary(n, s, c) \in Docs /\ Summary(n, s, c).name = n
<1>1. clock \in 0..MaxClock /\ n[1] \in 0..MaxClock
  BY NameParts DEF TypeOK, Windows
<1>2. (IF clock > n[1] THEN clock ELSE n[1] + 1) \in 0..(MaxClock + 1)
  BY <1>1, ArchiveAssumption
<1>3. QED
  BY <1>2 DEF Summary, Docs

\* The collector and the clock keep their types.
LEMMA CollectorType ==
    ASSUME TypeOK, Collector
    PROVE  /\ clock' \in Windows /\ src' \in SUBSET Docs /\ issued' \in [Names -> 0..MaxSeq]
           /\ faults' \in 0..MaxFaults
<1>1. CASE Tick
  BY <1>1, ArchiveAssumption DEF Tick, TypeOK, Windows
<1>2. ASSUME NEW n \in Names, Emit(n)
      PROVE  /\ clock' \in Windows /\ src' \in SUBSET Docs /\ issued' \in [Names -> 0..MaxSeq]
             /\ faults' \in 0..MaxFaults
  <2>1. issued[n] + 1 \in 1..MaxSeq /\ issued[n] + 1 \in 0..MaxSeq
    BY <1>2, ArchiveAssumption DEF Emit, TypeOK
  <2>2. Summary(n, issued[n] + 1, issued[n] + 1) \in Docs
    BY <2>1, SummaryType
  <2>3. issued' \in [Names -> 0..MaxSeq]
    BY <1>2, <2>1 DEF Emit, TypeOK
  <2>4. src' \in SUBSET Docs
    BY <1>2, <2>2 DEF Emit, TypeOK
  <2>5. QED
    BY <1>2, <2>3, <2>4 DEF Emit, TypeOK
<1>3. ASSUME NEW n \in Names, Reset(n)
      PROVE  /\ clock' \in Windows /\ src' \in SUBSET Docs /\ issued' \in [Names -> 0..MaxSeq]
             /\ faults' \in 0..MaxFaults
  <2>1. 1 \in 1..MaxSeq /\ 1 \in 0..MaxSeq /\ 0 \in 0..MaxSeq
    BY ArchiveAssumption
  <2>2. Summary(n, 1, 0) \in Docs
    BY <2>1, SummaryType
  <2>3. issued' \in [Names -> 0..MaxSeq] /\ src' \in SUBSET Docs
    BY <1>3, <2>1, <2>2 DEF Reset, TypeOK
  <2>4. faults' \in 0..MaxFaults
    BY <1>3, ArchiveAssumption DEF Reset, Fault, TypeOK
  <2>5. QED
    BY <1>3, <2>3, <2>4 DEF Reset, TypeOK
<1>4. ASSUME NEW d \in src, Expire(d)
      PROVE  /\ clock' \in Windows /\ src' \in SUBSET Docs /\ issued' \in [Names -> 0..MaxSeq]
             /\ faults' \in 0..MaxFaults
  BY <1>4 DEF Expire, TypeOK
<1>5. QED
  BY <1>1, <1>2, <1>3, <1>4 DEF Collector

\* The nine variables of one helper.
SameHelper(g) ==
    /\ pc'[g] = pc[g] /\ docs'[g] = docs[g] /\ now'[g] = now[g] /\ keep'[g] = keep[g]
    /\ cur'[g] = cur[g] /\ writes'[g] = writes[g] /\ remove'[g] = remove[g]
    /\ staged'[g] = staged[g] /\ flushed'[g] = flushed[g]

\* A helper that does not move stays as it was.
LEMMA HelperFrame ==
    ASSUME NEW g, SameHelper(g), HelperOK(g)
    PROVE  HelperOK(g)'
<1>1. /\ PlannedWrites(g)' = PlannedWrites(g) /\ PlannedRemove(g)' = PlannedRemove(g)
  BY PlanStable DEF SameHelper
<1>2. Files(writes[g])' = Files(writes[g]) /\ NamedRight(cur[g])' = NamedRight(cur[g])
  BY DEF SameHelper, Files, NamedRight
<1>3. QED
  BY <1>1, <1>2 DEF SameHelper, HelperOK, Installing, Unplanned

\* So does its progress, while the directory stays as it was.
LEMMA ProgressFrame ==
    ASSUME NEW g, SameHelper(g), vis' = vis, Progress(g)
    PROVE  Progress(g)'
<1>1. PlannedRemove(g)' = PlannedRemove(g)
  BY PlanStable DEF SameHelper
<1>2. Files(writes[g])' = Files(writes[g]) /\ Files(cur[g])' = Files(cur[g])
  BY DEF SameHelper, Files
<1>3. QED
  BY <1>1, <1>2 DEF SameHelper, Progress, Installing

\* Only the lock holder can be past the inventory.
LEMMA OneHolder ==
    ASSUME Inv, NEW h \in Helpers, pc[h] \in Holding, NEW g \in Helpers, g # h
    PROVE  lock = h /\ pc[g] \notin Holding
  BY DEF Inv, Locked

\* What the collector does leaves the archive alone.
LEMMA CollectorStep ==
    ASSUME Inv, Collector
    PROVE  Inv'
<1>1. UNCHANGED <<dirVars, runVars, planVars, stageVars, lock, pc>>
  BY DEF Collector, Tick, Emit, Reset, Expire
<1>2. TypeOK'
  BY <1>1, CollectorType DEF Inv, TypeOK, dirVars, runVars, planVars, stageVars
<1>3. NeverTorn' /\ DirOK' /\ Locked'
  BY <1>1 DEF Inv, NeverTorn, DirOK, Locked, dirVars
<1>4. ASSUME NEW g \in Helpers PROVE SameHelper(g) /\ vis' = vis
  BY <1>1 DEF SameHelper, dirVars, runVars, planVars, stageVars
<1>5. ASSUME NEW g \in Helpers PROVE HelperOK(g)' /\ Progress(g)'
  BY <1>4, HelperFrame, ProgressFrame DEF Inv
<1>6. QED
  BY <1>2, <1>3, <1>5 DEF Inv

\* A step of one helper in its own memory.
LEMMA MemoryStep ==
    ASSUME Inv, NEW h \in Helpers, UNCHANGED <<vis, maybe>>,
           \A g \in Helpers \ {h} : SameHelper(g),
           TypeOK', Locked', HelperOK(h)', Progress(h)'
    PROVE  Inv'
<1>1. NeverTorn' /\ DirOK'
  BY DEF Inv, NeverTorn, DirOK
<1>2. ASSUME NEW g \in Helpers, g # h PROVE HelperOK(g)' /\ Progress(g)'
  BY <1>2, HelperFrame, ProgressFrame DEF Inv
<1>3. QED
  BY <1>1, <1>2 DEF Inv

\* A fault is one of a bounded number.
LEMMA FaultType ==
    ASSUME TypeOK, NEW k, Fault(k)
    PROVE  faults' \in 0..MaxFaults
  BY ArchiveAssumption DEF TypeOK, Fault

\* Reading the source.
LEMMA StartStep ==
    ASSUME Inv, NEW h \in Helpers, Start(h)
    PROVE  Inv'
<1> USE DEF worldVars, dirVars, planVars, stageVars
<1>1. PICK k \in Keeps : keep' = [keep EXCEPT ![h] = k]
  BY DEF Start
<1>2. faults' \in 0..MaxFaults
  BY FaultType DEF Start, Inv, TypeOK
<1>3. now' \in [Helpers -> Windows] /\ \A g \in Helpers \ {h} : now'[g] = now[g]
  <2>1. clock \in Windows /\ (ValidTime(clock - 1) => clock - 1 \in Windows)
    BY ArchiveAssumption DEF Inv, TypeOK, Windows, ValidTime
  <2>2. PICK t \in Windows : now' = [now EXCEPT ![h] = t]
    BY <2>1 DEF Start
  <2>3. QED
    BY <2>2 DEF Inv, TypeOK
<1>4. TypeOK'
  BY <1>1, <1>2, <1>3 DEF Start, Goto, Inv, TypeOK
<1>5. Locked'
  BY DEF Start, Goto, Inv, TypeOK, Locked, Holding
<1>6. \A g \in Helpers \ {h} : SameHelper(g)
  BY <1>1, <1>3 DEF Start, Goto, Inv, TypeOK, SameHelper
<1>7. HelperOK(h)'
  BY <1>1 DEF Start, Goto, Inv, TypeOK, HelperOK, Unplanned, Installing, Files, NamedRight
<1>8. Progress(h)'
  BY DEF Start, Goto, Inv, TypeOK, Progress, Installing
<1>9. UNCHANGED <<vis, maybe>>
  BY DEF Start
<1>10. QED
  BY <1>4, <1>5, <1>6, <1>7, <1>8, <1>9, MemoryStep

\* A process that ends forgets everything.
LEMMA ForgetFacts ==
    ASSUME Inv, NEW h \in Helpers, Forget(h), pc' = [pc EXCEPT ![h] = "idle"]
    PROVE  /\ \A g \in Helpers \ {h} : SameHelper(g)
           /\ HelperOK(h)' /\ Progress(h)'
           /\ lock' \in Helpers \cup {None} /\ pc'[h] = "idle"
           /\ Locked'
           /\ docs' \in [Helpers -> SUBSET Docs] /\ now' \in [Helpers -> Windows]
           /\ keep' \in [Helpers -> Keeps \cup {1}]
           /\ cur' \in [Helpers -> [Names -> Docs \cup {None}]]
           /\ writes' \in [Helpers -> [Names -> Docs \cup {None}]]
           /\ remove' \in [Helpers -> SUBSET Names] /\ staged' \in [Helpers -> SUBSET Names]
           /\ flushed' \in [Helpers -> SUBSET Names]
           /\ pc' \in [Helpers -> {"idle", "open", "read", "plan", "stage", "syncStage", "install",
                                   "prune", "failed", "done"}]
<1>1. NoFiles \in [Names -> Docs \cup {None}] /\ 0 \in Windows /\ NamedRight(NoFiles)
  BY ArchiveAssumption DEF NoFiles, Windows, NamedRight
<1>2. \A g \in Helpers \ {h} : SameHelper(g)
  BY DEF Forget, Inv, TypeOK, SameHelper
<1>3. /\ pc'[h] = "idle" /\ staged'[h] = {} /\ writes'[h] = NoFiles /\ remove'[h] = {}
      /\ cur'[h] = NoFiles
  BY DEF Forget, Inv, TypeOK
<1>4. HelperOK(h)' /\ Progress(h)'
  BY <1>1, <1>3 DEF HelperOK, Progress, Installing
<1>5. Locked'
  BY <1>2, <1>3, ArchiveAssumption DEF Locked, SameHelper, Forget, Inv, Holding
<1>6. lock' \in Helpers \cup {None}
  BY DEF Forget, Inv, TypeOK
<1>7. docs' \in [Helpers -> SUBSET Docs] /\ remove' \in [Helpers -> SUBSET Names]
      /\ staged' \in [Helpers -> SUBSET Names] /\ flushed' \in [Helpers -> SUBSET Names]
  BY DEF Forget, Inv, TypeOK
<1>8. now' \in [Helpers -> Windows] /\ keep' \in [Helpers -> Keeps \cup {1}]
  BY <1>1 DEF Forget, Inv, TypeOK
<1>9. cur' \in [Helpers -> [Names -> Docs \cup {None}]] /\ writes' \in [Helpers -> [Names -> Docs \cup {None}]]
  BY <1>1 DEF Forget, Inv, TypeOK
<1>10. pc' \in [Helpers -> {"idle", "open", "read", "plan", "stage", "syncStage", "install",
                            "prune", "failed", "done"}]
  BY DEF Inv, TypeOK
<1>11. QED
  BY <1>2, <1>3, <1>4, <1>5, <1>6, <1>7, <1>8, <1>9, <1>10

\* Taking the lock, or giving up.
LEMMA LockStep ==
    ASSUME Inv, NEW h \in Helpers, Lock(h)
    PROVE  Inv'
<1> USE DEF worldVars, dirVars, runVars, planVars, stageVars
<1>1. CASE LockFree /\ Goto(h, "open", "read") /\ lock' = h /\ UNCHANGED <<runVars, planVars, stageVars>>
  <2>1. TypeOK'
    BY <1>1 DEF Lock, Goto, Inv, TypeOK
  <2>2. Locked'
    BY <1>1, ArchiveAssumption DEF Lock, LockFree, Goto, Inv, TypeOK, Locked, Holding
  <2>3. \A g \in Helpers \ {h} : SameHelper(g)
    BY <1>1 DEF Lock, Goto, Inv, TypeOK, SameHelper
  <2>4. HelperOK(h)'
    BY <1>1 DEF Lock, Goto, Inv, TypeOK, HelperOK, Unplanned, Installing, Files, NamedRight
  <2>5. Progress(h)'
    BY <1>1 DEF Lock, Goto, Inv, TypeOK, Progress, Installing
  <2>6. QED
    BY <2>1, <2>2, <2>3, <2>4, <2>5, MemoryStep DEF Lock
<1>2. CASE ~LockFree /\ Goto(h, "open", "idle") /\ Forget(h)
  <2>1. pc' = [pc EXCEPT ![h] = "idle"]
    BY <1>2 DEF Goto
  <2>2. TypeOK'
    BY <1>2, <2>1, ForgetFacts DEF Lock, Inv, TypeOK
  <2>3. UNCHANGED <<vis, maybe>>
    BY DEF Lock
  <2>4. QED
    BY <1>2, <2>1, <2>2, <2>3, ForgetFacts, MemoryStep
<1>3. QED
  BY <1>1, <1>2 DEF Lock

\* The deferred calls.
LEMMA FinishStep ==
    ASSUME Inv, NEW h \in Helpers, Finish(h)
    PROVE  Inv'
<1> USE DEF worldVars, dirVars
<1>1. Forget(h) /\ pc' = [pc EXCEPT ![h] = "idle"] /\ UNCHANGED <<vis, maybe>>
  BY DEF Finish
<1>2. TypeOK'
  BY <1>1, ForgetFacts DEF Finish, Inv, TypeOK
<1>3. QED
  BY <1>1, <1>2, ForgetFacts, MemoryStep

\* A helper moves on, and no other does.
LEMMA GotoType ==
    ASSUME TypeOK, NEW h \in Helpers, NEW from, NEW to, Goto(h, from, to),
           to \in {"idle", "open", "read", "plan", "stage", "syncStage", "install", "prune", "failed", "done"}
    PROVE  /\ pc' \in [Helpers -> {"idle", "open", "read", "plan", "stage", "syncStage", "install",
                                   "prune", "failed", "done"}]
           /\ pc[h] = from /\ pc'[h] = to /\ \A g \in Helpers \ {h} : pc'[g] = pc[g]
  BY DEF Goto, TypeOK

\* The inventory.
LEMMA ReadStep ==
    ASSUME Inv, NEW h \in Helpers, Read(h)
    PROVE  Inv'
<1> USE DEF worldVars, dirVars, runVars, stageVars
<1>1. /\ pc'[h] \in {"plan", "failed"} /\ \A g \in Helpers \ {h} : pc'[g] = pc[g] /\ cur'[g] = cur[g]
      /\ cur'[h] \in {vis, cur[h]} /\ (pc'[h] = "plan" => cur'[h] = vis)
      /\ cur' \in [Helpers -> [Names -> Docs \cup {None}]]
      /\ pc' \in [Helpers -> {"idle", "open", "read", "plan", "stage", "syncStage", "install",
                              "prune", "failed", "done"}]
  <2>1. TypeOK /\ \E to \in {"plan", "failed"} : Goto(h, "read", to) /\ (to = "plan" => cur' = [cur EXCEPT ![h] = vis])
    BY DEF Read, Inv
  <2>2. /\ pc'[h] \in {"plan", "failed"} /\ \A g \in Helpers \ {h} : pc'[g] = pc[g]
        /\ pc' \in [Helpers -> {"idle", "open", "read", "plan", "stage", "syncStage", "install",
                                "prune", "failed", "done"}]
        /\ pc'[h] = "plan" => cur' = [cur EXCEPT ![h] = vis]
    BY <2>1, GotoType
  <2>3. cur' = [cur EXCEPT ![h] = vis] \/ cur' = cur
    BY DEF Read
  <2>4. cur \in [Helpers -> [Names -> Docs \cup {None}]] /\ vis \in [Names -> Docs \cup {None}]
    BY <2>1 DEF TypeOK
  <2>5. /\ cur' \in [Helpers -> [Names -> Docs \cup {None}]] /\ cur'[h] \in {vis, cur[h]}
        /\ \A g \in Helpers \ {h} : cur'[g] = cur[g]
        /\ cur' = [cur EXCEPT ![h] = vis] => cur'[h] = vis
    BY <2>3, <2>4
  <2>6. QED
    BY <2>2, <2>5
<1>2. TypeOK'
  BY <1>1 DEF Read, Inv, TypeOK
<1>3. Locked'
  BY <1>1 DEF Read, Inv, Locked, Holding
<1>4. \A g \in Helpers \ {h} : SameHelper(g)
  BY <1>1 DEF Read, SameHelper
<1>5. NamedRight(vis) /\ NamedRight(cur[h])
  BY DEF Inv, DirOK, HelperOK, NamedRight
<1>6. NamedRight(cur[h])'
  <2>1. NamedRight(cur'[h])
    BY <1>1, <1>5
  <2>2. QED
    BY <2>1 DEF NamedRight
<1>7. HelperOK(h)'
  <2>1. pc[h] = "read" /\ UNCHANGED <<writes, remove, staged, flushed, keep>>
    BY DEF Read
  <2>2. QED
    BY <1>1, <1>6, <2>1 DEF Inv, HelperOK, Unplanned, Installing, Files
<1>8. Progress(h)'
  BY <1>1 DEF Progress, Installing
<1>9. QED
  BY <1>2, <1>3, <1>4, <1>7, <1>8, MemoryStep DEF Read

\* The plan is made once, from the inventory.
LEMMA PlanStep ==
    ASSUME Inv, NEW h \in Helpers, Plan(h)
    PROVE  Inv'
<1> USE DEF worldVars, dirVars, runVars, stageVars
<1>0. pc[h] = "plan" /\ UNCHANGED <<runVars, dirVars, cur, stageVars, lock, faults>>
  BY DEF Plan
<1>1. /\ PlannedWrites(h) \in [Names -> Docs \cup {None}]
      /\ PlannedRemove(h) \in SUBSET Names
  <2>1. PlanInput(h)
    BY InvPlanInput
  <2>2. QED
    BY <2>1, PlanFacts DEF PlannedRemove, Files
<1>2. /\ pc'[h] \in {"stage", "failed"}
      /\ \A g \in Helpers \ {h} : pc'[g] = pc[g] /\ writes'[g] = writes[g] /\ remove'[g] = remove[g]
      /\ pc'[h] = "stage" => writes'[h] = PlannedWrites(h) /\ remove'[h] = PlannedRemove(h)
      /\ pc'[h] = "failed" => writes'[h] = writes[h] /\ remove'[h] = remove[h]
      /\ writes' \in [Helpers -> [Names -> Docs \cup {None}]]
      /\ remove' \in [Helpers -> SUBSET Names]
      /\ pc' \in [Helpers -> {"idle", "open", "read", "plan", "stage", "syncStage", "install",
                              "prune", "failed", "done"}]
  <2> DEFINE w == PlannedWrites(h)
             r == PlannedRemove(h)
  <2>1. \/ /\ Goto(h, "plan", "stage") /\ writes' = [writes EXCEPT ![h] = w]
           /\ remove' = [remove EXCEPT ![h] = r]
        \/ Goto(h, "plan", "failed") /\ UNCHANGED <<writes, remove>>
    BY DEF Plan
  <2>2. w \in [Names -> Docs \cup {None}] /\ r \in SUBSET Names
    BY <1>1
  <2>3. /\ pc \in [Helpers -> {"idle", "open", "read", "plan", "stage", "syncStage", "install",
                               "prune", "failed", "done"}]
        /\ writes \in [Helpers -> [Names -> Docs \cup {None}]] /\ remove \in [Helpers -> SUBSET Names]
    BY DEF Inv, TypeOK
  <2> HIDE DEF w, r
  <2>4. /\ pc'[h] \in {"stage", "failed"}
        /\ \A g \in Helpers \ {h} : pc'[g] = pc[g] /\ writes'[g] = writes[g] /\ remove'[g] = remove[g]
        /\ pc'[h] = "stage" => writes'[h] = w /\ remove'[h] = r
        /\ pc'[h] = "failed" => writes'[h] = writes[h] /\ remove'[h] = remove[h]
    BY <2>1, <2>3 DEF Goto
  <2>5. /\ writes' \in [Helpers -> [Names -> Docs \cup {None}]]
        /\ remove' \in [Helpers -> SUBSET Names]
        /\ pc' \in [Helpers -> {"idle", "open", "read", "plan", "stage", "syncStage", "install",
                                "prune", "failed", "done"}]
    BY <2>1, <2>2, <2>3 DEF Goto
  <2>6. QED
    BY <2>4, <2>5 DEF w, r
<1>3. TypeOK'
  BY <1>2 DEF Plan, Inv, TypeOK
<1>4. Locked'
  BY <1>0, <1>2 DEF Inv, Locked, Holding
<1>5. \A g \in Helpers \ {h} : SameHelper(g)
  BY <1>0, <1>2 DEF SameHelper
<1>6. PlannedWrites(h)' = PlannedWrites(h) /\ PlannedRemove(h)' = PlannedRemove(h)
  BY <1>0, PlanStable
<1>7. staged[h] = {} /\ NamedRight(cur[h]) /\ keep[h] \in Keeps
  BY <1>0 DEF Inv, HelperOK, Unplanned
<1>8. HelperOK(h)'
  <2>1. NamedRight(cur[h])'
    BY <1>0, <1>7 DEF NamedRight
  <2>2. QED
    BY <1>0, <1>2, <1>6, <1>7, <2>1 DEF HelperOK, Unplanned, Installing
<1>9. Progress(h)'
  BY <1>2 DEF Progress, Installing
<1>10. QED
  BY <1>0, <1>3, <1>4, <1>5, <1>8, <1>9, MemoryStep

\* One stage written and synced, or an error.
LEMMA StageStep ==
    ASSUME Inv, NEW h \in Helpers, Stage(h)
    PROVE  Inv'
<1> USE DEF worldVars, runVars, planVars, stageVars
<1> DEFINE n == First(Files(writes[h]) \ staged[h])
<1>0. pc[h] = "stage" /\ UNCHANGED <<clock, src, issued, vis, maybe, kept, docs, now, keep, cur, writes, remove, lock>>
  BY DEF Stage
<1>1. n \in Files(writes[h]) \ staged[h]
  BY FirstIn DEF Stage, Files
<1>2. n \in Names
  BY <1>1 DEF Files
<1> HIDE DEF n
<1>3. CASE /\ staged' = [staged EXCEPT ![h] = @ \cup {n}]
           /\ flushed' = [flushed EXCEPT ![h] = Flushed(h, n)]
           /\ UNCHANGED <<pc, litter, faults>>
  <2>1. TypeOK'
    BY <1>0, <1>2, <1>3 DEF Inv, TypeOK, Flushed
  <2>2. Locked'
    BY <1>0, <1>3 DEF Inv, Locked
  <2>3. \A g \in Helpers \ {h} : SameHelper(g)
    BY <1>0, <1>3 DEF SameHelper, Inv, TypeOK
  <2>4. PlannedWrites(h)' = PlannedWrites(h) /\ PlannedRemove(h)' = PlannedRemove(h)
    BY <1>0, PlanStable
  <2>5. staged'[h] = staged[h] \cup {n} /\ flushed'[h] = flushed[h] \cup {n}
    BY <1>3 DEF Inv, TypeOK, Flushed
  <2>6. HelperOK(h)'
    <3>1. NamedRight(cur[h])' /\ Files(writes[h])' = Files(writes[h])
      BY <1>0 DEF Inv, HelperOK, NamedRight, Files
    <3>2. QED
      BY <1>0, <1>1, <1>3, <2>4, <2>5, <3>1 DEF Inv, HelperOK, Unplanned, Installing
  <2>7. Progress(h)'
    BY <1>0, <1>3 DEF Progress, Installing
  <2>8. QED
    BY <1>0, <2>1, <2>2, <2>3, <2>6, <2>7, MemoryStep
<1>4. CASE /\ Fault("io") /\ Goto(h, "stage", "failed")
           /\ \E left \in {0, 1} : litter' = [litter EXCEPT !.entries = @ + left]
           /\ UNCHANGED stageVars
  <2>1. faults' \in 0..MaxFaults
    BY <1>4, FaultType DEF Inv
  <2>2. litter' \in [entries: Nat, bytes: Nat]
    <3>1. litter \in [entries: Nat, bytes: Nat]
      BY DEF Inv, TypeOK
    <3>2. PICK left \in Nat : litter' = [litter EXCEPT !.entries = @ + left]
      BY <1>4
    <3>3. QED
      BY <3>1, <3>2
  <2>3. TypeOK'
    <3>1. pc' \in [Helpers -> {"idle", "open", "read", "plan", "stage", "syncStage", "install",
                               "prune", "failed", "done"}]
      BY <1>4, GotoType DEF Inv
    <3>2. QED
      BY <1>0, <1>4, <2>1, <2>2, <3>1 DEF Inv, TypeOK
  <2>4. pc'[h] = "failed" /\ \A g \in Helpers \ {h} : pc'[g] = pc[g]
    BY <1>4 DEF Goto, Inv, TypeOK
  <2>5. Locked'
    BY <1>0, <2>4 DEF Inv, Locked, Holding
  <2>6. \A g \in Helpers \ {h} : SameHelper(g)
    BY <1>0, <1>4, <2>4 DEF SameHelper
  <2>7. HelperOK(h)'
    BY <1>0, <1>4, <2>4 DEF Inv, HelperOK, Unplanned, Installing, Files, NamedRight
  <2>8. Progress(h)'
    BY <2>4 DEF Progress, Installing
  <2>9. QED
    BY <1>0, <2>3, <2>5, <2>6, <2>7, <2>8, MemoryStep
<1>5. QED
  BY <1>3, <1>4 DEF Stage, n

\* The last check before the first change.
LEMMA RecheckStep ==
    ASSUME Inv, NEW h \in Helpers, Recheck(h)
    PROVE  Inv'
<1> USE DEF worldVars, dirVars, runVars, planVars, stageVars
<1>0. /\ pc[h] = "stage" /\ staged[h] = Files(writes[h])
      /\ UNCHANGED <<worldVars, dirVars, runVars, planVars, stageVars, lock, faults>>
  BY DEF Recheck
<1>1. /\ pc' \in [Helpers -> {"idle", "open", "read", "plan", "stage", "syncStage", "install",
                              "prune", "failed", "done"}]
      /\ pc'[h] \in {"failed", "done", "syncStage"} /\ \A g \in Helpers \ {h} : pc'[g] = pc[g]
      /\ pc'[h] # "failed" => Unmodified(h)
      /\ pc'[h] = "done" => staged[h] = {} /\ remove[h] = {}
  BY DEF Recheck, Goto, Inv, TypeOK
<1>2. TypeOK'
  BY <1>0, <1>1 DEF Inv, TypeOK
<1>3. Locked'
  BY <1>0, <1>1 DEF Inv, Locked, Holding
<1>4. \A g \in Helpers \ {h} : SameHelper(g)
  BY <1>0, <1>1 DEF SameHelper
<1>5. PlannedWrites(h)' = PlannedWrites(h) /\ PlannedRemove(h)' = PlannedRemove(h)
  BY <1>0, PlanStable
<1>6. /\ Files(writes[h])' = Files(writes[h]) /\ Files(cur[h])' = Files(cur[h])
      /\ NamedRight(cur[h])'
  BY <1>0 DEF Inv, HelperOK, NamedRight, Files
<1>7. HelperOK(h)'
  BY <1>0, <1>1, <1>5, <1>6 DEF Inv, HelperOK, Unplanned, Installing
<1>8. Progress(h)'
  <2>1. remove[h] = PlannedRemove(h)
    BY <1>0 DEF Inv, HelperOK
  <2>2. QED
    BY <1>0, <1>1, <1>5, <1>6, <2>1 DEF Progress, Unmodified, Installing
<1>9. QED
  BY <1>0, <1>2, <1>3, <1>4, <1>7, <1>8, MemoryStep

\* A step of the lock holder in the directory.
LEMMA DirStep ==
    ASSUME Inv, NEW h \in Helpers, pc[h] \in Holding,
           \A g \in Helpers \ {h} : SameHelper(g),
           TypeOK', NeverTorn', DirOK', Locked', HelperOK(h)', Progress(h)'
    PROVE  Inv'
<1>1. ASSUME NEW g \in Helpers, g # h PROVE HelperOK(g)' /\ Progress(g)'
  <2>1. SameHelper(g) /\ pc[g] \notin Holding
    BY <1>1, OneHolder
  <2>2. Progress(g)'
    BY <2>1 DEF Progress, SameHelper, Installing, Holding
  <2>3. QED
    BY <2>1, <2>2, HelperFrame DEF Inv
<1>2. QED
  BY <1>1 DEF Inv

\* A directory sync, or an error.
LEMMA SyncFacts ==
    ASSUME Inv, NEW h \in Helpers, NEW from \in Holding, NEW to \in Holding, SyncOrFail(h, from, to)
    PROVE  /\ pc[h] = from /\ pc'[h] \in {to, "failed"}
           /\ pc'[h] = "failed" \/ maybe' = [n \in Names |-> {vis[n]}]
           /\ UNCHANGED <<vis, litter, docs, now, keep, cur, writes, remove, staged, flushed, lock>>
           /\ \A g \in Helpers \ {h} : SameHelper(g)
           /\ TypeOK' /\ NeverTorn' /\ DirOK' /\ Locked'
<1> USE DEF worldVars, dirVars, runVars, planVars, stageVars
<1>0. /\ pc[h] = from
      /\ UNCHANGED <<clock, src, issued, vis, litter, docs, now, keep, cur, writes, remove, staged, flushed, lock>>
  BY DEF SyncOrFail, Goto, SyncDir
<1>1. /\ pc' \in [Helpers -> {"idle", "open", "read", "plan", "stage", "syncStage", "install",
                              "prune", "failed", "done"}]
      /\ pc'[h] \in {to, "failed"} /\ \A g \in Helpers \ {h} : pc'[g] = pc[g]
  <2>1. TypeOK /\ \E x \in {to, "failed"} : Goto(h, from, x)
    BY DEF SyncOrFail, Inv
  <2>2. {to, "failed"} \subseteq {"idle", "open", "read", "plan", "stage", "syncStage", "install",
                                  "prune", "failed", "done"}
    BY DEF Holding
  <2>3. QED
    BY <2>1, <2>2, GotoType
<1>2. faults' \in 0..MaxFaults
  <2>1. TypeOK /\ (faults' = faults \/ \E k : Fault(k))
    BY DEF SyncOrFail, SyncDir, Inv
  <2>2. faults \in 0..MaxFaults
    BY <2>1 DEF TypeOK
  <2>3. QED
    BY <2>1, <2>2, FaultType
<1>3. \/ UNCHANGED <<maybe, kept>> /\ pc'[h] = "failed"
      \/ SyncDir
  BY DEF SyncOrFail, Goto, Inv, TypeOK
<1>4. \A n \in Names : vis[n] # Torn /\ (vis[n] # None => vis[n].name = n)
  BY SpecialValues DEF Inv, TypeOK, DirOK
<1>5. \A n \in Names : vis[n] # None => vis[n].seq \in 0..MaxSeq
  BY DEF Inv, TypeOK, Docs
<1>6. /\ maybe' \in [Names -> SUBSET Values] /\ kept' \in [Names -> 0..MaxSeq] /\ NeverTorn' /\ DirOK'
  <2>1. CASE UNCHANGED <<maybe, kept>>
    BY <1>0, <2>1 DEF Inv, TypeOK, NeverTorn, DirOK
  <2>2. CASE SyncDir
    <3>1. maybe' \in [Names -> SUBSET Values]
      BY <2>2 DEF SyncDir, Inv, TypeOK, Values
    <3>2. kept' \in [Names -> 0..MaxSeq]
      BY <2>2, <1>5 DEF SyncDir, Inv, TypeOK
    <3>3. NeverTorn' /\ DirOK'
      BY <2>2, <1>0, <1>4 DEF SyncDir, NeverTorn, DirOK
    <3>4. QED
      BY <3>1, <3>2, <3>3
  <2>3. QED
    BY <1>3, <2>1, <2>2
<1>7. TypeOK'
  BY <1>0, <1>1, <1>2, <1>6 DEF Inv, TypeOK
<1>8. Locked'
  BY <1>0, <1>1 DEF Inv, Locked, Holding
<1>9. \A g \in Helpers \ {h} : SameHelper(g)
  BY <1>0, <1>1 DEF SameHelper
<1>10. QED
  BY <1>0, <1>1, <1>3, <1>6, <1>7, <1>8, <1>9 DEF SyncDir

\* A sync moves the helper on and changes nothing else in its memory.
LEMMA SyncStep ==
    ASSUME Inv, NEW h \in Helpers, SyncStage(h) \/ SyncInstall(h) \/ SyncPrune(h)
    PROVE  Inv'
<1>1. PICK from \in Holding, to \in Holding :
         /\ SyncOrFail(h, from, to)
         /\ \/ from = "syncStage" /\ to = "install"
            \/ from = "install" /\ to = "prune" /\ staged[h] = {}
            \/ from = "prune" /\ to = "done" /\ remove[h] = {}
  BY DEF SyncStage, SyncInstall, SyncPrune, Holding
<1>2. /\ pc[h] = from /\ pc'[h] \in {to, "failed"}
      /\ UNCHANGED <<vis, litter, docs, now, keep, cur, writes, remove, staged, flushed, lock>>
      /\ \A g \in Helpers \ {h} : SameHelper(g)
      /\ TypeOK' /\ NeverTorn' /\ DirOK' /\ Locked'
  BY <1>1, SyncFacts
<1>3. PlannedWrites(h)' = PlannedWrites(h) /\ PlannedRemove(h)' = PlannedRemove(h)
  BY <1>2, PlanStable
<1>4. /\ Files(writes[h])' = Files(writes[h]) /\ Files(cur[h])' = Files(cur[h])
      /\ NamedRight(cur[h])'
  BY <1>2 DEF Inv, HelperOK, NamedRight, Files
<1>5. HelperOK(h) /\ Progress(h)
  BY DEF Inv
<1>6. HelperOK(h)'
  BY <1>1, <1>2, <1>3, <1>4, <1>5 DEF HelperOK, Unplanned, Installing
<1>7. Progress(h)'
  BY <1>1, <1>2, <1>3, <1>4, <1>5 DEF Progress, Installing
<1>8. QED
  BY <1>2, <1>6, <1>7, DirStep

\* The next rename: the name shows the inventory, and gets a synced snapshot
\* of the plan that is no older.
LEMMA InstallFacts ==
    ASSUME Inv, NEW h \in Helpers, pc[h] = "install", staged[h] # {}
    PROVE  LET n == First(staged[h])
           IN /\ n \in Names /\ n \in staged[h] /\ n \in flushed[h] /\ n \in Files(writes[h])
              /\ writes[h][n] \in Docs /\ writes[h][n].name = n
              /\ vis[n] = cur[h][n]
              /\ vis[n] # None => vis[n].seq <= writes[h][n].seq
<1> DEFINE n == First(staged[h])
<1>1. n \in staged[h]
  BY FirstIn DEF Inv, TypeOK
<1> HIDE DEF n
<1>2. n \in Files(writes[h]) /\ n \in flushed[h] /\ writes[h] = PlannedWrites(h)
  BY <1>1 DEF Inv, HelperOK, Installing
<1>3. n \in Names /\ vis[n] = cur[h][n]
  BY <1>1, <1>2 DEF Inv, Progress, Installing, Files
<1>4. writes[h][n] \in Docs
  BY <1>2, <1>3 DEF Inv, TypeOK, Files
<1>5. PlanInput(h)
  BY InvPlanInput
<1>6. writes[h][n].name = n /\ (cur[h][n] # None => cur[h][n].seq <= writes[h][n].seq)
  BY <1>2, <1>3, <1>5, PlanFacts DEF NamedRight, Files
<1>7. QED
  BY <1>1, <1>2, <1>3, <1>4, <1>6 DEF n

\* A rename, or an error.
LEMMA InstallStep ==
    ASSUME Inv, NEW h \in Helpers, Install(h)
    PROVE  Inv'
<1> USE DEF worldVars, runVars, planVars
<1> DEFINE n == First(staged[h])
           d == writes[h][n]
<1>0. /\ pc[h] = "install" /\ staged[h] # {}
      /\ UNCHANGED <<clock, src, issued, kept, litter, docs, now, keep, cur, writes, remove, flushed, lock>>
  BY DEF Install
<1>1. /\ n \in Names /\ n \in staged[h] /\ n \in flushed[h] /\ n \in Files(writes[h])
      /\ d \in Docs /\ d.name = n /\ vis[n] = cur[h][n]
  BY <1>0, InstallFacts
<1>2. \/ /\ vis' = [vis EXCEPT ![n] = d] /\ maybe' = [maybe EXCEPT ![n] = @ \cup {d} \cup {}]
         /\ staged' = [staged EXCEPT ![h] = @ \ {n}] /\ UNCHANGED <<pc, faults>>
      \/ Fault("io") /\ Goto(h, "install", "failed") /\ UNCHANGED <<vis, maybe, staged>>
  BY <1>1 DEF Install
<1>3. PlannedWrites(h)' = PlannedWrites(h) /\ PlannedRemove(h)' = PlannedRemove(h)
  BY <1>0, PlanStable
<1>4. /\ Files(writes[h])' = Files(writes[h]) /\ Files(cur[h])' = Files(cur[h])
      /\ NamedRight(cur[h])'
  BY <1>0 DEF Inv, HelperOK, NamedRight, Files
<1>5. HelperOK(h) /\ Progress(h)
  BY DEF Inv
<1> HIDE DEF n
<1>6. CASE /\ vis' = [vis EXCEPT ![n] = d] /\ maybe' = [maybe EXCEPT ![n] = @ \cup {d} \cup {}]
           /\ staged' = [staged EXCEPT ![h] = @ \ {n}] /\ UNCHANGED <<pc, faults>>
  <2> HIDE DEF d
  <2>1. TypeOK'
    BY <1>0, <1>1, <1>6 DEF Inv, TypeOK, Values
  <2>2. NeverTorn'
    BY <1>1, <1>6, SpecialValues DEF Inv, TypeOK, NeverTorn
  <2>3. DirOK'
    BY <1>1, <1>6 DEF Inv, TypeOK, DirOK
  <2>4. Locked'
    BY <1>0, <1>6 DEF Inv, Locked
  <2>5. \A g \in Helpers \ {h} : SameHelper(g)
    BY <1>0, <1>6 DEF Inv, TypeOK, SameHelper
  <2>6. staged'[h] = staged[h] \ {n} /\ pc'[h] = "install"
    BY <1>0, <1>6 DEF Inv, TypeOK
  <2>7. HelperOK(h)'
    BY <1>0, <1>3, <1>4, <1>5, <2>6 DEF HelperOK, Unplanned, Installing
  <2>8. \A m \in Names : vis'[m] = IF m = n THEN d ELSE vis[m]
    BY <1>6 DEF Inv, TypeOK
  <2>9. Progress(h)'
    <3>1. \A m \in Files(writes[h]) :
             vis'[m] = IF m \in staged[h] \ {n} THEN cur[h][m] ELSE writes[h][m]
      BY <1>0, <1>1, <1>5, <2>8 DEF Progress, Installing, d, Files
    <3>2. \A m \in Files(cur[h]) \ Files(writes[h]) :
             vis'[m] = IF m \in PlannedRemove(h) \ remove[h] THEN None ELSE cur[h][m]
      BY <1>0, <1>1, <1>5, <2>8 DEF Progress, Installing, Files
    <3>3. QED
      BY <1>0, <1>3, <1>4, <2>6, <3>1, <3>2 DEF Progress
  <2>10. QED
    BY <1>0, <2>1, <2>2, <2>3, <2>4, <2>5, <2>7, <2>9, DirStep DEF Holding
<1>7. CASE Fault("io") /\ Goto(h, "install", "failed") /\ UNCHANGED <<vis, maybe, staged>>
  <2>1. faults' \in 0..MaxFaults
    BY <1>7, FaultType DEF Inv
  <2>2. TypeOK'
    BY <1>0, <1>7, <2>1 DEF Goto, Inv, TypeOK
  <2>3. pc'[h] = "failed" /\ \A g \in Helpers \ {h} : pc'[g] = pc[g]
    BY <1>7 DEF Goto, Inv, TypeOK
  <2>4. Locked'
    BY <1>0, <2>3 DEF Inv, Locked, Holding
  <2>5. \A g \in Helpers \ {h} : SameHelper(g)
    BY <1>0, <1>7, <2>3 DEF SameHelper
  <2>6. HelperOK(h)'
    BY <1>0, <1>4, <1>5, <1>7, <2>3 DEF HelperOK, Unplanned, Installing
  <2>7. Progress(h)'
    BY <2>3 DEF Progress, Installing
  <2>8. QED
    BY <1>7, <2>2, <2>4, <2>5, <2>6, <2>7, MemoryStep
<1>8. QED
  BY <1>2, <1>6, <1>7

\* The next removal is one of the plan, and shows the inventory.
LEMMA PruneFacts ==
    ASSUME Inv, NEW h \in Helpers, pc[h] = "prune", remove[h] # {}
    PROVE  LET n == First(remove[h])
           IN /\ n \in Names /\ n \in remove[h] /\ n \in PlannedRemove(h) /\ n \in Files(cur[h])
              /\ n \notin Files(writes[h]) /\ vis[n] = cur[h][n]
              /\ n[1] \in SelectedWindows(h) \ KeptWindows(h)
<1> DEFINE n == First(remove[h])
<1>1. n \in remove[h]
  BY FirstIn DEF Inv, TypeOK
<1> HIDE DEF n
<1>2. n \in PlannedRemove(h) /\ writes[h] = PlannedWrites(h)
  BY <1>1 DEF Inv, HelperOK, Installing
<1>3. PlanInput(h)
  BY InvPlanInput
<1>4. n \in Files(cur[h]) /\ n[1] \in SelectedWindows(h) \ KeptWindows(h)
  BY <1>2, <1>3, PlanFacts
<1>5. n \notin Files(writes[h])
  BY <1>2, <1>3, <1>4, PlanFacts
<1>6. n \in Names /\ vis[n] = cur[h][n]
  BY <1>1, <1>4, <1>5 DEF Inv, Progress, Installing, Files
<1>7. QED
  BY <1>1, <1>2, <1>4, <1>5, <1>6 DEF n

\* A removal, or an error.
LEMMA PruneStep ==
    ASSUME Inv, NEW h \in Helpers, Prune(h)
    PROVE  Inv'
<1> USE DEF worldVars, runVars, stageVars
<1> DEFINE n == First(remove[h])
<1>0. /\ pc[h] = "prune" /\ remove[h] # {}
      /\ UNCHANGED <<clock, src, issued, kept, litter, docs, now, keep, cur, writes, staged, flushed, lock>>
  BY DEF Prune
<1>1. /\ n \in Names /\ n \in remove[h] /\ n \in PlannedRemove(h) /\ n \in Files(cur[h])
      /\ n \notin Files(writes[h]) /\ vis[n] = cur[h][n]
  BY <1>0, PruneFacts
<1>2. \/ /\ vis' = [vis EXCEPT ![n] = None] /\ maybe' = [maybe EXCEPT ![n] = @ \cup {None}]
         /\ remove' = [remove EXCEPT ![h] = @ \ {n}] /\ UNCHANGED <<pc, faults>>
      \/ /\ UNCHANGED faults \/ Fault("io")
         /\ Goto(h, "prune", "failed") /\ UNCHANGED <<vis, maybe, remove>>
  BY DEF Prune
<1>3. PlannedWrites(h)' = PlannedWrites(h) /\ PlannedRemove(h)' = PlannedRemove(h)
  BY <1>0, PlanStable
<1>4. /\ Files(writes[h])' = Files(writes[h]) /\ Files(cur[h])' = Files(cur[h])
      /\ NamedRight(cur[h])'
  BY <1>0 DEF Inv, HelperOK, NamedRight, Files
<1>5. HelperOK(h) /\ Progress(h)
  BY DEF Inv
<1> HIDE DEF n
<1>6. CASE /\ vis' = [vis EXCEPT ![n] = None] /\ maybe' = [maybe EXCEPT ![n] = @ \cup {None}]
           /\ remove' = [remove EXCEPT ![h] = @ \ {n}] /\ UNCHANGED <<pc, faults>>
  <2>1. TypeOK'
    BY <1>0, <1>1, <1>6 DEF Inv, TypeOK, Values
  <2>2. NeverTorn'
    BY <1>1, <1>6, SpecialValues DEF Inv, TypeOK, NeverTorn
  <2>3. DirOK'
    BY <1>1, <1>6 DEF Inv, TypeOK, DirOK
  <2>4. Locked'
    BY <1>0, <1>6 DEF Inv, Locked
  <2>5. \A g \in Helpers \ {h} : SameHelper(g)
    BY <1>0, <1>6 DEF Inv, TypeOK, SameHelper
  <2>6. remove'[h] = remove[h] \ {n} /\ pc'[h] = "prune"
    BY <1>0, <1>6 DEF Inv, TypeOK
  <2>7. HelperOK(h)'
    BY <1>0, <1>3, <1>4, <1>5, <2>6 DEF HelperOK, Unplanned, Installing
  <2>8. \A m \in Names : vis'[m] = IF m = n THEN None ELSE vis[m]
    BY <1>6 DEF Inv, TypeOK
  <2>9. Progress(h)'
    <3>1. \A m \in Files(writes[h]) :
             vis'[m] = IF m \in staged[h] THEN cur[h][m] ELSE writes[h][m]
      BY <1>0, <1>1, <1>5, <2>8 DEF Progress, Installing, Files
    <3>2. \A m \in Files(cur[h]) \ Files(writes[h]) :
             vis'[m] = IF m \in PlannedRemove(h) \ (remove[h] \ {n}) THEN None ELSE cur[h][m]
      BY <1>0, <1>1, <1>5, <2>8 DEF Progress, Installing, Files
    <3>3. QED
      BY <1>0, <1>3, <1>4, <2>6, <3>1, <3>2 DEF Progress
  <2>10. QED
    BY <1>0, <2>1, <2>2, <2>3, <2>4, <2>5, <2>7, <2>9, DirStep DEF Holding
<1>7. CASE /\ UNCHANGED faults \/ Fault("io")
           /\ Goto(h, "prune", "failed") /\ UNCHANGED <<vis, maybe, remove>>
  <2>1. faults' \in 0..MaxFaults
    BY <1>7, FaultType DEF Inv, TypeOK
  <2>2. TypeOK'
    BY <1>0, <1>7, <2>1 DEF Goto, Inv, TypeOK
  <2>3. pc'[h] = "failed" /\ \A g \in Helpers \ {h} : pc'[g] = pc[g]
    BY <1>7 DEF Goto, Inv, TypeOK
  <2>4. Locked'
    BY <1>0, <2>3 DEF Inv, Locked, Holding
  <2>5. \A g \in Helpers \ {h} : SameHelper(g)
    BY <1>0, <1>7, <2>3 DEF SameHelper
  <2>6. HelperOK(h)'
    BY <1>0, <1>4, <1>5, <1>7, <2>3 DEF HelperOK, Unplanned, Installing
  <2>7. Progress(h)'
    BY <2>3 DEF Progress, Installing
  <2>8. QED
    BY <1>7, <2>2, <2>4, <2>5, <2>6, <2>7, MemoryStep
<1>8. QED
  BY <1>2, <1>6, <1>7

\* A process that dies leaves its stages, and perhaps a part of one more.
LEMMA CrashFacts ==
    ASSUME Inv, NEW h \in Helpers, Crash(h)
    PROVE  \E left \in SUBSET staged[h], torn \in {0, 1} :
              /\ torn = 1 => pc[h] = "stage" /\ staged[h] # Files(writes[h])
              /\ litter' = [entries |-> litter.entries + Cardinality(left) + torn,
                            bytes |-> litter.bytes + Bytes(writes[h], left) + torn]
              /\ IsFiniteSet(left) /\ Cardinality(left) \in Nat /\ Bytes(writes[h], left) \in Nat
<1>1. PICK left \in SUBSET staged[h], torn \in {0, 1} :
         /\ torn = 1 => pc[h] = "stage" /\ staged[h] # Files(writes[h])
         /\ litter' = [entries |-> litter.entries + Cardinality(left) + torn,
                       bytes |-> litter.bytes + Bytes(writes[h], left) + torn]
  <2>1. PICK left \in IF pc[h] = "failed" THEN SUBSET staged[h] ELSE {staged[h]},
             torn \in IF pc[h] = "stage" /\ staged[h] # Files(writes[h]) THEN {0, 1} ELSE {0} :
                litter' = [entries |-> litter.entries + Cardinality(left) + torn,
                           bytes |-> litter.bytes + Bytes(writes[h], left) + torn]
    BY DEF Crash
  <2>2. left \in SUBSET staged[h] /\ torn \in {0, 1}
        /\ (torn = 1 => pc[h] = "stage" /\ staged[h] # Files(writes[h]))
    BY <2>1
  <2>3. QED
    BY <2>1, <2>2
<1>2. writes[h] \in [Names -> Docs \cup {None}] /\ left \in SUBSET Files(writes[h])
  BY <1>1 DEF Inv, TypeOK, HelperOK
<1>3. QED
  BY <1>1, <1>2, BytesNat

\* Another process can take the lock, and the directory is as it was.
LEMMA CrashStep ==
    ASSUME Inv, NEW h \in Helpers, Crash(h)
    PROVE  Inv'
<1> USE DEF worldVars
<1>1. Forget(h) /\ pc' = [pc EXCEPT ![h] = "idle"] /\ UNCHANGED <<vis, maybe, kept, clock, src, issued>>
  BY DEF Crash
<1>2. faults' \in 0..MaxFaults
  BY FaultType DEF Crash, Inv
<1>3. litter' \in [entries: Nat, bytes: Nat]
  <2>1. litter.entries \in Nat /\ litter.bytes \in Nat
    BY DEF Inv, TypeOK
  <2>2. PICK left \in SUBSET staged[h], torn \in {0, 1} :
              /\ litter' = [entries |-> litter.entries + Cardinality(left) + torn,
                            bytes |-> litter.bytes + Bytes(writes[h], left) + torn]
              /\ Cardinality(left) \in Nat /\ Bytes(writes[h], left) \in Nat
    BY CrashFacts
  <2>3. QED
    BY <2>1, <2>2
<1>4. TypeOK'
  BY <1>1, <1>2, <1>3, ForgetFacts DEF Inv, TypeOK
<1>5. QED
  BY <1>1, <1>4, ForgetFacts, MemoryStep

\* What a power loss leaves is one of the values the directory had.
LEMMA PowerFacts ==
    ASSUME Inv, PowerLoss
    PROVE  \E after \in [Names -> Docs \cup {None}] :
              /\ \A n \in Names : after[n] \in maybe[n]
              /\ vis' = after /\ maybe' = [n \in Names |-> {after[n]}]
              /\ kept' = [n \in Names |-> IF after[n] \in {None, Torn} THEN kept[n] ELSE after[n].seq]
<1>1. PICK after \in [Names -> UNION {maybe[n] : n \in Names}] :
          /\ \A n \in Names : after[n] \in maybe[n]
          /\ vis' = after
          /\ maybe' = [n \in Names |-> {after[n]}]
          /\ kept' = [n \in Names |-> IF after[n] \in {None, Torn} THEN kept[n] ELSE after[n].seq]
  BY DEF PowerLoss
<1>2. \A n \in Names : after[n] \in Docs \cup {None}
  BY <1>1 DEF Inv, TypeOK, NeverTorn, Values
<1>3. after \in [Names -> Docs \cup {None}]
  BY <1>1, <1>2
<1>4. QED
  BY <1>1, <1>3

\* Everything starts over from what is on the disk.
LEMMA PowerStep ==
    ASSUME Inv, PowerLoss
    PROVE  Inv'
<1> USE DEF worldVars
<1>1. PICK after \in [Names -> Docs \cup {None}] :
              /\ \A n \in Names : after[n] \in maybe[n]
              /\ vis' = after /\ maybe' = [n \in Names |-> {after[n]}]
              /\ kept' = [n \in Names |-> IF after[n] \in {None, Torn} THEN kept[n] ELSE after[n].seq]
  BY PowerFacts
<1>2. faults' \in 0..MaxFaults
  BY FaultType DEF PowerLoss, Inv
<1>3. litter' \in [entries: Nat, bytes: Nat]
  <2>1. litter.entries \in Nat /\ litter.bytes \in Nat
    BY DEF Inv, TypeOK
  <2>0. PICK dir : \E left \in SUBSET Staging(dir) :
           litter' = [entries |-> litter.entries + Cardinality(left),
                      bytes |-> litter.bytes + SumFunctionOnSet([x \in left |-> Size(writes[x[1]][x[2]])], left)]
    BY DEF PowerLoss
  <2>2. PICK left \in SUBSET Staging(dir) :
           litter' = [entries |-> litter.entries + Cardinality(left),
                      bytes |-> litter.bytes + SumFunctionOnSet([x \in left |-> Size(writes[x[1]][x[2]])], left)]
    BY <2>0
  <2>3. \A x \in left : x \in Helpers \X Names /\ Size(writes[x[1]][x[2]]) \in Nat
    <3>1. ASSUME NEW x \in left PROVE x \in Helpers \X Names /\ writes[x[1]][x[2]] # None
      <4>1. x \in Helpers \X Names /\ (x[2] \in staged[x[1]] \/ writes[x[1]][x[2]] # None)
        BY DEF Staging
      <4>2. x[1] \in Helpers
        BY <4>1
      <4>3. staged[x[1]] \subseteq Files(writes[x[1]])
        BY <4>2 DEF Inv, HelperOK
      <4>4. QED
        BY <4>1, <4>3 DEF Files
    <3>2. ASSUME NEW x \in left PROVE writes[x[1]][x[2]] \in Docs
      <4>1. x[1] \in Helpers /\ x[2] \in Names
        BY <3>1
      <4>2. writes[x[1]] \in [Names -> Docs \cup {None}]
        BY <4>1 DEF Inv, TypeOK
      <4>3. QED
        BY <3>1, <4>1, <4>2
    <3>3. QED
      BY <3>1, <3>2, SizeNat
  <2>4. IsFiniteSet(left)
    <3>1. IsFiniteSet(Helpers \X Names)
      BY NamesFinite, ArchiveAssumption, FS_Product
    <3>2. left \in SUBSET (Helpers \X Names)
      BY <2>3
    <3>3. QED
      BY <3>1, <3>2, FS_Subset
  <2> DEFINE g == [x \in left |-> Size(writes[x[1]][x[2]])]
  <2>5. \A x \in left : g[x] \in Nat
    BY <2>3
  <2>6. SumFunctionOnSet(g, left) \in Nat
    <3> HIDE DEF g
    <3>1. QED
      BY <2>4, <2>5, SumType
  <2>7. Cardinality(left) \in Nat
    BY <2>4, FS_CardinalityType
  <2>8. litter' = [entries |-> litter.entries + Cardinality(left),
                   bytes |-> litter.bytes + SumFunctionOnSet(g, left)]
    BY <2>2
  <2> HIDE DEF g
  <2>9. QED
    BY <2>1, <2>6, <2>7, <2>8
<1>4. kept' \in [Names -> 0..MaxSeq]
  BY <1>1 DEF Inv, TypeOK, Docs
<1>5. maybe' \in [Names -> SUBSET Values]
  BY <1>1 DEF Values
<1>6. NoFiles \in [Names -> Docs \cup {None}] /\ 0 \in Windows /\ NamedRight(NoFiles)
  BY ArchiveAssumption DEF NoFiles, Windows, NamedRight
<1>7. /\ pc' = [h \in Helpers |-> "idle"] /\ docs' = [h \in Helpers |-> {}]
      /\ now' = [h \in Helpers |-> 0] /\ keep' = [h \in Helpers |-> 1]
      /\ cur' = [h \in Helpers |-> NoFiles] /\ writes' = [h \in Helpers |-> NoFiles]
      /\ remove' = [h \in Helpers |-> {}] /\ staged' = [h \in Helpers |-> {}]
      /\ flushed' = [h \in Helpers |-> {}] /\ lock' = None /\ UNCHANGED worldVars
  BY DEF PowerLoss
<1>8. TypeOK'
  <2>1. cur' \in [Helpers -> [Names -> Docs \cup {None}]] /\ writes' \in [Helpers -> [Names -> Docs \cup {None}]]
    BY <1>6, <1>7
  <2>2. QED
    BY <1>1, <1>2, <1>3, <1>4, <1>5, <1>6, <1>7, <2>1 DEF Inv, TypeOK
<1>9. NeverTorn' /\ DirOK'
  BY <1>1 DEF Inv, NeverTorn, DirOK
<1>10. Locked'
  BY <1>7, ArchiveAssumption DEF Locked, Holding
<1>11. ASSUME NEW h \in Helpers PROVE HelperOK(h)' /\ Progress(h)'
  <2>1. NamedRight(cur[h])'
    BY <1>6, <1>7 DEF NamedRight
  <2>2. QED
    BY <1>7, <2>1 DEF HelperOK, Progress, Installing
<1>12. QED
  BY <1>8, <1>9, <1>10, <1>11 DEF Inv

\* Somebody edits the archive: no helper has started to change it.
LEMMA EditStep ==
    ASSUME Inv, NEW n \in Names, Edit(n)
    PROVE  Inv'
<1> USE DEF worldVars, runVars, planVars, stageVars
<1>1. PICK v \in {None} \cup {Summary(n, s, s) : s \in 1..MaxSeq} :
         vis' = [vis EXCEPT ![n] = v] /\ maybe' = [maybe EXCEPT ![n] = @ \cup {v}]
  BY DEF Edit
<1>2. v = None \/ (v \in Docs /\ v.name = n)
  <2>1. \A s \in 1..MaxSeq : s \in 0..MaxSeq
    BY ArchiveAssumption
  <2>2. QED
    BY <1>1, <2>1, SummaryType DEF Inv
<1>3. /\ \A h \in Helpers : pc[h] \in {"idle", "open", "read", "plan", "stage"}
      /\ UNCHANGED <<clock, src, issued, kept, litter, docs, now, keep, cur, writes, remove, staged, flushed, lock, pc>>
  BY DEF Edit
<1>4. faults' \in 0..MaxFaults
  BY FaultType DEF Edit, Inv
<1>5. TypeOK'
  BY <1>1, <1>2, <1>3, <1>4 DEF Inv, TypeOK, Values
<1>6. NeverTorn' /\ DirOK'
  BY <1>1, <1>2, SpecialValues DEF Inv, TypeOK, NeverTorn, DirOK
<1>7. Locked'
  BY <1>3 DEF Inv, Locked
<1>8. ASSUME NEW h \in Helpers PROVE HelperOK(h)' /\ Progress(h)'
  <2>1. SameHelper(h)
    BY <1>3 DEF SameHelper
  <2>2. Progress(h)'
    BY <1>3 DEF Progress, Installing
  <2>3. QED
    BY <2>1, <2>2, HelperFrame DEF Inv
<1>9. QED
  BY <1>5, <1>6, <1>7, <1>8 DEF Inv

\* No step of anybody breaks the invariant.
LEMMA NextInv == Inv /\ [Next]_vars => Inv'
<1> SUFFICES ASSUME Inv, [Next]_vars PROVE Inv'
  OBVIOUS
<1>1. ASSUME NEW h \in Helpers, HelperStep(h) PROVE Inv'
  BY <1>1, StartStep, LockStep, ReadStep, PlanStep, StageStep, RecheckStep, SyncStep, InstallStep,
     PruneStep, FinishStep DEF HelperStep
<1>2. CASE Collector
  BY <1>2, CollectorStep
<1>3. CASE Interference
  BY <1>3, CrashStep, EditStep, PowerStep DEF Interference
<1>4. CASE UNCHANGED vars
  <2> USE DEF vars, worldVars, dirVars, runVars, planVars, stageVars
  <2>1. TypeOK' /\ NeverTorn' /\ Locked' /\ DirOK'
    BY <1>4 DEF Inv, TypeOK, NeverTorn, Locked, DirOK
  <2>2. ASSUME NEW g \in Helpers PROVE SameHelper(g) /\ vis' = vis
    BY <1>4 DEF SameHelper
  <2>3. QED
    BY <2>1, <2>2, HelperFrame, ProgressFrame DEF Inv
<1>5. QED
  BY <1>1, <1>2, <1>3, <1>4 DEF Next

\* The invariant holds whatever the faults.
LEMMA SpecInv == Spec => []Inv
<1>1. QED
  BY InitInv, NextInv, PTL DEF Spec

\* Types are kept by every helper, collector and fault; no file is ever torn.
THEOREM ArchiveTypes == Spec => []TypeOK
<1>1. Inv => TypeOK
  BY DEF Inv
<1>2. QED
  BY <1>1, SpecInv, PTL

\* No power loss leaves half a snapshot under an archived name: stageFile
\* syncs every stage before installPlan renames it.
THEOREM ArchiveNeverTorn == Spec => []NeverTorn
<1>1. Inv => NeverTorn
  BY DEF Inv
<1>2. QED
  BY <1>1, SpecInv, PTL

\* Who can change what is visible.
LEMMA VisibleChange ==
    ASSUME Inv, [Next]_vars, NEW n \in Names, vis'[n] # vis[n], ~PowerLoss, ~Edit(n)
    PROVE  \E h \in Helpers :
              \/ Install(h) /\ n = First(staged[h]) /\ vis'[n] = writes[h][n]
              \/ Prune(h) /\ n = First(remove[h]) /\ vis'[n] = None
<1> USE DEF worldVars, dirVars, runVars, planVars, stageVars
<1>1. CASE Collector \/ UNCHANGED vars
  BY <1>1 DEF Collector, Tick, Emit, Reset, Expire, vars
<1>2. CASE Interference
  <2>1. ASSUME NEW h \in Helpers, Crash(h) PROVE FALSE
    BY <2>1 DEF Crash
  <2>2. ASSUME NEW m \in Names, Edit(m) PROVE FALSE
    <3>1. PICK v : vis' = [vis EXCEPT ![m] = v]
      BY <2>2 DEF Edit
    <3>2. m # n
      BY <2>2
    <3>3. QED
      BY <3>1, <3>2 DEF Inv, TypeOK
  <2>3. QED
    BY <1>2, <2>1, <2>2 DEF Interference
<1>3. ASSUME NEW h \in Helpers, HelperStep(h), ~Install(h), ~Prune(h) PROVE FALSE
  BY <1>3 DEF HelperStep, Start, Lock, Read, Plan, Stage, Recheck, SyncStage, SyncInstall, SyncPrune,
              SyncOrFail, SyncDir, Finish
<1>4. ASSUME NEW h \in Helpers, Install(h) PROVE n = First(staged[h]) /\ vis'[n] = writes[h][n]
  <2>1. vis' = [vis EXCEPT ![First(staged[h])] = writes[h][First(staged[h])]]
    BY <1>4 DEF Install
  <2>2. QED
    BY <2>1 DEF Inv, TypeOK
<1>5. ASSUME NEW h \in Helpers, Prune(h) PROVE n = First(remove[h]) /\ vis'[n] = None
  <2>1. vis' = [vis EXCEPT ![First(remove[h])] = None]
    BY <1>5 DEF Prune
  <2>2. QED
    BY <2>1 DEF Inv, TypeOK
<1>6. QED
  BY <1>1, <1>2, <1>3, <1>4, <1>5 DEF Next

\* An archived snapshot is never replaced by an older one, however many
\* helpers run at once, except by a power loss or by hand.
THEOREM ArchiveNoRegression == Spec => NoRegression
<1>1. Inv /\ [Next]_vars =>
        [\A n \in Names : vis[n] # None /\ vis'[n] # None /\ vis'[n].seq < vis[n].seq
            => PowerLoss \/ Edit(n)]_vars
  <2> SUFFICES ASSUME Inv, [Next]_vars, NEW n \in Names, vis[n] # None, vis'[n] # None,
                      vis'[n].seq < vis[n].seq, ~PowerLoss, ~Edit(n)
               PROVE  FALSE
    OBVIOUS
  <2>1. vis[n].seq \in Nat
    BY DEF Inv, TypeOK, Docs
  <2>2. vis'[n] # vis[n]
    BY <2>1
  <2>3. PICK h \in Helpers : Install(h) /\ n = First(staged[h]) /\ vis'[n] = writes[h][n]
    BY <2>2, VisibleChange
  <2>4. vis[n].seq <= writes[h][n].seq /\ writes[h][n].seq \in Nat
    BY <2>3, InstallFacts DEF Install, Docs
  <2>5. QED
    BY <2>1, <2>3, <2>4
<1>2. QED
  BY <1>1, SpecInv, PTL DEF Spec, NoRegression

\* installPlan changes a name only while it holds the lock and the directory
\* shows what its inventory showed, edits before the recheck included.
THEOREM ArchiveOnlyInventoried == Spec => OnlyInventoried
<1>1. Inv /\ [Next]_vars =>
        [\A n \in Names : vis'[n] # vis[n] =>
          \/ lock \in Helpers /\ vis[n] = cur[lock][n] /\ pc[lock] \in {"install", "prune"}
          \/ PowerLoss \/ Edit(n)]_vars
  <2> SUFFICES ASSUME Inv, [Next]_vars, NEW n \in Names, vis'[n] # vis[n], ~PowerLoss, ~Edit(n)
               PROVE  lock \in Helpers /\ vis[n] = cur[lock][n] /\ pc[lock] \in {"install", "prune"}
    OBVIOUS
  <2>1. PICK h \in Helpers : \/ Install(h) /\ n = First(staged[h])
                             \/ Prune(h) /\ n = First(remove[h])
    BY VisibleChange
  <2>2. pc[h] \in {"install", "prune"} /\ vis[n] = cur[h][n]
    BY <2>1, InstallFacts, PruneFacts DEF Install, Prune
  <2>3. lock = h
    BY <2>2 DEF Inv, Locked, Holding
  <2>4. QED
    BY <2>2, <2>3
<1>2. QED
  BY <1>1, SpecInv, PTL DEF Spec, OnlyInventoried

-----------------------------------------------------------------------------
(* Without edits by hand: what a successful run leaves.                    *)

\* One helper moves at a time.
LEMMA OthersSame ==
    ASSUME Inv, NEW h \in Helpers, HelperStep(h) \/ Crash(h), NEW g \in Helpers, g # h
    PROVE  SameHelper(g)
<1> USE DEF runVars, planVars, stageVars, SameHelper, Inv, TypeOK
<1>1. CASE Start(h)
  BY <1>1 DEF Start, Goto
<1>2. CASE Lock(h) \/ Finish(h) \/ Crash(h)
  BY <1>2 DEF Lock, Finish, Crash, Goto, Forget
<1>3. CASE Read(h) \/ Recheck(h)
  BY <1>3 DEF Read, Recheck, Goto
<1>4. CASE Plan(h)
  <2>1. PICK w, r : \/ /\ Goto(h, "plan", "stage") /\ writes' = [writes EXCEPT ![h] = w]
                       /\ remove' = [remove EXCEPT ![h] = r]
                    \/ Goto(h, "plan", "failed") /\ UNCHANGED <<writes, remove>>
    BY <1>4 DEF Plan
  <2>2. UNCHANGED <<runVars, cur, stageVars>>
    BY <1>4 DEF Plan
  <2>3. QED
    BY <2>1, <2>2 DEF Goto
<1>5. CASE Stage(h)
  BY <1>5 DEF Stage, Goto
<1>6. CASE SyncStage(h) \/ SyncInstall(h) \/ SyncPrune(h)
  BY <1>6 DEF SyncStage, SyncInstall, SyncPrune, SyncOrFail, Goto
<1>7. CASE Install(h) \/ Prune(h)
  BY <1>7 DEF Install, Prune, Goto
<1>8. QED
  BY <1>1, <1>2, <1>3, <1>4, <1>5, <1>6, <1>7 DEF HelperStep

\* Until the recheck the directory is the inventory; afterwards only names of
\* the inventory and of the plan exist.
Undisturbed(h) ==
    /\ pc[h] \in {"plan", "stage"} => vis = cur[h]
    /\ pc[h] \in Installing =>
          \A n \in Names \ (Files(cur[h]) \cup Files(writes[h])) : vis[n] = None

\* A helper that does not move sees the directory change only when it has no lock.
LEMMA UndisturbedFrame ==
    ASSUME Inv, NEW g \in Helpers, SameHelper(g), vis' = vis \/ pc[g] \notin Holding, Undisturbed(g)
    PROVE  Undisturbed(g)'
<1>1. CASE pc[g] \notin Holding
  BY <1>1 DEF Undisturbed, SameHelper, Holding, Installing
<1>2. CASE vis' = vis
  <2>1. Files(writes[g])' = Files(writes[g]) /\ Files(cur[g])' = Files(cur[g])
    BY DEF SameHelper, Files
  <2>2. QED
    BY <1>2, <2>1 DEF Undisturbed, SameHelper, Installing
<1>3. QED
  BY <1>1, <1>2

\* The helper that moves.
LEMMA UndisturbedMove ==
    ASSUME Inv, NEW h \in Helpers, HelperStep(h), Undisturbed(h)
    PROVE  Undisturbed(h)'
<1> USE DEF worldVars, dirVars, runVars, planVars, stageVars
<1>1. CASE Start(h) \/ Lock(h) \/ Finish(h)
  BY <1>1 DEF Start, Lock, Finish, Goto, Inv, TypeOK, Undisturbed, Installing
<1>2. CASE Read(h)
  BY <1>2 DEF Read, Goto, Inv, TypeOK, Undisturbed, Installing
<1>3. CASE Plan(h)
  <2>1. UNCHANGED <<vis, cur>> /\ pc[h] = "plan" /\ (Goto(h, "plan", "stage") \/ Goto(h, "plan", "failed"))
    BY <1>3 DEF Plan
  <2>2. QED
    BY <2>1 DEF Goto, Inv, TypeOK, Undisturbed, Installing
<1>4. CASE Stage(h)
  <2>1. UNCHANGED <<vis, cur>> /\ pc[h] = "stage" /\ (UNCHANGED pc \/ Goto(h, "stage", "failed"))
    BY <1>4 DEF Stage
  <2>2. QED
    BY <2>1 DEF Goto, Inv, TypeOK, Undisturbed, Installing
<1>5. CASE Recheck(h)
  <2>1. UNCHANGED <<vis, cur, writes>> /\ pc[h] = "stage" /\ pc'[h] # "plan" /\ pc'[h] # "stage"
    BY <1>5 DEF Recheck, Goto, Inv, TypeOK
  <2>2. QED
    BY <2>1 DEF Undisturbed, Files
<1>6. CASE SyncStage(h) \/ SyncInstall(h) \/ SyncPrune(h)
  <2>1. PICK from \in Installing, to \in Installing : SyncOrFail(h, from, to)
    BY <1>6 DEF SyncStage, SyncInstall, SyncPrune, Installing
  <2>2. pc[h] = from /\ pc'[h] \in {to, "failed"} /\ UNCHANGED <<vis, cur, writes>>
    BY <2>1, SyncFacts DEF Installing, Holding
  <2>3. QED
    BY <2>2 DEF Undisturbed, Installing, Files
<1>7. CASE Install(h)
  <2>0. pc[h] = "install" /\ staged[h] # {} /\ UNCHANGED <<cur, writes>>
    BY <1>7 DEF Install
  <2>1. First(staged[h]) \in Files(writes[h])
    BY <2>0, InstallFacts
  <2>2. pc'[h] \in {"install", "failed"}
    BY <1>7 DEF Install, Goto, Inv, TypeOK
  <2>3. \A n \in Names \ Files(writes[h]) : vis'[n] = vis[n]
    BY <1>7, <2>1 DEF Install, Inv, TypeOK
  <2>4. QED
    BY <2>0, <2>2, <2>3 DEF Undisturbed, Installing, Files
<1>8. CASE Prune(h)
  <2>0. pc[h] = "prune" /\ UNCHANGED <<cur, writes>>
    BY <1>8 DEF Prune
  <2>1. pc'[h] \in {"prune", "failed"}
    BY <1>8 DEF Prune, Goto, Inv, TypeOK
  <2>2. \A n \in Names : vis'[n] \in {vis[n], None}
    BY <1>8 DEF Prune, Inv, TypeOK
  <2>3. QED
    BY <2>0, <2>1, <2>2 DEF Undisturbed, Installing, Files
<1>9. QED
  BY <1>1, <1>2, <1>3, <1>4, <1>5, <1>6, <1>7, <1>8 DEF HelperStep

\* The directory moves only under the lock, or when everything stops.
LEMMA VisibleOwner ==
    ASSUME Inv, [Next]_vars, vis' # vis, NEW g \in Helpers, SameHelper(g), ~PowerLoss,
           "edit" \notin Faults
    PROVE  pc[g] \notin Holding \/ Install(g) \/ Prune(g)
<1>1. vis = [n \in Names |-> vis[n]] /\ vis' = [n \in Names |-> vis'[n]]
  BY NextInv DEF Inv, TypeOK
<1>2. PICK n \in Names : vis'[n] # vis[n]
  BY <1>1
<1>3. ~Edit(n)
  BY DEF Edit, Fault
<1>4. PICK h \in Helpers : Install(h) \/ Prune(h)
  BY <1>2, <1>3, VisibleChange
<1>5. pc[h] \in Holding
  BY <1>4 DEF Install, Prune, Holding
<1>6. QED
  BY <1>4, <1>5, OneHolder

\* Nobody but the lock holder disturbs the inventory.
LEMMA UndisturbedStep ==
    ASSUME Inv, [Next]_vars, "edit" \notin Faults, \A h \in Helpers : Undisturbed(h)
    PROVE  \A h \in Helpers : Undisturbed(h)'
<1> SUFFICES ASSUME NEW g \in Helpers PROVE Undisturbed(g)'
  OBVIOUS
<1>1. CASE HelperStep(g)
  BY <1>1, UndisturbedMove
<1>2. CASE Crash(g) \/ PowerLoss
  BY <1>2 DEF Crash, PowerLoss, Inv, TypeOK, Undisturbed, Installing
<1>3. CASE ~HelperStep(g) /\ ~Crash(g) /\ ~PowerLoss
  <2>1. SameHelper(g)
    <3>1. ASSUME NEW h \in Helpers, HelperStep(h) \/ Crash(h) PROVE SameHelper(g)
      BY <1>3, <3>1, OthersSame
    <3>2. ASSUME Collector \/ UNCHANGED vars \/ \E n \in Names : Edit(n) PROVE SameHelper(g)
      BY <3>2 DEF Collector, Tick, Emit, Reset, Expire, Edit, vars, runVars, planVars, stageVars, SameHelper
    <3>3. QED
      BY <1>3, <3>1, <3>2 DEF Next, Interference
  <2>2. vis' = vis \/ pc[g] \notin Holding
    BY <1>3, <2>1, VisibleOwner DEF HelperStep
  <2>3. QED
    BY <2>1, <2>2, UndisturbedFrame
<1>4. QED
  BY <1>1, <1>2, <1>3

\* Once every stage is renamed, the kept windows show what was selected.
LEMMA KeptVisible ==
    ASSUME Inv, NEW h \in Helpers, pc[h] \in Installing, staged[h] = {},
           NEW n \in Names, n[1] \in KeptWindows(h)
    PROVE  Selected(h)[n] # None => vis[n] = Selected(h)[n]
<1>1. PlanInput(h) /\ writes[h] = PlannedWrites(h)
  BY InvPlanInput DEF Inv, HelperOK
<1>2. CASE n \in Files(writes[h])
  <2>1. writes[h][n] = Selected(h)[n]
    BY <1>1, <1>2, PlanFacts
  <2>2. vis[n] = writes[h][n]
    BY <1>2 DEF Inv, Progress
  <2>3. QED
    BY <2>1, <2>2
<1>3. CASE n \notin Files(writes[h])
  <2>1. cur[h][n] = Selected(h)[n]
    BY <1>1, <1>3, PlanFacts
  <2>2. n \notin PlannedRemove(h)
    BY <1>1, PlanFacts
  <2>3. cur[h][n] # None => vis[n] = cur[h][n]
    BY <1>3, <2>2 DEF Inv, Progress, Files
  <2>4. QED
    BY <2>1, <2>3
<1>4. QED
  BY <1>2, <1>3

\* So every kept window is there.
LEMMA KeptThere ==
    ASSUME Inv, NEW h \in Helpers, pc[h] \in Installing, staged[h] = {}
    PROVE  KeptWindows(h) \subseteq {n[1] : n \in Files(vis)}
<1> SUFFICES ASSUME NEW w \in KeptWindows(h) PROVE \E n \in Files(vis) : n[1] = w
  OBVIOUS
<1>1. PlanInput(h)
  BY InvPlanInput
<1>2. PICK n \in Names : n[1] = w /\ Selected(h)[n] # None
  BY <1>1, PlanFacts
<1>3. vis[n] # None
  BY <1>2, KeptVisible
<1>4. QED
  BY <1>2, <1>3 DEF Files

\* A run that is done has carried out its plan.
LEMMA DoneFacts ==
    ASSUME Inv, NEW h \in Helpers, Undisturbed(h), pc[h] = "done"
    PROVE  {n[1] : n \in Files(vis)} = KeptWindows(h)
<1>1. PlanInput(h) /\ writes[h] = PlannedWrites(h) /\ staged[h] = {} /\ remove[h] = {}
      /\ pc[h] \in Installing
  BY InvPlanInput DEF Inv, HelperOK, Installing
<1>2. ASSUME NEW n \in Files(vis) PROVE n[1] \in KeptWindows(h)
  <2>0. n \in Names /\ vis[n] # None
    BY DEF Files
  <2>1. CASE n \in Files(writes[h])
    BY <1>1, <2>1, PlanFacts
  <2>2. CASE n \notin Files(writes[h])
    <3>1. n \in Files(cur[h])
      BY <1>1, <2>0, <2>2 DEF Undisturbed
    <3>2. n \notin PlannedRemove(h)
      BY <1>1, <2>0, <2>2, <3>1 DEF Inv, Progress
    <3>3. QED
      BY <1>1, <3>1, <3>2, PlanFacts
  <2>3. QED
    BY <2>1, <2>2
<1>3. QED
  BY <1>1, <1>2, KeptThere

\* Success, spelled out.
LEMMA DoneSettles ==
    ASSUME Inv, \A h \in Helpers : Undisturbed(h)
    PROVE  SuccessSettles
<1> SUFFICES ASSUME NEW h \in Helpers, pc[h] = "done"
             PROVE  /\ Cardinality({n[1] : n \in Files(vis)}) <= keep[h]
                    /\ \A d \in Eligible(h) :
                          \/ vis[d.name] # None /\ vis[d.name].seq >= d.seq
                          \/ Cardinality({n[1] : n \in {m \in Files(vis) : m[1] > d.name[1]}}) = keep[h]
  BY DEF SuccessSettles
<1>1. PlanInput(h) /\ staged[h] = {} /\ pc[h] \in Installing
  BY InvPlanInput DEF Inv, HelperOK, Installing
<1>2. {n[1] : n \in Files(vis)} = KeptWindows(h)
  BY DoneFacts
<1>3. Cardinality({n[1] : n \in Files(vis)}) <= keep[h]
  BY <1>1, <1>2, KeptFacts
<1>4. ASSUME NEW d \in Eligible(h)
      PROVE  \/ vis[d.name] # None /\ vis[d.name].seq >= d.seq
             \/ Cardinality({n[1] : n \in {m \in Files(vis) : m[1] > d.name[1]}}) = keep[h]
  <2>1. /\ d.name \in Names /\ Selected(h)[d.name] # None /\ d.seq <= Selected(h)[d.name].seq
        /\ Selected(h)[d.name] \in Docs
    BY <1>1, SelectedFacts
  <2>2. d.seq \in Nat /\ Selected(h)[d.name].seq \in Nat
    BY <1>1, <2>1 DEF PlanInput, Eligible, Docs
  <2>3. CASE d.name[1] \in KeptWindows(h)
    <3>1. vis[d.name] = Selected(h)[d.name]
      BY <1>1, <2>1, <2>3, KeptVisible
    <3>2. QED
      BY <2>1, <2>2, <3>1
  <2>4. CASE d.name[1] \notin KeptWindows(h)
    <3>1. d.name[1] \in SelectedWindows(h) \ KeptWindows(h)
      BY <1>1, <2>4, PlanFacts
    <3>2. Cardinality(KeptWindows(h)) >= keep[h] /\ \A w \in KeptWindows(h) : w > d.name[1]
      BY <1>1, <3>1, KeptFacts
    <3>3. {n[1] : n \in {m \in Files(vis) : m[1] > d.name[1]}} = KeptWindows(h)
      BY <1>2, <3>2
    <3>4. Cardinality(KeptWindows(h)) <= keep[h] /\ keep[h] \in Nat /\ Cardinality(KeptWindows(h)) \in Nat
      <4>1. IsFiniteSet(KeptWindows(h))
        BY <1>1, KeptFacts, NamesFinite, FS_Subset
      <4>2. QED
        BY <1>1, <4>1, KeptFacts, FS_CardinalityType DEF PlanInput
    <3>5. Cardinality(KeptWindows(h)) = keep[h]
      BY <3>2, <3>4
    <3>6. QED
      BY <3>3, <3>5
  <2>5. QED
    BY <2>3, <2>4
<1>5. QED
  BY <1>3, <1>4

\* Nobody holds anything at first.
LEMMA UndisturbedInit ==
    ASSUME Init, NEW h \in Helpers
    PROVE  Undisturbed(h)
  BY DEF Init, Undisturbed, Installing

\* Unless somebody edits the archive by hand, a run of the helper that reports
\* success archived every eligible snapshot it had read or kept as many newer
\* windows as it was told to, whatever crashed, failed or lost power before.
THEOREM ArchiveSuccessSettles ==
    ASSUME "edit" \notin Faults
    PROVE  Spec => []SuccessSettles
<1> DEFINE U == \A h \in Helpers : Undisturbed(h)
<1>1. Init => U
  BY UndisturbedInit
<1>2. Inv /\ U /\ [Next]_vars => U'
  BY UndisturbedStep
<1>3. Inv /\ U => SuccessSettles
  BY DoneSettles
<1> HIDE DEF U
<1>4. QED
  BY <1>1, <1>2, <1>3, SpecInv, PTL DEF Spec

-----------------------------------------------------------------------------
(* Without edits by hand: history survives.                                *)

\* Before anything is pruned, every window to keep is surely on the disk.
Sure(h) == pc[h] = "prune" => KeptWindows(h) \subseteq SureWindows

\* As many sure windows after n as retention keeps at least.
Covered(n) == Cardinality({w \in SureWindows : w > n[1]}) >= Least(Keeps)

\* A count of some of the windows is a lower bound for all of them.
LEMMA CountAtLeast ==
    ASSUME NEW B \in SUBSET Windows, NEW A \in SUBSET B, NEW L \in Nat, Cardinality(A) >= L
    PROVE  Cardinality(B) >= L
<1>1. IsFiniteSet(B)
  BY NamesFinite, FS_Subset
<1>2. IsFiniteSet(A) /\ Cardinality(A) <= Cardinality(B)
  BY <1>1, FS_Subset
<1>3. Cardinality(A) \in Nat /\ Cardinality(B) \in Nat
  BY <1>1, <1>2, FS_CardinalityType
<1>4. QED
  BY <1>2, <1>3

\* More sure windows cover as much.
LEMMA CoveredMore ==
    ASSUME NEW n \in Names, Covered(n),
           {w \in SureWindows : w > n[1]} \subseteq {w \in SureWindows' : w > n[1]}
    PROVE  Covered(n)'
<1>1. Least(Keeps) \in Nat
  BY LeastKeeps, ArchiveAssumption
<1> DEFINE A == {w \in SureWindows : w > n[1]}
           B == {w \in SureWindows' : w > n[1]}
<1>2. B \in SUBSET Windows /\ A \in SUBSET B /\ Cardinality(A) >= Least(Keeps)
  BY DEF SureWindows, Covered
<1>3. Cardinality(B) >= Least(Keeps)
  <2> HIDE DEF A, B
  <2>1. QED
    BY <1>1, <1>2, CountAtLeast
<1>4. QED
  BY <1>3 DEF Covered

\* Settling on one outcome of those possible, by a directory sync or by a
\* power loss.
LEMMA SettleHistory ==
    ASSUME Inv, HistorySurvives, NEW after \in [Names -> Docs \cup {None}],
           \A n \in Names : after[n] \in maybe[n],
           maybe' = [n \in Names |-> {after[n]}],
           kept' = [n \in Names |-> IF after[n] = None THEN kept[n] ELSE after[n].seq]
    PROVE  HistorySurvives' /\ SureWindows' = {n[1] : n \in Files(after)}
<1>1. SureWindows' = {n[1] : n \in Files(after)}
  <2>1. \A n \in Names : None \notin maybe'[n] <=> after[n] # None
    OBVIOUS
  <2>2. \A n \in Names : n[1] \in Windows
    BY NameParts
  <2>3. QED
    BY <2>1, <2>2 DEF SureWindows, Files
<1>2. SureWindows \subseteq SureWindows'
  BY DEF SureWindows
<1>3. ASSUME NEW n \in Names, kept'[n] > 0, NEW v \in maybe'[n]
      PROVE  (v \in Docs /\ v.seq >= kept'[n]) \/ Covered(n)'
  <2>1. v = after[n] /\ v \in maybe[n]
    OBVIOUS
  <2>2. CASE v \in Docs
    <3>1. v # None /\ v.seq \in Nat
      BY <2>2, SpecialValues DEF Docs
    <3>2. kept'[n] = v.seq
      BY <2>1, <3>1
    <3>3. QED
      BY <2>2, <3>1, <3>2
  <2>3. CASE v = None
    <3>1. kept[n] > 0 /\ v \notin Docs
      BY <2>1, <2>3, <1>3, SpecialValues
    <3>2. Covered(n)
      BY <2>1, <3>1 DEF HistorySurvives, Covered
    <3>3. QED
      BY <1>2, <3>2, CoveredMore
  <2>4. QED
    BY <2>1, <2>2, <2>3
<1>4. QED
  BY <1>1, <1>3 DEF HistorySurvives, Covered

\* A rename adds a snapshot that is no older.
LEMMA InstallHistory ==
    ASSUME Inv, HistorySurvives, NEW h \in Helpers, Install(h)
    PROVE  HistorySurvives'
<1>0. PICK n \in Names, d \in Docs :
        /\ n = First(staged[h]) /\ d = writes[h][n] /\ n \in flushed[h]
        /\ vis[n] # None => vis[n].seq <= d.seq
  BY InstallFacts DEF Install
<1>1. vis[n] # None => vis[n].seq <= d.seq
  BY <1>0
<1>2. kept' = kept /\ (maybe' = maybe \/ maybe' = [maybe EXCEPT ![n] = @ \cup {d} \cup {}])
  BY <1>0 DEF Install
<1>3. \A m \in Names : maybe'[m] = maybe[m] \/ (m = n /\ maybe'[m] = maybe[m] \cup {d})
  BY <1>2 DEF Inv, TypeOK
<1>4. SureWindows \subseteq SureWindows'
  BY <1>1, <1>3, SpecialValues DEF SureWindows
<1>5. ASSUME NEW m \in Names, kept[m] > 0, NEW v \in maybe[m]
      PROVE  (v \in Docs /\ v.seq >= kept[m]) \/ Covered(m)'
  <2>1. (v \in Docs /\ v.seq >= kept[m]) \/ Covered(m)
    BY <1>5 DEF HistorySurvives, Covered
  <2>2. QED
    BY <1>4, <2>1, CoveredMore
<1>6. ASSUME kept[n] > 0 PROVE d.seq >= kept[n] \/ Covered(n)'
  <2>1. vis[n] \in maybe[n]
    BY <1>1 DEF Inv, DirOK
  <2>2. (vis[n] \in Docs /\ vis[n].seq >= kept[n]) \/ Covered(n)'
    BY <1>1, <1>5, <1>6, <2>1
  <2>3. CASE vis[n] \in Docs /\ vis[n].seq >= kept[n]
    <3>1. vis[n].seq <= d.seq /\ vis[n].seq \in Nat /\ d.seq \in Nat /\ kept[n] \in Nat
      BY <1>1, <2>3, SpecialValues DEF Docs, Inv, TypeOK
    <3>2. QED
      BY <2>3, <3>1
  <2>4. QED
    BY <2>2, <2>3
<1>7. QED
  BY <1>1, <1>2, <1>3, <1>5, <1>6 DEF HistorySurvives, Covered

\* A removal: everything up to its window is covered by what is kept.
LEMMA PruneHistory ==
    ASSUME Inv, HistorySurvives, NEW h \in Helpers, Sure(h), Prune(h)
    PROVE  HistorySurvives' /\ KeptWindows(h) \subseteq SureWindows'
<1> DEFINE n == First(remove[h])
<1>1. pc[h] = "prune" /\ n \in Names /\ n[1] \in SelectedWindows(h) \ KeptWindows(h)
  BY PruneFacts DEF Prune
<1>2. kept' = kept /\ (maybe' = maybe \/ maybe' = [maybe EXCEPT ![n] = @ \cup {None}])
  BY DEF Prune
<1> HIDE DEF n
<1>3. \A m \in Names \ {n} : maybe'[m] = maybe[m]
  BY <1>2 DEF Inv, TypeOK
<1>4. \A m \in Names : n[1] \in Nat /\ m[1] \in Nat
  BY <1>1, NameParts
<1>5. \A w \in SureWindows : w # n[1] => w \in SureWindows'
  BY <1>3 DEF SureWindows
<1>6. KeptWindows(h) \subseteq SureWindows'
  BY <1>1, <1>5 DEF Sure
<1>7. PlanInput(h) /\ keep[h] \in Keeps
  BY <1>1, InvPlanInput DEF Inv, HelperOK
<1>8. Cardinality(KeptWindows(h)) >= keep[h] /\ \A w \in KeptWindows(h) : w > n[1]
  BY <1>1, <1>7, KeptFacts
<1>9. Least(Keeps) <= keep[h] /\ Least(Keeps) \in Nat /\ keep[h] \in Nat
  BY <1>7, LeastKeeps, ArchiveAssumption
<1>10. Cardinality(KeptWindows(h)) >= Least(Keeps)
  <2>1. IsFiniteSet(KeptWindows(h))
    BY <1>7, KeptFacts, NamesFinite, FS_Subset
  <2>2. Cardinality(KeptWindows(h)) \in Nat
    BY <2>1, FS_CardinalityType
  <2>3. QED
    BY <1>8, <1>9, <2>2
<1>11. KeptWindows(h) \subseteq Nat /\ SureWindows \subseteq Nat /\ SureWindows' \subseteq Windows
  <2>1. Windows \subseteq Nat
    BY ArchiveAssumption DEF Windows
  <2>2. QED
    BY <1>7, <2>1, KeptFacts DEF SureWindows
<1>12. ASSUME NEW m \in Names, m[1] <= n[1] PROVE Covered(m)'
  <2> DEFINE B == {w \in SureWindows' : w > m[1]}
  <2>1. KeptWindows(h) \subseteq B
    <3>1. ASSUME NEW w \in KeptWindows(h) PROVE w > m[1]
      <4>1. w \in Nat /\ w > n[1] /\ n[1] \in Nat /\ m[1] \in Nat
        BY <1>4, <1>8, <1>11
      <4>2. QED
        BY <4>1, <1>12
    <3>2. QED
      BY <1>6, <3>1
  <2>2. B \in SUBSET Windows
    BY <1>11
  <2>3. Cardinality(B) >= Least(Keeps)
    <3> HIDE DEF B
    <3>1. QED
      BY <1>9, <1>10, <2>1, <2>2, CountAtLeast
  <2>4. QED
    BY <2>3 DEF Covered
<1>13. ASSUME NEW m \in Names, m[1] > n[1], Covered(m) PROVE Covered(m)'
  <2>1. ASSUME NEW w \in SureWindows, w > m[1] PROVE w \in SureWindows'
    <3>1. w \in Nat /\ m[1] \in Nat /\ n[1] \in Nat
      BY <1>4, <1>11
    <3>2. w # n[1]
      BY <3>1, <2>1, <1>13
    <3>3. QED
      BY <3>2, <1>5
  <2>2. QED
    BY <1>13, <2>1, CoveredMore
<1>14. ASSUME NEW m \in Names, kept[m] > 0, NEW v \in maybe'[m]
       PROVE  (v \in Docs /\ v.seq >= kept[m]) \/ Covered(m)'
  <2>1. CASE m[1] <= n[1]
    BY <2>1, <1>12
  <2>2. CASE m[1] > n[1]
    <3>1. m # n
      BY <2>2, <1>4
    <3>2. v \in maybe[m]
      BY <1>3, <3>1
    <3>3. (v \in Docs /\ v.seq >= kept[m]) \/ Covered(m)
      BY <1>14, <3>2 DEF HistorySurvives, Covered
    <3>4. QED
      BY <3>3, <2>2, <1>13
  <2>3. QED
    BY <2>1, <2>2, <1>1, <1>4
<1>15. QED
  BY <1>2, <1>6, <1>14 DEF HistorySurvives, Covered

\* A helper that does not move, in a directory that does not change.
LEMMA SureFrame ==
    ASSUME NEW g \in Helpers, Sure(g), SameHelper(g), maybe' = maybe
    PROVE  Sure(g)'
<1>1. KeptWindows(g)' = KeptWindows(g)
  BY PlanStable DEF SameHelper
<1>2. SureWindows' = SureWindows
  BY DEF SureWindows
<1>3. QED
  BY <1>1, <1>2 DEF Sure, SameHelper

\* Nor does a helper that is not about to prune need anything.
LEMMA SureOthers ==
    ASSUME Inv, NEW h \in Helpers, HelperStep(h), pc[h] \in Holding, NEW g \in Helpers, g # h
    PROVE  Sure(g)'
<1>1. SameHelper(g) /\ pc[g] \notin Holding
  BY OthersSame, OneHolder
<1>2. QED
  BY <1>1 DEF Sure, SameHelper, Holding

\* The syncs.
LEMMA SyncHistory ==
    ASSUME Inv, HistorySurvives, NEW h \in Helpers, Sure(h),
           SyncStage(h) \/ SyncInstall(h) \/ SyncPrune(h)
    PROVE  HistorySurvives' /\ Sure(h)'
<1> USE DEF dirVars
<1>1. PICK from \in Holding, to \in Holding :
         /\ SyncOrFail(h, from, to)
         /\ to = "prune" => from = "install" /\ staged[h] = {}
  BY DEF SyncStage, SyncInstall, SyncPrune, Holding
<1>2. pc[h] = from /\ pc'[h] \in {to, "failed"}
      /\ UNCHANGED <<docs, now, keep, cur>>
  BY <1>1, SyncFacts
<1>3. CASE UNCHANGED <<maybe, kept>> /\ pc'[h] = "failed"
  <2>1. HistorySurvives'
    BY <1>3 DEF HistorySurvives, SureWindows
  <2>2. QED
    BY <1>3, <2>1 DEF Sure
<1>4. CASE SyncDir
  <2>1. vis \in [Names -> Docs \cup {None}] /\ \A n \in Names : vis[n] \in maybe[n]
    BY DEF Inv, TypeOK, DirOK
  <2>2. maybe' = [n \in Names |-> {vis[n]}]
        /\ kept' = [n \in Names |-> IF vis[n] = None THEN kept[n] ELSE vis[n].seq]
    BY <1>4 DEF SyncDir
  <2>3. PICK after \in [Names -> Docs \cup {None}] : after = vis
    BY <2>1
  <2>4. HistorySurvives' /\ SureWindows' = {n[1] : n \in Files(after)}
    BY <2>1, <2>2, <2>3, SettleHistory
  <2>5. ASSUME pc'[h] = "prune" PROVE (KeptWindows(h) \subseteq SureWindows)'
    <3>1. pc[h] = "install" /\ staged[h] = {}
      BY <1>1, <1>2, <2>5
    <3>2. KeptWindows(h) \subseteq {n[1] : n \in Files(vis)}
      BY <3>1, KeptThere DEF Installing
    <3>3. KeptWindows(h)' = KeptWindows(h)
      BY <1>2, PlanStable
    <3>4. QED
      BY <2>3, <2>4, <3>2, <3>3
  <2>6. QED
    BY <2>4, <2>5 DEF Sure
<1>5. QED
  BY <1>1, <1>3, <1>4 DEF SyncOrFail, Goto, Inv, TypeOK

\* The steps that leave the directory alone.
LEMMA QuietHistory ==
    ASSUME Inv, NEW h \in Helpers,
           \/ Start(h) \/ Lock(h) \/ Read(h) \/ Plan(h) \/ Stage(h) \/ Recheck(h) \/ Finish(h) \/ Crash(h)
    PROVE  UNCHANGED <<maybe, kept>> /\ pc'[h] # "prune"
<1> USE DEF dirVars
<1>1. UNCHANGED <<maybe, kept>>
  BY DEF Start, Lock, Read, Plan, Stage, Recheck, Finish, Crash
<1>2. CASE Plan(h)
  <2>1. Goto(h, "plan", "stage") \/ Goto(h, "plan", "failed")
    BY <1>2 DEF Plan
  <2>2. QED
    BY <1>1, <2>1 DEF Goto, Inv, TypeOK
<1>3. CASE ~Plan(h)
  <2>1. pc'[h] # "prune"
    BY <1>3 DEF Start, Lock, Read, Stage, Recheck, Finish, Crash, Goto, Inv, TypeOK
  <2>2. QED
    BY <1>1, <2>1
<1>4. QED
  BY <1>2, <1>3

\* No step without an edit loses history.
LEMMA HistoryStep ==
    ASSUME Inv, [Next]_vars, "edit" \notin Faults, HistorySurvives, \A h \in Helpers : Sure(h)
    PROVE  HistorySurvives' /\ \A h \in Helpers : Sure(h)'
<1>1. ASSUME UNCHANGED <<maybe, kept>> PROVE HistorySurvives'
  BY <1>1 DEF HistorySurvives, SureWindows
<1>2. CASE PowerLoss
  <2>1. PICK after \in [Names -> Docs \cup {None}] :
              /\ \A n \in Names : after[n] \in maybe[n]
              /\ maybe' = [n \in Names |-> {after[n]}]
              /\ kept' = [n \in Names |-> IF after[n] \in {None, Torn} THEN kept[n] ELSE after[n].seq]
    BY <1>2, PowerFacts
  <2>2. \A n \in Names : after[n] # Torn
    BY SpecialValues
  <2>3. kept' = [n \in Names |-> IF after[n] = None THEN kept[n] ELSE after[n].seq]
    BY <2>1, <2>2
  <2>4. HistorySurvives'
    BY <2>1, <2>3, SettleHistory
  <2>5. QED
    BY <1>2, <2>4 DEF PowerLoss, Sure
<1>3. ASSUME NEW h \in Helpers, SyncStage(h) \/ SyncInstall(h) \/ SyncPrune(h)
      PROVE  HistorySurvives' /\ \A g \in Helpers : Sure(g)'
  <2>1. HelperStep(h) /\ pc[h] \in Holding
    BY <1>3 DEF HelperStep, SyncStage, SyncInstall, SyncPrune, SyncOrFail, Goto, Holding
  <2>2. QED
    BY <1>3, <2>1, SyncHistory, SureOthers
<1>4. ASSUME NEW h \in Helpers, Install(h)
      PROVE  HistorySurvives' /\ \A g \in Helpers : Sure(g)'
  <2>1. HelperStep(h) /\ pc[h] \in Holding /\ pc'[h] # "prune"
    BY <1>4 DEF HelperStep, Install, Goto, Holding, Inv, TypeOK
  <2>2. Sure(h)'
    BY <2>1 DEF Sure
  <2>3. QED
    BY <1>4, <2>1, <2>2, InstallHistory, SureOthers
<1>5. ASSUME NEW h \in Helpers, Prune(h)
      PROVE  HistorySurvives' /\ \A g \in Helpers : Sure(g)'
  <2>1. HelperStep(h) /\ pc[h] \in Holding
    BY <1>5 DEF HelperStep, Prune, Holding
  <2>2. HistorySurvives' /\ KeptWindows(h) \subseteq SureWindows'
    BY <1>5, PruneHistory
  <2>3. UNCHANGED <<docs, now, keep, cur>>
    BY <1>5 DEF Prune, runVars
  <2>4. KeptWindows(h)' = KeptWindows(h)
    BY <2>3, PlanStable
  <2>5. Sure(h)'
    BY <2>2, <2>4 DEF Sure
  <2>6. QED
    BY <2>1, <2>2, <2>5, SureOthers
<1>6. ASSUME NEW h \in Helpers,
             \/ Start(h) \/ Lock(h) \/ Read(h) \/ Plan(h) \/ Stage(h) \/ Recheck(h) \/ Finish(h) \/ Crash(h)
      PROVE  HistorySurvives' /\ \A g \in Helpers : Sure(g)'
  <2>1. UNCHANGED <<maybe, kept>> /\ Sure(h)'
    BY <1>6, QuietHistory DEF Sure
  <2>2. ASSUME NEW g \in Helpers, g # h PROVE Sure(g)'
    <3>1. SameHelper(g)
      BY <1>6, <2>2, OthersSame DEF HelperStep
    <3>2. QED
      BY <2>1, <3>1, SureFrame
  <2>3. QED
    BY <1>1, <2>1, <2>2
<1>7. CASE Collector \/ UNCHANGED vars
  <2> USE DEF worldVars, dirVars, runVars, planVars, stageVars
  <2>1. UNCHANGED <<maybe, kept>>
    BY <1>7 DEF Collector, Tick, Emit, Reset, Expire, vars
  <2>2. \A g \in Helpers : SameHelper(g)
    BY <1>7 DEF Collector, Tick, Emit, Reset, Expire, vars, SameHelper
  <2>3. QED
    BY <1>1, <2>1, <2>2, SureFrame
<1>8. ASSUME NEW n \in Names, Edit(n) PROVE FALSE
  BY <1>8 DEF Edit, Fault
<1>9. QED
  BY <1>2, <1>3, <1>4, <1>5, <1>6, <1>7, <1>8 DEF Next, HelperStep, Interference

\* Unless somebody edits the archive by hand: whenever the power is lost, a
\* snapshot that once reached the disk is there with at least its sequence, or
\* as many newer windows as retention keeps are. The sync between the last
\* rename and the first removal is what makes it so.
THEOREM ArchiveHistorySurvives ==
    ASSUME "edit" \notin Faults
    PROVE  Spec => []HistorySurvives
<1> DEFINE H == HistorySurvives /\ \A h \in Helpers : Sure(h)
<1>1. Init => H
  BY DEF Init, HistorySurvives, Sure
<1>2. Inv /\ H /\ [Next]_vars => H'
  BY HistoryStep
<1>3. H => HistorySurvives
  OBVIOUS
<1> HIDE DEF H
<1>4. QED
  BY <1>1, <1>2, <1>3, SpecInv, PTL DEF Spec

-----------------------------------------------------------------------------
(* Without edits by hand and power losses: the limits of the directory.    *)

\* The bytes of names, as a sum of one function.
LEMMA BytesAs ==
    ASSUME NEW dir \in [Names -> Docs \cup {None}], NEW S \in SUBSET Files(dir)
    PROVE  /\ Bytes(dir, S) = SumFunctionOnSet([n \in Names |-> Size(dir[n])], S)
           /\ \A n \in S : [m \in Names |-> Size(dir[m])][n] \in Nat
<1>1. S \subseteq Names /\ \A n \in S : dir[n] \in Docs
  BY DEF Files
<1>2. IsFiniteSet(S)
  BY BytesNat
<1> DEFINE g == [n \in S |-> Size(dir[n])]
           G == [n \in Names |-> Size(dir[n])]
<1>3. \A n \in S : g[n] = G[n] /\ G[n] \in Nat
  BY <1>1, SizeNat
<1>4. SumFunctionOnSet(g, S) = SumFunctionOnSet(G, S)
  <2> HIDE DEF g, G
  <2>1. QED
    BY <1>2, <1>3, SumSame
<1>5. QED
  BY <1>3, <1>4 DEF Bytes

\* One more file.
LEMMA BytesAdd ==
    ASSUME NEW dir \in [Names -> Docs \cup {None}], NEW S \in SUBSET Files(dir),
           NEW n \in Files(dir) \ S
    PROVE  /\ Bytes(dir, S \cup {n}) = Size(dir[n]) + Bytes(dir, S)
           /\ Size(dir[n]) \in Nat /\ Size(dir[n]) >= 1
           /\ Cardinality(S \cup {n}) = Cardinality(S) + 1
<1> DEFINE G == [m \in Names |-> Size(dir[m])]
<1>1. S \cup {n} \in SUBSET Files(dir) /\ n \in Names /\ dir[n] \in Docs
  BY DEF Files
<1>2. IsFiniteSet(S) /\ \A x \in S \cup {n} : G[x] \in Nat
  BY <1>1, BytesNat, BytesAs
<1>3. SumFunctionOnSet(G, S \cup {n}) = G[n] + SumFunctionOnSet(G, S)
  <2> HIDE DEF G
  <2>1. QED
    BY <1>2, SumAdd
<1>4. Bytes(dir, S \cup {n}) = SumFunctionOnSet(G, S \cup {n}) /\ Bytes(dir, S) = SumFunctionOnSet(G, S)
  BY <1>1, BytesAs
<1>5. G[n] = Size(dir[n]) /\ Size(dir[n]) \in Nat /\ Size(dir[n]) >= 1
  BY <1>1, SizeNat
<1> HIDE DEF G
<1>6. QED
  BY <1>2, <1>3, <1>4, <1>5, FS_AddElement

\* Fewer files take no more.
LEMMA BytesPart ==
    ASSUME NEW dir \in [Names -> Docs \cup {None}], NEW S \in SUBSET Files(dir), NEW T \in SUBSET S
    PROVE  Bytes(dir, T) <= Bytes(dir, S) /\ Cardinality(T) <= Cardinality(S)
<1> DEFINE G == [m \in Names |-> Size(dir[m])]
<1>1. IsFiniteSet(S) /\ (\A x \in S : G[x] \in Nat) /\ T \in SUBSET Files(dir)
  BY BytesNat, BytesAs
<1>2. Bytes(dir, T) = SumFunctionOnSet(G, T) /\ Bytes(dir, S) = SumFunctionOnSet(G, S)
  BY <1>1, BytesAs
<1> HIDE DEF G
<1>3. QED
  BY <1>1, <1>2, SumPart, FS_Subset

\* Directories that agree on some files.
LEMMA BytesSame ==
    ASSUME NEW dir \in [Names -> Docs \cup {None}], NEW other \in [Names -> Docs \cup {None}],
           NEW S \in SUBSET Files(dir), \A n \in S : other[n] = dir[n]
    PROVE  S \in SUBSET Files(other) /\ Bytes(other, S) = Bytes(dir, S)
<1>1. S \in SUBSET Files(other) /\ S \subseteq Names
  BY DEF Files
<1> DEFINE G == [m \in Names |-> Size(dir[m])]
           H == [m \in Names |-> Size(other[m])]
<1>2. Bytes(dir, S) = SumFunctionOnSet(G, S) /\ Bytes(other, S) = SumFunctionOnSet(H, S)
  BY <1>1, BytesAs
<1>3. IsFiniteSet(S) /\ \A n \in S : G[n] = H[n]
  BY <1>1, BytesNat
<1> HIDE DEF G, H
<1>4. QED
  BY <1>1, <1>2, <1>3, SumSame

\* A renamed stage: the directory grows by it at most.
LEMMA BytesPut ==
    ASSUME NEW dir \in [Names -> Docs \cup {None}], NEW n \in Names, NEW d \in Docs
    PROVE  LET new == [dir EXCEPT ![n] = d]
           IN /\ Files(new) = Files(dir) \cup {n}
              /\ Bytes(new, Files(new)) <= Bytes(dir, Files(dir)) + Size(d)
              /\ Cardinality(Files(new)) <= Cardinality(Files(dir)) + 1
<1> DEFINE new == [dir EXCEPT ![n] = d]
           S == Files(dir) \ {n}
<1>1. new \in [Names -> Docs \cup {None}] /\ new[n] = d /\ \A m \in Names \ {n} : new[m] = dir[m]
  OBVIOUS
<1>2. Files(new) = Files(dir) \cup {n} /\ Files(new) = S \cup {n} /\ S \in SUBSET Files(dir) /\ n \in Files(new) \ S
      /\ S \subseteq Names /\ n \notin S
  BY <1>1, SpecialValues DEF Files
<1> HIDE DEF new, S
<1>3. \A m \in S : new[m] = dir[m]
  BY <1>1, <1>2
<1>4. S \in SUBSET Files(new) /\ Bytes(new, S) = Bytes(dir, S)
  BY <1>1, <1>2, <1>3, BytesSame
<1>5. Bytes(new, S \cup {n}) = Size(d) + Bytes(new, S) /\ Size(d) \in Nat
      /\ Cardinality(S \cup {n}) = Cardinality(S) + 1
  BY <1>1, <1>2, <1>4, BytesAdd
<1>6. Bytes(dir, S) <= Bytes(dir, Files(dir)) /\ Cardinality(S) <= Cardinality(Files(dir))
  BY <1>2, BytesPart
<1>7. Bytes(dir, S) \in Nat /\ Bytes(dir, Files(dir)) \in Nat /\ Cardinality(S) \in Nat
      /\ Cardinality(Files(dir)) \in Nat
  BY <1>2, BytesNat
<1>8. Bytes(new, Files(new)) <= Bytes(dir, Files(dir)) + Size(d)
  <2>1. Bytes(new, Files(new)) = Size(d) + Bytes(dir, S)
    BY <1>2, <1>4, <1>5
  <2>2. QED
    BY <2>1, <1>5, <1>6, <1>7
<1>9. Cardinality(Files(new)) <= Cardinality(Files(dir)) + 1
  BY <1>2, <1>5, <1>6, <1>7
<1>10. QED
  BY <1>2, <1>8, <1>9 DEF new

\* A removed file.
LEMMA BytesDrop ==
    ASSUME NEW dir \in [Names -> Docs \cup {None}], NEW n \in Names
    PROVE  LET new == [dir EXCEPT ![n] = None]
           IN /\ Bytes(new, Files(new)) <= Bytes(dir, Files(dir))
              /\ Cardinality(Files(new)) <= Cardinality(Files(dir))
<1> DEFINE new == [dir EXCEPT ![n] = None]
<1>1. new \in [Names -> Docs \cup {None}] /\ new[n] = None /\ \A m \in Names \ {n} : new[m] = dir[m]
  OBVIOUS
<1>2. Files(new) \in SUBSET Files(dir) /\ \A m \in Files(new) : dir[m] = new[m]
  BY <1>1 DEF Files
<1> HIDE DEF new
<1>3. Bytes(dir, Files(new)) = Bytes(new, Files(new))
  BY <1>1, <1>2, BytesSame
<1>4. Bytes(dir, Files(new)) <= Bytes(dir, Files(dir)) /\ Cardinality(Files(new)) <= Cardinality(Files(dir))
  BY <1>2, BytesPart
<1>5. QED
  BY <1>3, <1>4 DEF new

\* The stages on the disk are those of one helper.
LEMMA StageTotals ==
    ASSUME NEW st \in [Helpers -> SUBSET Names], NEW w \in [Helpers -> [Names -> Docs \cup {None}]],
           NEW h \in Helpers, \A g \in Helpers \ {h} : st[g] = {}, st[h] \subseteq Files(w[h])
    PROVE  /\ SumFunctionOnSet([g \in Helpers |-> Cardinality(st[g])], Helpers) = Cardinality(st[h])
           /\ SumFunctionOnSet([g \in Helpers |-> Bytes(w[g], st[g])], Helpers) = Bytes(w[h], st[h])
           /\ Cardinality(st[h]) \in Nat /\ Bytes(w[h], st[h]) \in Nat
<1> DEFINE a == [g \in Helpers |-> Cardinality(st[g])]
           b == [g \in Helpers |-> Bytes(w[g], st[g])]
<1>0. IsFiniteSet(Helpers)
  BY ArchiveAssumption
<1>1. Cardinality(st[h]) \in Nat /\ Bytes(w[h], st[h]) \in Nat
  BY BytesNat
<1>2. \A x : Bytes(x, {}) = 0
  BY FS_EmptySet, SumZero DEF Bytes
<1>3. /\ a[h] = Cardinality(st[h]) /\ b[h] = Bytes(w[h], st[h])
      /\ \A g \in Helpers \ {h} : a[g] = 0 /\ b[g] = 0
  BY <1>2, FS_EmptySet
<1>4. SumFunctionOnSet(a, Helpers) = a[h] /\ SumFunctionOnSet(b, Helpers) = b[h]
  <2> HIDE DEF a, b
  <2>1. QED
    BY <1>0, <1>1, <1>3, SumOne
<1>5. QED
  BY <1>1, <1>3, <1>4

\* What planArchive reserved for the batch, and what is left of it.
Room(h) ==
    /\ pc[h] = "stage" =>
          /\ Cardinality(Files(vis)) + litter.entries + Cardinality(Files(writes[h])) <= MaxEntries
          /\ Bytes(vis, Files(vis)) + litter.bytes + Bytes(writes[h], Files(writes[h])) <= MaxBytes
    /\ pc[h] \in {"stage", "syncStage", "install"} =>
          Cardinality(Files(vis) \cup Files(writes[h])) <= MaxFiles

\* The sizes on the disk while h holds the lock.
LEMMA HolderTotals ==
    ASSUME Inv, NEW h \in Helpers, pc[h] \in Holding
    PROVE  /\ Entries = Cardinality(Files(vis)) + litter.entries + Cardinality(staged[h])
           /\ DiskBytes = Bytes(vis, Files(vis)) + litter.bytes + Bytes(writes[h], staged[h])
           /\ litter.entries \in Nat /\ litter.bytes \in Nat
           /\ Cardinality(Files(vis)) \in Nat /\ Bytes(vis, Files(vis)) \in Nat
           /\ Cardinality(staged[h]) \in Nat /\ Bytes(writes[h], staged[h]) \in Nat
           /\ \A g \in Helpers \ {h} : staged[g] = {}
<1>1. ASSUME NEW g \in Helpers, g # h PROVE staged[g] = {}
  <2>1. pc[g] \notin Holding
    BY <1>1, OneHolder
  <2>2. pc[g] \in Unplanned
    BY <2>1 DEF Inv, TypeOK, Holding, Unplanned
  <2>3. QED
    BY <2>2 DEF Inv, HelperOK
<1>2. /\ staged \in [Helpers -> SUBSET Names] /\ writes \in [Helpers -> [Names -> Docs \cup {None}]]
      /\ staged[h] \subseteq Files(writes[h]) /\ vis \in [Names -> Docs \cup {None}]
      /\ litter.entries \in Nat /\ litter.bytes \in Nat
  BY DEF Inv, TypeOK, HelperOK
<1>3. Cardinality(Files(vis)) \in Nat /\ Bytes(vis, Files(vis)) \in Nat
  BY <1>2, BytesNat
<1>4. QED
  BY <1>1, <1>2, <1>3, StageTotals DEF Entries, DiskBytes

\* The sizes after a step of the lock holder.
LEMMA NextTotals ==
    ASSUME Inv', NEW h \in Helpers, \A g \in Helpers \ {h} : staged'[g] = {}
    PROVE  /\ Entries' = Cardinality(Files(vis')) + litter'.entries + Cardinality(staged'[h])
           /\ DiskBytes' = Bytes(vis', Files(vis')) + litter'.bytes + Bytes(writes'[h], staged'[h])
           /\ Cardinality(Files(vis')) \in Nat /\ Bytes(vis', Files(vis')) \in Nat
           /\ litter'.entries \in Nat /\ litter'.bytes \in Nat
           /\ Cardinality(staged'[h]) \in Nat /\ Bytes(writes'[h], staged'[h]) \in Nat
<1>2. /\ staged' \in [Helpers -> SUBSET Names] /\ writes' \in [Helpers -> [Names -> Docs \cup {None}]]
      /\ staged'[h] \subseteq Files(writes'[h]) /\ vis' \in [Names -> Docs \cup {None}]
      /\ litter'.entries \in Nat /\ litter'.bytes \in Nat
  BY DEF Inv, TypeOK, HelperOK, Files
<1>3. Cardinality(Files(vis')) \in Nat /\ Bytes(vis', Files(vis')) \in Nat
  BY <1>2, BytesNat
<1>4. Files(vis)' = Files(vis') /\ Bytes(vis, Files(vis))' = Bytes(vis', Files(vis'))
  BY DEF Files, Bytes
<1>5. /\ SumFunctionOnSet([g \in Helpers |-> Cardinality(staged'[g])], Helpers) = Cardinality(staged'[h])
      /\ SumFunctionOnSet([g \in Helpers |-> Bytes(writes'[g], staged'[g])], Helpers) = Bytes(writes'[h], staged'[h])
      /\ Cardinality(staged'[h]) \in Nat /\ Bytes(writes'[h], staged'[h]) \in Nat
  BY <1>2, StageTotals
<1>6. Entries' = Cardinality(Files(vis')) + litter'.entries + Cardinality(staged'[h])
  BY <1>4, <1>5 DEF Entries
<1>7. DiskBytes' = Bytes(vis', Files(vis')) + litter'.bytes + Bytes(writes'[h], staged'[h])
  <2>1. DiskBytes' = Bytes(vis, Files(vis))' + litter'.bytes
                     + SumFunctionOnSet([g \in Helpers |-> Bytes(writes'[g], staged'[g])], Helpers)
    BY DEF DiskBytes, Bytes
  <2>2. QED
    BY <1>4, <1>5, <2>1
<1>8. QED
  BY <1>2, <1>3, <1>5, <1>6, <1>7

\* Nothing on the disk changes.
LEMMA LimitsQuiet ==
    ASSUME WithinLimits, UNCHANGED <<vis, litter, staged, writes>>
    PROVE  WithinLimits'
  BY DEF WithinLimits, Entries, DiskBytes, Files, Bytes

\* The lock holder's step takes nothing more than there was, or than Room allows.
LEMMA LimitsHolder ==
    ASSUME Inv, Inv', NEW h \in Helpers, pc[h] \in Holding, \A g \in Helpers \ {h} : SameHelper(g),
           Cardinality(Files(vis')) <= MaxFiles,
           \/ /\ Cardinality(Files(vis')) + litter'.entries + Cardinality(staged'[h])
                   <= Cardinality(Files(vis)) + litter.entries + Cardinality(staged[h])
              /\ WithinLimits
           \/ Cardinality(Files(vis')) + litter'.entries + Cardinality(staged'[h]) <= MaxEntries,
           \/ /\ Bytes(vis', Files(vis')) + litter'.bytes + Bytes(writes'[h], staged'[h])
                   <= Bytes(vis, Files(vis)) + litter.bytes + Bytes(writes[h], staged[h])
              /\ WithinLimits
           \/ Bytes(vis', Files(vis')) + litter'.bytes + Bytes(writes'[h], staged'[h]) <= MaxBytes
    PROVE  WithinLimits'
<1> DEFINE e0 == Cardinality(Files(vis)) + litter.entries + Cardinality(staged[h])
           e1 == Cardinality(Files(vis')) + litter'.entries + Cardinality(staged'[h])
           b0 == Bytes(vis, Files(vis)) + litter.bytes + Bytes(writes[h], staged[h])
           b1 == Bytes(vis', Files(vis')) + litter'.bytes + Bytes(writes'[h], staged'[h])
<1>1. Entries = e0 /\ DiskBytes = b0 /\ (\A g \in Helpers \ {h} : staged[g] = {})
      /\ e0 \in Nat /\ b0 \in Nat
  BY HolderTotals
<1>2. \A g \in Helpers \ {h} : staged'[g] = {}
  BY <1>1 DEF SameHelper
<1>3. Entries' = e1 /\ DiskBytes' = b1 /\ e1 \in Nat /\ b1 \in Nat
  BY <1>2, NextTotals
<1>4. (e1 <= e0 /\ WithinLimits) \/ e1 <= MaxEntries
  OBVIOUS
<1>5. (b1 <= b0 /\ WithinLimits) \/ b1 <= MaxBytes
  OBVIOUS
<1> HIDE DEF e0, e1, b0, b1
<1>6. e1 <= MaxEntries
  BY <1>1, <1>3, <1>4, ArchiveAssumption DEF WithinLimits
<1>7. b1 <= MaxBytes
  BY <1>1, <1>3, <1>5, ArchiveAssumption DEF WithinLimits
<1>8. Cardinality(Files(vis))' <= MaxFiles
  BY DEF Files
<1>9. QED
  BY <1>3, <1>6, <1>7, <1>8 DEF WithinLimits

\* Staging within the reserved room.
LEMMA LimitsStage ==
    ASSUME Inv, Inv', WithinLimits, NEW h \in Helpers, Room(h), Stage(h)
    PROVE  WithinLimits'
<1> DEFINE n == First(Files(writes[h]) \ staged[h])
           W == Files(writes[h])
<1>0. pc[h] = "stage" /\ UNCHANGED <<vis, writes>>
  BY DEF Stage, planVars
<1>1. n \in W \ staged[h] /\ staged[h] \in SUBSET W /\ writes[h] \in [Names -> Docs \cup {None}]
  <2>1. n \in W \ staged[h]
    BY FirstIn DEF Stage, Files
  <2>2. staged[h] \in SUBSET W /\ writes[h] \in [Names -> Docs \cup {None}]
    BY DEF Inv, TypeOK, HelperOK
  <2>3. QED
    BY <2>1, <2>2
<1>2. \A g \in Helpers \ {h} : SameHelper(g)
  BY OthersSame DEF HelperStep
<1>3. Cardinality(Files(vis')) <= MaxFiles
  BY <1>0 DEF WithinLimits
<1>4. /\ Cardinality(Files(vis)) \in Nat /\ litter.entries \in Nat /\ Cardinality(staged[h]) \in Nat
      /\ Bytes(vis, Files(vis)) \in Nat /\ litter.bytes \in Nat /\ Bytes(writes[h], staged[h]) \in Nat
  BY <1>0, HolderTotals DEF Holding
<1>5. Cardinality(W) \in Nat /\ Bytes(writes[h], W) \in Nat
  BY <1>1, BytesNat
<1>6. /\ Cardinality(Files(vis)) + litter.entries + Cardinality(W) <= MaxEntries
      /\ Bytes(vis, Files(vis)) + litter.bytes + Bytes(writes[h], W) <= MaxBytes
  BY <1>0 DEF Room
<1> HIDE DEF n, W
<1>7. staged[h] \cup {n} \in SUBSET W
  BY <1>1
<1>8. /\ Cardinality(staged[h] \cup {n}) <= Cardinality(W)
      /\ Bytes(writes[h], staged[h] \cup {n}) <= Bytes(writes[h], W)
      /\ Cardinality(staged[h] \cup {n}) = Cardinality(staged[h]) + 1
  BY <1>1, <1>7, BytesPart, BytesAdd DEF W
<1>9. CASE staged' = [staged EXCEPT ![h] = @ \cup {n}] /\ UNCHANGED litter
  <2>1. staged'[h] = staged[h] \cup {n}
    BY <1>9 DEF Inv, TypeOK
  <2>2. Bytes(writes[h], staged'[h]) \in Nat
    BY <1>1, <1>7, <2>1, BytesNat DEF W
  <2>6. vis' = vis /\ litter' = litter /\ writes' = writes
    BY <1>0, <1>9
  <2>7. MaxEntries \in Nat /\ MaxBytes \in Nat
    BY ArchiveAssumption
  <2>3. Cardinality(Files(vis')) + litter'.entries + Cardinality(staged'[h]) <= MaxEntries
    <3>1. Cardinality(Files(vis)) + litter.entries + Cardinality(staged[h] \cup {n}) <= MaxEntries
      BY <1>4, <1>5, <1>6, <1>8, <2>7
    <3>2. QED
      BY <2>1, <2>6, <3>1
  <2>4. Bytes(vis', Files(vis')) + litter'.bytes + Bytes(writes'[h], staged'[h]) <= MaxBytes
    <3>1. Bytes(writes[h], staged[h] \cup {n}) \in Nat
      BY <2>1, <2>2
    <3>2. Bytes(vis, Files(vis)) + litter.bytes + Bytes(writes[h], staged[h] \cup {n}) <= MaxBytes
      BY <1>4, <1>5, <1>6, <1>8, <2>7, <3>1
    <3>3. QED
      BY <2>1, <2>6, <3>2
  <2>5. QED
    BY <1>0, <1>2, <1>3, <2>3, <2>4, LimitsHolder DEF Holding
<1>10. CASE (\E left \in {0, 1} : litter' = [litter EXCEPT !.entries = @ + left]) /\ UNCHANGED staged
  <2>1. litter'.entries <= litter.entries + 1 /\ litter'.entries \in Nat /\ litter'.bytes = litter.bytes
    BY <1>4, <1>10 DEF Inv, TypeOK
  <2>2. Cardinality(Files(vis')) + litter'.entries + Cardinality(staged'[h]) <= MaxEntries
    BY <1>0, <1>4, <1>5, <1>6, <1>8, <1>10, <2>1, ArchiveAssumption
  <2>3. Bytes(vis', Files(vis')) + litter'.bytes + Bytes(writes'[h], staged'[h])
          = Bytes(vis, Files(vis)) + litter.bytes + Bytes(writes[h], staged[h])
    BY <1>0, <1>10, <2>1
  <2>4. Bytes(vis', Files(vis')) + litter'.bytes + Bytes(writes'[h], staged'[h])
          <= Bytes(vis, Files(vis)) + litter.bytes + Bytes(writes[h], staged[h])
    BY <1>4, <2>3
  <2>5. QED
    BY <1>0, <1>2, <1>3, <2>2, <2>4, LimitsHolder DEF Holding
<1>11. QED
  BY <1>9, <1>10 DEF Stage, stageVars, n

\* A rename replaces the stage, and perhaps an old file.
LEMMA LimitsInstall ==
    ASSUME Inv, Inv', WithinLimits, NEW h \in Helpers, Room(h), Install(h)
    PROVE  WithinLimits'
<1> USE DEF planVars
<1>1. CASE UNCHANGED <<vis, maybe, staged>>
  BY <1>1, LimitsQuiet DEF Install
<1>2. CASE ~UNCHANGED <<vis, maybe, staged>>
  <2> DEFINE n == First(staged[h])
             d == writes[h][n]
             T == staged[h] \ {n}
  <2>0. pc[h] = "install" /\ staged[h] # {} /\ UNCHANGED <<writes, litter>>
    BY DEF Install
  <2>1. n \in Names /\ n \in staged[h] /\ d \in Docs /\ n \in Files(writes[h])
    BY <2>0, InstallFacts
  <2>2. vis' = [vis EXCEPT ![n] = d] /\ staged' = [staged EXCEPT ![h] = @ \ {n}]
    BY <1>2 DEF Install
  <2> HIDE DEF n
  <2>3. staged'[h] = T
    BY <2>2 DEF Inv, TypeOK
  <2>4. /\ Files(vis') = Files(vis) \cup {n}
        /\ Bytes(vis', Files(vis')) <= Bytes(vis, Files(vis)) + Size(d)
        /\ Cardinality(Files(vis')) <= Cardinality(Files(vis)) + 1
    <3> HIDE DEF d
    <3>1. QED
      BY <2>1, <2>2, BytesPut DEF Inv, TypeOK
  <2>5. /\ writes[h] \in [Names -> Docs \cup {None}] /\ T \in SUBSET Files(writes[h])
        /\ n \in Files(writes[h]) \ T /\ T \cup {n} = staged[h]
    BY <2>1 DEF Inv, TypeOK, HelperOK
  <2> HIDE DEF T
  <2>6. /\ Bytes(writes[h], staged[h]) = Size(d) + Bytes(writes[h], T) /\ Size(d) \in Nat
        /\ Cardinality(staged[h]) = Cardinality(T) + 1
        /\ Cardinality(T) \in Nat /\ Bytes(writes[h], T) \in Nat
    <3>1. Bytes(writes[h], T) \in Nat /\ Cardinality(T) \in Nat
      BY <2>5, BytesNat
    <3>2. QED
      BY <2>5, <3>1, BytesAdd
  <2> HIDE DEF d
  <2>7. /\ Cardinality(Files(vis)) \in Nat /\ litter.entries \in Nat
        /\ Bytes(vis, Files(vis)) \in Nat /\ litter.bytes \in Nat
    BY <2>0, HolderTotals DEF Holding
  <2>8. vis' \in [Names -> Docs \cup {None}]
    BY DEF Inv, TypeOK
  <2>9. Cardinality(Files(vis')) \in Nat /\ Bytes(vis', Files(vis')) \in Nat
    BY <2>8, BytesNat
  <2>10. Cardinality(Files(vis')) <= MaxFiles
    <3>1. Files(vis') \in SUBSET (Files(vis) \cup Files(writes[h]))
      BY <2>1, <2>4
    <3>2. IsFiniteSet(Files(vis) \cup Files(writes[h]))
      BY NamesFinite, FS_Subset DEF Files
    <3>3. Cardinality(Files(vis')) <= Cardinality(Files(vis) \cup Files(writes[h]))
      BY <3>1, <3>2, FS_Subset
    <3>4. Cardinality(Files(vis) \cup Files(writes[h])) <= MaxFiles
      BY <2>0 DEF Room
    <3>5. Cardinality(Files(vis) \cup Files(writes[h])) \in Nat
      BY <3>2, FS_CardinalityType
    <3>6. QED
      BY <2>9, <3>3, <3>4, <3>5, ArchiveAssumption
  <2>11. Cardinality(Files(vis')) + litter'.entries + Cardinality(staged'[h])
           <= Cardinality(Files(vis)) + litter.entries + Cardinality(staged[h])
    BY <2>0, <2>3, <2>4, <2>6, <2>7, <2>9
  <2>12. Bytes(vis', Files(vis')) + litter'.bytes + Bytes(writes'[h], staged'[h])
           <= Bytes(vis, Files(vis)) + litter.bytes + Bytes(writes[h], staged[h])
    BY <2>0, <2>3, <2>4, <2>6, <2>7, <2>9
  <2>13. \A g \in Helpers \ {h} : SameHelper(g)
    BY OthersSame DEF HelperStep
  <2>14. QED
    BY <2>0, <2>10, <2>11, <2>12, <2>13, LimitsHolder DEF Holding
<1>3. QED
  BY <1>1, <1>2

\* A removal.
LEMMA LimitsPrune ==
    ASSUME Inv, Inv', WithinLimits, NEW h \in Helpers, Prune(h)
    PROVE  WithinLimits'
<1> USE DEF stageVars
<1>1. CASE UNCHANGED <<vis, maybe, remove>>
  BY <1>1, LimitsQuiet DEF Prune
<1>2. CASE ~UNCHANGED <<vis, maybe, remove>>
  <2> DEFINE n == First(remove[h])
  <2>0. pc[h] = "prune" /\ UNCHANGED <<writes, litter, staged>>
    BY DEF Prune
  <2>1. n \in Names /\ vis' = [vis EXCEPT ![n] = None]
    BY <1>2, PruneFacts DEF Prune
  <2> HIDE DEF n
  <2>2. /\ Bytes(vis', Files(vis')) <= Bytes(vis, Files(vis))
        /\ Cardinality(Files(vis')) <= Cardinality(Files(vis))
    BY <2>1, BytesDrop DEF Inv, TypeOK
  <2>3. vis' \in [Names -> Docs \cup {None}]
    BY DEF Inv, TypeOK
  <2>4. Cardinality(Files(vis')) \in Nat /\ Bytes(vis', Files(vis')) \in Nat
    BY <2>3, BytesNat
  <2>5. /\ Cardinality(Files(vis)) \in Nat /\ litter.entries \in Nat /\ Cardinality(staged[h]) \in Nat
        /\ Bytes(vis, Files(vis)) \in Nat /\ litter.bytes \in Nat /\ Bytes(writes[h], staged[h]) \in Nat
    BY <2>0, HolderTotals DEF Holding
  <2>6. litter' = litter /\ writes' = writes /\ staged' = staged
    BY <2>0
  <2>7. Cardinality(Files(vis')) + litter'.entries + Cardinality(staged'[h])
           <= Cardinality(Files(vis)) + litter.entries + Cardinality(staged[h])
    BY <2>2, <2>4, <2>5, <2>6
  <2>8. Bytes(vis', Files(vis')) + litter'.bytes + Bytes(writes'[h], staged'[h])
           <= Bytes(vis, Files(vis)) + litter.bytes + Bytes(writes[h], staged[h])
    BY <2>2, <2>4, <2>5, <2>6
  <2>9. Cardinality(Files(vis')) <= MaxFiles
    BY <2>2, <2>4, <2>5, ArchiveAssumption DEF WithinLimits
  <2>10. \A g \in Helpers \ {h} : SameHelper(g)
    BY OthersSame DEF HelperStep
  <2>11. QED
    BY <2>0, <2>7, <2>8, <2>9, <2>10, LimitsHolder DEF Holding
<1>3. QED
  BY <1>1, <1>2

\* The empty batch.
LEMMA NoBytes ==
    ASSUME NEW dir
    PROVE  Bytes(dir, {}) = 0 /\ Cardinality({}) = 0
  BY FS_EmptySet, SumZero DEF Bytes

\* The deferred calls remove the stages; a plan starts without any.
LEMMA LimitsNoStages ==
    ASSUME Inv, Inv', WithinLimits, NEW h \in Helpers, pc[h] \in Holding,
           \A g \in Helpers \ {h} : SameHelper(g), UNCHANGED <<vis, litter>>, staged'[h] = {}
    PROVE  WithinLimits'
<1>1. /\ Cardinality(Files(vis)) \in Nat /\ litter.entries \in Nat /\ Cardinality(staged[h]) \in Nat
      /\ Bytes(vis, Files(vis)) \in Nat /\ litter.bytes \in Nat /\ Bytes(writes[h], staged[h]) \in Nat
  BY HolderTotals
<1>2. Cardinality(staged'[h]) = 0 /\ Bytes(writes'[h], staged'[h]) = 0
  BY NoBytes
<1>3. Cardinality(Files(vis')) + litter'.entries + Cardinality(staged'[h])
         <= Cardinality(Files(vis)) + litter.entries + Cardinality(staged[h])
  BY <1>1, <1>2
<1>4. Bytes(vis', Files(vis')) + litter'.bytes + Bytes(writes'[h], staged'[h])
         <= Bytes(vis, Files(vis)) + litter.bytes + Bytes(writes[h], staged[h])
  BY <1>1, <1>2
<1>5. Cardinality(Files(vis')) <= MaxFiles
  BY DEF WithinLimits
<1>6. QED
  BY <1>3, <1>4, <1>5, LimitsHolder

\* What a helper without the lock leaves behind: nothing.
LEMMA CrashOutside ==
    ASSUME Inv, NEW h \in Helpers, pc[h] \notin Holding, Crash(h)
    PROVE  litter' = litter /\ staged' = staged /\ writes' = writes
<1>1. pc[h] \in Unplanned
  BY DEF Inv, TypeOK, Holding, Unplanned
<1>2. staged[h] = {} /\ writes[h] = NoFiles
  BY <1>1 DEF Inv, HelperOK
<1>3. staged' = staged /\ writes' = writes
  BY <1>2 DEF Crash, Forget, Inv, TypeOK
<1>4. PICK left \in SUBSET staged[h], torn \in {0, 1} :
              /\ torn = 1 => pc[h] = "stage" /\ staged[h] # Files(writes[h])
              /\ litter' = [entries |-> litter.entries + Cardinality(left) + torn,
                            bytes |-> litter.bytes + Bytes(writes[h], left) + torn]
  BY CrashFacts
<1>5. left = {} /\ torn = 0
  BY <1>2, <1>4 DEF Holding
<1>6. Cardinality(left) = 0 /\ Bytes(writes[h], left) = 0
  BY <1>5, NoBytes
<1>7. litter \in [entries: Nat, bytes: Nat]
  BY DEF Inv, TypeOK
<1>8. litter' = litter
  BY <1>4, <1>5, <1>6, <1>7
<1>9. QED
  BY <1>3, <1>8

\* A crash turns stages into litter; a part of one more was in the room.
LEMMA LimitsCrash ==
    ASSUME Inv, Inv', WithinLimits, NEW h \in Helpers, Room(h), Crash(h)
    PROVE  WithinLimits'
<1>0. vis' = vis
  BY DEF Crash
<1>1. CASE pc[h] \notin Holding
  <2>1. UNCHANGED <<litter, staged, writes>>
    BY <1>1, CrashOutside
  <2>2. QED
    BY <1>0, <2>1, LimitsQuiet
<1>2. CASE pc[h] \in Holding
  <2> DEFINE W == Files(writes[h])
  <2>1. PICK left \in SUBSET staged[h], torn \in {0, 1} :
              /\ torn = 1 => pc[h] = "stage" /\ staged[h] # Files(writes[h])
              /\ litter' = [entries |-> litter.entries + Cardinality(left) + torn,
                            bytes |-> litter.bytes + Bytes(writes[h], left) + torn]
              /\ Cardinality(left) \in Nat /\ Bytes(writes[h], left) \in Nat
    BY CrashFacts
  <2>2. staged'[h] = {} /\ \A g \in Helpers \ {h} : SameHelper(g)
    <3>1. staged'[h] = {}
      BY DEF Crash, Forget, Inv, TypeOK
    <3>2. QED
      BY <3>1, OthersSame
  <2>3. Cardinality(staged'[h]) = 0 /\ Bytes(writes'[h], staged'[h]) = 0
    BY <2>2, NoBytes
  <2>4. /\ Cardinality(Files(vis)) \in Nat /\ litter.entries \in Nat /\ Cardinality(staged[h]) \in Nat
        /\ Bytes(vis, Files(vis)) \in Nat /\ litter.bytes \in Nat /\ Bytes(writes[h], staged[h]) \in Nat
    BY <1>2, HolderTotals
  <2>5. writes[h] \in [Names -> Docs \cup {None}] /\ staged[h] \in SUBSET W
    BY DEF Inv, TypeOK, HelperOK
  <2>6. Bytes(writes[h], left) <= Bytes(writes[h], staged[h]) /\ Cardinality(left) <= Cardinality(staged[h])
    BY <2>5, BytesPart
  <2>7. Cardinality(Files(vis')) <= MaxFiles
    BY <1>0 DEF WithinLimits
  <2>8. CASE torn = 0
    <3>1. Cardinality(Files(vis')) + litter'.entries + Cardinality(staged'[h])
             <= Cardinality(Files(vis)) + litter.entries + Cardinality(staged[h])
      BY <1>0, <2>1, <2>3, <2>4, <2>6, <2>8
    <3>2. Bytes(vis', Files(vis')) + litter'.bytes + Bytes(writes'[h], staged'[h])
             <= Bytes(vis, Files(vis)) + litter.bytes + Bytes(writes[h], staged[h])
      BY <1>0, <2>1, <2>3, <2>4, <2>6, <2>8
    <3>3. QED
      BY <1>2, <2>2, <2>7, <3>1, <3>2, LimitsHolder
  <2>9. CASE torn = 1
    <3>1. pc[h] = "stage"
      BY <2>1, <2>9
    <3>2. PICK n \in W \ staged[h] : TRUE
      BY <2>1, <2>5, <2>9
    <3>3. /\ Cardinality(Files(vis)) + litter.entries + Cardinality(W) <= MaxEntries
          /\ Bytes(vis, Files(vis)) + litter.bytes + Bytes(writes[h], W) <= MaxBytes
      BY <3>1 DEF Room
    <3>4. Cardinality(W) \in Nat /\ Bytes(writes[h], W) \in Nat
      BY <2>5, BytesNat
    <3> HIDE DEF W
    <3>5. staged[h] \cup {n} \in SUBSET W
      BY <2>5, <3>2
    <3>6. /\ Bytes(writes[h], staged[h] \cup {n}) = Size(writes[h][n]) + Bytes(writes[h], staged[h])
          /\ Size(writes[h][n]) \in Nat /\ Size(writes[h][n]) >= 1
          /\ Cardinality(staged[h] \cup {n}) = Cardinality(staged[h]) + 1
      BY <2>5, <3>2, BytesAdd DEF W
    <3>7. /\ Bytes(writes[h], staged[h] \cup {n}) <= Bytes(writes[h], W)
          /\ Cardinality(staged[h] \cup {n}) <= Cardinality(W)
      BY <2>5, <3>5, BytesPart DEF W
    <3>8. MaxEntries \in Nat /\ MaxBytes \in Nat
      BY ArchiveAssumption
    <3>9. /\ litter'.entries = litter.entries + Cardinality(left) + 1
          /\ litter'.bytes = litter.bytes + Bytes(writes[h], left) + 1
      BY <2>1, <2>9
    <3>10. Cardinality(Files(vis')) + litter'.entries + Cardinality(staged'[h]) <= MaxEntries
      <4>1. Cardinality(Files(vis)) + (litter.entries + Cardinality(left) + 1) + 0 <= MaxEntries
        BY <2>1, <2>4, <2>6, <3>3, <3>4, <3>6, <3>7, <3>8
      <4>2. QED
        BY <1>0, <2>3, <3>9, <4>1
    <3>11. Bytes(vis', Files(vis')) + litter'.bytes + Bytes(writes'[h], staged'[h]) <= MaxBytes
      <4>1. Bytes(writes[h], left) + 1 <= Bytes(writes[h], W)
        BY <2>1, <2>4, <2>6, <3>4, <3>6, <3>7
      <4>2. Bytes(vis, Files(vis)) + (litter.bytes + Bytes(writes[h], left) + 1) + 0 <= MaxBytes
        BY <2>1, <2>4, <3>3, <3>4, <3>8, <4>1
      <4>3. QED
        BY <1>0, <2>3, <3>9, <4>2
    <3>12. QED
      BY <1>2, <2>2, <2>7, <3>10, <3>11, LimitsHolder
  <2>10. QED
    BY <2>8, <2>9
<1>3. QED
  BY <1>1, <1>2

\* The plan reserves the room it needs.
LEMMA RoomPlan ==
    ASSUME Inv, NEW h \in Helpers, Undisturbed(h), Plan(h)
    PROVE  Room(h)'
<1> DEFINE w == PlannedWrites(h)
           r == PlannedRemove(h)
<1>0. pc[h] = "plan" /\ UNCHANGED <<vis, litter, cur>> /\ vis = cur[h]
  BY DEF Plan, Undisturbed, dirVars
<1>1. CASE Plannable(h) /\ Fits(h, w, r)
  <2>1. pc'[h] = "stage" /\ writes' = [writes EXCEPT ![h] = w]
    BY <1>1 DEF Plan, Goto, Inv, TypeOK
  <2>2. Fits(h, w, r)
    BY <1>1
  <2>3. w \in [Names -> Docs \cup {None}]
    BY InvPlanInput, PlanFacts
  <2> HIDE DEF w, r
  <2>4. writes'[h] = w
    BY <2>1 DEF Inv, TypeOK
  <2> DEFINE fresh == Files(w) \ Files(cur[h])
  <2>5. /\ Cardinality(Files(vis)) + Cardinality(fresh) <= MaxFiles
        /\ Cardinality(Files(vis)) + litter.entries + Cardinality(Files(w)) <= MaxEntries
        /\ Bytes(vis, Files(vis)) + litter.bytes + Bytes(w, Files(w)) <= MaxBytes
    BY <1>0, <2>2 DEF Fits
  <2>6. Cardinality(Files(vis) \cup Files(w)) <= MaxFiles
    <3>1. IsFiniteSet(Files(vis)) /\ IsFiniteSet(fresh)
      BY NamesFinite, FS_Subset DEF Files
    <3>2. Files(vis) \cap fresh = {} /\ Files(vis) \cup fresh = Files(vis) \cup Files(w)
      BY <1>0
    <3> HIDE DEF fresh
    <3>3. Cardinality(Files(vis) \cup fresh)
            = Cardinality(Files(vis)) + Cardinality(fresh) - Cardinality(Files(vis) \cap fresh)
      BY <3>1, FS_Union
    <3>4. Cardinality(Files(vis)) \in Nat /\ Cardinality(fresh) \in Nat /\ Cardinality(Files(vis) \cap fresh) = 0
      BY <3>1, <3>2, FS_CardinalityType, FS_EmptySet
    <3>5. Cardinality(Files(vis) \cup fresh) = Cardinality(Files(vis)) + Cardinality(fresh)
      BY <3>3, <3>4
    <3>6. QED
      BY <2>5, <3>2, <3>5
  <2>7. /\ Files(vis)' = Files(vis) /\ Files(writes[h])' = Files(w)
        /\ Bytes(vis, Files(vis))' = Bytes(vis, Files(vis))
        /\ Bytes(writes[h], Files(writes[h]))' = Bytes(w, Files(w))
    BY <1>0, <2>4 DEF Files, Bytes
  <2>8. QED
    BY <1>0, <2>1, <2>5, <2>6, <2>7 DEF Room
<1>2. CASE ~(Plannable(h) /\ Fits(h, w, r))
  <2>1. Goto(h, "plan", "failed")
    BY <1>2 DEF Plan
  <2>2. QED
    BY <2>1 DEF Goto, Inv, TypeOK, Room
<1>3. QED
  BY <1>1, <1>2

\* Room is used up only as foreseen.
LEMMA RoomMove ==
    ASSUME Inv, NEW h \in Helpers, HelperStep(h), Room(h), Undisturbed(h)
    PROVE  Room(h)'
<1> USE DEF worldVars, dirVars, runVars, planVars, stageVars
<1>1. CASE Start(h) \/ Lock(h) \/ Read(h) \/ Finish(h) \/ SyncInstall(h) \/ Prune(h) \/ SyncPrune(h)
  <2>1. pc'[h] \notin {"stage", "syncStage", "install"}
    BY <1>1 DEF Start, Lock, Read, Finish, SyncInstall, Prune, SyncPrune, SyncOrFail, Goto, Inv, TypeOK
  <2>2. QED
    BY <2>1 DEF Room
<1>2. CASE Plan(h)
  BY <1>2, RoomPlan
<1>3. CASE Stage(h)
  <2>1. UNCHANGED <<vis, writes>> /\ pc[h] = "stage"
        /\ ((UNCHANGED <<pc, litter>>) \/ Goto(h, "stage", "failed"))
    BY <1>3 DEF Stage
  <2>2. CASE UNCHANGED <<pc, litter>>
    BY <2>1, <2>2 DEF Room, Files, Bytes
  <2>3. CASE Goto(h, "stage", "failed")
    BY <2>3 DEF Goto, Inv, TypeOK, Room
  <2>4. QED
    BY <2>1, <2>2, <2>3
<1>4. CASE Recheck(h)
  <2>1. UNCHANGED <<vis, writes>> /\ pc[h] = "stage" /\ pc'[h] # "stage"
    BY <1>4 DEF Recheck, Goto, Inv, TypeOK
  <2>2. QED
    BY <2>1 DEF Room, Files
<1>5. CASE SyncStage(h)
  <2>1. UNCHANGED <<vis, writes>> /\ pc[h] = "syncStage" /\ pc'[h] # "stage"
    BY <1>5 DEF SyncStage, SyncOrFail, SyncDir, Goto, Inv, TypeOK
  <2>2. QED
    BY <2>1 DEF Room, Files
<1>6. CASE Install(h)
  <2>0. pc[h] = "install" /\ pc'[h] # "stage" /\ writes' = writes /\ staged[h] # {}
    BY <1>6 DEF Install, Goto, Inv, TypeOK
  <2>1. First(staged[h]) \in Files(writes[h])
    BY <2>0, InstallFacts
  <2>2. \A n \in Names \ Files(writes[h]) : vis'[n] = vis[n]
    BY <1>6, <2>1 DEF Install, Inv, TypeOK
  <2>3. Files(vis') \cup Files(writes[h]) \in SUBSET (Files(vis) \cup Files(writes[h]))
    BY <2>2 DEF Files
  <2>4. IsFiniteSet(Files(vis) \cup Files(writes[h]))
    BY NamesFinite, FS_Subset DEF Files
  <2>5. Cardinality(Files(vis') \cup Files(writes[h])) <= Cardinality(Files(vis) \cup Files(writes[h]))
        /\ IsFiniteSet(Files(vis') \cup Files(writes[h]))
    BY <2>3, <2>4, FS_Subset
  <2>6. Cardinality(Files(vis) \cup Files(writes[h])) <= MaxFiles
    BY <2>0 DEF Room
  <2>7. Cardinality(Files(vis') \cup Files(writes[h])) \in Nat /\ Cardinality(Files(vis) \cup Files(writes[h])) \in Nat
        /\ MaxFiles \in Nat
    BY <2>4, <2>5, FS_CardinalityType, ArchiveAssumption
  <2>8. Cardinality(Files(vis') \cup Files(writes[h])) <= MaxFiles
    BY <2>5, <2>6, <2>7
  <2>9. (Files(vis) \cup Files(writes[h]))' = Files(vis') \cup Files(writes[h])
    BY <2>0 DEF Files
  <2>10. QED
    BY <2>0, <2>8, <2>9 DEF Room
<1>7. QED
  BY <1>1, <1>2, <1>3, <1>4, <1>5, <1>6 DEF HelperStep

\* Nobody else takes it.
LEMMA RoomFrame ==
    ASSUME NEW g \in Helpers, SameHelper(g), Room(g), UNCHANGED <<vis, litter>> \/ pc[g] \notin Holding
    PROVE  Room(g)'
<1>1. CASE pc[g] \notin Holding
  BY <1>1 DEF SameHelper, Room, Holding
<1>2. CASE UNCHANGED <<vis, litter>>
  BY <1>2 DEF SameHelper, Room, Files, Bytes
<1>3. QED
  BY <1>1, <1>2

\* A helper without the lock leaves the directory alone.
LEMMA Outside ==
    ASSUME Inv, NEW h \in Helpers, HelperStep(h) \/ Crash(h), pc[h] \notin Holding
    PROVE  UNCHANGED <<vis, litter, staged, writes>>
<1> USE DEF dirVars, planVars, stageVars
<1>1. CASE Crash(h)
  BY <1>1, CrashOutside DEF Crash
<1>2. CASE Start(h)
  BY <1>2 DEF Start
<1>3. CASE Lock(h)
  <2>1. staged[h] = {} /\ writes[h] = NoFiles
    BY <1>3 DEF Lock, Goto, Inv, HelperOK, Unplanned
  <2>2. /\ staged' = staged \/ staged' = [staged EXCEPT ![h] = {}]
        /\ writes' = writes \/ writes' = [writes EXCEPT ![h] = NoFiles]
        /\ UNCHANGED <<vis, litter>>
    BY <1>3 DEF Lock, Forget
  <2>3. staged' = staged /\ writes' = writes
    <3>1. staged = [g \in Helpers |-> staged[g]] /\ writes = [g \in Helpers |-> writes[g]]
      BY DEF Inv, TypeOK
    <3>2. staged' = staged
      BY <2>1, <2>2, <3>1
    <3>3. writes' = writes
      BY <2>1, <2>2, <3>1
    <3>4. QED
      BY <3>2, <3>3
  <2>4. QED
    BY <2>2, <2>3
<1>4. CASE HelperStep(h) /\ ~Start(h) /\ ~Lock(h)
  BY <1>4 DEF HelperStep, Read, Plan, Stage, Recheck, SyncStage, Install, SyncInstall, Prune, SyncPrune,
              SyncOrFail, Finish, Goto, Holding
<1>5. QED
  BY <1>1, <1>2, <1>3, <1>4

\* Every step keeps the directory within its limits.
LEMMA LimitsStep ==
    ASSUME Inv, Inv', [Next]_vars, "edit" \notin Faults, "power" \notin Faults,
           \A h \in Helpers : Undisturbed(h) /\ Room(h), WithinLimits
    PROVE  WithinLimits' /\ \A h \in Helpers : Room(h)'
<1>1. ASSUME NEW h \in Helpers, HelperStep(h) \/ Crash(h), NEW g \in Helpers, g # h PROVE Room(g)'
  <2>1. SameHelper(g)
    BY <1>1, OthersSame
  <2>2. CASE pc[g] \in Holding
    <3>1. pc[h] \notin Holding
      BY <1>1, <2>2, OneHolder
    <3>2. QED
      BY <1>1, <2>1, <3>1, Outside, RoomFrame
  <2>3. CASE pc[g] \notin Holding
    BY <2>1, <2>3, RoomFrame
  <2>4. QED
    BY <2>2, <2>3
<1>2. ASSUME NEW h \in Helpers, Crash(h) PROVE WithinLimits' /\ \A g \in Helpers : Room(g)'
  <2>1. Room(h)'
    BY <1>2 DEF Crash, Room, Inv, TypeOK
  <2>2. QED
    BY <1>1, <1>2, <2>1, LimitsCrash
<1>3. ASSUME NEW h \in Helpers, HelperStep(h) PROVE WithinLimits' /\ \A g \in Helpers : Room(g)'
  <2>1. Room(h)'
    BY <1>3, RoomMove
  <2>0. SUFFICES WithinLimits'
    BY <1>1, <1>3, <2>1
  <2>2. CASE pc[h] \notin Holding
    BY <1>3, <2>2, Outside, LimitsQuiet
  <2>3. CASE Stage(h) \/ Install(h) \/ Prune(h)
    BY <2>3, LimitsStage, LimitsInstall, LimitsPrune
  <2>4. CASE Plan(h) \/ Finish(h)
    <3>1. pc[h] \in Holding /\ UNCHANGED <<vis, litter>>
      BY <2>4 DEF Plan, Finish, Holding, dirVars
    <3>2. staged'[h] = {}
      <4>1. CASE Plan(h)
        BY <4>1 DEF Plan, stageVars, Inv, HelperOK, Unplanned
      <4>2. CASE Finish(h)
        BY <4>2 DEF Finish, Forget, Inv, TypeOK
      <4>3. QED
        BY <2>4, <4>1, <4>2
    <3>3. \A g \in Helpers \ {h} : SameHelper(g)
      BY <1>3, OthersSame
    <3>4. QED
      BY <3>1, <3>2, <3>3, LimitsNoStages
  <2>5. CASE Read(h) \/ Recheck(h) \/ SyncStage(h) \/ SyncInstall(h) \/ SyncPrune(h)
    <3>1. UNCHANGED <<vis, litter, staged, writes>>
      BY <2>5 DEF Read, Recheck, SyncStage, SyncInstall, SyncPrune, SyncOrFail, SyncDir, dirVars, planVars, stageVars
    <3>2. QED
      BY <3>1, LimitsQuiet
  <2>6. CASE (Start(h) \/ Lock(h)) /\ pc[h] \in Holding
    BY <2>6 DEF Start, Lock, Goto, Holding
  <2>7. QED
    BY <1>3, <2>2, <2>3, <2>4, <2>5, <2>6 DEF HelperStep
<1>4. CASE Collector \/ UNCHANGED vars
  <2> USE DEF worldVars, dirVars, runVars, planVars, stageVars
  <2>1. UNCHANGED <<vis, litter, staged, writes>>
    BY <1>4 DEF Collector, Tick, Emit, Reset, Expire, vars
  <2>2. \A g \in Helpers : SameHelper(g)
    BY <1>4 DEF Collector, Tick, Emit, Reset, Expire, vars, SameHelper
  <2>3. QED
    BY <2>1, <2>2, LimitsQuiet, RoomFrame
<1>5. ~PowerLoss /\ \A n \in Names : ~Edit(n)
  BY DEF PowerLoss, Edit, Fault
<1>6. QED
  BY <1>2, <1>3, <1>4, <1>5 DEF Next, Interference

\* The empty archive is within any limits.
LEMMA LimitsInit ==
    ASSUME Init
    PROVE  WithinLimits /\ \A h \in Helpers : Room(h)
<1>1. Files(vis) = {} /\ litter.entries = 0 /\ litter.bytes = 0
  BY DEF Init, Files, NoFiles
<1>2. Cardinality(Files(vis)) = 0 /\ Bytes(vis, Files(vis)) = 0
  BY <1>1, NoBytes
<1> DEFINE a == [h \in Helpers |-> Cardinality(staged[h])]
           b == [h \in Helpers |-> Bytes(writes[h], staged[h])]
<1>3. \A h \in Helpers : a[h] = 0 /\ b[h] = 0
  BY NoBytes DEF Init
<1>4. SumFunctionOnSet(a, Helpers) = 0 /\ SumFunctionOnSet(b, Helpers) = 0
  <2> HIDE DEF a, b
  <2>1. QED
    BY <1>3, SumZero, ArchiveAssumption
<1>5. Entries = 0 /\ DiskBytes = 0
  BY <1>1, <1>2, <1>4 DEF Entries, DiskBytes
<1>6. WithinLimits
  BY <1>2, <1>5, ArchiveAssumption DEF WithinLimits
<1>7. QED
  BY <1>6 DEF Init, Room

\* Unless somebody edits the archive by hand or a power loss brings back what
\* was removed, the directory is within the limits of readArchive and of scan
\* at every moment, with the whole batch staged and after any number of
\* crashes: planArchive reserves room for the batch beside everything there.
THEOREM ArchiveWithinLimits ==
    ASSUME "edit" \notin Faults, "power" \notin Faults
    PROVE  Spec => []WithinLimits
<1> DEFINE R == WithinLimits /\ \A h \in Helpers : Undisturbed(h) /\ Room(h)
<1>1. Init => R
  BY LimitsInit, UndisturbedInit
<1>2. Inv /\ R /\ Inv' /\ [Next]_vars => R'
  BY LimitsStep, UndisturbedStep
<1>3. R => WithinLimits
  OBVIOUS
<1> HIDE DEF R
<1>4. QED
  BY <1>1, <1>2, <1>3, SpecInv, PTL DEF Spec
=============================================================================
