--------------------------- MODULE LangfuseProofs ---------------------------
(***************************************************************************)
(* The safety of LangfuseDirectory for every directory, every limit and    *)
(* everything that other programs do to the directory during the load.     *)
(***************************************************************************)
EXTENDS LangfuseDirectory, SumLemmas

Everything == Names \cup Dirs

LEMMA TwoFinite ==
    ASSUME NEW a, NEW b, a # b
    PROVE  IsFiniteSet({a, b}) /\ Cardinality({a, b}) = 2
<1>1. IsFiniteSet({a}) /\ Cardinality({a}) = 1 /\ {a, b} = {a} \cup {b} /\ b \notin {a}
  BY FS_Singleton
<1>2. IsFiniteSet({a} \cup {b}) /\ Cardinality({a} \cup {b}) = Cardinality({a}) + 1
  BY <1>1, FS_AddElement
<1>3. QED
  BY <1>1, <1>2

\* There are finitely many names, and the first of some in path order is one
\* of them.
LEMMA NamesFinite == IsFiniteSet(Everything) /\ IsFiniteSet(ManifestNames) /\ IsFiniteSet(DataNames)
<1>1. PathOrder \in Seq(Everything) /\ {PathOrder[i] : i \in DOMAIN PathOrder} = Everything
  BY LangfuseAssumption DEF ToSet, Everything
<1>2. IsFiniteSet(Everything)
  BY <1>1, ElementsFinite
<1>3. ManifestNames \in SUBSET Everything /\ DataNames \in SUBSET Everything
  BY DEF Everything, Names
<1>4. QED
  BY <1>2, <1>3, FS_Subset

LEMMA EarliestIsOne ==
    ASSUME NEW xs, xs \subseteq Everything, xs # {}
    PROVE  Earliest(xs) \in xs
<1>1. PathOrder \in Seq(Everything) /\ {PathOrder[i] : i \in DOMAIN PathOrder} = Everything
  BY LangfuseAssumption DEF ToSet, Everything
<1>2. PICK I : I = {i \in DOMAIN PathOrder : PathOrder[i] \in xs}
  OBVIOUS
<1>3. IsFiniteSet(I) /\ I \subseteq Nat
  <2>1. I \in SUBSET DOMAIN PathOrder
    BY <1>2
  <2>2. QED
    BY <1>1, <2>1, IndexSetsFinite
<1>4. I # {}
  <2>1. PICK x \in xs : TRUE
    OBVIOUS
  <2>2. x \in {PathOrder[i] : i \in DOMAIN PathOrder}
    BY <1>1
  <2>3. QED
    BY <1>2, <2>2
<1>5. PICK m \in I : \A x \in I : m <= x
  BY <1>3, <1>4, Extremes
<1>6. Min(I) \in I
  BY <1>5 DEF Min
<1>7. QED
  BY <1>2, <1>6 DEF Earliest

LEMMA TurnIsOne ==
    ASSUME todo \subseteq Everything, todo # {}
    PROVE  Turn \in todo
  BY EarliestIsOne DEF Turn

\* Names, and the directory each of them is in.
LEMMA NameFacts ==
    /\ Dirs \subseteq Everything /\ Names \subseteq Everything /\ Names \cap Dirs = {}
    /\ \A n \in Names : DirOf(n) \in Dirs /\ n \in NamesIn(DirOf(n))
    /\ \A d \in Dirs : NamesIn(d) \subseteq Names /\ \A n \in NamesIn(d) : DirOf(n) = d
<1>1. Names \cap Dirs = {} /\ ManifestNames \cap DataNames = {}
  BY LangfuseAssumption
<1>2. \A n \in Names : DirOf(n) \in Dirs /\ n \in NamesIn(DirOf(n))
  BY <1>1 DEF DirOf, Dirs, NamesIn, Names
<1>3. \A d \in Dirs : NamesIn(d) \subseteq Names /\ \A n \in NamesIn(d) : DirOf(n) = d
  BY <1>1 DEF DirOf, Dirs, NamesIn, Names
<1>4. QED
  BY <1>1, <1>2, <1>3 DEF Everything

\* What may be found under a name.
LEMMA ContentTypes ==
    ASSUME NEW n \in Names, NEW c \in Contents[n]
    PROVE  /\ c # None
           /\ n \in ManifestNames => c \in ManifestFields \cup {Torn}
           /\ n \in DataNames => c \in Seq(RowFields \cup {Torn})
<1>1. c # None /\ c \in (IF DirOf(n) = "manifests" THEN ManifestFields \cup {Torn} ELSE Seq(RowFields \cup {Torn}))
  BY LangfuseAssumption
<1>2. n \in ManifestNames => DirOf(n) = "manifests"
  BY DEF DirOf
<1>3. n \in DataNames => DirOf(n) # "manifests"
  BY LangfuseAssumption DEF DirOf
<1>4. QED
  BY <1>1, <1>2, <1>3

\* Sizes are numbers.
LEMMA FileBytesType ==
    ASSUME NEW c \in Seq(RowFields \cup {Torn})
    PROVE  FileBytes(c) \in Nat
<1> DEFINE size == [i \in DOMAIN c |-> IF c[i] = Torn THEN 1 ELSE c[i].size]
<1>1. IsFiniteSet(DOMAIN c)
  BY IndexSetsFinite
<1>2. ASSUME NEW i \in DOMAIN c PROVE size[i] \in Nat
  <2>1. c[i] \in RowFields \cup {Torn}
    OBVIOUS
  <2>2. c[i] # Torn => c[i].size \in Nat
    BY <2>1 DEF RowFields
  <2>3. QED
    BY <2>2
<1>3. SumFunctionOnSet(size, DOMAIN c) \in Nat
  <2> HIDE DEF size
  <2>1. QED
    BY <1>1, <1>2, SumType
<1>4. QED
  BY <1>3 DEF FileBytes

LEMMA BytesType ==
    ASSUME NEW n \in Names, NEW c \in Contents[n]
    PROVE  Bytes(n, c) \in Nat
<1>1. CASE n \in ManifestNames
  BY <1>1 DEF Bytes
<1>2. CASE n \notin ManifestNames
  <2>1. n \in DataNames
    BY <1>2 DEF Names
  <2>2. FileBytes(c) \in Nat
    BY <2>1, ContentTypes, FileBytesType
  <2>3. QED
    BY <1>2, <2>2 DEF Bytes
<1>3. QED
  BY <1>1, <1>2

LEMMA LimitTypes ==
    /\ MaxNames \in Nat /\ MaxTotal \in Nat /\ MaxFileBytes \in Nat /\ MaxRows \in Nat
    /\ MaxCount \in Nat /\ MaxCost \in Nat /\ MaxWrites \in Nat
  BY LangfuseAssumption

-----------------------------------------------------------------------------
(* The types of the variables.                                             *)

CovTypes == [files: Nat, verified: Nat, missing: Nat, partial: Nat, extra: Nat, gaps: Nat,
             physical: Nat, duplicates: Int, uncovered: Nat, incomplete: BOOLEAN]

DiskOK == /\ DOMAIN dir = Names /\ \A n \in Names : dir[n] \in Contents[n] \cup {None}
          /\ stamp \in [Everything -> Nat] /\ changes \in 0..MaxWrites
          /\ \A x \in Everything : stamp[x] <= changes

FoundOK(found) == /\ found \in [Everything -> Infos \cup {None}]
                  /\ Cardinality(Held(found)) <= MaxNames /\ Total(found) <= MaxTotal
                  /\ \A x \in Held(found) : found[x].stamp <= stamp[x]

RunsOK == /\ runs \in [ManifestNames -> ManifestFields \cup {None}]
          /\ \A n \in ReadRuns : WellFormed(runs[n])

Reading == pc \in {"files", "read"}

PhaseOK ==
    /\ pc \in {"inv1", "manifests", "files", "read", "inv2", "loaded", "reported", "error"}
    /\ todo \subseteq Everything
    /\ pc = "manifests" => todo \subseteq ManifestNames
    /\ Reading => todo \subseteq ReadRuns
    /\ j \in Nat \ {0} /\ (pc \in {"inv1", "manifests"} => j = 1)
    /\ pc = "files" /\ todo # {} => j <= Len(Run.files) + 1

OpenOK ==
    /\ pc = "read" => /\ todo # {} /\ j <= Len(Run.files) /\ File.path \in DataNames
                      /\ gone = None => dir[File.path] # None
    /\ gone # None => gone \in Seq(RowFields \cup {Torn})
    /\ pc \notin {"read", "error"} => gone = None /\ got = <<>>

GotOK ==
    /\ got \in Seq(RowFields) /\ Len(got) <= MaxRows
    /\ pc = "read" /\ Observations => Tokens(got) <= MaxCount /\ Cost(got) <= MaxCost

RowsOK ==
    /\ rows \subseteq RowFields /\ IsFiniteSet(rows) /\ Cardinality(rows) <= MaxRows /\ KeptCost(rows) <= MaxCost
    /\ listed \subseteq DataNames /\ whole \in BOOLEAN

WindowsOK ==
    /\ KnownProjects \subseteq Projects /\ IsFiniteSet(KnownProjects)
    /\ \A p \in KnownProjects : windows[p] \subseteq [start: Nat, end: Nat] /\ IsFiniteSet(windows[p])

TypeInv == /\ DiskOK /\ FoundOK(names) /\ FoundOK(after) /\ RunsOK /\ PhaseOK /\ OpenOK
           /\ GotOK /\ RowsOK /\ WindowsOK /\ cov \in CovTypes

\* The invariant is the type invariant that the run checks, and more.
LEMMA TypesFollow == TypeInv => TypeOK
<1> SUFFICES ASSUME TypeInv PROVE TypeOK
  OBVIOUS
<1>1. DiskOK /\ FoundOK(names) /\ FoundOK(after) /\ PhaseOK /\ GotOK /\ RowsOK
  BY DEF TypeInv
<1>2. stamp \in [Names \cup Dirs -> Stamps] /\ changes \in Stamps
  BY <1>1, LimitTypes DEF DiskOK, Stamps, Everything
<1>3. \A n \in Names : dir[n] \in Contents[n] \cup {None}
  BY <1>1 DEF DiskOK
<1>4. ASSUME NEW found \in {names, after}
      PROVE  found \in [Names \cup Dirs -> Infos \cup {None}] /\ Cardinality(Held(found)) <= MaxNames
             /\ Total(found) <= MaxTotal
  <2>1. FoundOK(found)
    BY <1>1
  <2>2. QED
    BY <2>1 DEF FoundOK, Everything
<1>5. QED
  BY <1>1, <1>2, <1>3, <1>4 DEF TypeOK, PhaseOK, GotOK, RowsOK, Everything

\* The content under a name.
LEMMA ContentOf ==
    ASSUME DiskOK, NEW n \in Names, dir[n] # None
    PROVE  /\ dir[n] \in Contents[n] /\ Bytes(n, dir[n]) \in Nat
           /\ n \in ManifestNames => dir[n] \in ManifestFields \cup {Torn}
           /\ n \in DataNames => dir[n] \in Seq(RowFields \cup {Torn}) /\ Bytes(n, dir[n]) = FileBytes(dir[n])
<1>1. dir[n] \in Contents[n]
  BY DEF DiskOK
<1>2. n \in DataNames => n \notin ManifestNames
  BY LangfuseAssumption
<1>3. PICK c \in Contents[n] : c = dir[n]
  BY <1>1
<1>4. QED
  BY <1>1, <1>2, <1>3, BytesType, ContentTypes DEF Bytes

LEMMA InfoType ==
    ASSUME DiskOK, NEW x \in Everything, x \in Names => dir[x] # None
    PROVE  Info(x) \in Infos /\ Info(x) # None /\ Info(x).stamp = stamp[x]
           /\ Info(x).size = IF x \in Dirs THEN 0 ELSE Bytes(x, dir[x])
<1>1. stamp[x] \in Nat
  BY DEF DiskOK
<1>2. (IF x \in Dirs THEN 0 ELSE Bytes(x, dir[x])) \in Nat
  BY ContentOf DEF Everything
<1>3. Info(x) \in Infos
  BY <1>1, <1>2 DEF Info, Infos
<1>4. Info(x) # None
  BY <1>3, LangfuseAssumption
<1>5. QED
  BY <1>3, <1>4 DEF Info

LEMMA TotalType ==
    ASSUME NEW found \in [Everything -> Infos \cup {None}]
    PROVE  Total(found) \in Nat /\ IsFiniteSet(Held(found)) /\ Cardinality(Held(found)) \in Nat
<1> DEFINE size == [x \in Held(found) |-> found[x].size]
<1>1. IsFiniteSet(Held(found))
  <2>1. Held(found) \in SUBSET Everything
    BY DEF Held, Everything
  <2>2. QED
    BY <2>1, NamesFinite, FS_Subset
<1>2. ASSUME NEW x \in Held(found) PROVE size[x] \in Nat
  <2>1. found[x] \in Infos
    BY <1>2 DEF Held, Everything
  <2>2. QED
    BY <2>1 DEF Infos
<1>3. SumFunctionOnSet(size, Held(found)) \in Nat
  <2> HIDE DEF size
  <2>1. QED
    BY <1>1, <1>2, SumType
<1>4. QED
  BY <1>1, <1>3, FS_CardinalityType DEF Total

\* A step of a walk keeps within the limits.
LEMMA VisitTypes ==
    ASSUME DiskOK, NEW found, FoundOK(found), todo \subseteq Everything, todo # {}, ~WalkFails(found)
    PROVE  FoundOK(Visit(found).names) /\ Visit(found).todo \subseteq Everything
<1>1. Turn \in Everything /\ Turn \in todo
  BY TurnIsOne
<1>2. Visit(found).todo \subseteq Everything
  <2>1. Turn \in Dirs => Listing \subseteq Everything
    BY NameFacts DEF Listing
  <2>2. QED
    BY <2>1 DEF Visit, Lists
<1>3. CASE Lists(found)
  BY <1>2, <1>3 DEF Visit
<1>4. CASE ~Lists(found)
  <2>1. /\ Turn \in Names => dir[Turn] # None
        /\ ~(Cardinality(Held(found)) >= MaxNames) /\ ~(Total(Described(found)) > MaxTotal)
    BY <1>4 DEF WalkFails
  <2>2. PICK more : more = Described(found)
    OBVIOUS
  <2>3. found \in [Everything -> Infos \cup {None}]
    BY DEF FoundOK
  <2>4. PICK info \in Infos : info = Info(Turn) /\ info # None /\ info.stamp = stamp[Turn]
    BY <1>1, <2>1, InfoType
  <2>5. more = [found EXCEPT ![Turn] = info]
    BY <2>2, <2>4 DEF Described
  <2>6. more \in [Everything -> Infos \cup {None}]
    BY <2>3, <2>5
  <2>7. Total(more) \in Nat /\ Cardinality(Held(more)) \in Nat /\ IsFiniteSet(Held(found))
        /\ Cardinality(Held(found)) \in Nat
    BY <2>3, <2>6, TotalType
  <2>8. Held(more) = Held(found) \cup {Turn}
    BY <1>1, <2>3, <2>4, <2>5 DEF Held, Everything
  <2>9. Cardinality(Held(more)) <= MaxNames /\ Total(more) <= MaxTotal
    <3>1. Cardinality(Held(more)) <= Cardinality(Held(found)) + 1
      BY <2>7, <2>8, CountAtMostMore
    <3>2. QED
      BY <2>1, <2>2, <2>7, <3>1, LimitTypes
  <2>10. ASSUME NEW x \in Held(more) PROVE more[x].stamp <= stamp[x]
    <3>1. CASE x = Turn
      BY <1>1, <2>3, <2>4, <2>5, <3>1 DEF DiskOK
    <3>2. CASE x # Turn
      <4>1. x \in Held(found) /\ more[x] = found[x]
        BY <2>3, <2>5, <2>8, <2>10, <3>2 DEF Held, Everything
      <4>2. QED
        BY <4>1 DEF FoundOK
    <3>3. QED
      BY <3>1, <3>2
  <2>11. FoundOK(more)
    BY <2>6, <2>9, <2>10 DEF FoundOK
  <2>12. QED
    BY <1>2, <1>4, <2>2, <2>11 DEF Visit
<1>5. QED
  BY <1>3, <1>4

LEMMA NothingFound ==
    Cardinality(Held(NoNames)) = 0 /\ Total(NoNames) = 0 /\ NoNames \in [Everything -> Infos \cup {None}]
    /\ Held(NoNames) = {}
<1>1. Held(NoNames) = {} /\ NoNames \in [Everything -> Infos \cup {None}]
  BY DEF Held, NoNames, Everything
<1>2. Total(NoNames) = 0
  BY <1>1, FS_EmptySet, SumZero DEF Total
<1>3. QED
  BY <1>1, <1>2, FS_EmptySet

LEMMA TypesInit == Init => TypeInv
<1> SUFFICES ASSUME Init PROVE TypeInv
  OBVIOUS
<1>1. DiskOK
  <2>1. DOMAIN dir = Names /\ \A n \in Names : dir[n] \in Contents[n] \cup {None}
    BY LangfuseAssumption DEF Init
  <2>2. stamp = [x \in Everything |-> 0] /\ changes = 0
    BY DEF Init, Everything
  <2>3. QED
    BY <2>1, <2>2, LimitTypes DEF DiskOK
<1>2. FoundOK(names) /\ FoundOK(after)
  <2>1. names = NoNames /\ after = NoNames
    BY DEF Init
  <2>2. FoundOK(NoNames)
    BY NothingFound, LimitTypes DEF FoundOK
  <2>3. QED
    BY <2>1, <2>2
<1>3. RunsOK
  BY DEF Init, RunsOK, ReadRuns
<1>4. PhaseOK /\ OpenOK
  BY NameFacts DEF Init, PhaseOK, OpenOK, Reading
<1>5. GotOK
  BY LimitTypes DEF Init, GotOK
<1>6. RowsOK
  <2>1. KeptCost({}) = 0
    <3>1. {r \in {} : r.kind = "GENERATION"} = {}
      OBVIOUS
    <3>2. QED
      BY <3>1, FS_EmptySet, SumZero DEF KeptCost
  <2>2. QED
    BY <2>1, FS_EmptySet, LimitTypes DEF Init, RowsOK
<1>7. WindowsOK
  BY FS_EmptySet DEF Init, WindowsOK, KnownProjects
<1>8. cov \in CovTypes
  BY DEF Init, CovTypes
<1>9. QED
  BY <1>1, <1>2, <1>3, <1>4, <1>5, <1>6, <1>7, <1>8 DEF TypeInv

\* Reading the directory changes nothing in it.
LEMMA LoadKeepsDisk == Load => UNCHANGED diskVars
<1>1. Abort => UNCHANGED diskVars
  BY DEF Abort
<1>2. Inventory1 \/ Inventory2 => UNCHANGED diskVars
  BY <1>1 DEF Inventory1, Inventory2
<1>3. BeginManifests \/ ReadManifest \/ EndManifests => UNCHANGED diskVars
  BY <1>1 DEF BeginManifests, ReadManifest, EndManifests
<1>4. OpenListed => UNCHANGED diskVars
  BY <1>1 DEF OpenListed
<1>5. ReadRow \/ EndRead => UNCHANGED diskVars
  BY <1>1 DEF ReadRow, EndRead, Discard
<1>6. EndRun \/ BeginRecheck \/ EndLoad \/ Investigate => UNCHANGED diskVars
  BY <1>1 DEF EndRun, BeginRecheck, EndLoad, Investigate
<1>7. QED
  BY <1>2, <1>3, <1>4, <1>5, <1>6 DEF Load

LEMMA AbortKeepsTypes ==
    ASSUME TypeInv, Abort
    PROVE  TypeInv'
<1>1. /\ UNCHANGED <<diskVars, todo, names, after, runs, j, gone, got, sumVars, shown, atEnd>> /\ pc' = "error"
  BY DEF Abort
<1>2. DiskOK' /\ FoundOK(names)' /\ FoundOK(after)'
  BY <1>1 DEF TypeInv, DiskOK, FoundOK, diskVars, Held, Total
<1>3. RunsOK' /\ RowsOK' /\ WindowsOK' /\ cov' \in CovTypes
  BY <1>1 DEF TypeInv, RunsOK, ReadRuns, RowsOK, KeptCost, WindowsOK, KnownProjects, sumVars
<1>4. PhaseOK' /\ OpenOK'
  BY <1>1 DEF TypeInv, PhaseOK, OpenOK, Reading
<1>5. GotOK'
  BY <1>1 DEF TypeInv, GotOK
<1>6. QED
  BY <1>2, <1>3, <1>4, <1>5 DEF TypeInv

\* What a step that leaves the directory and the two inventories keeps.
LEMMA SameInventories ==
    ASSUME TypeInv, UNCHANGED <<diskVars, names, after, runs>>
    PROVE  DiskOK' /\ FoundOK(names)' /\ FoundOK(after)' /\ RunsOK'
  BY DEF TypeInv, DiskOK, FoundOK, diskVars, Held, Total, RunsOK, ReadRuns

LEMMA SameSums ==
    ASSUME TypeInv
    PROVE  /\ UNCHANGED <<rows, listed, whole>> => RowsOK'
           /\ UNCHANGED windows => WindowsOK'
  BY DEF TypeInv, RowsOK, KeptCost, WindowsOK, KnownProjects

LEMMA TypesInventory1 == TypeInv /\ Inventory1 => TypeInv'
<1> SUFFICES ASSUME TypeInv, Inventory1, ~Abort PROVE TypeInv'
  BY AbortKeepsTypes
<1>1. /\ ~WalkFails(names) /\ names' = Visit(names).names /\ todo' = Visit(names).todo /\ todo # {}
      /\ UNCHANGED <<diskVars, pc, after, runs, j, gone, got, sumVars, shown, atEnd>> /\ pc = "inv1"
  BY DEF Inventory1
<1>2. DiskOK /\ FoundOK(names) /\ todo \subseteq Everything
  BY DEF TypeInv, PhaseOK
<1>3. PICK more : more = Visit(names).names /\ FoundOK(more)
  BY <1>1, <1>2, VisitTypes
<1>4. FoundOK(names)'
  BY <1>1, <1>3 DEF FoundOK, diskVars, Held, Total
<1>5. todo' \subseteq Everything
  BY <1>1, <1>2, VisitTypes
<1>6. DiskOK' /\ FoundOK(after)' /\ RunsOK'
  BY <1>1 DEF TypeInv, DiskOK, FoundOK, diskVars, Held, Total, RunsOK, ReadRuns
<1>7. RowsOK' /\ WindowsOK' /\ cov' \in CovTypes
  BY <1>1, SameSums DEF sumVars, TypeInv
<1>8. PhaseOK' /\ OpenOK' /\ GotOK'
  BY <1>1, <1>5 DEF TypeInv, PhaseOK, OpenOK, Reading, GotOK
<1>9. QED
  BY <1>4, <1>6, <1>7, <1>8 DEF TypeInv

LEMMA TypesInventory2 == TypeInv /\ Inventory2 => TypeInv'
<1> SUFFICES ASSUME TypeInv, Inventory2, ~Abort PROVE TypeInv'
  BY AbortKeepsTypes
<1>1. /\ ~WalkFails(after) /\ after' = Visit(after).names /\ todo' = Visit(after).todo /\ todo # {}
      /\ UNCHANGED <<diskVars, pc, names, runs, j, gone, got, sumVars, shown, atEnd>> /\ pc = "inv2"
  BY DEF Inventory2
<1>2. DiskOK /\ FoundOK(after) /\ todo \subseteq Everything
  BY DEF TypeInv, PhaseOK
<1>3. PICK more : more = Visit(after).names /\ FoundOK(more)
  BY <1>1, <1>2, VisitTypes
<1>4. FoundOK(after)'
  BY <1>1, <1>3 DEF FoundOK, diskVars, Held, Total
<1>5. todo' \subseteq Everything
  BY <1>1, <1>2, VisitTypes
<1>6. DiskOK' /\ FoundOK(names)' /\ RunsOK'
  BY <1>1 DEF TypeInv, DiskOK, FoundOK, diskVars, Held, Total, RunsOK, ReadRuns
<1>7. RowsOK' /\ WindowsOK' /\ cov' \in CovTypes
  BY <1>1, SameSums DEF sumVars, TypeInv
<1>8. PhaseOK' /\ OpenOK' /\ GotOK'
  BY <1>1, <1>5 DEF TypeInv, PhaseOK, OpenOK, Reading, GotOK
<1>9. QED
  BY <1>4, <1>6, <1>7, <1>8 DEF TypeInv

LEMMA TypesManifests == TypeInv /\ (BeginManifests \/ ReadManifest \/ EndManifests) => TypeInv'
<1> SUFFICES ASSUME TypeInv, BeginManifests \/ ReadManifest \/ EndManifests, ~Abort PROVE TypeInv'
  BY AbortKeepsTypes
<1>1. UNCHANGED <<diskVars, names, after, j, gone, got, sumVars, shown, atEnd>>
  BY DEF BeginManifests, ReadManifest, EndManifests
<1>2. RowsOK' /\ WindowsOK' /\ cov' \in CovTypes
  BY <1>1, SameSums DEF sumVars, TypeInv
<1>3. DiskOK' /\ FoundOK(names)' /\ FoundOK(after)'
  BY <1>1 DEF TypeInv, DiskOK, FoundOK, diskVars, Held, Total
<1>4. CASE BeginManifests
  <2>1. pc = "inv1" /\ pc' = "manifests" /\ todo' = ManifestNames \cap Held(names) /\ runs' = runs
    BY <1>4 DEF BeginManifests
  <2>2. PhaseOK' /\ OpenOK' /\ GotOK' /\ RunsOK'
    BY <1>1, <2>1 DEF TypeInv, PhaseOK, OpenOK, Reading, GotOK, RunsOK, ReadRuns, Held, Everything
  <2>3. QED
    BY <1>2, <1>3, <2>2 DEF TypeInv
<1>5. CASE ReadManifest
  <2>1. /\ pc = "manifests" /\ todo # {} /\ dir[Turn] # None /\ WellFormed(dir[Turn])
        /\ runs' = [runs EXCEPT ![Turn] = dir[Turn]] /\ todo' = todo \ {Turn} /\ pc' = pc
    BY <1>5 DEF ReadManifest
  <2>2. Turn \in ManifestNames
    BY <2>1, TurnIsOne DEF TypeInv, PhaseOK
  <2>3. PICK m \in ManifestFields : m = dir[Turn] /\ WellFormed(m)
    <3>1. Turn \in Names /\ DiskOK
      BY <2>2 DEF Names, TypeInv
    <3>2. dir[Turn] \in ManifestFields \cup {Torn}
      BY <2>1, <2>2, <3>1, ContentOf
    <3>3. dir[Turn] # Torn
      BY <2>1 DEF WellFormed
    <3>4. QED
      BY <2>1, <3>2, <3>3
  <2>4. RunsOK'
    <3>1. runs \in [ManifestNames -> ManifestFields \cup {None}] /\ \A n \in ReadRuns : WellFormed(runs[n])
      BY DEF TypeInv, RunsOK
    <3>2. runs' = [runs EXCEPT ![Turn] = m]
      BY <2>1, <2>3
    <3>3. \A n \in ManifestNames : runs'[n] = (IF n = Turn THEN m ELSE runs[n])
      BY <3>1, <3>2
    <3>4. \A n \in ManifestNames : runs'[n] # None => WellFormed(runs'[n])
      BY <2>3, <3>1, <3>3 DEF ReadRuns
    <3>5. QED
      BY <3>1, <3>2, <3>4, <2>3 DEF RunsOK, ReadRuns
  <2>5. PhaseOK' /\ OpenOK' /\ GotOK'
    BY <1>1, <2>1 DEF TypeInv, PhaseOK, OpenOK, Reading, GotOK
  <2>6. QED
    BY <1>2, <1>3, <2>4, <2>5 DEF TypeInv
<1>6. CASE EndManifests
  <2>1. pc = "manifests" /\ pc' = "files" /\ todo' = ReadRuns /\ runs' = runs
    BY <1>6 DEF EndManifests
  <2>2. PhaseOK'
    <3>1. ReadRuns' = ReadRuns /\ ReadRuns \subseteq Everything /\ j' = 1
      BY <1>1, <2>1 DEF TypeInv, PhaseOK, ReadRuns, Everything, Names
    <3>2. pc' = "files" /\ todo' # {} => j' <= Len(Run.files)' + 1
      <4>1. ASSUME todo' # {} PROVE Len(Run.files)' \in Nat
        <5>1. Earliest(todo') \in todo'
          BY <2>1, <3>1, <4>1, EarliestIsOne
        <5>2. runs[Earliest(todo')] \in ManifestFields
          BY <2>1, <5>1 DEF TypeInv, RunsOK, ReadRuns
        <5>3. Len(runs[Earliest(todo')].files) \in Nat
          BY <5>2 DEF ManifestFields
        <5>4. QED
          BY <2>1, <5>3 DEF Run, Turn
      <4>2. QED
        BY <3>1, <4>1
    <3>3. QED
      BY <2>1, <3>1, <3>2 DEF PhaseOK, Reading
  <2>3. OpenOK' /\ GotOK' /\ RunsOK'
    BY <1>1, <2>1 DEF TypeInv, OpenOK, GotOK, RunsOK, ReadRuns
  <2>4. QED
    BY <1>2, <1>3, <2>2, <2>3 DEF TypeInv
<1>7. QED
  BY <1>4, <1>5, <1>6

\* The run and the file being read.
LEMMA RunFacts ==
    ASSUME TypeInv, Reading, todo # {}
    PROVE  /\ Turn \in todo /\ Turn \in ManifestNames /\ runs[Turn] = Run /\ Run \in ManifestFields /\ WellFormed(Run)
           /\ Run.files \in Seq(FileFields) /\ Len(Run.files) \in Nat
           /\ j <= Len(Run.files) => j \in DOMAIN Run.files /\ File \in FileFields
<1>1. Turn \in todo /\ Turn \in ReadRuns /\ j \in Nat \ {0}
  BY TurnIsOne DEF TypeInv, PhaseOK
<1>2. Turn \in ManifestNames /\ Run = runs[Turn] /\ Run # None
  BY <1>1 DEF ReadRuns, Run
<1>3. Run \in ManifestFields /\ WellFormed(Run)
  BY <1>1, <1>2 DEF TypeInv, RunsOK
<1>4. PICK files : files = Run.files
  OBVIOUS
<1>5. files \in Seq(FileFields)
  BY <1>3, <1>4 DEF ManifestFields
<1>6. j <= Len(files) => j \in DOMAIN files /\ files[j] \in FileFields
  BY <1>1, <1>5
<1>7. QED
  BY <1>1, <1>2, <1>3, <1>4, <1>5, <1>6 DEF File

LEMMA CountTypes ==
    ASSUME NEW c \in CovTypes
    PROVE  /\ Count(c, "files") \in CovTypes /\ Count(c, "missing") \in CovTypes /\ Count(c, "partial") \in CovTypes
           /\ Count(c, "files") = [c EXCEPT !.files = c.files + 1]
           /\ Count(c, "missing") = [c EXCEPT !.missing = c.missing + 1]
           /\ Count(c, "partial") = [c EXCEPT !.partial = c.partial + 1]
<1>1. /\ Count(c, "files") = [c EXCEPT !.files = c.files + 1]
      /\ Count(c, "missing") = [c EXCEPT !.missing = c.missing + 1]
      /\ Count(c, "partial") = [c EXCEPT !.partial = c.partial + 1]
  BY DEF Count
<1>2. c.files + 1 \in Nat /\ c.missing + 1 \in Nat /\ c.partial + 1 \in Nat
  BY DEF CovTypes
<1>3. [c EXCEPT !.files = c.files + 1] \in CovTypes
  BY <1>2 DEF CovTypes
<1>4. [c EXCEPT !.missing = c.missing + 1] \in CovTypes
  BY <1>2 DEF CovTypes
<1>5. [c EXCEPT !.partial = c.partial + 1] \in CovTypes
  BY <1>2 DEF CovTypes
<1>6. QED
  BY <1>1, <1>3, <1>4, <1>5

\* The three ways to take up a listed file.
LEMMA OpenCases ==
    ASSUME OpenListed, ~Abort
    PROVE  /\ pc = "files" /\ todo # {} /\ j <= Len(Run.files) /\ File.path # Elsewhere
           /\ UNCHANGED <<diskVars, todo, names, after, runs, gone, got, rows, windows, shown, atEnd>>
           /\ listed' = listed \cup {File.path}
           /\ \/ /\ names[File.path] = None /\ whole' = FALSE /\ j' = j + 1 /\ pc' = pc
                 /\ cov' = Count(Count(cov, "files"), "missing")
              \/ /\ names[File.path] # None /\ names[File.path].size # File.size
                 /\ whole' = FALSE /\ j' = j + 1 /\ pc' = pc
                 /\ cov' = Count(Count(cov, "files"), "partial")
              \/ /\ names[File.path] # None /\ names[File.path].size = File.size /\ Opens(File.path)
                 /\ pc' = "read" /\ cov' = Count(cov, "files") /\ UNCHANGED <<j, whole>>
  BY DEF OpenListed

LEMMA TypesOpenListed == TypeInv /\ OpenListed => TypeInv'
<1> SUFFICES ASSUME TypeInv, OpenListed, ~Abort PROVE TypeInv'
  BY AbortKeepsTypes
<1>1. /\ UNCHANGED <<diskVars, todo, names, after, runs, gone, got, rows, windows, shown, atEnd>>
      /\ pc = "files" /\ todo # {} /\ j <= Len(Run.files) /\ File.path # Elsewhere
      /\ listed' = listed \cup {File.path}
      /\ \/ j' = j + 1 /\ pc' = pc /\ whole' = FALSE
         \/ j' = j /\ pc' = "read" /\ Opens(File.path) /\ whole' = whole
  BY OpenCases
<1>2. Reading /\ Reading' /\ Turn' = Turn /\ Run' = Run
  BY <1>1 DEF Reading, Turn, Run
<1>3. /\ Turn \in todo /\ Run \in ManifestFields /\ Len(Run.files) \in Nat /\ File \in FileFields
  BY <1>1, <1>2, RunFacts
<1>4. File.path \in DataNames
  BY <1>1, <1>3 DEF FileFields
<1>5. DiskOK' /\ FoundOK(names)' /\ FoundOK(after)' /\ RunsOK' /\ WindowsOK'
  BY <1>1, SameInventories, SameSums
<1>6. RowsOK'
  BY <1>1, <1>4 DEF TypeInv, RowsOK, KeptCost
<1>7. cov' \in CovTypes
  <2>1. cov \in CovTypes
    BY DEF TypeInv
  <2>2. PICK seen \in CovTypes : seen = Count(cov, "files")
    BY <2>1, CountTypes
  <2>3. Count(seen, "missing") \in CovTypes /\ Count(seen, "partial") \in CovTypes
    BY CountTypes
  <2>4. QED
    BY <2>2, <2>3, OpenCases
<1>8. PhaseOK'
  <2>1. ReadRuns' = ReadRuns
    BY <1>1 DEF ReadRuns
  <2>2. j \in Nat \ {0} /\ todo \subseteq Everything /\ todo \subseteq ReadRuns
    BY <1>2 DEF TypeInv, PhaseOK
  <2>3. QED
    BY <1>1, <1>2, <1>3, <2>1, <2>2 DEF PhaseOK, Reading
<1>9. OpenOK'
  <2>1. gone = None /\ got = <<>>
    BY <1>1 DEF TypeInv, OpenOK
  <2>2. pc' = "read" => File' = File /\ j' = j /\ dir[File.path] # None
    BY <1>1, <1>2 DEF File, Opens
  <2>3. QED
    BY <1>1, <1>2, <1>3, <1>4, <2>1, <2>2 DEF OpenOK, diskVars
<1>10. GotOK'
  <2>1. got' = <<>>
    BY <1>1 DEF TypeInv, OpenOK
  <2>2. Tokens(<<>>) = 0 /\ Cost(<<>>) = 0
    <3>1. Generations(<<>>) = {}
      BY DEF Generations
    <3>2. QED
      BY <3>1, FS_EmptySet, SumZero DEF Tokens, Cost
  <2>3. Tokens(got)' = 0 /\ Cost(got)' = 0
    BY <2>1, <2>2 DEF Tokens, Cost, Generations
  <2>4. got' \in Seq(RowFields) /\ Len(got') = 0
    BY <2>1
  <2>5. QED
    BY <2>3, <2>4, LimitTypes DEF GotOK
<1>11. QED
  BY <1>5, <1>6, <1>7, <1>8, <1>9, <1>10 DEF TypeInv

\* What an open file may hold.
LEMMA OpenedType ==
    ASSUME TypeInv, pc = "read"
    PROVE  /\ Opened \in Seq(RowFields \cup {Torn}) /\ todo # {} /\ j <= Len(Run.files)
           /\ File \in FileFields /\ File.path \in DataNames /\ Turn \in todo /\ Len(Run.files) \in Nat
<1>1. todo # {} /\ j <= Len(Run.files) /\ File.path \in DataNames /\ (gone = None => dir[File.path] # None)
  BY DEF TypeInv, OpenOK
<1>2. File \in FileFields /\ Turn \in todo /\ Len(Run.files) \in Nat
  BY <1>1, RunFacts DEF Reading
<1>3. PICK n \in DataNames : n = File.path
  BY <1>1
<1>4. CASE gone = None
  <2>1. n \in Names /\ dir[n] # None /\ DiskOK
    BY <1>1, <1>3, <1>4 DEF Names, TypeInv
  <2>2. dir[n] \in Seq(RowFields \cup {Torn})
    BY <1>3, <2>1, ContentOf
  <2>3. Opened = dir[n]
    BY <1>3, <1>4 DEF Opened
  <2>4. QED
    BY <1>1, <1>2, <2>2, <2>3
<1>5. CASE gone # None
  <2>1. Opened = gone /\ gone \in Seq(RowFields \cup {Torn})
    BY <1>5 DEF Opened, TypeInv, OpenOK
  <2>2. QED
    BY <1>1, <1>2, <2>1
<1>6. QED
  BY <1>4, <1>5

LEMMA TokensType ==
    ASSUME NEW s \in Seq(RowFields)
    PROVE  Tokens(s) \in Nat /\ Cost(s) \in Nat
<1>1. IsFiniteSet(Generations(s)) /\ Generations(s) \subseteq DOMAIN s
  BY IndexSetsFinite DEF Generations
<1>2. PICK f, g : f = [i \in DOMAIN s |-> s[i].tokens] /\ g = [i \in DOMAIN s |-> s[i].cost]
  OBVIOUS
<1>3. ASSUME NEW i \in Generations(s) PROVE f[i] \in Nat /\ g[i] \in Nat
  <2>1. s[i] \in RowFields /\ i \in DOMAIN s
    BY <1>1, <1>3
  <2>2. f[i] = s[i].tokens /\ g[i] = s[i].cost
    BY <1>2, <2>1
  <2>3. QED
    BY <2>1, <2>2 DEF RowFields
<1>4. SumFunctionOnSet(f, Generations(s)) \in Nat /\ SumFunctionOnSet(g, Generations(s)) \in Nat
  BY <1>1, <1>3, SumType
<1>5. QED
  BY <1>2, <1>4 DEF Tokens, Cost

LEMMA KeptCostType ==
    ASSUME NEW rs, IsFiniteSet(rs), rs \subseteq RowFields
    PROVE  KeptCost(rs) \in Nat
<1>1. PICK G : G = {r \in rs : r.kind = "GENERATION"}
  OBVIOUS
<1>2. IsFiniteSet(G) /\ G \subseteq rs
  BY <1>1, FS_Subset
<1>3. PICK f : f = [r \in rs |-> r.cost]
  OBVIOUS
<1>4. \A r \in G : f[r] \in Nat
  BY <1>2, <1>3 DEF RowFields
<1>5. SumFunctionOnSet(f, G) \in Nat
  BY <1>2, <1>4, SumType
<1>6. QED
  BY <1>1, <1>3, <1>5 DEF KeptCost

\* Closing a file, sound or not.
LEMMA CloseTypes ==
    ASSUME TypeInv, pc = "read", Close, UNCHANGED <<diskVars, todo, names, after, runs>>
    PROVE  DiskOK' /\ FoundOK(names)' /\ FoundOK(after)' /\ RunsOK' /\ PhaseOK' /\ OpenOK' /\ GotOK'
<1>1. gone' = None /\ got' = <<>> /\ j' = j + 1 /\ pc' = "files"
  BY DEF Close
<1>2. Turn' = Turn /\ Run' = Run /\ ReadRuns' = ReadRuns /\ Reading
  BY DEF Turn, Run, ReadRuns, Reading
<1>3. j <= Len(Run.files) /\ Len(Run.files) \in Nat /\ todo # {}
  BY OpenedType
<1>4. DiskOK' /\ FoundOK(names)' /\ FoundOK(after)' /\ RunsOK'
  BY SameInventories
<1>5. PhaseOK'
  <2>1. j \in Nat \ {0} /\ todo \subseteq Everything /\ todo \subseteq ReadRuns
    BY <1>2 DEF TypeInv, PhaseOK
  <2>2. QED
    BY <1>1, <1>2, <1>3, <2>1 DEF PhaseOK, Reading
<1>6. OpenOK' /\ GotOK'
  BY <1>1, LimitTypes DEF OpenOK, GotOK
<1>7. QED
  BY <1>4, <1>5, <1>6

LEMMA TypesDiscard == TypeInv /\ pc = "read" /\ Discard => TypeInv'
<1> SUFFICES ASSUME TypeInv, pc = "read", Discard PROVE TypeInv'
  OBVIOUS
<1>1. /\ Close /\ cov' = Count(cov, "partial") /\ whole' = FALSE
      /\ UNCHANGED <<diskVars, todo, names, after, runs, listed, rows, windows, shown, atEnd>>
  BY DEF Discard
<1>2. RowsOK' /\ WindowsOK'
  BY <1>1 DEF TypeInv, RowsOK, KeptCost, WindowsOK, KnownProjects
<1>3. cov' \in CovTypes
  BY <1>1, CountTypes DEF TypeInv
<1>4. QED
  BY <1>1, <1>2, <1>3, CloseTypes DEF TypeInv

LEMMA TypesReadRow == TypeInv /\ ReadRow => TypeInv'
<1> SUFFICES ASSUME TypeInv, ReadRow, ~Abort, ~Discard PROVE TypeInv'
  BY AbortKeepsTypes, TypesDiscard DEF ReadRow
<1>1. PICK row : row = Opened[Len(got) + 1]
  OBVIOUS
<1>2. /\ pc = "read" /\ Len(got) < Len(Opened) /\ ~Exceeds(row) /\ ~Unusable(row) /\ got' = Append(got, row)
      /\ UNCHANGED <<diskVars, pc, todo, names, after, runs, j, gone, sumVars, shown, atEnd>>
  BY <1>1 DEF ReadRow
<1>3. Turn' = Turn /\ Run' = Run /\ File' = File
  BY <1>2 DEF Turn, Run, File
<1>4. got \in Seq(RowFields) /\ Len(got) <= MaxRows /\ Opened \in Seq(RowFields \cup {Torn})
  BY <1>2, OpenedType DEF TypeInv, GotOK
<1>5. row \in RowFields
  <2>1. Len(got) + 1 \in DOMAIN Opened
    BY <1>2, <1>4
  <2>2. row \in RowFields \cup {Torn}
    BY <1>1, <1>4, <2>1
  <2>3. QED
    BY <1>2, <2>2 DEF Unusable
<1>6. PICK more \in Seq(RowFields) : more = got' /\ Len(more) = Len(got) + 1
  BY <1>2, <1>4, <1>5
<1>7. GotOK'
  <2>1. row # Torn
    BY <1>2 DEF Unusable
  <2>2. ~(Len(got) >= MaxRows)
    BY <1>2, <2>1 DEF Exceeds
  <2>3. Observations => ~(Tokens(more) > MaxCount) /\ ~(Cost(more) > MaxCost)
    BY <1>2, <1>6, <2>1 DEF Exceeds, Unusable, Observations
  <2>4. Tokens(more) \in Nat /\ Cost(more) \in Nat
    BY TokensType
  <2>5. Len(more) <= MaxRows /\ (Observations => Tokens(more) <= MaxCount /\ Cost(more) <= MaxCost)
    BY <1>4, <1>6, <2>2, <2>3, <2>4, LimitTypes
  <2>6. Tokens(got)' = Tokens(more) /\ Cost(got)' = Cost(more) /\ Observations' = Observations
    BY <1>3, <1>6 DEF Tokens, Cost, Generations, Observations
  <2>7. QED
    BY <1>6, <2>5, <2>6 DEF GotOK
<1>8. DiskOK' /\ FoundOK(names)' /\ FoundOK(after)' /\ RunsOK'
  BY <1>2, SameInventories
<1>9. RowsOK' /\ WindowsOK' /\ cov' \in CovTypes
  BY <1>2, SameSums DEF sumVars, TypeInv
<1>10. PhaseOK' /\ OpenOK'
  <2>1. ReadRuns' = ReadRuns /\ Reading' = Reading
    BY <1>2 DEF ReadRuns, Reading
  <2>2. QED
    BY <1>2, <1>3, <2>1 DEF TypeInv, PhaseOK, OpenOK, diskVars
<1>11. QED
  BY <1>7, <1>8, <1>9, <1>10 DEF TypeInv

\* The rows that a file adds are rows of the file, one of each new key.
LEMMA MergedTypes ==
    ASSUME rows \subseteq RowFields, IsFiniteSet(rows), got \in Seq(RowFields)
    PROVE  /\ Merged \subseteq RowFields /\ IsFiniteSet(Merged) /\ rows \subseteq Merged
           /\ \A r \in Merged : r \in rows \/ r \in ToSet(got)
<1> DEFINE new == {i \in DOMAIN got : /\ \A r \in rows : Key(r) # Key(got[i])
                                      /\ \A h \in 1..(i - 1) : Key(got[h]) # Key(got[i])}
           fresh == {got[i] : i \in new}
<1>1. Merged = rows \cup fresh
  BY DEF Merged
<1>2. new \in SUBSET DOMAIN got
  OBVIOUS
<1>3. IsFiniteSet(new)
  BY <1>2, IndexSetsFinite
<1>4. IsFiniteSet(fresh)
  <2> HIDE DEF new
  <2>1. QED
    BY <1>3, ImageFinite
<1>5. \A r \in fresh : r \in ToSet(got) /\ r \in RowFields
  BY <1>2 DEF ToSet
<1>6. IsFiniteSet(Merged)
  BY <1>1, <1>4, FS_Union
<1>7. QED
  BY <1>1, <1>5, <1>6

LEMMA TypesEndRead == TypeInv /\ EndRead => TypeInv'
<1> SUFFICES ASSUME TypeInv, EndRead, ~Abort, ~Discard PROVE TypeInv'
  BY AbortKeepsTypes, TypesDiscard DEF EndRead
<1>1. /\ pc = "read" /\ ~(Observations /\ Refused) /\ Close /\ rows' = (IF Observations THEN Merged ELSE rows)
      /\ cov' = Verified(Cardinality(rows') - Cardinality(rows))
      /\ UNCHANGED <<diskVars, todo, names, after, runs, whole, listed, windows, shown, atEnd>>
  BY DEF EndRead
<1>2. rows \subseteq RowFields /\ IsFiniteSet(rows) /\ got \in Seq(RowFields) /\ cov \in CovTypes
  BY DEF TypeInv, RowsOK, GotOK
<1>3. PICK kept : kept = rows'
  OBVIOUS
<1>4. kept \subseteq RowFields /\ IsFiniteSet(kept) /\ Cardinality(kept) <= MaxRows /\ KeptCost(kept) <= MaxCost
  <2>1. CASE Observations
    <3>1. kept = Merged /\ ~(Cardinality(Merged) > MaxRows) /\ ~(KeptCost(Merged) > MaxCost)
      BY <1>1, <1>3, <2>1 DEF Refused
    <3>2. kept \subseteq RowFields /\ IsFiniteSet(kept)
      BY <1>2, <3>1, MergedTypes
    <3>3. Cardinality(kept) \in Nat /\ KeptCost(kept) \in Nat
      BY <3>2, FS_CardinalityType, KeptCostType
    <3>4. QED
      BY <3>1, <3>2, <3>3, LimitTypes
  <2>2. CASE ~Observations
    BY <1>1, <1>3, <2>2 DEF TypeInv, RowsOK
  <2>3. QED
    BY <2>1, <2>2
<1>5. RowsOK'
  <2>1. KeptCost(rows)' = KeptCost(kept)
    BY <1>3 DEF KeptCost
  <2>2. QED
    BY <1>1, <1>3, <1>4, <2>1 DEF RowsOK, TypeInv
<1>6. cov' \in CovTypes
  <2>1. PICK fresh \in Int : fresh = Cardinality(kept) - Cardinality(rows)
    BY <1>2, <1>4, FS_CardinalityType
  <2>2. PICK n \in Nat : n = IF Observations THEN Len(got) ELSE 0
    BY <1>2
  <2>3. cov' = [cov EXCEPT !.verified = cov.verified + 1, !.physical = cov.physical + n,
                           !.duplicates = cov.duplicates + n - fresh]
    BY <1>1, <1>3, <2>1, <2>2 DEF Verified
  <2>4. cov.verified + 1 \in Nat /\ cov.physical + n \in Nat /\ cov.duplicates + n - fresh \in Int
    <3>1. cov.verified \in Nat /\ cov.physical \in Nat /\ cov.duplicates \in Int
      BY <1>2 DEF CovTypes
    <3>2. n \in Nat /\ fresh \in Int
      BY <2>1, <2>2
    <3>3. QED
      BY ONLY <3>1, <3>2
  <2>5. QED
    BY <1>2, <2>3, <2>4 DEF CovTypes
<1>7. WindowsOK'
  BY <1>1, SameSums
<1>8. QED
  BY <1>1, <1>5, <1>6, <1>7, CloseTypes DEF TypeInv

LEMMA TypesEndRun == TypeInv /\ EndRun => TypeInv'
<1> SUFFICES ASSUME TypeInv, EndRun PROVE TypeInv'
  OBVIOUS
<1>1. /\ pc = "files" /\ todo # {} /\ j > Len(Run.files) /\ windows' = WindowsAfter
      /\ cov' = (IF HasObservations(Run) THEN cov ELSE Count(cov, "missing"))
      /\ todo' = todo \ {Turn} /\ j' = 1 /\ whole' = TRUE
      /\ UNCHANGED <<diskVars, pc, names, after, runs, gone, got, listed, rows, shown, atEnd>>
  BY DEF EndRun
<1>2. DiskOK' /\ FoundOK(names)' /\ FoundOK(after)' /\ RunsOK'
  BY <1>1, SameInventories
<1>3. RowsOK' /\ cov' \in CovTypes
  BY <1>1, CountTypes DEF TypeInv, RowsOK, KeptCost
<1>4. OpenOK' /\ GotOK'
  BY <1>1 DEF TypeInv, OpenOK, GotOK
<1>5. PhaseOK'
  <2>1. Reading /\ Reading' /\ ReadRuns' = ReadRuns
    BY <1>1 DEF Reading, ReadRuns
  <2>2. todo' \subseteq Everything /\ todo' \subseteq ReadRuns'
    BY <1>1, <2>1 DEF TypeInv, PhaseOK
  <2>3. ASSUME todo' # {} PROVE Len(Run.files)' \in Nat
    <3>1. Earliest(todo') \in todo'
      BY <2>2, <2>3, EarliestIsOne
    <3>2. runs[Earliest(todo')] \in ManifestFields
      BY <2>1, <2>2, <3>1 DEF TypeInv, RunsOK, ReadRuns
    <3>3. Len(runs[Earliest(todo')].files) \in Nat
      BY <3>2 DEF ManifestFields
    <3>4. QED
      BY <1>1, <3>3 DEF Run, Turn
  <2>4. QED
    BY <1>1, <2>1, <2>2, <2>3 DEF PhaseOK, Reading
<1>6. WindowsOK'
  <2>1. Run \in ManifestFields
    BY <1>1, RunFacts DEF Reading
  <2>2. Run.project \in Projects /\ [start |-> Run.start, end |-> Run.end] \in [start: Nat, end: Nat]
    BY <2>1 DEF ManifestFields
  <2>3. KnownProjects' = KnownProjects \cup {Run.project}
    BY <1>1 DEF KnownProjects, WindowsAfter
  <2>4. IsFiniteSet(KnownProjects') /\ KnownProjects' \subseteq Projects
    BY <2>2, <2>3, FS_AddElement DEF TypeInv, WindowsOK
  <2>5. ASSUME NEW p \in KnownProjects'
        PROVE  windows'[p] \subseteq [start: Nat, end: Nat] /\ IsFiniteSet(windows'[p])
    <3>1. PICK ws : ws = WindowsOf(p)
      OBVIOUS
    <3>2. ws \subseteq [start: Nat, end: Nat] /\ IsFiniteSet(ws)
      BY <3>1, FS_EmptySet DEF WindowsOf, TypeInv, WindowsOK
    <3>3. PICK w \in [start: Nat, end: Nat] : w = [start |-> Run.start, end |-> Run.end]
      BY <2>2
    <3>4. windows'[p] = ws \/ windows'[p] = ws \cup {w}
      BY <1>1, <2>3, <2>5, <3>1, <3>3 DEF WindowsAfter
    <3>5. IsFiniteSet(ws \cup {w}) /\ ws \cup {w} \subseteq [start: Nat, end: Nat]
      BY <3>2, <3>3, FS_AddElement
    <3>6. QED
      BY <3>2, <3>4, <3>5
  <2>6. QED
    BY <2>4, <2>5 DEF WindowsOK
<1>7. QED
  BY <1>2, <1>3, <1>4, <1>5, <1>6 DEF TypeInv

LEMMA GapsType == WindowsOK => Gaps \in Nat
<1> SUFFICES ASSUME WindowsOK PROVE Gaps \in Nat
  OBVIOUS
<1> DEFINE gaps == [p \in KnownProjects |-> GapsIn(windows[p])]
<1>1. ASSUME NEW p \in KnownProjects PROVE gaps[p] \in Nat
  <2>1. PICK ws : ws = windows[p] /\ IsFiniteSet(ws)
    BY <1>1 DEF WindowsOK
  <2>2. IsFiniteSet({w.start : w \in ws})
    <3> DEFINE start == [w \in ws |-> w.start]
    <3>1. {start[w] : w \in ws} = {w.start : w \in ws}
      OBVIOUS
    <3>2. IsFiniteSet({start[w] : w \in ws})
      <4> HIDE DEF start
      <4>1. QED
        BY <2>1, ImageFinite
    <3>3. QED
      BY <3>1, <3>2
  <2>3. GapsIn(ws) \in Nat
    BY <2>2, FS_Subset, FS_CardinalityType DEF GapsIn
  <2>4. QED
    BY <2>1, <2>3, <1>1
<1>2. IsFiniteSet(KnownProjects)
  BY DEF WindowsOK
<1>3. SumFunctionOnSet(gaps, KnownProjects) \in Nat
  <2> HIDE DEF gaps
  <2>1. QED
    BY <1>1, <1>2, SumType
<1>4. QED
  BY <1>3 DEF Gaps

\* The steps that only close the account and report.
LEMMA TypesReport == TypeInv /\ (BeginRecheck \/ EndLoad \/ Investigate) => TypeInv'
<1> SUFFICES ASSUME TypeInv, BeginRecheck \/ EndLoad \/ Investigate, ~Abort PROVE TypeInv'
  BY AbortKeepsTypes
<1>1. UNCHANGED <<diskVars, names, after, runs, j, gone, got, whole, listed, rows, windows>>
  BY DEF BeginRecheck, EndLoad, Investigate
<1>2. DiskOK' /\ FoundOK(names)' /\ FoundOK(after)' /\ RunsOK' /\ RowsOK' /\ WindowsOK'
  BY <1>1, SameInventories, SameSums
<1>3. cov \in CovTypes /\ Gaps \in Nat
  BY GapsType DEF TypeInv
<1>4. /\ pc \in {"files", "inv2", "loaded"} /\ pc' \in {"inv2", "loaded", "reported"}
      /\ todo' = Dirs \/ todo' = todo
  BY DEF BeginRecheck, EndLoad, Investigate
<1>5. PhaseOK' /\ OpenOK' /\ GotOK'
  BY <1>1, <1>4, NameFacts DEF TypeInv, PhaseOK, OpenOK, GotOK, Reading
<1>6. cov' \in CovTypes
  <2>1. CASE BeginRecheck
    <3>1. PICK n \in Nat : n = Cardinality((DataNames \cap Held(names)) \ listed)
      BY NamesFinite, FS_Subset, FS_CardinalityType
    <3>2. cov' = [cov EXCEPT !.extra = n]
      BY <2>1, <3>1 DEF BeginRecheck
    <3>3. QED
      BY <1>3, <3>1, <3>2 DEF CovTypes
  <2>2. CASE EndLoad
    <3>1. PICK b \in BOOLEAN : b = (cov.missing + cov.partial + cov.extra + Gaps > 0)
      <4>1. (cov.missing + cov.partial + cov.extra + Gaps > 0) \in BOOLEAN
        OBVIOUS
      <4>2. QED
        BY <4>1, Zenon
    <3>2. PICK g \in Nat : g = Gaps
      BY <1>3
    <3>3. cov' = [cov EXCEPT !.gaps = g, !.incomplete = b]
      BY <2>2, <3>1, <3>2 DEF EndLoad
    <3>4. QED
      BY <1>3, <3>1, <3>2, <3>3 DEF CovTypes
  <2>3. CASE Investigate
    <3>1. PICK open, b : /\ cov' = [cov EXCEPT !.uncovered = Cardinality(open), !.incomplete = b]
                         /\ open \subseteq KnownProjects \X {1, 2} /\ b = (cov.incomplete \/ open # {})
      BY <2>3 DEF Investigate
    <3>2. IsFiniteSet(KnownProjects \X {1, 2})
      <4>1. IsFiniteSet(KnownProjects) /\ IsFiniteSet({1, 2})
        <5>1. 1 # 2
          OBVIOUS
        <5>2. IsFiniteSet({1, 2})
          BY <5>1, TwoFinite, Zenon
        <5>3. IsFiniteSet(KnownProjects)
          BY DEF TypeInv, WindowsOK
        <5>4. QED
          BY <5>2, <5>3
      <4>2. QED
        BY <4>1, FS_Product
    <3>3. PICK n \in Nat : n = Cardinality(open)
      BY <3>1, <3>2, FS_Subset, FS_CardinalityType
    <3>4. b \in BOOLEAN
      BY <1>3, <3>1 DEF CovTypes
    <3>5. cov' = [cov EXCEPT !.uncovered = n, !.incomplete = b]
      BY <3>1, <3>3
    <3>6. QED
      BY <1>3, <3>3, <3>4, <3>5 DEF CovTypes
  <2>4. QED
    BY <2>1, <2>2, <2>3
<1>7. QED
  BY <1>2, <1>5, <1>6 DEF TypeInv

\* What another program does: it touches names, the directory too when a name
\* comes, goes or gets a new file; a name that is not touched keeps its
\* content, and one whose directory is not touched stays there or away.
LEMMA WriterEffect ==
    ASSUME DiskOK, Writer
    PROVE  \E n \in Names, xs \in SUBSET Everything :
             /\ Running /\ changes < MaxWrites /\ changes' = changes + 1 /\ n \in xs
             /\ stamp' = [x \in Everything |-> IF x \in xs THEN changes + 1 ELSE stamp[x]]
             /\ \E c \in Contents[n] \cup {None} : dir' = [dir EXCEPT ![n] = c]
             /\ DirOf(n) \notin xs => dir[n] # None /\ dir'[n] # None
             /\ gone' # gone => pc = "read" /\ File.path = n /\ gone = None /\ gone' = dir[n]
             /\ pc = "read" /\ File.path = n /\ gone' = None => dir'[n] # None
             /\ UNCHANGED <<pc, todo, names, after, runs, j, got, sumVars, shown, atEnd>>
<1>1. PICK n \in Names : Rewrite(n) \/ Install(n) \/ Unlink(n)
  BY DEF Writer
<1>2. DirOf(n) \in Dirs /\ n \in Everything /\ DirOf(n) \in Everything /\ DirOf(n) # n
  BY NameFacts
<1>3. DOMAIN dir = Names
  BY DEF DiskOK
<1>4. CASE Rewrite(n)
  <2>1. PICK c \in Contents[n] : dir' = [dir EXCEPT ![n] = c]
    BY <1>4, LangfuseAssumption DEF Rewrite
  <2>2. dir'[n] = c /\ c # None
    BY <1>3, <2>1, ContentTypes
  <2>3. PICK xs \in SUBSET Everything : xs = {n}
    BY <1>2
  <2>4. stamp' = [x \in Everything |-> IF x \in xs THEN changes + 1 ELSE stamp[x]]
    BY <1>4, <2>3 DEF Rewrite, Touch, Everything
  <2>5. gone' = gone /\ dir[n] # None /\ n \in xs
    BY <1>4, <2>3 DEF Rewrite
  <2>6. QED
    BY <2>1, <2>2, <2>4, <2>5 DEF Writer
<1>5. CASE Install(n)
  <2>1. PICK c \in Contents[n] : dir' = [dir EXCEPT ![n] = c]
    BY <1>5, LangfuseAssumption DEF Install
  <2>2. dir'[n] = c /\ c # None
    BY <1>3, <2>1, ContentTypes
  <2>3. PICK xs \in SUBSET Everything : xs = {n, DirOf(n)}
    BY <1>2
  <2>4. stamp' = [x \in Everything |-> IF x \in xs THEN changes + 1 ELSE stamp[x]]
    BY <1>5, <2>3 DEF Install, Touch, Everything
  <2>5. gone' = (IF pc = "read" /\ File.path = n /\ gone = None THEN dir[n] ELSE gone) /\ n \in xs /\ DirOf(n) \in xs
    BY <1>5, <2>3 DEF Install, KeepOpen
  <2>6. QED
    BY <2>1, <2>2, <2>4, <2>5 DEF Writer
<1>6. CASE Unlink(n)
  <2>1. dir' = [dir EXCEPT ![n] = None]
    BY <1>6 DEF Unlink
  <2>2. dir'[n] = None
    BY <1>3, <2>1
  <2>3. PICK xs \in SUBSET Everything : xs = {n, DirOf(n)}
    BY <1>2
  <2>4. stamp' = [x \in Everything |-> IF x \in xs THEN changes + 1 ELSE stamp[x]]
    BY <1>6, <2>3 DEF Unlink, Touch, Everything
  <2>5. gone' = (IF pc = "read" /\ File.path = n /\ gone = None THEN dir[n] ELSE gone) /\ n \in xs /\ DirOf(n) \in xs
    BY <1>6, <2>3 DEF Unlink, KeepOpen
  <2>6. dir[n] # None /\ \E c \in Contents[n] \cup {None} : dir' = [dir EXCEPT ![n] = c]
    BY <1>6, <2>1 DEF Unlink
  <2>7. pc = "read" /\ File.path = n => gone' # None
    BY <2>5, <2>6
  <2>8. QED
    BY <2>4, <2>5, <2>6, <2>7 DEF Writer
<1>7. QED
  BY <1>1, <1>4, <1>5, <1>6

LEMMA TypesWriter == TypeInv /\ Writer => TypeInv'
<1> SUFFICES ASSUME TypeInv, Writer PROVE TypeInv'
  OBVIOUS
<1>1. DiskOK /\ MaxWrites \in Nat /\ changes \in Nat /\ stamp \in [Everything -> Nat]
  BY LimitTypes DEF TypeInv, DiskOK
<1>2. PICK n \in Names, xs \in SUBSET Everything :
             /\ Running /\ changes < MaxWrites /\ changes' = changes + 1 /\ n \in xs
             /\ stamp' = [x \in Everything |-> IF x \in xs THEN changes + 1 ELSE stamp[x]]
             /\ \E c \in Contents[n] \cup {None} : dir' = [dir EXCEPT ![n] = c]
             /\ gone' # gone => pc = "read" /\ File.path = n /\ gone = None /\ gone' = dir[n]
             /\ pc = "read" /\ File.path = n /\ gone' = None => dir'[n] # None
             /\ UNCHANGED <<pc, todo, names, after, runs, j, got, sumVars, shown, atEnd>>
  BY <1>1, WriterEffect
<1>3. PICK c \in Contents[n] \cup {None} : dir' = [dir EXCEPT ![n] = c]
  BY <1>2
<1>4. \A x \in Everything : stamp[x] <= changes
  BY DEF TypeInv, DiskOK
<1>5. \A x \in Everything : stamp'[x] \in Nat /\ stamp'[x] <= changes' /\ stamp[x] <= stamp'[x]
  BY <1>1, <1>2, <1>4
<1>6. DiskOK'
  <2>1. DOMAIN dir' = Names /\ \A m \in Names : dir'[m] = IF m = n THEN c ELSE dir[m]
    BY <1>1, <1>3 DEF DiskOK
  <2>2. \A m \in Names : dir'[m] \in Contents[m] \cup {None}
    BY <1>1, <2>1 DEF DiskOK
  <2>3. stamp' \in [Everything -> Nat] /\ changes' \in 0..MaxWrites
    BY <1>1, <1>2
  <2>4. QED
    BY <1>5, <2>1, <2>2, <2>3 DEF DiskOK
<1>7. ASSUME NEW found, FoundOK(found)
      PROVE  /\ found \in [Everything -> Infos \cup {None}] /\ Cardinality(Held(found)) <= MaxNames
             /\ Total(found) <= MaxTotal /\ \A x \in Held(found) : found[x].stamp <= stamp'[x]
  <2>1. ASSUME NEW x \in Held(found) PROVE found[x].stamp <= stamp'[x]
    <3>1. x \in Everything /\ found[x] \in Infos
      BY <1>7, <2>1 DEF FoundOK, Held, Everything
    <3>2. found[x].stamp \in Nat /\ stamp[x] \in Nat /\ stamp'[x] \in Nat /\ found[x].stamp <= stamp[x] /\ stamp[x] <= stamp'[x]
      BY <1>1, <1>5, <1>7, <2>1, <3>1 DEF FoundOK, Infos
    <3>3. QED
      BY <3>2
  <2>2. QED
    BY <1>7, <2>1 DEF FoundOK
<1>8. FoundOK(names)' /\ FoundOK(after)'
  <2>1. FoundOK(names) /\ FoundOK(after) /\ names' = names /\ after' = after
    BY <1>2 DEF TypeInv
  <2>2. QED
    BY <1>7, <2>1 DEF FoundOK, Held, Total
<1>9. RunsOK' /\ RowsOK' /\ WindowsOK' /\ cov' \in CovTypes
  <2>1. RunsOK'
    BY <1>2 DEF TypeInv, RunsOK, ReadRuns
  <2>2. QED
    BY <1>2, <2>1, SameSums DEF TypeInv, sumVars
<1>10. Turn' = Turn /\ Run' = Run /\ File' = File /\ ReadRuns' = ReadRuns
  BY <1>2 DEF Turn, Run, File, ReadRuns
<1>11. PhaseOK' /\ GotOK'
  BY <1>2, <1>10 DEF TypeInv, PhaseOK, Reading, GotOK, Observations
<1>12. OpenOK'
  <2>1. OpenOK
    BY DEF TypeInv
  <2>2. gone' # gone => gone' \in Seq(RowFields \cup {Torn})
    <3>1. SUFFICES ASSUME gone' # gone PROVE gone' \in Seq(RowFields \cup {Torn})
      OBVIOUS
    <3>2. pc = "read" /\ File.path = n /\ gone = None /\ gone' = dir[n]
      BY <1>2, <3>1
    <3>3. n \in DataNames /\ dir[n] # None
      BY <2>1, <3>2 DEF OpenOK
    <3>4. QED
      BY <1>1, <3>2, <3>3, ContentOf
  <2>3. pc = "read" /\ gone' = None => dir'[File.path] # None
    <3>1. SUFFICES ASSUME pc = "read", gone' = None PROVE dir'[File.path] # None
      OBVIOUS
    <3>2. CASE File.path = n
      BY <1>2, <3>1, <3>2
    <3>3. CASE File.path # n
      <4>1. File.path \in DataNames /\ File.path \in Names
        BY <2>1, <3>1 DEF OpenOK, Names
      <4>2. dir'[File.path] = dir[File.path]
        BY <1>1, <1>3, <3>3, <4>1 DEF DiskOK
      <4>3. gone = None
        BY <1>2, <3>1, <3>3
      <4>4. QED
        BY <2>1, <3>1, <4>2, <4>3 DEF OpenOK
    <3>4. QED
      BY <3>2, <3>3
  <2>4. pc' = pc /\ todo' = todo /\ j' = j /\ got' = got
    BY <1>2
  <2>5. pc \notin {"read", "error"} => gone' = None
    BY <1>2, <2>1 DEF OpenOK
  <2>6. gone' # None => gone' \in Seq(RowFields \cup {Torn})
    BY <2>1, <2>2 DEF OpenOK
  <2>7. QED
    BY <1>10, <2>1, <2>3, <2>4, <2>5, <2>6 DEF OpenOK
<1>13. QED
  BY <1>6, <1>8, <1>9, <1>11, <1>12 DEF TypeInv

LEMMA TypesStutter == TypeInv /\ UNCHANGED vars => TypeInv'
<1> SUFFICES ASSUME TypeInv, UNCHANGED vars PROVE TypeInv'
  OBVIOUS
<1>1. UNCHANGED <<diskVars, pc, todo, names, after, runs, j, gone, got, sumVars, shown, atEnd>>
  BY DEF vars
<1>2. DiskOK' /\ FoundOK(names)' /\ FoundOK(after)' /\ RunsOK'
  BY <1>1, SameInventories
<1>3. RowsOK' /\ WindowsOK' /\ cov' \in CovTypes
  BY <1>1, SameSums DEF sumVars, TypeInv
<1>4. Turn' = Turn /\ Run' = Run /\ File' = File /\ ReadRuns' = ReadRuns
  BY <1>1 DEF Turn, Run, File, ReadRuns
<1>5. PhaseOK' /\ OpenOK' /\ GotOK'
  BY <1>1, <1>4 DEF TypeInv, PhaseOK, OpenOK, Reading, GotOK, Observations, diskVars
<1>6. QED
  BY <1>2, <1>3, <1>5 DEF TypeInv

LEMMA TypesStep == TypeInv /\ [Next]_vars => TypeInv'
<1>1. TypeInv /\ Load => TypeInv'
  BY TypesInventory1, TypesManifests, TypesOpenListed, TypesReadRow, TypesEndRead, TypesEndRun,
     TypesReport, TypesInventory2 DEF Load
<1>2. QED
  BY <1>1, TypesWriter, TypesStutter DEF Next

-----------------------------------------------------------------------------
(* What an inventory knows. A name that has not been touched since it was  *)
(* described is as described, and a directory that has not been touched    *)
(* since it was described has the names that were listed in it.            *)

Fresh(found, x) == found[x] # None /\ found[x].stamp = stamp[x]

Walked(found, left) ==
    /\ left \subseteq Everything /\ Dirs \subseteq left \cup Held(found)
    /\ \A x \in Everything : Fresh(found, x) => found[x] = Info(x) /\ (x \in Names => dir[x] # None)
    /\ \A n \in Names : Fresh(found, DirOf(n)) /\ DirOf(n) \notin left =>
          (dir[n] # None <=> found[n] # None \/ n \in left)
    /\ \A n \in Names : n \in left \cup Held(found) => DirOf(n) \notin left
    /\ \A n \in Names : n \in left => found[n] = None

LEMMA NothingWalked == Walked(NoNames, Dirs)
<1>1. \A x \in Everything : NoNames[x] = None
  BY DEF NoNames, Everything
<1>2. Names \cap Dirs = {} /\ Dirs \subseteq Everything /\ Names \subseteq Everything /\ \A n \in Names : DirOf(n) \in Dirs
  BY NameFacts
<1>3. Held(NoNames) = {}
  BY NothingFound
<1>4. QED
  BY <1>1, <1>2, <1>3 DEF Walked, Fresh

\* A step of a walk.
LEMMA VisitWalked ==
    ASSUME DiskOK, NEW found, FoundOK(found), Walked(found, todo), todo # {}, ~WalkFails(found)
    PROVE  Walked(Visit(found).names, Visit(found).todo)
<1>1. todo \subseteq Everything /\ Dirs \subseteq todo \cup Held(found) /\ found \in [Everything -> Infos \cup {None}]
  BY DEF Walked, FoundOK
<1>2. PICK x \in Everything : x = Turn /\ x \in todo
  BY <1>1, TurnIsOne
<1>3. /\ \A y \in Everything : Fresh(found, y) => found[y] = Info(y) /\ (y \in Names => dir[y] # None)
      /\ \A n \in Names : Fresh(found, DirOf(n)) /\ DirOf(n) \notin todo =>
            (dir[n] # None <=> found[n] # None \/ n \in todo)
      /\ \A n \in Names : n \in todo \cup Held(found) => DirOf(n) \notin todo
      /\ \A n \in Names : n \in todo => found[n] = None
  BY DEF Walked
<1>4. /\ Dirs \subseteq Everything /\ Names \subseteq Everything /\ Names \cap Dirs = {} /\ x \in Names \cup Dirs
      /\ \A n \in Names : DirOf(n) \in Dirs /\ n \in NamesIn(DirOf(n))
      /\ \A d \in Dirs : NamesIn(d) \subseteq Names /\ \A n \in NamesIn(d) : DirOf(n) = d
  BY NameFacts DEF Everything
<1>5. CASE Lists(found)
  <2>1. x \in Dirs /\ found[x] # None
    BY <1>2, <1>5 DEF Lists
  <2>2. PICK there : there = {n \in NamesIn(x) : dir[n] # None}
    OBVIOUS
  <2>3. PICK left : left = (todo \ {x}) \cup there
    OBVIOUS
  <2>4. Visit(found).names = found /\ Visit(found).todo = left
    BY <1>2, <1>5, <2>2, <2>3 DEF Visit, Listing
  <2>5. ASSUME NEW n \in Names, DirOf(n) = x
        PROVE  found[n] = None /\ n \notin todo /\ (n \in left <=> dir[n] # None)
    <3>1. n \notin todo /\ n \notin Held(found)
      BY <1>2, <1>3, <2>5
    <3>2. found[n] = None
      BY <3>1 DEF Held
    <3>3. n \in NamesIn(x)
      BY <1>4, <2>5
    <3>4. QED
      BY <2>2, <2>3, <3>1, <3>2, <3>3
  <2>6. ASSUME NEW n \in Names, DirOf(n) # x
        PROVE  n \in left <=> n \in todo
    BY <1>4, <2>1, <2>2, <2>3, <2>6
  <2>7. \A d \in Dirs : d \in left <=> d \in todo /\ d # x
    BY <1>4, <2>1, <2>2, <2>3
  <2>8. left \subseteq Everything /\ Dirs \subseteq left \cup Held(found)
    <3>1. x \in Held(found)
      BY <1>4, <2>1 DEF Held
    <3>2. there \subseteq Everything
      BY <1>4, <2>1, <2>2
    <3>3. QED
      BY <1>1, <2>3, <2>7, <3>1, <3>2
  <2>9. \A n \in Names : Fresh(found, DirOf(n)) /\ DirOf(n) \notin left => (dir[n] # None <=> found[n] # None \/ n \in left)
    BY <1>3, <1>4, <2>5, <2>6, <2>7
  <2>10. \A n \in Names : n \in left \cup Held(found) => DirOf(n) \notin left
    BY <1>3, <1>4, <2>5, <2>6, <2>7
  <2>11. \A n \in Names : n \in left => found[n] = None
    BY <1>3, <2>5, <2>6
  <2>12. QED
    BY <1>3, <2>4, <2>8, <2>9, <2>10, <2>11 DEF Walked
<1>6. CASE ~Lists(found)
  <2>1. x \in Names => dir[x] # None
    BY <1>2, <1>6 DEF WalkFails
  <2>2. PICK info : info = Info(x) /\ info # None
    BY <2>1, InfoType
  <2>3. PICK more : more = [found EXCEPT ![x] = info]
    OBVIOUS
  <2>4. PICK left : left = IF x \in Dirs THEN todo ELSE todo \ {x}
    OBVIOUS
  <2>5. Visit(found).names = more /\ Visit(found).todo = left
    BY <1>2, <1>6, <2>2, <2>3, <2>4 DEF Visit, Described
  <2>6. \A y \in Everything : more[y] = IF y = x THEN info ELSE found[y]
    BY <1>1, <2>3
  <2>7. Held(more) = Held(found) \cup {x}
    BY <1>4, <2>2, <2>6 DEF Held, Everything
  <2>8. left \subseteq Everything /\ Dirs \subseteq left \cup Held(more)
    BY <1>1, <2>4, <2>7
  <2>9. \A y \in Everything : Fresh(more, y) => more[y] = Info(y) /\ (y \in Names => dir[y] # None)
    BY <1>3, <2>1, <2>2, <2>6 DEF Fresh
  <2>10. \A d \in Dirs : d \notin left => d \notin todo /\ d # x /\ (Fresh(more, d) => Fresh(found, d))
    BY <1>2, <1>4, <2>4, <2>6 DEF Fresh
  <2>11. ASSUME NEW n \in Names
         PROVE  (more[n] # None \/ n \in left) <=> (found[n] # None \/ n \in todo)
    <3>1. CASE n = x
      BY <1>2, <1>4, <2>2, <2>6, <3>1
    <3>2. CASE n # x
      BY <1>4, <2>4, <2>6, <3>2
    <3>3. QED
      BY <3>1, <3>2
  <2>12. \A n \in Names : Fresh(more, DirOf(n)) /\ DirOf(n) \notin left => (dir[n] # None <=> more[n] # None \/ n \in left)
    BY <1>3, <1>4, <2>10, <2>11
  <2>13. \A n \in Names : n \in left \cup Held(more) => DirOf(n) \notin left
    BY <1>2, <1>3, <2>4, <2>7
  <2>14. \A n \in Names : n \in left => more[n] = None
    BY <1>3, <1>4, <2>4, <2>6
  <2>15. QED
    BY <2>5, <2>8, <2>9, <2>12, <2>13, <2>14 DEF Walked
<1>7. QED
  BY <1>5, <1>6

\* A change by another program.
LEMMA WriterWalked ==
    ASSUME DiskOK, Writer, NEW found, FoundOK(found), NEW left, Walked(found, left)
    PROVE  Walked(found, left)'
<1>1. PICK n \in Names, xs \in SUBSET Everything :
             /\ changes' = changes + 1 /\ n \in xs
             /\ stamp' = [x \in Everything |-> IF x \in xs THEN changes + 1 ELSE stamp[x]]
             /\ \E c \in Contents[n] \cup {None} : dir' = [dir EXCEPT ![n] = c]
             /\ DirOf(n) \notin xs => dir[n] # None /\ dir'[n] # None
  BY WriterEffect
<1>2. \A m \in Names : m # n => dir'[m] = dir[m]
  BY <1>1 DEF DiskOK
<1>3. \A m \in Names : DirOf(m) \in Everything /\ m \in Everything
  BY NameFacts
<1>4. ASSUME NEW x \in Everything, Fresh(found, x)'
      PROVE  x \notin xs /\ stamp'[x] = stamp[x] /\ Fresh(found, x)
  <2>1. found[x] # None /\ found[x].stamp = stamp'[x]
    BY <1>4 DEF Fresh
  <2>2. found[x] \in Infos /\ x \in Held(found)
    BY <2>1 DEF FoundOK, Held, Everything
  <2>3. found[x].stamp <= stamp[x] /\ stamp[x] <= changes /\ stamp[x] \in Nat /\ changes \in Nat
    BY <2>2, LimitTypes DEF FoundOK, DiskOK
  <2>4. x \notin xs
    BY <1>1, <2>1, <2>3
  <2>5. QED
    BY <1>1, <2>1, <2>4 DEF Fresh
<1>5. ASSUME NEW x \in Everything, Fresh(found, x)'
      PROVE  found[x] = Info(x)' /\ (x \in Names => dir'[x] # None)
  <2>1. found[x] = Info(x) /\ (x \in Names => dir[x] # None)
    BY <1>4, <1>5 DEF Walked
  <2>2. stamp'[x] = stamp[x] /\ x # n
    BY <1>1, <1>4, <1>5
  <2>3. x \in Names => dir'[x] = dir[x]
    BY <1>2, <2>2
  <2>4. x \in Names \/ x \in Dirs
    BY DEF Everything
  <2>5. Info(x)' = Info(x)
    BY <2>2, <2>3, <2>4 DEF Info
  <2>6. QED
    BY <2>1, <2>3, <2>5
<1>6. ASSUME NEW m \in Names, Fresh(found, DirOf(m))', DirOf(m) \notin left
      PROVE  dir'[m] # None <=> found[m] # None \/ m \in left
  <2>1. DirOf(m) \notin xs /\ Fresh(found, DirOf(m))
    BY <1>3, <1>4, <1>6
  <2>2. dir[m] # None <=> found[m] # None \/ m \in left
    BY <1>6, <2>1 DEF Walked
  <2>3. dir'[m] # None <=> dir[m] # None
    BY <1>1, <1>2, <2>1
  <2>4. QED
    BY <2>2, <2>3
<1>7. QED
  BY <1>5, <1>6 DEF Walked, Held

\* The first inventory lists until it ends; the second begins at the recheck.
BeforeRecheck == pc \in {"inv1", "manifests", "files", "read"}
Left1 == IF pc = "inv1" THEN todo ELSE {}
Left2 == IF BeforeRecheck THEN Dirs ELSE IF pc = "inv2" THEN todo ELSE {}

WalkInv == pc # "error" => /\ Walked(names, Left1) /\ Walked(after, Left2)
                           /\ BeforeRecheck => after = NoNames

LEMMA SameWalked ==
    ASSUME UNCHANGED diskVars, NEW found, NEW left
    PROVE  Walked(found, left) <=> Walked(found, left)'
  BY DEF diskVars, Walked, Fresh, Info, Held

LEMMA WalkInit == Init => WalkInv
  BY NothingWalked DEF Init, WalkInv, Left1, Left2, BeforeRecheck

\* The steps between the inventories, and after them, take nothing back.
LEMMA WalkOther ==
    ASSUME WalkInv, UNCHANGED <<diskVars, names, after>>, pc # "error", Left1' = Left1, Left2' = Left2,
           BeforeRecheck' => BeforeRecheck
    PROVE  WalkInv'
<1>1. PICK a, b, l, m : a = names /\ b = after /\ l = Left1 /\ m = Left2
  OBVIOUS
<1>2. Walked(a, l) /\ Walked(b, m)
  BY <1>1 DEF WalkInv
<1>3. Walked(a, l)' /\ Walked(b, m)'
  BY <1>2, SameWalked
<1>4. names' = a /\ after' = b /\ Left1' = l /\ Left2' = m
  BY <1>1
<1>5. Walked(names, Left1)' /\ Walked(after, Left2)'
  BY <1>3, <1>4 DEF Walked, Fresh, Held
<1>6. QED
  BY <1>5 DEF WalkInv

LEMMA WalkStep == TypeInv /\ WalkInv /\ [Next]_vars => WalkInv'
<1> SUFFICES ASSUME TypeInv, WalkInv, [Next]_vars, pc' # "error" PROVE WalkInv'
  BY DEF WalkInv
<1>1. DiskOK /\ FoundOK(names) /\ FoundOK(after)
  BY DEF TypeInv
<1>2. ~Abort
  BY DEF Abort
<1>3. CASE Inventory1
  <2>1. /\ ~WalkFails(names) /\ names' = Visit(names).names /\ todo' = Visit(names).todo /\ todo # {}
        /\ UNCHANGED <<diskVars, pc, after>> /\ pc = "inv1"
    BY <1>2, <1>3 DEF Inventory1
  <2>2. Walked(names, todo) /\ Walked(after, Dirs) /\ after = NoNames
    BY <2>1 DEF WalkInv, Left1, Left2, BeforeRecheck
  <2>3. PICK a, b, more, left : a = names /\ b = after /\ more = Visit(a).names /\ left = Visit(a).todo
    OBVIOUS
  <2>4. Walked(more, left) /\ Walked(b, Dirs)
    BY <1>1, <2>1, <2>2, <2>3, VisitWalked
  <2>5. Walked(more, left)' /\ Walked(b, Dirs)'
    BY <2>1, <2>4, SameWalked
  <2>6. names' = more /\ todo' = left /\ after' = b
    BY <2>1, <2>3
  <2>7. Walked(names, todo)' /\ Walked(after, Dirs)'
    BY <2>5, <2>6 DEF Walked, Fresh, Held
  <2>8. QED
    BY <2>1, <2>2, <2>7 DEF WalkInv, Left1, Left2, BeforeRecheck
<1>4. CASE Inventory2
  <2>1. /\ ~WalkFails(after) /\ after' = Visit(after).names /\ todo' = Visit(after).todo /\ todo # {}
        /\ UNCHANGED <<diskVars, pc, names>> /\ pc = "inv2"
    BY <1>2, <1>4 DEF Inventory2
  <2>2. Walked(names, {}) /\ Walked(after, todo)
    BY <2>1 DEF WalkInv, Left1, Left2, BeforeRecheck
  <2>3. PICK a, b, more, left : a = after /\ b = names /\ more = Visit(a).names /\ left = Visit(a).todo
    OBVIOUS
  <2>4. Walked(more, left) /\ Walked(b, {})
    BY <1>1, <2>1, <2>2, <2>3, VisitWalked
  <2>5. Walked(more, left)' /\ Walked(b, {})'
    BY <2>1, <2>4, SameWalked
  <2>6. after' = more /\ todo' = left /\ names' = b
    BY <2>1, <2>3
  <2>7. Walked(after, todo)' /\ Walked(names, {})'
    BY <2>5, <2>6 DEF Walked, Fresh, Held
  <2>8. QED
    BY <2>1, <2>7 DEF WalkInv, Left1, Left2, BeforeRecheck
<1>5. CASE BeginManifests \/ ReadManifest \/ EndManifests
  <2>1. UNCHANGED <<diskVars, names, after>> /\ pc # "error" /\ BeforeRecheck /\ BeforeRecheck' /\ Left1' = {}
        /\ Left1 = {}
    BY <1>2, <1>5 DEF BeginManifests, ReadManifest, EndManifests, Left1, BeforeRecheck
  <2>2. QED
    BY <2>1, WalkOther DEF Left2
<1>6. CASE OpenListed \/ ReadRow \/ EndRead \/ EndRun
  <2>1. UNCHANGED <<diskVars, names, after>> /\ pc \in {"files", "read"} /\ pc' \in {"files", "read"}
    BY <1>2, <1>6 DEF OpenListed, ReadRow, EndRead, EndRun, Discard, Close
  <2>2. QED
    BY <2>1, WalkOther DEF Left1, Left2, BeforeRecheck
<1>7. CASE BeginRecheck \/ EndLoad \/ Investigate
  <2>1. UNCHANGED <<diskVars, names, after>> /\ pc # "error" /\ Left1' = Left1 /\ Left2' = Left2 /\ ~BeforeRecheck'
    BY <1>2, <1>7 DEF BeginRecheck, EndLoad, Investigate, Left1, Left2, BeforeRecheck
  <2>2. QED
    BY <2>1, WalkOther
<1>8. CASE Writer
  <2>1. UNCHANGED <<pc, todo, names, after>> /\ pc # "error"
    BY <1>8 DEF Writer, Running
  <2>2. PICK a, b, l, m : a = names /\ b = after /\ l = Left1 /\ m = Left2
    OBVIOUS
  <2>3. Walked(a, l) /\ Walked(b, m)
    BY <2>1, <2>2 DEF WalkInv
  <2>4. Walked(a, l)' /\ Walked(b, m)'
    BY <1>1, <1>8, <2>2, <2>3, WriterWalked
  <2>5. names' = a /\ after' = b /\ Left1' = l /\ Left2' = m
    BY <2>1, <2>2 DEF Left1, Left2, BeforeRecheck
  <2>6. Walked(names, Left1)' /\ Walked(after, Left2)'
    BY <2>4, <2>5 DEF Walked, Fresh, Held
  <2>7. QED
    BY <2>1, <2>6 DEF WalkInv, BeforeRecheck
<1>9. CASE UNCHANGED vars
  <2>1. UNCHANGED <<diskVars, pc, todo, names, after>>
    BY <1>9 DEF vars
  <2>2. QED
    BY <2>1, WalkOther DEF Left1, Left2, BeforeRecheck
<1>10. QED
  BY <1>3, <1>4, <1>5, <1>6, <1>7, <1>8, <1>9 DEF Next, Load

-----------------------------------------------------------------------------
(* A directory that nobody has touched since it was inventoried.           *)

Good == \A x \in Held(names) : names[x].stamp = stamp[x]

AfterInventory == pc \in {"manifests", "files", "read"}

\* Its names are those of the inventory, with their sizes.
LEMMA Inventoried ==
    ASSUME Walked(names, {}), Good
    PROVE  /\ Dirs \subseteq Held(names)
           /\ \A n \in Names : dir[n] # None <=> names[n] # None
           /\ \A n \in Names : names[n] # None => names[n].size = Bytes(n, dir[n])
<1>1. Walked(names, {})
  OBVIOUS
<1>2. Dirs \subseteq Held(names)
  BY <1>1 DEF Walked
<1>3. \A n \in Names : DirOf(n) \in Dirs /\ n \in Everything /\ n \notin Dirs
  BY NameFacts
<1>4. ASSUME NEW x \in Held(names) PROVE Fresh(names, x) /\ x \in Everything
  BY <1>4 DEF Good, Fresh, Held, Everything
<1>5. \A n \in Names : dir[n] # None <=> names[n] # None
  BY <1>1, <1>2, <1>3, <1>4 DEF Walked
<1>6. ASSUME NEW n \in Names, names[n] # None PROVE names[n].size = Bytes(n, dir[n])
  <2>1. n \in Held(names)
    BY <1>6 DEF Held
  <2>2. names[n] = Info(n)
    BY <1>1, <1>4, <2>1 DEF Walked
  <2>3. QED
    BY <1>3, <2>2 DEF Info
<1>7. QED
  BY <1>2, <1>5, <1>6

\* Whatever another program does, it touches something of the inventory, and
\* what has been touched stays so.
LEMMA WriterSpoils ==
    ASSUME TypeInv, WalkInv, AfterInventory, Writer
    PROVE  ~Good'
<1> SUFFICES ASSUME Good' PROVE FALSE
  OBVIOUS
<1>1. DiskOK /\ FoundOK(names)
  BY DEF TypeInv
<1>2. PICK n \in Names, xs \in SUBSET Everything :
             /\ changes' = changes + 1 /\ n \in xs
             /\ stamp' = [x \in Everything |-> IF x \in xs THEN changes + 1 ELSE stamp[x]]
             /\ DirOf(n) \notin xs => dir[n] # None /\ dir'[n] # None
             /\ names' = names
  BY <1>1, WriterEffect
<1>3. ASSUME NEW x \in Held(names)
      PROVE  x \notin xs /\ names[x].stamp = stamp[x] /\ x \in Everything
  <2>1. x \in Everything /\ names[x] \in Infos
    BY <1>1, <1>3 DEF FoundOK, Held, Everything
  <2>2. names[x].stamp = stamp'[x]
    <3>1. x \in Held(names)'
      BY <1>2, <1>3 DEF Held
    <3>2. QED
      BY <1>2, <3>1 DEF Good
  <2>3. names[x].stamp <= stamp[x] /\ stamp[x] <= changes /\ stamp[x] \in Nat /\ changes \in Nat
    BY <1>1, <1>3, <2>1, LimitTypes DEF FoundOK, DiskOK
  <2>4. x \notin xs
    BY <1>2, <2>1, <2>2, <2>3
  <2>5. QED
    BY <1>2, <2>1, <2>2, <2>4
<1>4. Good
  BY <1>3 DEF Good
<1>9. Walked(names, {})
  BY DEF WalkInv, Left1, AfterInventory
<1>5. DirOf(n) \in Held(names)
  BY <1>9, <1>4, Inventoried, NameFacts
<1>6. dir[n] # None
  BY <1>2, <1>3, <1>5
<1>7. n \in Held(names)
  BY <1>9, <1>4, <1>6, Inventoried DEF Held
<1>8. QED
  BY <1>2, <1>3, <1>7

\* What is known of a directory as a constant.
TypedDir(D) ==
    /\ \A n \in Manifests(D) : D[n] \in ManifestFields /\ WellFormed(D[n])
    /\ \A n \in DataFiles(D) : D[n] \in Seq(RowFields \cup {Torn})

LEMMA EntryFacts ==
    ASSUME NEW D, TypedDir(D)
    PROVE  /\ IsFiniteSet(Entries(D)) /\ IsFiniteSet(Manifests(D)) /\ IsFiniteSet(DataFiles(D))
           /\ \A e \in Entries(D) : /\ e = <<e[1], e[2]>> /\ e[1] \in Manifests(D) /\ e[2] \in DOMAIN D[e[1]].files
                                    /\ Entry(D, e) \in FileFields
           /\ \A n \in Manifests(D) : \A a \in DOMAIN D[n].files : <<n, a>> \in Entries(D)
<1>1. IsFiniteSet(Manifests(D)) /\ IsFiniteSet(DataFiles(D))
  BY NamesFinite, FS_Subset DEF Manifests, DataFiles
<1>2. \A n \in Manifests(D) : D[n].files \in Seq(FileFields)
  BY DEF TypedDir, ManifestFields
<1>3. IsFiniteSet(Entries(D))
  <2> DEFINE part == [n \in Manifests(D) |-> {n} \X DOMAIN D[n].files]
  <2>1. ASSUME NEW n \in Manifests(D) PROVE IsFiniteSet(part[n])
    <3>1. PICK I : I = DOMAIN D[n].files
      OBVIOUS
    <3>2. IsFiniteSet(I)
      BY <1>2, <2>1, <3>1, IndexSetsFinite
    <3>3. IsFiniteSet({n})
      BY FS_Singleton
    <3>4. IsFiniteSet({n} \X I)
      BY <3>2, <3>3, FS_Product
    <3>5. QED
      BY <2>1, <3>1, <3>4
  <2>2. Entries(D) = UNION {part[n] : n \in Manifests(D)}
    BY DEF Entries
  <2>3. IsFiniteSet({part[n] : n \in Manifests(D)}) /\ \A T \in {part[n] : n \in Manifests(D)} : IsFiniteSet(T)
    <3> HIDE DEF part
    <3>1. QED
      BY <1>1, <2>1, ImageFinite
  <2>4. IsFiniteSet(UNION {part[n] : n \in Manifests(D)})
    <3> HIDE DEF part
    <3>1. QED
      BY <2>3, FS_UNION
  <2>5. QED
    BY <2>2, <2>4
<1>4. ASSUME NEW e \in Entries(D)
      PROVE  /\ e = <<e[1], e[2]>> /\ e[1] \in Manifests(D) /\ e[2] \in DOMAIN D[e[1]].files
             /\ Entry(D, e) \in FileFields
  <2>1. PICK n \in Manifests(D) : e \in {n} \X DOMAIN D[n].files
    BY <1>4 DEF Entries
  <2>2. e = <<e[1], e[2]>> /\ e[1] = n /\ e[2] \in DOMAIN D[n].files
    BY <2>1
  <2>3. PICK files \in Seq(FileFields) : files = D[n].files
    BY <1>2
  <2>4. PICK a \in DOMAIN files : a = e[2]
    BY <2>2, <2>3
  <2>5. files[a] \in FileFields
    OBVIOUS
  <2>6. QED
    BY <2>2, <2>3, <2>4, <2>5 DEF Entry
<1>5. \A n \in Manifests(D) : \A a \in DOMAIN D[n].files : <<n, a>> \in Entries(D)
  BY DEF Entries
<1>6. QED
  BY <1>1, <1>3, <1>4, <1>5

-----------------------------------------------------------------------------
(* The accounts of the entries read so far, and of the runs that ended, of *)
(* one directory D.                                                        *)

ReadWell(D, E) == {e \in E : Sound(D, e)}
WithRows(D, E) == {e \in E : Sound(D, e) /\ Entry(D, e).table = "observations_v2"}
Seen(D, E) == UNION {ToSet(D[Entry(D, e).path]) : e \in WithRows(D, E)}
Lengths(D, E) == SumFunctionOnSet([e \in WithRows(D, E) |-> Len(D[Entry(D, e).path])], WithRows(D, E))
Absent(D, E) == {e \in E : ~Present(D, e)}
Rejected(D, E) == {e \in E : Present(D, e) /\ ~Sound(D, e)}
Silent(D, M) == {n \in M : ~HasObservations(D[n])}

\* Every observation of the sound files once.
RowsAgree(D, E, rs) ==
    /\ rs \subseteq Seen(D, E)
    /\ \A r \in Seen(D, E) : \E q \in rs : Key(q) = Key(r) /\ q.print = r.print
    /\ \A q, r \in rs : Key(q) = Key(r) => q = r

\* Counters to match; n rows are kept.
CountsAgree(D, E, M, c, n) ==
    /\ c.verified = Cardinality(ReadWell(D, E)) /\ c.partial = Cardinality(Rejected(D, E))
    /\ c.missing = Cardinality(Absent(D, E)) + Cardinality(Silent(D, M))
    /\ c.physical = Lengths(D, E) /\ c.physical = n + c.duplicates

\* The windows are those of complete runs.
Complete(D, n) == \A a \in DOMAIN D[n].files : Sound(D, <<n, a>>)
WindowsAgree(D, M, ws) ==
    /\ DOMAIN ws = {D[n].project : n \in M}
    /\ \A p \in DOMAIN ws : \A w \in ws[p] :
          \E n \in M : D[n].project = p /\ Complete(D, n) /\ w = [start |-> D[n].start, end |-> D[n].end]

\* Everything that is said of one file is said of a file of the entries.
LEMMA AccountTypes ==
    ASSUME NEW D, TypedDir(D), NEW E, E \subseteq Entries(D)
    PROVE  /\ IsFiniteSet(E) /\ IsFiniteSet(ReadWell(D, E)) /\ IsFiniteSet(WithRows(D, E))
           /\ IsFiniteSet(Absent(D, E)) /\ IsFiniteSet(Rejected(D, E))
           /\ Cardinality(ReadWell(D, E)) \in Nat /\ Cardinality(Absent(D, E)) \in Nat
           /\ Cardinality(Rejected(D, E)) \in Nat /\ Lengths(D, E) \in Nat
           /\ \A e \in WithRows(D, E) : Len(D[Entry(D, e).path]) \in Nat
<1>1. IsFiniteSet(Entries(D))
  BY EntryFacts
<1>2. IsFiniteSet(E)
  BY <1>1, FS_Subset
<1>3. ReadWell(D, E) \in SUBSET E /\ WithRows(D, E) \in SUBSET E /\ Absent(D, E) \in SUBSET E /\ Rejected(D, E) \in SUBSET E
  BY DEF ReadWell, WithRows, Absent, Rejected
<1>4. /\ IsFiniteSet(ReadWell(D, E)) /\ IsFiniteSet(WithRows(D, E))
      /\ IsFiniteSet(Absent(D, E)) /\ IsFiniteSet(Rejected(D, E))
  BY <1>2, <1>3, FS_Subset
<1>5. ASSUME NEW e \in WithRows(D, E) PROVE Len(D[Entry(D, e).path]) \in Nat
  <2>1. e \in Entries(D) /\ D[Entry(D, e).path] # None /\ Sound(D, e)
    BY <1>3, <1>5 DEF WithRows, Sound
  <2>2. Len(D[Entry(D, e).path]) = Entry(D, e).rows
    BY <2>1 DEF Sound
  <2>3. Entry(D, e) \in FileFields
    BY <2>1, EntryFacts
  <2>4. QED
    BY <2>2, <2>3 DEF FileFields
<1>6. Lengths(D, E) \in Nat
  <2>1. PICK S : S = WithRows(D, E)
    OBVIOUS
  <2>2. PICK g : g = [e \in S |-> Len(D[Entry(D, e).path])]
    OBVIOUS
  <2>3. \A e \in S : g[e] \in Nat
    BY <1>5, <2>1, <2>2
  <2>4. SumFunctionOnSet(g, S) \in Nat
    BY <1>4, <2>1, <2>3, SumType
  <2>5. QED
    BY <2>1, <2>2, <2>4 DEF Lengths
<1>7. QED
  BY <1>2, <1>4, <1>5, <1>6, FS_CardinalityType

\* One entry more, in the set it belongs to.
LEMMA AccountMore ==
    ASSUME NEW D, TypedDir(D), NEW E, E \subseteq Entries(D), NEW e \in Entries(D), e \notin E
    PROVE  /\ Cardinality(ReadWell(D, E \cup {e})) = Cardinality(ReadWell(D, E)) + IF Sound(D, e) THEN 1 ELSE 0
           /\ Cardinality(Absent(D, E \cup {e})) = Cardinality(Absent(D, E)) + IF Present(D, e) THEN 0 ELSE 1
           /\ Cardinality(Rejected(D, E \cup {e})) =
                 Cardinality(Rejected(D, E)) + IF Present(D, e) /\ ~Sound(D, e) THEN 1 ELSE 0
<1>1. /\ IsFiniteSet(ReadWell(D, E)) /\ IsFiniteSet(Absent(D, E)) /\ IsFiniteSet(Rejected(D, E))
      /\ Cardinality(ReadWell(D, E)) \in Nat /\ Cardinality(Absent(D, E)) \in Nat
      /\ Cardinality(Rejected(D, E)) \in Nat
  BY AccountTypes
<1>2. Cardinality(ReadWell(D, E \cup {e})) = Cardinality(ReadWell(D, E)) + IF Sound(D, e) THEN 1 ELSE 0
  <2>1. CASE Sound(D, e)
    <3>1. ReadWell(D, E \cup {e}) = ReadWell(D, E) \cup {e} /\ e \notin ReadWell(D, E)
      BY <2>1 DEF ReadWell
    <3>2. QED
      BY <1>1, <2>1, <3>1, CountMore
  <2>2. CASE ~Sound(D, e)
    <3>1. ReadWell(D, E \cup {e}) = ReadWell(D, E)
      BY <2>2 DEF ReadWell
    <3>2. QED
      BY <1>1, <2>2, <3>1
  <2>3. QED
    BY <2>1, <2>2
<1>3. Cardinality(Absent(D, E \cup {e})) = Cardinality(Absent(D, E)) + IF Present(D, e) THEN 0 ELSE 1
  <2>1. CASE ~Present(D, e)
    <3>1. Absent(D, E \cup {e}) = Absent(D, E) \cup {e} /\ e \notin Absent(D, E)
      BY <2>1 DEF Absent
    <3>2. QED
      BY <1>1, <2>1, <3>1, CountMore
  <2>2. CASE Present(D, e)
    <3>1. Absent(D, E \cup {e}) = Absent(D, E)
      BY <2>2 DEF Absent
    <3>2. QED
      BY <1>1, <2>2, <3>1
  <2>3. QED
    BY <2>1, <2>2
<1>4. Cardinality(Rejected(D, E \cup {e})) =
                 Cardinality(Rejected(D, E)) + IF Present(D, e) /\ ~Sound(D, e) THEN 1 ELSE 0
  <2>1. CASE Present(D, e) /\ ~Sound(D, e)
    <3>1. Rejected(D, E \cup {e}) = Rejected(D, E) \cup {e} /\ e \notin Rejected(D, E)
      BY <2>1 DEF Rejected
    <3>2. QED
      BY <1>1, <2>1, <3>1, CountMore
  <2>2. CASE ~(Present(D, e) /\ ~Sound(D, e))
    <3>1. Rejected(D, E \cup {e}) = Rejected(D, E)
      BY <2>2 DEF Rejected
    <3>2. QED
      BY <1>1, <2>2, <3>1
  <2>3. QED
    BY <2>1, <2>2
<1>5. QED
  BY <1>2, <1>3, <1>4

\* A file without rows to take: scores, or a file that is missing or rejected.
LEMMA RowsSkipped ==
    ASSUME NEW D, NEW E, NEW e, Sound(D, e) => Entry(D, e).table # "observations_v2"
    PROVE  /\ Seen(D, E \cup {e}) = Seen(D, E) /\ Lengths(D, E \cup {e}) = Lengths(D, E)
           /\ \A rs : RowsAgree(D, E, rs) => RowsAgree(D, E \cup {e}, rs)
<1>1. WithRows(D, E \cup {e}) = WithRows(D, E)
  BY DEF WithRows
<1>2. Seen(D, E \cup {e}) = Seen(D, E) /\ Lengths(D, E \cup {e}) = Lengths(D, E)
  BY <1>1 DEF Seen, Lengths
<1>3. QED
  BY <1>2 DEF RowsAgree

\* A file with rows.
LEMMA RowsTaken ==
    ASSUME NEW D, TypedDir(D), NEW E, E \subseteq Entries(D), NEW e \in Entries(D), e \notin E,
           Sound(D, e), Entry(D, e).table = "observations_v2"
    PROVE  /\ Seen(D, E \cup {e}) = Seen(D, E) \cup ToSet(D[Entry(D, e).path])
           /\ Lengths(D, E \cup {e}) = Lengths(D, E) + Len(D[Entry(D, e).path])
<1>1. PICK S : S = WithRows(D, E)
  OBVIOUS
<1>2. WithRows(D, E \cup {e}) = S \cup {e} /\ e \notin S
  BY <1>1 DEF WithRows
<1>3. Seen(D, E \cup {e}) = Seen(D, E) \cup ToSet(D[Entry(D, e).path])
  BY <1>1, <1>2 DEF Seen
<1>4. E \cup {e} \subseteq Entries(D)
  OBVIOUS
<1>5. IsFiniteSet(S) /\ \A x \in S \cup {e} : Len(D[Entry(D, x).path]) \in Nat
  BY <1>1, <1>2, <1>4, AccountTypes
<1>6. PICK g : g = [x \in S \cup {e} |-> Len(D[Entry(D, x).path])]
  OBVIOUS
<1>7. PICK h : h = [x \in S |-> Len(D[Entry(D, x).path])]
  OBVIOUS
<1>8. SumFunctionOnSet(g, S \cup {e}) = g[e] + SumFunctionOnSet(g, S)
  <2>1. \A x \in S \cup {e} : g[x] \in Nat
    BY <1>5, <1>6
  <2>2. QED
    BY <1>2, <1>5, <2>1, SumAdd
<1>9. SumFunctionOnSet(g, S) = SumFunctionOnSet(h, S) /\ SumFunctionOnSet(h, S) \in Nat
  <2>1. \A x \in S : g[x] = h[x] /\ h[x] \in Nat
    BY <1>5, <1>6, <1>7
  <2>2. QED
    BY <1>5, <2>1, SumSame, SumType
<1>10. Lengths(D, E) = SumFunctionOnSet(h, S) /\ Lengths(D, E \cup {e}) = SumFunctionOnSet(g, S \cup {e})
  BY <1>1, <1>2, <1>6, <1>7 DEF Lengths
<1>11. g[e] = Len(D[Entry(D, e).path]) /\ g[e] \in Nat
  BY <1>5, <1>6
<1>12. Lengths(D, E \cup {e}) = Lengths(D, E) + Len(D[Entry(D, e).path])
  BY ONLY <1>8, <1>9, <1>10, <1>11
<1>13. QED
  BY <1>3, <1>12

\* The rows of one file more.
LEMMA MergedAgree ==
    ASSUME NEW D, NEW E, NEW F, got \in Seq(RowFields), RowsAgree(D, E, rows), ~Conflict,
           Seen(D, F) = Seen(D, E) \cup ToSet(got)
    PROVE  RowsAgree(D, F, Merged)
<1> DEFINE First(i) == /\ \A r \in rows : Key(r) # Key(got[i])
                       /\ \A h \in 1..(i - 1) : Key(got[h]) # Key(got[i])
<1>1. /\ rows \subseteq Seen(D, E)
      /\ \A r \in Seen(D, E) : \E q \in rows : Key(q) = Key(r) /\ q.print = r.print
      /\ \A q, r \in rows : Key(q) = Key(r) => q = r
  BY DEF RowsAgree
<1>2. \A r \in Merged : r \in rows \/ \E i \in DOMAIN got : r = got[i] /\ First(i)
  BY DEF Merged
<1>3. /\ \A r \in rows : r \in Merged
      /\ \A i \in DOMAIN got : First(i) => got[i] \in Merged
  BY DEF Merged
<1>4. DOMAIN got = 1..Len(got) /\ Len(got) \in Nat /\ ToSet(got) = {got[i] : i \in DOMAIN got}
  BY DEF ToSet
<1>5. \A a, b \in rows \cup ToSet(got) : Key(a) = Key(b) => a.print = b.print
  BY DEF Conflict
<1>6. Merged \subseteq Seen(D, F)
  BY <1>1, <1>2, <1>4
<1>7. ASSUME NEW k \in DOMAIN got PROVE \E q \in Merged : Key(q) = Key(got[k]) /\ q.print = got[k].print
  <2>1. CASE \E q \in rows : Key(q) = Key(got[k])
    BY <1>3, <1>4, <1>5, <2>1
  <2>2. CASE \A q \in rows : Key(q) # Key(got[k])
    <3>1. PICK I : I = {i \in DOMAIN got : Key(got[i]) = Key(got[k])}
      OBVIOUS
    <3>2. I \in SUBSET DOMAIN got /\ k \in I
      BY <3>1
    <3>3. IsFiniteSet(I) /\ I \subseteq Nat
      BY <1>4, <3>2, IndexSetsFinite
    <3>4. PICK m \in I : \A x \in I : m <= x
      BY <3>2, <3>3, Extremes
    <3>5. m \in 1..Len(got) /\ m \in DOMAIN got /\ Key(got[m]) = Key(got[k])
      BY <1>4, <3>1, <3>2
    <3>6. ASSUME NEW h \in 1..(m - 1) PROVE Key(got[h]) # Key(got[m])
      <4>1. h \in DOMAIN got /\ ~(m <= h)
        BY <1>4, <3>5
      <4>2. h \notin I
        BY <3>4, <4>1
      <4>3. QED
        BY <3>1, <3>5, <4>1, <4>2
    <3>7. First(m)
      BY <2>2, <3>5, <3>6
    <3>8. got[m] \in Merged
      BY <1>3, <3>5, <3>7
    <3>9. got[m].print = got[k].print
      BY <1>4, <1>5, <3>5
    <3>10. QED
      BY <3>5, <3>8, <3>9
  <2>3. QED
    BY <2>1, <2>2
<1>8. ASSUME NEW r \in Seen(D, F) PROVE \E q \in Merged : Key(q) = Key(r) /\ q.print = r.print
  <2>1. CASE r \in Seen(D, E)
    BY <1>1, <1>3, <2>1
  <2>2. CASE r \in ToSet(got)
    <3>1. PICK k \in DOMAIN got : r = got[k]
      BY <1>4, <2>2
    <3>2. QED
      BY <1>7, <3>1
  <2>3. QED
    BY <2>1, <2>2
<1>9. ASSUME NEW q \in Merged, NEW r \in Merged, Key(q) = Key(r) PROVE q = r
  <2>1. CASE q \in rows /\ r \in rows
    BY <1>1, <1>9, <2>1
  <2>2. CASE q \notin rows \/ r \notin rows
    <3>1. q \notin rows /\ r \notin rows
      BY <1>2, <1>9, <2>2
    <3>2. PICK a \in DOMAIN got : q = got[a] /\ First(a)
      BY <1>2, <3>1
    <3>3. PICK b \in DOMAIN got : r = got[b] /\ First(b)
      BY <1>2, <3>1
    <3>4. a \notin 1..(b - 1) /\ b \notin 1..(a - 1)
      BY <1>9, <3>2, <3>3
    <3>5. a \in 1..Len(got) /\ b \in 1..Len(got)
      BY <1>4
    <3>6. a = b
      BY ONLY <1>4, <3>4, <3>5
    <3>7. QED
      BY <3>2, <3>3, <3>6
  <2>3. QED
    BY <2>1, <2>2
<1>10. QED
  BY <1>6, <1>8, <1>9 DEF RowsAgree

\* A run that ends.
LEMMA RunsAgree ==
    ASSUME NEW D, TypedDir(D), NEW M, M \subseteq Manifests(D), NEW n \in Manifests(D), n \notin M
    PROVE  Cardinality(Silent(D, M \cup {n})) = Cardinality(Silent(D, M)) + IF HasObservations(D[n]) THEN 0 ELSE 1
<1>1. IsFiniteSet(Manifests(D)) /\ Silent(D, M) \in SUBSET Manifests(D)
  BY EntryFacts DEF Silent
<1>2. IsFiniteSet(Silent(D, M)) /\ Cardinality(Silent(D, M)) \in Nat
  BY <1>1, FS_Subset, FS_CardinalityType
<1>3. CASE HasObservations(D[n])
  <2>1. Silent(D, M \cup {n}) = Silent(D, M)
    BY <1>3 DEF Silent
  <2>2. QED
    BY <1>2, <1>3, <2>1
<1>4. CASE ~HasObservations(D[n])
  <2>1. Silent(D, M \cup {n}) = Silent(D, M) \cup {n} /\ n \notin Silent(D, M)
    BY <1>4 DEF Silent
  <2>2. QED
    BY <1>2, <1>4, <2>1, CountMore
<1>5. QED
  BY <1>3, <1>4

-----------------------------------------------------------------------------
(* What the reader knows, as long as nobody touches what was inventoried.  *)

FilesAgree(D, T, c, paths) ==
    c.files = Cardinality(T) /\ paths = {Entry(D, e).path : e \in T}

\* The files whose account is closed, those that were opened as well, and the
\* runs that ended.
Done == {e \in Entries(dir) : e[1] \notin todo \/ (e[1] = Turn /\ e[2] < j)}
Taken == Done \cup {e \in Entries(dir) : pc = "read" /\ e = <<Turn, j>>}
Ended == Manifests(dir) \ todo

Blank == pc \in {"inv1", "manifests"} =>
    /\ whole = TRUE /\ listed = {} /\ rows = {} /\ KnownProjects = {}
    /\ cov.files = 0 /\ cov.verified = 0 /\ cov.missing = 0 /\ cov.partial = 0
    /\ cov.physical = 0 /\ cov.duplicates = 0
    /\ pc = "inv1" => runs = [n \in ManifestNames |-> None]

ManifestsInv == pc = "manifests" =>
    /\ todo \subseteq Held(names)
    /\ Good => \A n \in ManifestNames : n \notin todo => runs[n] = dir[n]

\* The open file is the one of the inventory, and the rows read so far are usable.
OpenAgrees ==
    /\ gone = None /\ Begins(got, dir[File.path]) /\ FileBytes(dir[File.path]) = File.size
    /\ \A i \in DOMAIN got : /\ got[i] # Torn
                             /\ Observations => got[i].kind # "broken" /\ Belongs(got[i], Run)

ReadInv == Reading /\ Good =>
    /\ \A n \in ManifestNames : runs[n] = dir[n]
    /\ RowsAgree(dir, Done, rows)
    /\ CountsAgree(dir, Done, Ended, cov, Cardinality(rows))
    /\ WindowsAgree(dir, Ended, windows)
    /\ FilesAgree(dir, Taken, cov, listed)
    /\ todo # {} /\ whole => \A a \in DOMAIN Run.files : a < j => Sound(dir, <<Turn, a>>)
    /\ pc = "read" => OpenAgrees

LoadInv == Blank /\ ManifestsInv /\ ReadInv

\* The directory is that of the manifests that were read.
LEMMA DirTyped ==
    ASSUME TypeInv, \A n \in ManifestNames : runs[n] = dir[n]
    PROVE  TypedDir(dir) /\ ReadRuns = Manifests(dir)
<1>1. DiskOK /\ RunsOK
  BY DEF TypeInv
<1>2. ReadRuns = Manifests(dir)
  BY DEF ReadRuns, Manifests
<1>3. ASSUME NEW n \in Manifests(dir) PROVE dir[n] \in ManifestFields /\ WellFormed(dir[n])
  <2>1. n \in ReadRuns /\ n \in ManifestNames /\ runs[n] = dir[n] /\ dir[n] # None
    BY <1>2, <1>3 DEF Manifests
  <2>2. runs[n] \in ManifestFields
    BY <1>1, <2>1 DEF RunsOK
  <2>3. WellFormed(runs[n])
    BY <1>1, <2>1 DEF RunsOK
  <2>4. QED
    BY <2>1, <2>2, <2>3
<1>4. ASSUME NEW n \in DataFiles(dir) PROVE dir[n] \in Seq(RowFields \cup {Torn})
  <2>1. n \in Names /\ n \in DataNames /\ dir[n] # None
    BY <1>4 DEF DataFiles, Names
  <2>2. QED
    BY <1>1, <2>1, ContentOf
<1>5. QED
  BY <1>2, <1>3, <1>4 DEF TypedDir

\* The file whose turn it is, as an entry of the directory.
LEMMA TurnFacts ==
    ASSUME TypeInv, Reading, todo # {}, \A n \in ManifestNames : runs[n] = dir[n]
    PROVE  /\ TypedDir(dir) /\ Done \subseteq Entries(dir) /\ Ended \subseteq Manifests(dir)
           /\ Turn \in todo /\ Turn \in Manifests(dir) /\ dir[Turn] = Run /\ Turn \notin Ended
           /\ DOMAIN Run.files = 1..Len(Run.files) /\ Len(Run.files) \in Nat
           /\ j <= Len(Run.files) => /\ <<Turn, j>> \in Entries(dir) /\ <<Turn, j>> \notin Done
                                     /\ Entry(dir, <<Turn, j>>) = File /\ File \in FileFields
                                     /\ j \in DOMAIN Run.files
<1>1. TypedDir(dir) /\ ReadRuns = Manifests(dir)
  BY DirTyped
<1>2. /\ Turn \in todo /\ Turn \in ManifestNames /\ runs[Turn] = Run /\ Run.files \in Seq(FileFields)
      /\ Len(Run.files) \in Nat
      /\ j <= Len(Run.files) => j \in DOMAIN Run.files /\ File \in FileFields
  BY RunFacts
<1>3. Turn \in Manifests(dir)
  <2>1. todo \subseteq ReadRuns
    BY DEF TypeInv, PhaseOK
  <2>2. QED
    BY <1>1, <1>2, <2>1
<1>4. dir[Turn] = Run
  BY <1>2
<1>5. j \in Nat
  BY DEF TypeInv, PhaseOK
<1>6. ASSUME j <= Len(Run.files)
      PROVE  /\ <<Turn, j>> \in Entries(dir) /\ <<Turn, j>> \notin Done /\ Entry(dir, <<Turn, j>>) = File
  <2>1. j \in DOMAIN dir[Turn].files
    BY <1>2, <1>4, <1>6
  <2>2. <<Turn, j>> \in Entries(dir)
    BY <1>1, <1>3, <2>1, EntryFacts
  <2>3. <<Turn, j>> \notin Done
    BY <1>2, <1>5 DEF Done
  <2>4. Entry(dir, <<Turn, j>>) = File
    BY <1>4 DEF Entry, File
  <2>5. QED
    BY <2>2, <2>3, <2>4
<1>7. DOMAIN Run.files = 1..Len(Run.files)
  BY <1>2
<1>8. QED
  BY <1>1, <1>2, <1>3, <1>4, <1>6, <1>7 DEF Done, Ended

\* The account of a file is closed.
LEMMA DoneGrows ==
    ASSUME TypeInv, Reading, todo # {}, j <= Len(Run.files), \A n \in ManifestNames : runs[n] = dir[n],
           UNCHANGED <<diskVars, todo, runs>>, j' = j + 1
    PROVE  /\ Turn' = Turn /\ Run' = Run /\ Ended' = Ended
           /\ Done' = Done \cup {<<Turn, j>>}
<1>1. Turn' = Turn /\ Run' = Run /\ Ended' = Ended
  BY DEF Turn, Run, Ended, diskVars
<1>2. TypedDir(dir) /\ <<Turn, j>> \in Entries(dir) /\ Turn \in todo
  BY TurnFacts
<1>3. PICK D, n, k : D = dir /\ n = Turn /\ k = j
  OBVIOUS
<1>4. Done = {e \in Entries(D) : e[1] \notin todo \/ (e[1] = n /\ e[2] < k)}
  BY <1>3 DEF Done
<1>5. Done' = {e \in Entries(D) : e[1] \notin todo \/ (e[1] = n /\ e[2] < k + 1)}
  BY <1>1, <1>3 DEF Done, diskVars
<1>6. ASSUME NEW e \in Entries(D) PROVE e \in Done' <=> e \in Done \cup {<<n, k>>}
  <2>1. e = <<e[1], e[2]>> /\ e[1] \in Manifests(D) /\ e[2] \in DOMAIN D[e[1]].files
    BY <1>2, <1>3, EntryFacts
  <2>2. D[e[1]].files \in Seq(FileFields)
    BY <1>2, <1>3, <2>1 DEF TypedDir, ManifestFields
  <2>3. PICK i \in Nat : i = e[2]
    BY <2>1, <2>2
  <2>4. k \in Nat
    BY <1>3 DEF TypeInv, PhaseOK
  <2>5. i < k + 1 <=> i < k \/ i = k
    BY <2>3, <2>4
  <2>6. e = <<n, k>> <=> e[1] = n /\ i = k
    BY <2>1, <2>3
  <2>7. n \in todo
    BY <1>2, <1>3
  <2>8. QED
    BY <1>4, <1>5, <1>6, <2>3, <2>5, <2>6, <2>7
<1>7. Done' \subseteq Entries(D) /\ Done \cup {<<n, k>>} \subseteq Entries(D)
  BY <1>2, <1>3, <1>4, <1>5
<1>8. Done' = Done \cup {<<n, k>>}
  BY <1>6, <1>7
<1>9. QED
  BY <1>1, <1>3, <1>8

LEMMA LoadInvInit == Init => LoadInv
<1> SUFFICES ASSUME Init PROVE LoadInv
  OBVIOUS
<1>1. pc = "inv1"
  BY DEF Init
<1>2. Blank
  BY DEF Init, Blank, KnownProjects
<1>3. QED
  BY <1>1, <1>2 DEF LoadInv, ManifestsInv, ReadInv, Reading

LEMMA GoodKept == UNCHANGED <<diskVars, names>> => (Good' <=> Good)
  BY DEF Good, Held, diskVars

LEMMA LoadInvWriter == TypeInv /\ WalkInv /\ LoadInv /\ Writer => LoadInv'
<1> SUFFICES ASSUME TypeInv, WalkInv, LoadInv, Writer PROVE LoadInv'
  OBVIOUS
<1>1. UNCHANGED <<pc, todo, names, after, runs, j, got, sumVars, shown, atEnd>>
  BY DEF Writer
<1>2. Blank'
  BY <1>1 DEF LoadInv, Blank, sumVars, KnownProjects
<1>3. pc' \in {"manifests", "files", "read"} => ~Good'
  BY <1>1, WriterSpoils DEF AfterInventory
<1>4. ManifestsInv'
  BY <1>1, <1>3 DEF LoadInv, ManifestsInv, Held
<1>5. ReadInv'
  BY <1>3 DEF ReadInv, Reading
<1>6. QED
  BY <1>2, <1>4, <1>5 DEF LoadInv

\* The manifests.
LEMMA LoadInvManifests ==
    ASSUME TypeInv, WalkInv, LoadInv, BeginManifests \/ ReadManifest, pc' # "error"
    PROVE  LoadInv'
<1>1. /\ UNCHANGED <<diskVars, names, sumVars>> /\ pc' = "manifests" /\ pc \in {"inv1", "manifests"}
      /\ ~Abort
  BY DEF BeginManifests, ReadManifest, Abort
<1>2. Blank'
  BY <1>1 DEF LoadInv, Blank, sumVars, KnownProjects
<1>3. ReadInv'
  BY <1>1 DEF ReadInv, Reading
<1>4. Good' <=> Good
  BY <1>1, GoodKept
<1>5. ManifestsInv'
  <2>1. CASE BeginManifests
    <3>1. todo' = ManifestNames \cap Held(names) /\ runs' = runs /\ pc = "inv1" /\ todo = {}
      BY <2>1 DEF BeginManifests
    <3>2. todo' \subseteq Held(names)'
      BY <1>1, <3>1 DEF Held
    <3>3. ASSUME Good, NEW n \in ManifestNames, n \notin todo' PROVE runs'[n] = dir'[n]
      <4>1. Walked(names, {})
        BY <3>1 DEF WalkInv, Left1
      <4>2. dir[n] = None
        <5>1. n \in Names /\ names[n] = None
          BY <3>1, <3>3 DEF Held, Names
        <5>2. QED
          BY <3>3, <4>1, <5>1, Inventoried
      <4>3. runs[n] = None
        BY <3>1 DEF LoadInv, Blank
      <4>4. QED
        BY <1>1, <3>1, <4>2, <4>3 DEF diskVars
    <3>4. QED
      BY <1>4, <3>2, <3>3 DEF ManifestsInv
  <2>2. CASE ReadManifest
    <3>1. /\ pc = "manifests" /\ todo # {} /\ runs' = [runs EXCEPT ![Turn] = dir[Turn]] /\ todo' = todo \ {Turn}
      BY <1>1, <2>2 DEF ReadManifest
    <3>2. todo' \subseteq Held(names)'
      BY <1>1, <3>1 DEF LoadInv, ManifestsInv, Held
    <3>3. ASSUME Good, NEW n \in ManifestNames, n \notin todo' PROVE runs'[n] = dir'[n]
      <4>1. runs \in [ManifestNames -> ManifestFields \cup {None}]
        BY DEF TypeInv, RunsOK
      <4>2. n # Turn => runs[n] = dir[n]
        BY <3>1, <3>3 DEF LoadInv, ManifestsInv
      <4>3. runs'[n] = dir[n]
        BY <3>1, <4>1, <4>2
      <4>4. QED
        BY <1>1, <4>3 DEF diskVars
    <3>4. QED
      BY <1>4, <3>2, <3>3 DEF ManifestsInv
  <2>3. QED
    BY <2>1, <2>2
<1>6. QED
  BY <1>2, <1>3, <1>5 DEF LoadInv

\* The accounts of nothing.
LEMMA AccountsOfNothing ==
    ASSUME NEW D, NEW c, c.files = 0, c.verified = 0, c.missing = 0, c.partial = 0, c.physical = 0, c.duplicates = 0,
           NEW ws, DOMAIN ws = {}
    PROVE  /\ RowsAgree(D, {}, {}) /\ CountsAgree(D, {}, {}, c, Cardinality({})) /\ WindowsAgree(D, {}, ws)
           /\ FilesAgree(D, {}, c, {})
<1>1. Cardinality({}) = 0
  BY FS_EmptySet
<1>2. WithRows(D, {}) = {} /\ ReadWell(D, {}) = {} /\ Absent(D, {}) = {} /\ Rejected(D, {}) = {} /\ Silent(D, {}) = {}
  BY DEF WithRows, ReadWell, Absent, Rejected, Silent
<1>3. Seen(D, {}) = {}
  BY <1>2 DEF Seen
<1>4. Lengths(D, {}) = 0
  BY <1>2, FS_EmptySet, SumZero DEF Lengths
<1>5. RowsAgree(D, {}, {})
  BY <1>3 DEF RowsAgree
<1>6. CountsAgree(D, {}, {}, c, Cardinality({}))
  <2>1. /\ Cardinality(ReadWell(D, {})) = 0 /\ Cardinality(Rejected(D, {})) = 0
        /\ Cardinality(Absent(D, {})) = 0 /\ Cardinality(Silent(D, {})) = 0
    BY <1>1, <1>2
  <2>2. Cardinality(Absent(D, {})) + Cardinality(Silent(D, {})) = 0
    BY <2>1
  <2>3. Cardinality({}) + c.duplicates = 0
    BY <1>1
  <2>4. QED
    BY <1>4, <2>1, <2>2, <2>3 DEF CountsAgree
<1>7. WindowsAgree(D, {}, ws)
  BY DEF WindowsAgree
<1>8. FilesAgree(D, {}, c, {})
  BY <1>1 DEF FilesAgree
<1>9. QED
  BY <1>5, <1>6, <1>7, <1>8

LEMMA LoadInvEndManifests ==
    ASSUME TypeInv, LoadInv, EndManifests, pc' # "error"
    PROVE  LoadInv'
<1>1. /\ UNCHANGED <<diskVars, names, j, runs, sumVars>> /\ pc' = "files" /\ pc = "manifests" /\ todo = {}
      /\ todo' = ReadRuns
  BY DEF EndManifests, Abort
<1>2. Blank' /\ ManifestsInv'
  BY <1>1 DEF Blank, ManifestsInv
<1>3. ASSUME Good' PROVE ReadInv'
  <2>1. Good
    BY <1>1, <1>3, GoodKept
  <2>2. \A n \in ManifestNames : runs[n] = dir[n]
    BY <1>1, <2>1 DEF LoadInv, ManifestsInv
  <2>3. TypedDir(dir) /\ todo' = Manifests(dir)
    BY <1>1, <2>2, DirTyped
  <2>4. j = 1 /\ dir' = dir
    BY <1>1 DEF TypeInv, PhaseOK, diskVars
  <2>5. PICK t : t = Turn'
    OBVIOUS
  <2>6. ASSUME NEW e \in Entries(dir) PROVE ~(e[1] \notin todo' \/ (e[1] = t /\ e[2] < 1))
    <3>1. e[1] \in Manifests(dir) /\ e[2] \in DOMAIN dir[e[1]].files
      BY <2>3, <2>6, EntryFacts
    <3>2. dir[e[1]].files \in Seq(FileFields)
      BY <2>3, <3>1 DEF TypedDir, ManifestFields
    <3>3. e[2] \in Nat /\ ~(e[2] < 1)
      BY <3>1, <3>2
    <3>4. QED
      BY <2>3, <3>1, <3>3
  <2>7. Done' = {e \in Entries(dir) : e[1] \notin todo' \/ (e[1] = t /\ e[2] < 1)}
    BY <1>1, <2>4, <2>5 DEF Done
  <2>8. Done' = {}
    BY <2>6, <2>7
  <2>9. Taken' = {} /\ Ended' = {}
    BY <1>1, <2>3, <2>4, <2>8 DEF Taken, Ended
  <2>10. /\ cov.files = 0 /\ cov.verified = 0 /\ cov.missing = 0 /\ cov.partial = 0
         /\ cov.physical = 0 /\ cov.duplicates = 0 /\ DOMAIN windows = {} /\ rows = {} /\ listed = {}
    BY <1>1 DEF LoadInv, Blank, KnownProjects
  <2>11. cov' = cov /\ windows' = windows /\ rows' = {} /\ listed' = {} /\ runs' = runs
    BY <1>1, <2>10 DEF sumVars
  <2>12. /\ RowsAgree(dir, {}, {}) /\ CountsAgree(dir, {}, {}, cov, Cardinality({})) /\ WindowsAgree(dir, {}, windows)
         /\ FilesAgree(dir, {}, cov, {})
    BY <2>10, AccountsOfNothing
  <2>13. /\ RowsAgree(dir', Done', rows') /\ CountsAgree(dir', Done', Ended', cov', Cardinality(rows'))
         /\ WindowsAgree(dir', Ended', windows') /\ FilesAgree(dir', Taken', cov', listed')
    BY <2>4, <2>8, <2>9, <2>11, <2>12
  <2>14. \A a \in DOMAIN Run'.files : ~(a < j') \/ Sound(dir', <<Turn', a>>)
    <3>1. CASE todo' = {}
      BY <1>1, <3>1, <2>3 DEF Abort, EndManifests
    <3>2. CASE todo' # {}
      <4>1. Turn' \in todo'
        <5>1. todo' \subseteq Everything
          BY <2>3 DEF Manifests, Everything, Names
        <5>2. QED
          BY <3>2, <5>1, EarliestIsOne DEF Turn
      <4>2. Run' \in ManifestFields
        BY <2>2, <2>3, <2>11, <4>1 DEF Run, TypedDir, Manifests
      <4>3. QED
        BY <1>1, <2>4, <4>2 DEF ManifestFields
    <3>3. QED
      BY <3>1, <3>2
  <2>15. QED
    BY <1>1, <2>2, <2>4, <2>11, <2>13, <2>14 DEF ReadInv
<1>4. QED
  BY <1>2, <1>3 DEF LoadInv, ReadInv

\* A file whose account is closed.
LEMMA FileClosed ==
    ASSUME TypeInv, ReadInv, Reading, Good, todo # {}, j <= Len(Run.files),
           UNCHANGED <<diskVars, names, todo, runs, windows>>, j' = j + 1, pc' = "files",
           NEW F, F = Done \cup {<<Turn, j>>},
           RowsAgree(dir, F, rows'), CountsAgree(dir, F, Ended, cov', Cardinality(rows')),
           FilesAgree(dir, F, cov', listed'), whole' => whole /\ Sound(dir, <<Turn, j>>)
    PROVE  ReadInv'
<1>1. \A n \in ManifestNames : runs[n] = dir[n]
  BY DEF ReadInv
<1>2. /\ Turn' = Turn /\ Run' = Run /\ Ended' = Ended /\ Done' = F
  BY <1>1, DoneGrows
<1>3. Taken' = F
  BY <1>2 DEF Taken
<1>4. dir' = dir /\ runs' = runs /\ windows' = windows
  BY DEF diskVars
<1>5. \A n \in ManifestNames : runs'[n] = dir'[n]
  BY <1>1, <1>4
<1>6. WindowsAgree(dir, Ended, windows)
  BY DEF ReadInv
<1>7. ASSUME whole', NEW a \in DOMAIN Run'.files, a < j' PROVE Sound(dir', <<Turn', a>>)
  <2>1. a \in DOMAIN Run.files /\ whole /\ Sound(dir, <<Turn, j>>)
    BY <1>2, <1>7
  <2>2. a \in Nat /\ j \in Nat
    <3>1. DOMAIN Run.files = 1..Len(Run.files) /\ Len(Run.files) \in Nat
      BY <1>1, TurnFacts
    <3>2. QED
      BY <2>1, <3>1 DEF TypeInv, PhaseOK
  <2>3. a < j \/ a = j
    BY <1>7, <2>2
  <2>4. Sound(dir, <<Turn, a>>)
    BY <2>1, <2>3 DEF ReadInv
  <2>5. QED
    BY <1>2, <1>4, <2>4
<1>8. /\ RowsAgree(dir', Done', rows') /\ CountsAgree(dir', Done', Ended', cov', Cardinality(rows'))
      /\ WindowsAgree(dir', Ended', windows') /\ FilesAgree(dir', Taken', cov', listed')
  BY <1>2, <1>3, <1>4, <1>6
<1>9. QED
  BY <1>5, <1>7, <1>8 DEF ReadInv

\* The outcome of a file without rows to take.
LEMMA CountsSkipped ==
    ASSUME NEW D, TypedDir(D), NEW E, E \subseteq Entries(D), NEW e \in Entries(D), e \notin E,
           Sound(D, e) => Entry(D, e).table # "observations_v2", NEW M, NEW c, NEW n, CountsAgree(D, E, M, c, n),
           M \subseteq Manifests(D), NEW d, d.physical = c.physical, d.duplicates = c.duplicates,
           d.verified = c.verified + IF Sound(D, e) THEN 1 ELSE 0,
           d.missing = c.missing + IF Present(D, e) THEN 0 ELSE 1,
           d.partial = c.partial + IF Present(D, e) /\ ~Sound(D, e) THEN 1 ELSE 0
    PROVE  CountsAgree(D, E \cup {e}, M, d, n)
<1>1. /\ c.verified = Cardinality(ReadWell(D, E)) /\ c.partial = Cardinality(Rejected(D, E))
      /\ c.missing = Cardinality(Absent(D, E)) + Cardinality(Silent(D, M))
      /\ c.physical = Lengths(D, E) /\ c.physical = n + c.duplicates
  BY DEF CountsAgree
<1>2. Lengths(D, E \cup {e}) = Lengths(D, E)
  BY RowsSkipped
<1>3. d.verified = Cardinality(ReadWell(D, E \cup {e})) /\ d.partial = Cardinality(Rejected(D, E \cup {e}))
  BY <1>1, AccountMore
<1>4. d.missing = Cardinality(Absent(D, E \cup {e})) + Cardinality(Silent(D, M))
  <2>1. PICK k : k = IF Present(D, e) THEN 0 ELSE 1
    OBVIOUS
  <2>2. k \in Nat
    BY <2>1
  <2>3. Cardinality(Absent(D, E \cup {e})) = Cardinality(Absent(D, E)) + k
    BY <2>1, AccountMore
  <2>4. Cardinality(Absent(D, E)) \in Nat
    BY AccountTypes
  <2>5. Cardinality(Silent(D, M)) \in Nat
    <3>1. IsFiniteSet(Manifests(D)) /\ Silent(D, M) \in SUBSET Manifests(D)
      BY EntryFacts DEF Silent
    <3>2. QED
      BY <3>1, FS_Subset, FS_CardinalityType
  <2>6. d.missing = Cardinality(Absent(D, E)) + Cardinality(Silent(D, M)) + k
    BY <1>1, <2>1
  <2>7. QED
    BY ONLY <2>2, <2>3, <2>4, <2>5, <2>6
<1>5. QED
  BY <1>1, <1>2, <1>3, <1>4 DEF CountsAgree

\* The files: one more is opened.
LEMMA FilesMore ==
    ASSUME NEW D, NEW T, IsFiniteSet(T), NEW c, NEW paths, FilesAgree(D, T, c, paths), NEW e, e \notin T,
           NEW d, d.files = c.files + 1
    PROVE  FilesAgree(D, T \cup {e}, d, paths \cup {Entry(D, e).path})
<1>1. Cardinality(T \cup {e}) = Cardinality(T) + 1
  BY CountMore
<1>2. {Entry(D, x).path : x \in T \cup {e}} = {Entry(D, x).path : x \in T} \cup {Entry(D, e).path}
  OBVIOUS
<1>3. QED
  BY <1>1, <1>2 DEF FilesAgree

\* A listed file that is not there, or not with its size, or that is opened.
LEMMA LoadInvOpenListed ==
    ASSUME TypeInv, WalkInv, LoadInv, OpenListed, pc' # "error"
    PROVE  LoadInv'
<1>1. /\ pc = "files" /\ todo # {} /\ j <= Len(Run.files) /\ File.path # Elsewhere
      /\ UNCHANGED <<diskVars, todo, names, after, runs, gone, got, rows, windows, shown, atEnd>>
      /\ listed' = listed \cup {File.path}
      /\ \/ /\ names[File.path] = None /\ whole' = FALSE /\ j' = j + 1 /\ pc' = pc
            /\ cov' = Count(Count(cov, "files"), "missing")
         \/ /\ names[File.path] # None /\ names[File.path].size # File.size
            /\ whole' = FALSE /\ j' = j + 1 /\ pc' = pc
            /\ cov' = Count(Count(cov, "files"), "partial")
         \/ /\ names[File.path] # None /\ names[File.path].size = File.size /\ Opens(File.path)
            /\ pc' = "read" /\ cov' = Count(cov, "files") /\ UNCHANGED <<j, whole>>
  BY OpenCases DEF Abort
<1>2. Blank' /\ ManifestsInv'
  BY <1>1 DEF Blank, ManifestsInv
<1>3. ASSUME Good' PROVE ReadInv'
  <2>1. Good /\ Reading /\ ReadInv
    BY <1>1, <1>3, GoodKept DEF LoadInv, Reading
  <2>2. \A n \in ManifestNames : runs[n] = dir[n]
    BY <2>1 DEF ReadInv
  <2>3. PICK D, e, f : D = dir /\ e = <<Turn, j>> /\ f = File
    OBVIOUS
  <2>4. /\ TypedDir(D) /\ Done \subseteq Entries(D) /\ e \in Entries(D) /\ e \notin Done /\ Entry(D, e) = f
        /\ Ended \subseteq Manifests(D) /\ f \in FileFields
    BY <1>1, <2>1, <2>2, <2>3, TurnFacts
  <2>5. Walked(names, {})
    BY <1>1 DEF WalkInv, Left1
  <2>6. f.path \in DataNames /\ f.path \in Names /\ f.path \notin ManifestNames
    BY <1>1, <2>3, <2>4, LangfuseAssumption DEF FileFields, Names
  <2>7. /\ Present(D, e) <=> names[f.path] # None
        /\ Present(D, e) => names[f.path].size = FileBytes(D[f.path])
    BY <2>1, <2>3, <2>4, <2>5, <2>6, Inventoried DEF Present, Bytes
  <2>8. /\ RowsAgree(D, Done, rows) /\ CountsAgree(D, Done, Ended, cov, Cardinality(rows))
        /\ FilesAgree(D, Done, cov, listed)
    BY <1>1, <2>1, <2>3 DEF ReadInv, Taken
  <2>9. cov \in CovTypes /\ Count(cov, "files") \in CovTypes /\ IsFiniteSet(Done)
    BY <2>4, CountTypes, AccountTypes DEF TypeInv
  <2>10. PICK F : F = Done \cup {e}
    OBVIOUS
  <2>11. Count(cov, "files") = [cov EXCEPT !.files = cov.files + 1]
    BY <2>9, CountTypes
  <2>12. CASE names[File.path] = None \/ names[File.path].size # File.size
    <3>1. whole' = FALSE /\ j' = j + 1 /\ pc' = "files" /\ rows' = rows
      BY <1>1, <2>12
    <3>2. ~Sound(D, e)
      BY <2>3, <2>4, <2>7, <2>12 DEF Sound, Present
    <3>3. cov' = Count(Count(cov, "files"), IF Present(D, e) THEN "partial" ELSE "missing")
      BY <1>1, <2>3, <2>7, <2>12
    <3>4. /\ cov'.files = cov.files + 1 /\ cov'.physical = cov.physical /\ cov'.duplicates = cov.duplicates
          /\ cov'.verified = cov.verified
          /\ cov'.missing = cov.missing + IF Present(D, e) THEN 0 ELSE 1
          /\ cov'.partial = cov.partial + IF Present(D, e) /\ ~Sound(D, e) THEN 1 ELSE 0
      <4>1. CASE Present(D, e)
        <5>1. cov' = [[cov EXCEPT !.files = cov.files + 1] EXCEPT !.partial = cov.partial + 1]
          BY <2>9, <2>11, <3>3, <4>1, CountTypes DEF CovTypes
        <5>2. QED
          BY <2>9, <3>2, <4>1, <5>1 DEF CovTypes
      <4>2. CASE ~Present(D, e)
        <5>1. cov' = [[cov EXCEPT !.files = cov.files + 1] EXCEPT !.missing = cov.missing + 1]
          BY <2>9, <2>11, <3>3, <4>2, CountTypes DEF CovTypes
        <5>2. QED
          BY <2>9, <3>2, <4>2, <5>1 DEF CovTypes
      <4>3. QED
        BY <4>1, <4>2
    <3>5. RowsAgree(D, F, rows')
      BY <2>8, <2>10, <3>1, <3>2, RowsSkipped
    <3>6. CountsAgree(D, F, Ended, cov', Cardinality(rows'))
      <4>1. PICK d, m : d = cov' /\ m = Cardinality(rows)
        OBVIOUS
      <4>2. cov'.verified = cov.verified + IF Sound(D, e) THEN 1 ELSE 0
        BY <2>9, <3>2, <3>4 DEF CovTypes
      <4>3. CountsAgree(D, Done \cup {e}, Ended, d, m)
        BY <2>4, <2>8, <3>2, <3>4, <4>1, <4>2, CountsSkipped
      <4>4. QED
        BY <2>10, <3>1, <4>1, <4>3
    <3>7. FilesAgree(D, F, cov', listed')
      BY <1>1, <2>3, <2>4, <2>8, <2>9, <2>10, <3>4, FilesMore
    <3>8. QED
      BY <1>1, <2>1, <2>3, <2>10, <3>1, <3>5, <3>6, <3>7, FileClosed
  <2>13. CASE names[File.path] # None /\ names[File.path].size = File.size
    <3>1. pc' = "read" /\ cov' = Count(cov, "files") /\ UNCHANGED <<j, whole>>
      BY <1>1, <2>13
    <3>2. UNCHANGED <<dir, todo, runs, gone, got, rows, windows>>
      BY <1>1 DEF diskVars
    <3>3. Turn' = Turn /\ Run' = Run /\ File' = File /\ Done' = Done /\ Ended' = Ended
      BY <3>1, <3>2 DEF Turn, Run, File, Done, Ended
    <3>4. Taken' = F
      <4>1. Taken' = Done \cup {x \in Entries(D) : x = e}
        BY <2>3, <3>1, <3>2, <3>3 DEF Taken
      <4>2. QED
        BY <2>4, <2>10, <4>1
    <3>5. FilesAgree(D, F, cov', listed')
      <4>1. cov'.files = cov.files + 1
        BY <2>9, <2>11, <3>1 DEF CovTypes
      <4>2. QED
        BY <1>1, <2>3, <2>4, <2>8, <2>9, <2>10, <4>1, FilesMore
    <3>6. CountsAgree(D, Done, Ended, cov', Cardinality(rows))
      <4>1. /\ cov'.verified = cov.verified /\ cov'.partial = cov.partial /\ cov'.missing = cov.missing
            /\ cov'.physical = cov.physical /\ cov'.duplicates = cov.duplicates
        BY <2>9, <2>11, <3>1 DEF CovTypes
      <4>2. QED
        BY <2>8, <4>1 DEF CountsAgree
    <3>7. OpenAgrees'
      <4>1. gone = None /\ got = <<>>
        BY <1>1 DEF TypeInv, OpenOK
      <4>2. FileBytes(D[f.path]) = f.size
        BY <2>3, <2>7, <2>13
      <4>3. D[f.path] \in Seq(RowFields \cup {Torn})
        <5>1. D[f.path] # None
          BY <2>3, <2>4, <2>7, <2>13 DEF Present
        <5>2. f.path \in DataFiles(D)
          BY <2>6, <5>1 DEF DataFiles
        <5>3. QED
          BY <2>4, <5>2 DEF TypedDir
      <4>4. Begins(<<>>, D[f.path])
        BY <4>3 DEF Begins
      <4>5. got' = <<>> /\ gone' = None /\ dir' = D /\ File' = f
        BY <2>3, <3>2, <3>3, <4>1
      <4>6. QED
        BY <4>2, <4>4, <4>5 DEF OpenAgrees
    <3>8. /\ RowsAgree(dir', Done', rows') /\ CountsAgree(dir', Done', Ended', cov', Cardinality(rows'))
          /\ WindowsAgree(dir', Ended', windows') /\ FilesAgree(dir', Taken', cov', listed')
      <4>1. WindowsAgree(dir, Ended, windows)
        BY <2>1 DEF ReadInv
      <4>2. QED
        BY <2>3, <2>8, <3>2, <3>3, <3>4, <3>5, <3>6, <4>1
    <3>9. todo' # {} /\ whole' => \A a \in DOMAIN Run'.files : a < j' => Sound(dir', <<Turn', a>>)
      BY <2>1, <3>1, <3>2, <3>3 DEF ReadInv
    <3>10. \A n \in ManifestNames : runs'[n] = dir'[n]
      BY <2>2, <3>2
    <3>11. QED
      BY <3>7, <3>8, <3>9, <3>10 DEF ReadInv
  <2>14. QED
    BY <2>12, <2>13
<1>4. QED
  BY <1>2, <1>3 DEF LoadInv, ReadInv

\* The open file as an entry of the directory.
LEMMA OpenFacts ==
    ASSUME TypeInv, LoadInv, pc = "read", Good
    PROVE  /\ Reading /\ todo # {} /\ j <= Len(Run.files) /\ \A n \in ManifestNames : runs[n] = dir[n]
           /\ TypedDir(dir) /\ <<Turn, j>> \in Entries(dir) /\ <<Turn, j>> \notin Done /\ Done \subseteq Entries(dir)
           /\ Taken = Done \cup {<<Turn, j>>} /\ Entry(dir, <<Turn, j>>) = File /\ Ended \subseteq Manifests(dir)
           /\ File \in FileFields /\ Opened = dir[File.path] /\ Opened # None /\ Opened \in Seq(RowFields \cup {Torn})
           /\ Present(dir, <<Turn, j>>) /\ dir[Turn] = Run
<1>1. Reading /\ ReadInv
  BY DEF Reading, LoadInv
<1>2. todo # {} /\ j <= Len(Run.files) /\ \A n \in ManifestNames : runs[n] = dir[n]
  BY <1>1 DEF TypeInv, OpenOK, ReadInv
<1>3. /\ TypedDir(dir) /\ <<Turn, j>> \in Entries(dir) /\ <<Turn, j>> \notin Done /\ Done \subseteq Entries(dir)
      /\ Entry(dir, <<Turn, j>>) = File /\ Ended \subseteq Manifests(dir) /\ File \in FileFields /\ dir[Turn] = Run
  BY <1>1, <1>2, TurnFacts
<1>4. gone = None
  BY <1>1 DEF ReadInv, OpenAgrees
<1>5. Opened = dir[File.path] /\ dir[File.path] # None
  BY <1>4 DEF Opened, TypeInv, OpenOK
<1>6. Opened \in Seq(RowFields \cup {Torn})
  BY OpenedType
<1>7. Taken = Done \cup {<<Turn, j>>}
  <2>1. PICK e \in Entries(dir) : e = <<Turn, j>>
    BY <1>3
  <2>2. Taken = Done \cup {x \in Entries(dir) : x = e}
    BY <2>1 DEF Taken
  <2>3. QED
    BY <2>1, <2>2
<1>8. Present(dir, <<Turn, j>>)
  BY <1>3, <1>5 DEF Present
<1>9. QED
  BY <1>1, <1>2, <1>3, <1>5, <1>6, <1>7, <1>8

\* A file that turns out not to be sound.
LEMMA LoadInvDiscard ==
    ASSUME TypeInv, LoadInv, pc = "read", Discard, Good => ~Sound(dir, <<Turn, j>>)
    PROVE  LoadInv'
<1>1. /\ j' = j + 1 /\ pc' = "files" /\ cov' = Count(cov, "partial") /\ whole' = FALSE
      /\ UNCHANGED <<diskVars, todo, names, after, runs, listed, rows, windows, shown, atEnd>>
  BY DEF Discard, Close
<1>2. Blank' /\ ManifestsInv'
  BY <1>1 DEF Blank, ManifestsInv
<1>3. ASSUME Good' PROVE ReadInv'
  <2>1. Good
    BY <1>1, <1>3, GoodKept
  <2>2. PICK D, e : D = dir /\ e = <<Turn, j>>
    OBVIOUS
  <2>3. /\ Reading /\ todo # {} /\ j <= Len(Run.files)
        /\ TypedDir(D) /\ e \in Entries(D) /\ e \notin Done /\ Done \subseteq Entries(D)
        /\ Taken = Done \cup {e} /\ Entry(D, e) = File /\ Ended \subseteq Manifests(D) /\ Present(D, e)
    BY <2>1, <2>2, OpenFacts
  <2>4. ReadInv /\ ~Sound(D, e)
    BY <2>1, <2>2 DEF LoadInv
  <2>5. /\ RowsAgree(D, Done, rows) /\ CountsAgree(D, Done, Ended, cov, Cardinality(rows))
        /\ FilesAgree(D, Done \cup {e}, cov, listed)
    BY <2>1, <2>2, <2>3, <2>4 DEF ReadInv
  <2>6. cov \in CovTypes /\ cov' = [cov EXCEPT !.partial = cov.partial + 1]
    BY <1>1, CountTypes DEF TypeInv
  <2>7. /\ cov'.files = cov.files /\ cov'.physical = cov.physical /\ cov'.duplicates = cov.duplicates
        /\ cov'.verified = cov.verified + IF Sound(D, e) THEN 1 ELSE 0
        /\ cov'.missing = cov.missing + IF Present(D, e) THEN 0 ELSE 1
        /\ cov'.partial = cov.partial + IF Present(D, e) /\ ~Sound(D, e) THEN 1 ELSE 0
    BY <2>3, <2>4, <2>6 DEF CovTypes
  <2>8. PICK F : F = Done \cup {e}
    OBVIOUS
  <2>9. RowsAgree(D, F, rows')
    BY <1>1, <2>4, <2>5, <2>8, RowsSkipped
  <2>10. CountsAgree(D, F, Ended, cov', Cardinality(rows'))
    <3>1. PICK d, m : d = cov' /\ m = Cardinality(rows)
      OBVIOUS
    <3>2. CountsAgree(D, Done \cup {e}, Ended, d, m)
      BY <2>3, <2>4, <2>5, <2>7, <3>1, CountsSkipped
    <3>3. QED
      BY <1>1, <2>8, <3>1, <3>2
  <2>11. FilesAgree(D, F, cov', listed')
    BY <1>1, <2>5, <2>7, <2>8 DEF FilesAgree
  <2>12. QED
    BY <1>1, <2>1, <2>2, <2>3, <2>4, <2>8, <2>9, <2>10, <2>11, FileClosed
<1>4. QED
  BY <1>2, <1>3 DEF LoadInv, ReadInv

\* A row.
LEMMA LoadInvReadRow ==
    ASSUME TypeInv, LoadInv, ReadRow, pc' # "error"
    PROVE  LoadInv'
<1>1. PICK row : row = Opened[Len(got) + 1]
  OBVIOUS
<1>2. pc = "read" /\ Len(got) < Len(Opened) /\ ~Exceeds(row)
  BY <1>1 DEF ReadRow, Abort
<1>3. Opened \in Seq(RowFields \cup {Torn}) /\ got \in Seq(RowFields)
  BY <1>2, OpenedType DEF TypeInv, GotOK
<1>4. Len(got) + 1 \in DOMAIN Opened /\ Len(got) \in Nat /\ DOMAIN Opened = 1..Len(Opened) /\ DOMAIN got = 1..Len(got)
  BY <1>2, <1>3
<1>5. CASE Unusable(row)
  <2>1. Discard
    BY <1>1, <1>2, <1>5 DEF ReadRow
  <2>2. ASSUME Good PROVE ~Sound(dir, <<Turn, j>>)
    <3>1. PICK D, e, c : D = dir /\ e = <<Turn, j>> /\ c = Opened
      OBVIOUS
    <3>2. Entry(D, e) = File /\ c = D[File.path] /\ D[Turn] = Run
      BY <1>2, <2>2, <3>1, OpenFacts
    <3>3. SUFFICES ASSUME Sound(D, e) PROVE FALSE
      BY <3>1
    <3>4. /\ Torn \notin ToSet(c)
          /\ Observations => \A i \in DOMAIN c : c[i].kind # "broken" /\ Belongs(c[i], Run)
      BY <3>1, <3>2, <3>3 DEF Sound, Observations
    <3>5. row # Torn
      BY <1>1, <1>4, <3>1, <3>4 DEF ToSet
    <3>6. Observations /\ (row.kind = "broken" \/ ~Belongs(row, Run))
      BY <1>5, <3>5 DEF Unusable, Observations
    <3>7. QED
      BY <1>1, <1>4, <3>1, <3>4, <3>6
  <2>3. QED
    BY <1>2, <2>1, <2>2, LoadInvDiscard
<1>6. CASE ~Unusable(row)
  <2>1. /\ got' = Append(got, row)
        /\ UNCHANGED <<diskVars, pc, todo, names, after, runs, j, gone, sumVars, shown, atEnd>>
    BY <1>1, <1>2, <1>6 DEF ReadRow
  <2>2. Blank' /\ ManifestsInv'
    BY <1>2, <2>1 DEF Blank, ManifestsInv
  <2>3. ASSUME Good' PROVE ReadInv'
    <3>1. Good /\ ReadInv /\ Reading
      BY <1>2, <2>1, <2>3, GoodKept DEF LoadInv, Reading
    <3>2. UNCHANGED <<dir, pc, todo, runs, j, gone, whole, listed, rows, windows, cov>>
      BY <2>1 DEF diskVars, sumVars
    <3>3. /\ Turn' = Turn /\ Run' = Run /\ File' = File /\ Done' = Done /\ Ended' = Ended /\ Taken' = Taken
          /\ (Observations' <=> Observations)
      BY <3>2 DEF Turn, Run, File, Done, Ended, Taken, Observations
    <3>4. OpenAgrees
      BY <1>2, <3>1 DEF ReadInv
    <3>5. Opened = dir[File.path]
      BY <1>2, <3>1, OpenFacts
    <3>6. row \in RowFields \cup {Torn} /\ row # Torn
      BY <1>1, <1>3, <1>4, <1>6 DEF Unusable
    <3>7. Observations => row.kind # "broken" /\ Belongs(row, Run)
      BY <1>6 DEF Unusable, Observations
    <3>8. /\ Len(got') = Len(got) + 1 /\ DOMAIN got' = 1..(Len(got) + 1)
          /\ \A i \in DOMAIN got' : got'[i] = IF i = Len(got) + 1 THEN row ELSE got[i]
      BY <1>3, <2>1, <3>6
    <3>9. Begins(got', Opened)
      <4>1. Len(got') <= Len(Opened)
        BY <1>2, <1>3, <3>8
      <4>2. ASSUME NEW i \in DOMAIN got' PROVE got'[i] = Opened[i]
        <5>1. CASE i = Len(got) + 1
          BY <1>1, <3>8, <5>1
        <5>2. CASE i # Len(got) + 1
          <6>1. i \in DOMAIN got
            BY <1>4, <3>8, <5>2
          <6>2. QED
            BY <3>4, <3>5, <3>8, <5>2, <6>1 DEF OpenAgrees, Begins
        <5>3. QED
          BY <5>1, <5>2
      <4>3. QED
        BY <4>1, <4>2 DEF Begins
    <3>10. ASSUME NEW i \in DOMAIN got'
           PROVE  got'[i] # Torn /\ (Observations => got'[i].kind # "broken" /\ Belongs(got'[i], Run))
      <4>1. CASE i = Len(got) + 1
        BY <3>6, <3>7, <3>8, <4>1
      <4>2. CASE i # Len(got) + 1
        <5>1. i \in DOMAIN got
          BY <1>4, <3>8, <4>2
        <5>2. QED
          BY <3>4, <3>8, <4>2, <5>1 DEF OpenAgrees
      <4>3. QED
        BY <4>1, <4>2
    <3>11. OpenAgrees'
      BY <3>2, <3>3, <3>4, <3>5, <3>9, <3>10 DEF OpenAgrees
    <3>12. /\ RowsAgree(dir', Done', rows') /\ CountsAgree(dir', Done', Ended', cov', Cardinality(rows'))
           /\ WindowsAgree(dir', Ended', windows') /\ FilesAgree(dir', Taken', cov', listed')
      BY <3>1, <3>2, <3>3 DEF ReadInv
    <3>13. todo' # {} /\ whole' => \A a \in DOMAIN Run'.files : a < j' => Sound(dir', <<Turn', a>>)
      BY <3>1, <3>2, <3>3 DEF ReadInv
    <3>14. \A n \in ManifestNames : runs'[n] = dir'[n]
      BY <3>1, <3>2 DEF ReadInv
    <3>15. QED
      BY <3>11, <3>12, <3>13, <3>14 DEF ReadInv
  <2>4. QED
    BY <2>2, <2>3 DEF LoadInv, ReadInv
<1>7. QED
  BY <1>5, <1>6

\* A file that was read to its end, and is as listed, is sound.
LEMMA ReadSound ==
    ASSUME TypeInv, LoadInv, pc = "read", Len(got) >= Len(Opened), Good
    PROVE  got = dir[File.path] /\ (AsListed <=> Sound(dir, <<Turn, j>>))
<1>1. Opened \in Seq(RowFields \cup {Torn}) /\ got \in Seq(RowFields)
  BY OpenedType DEF TypeInv, GotOK
<1>2. OpenAgrees /\ Opened = dir[File.path] /\ Opened # None
  BY OpenFacts DEF LoadInv, ReadInv, Reading
<1>3. got = dir[File.path]
  BY <1>1, <1>2, BeginsAll DEF OpenAgrees
<1>4. PICK D, e : D = dir /\ e = <<Turn, j>>
  OBVIOUS
<1>5. Entry(D, e) = File /\ D[File.path] = got /\ D[File.path] # None /\ D[Turn] = Run /\ e[1] = Turn
  BY <1>2, <1>3, <1>4, OpenFacts
<1>6. Torn \notin ToSet(got) /\ (Observations => \A i \in DOMAIN got : got[i].kind # "broken" /\ Belongs(got[i], Run))
  BY <1>2 DEF OpenAgrees, ToSet
<1>7. AsListed <=> Sound(D, e)
  BY <1>5, <1>6 DEF Sound, AsListed, Observations
<1>8. QED
  BY <1>3, <1>4, <1>7

\* The end of a file.
LEMMA LoadInvEndRead ==
    ASSUME TypeInv, LoadInv, EndRead, pc' # "error"
    PROVE  LoadInv'
<1>1. pc = "read" /\ Len(got) >= Len(Opened)
  BY DEF EndRead
<1>2. Opened \in Seq(RowFields \cup {Torn}) /\ got \in Seq(RowFields)
  BY <1>1, OpenedType DEF TypeInv, GotOK
<1>3. ASSUME Good PROVE got = dir[File.path] /\ (AsListed <=> Sound(dir, <<Turn, j>>))
  BY <1>1, <1>3, ReadSound
<1>4. CASE ~AsListed
  <2>1. Discard
    BY <1>1, <1>4 DEF EndRead
  <2>2. ASSUME Good PROVE ~Sound(dir, <<Turn, j>>)
    BY <1>3, <1>4, <2>2
  <2>3. QED
    BY <1>1, <2>1, <2>2, LoadInvDiscard
<1>5. CASE AsListed
  <2>1. /\ j' = j + 1 /\ pc' = "files" /\ ~(Observations /\ Refused)
        /\ rows' = (IF Observations THEN Merged ELSE rows)
        /\ cov' = Verified(Cardinality(rows') - Cardinality(rows))
        /\ UNCHANGED <<diskVars, todo, names, after, runs, whole, listed, windows, shown, atEnd>>
    BY <1>1, <1>5 DEF EndRead, Close, Abort
  <2>2. Blank' /\ ManifestsInv'
    BY <2>1 DEF Blank, ManifestsInv
  <2>3. ASSUME Good' PROVE ReadInv'
    <3>1. Good /\ ReadInv
      BY <2>1, <2>3, GoodKept DEF LoadInv
    <3>2. PICK D, e : D = dir /\ e = <<Turn, j>>
      OBVIOUS
    <3>3. /\ Reading /\ todo # {} /\ j <= Len(Run.files)
          /\ TypedDir(D) /\ e \in Entries(D) /\ e \notin Done /\ Done \subseteq Entries(D)
          /\ Taken = Done \cup {e} /\ Entry(D, e) = File /\ Ended \subseteq Manifests(D) /\ Present(D, e)
          /\ Opened # None /\ Opened = D[File.path] /\ D[Turn] = Run
      BY <1>1, <3>1, <3>2, OpenFacts
    <3>4. /\ RowsAgree(D, Done, rows) /\ CountsAgree(D, Done, Ended, cov, Cardinality(rows))
          /\ FilesAgree(D, Done \cup {e}, cov, listed) /\ OpenAgrees
      BY <1>1, <3>1, <3>2, <3>3 DEF ReadInv
    <3>5. got = D[File.path] /\ cov \in CovTypes
      BY <1>3, <3>1, <3>2 DEF TypeInv
    <3>6. Sound(D, e)
      BY <1>3, <1>5, <3>1, <3>2
    <3>7. PICK F : F = Done \cup {e}
      OBVIOUS
    <3>8. whole' => whole /\ Sound(dir, <<Turn, j>>)
      BY <2>1, <3>2, <3>6
    <3>9. PICK fresh, n : /\ fresh = Cardinality(rows') - Cardinality(rows)
                          /\ n = IF Observations THEN Len(got) ELSE 0
      OBVIOUS
    <3>10. cov' = [cov EXCEPT !.verified = cov.verified + 1, !.physical = cov.physical + n,
                              !.duplicates = cov.duplicates + n - fresh]
      BY <2>1, <3>9 DEF Verified
    <3>11. /\ cov'.files = cov.files /\ cov'.verified = cov.verified + 1 /\ cov'.missing = cov.missing
           /\ cov'.partial = cov.partial /\ cov'.physical = cov.physical + n
           /\ cov'.duplicates = cov.duplicates + n - fresh
      BY <3>5, <3>10 DEF CovTypes
    <3>12. FilesAgree(D, F, cov', listed')
      BY <2>1, <3>4, <3>7, <3>11 DEF FilesAgree
    <3>13. RowsAgree(D, F, rows')
      <4>1. CASE Observations
        <5>1. ~Conflict /\ rows' = Merged
          BY <2>1, <4>1 DEF Refused
        <5>2. Seen(D, F) = Seen(D, Done) \cup ToSet(got)
          BY <3>3, <3>5, <3>6, <3>7, <4>1, RowsTaken DEF Observations
        <5>3. PICK E : E = Done
          OBVIOUS
        <5>4. RowsAgree(D, F, Merged)
          BY <1>2, <3>4, <5>1, <5>2, <5>3, MergedAgree
        <5>5. QED
          BY <5>1, <5>4
      <4>2. CASE ~Observations
        BY <2>1, <3>3, <3>4, <3>7, <4>2, RowsSkipped DEF Observations
      <4>3. QED
        BY <4>1, <4>2
    <3>14. CountsAgree(D, F, Ended, cov', Cardinality(rows'))
      <4>1. /\ cov.verified = Cardinality(ReadWell(D, Done)) /\ cov.partial = Cardinality(Rejected(D, Done))
            /\ cov.missing = Cardinality(Absent(D, Done)) + Cardinality(Silent(D, Ended))
            /\ cov.physical = Lengths(D, Done) /\ cov.physical = Cardinality(rows) + cov.duplicates
        BY <3>4 DEF CountsAgree
      <4>2. /\ Cardinality(ReadWell(D, F)) = cov.verified + 1 /\ Cardinality(Absent(D, F)) = Cardinality(Absent(D, Done))
            /\ Cardinality(Rejected(D, F)) = cov.partial
        <5>1. /\ Cardinality(ReadWell(D, F)) = Cardinality(ReadWell(D, Done)) + IF Sound(D, e) THEN 1 ELSE 0
              /\ Cardinality(Absent(D, F)) = Cardinality(Absent(D, Done)) + IF Present(D, e) THEN 0 ELSE 1
              /\ Cardinality(Rejected(D, F)) =
                    Cardinality(Rejected(D, Done)) + IF Present(D, e) /\ ~Sound(D, e) THEN 1 ELSE 0
          BY <3>3, <3>7, AccountMore
        <5>2. Cardinality(Absent(D, Done)) \in Nat /\ Cardinality(Rejected(D, Done)) \in Nat
          BY <3>3, AccountTypes
        <5>3. QED
          BY <3>3, <3>6, <4>1, <5>1, <5>2
      <4>3. Lengths(D, F) = cov.physical + n
        <5>1. Lengths(D, Done) \in Nat
          BY <3>3, AccountTypes
        <5>2. CASE Observations
          <6>1. Lengths(D, F) = Lengths(D, Done) + Len(got)
            BY <3>3, <3>5, <3>6, <3>7, <5>2, RowsTaken DEF Observations
          <6>2. QED
            BY <3>9, <4>1, <5>2, <6>1
        <5>3. CASE ~Observations
          <6>1. Lengths(D, F) = Lengths(D, Done)
            BY <3>3, <3>7, <5>3, RowsSkipped DEF Observations
          <6>2. n = 0 /\ cov.physical \in Nat /\ Lengths(D, F) = cov.physical
            BY <3>9, <4>1, <5>1, <5>3, <6>1
          <6>3. QED
            BY ONLY <6>2
        <5>4. QED
          BY <5>2, <5>3
      <4>4. cov.physical + n = Cardinality(rows') + (cov.duplicates + n - fresh)
        <5>1. PICK a, b, p, d : a = Cardinality(rows) /\ b = Cardinality(rows') /\ p = cov.physical /\ d = cov.duplicates
          OBVIOUS
        <5>2. a \in Nat
          BY <5>1, FS_CardinalityType DEF TypeInv, RowsOK
        <5>3. b \in Nat
          <6>1. IsFiniteSet(rows')
            BY <2>1, MergedTypes, <1>2 DEF TypeInv, RowsOK
          <6>2. QED
            BY <5>1, <6>1, FS_CardinalityType
        <5>4. p \in Nat /\ d \in Int /\ n \in Nat
          BY <1>2, <3>5, <3>9, <5>1 DEF CovTypes
        <5>5. p = a + d /\ fresh = b - a
          BY <3>9, <4>1, <5>1
        <5>6. p + n = b + (d + n - fresh)
          BY ONLY <5>2, <5>3, <5>4, <5>5
        <5>7. QED
          BY <5>1, <5>6
      <4>5. QED
        BY <3>11, <4>1, <4>2, <4>3, <4>4 DEF CountsAgree
    <3>15. QED
      BY <2>1, <3>1, <3>2, <3>3, <3>7, <3>8, <3>12, <3>13, <3>14, FileClosed
  <2>4. QED
    BY <2>2, <2>3 DEF LoadInv, ReadInv
<1>6. QED
  BY <1>4, <1>5

\* The windows once a run has ended.
LEMMA WindowsGrow ==
    ASSUME NEW D, NEW M, WindowsAgree(D, M, windows), NEW n, Run = D[n], Covers => Complete(D, n)
    PROVE  WindowsAgree(D, M \cup {n}, WindowsAfter)
<1>1. PICK p : p = Run.project
  OBVIOUS
<1>2. PICK w : w = [start |-> Run.start, end |-> Run.end]
  OBVIOUS
<1>3. /\ DOMAIN windows = {D[m].project : m \in M}
      /\ \A q \in DOMAIN windows : \A v \in windows[q] :
            \E m \in M : D[m].project = q /\ Complete(D, m) /\ v = [start |-> D[m].start, end |-> D[m].end]
  BY DEF WindowsAgree
<1>4. PICK ws : ws = WindowsAfter
  OBVIOUS
<1>5. /\ DOMAIN ws = DOMAIN windows \cup {p}
      /\ \A q \in DOMAIN ws : ws[q] = IF q = p /\ Covers THEN WindowsOf(q) \cup {w} ELSE WindowsOf(q)
  BY <1>1, <1>2, <1>4 DEF WindowsAfter, KnownProjects
<1>6. DOMAIN ws = {D[m].project : m \in M \cup {n}}
  BY <1>1, <1>3, <1>5
<1>7. ASSUME NEW q \in DOMAIN ws, NEW v \in ws[q]
      PROVE  \E m \in M \cup {n} : D[m].project = q /\ Complete(D, m) /\ v = [start |-> D[m].start, end |-> D[m].end]
  <2>1. CASE v \in WindowsOf(q)
    <3>1. q \in DOMAIN windows /\ v \in windows[q]
      BY <2>1 DEF WindowsOf, KnownProjects
    <3>2. QED
      BY <1>3, <3>1
  <2>2. CASE v \notin WindowsOf(q)
    <3>1. q = p /\ Covers /\ v = w
      BY <1>5, <1>7, <2>2
    <3>2. QED
      BY <1>1, <1>2, <3>1
  <2>3. QED
    BY <2>1, <2>2
<1>8. WindowsAgree(D, M \cup {n}, ws)
  BY <1>6, <1>7 DEF WindowsAgree
<1>9. QED
  BY <1>4, <1>8

\* Once the last file of a run is done, its account is that of the others.
LEMMA RunDone ==
    ASSUME TypeInv, pc = "files", todo # {}, j > Len(Run.files), \A n \in ManifestNames : runs[n] = dir[n],
           UNCHANGED <<diskVars, pc, runs>>, todo' = todo \ {Turn}, j' = 1
    PROVE  /\ Done' = Done /\ Taken' = Done' /\ Ended' = Ended \cup {Turn}
           /\ todo' # {} => \A a \in DOMAIN Run'.files : ~(a < 1)
<1>1. TypedDir(dir) /\ Turn \in todo /\ Turn \in Manifests(dir) /\ dir[Turn] = Run /\ Len(Run.files) \in Nat
  BY TurnFacts DEF Reading
<1>2. PICK D, n, k, t : D = dir /\ n = Turn /\ k = j /\ t = Turn'
  OBVIOUS
<1>3. k \in Nat
  BY <1>2 DEF TypeInv, PhaseOK
<1>4. \A e \in Entries(D) : e[1] \in Manifests(D) /\ e[2] \in Nat \ {0} /\ e[2] <= Len(D[e[1]].files)
  <2> SUFFICES ASSUME NEW e \in Entries(D)
               PROVE  e[1] \in Manifests(D) /\ e[2] \in Nat \ {0} /\ e[2] <= Len(D[e[1]].files)
    OBVIOUS
  <2>1. e[1] \in Manifests(D) /\ e[2] \in DOMAIN D[e[1]].files
    BY <1>1, <1>2, EntryFacts
  <2>2. D[e[1]].files \in Seq(FileFields)
    BY <1>1, <1>2, <2>1 DEF TypedDir, ManifestFields
  <2>3. QED
    BY <2>1, <2>2
<1>5. Done = {e \in Entries(D) : e[1] \notin todo \/ (e[1] = n /\ e[2] < k)}
  BY <1>2 DEF Done
<1>6. Done' = {e \in Entries(D) : e[1] \notin todo \ {n} \/ (e[1] = t /\ e[2] < 1)}
  BY <1>2 DEF Done, diskVars
<1>7. ASSUME NEW e \in Entries(D) PROVE e \in Done' <=> e \in Done
  <2>1. e[2] \in Nat \ {0} /\ e[2] <= Len(D[e[1]].files)
    BY <1>4
  <2>2. e[1] = n => e[2] < k
    <3> SUFFICES ASSUME e[1] = n PROVE e[2] < k
      OBVIOUS
    <3>1. Len(D[e[1]].files) = Len(Run.files)
      BY <1>1, <1>2
    <3>2. QED
      BY <1>1, <1>2, <1>3, <2>1, <3>1
  <2>3. ~(e[2] < 1)
    BY <2>1
  <2>4. QED
    BY <1>1, <1>2, <1>5, <1>6, <2>2, <2>3
<1>8. Done' = Done
  BY <1>5, <1>6, <1>7
<1>9. Taken' = Done'
  BY DEF Taken
<1>10. Ended' = Ended \cup {Turn}
  BY <1>1 DEF Ended, diskVars
<1>11. ASSUME todo' # {}, NEW a \in DOMAIN Run'.files PROVE ~(a < 1)
  <2>1. todo' \subseteq ReadRuns /\ ReadRuns = Manifests(dir)
    BY DirTyped DEF TypeInv, PhaseOK, Reading
  <2>2. Turn' \in todo'
    <3>1. todo' \subseteq Everything
      BY <2>1 DEF Manifests, Everything, Names
    <3>2. QED
      BY <1>11, <3>1, EarliestIsOne DEF Turn
  <2>3. Run' = runs[t] /\ t \in Manifests(dir) /\ t \in ManifestNames
    BY <1>2, <2>1, <2>2 DEF Run, Manifests
  <2>4. Run' \in ManifestFields
    BY <1>1, <2>3 DEF TypedDir
  <2>5. QED
    BY <1>11, <2>4 DEF ManifestFields
<1>12. QED
  BY <1>8, <1>9, <1>10, <1>11

\* The end of a run.
LEMMA LoadInvEndRun ==
    ASSUME TypeInv, LoadInv, EndRun
    PROVE  LoadInv'
<1>1. /\ pc = "files" /\ todo # {} /\ j > Len(Run.files)
      /\ windows' = WindowsAfter /\ cov' = (IF HasObservations(Run) THEN cov ELSE Count(cov, "missing"))
      /\ todo' = todo \ {Turn} /\ j' = 1 /\ whole' = TRUE
      /\ UNCHANGED <<diskVars, pc, names, after, runs, gone, got, listed, rows, shown, atEnd>>
  BY DEF EndRun
<1>2. Blank' /\ ManifestsInv'
  BY <1>1 DEF Blank, ManifestsInv
<1>3. ASSUME Good' PROVE ReadInv'
  <2>1. Good /\ ReadInv /\ Reading
    BY <1>1, <1>3, GoodKept DEF LoadInv, Reading
  <2>2. \A n \in ManifestNames : runs[n] = dir[n]
    BY <2>1 DEF ReadInv
  <2>3. PICK D, n : D = dir /\ n = Turn
    OBVIOUS
  <2>4. /\ TypedDir(D) /\ Done \subseteq Entries(D) /\ Ended \subseteq Manifests(D) /\ n \in Manifests(D)
        /\ D[n] = Run /\ n \notin Ended /\ DOMAIN Run.files = 1..Len(Run.files) /\ Len(Run.files) \in Nat
    BY <1>1, <2>1, <2>2, <2>3, TurnFacts
  <2>5. /\ Done' = Done /\ Taken' = Done /\ Ended' = Ended \cup {n}
        /\ todo' # {} => \A a \in DOMAIN Run'.files : ~(a < 1)
    BY <1>1, <2>2, <2>3, RunDone
  <2>6. /\ RowsAgree(D, Done, rows) /\ CountsAgree(D, Done, Ended, cov, Cardinality(rows))
        /\ WindowsAgree(D, Ended, windows) /\ FilesAgree(D, Done, cov, listed)
    BY <1>1, <2>1, <2>3 DEF ReadInv, Taken
  <2>7. Covers => Complete(D, n)
    <3> SUFFICES ASSUME whole, NEW a \in DOMAIN D[n].files PROVE Sound(D, <<n, a>>)
      BY DEF Covers, Complete
    <3>1. a \in DOMAIN Run.files /\ a < j
      BY <1>1, <2>4 DEF TypeInv, PhaseOK
    <3>2. QED
      BY <1>1, <2>1, <2>3, <3>1 DEF ReadInv
  <2>8. WindowsAgree(D, Ended \cup {n}, windows')
    <3>1. PICK M : M = Ended
      OBVIOUS
    <3>2. WindowsAgree(D, M \cup {n}, WindowsAfter)
      BY <2>4, <2>6, <2>7, <3>1, WindowsGrow
    <3>3. QED
      BY <1>1, <3>1, <3>2
  <2>9. /\ cov'.files = cov.files /\ cov'.verified = cov.verified /\ cov'.partial = cov.partial
        /\ cov'.physical = cov.physical /\ cov'.duplicates = cov.duplicates
        /\ cov'.missing = cov.missing + IF HasObservations(D[n]) THEN 0 ELSE 1
    <3>1. cov \in CovTypes
      BY DEF TypeInv
    <3>2. CASE HasObservations(Run)
      <4>1. cov' = cov
        BY <1>1, <3>2
      <4>2. QED
        BY <2>4, <3>1, <3>2, <4>1 DEF CovTypes
    <3>3. CASE ~HasObservations(Run)
      <4>1. cov' = [cov EXCEPT !.missing = cov.missing + 1]
        BY <1>1, <3>1, <3>3, CountTypes
      <4>2. QED
        BY <2>4, <3>1, <3>3, <4>1 DEF CovTypes
    <3>4. QED
      BY <3>2, <3>3
  <2>10. CountsAgree(D, Done, Ended \cup {n}, cov', Cardinality(rows))
    <3>1. PICK M, k, s, t, x : /\ M = Ended /\ k = (IF HasObservations(D[n]) THEN 0 ELSE 1)
                               /\ s = Cardinality(Silent(D, M)) /\ t = Cardinality(Silent(D, M \cup {n}))
                               /\ x = Cardinality(Absent(D, Done))
      OBVIOUS
    <3>2. t = s + k
      BY <2>4, <3>1, RunsAgree
    <3>3. s \in Nat
      <4>1. IsFiniteSet(Manifests(D)) /\ Silent(D, M) \in SUBSET Manifests(D)
        BY <2>4, <3>1, EntryFacts DEF Silent
      <4>2. QED
        BY <3>1, <4>1, FS_Subset, FS_CardinalityType
    <3>4. x \in Nat /\ k \in Nat
      BY <2>4, <3>1, AccountTypes
    <3>5. cov.missing = x + s /\ cov'.missing = cov.missing + k
      BY <2>6, <2>9, <3>1 DEF CountsAgree
    <3>6. cov'.missing = x + t
      BY ONLY <3>2, <3>3, <3>4, <3>5
    <3>7. QED
      BY <2>6, <2>9, <3>1, <3>6 DEF CountsAgree
  <2>11. dir' = D /\ rows' = rows /\ listed' = listed /\ runs' = runs /\ Reading'
    BY <1>1, <2>3 DEF diskVars, Reading
  <2>12. FilesAgree(D, Done, cov', listed)
    BY <2>6, <2>9 DEF FilesAgree
  <2>13. /\ RowsAgree(dir', Done', rows') /\ CountsAgree(dir', Done', Ended', cov', Cardinality(rows'))
         /\ WindowsAgree(dir', Ended', windows') /\ FilesAgree(dir', Taken', cov', listed')
    BY <2>5, <2>6, <2>8, <2>10, <2>11, <2>12
  <2>14. \A m \in ManifestNames : runs'[m] = dir'[m]
    BY <2>2, <2>3, <2>11
  <2>15. todo' # {} => \A a \in DOMAIN Run'.files : ~(a < j')
    BY <1>1, <2>5
  <2>16. pc' # "read"
    BY <1>1
  <2>17. QED
    BY <2>13, <2>14, <2>15, <2>16 DEF ReadInv
<1>4. QED
  BY <1>2, <1>3 DEF LoadInv, ReadInv

LEMMA LoadInvStep == TypeInv /\ WalkInv /\ LoadInv /\ [Next]_vars => LoadInv'
<1> SUFFICES ASSUME TypeInv, WalkInv, LoadInv, [Next]_vars PROVE LoadInv'
  OBVIOUS
<1>1. CASE pc' \in {"error", "inv2", "loaded", "reported"}
  BY <1>1 DEF LoadInv, Blank, ManifestsInv, ReadInv, Reading
<1>2. CASE pc' \notin {"error", "inv2", "loaded", "reported"}
  <2>1. CASE BeginManifests \/ ReadManifest
    BY <1>2, <2>1, LoadInvManifests
  <2>2. CASE EndManifests
    BY <1>2, <2>2, LoadInvEndManifests
  <2>3. CASE OpenListed
    BY <1>2, <2>3, LoadInvOpenListed
  <2>4. CASE ReadRow
    BY <1>2, <2>4, LoadInvReadRow
  <2>5. CASE EndRead
    BY <1>2, <2>5, LoadInvEndRead
  <2>6. CASE EndRun
    BY <2>6, LoadInvEndRun
  <2>7. CASE Writer
    BY <2>7, LoadInvWriter
  <2>8. CASE Inventory1
    <3>1. pc = "inv1" /\ UNCHANGED <<pc, runs, sumVars>>
      BY <1>2, <2>8 DEF Inventory1, Abort
    <3>2. QED
      BY <3>1 DEF LoadInv, Blank, ManifestsInv, ReadInv, Reading, sumVars, KnownProjects
  <2>9. CASE UNCHANGED vars
    <3>1. UNCHANGED <<diskVars, pc, todo, names, after, runs, j, gone, got, sumVars>>
      BY <2>9 DEF vars
    <3>2. Blank' /\ ManifestsInv'
      BY <3>1 DEF LoadInv, Blank, ManifestsInv, sumVars, KnownProjects, diskVars, Good, Held
    <3>3. /\ Turn' = Turn /\ Run' = Run /\ File' = File /\ Done' = Done /\ Ended' = Ended /\ Taken' = Taken
          /\ (Observations' <=> Observations) /\ (Reading' <=> Reading) /\ (Good' <=> Good)
      BY <3>1, GoodKept DEF Turn, Run, File, Done, Ended, Taken, Observations, diskVars, Reading
    <3>4. ReadInv'
      <4> SUFFICES ASSUME Reading, Good PROVE ReadInv'
        BY <3>3 DEF ReadInv
      <4>1. UNCHANGED <<dir, pc, todo, runs, j, gone, got, whole, listed, rows, windows, cov>>
        BY <3>1 DEF diskVars, sumVars
      <4>2. ReadInv
        BY DEF LoadInv
      <4>3. OpenAgrees' <=> OpenAgrees
        BY <3>3, <4>1 DEF OpenAgrees
      <4>4. /\ RowsAgree(dir', Done', rows') /\ CountsAgree(dir', Done', Ended', cov', Cardinality(rows'))
            /\ WindowsAgree(dir', Ended', windows') /\ FilesAgree(dir', Taken', cov', listed')
        BY <3>3, <4>1, <4>2 DEF ReadInv
      <4>5. todo' # {} /\ whole' => \A a \in DOMAIN Run'.files : a < j' => Sound(dir', <<Turn', a>>)
        BY <3>3, <4>1, <4>2 DEF ReadInv
      <4>6. \A m \in ManifestNames : runs'[m] = dir'[m]
        BY <4>1, <4>2 DEF ReadInv
      <4>7. pc' = "read" => OpenAgrees'
        BY <4>1, <4>2, <4>3 DEF ReadInv
      <4>8. QED
        BY <4>4, <4>5, <4>6, <4>7 DEF ReadInv
    <3>5. QED
      BY <3>2, <3>4 DEF LoadInv
  <2>10. CASE BeginRecheck \/ Inventory2 \/ EndLoad \/ Investigate
    BY <1>2, <2>10 DEF BeginRecheck, Inventory2, EndLoad, Investigate, Abort
  <2>11. QED
    BY <2>1, <2>2, <2>3, <2>4, <2>5, <2>6, <2>7, <2>8, <2>9, <2>10 DEF Next, Load
<1>3. QED
  BY <1>1, <1>2

-----------------------------------------------------------------------------
(* The second inventory: either the account is settled, for the directory  *)
(* as it was when this inventory began, or it will find a stamp that the   *)
(* first one did not.                                                      *)

Settled ==
    /\ TypedDir(atEnd)
    /\ \A n \in ManifestNames : runs[n] = atEnd[n]
    /\ RowsAgree(atEnd, Entries(atEnd), rows)
    /\ CountsAgree(atEnd, Entries(atEnd), Manifests(atEnd), cov, Cardinality(rows))
    /\ WindowsAgree(atEnd, Manifests(atEnd), windows)
    /\ FilesAgree(atEnd, Entries(atEnd), cov, listed)
    /\ cov.extra = Cardinality(DataFiles(atEnd) \ Listed(atEnd))

Spoiled == \E x \in Held(names) : /\ names[x].stamp < stamp[x]
                                  /\ after[x] # None => names[x].stamp < after[x].stamp

EndInv ==
    /\ pc = "inv2" => Settled \/ Spoiled
    /\ pc \in {"loaded", "reported"} => Settled
    /\ pc = "loaded" => cov.incomplete \/ cov.extra = 0
    /\ shown # None => /\ pc = "reported" /\ shown \in PeriodPairs /\ cov.extra = 0
                       /\ \A p \in KnownProjects, i \in {1, 2} : CoveredBy(windows[p], shown[i])

LEMMA SettledSame ==
    ASSUME Settled, UNCHANGED <<atEnd, runs, rows, windows, listed>>,
           cov'.files = cov.files, cov'.verified = cov.verified, cov'.missing = cov.missing,
           cov'.partial = cov.partial, cov'.physical = cov.physical, cov'.duplicates = cov.duplicates,
           cov'.extra = cov.extra
    PROVE  Settled'
<1>1. PICK D : D = atEnd
  OBVIOUS
<1>2. CountsAgree(D, Entries(D), Manifests(D), cov', Cardinality(rows))
  BY <1>1 DEF Settled, CountsAgree
<1>3. FilesAgree(D, Entries(D), cov', listed)
  BY <1>1 DEF Settled, FilesAgree
<1>4. atEnd' = D /\ runs' = runs /\ rows' = rows /\ windows' = windows /\ listed' = listed
  BY <1>1
<1>5. /\ TypedDir(atEnd') /\ RowsAgree(atEnd', Entries(atEnd'), rows') /\ WindowsAgree(atEnd', Manifests(atEnd'), windows')
      /\ \A n \in ManifestNames : runs'[n] = atEnd'[n]
      /\ cov'.extra = Cardinality(DataFiles(atEnd') \ Listed(atEnd'))
      /\ CountsAgree(atEnd', Entries(atEnd'), Manifests(atEnd'), cov', Cardinality(rows'))
      /\ FilesAgree(atEnd', Entries(atEnd'), cov', listed')
  BY <1>1, <1>2, <1>3, <1>4 DEF Settled
<1>6. QED
  BY <1>5 DEF Settled

LEMMA EndInvRecheck ==
    ASSUME TypeInv, WalkInv, LoadInv, EndInv, BeginRecheck
    PROVE  EndInv'
<1>1. /\ pc = "files" /\ todo = {} /\ pc' = "inv2" /\ atEnd' = dir
      /\ cov' = [cov EXCEPT !.extra = Cardinality((DataNames \cap Held(names)) \ listed)]
      /\ UNCHANGED <<diskVars, names, after, runs, j, gone, got, whole, listed, rows, windows, shown>>
  BY DEF BeginRecheck
<1>2. shown' = None
  BY <1>1 DEF EndInv
<1>3. CASE Good
  <2>1. ReadInv /\ Reading
    BY <1>1 DEF LoadInv, Reading
  <2>2. \A n \in ManifestNames : runs[n] = dir[n]
    BY <1>3, <2>1 DEF ReadInv
  <2>3. PICK D : D = dir
    OBVIOUS
  <2>4. TypedDir(D)
    BY <2>2, <2>3, DirTyped
  <2>5. Done = Entries(D) /\ Taken = Entries(D) /\ Ended = Manifests(D)
    BY <1>1, <2>3 DEF Done, Taken, Ended
  <2>6. /\ RowsAgree(D, Entries(D), rows) /\ CountsAgree(D, Entries(D), Manifests(D), cov, Cardinality(rows))
        /\ WindowsAgree(D, Manifests(D), windows) /\ FilesAgree(D, Entries(D), cov, listed)
    BY <1>3, <2>1, <2>3, <2>5 DEF ReadInv
  <2>7. Walked(names, {})
    BY <1>1 DEF WalkInv, Left1
  <2>8. DataNames \cap Held(names) = DataFiles(D)
    <3>1. \A n \in Names : D[n] # None <=> names[n] # None
      BY <1>3, <2>3, <2>7, Inventoried
    <3>2. QED
      BY <3>1 DEF DataFiles, Held, Names
  <2>9. listed = Listed(D)
    BY <2>6 DEF FilesAgree, Listed
  <2>10. /\ cov'.files = cov.files /\ cov'.verified = cov.verified /\ cov'.missing = cov.missing
         /\ cov'.partial = cov.partial /\ cov'.physical = cov.physical /\ cov'.duplicates = cov.duplicates
         /\ cov'.extra = Cardinality(DataFiles(D) \ Listed(D))
    BY <1>1, <2>8, <2>9 DEF TypeInv, CovTypes
  <2>11. CountsAgree(D, Entries(D), Manifests(D), cov', Cardinality(rows)) /\ FilesAgree(D, Entries(D), cov', listed)
    BY <2>6, <2>10 DEF CountsAgree, FilesAgree
  <2>12. atEnd' = D /\ runs' = runs /\ rows' = rows /\ windows' = windows /\ listed' = listed
    BY <1>1, <2>3
  <2>13. /\ TypedDir(atEnd') /\ RowsAgree(atEnd', Entries(atEnd'), rows')
         /\ WindowsAgree(atEnd', Manifests(atEnd'), windows')
         /\ \A n \in ManifestNames : runs'[n] = atEnd'[n]
         /\ cov'.extra = Cardinality(DataFiles(atEnd') \ Listed(atEnd'))
         /\ CountsAgree(atEnd', Entries(atEnd'), Manifests(atEnd'), cov', Cardinality(rows'))
         /\ FilesAgree(atEnd', Entries(atEnd'), cov', listed')
    BY <2>2, <2>3, <2>4, <2>6, <2>10, <2>11, <2>12
  <2>14. Settled'
    BY <2>13 DEF Settled
  <2>15. QED
    BY <1>1, <1>2, <2>14 DEF EndInv
<1>4. CASE ~Good
  <2>1. PICK x \in Held(names) : names[x].stamp # stamp[x]
    BY <1>4 DEF Good
  <2>2. names[x] \in Infos /\ names[x].stamp <= stamp[x] /\ stamp[x] \in Nat
    BY DEF TypeInv, FoundOK, DiskOK, Held, Everything
  <2>3. names[x].stamp < stamp[x]
    BY <2>1, <2>2 DEF Infos
  <2>4. after[x] = None
    BY <1>1 DEF WalkInv, BeforeRecheck, NoNames, Held
  <2>5. Spoiled'
    BY <1>1, <2>3, <2>4 DEF Spoiled, diskVars, Held
  <2>6. QED
    BY <1>1, <1>2, <2>5 DEF EndInv
<1>5. QED
  BY <1>3, <1>4

\* A stamp that is spoiled stays so.
LEMMA SpoiledStays ==
    ASSUME TypeInv, pc = "inv2", Spoiled, (Inventory2 /\ pc' # "error") \/ Writer
    PROVE  Spoiled'
<1>1. PICK x \in Held(names) : names[x].stamp < stamp[x] /\ (after[x] # None => names[x].stamp < after[x].stamp)
  BY DEF Spoiled
<1>2. DiskOK /\ FoundOK(names) /\ FoundOK(after)
  BY DEF TypeInv
<1>3. names[x] \in Infos /\ x \in Everything
  BY <1>2 DEF FoundOK, Held, Everything
<1>4. CASE Inventory2 /\ pc' # "error"
  <2>1. /\ after' = Visit(after).names /\ UNCHANGED <<diskVars, names>>
    BY <1>4 DEF Inventory2, Abort
  <2>2. after' = after \/ after' = [after EXCEPT ![Turn] = Info(Turn)]
    BY <2>1 DEF Visit, Described
  <2>3. after'[x] = after[x] \/ after'[x] = Info(x)
    BY <1>2, <1>3, <2>2 DEF FoundOK
  <2>4. Info(x).stamp = stamp[x]
    BY DEF Info
  <2>5. after'[x] # None => names[x].stamp < after'[x].stamp
    BY <1>1, <2>3, <2>4
  <2>6. QED
    BY <1>1, <2>1, <2>5 DEF Spoiled, diskVars, Held
<1>5. CASE Writer
  <2>1. PICK n \in Names, xs \in SUBSET Everything :
             /\ changes' = changes + 1
             /\ stamp' = [y \in Everything |-> IF y \in xs THEN changes + 1 ELSE stamp[y]]
             /\ UNCHANGED <<names, after>>
    BY <1>2, <1>5, WriterEffect
  <2>2. names[x].stamp \in Nat /\ stamp[x] \in Nat /\ changes \in Nat /\ stamp[x] <= changes
    BY <1>2, <1>3, LimitTypes DEF DiskOK, Infos
  <2>3. stamp'[x] = stamp[x] \/ stamp'[x] = changes + 1
    BY <1>3, <2>1
  <2>4. names[x].stamp < stamp'[x]
    BY <1>1, <2>2, <2>3
  <2>5. QED
    BY <1>1, <2>1, <2>4 DEF Spoiled, Held
<1>6. QED
  BY <1>4, <1>5

\* The load ends only when the second inventory is the first.
LEMMA EndInvLoaded ==
    ASSUME TypeInv, EndInv, EndLoad, pc' # "error"
    PROVE  EndInv'
<1>1. /\ pc = "inv2" /\ pc' = "loaded" /\ after = names
      /\ cov' = [cov EXCEPT !.gaps = Gaps, !.incomplete = cov.missing + cov.partial + cov.extra + Gaps > 0]
      /\ UNCHANGED <<diskVars, todo, names, after, runs, j, gone, got, whole, listed, rows, windows, shown, atEnd>>
  BY DEF EndLoad, Abort, Unchanged
<1>2. ~Spoiled
  <2> SUFFICES ASSUME Spoiled PROVE FALSE
    OBVIOUS
  <2>1. PICK x \in Held(names) : after[x] # None => names[x].stamp < after[x].stamp
    BY DEF Spoiled
  <2>2. after[x] # None /\ after[x] = names[x] /\ names[x] \in Infos
    BY <1>1 DEF Held, TypeInv, FoundOK, Everything
  <2>3. QED
    BY <2>1, <2>2 DEF Infos
<1>3. Settled
  BY <1>1, <1>2 DEF EndInv
<1>4. cov \in CovTypes /\ Gaps \in Nat
  BY GapsType DEF TypeInv
<1>5. /\ cov'.files = cov.files /\ cov'.verified = cov.verified /\ cov'.missing = cov.missing
      /\ cov'.partial = cov.partial /\ cov'.physical = cov.physical /\ cov'.duplicates = cov.duplicates
      /\ cov'.extra = cov.extra /\ (cov'.incomplete <=> cov.missing + cov.partial + cov.extra + Gaps > 0)
  BY <1>1, <1>4 DEF CovTypes
<1>6. Settled'
  BY <1>1, <1>3, <1>5, SettledSame
<1>7. cov'.incomplete \/ cov'.extra = 0
  <2>1. PICK m, p, x, g : m = cov.missing /\ p = cov.partial /\ x = cov.extra /\ g = Gaps
    OBVIOUS
  <2>2. m \in Nat /\ p \in Nat /\ x \in Nat /\ g \in Nat
    BY <1>4, <2>1 DEF CovTypes
  <2>3. m + p + x + g > 0 \/ x = 0
    BY ONLY <2>2
  <2>4. QED
    BY <1>5, <2>1, <2>3
<1>8. shown' = None
  BY <1>1 DEF EndInv
<1>9. QED
  BY <1>1, <1>6, <1>7, <1>8 DEF EndInv

LEMMA EndInvReported ==
    ASSUME TypeInv, EndInv, Investigate
    PROVE  EndInv'
<1>1. /\ pc = "loaded" /\ pc' = "reported"
      /\ UNCHANGED <<diskVars, todo, names, after, runs, j, gone, got, whole, listed, rows, windows, atEnd>>
  BY DEF Investigate
<1>2. PICK pair \in PeriodPairs :
          LET open == {o \in KnownProjects \X {1, 2} : ~CoveredBy(windows[o[1]], pair[o[2]])}
              incomplete == cov.incomplete \/ open # {}
          IN /\ cov' = [cov EXCEPT !.uncovered = Cardinality(open), !.incomplete = incomplete]
             /\ shown' = IF incomplete THEN None ELSE pair
  BY DEF Investigate
<1>3. PICK open : open = {o \in KnownProjects \X {1, 2} : ~CoveredBy(windows[o[1]], pair[o[2]])}
  OBVIOUS
<1>4. /\ cov' = [cov EXCEPT !.uncovered = Cardinality(open), !.incomplete = cov.incomplete \/ open # {}]
      /\ shown' = IF cov.incomplete \/ open # {} THEN None ELSE pair
  BY <1>2, <1>3
<1>5. cov \in CovTypes
  BY DEF TypeInv
<1>6. /\ cov'.files = cov.files /\ cov'.verified = cov.verified /\ cov'.missing = cov.missing
      /\ cov'.partial = cov.partial /\ cov'.physical = cov.physical /\ cov'.duplicates = cov.duplicates
      /\ cov'.extra = cov.extra
  BY <1>4, <1>5 DEF CovTypes
<1>7. Settled'
  BY <1>1, <1>6, SettledSame DEF EndInv
<1>8. ASSUME shown' # None
      PROVE  /\ shown' \in PeriodPairs /\ cov'.extra = 0
             /\ \A p \in KnownProjects', i \in {1, 2} : CoveredBy(windows'[p], shown'[i])
  <2>1. ~cov.incomplete /\ open = {} /\ shown' = pair
    BY <1>4, <1>8
  <2>2. cov'.extra = 0
    BY <1>1, <1>6, <2>1 DEF EndInv
  <2>3. KnownProjects' = KnownProjects /\ windows' = windows
    BY <1>1 DEF KnownProjects
  <2>4. ASSUME NEW p \in KnownProjects, NEW i \in {1, 2} PROVE CoveredBy(windows[p], pair[i])
    <3>1. <<p, i>> \notin open /\ <<p, i>> \in KnownProjects \X {1, 2}
      BY <2>1
    <3>2. PICK o : o = <<p, i>>
      OBVIOUS
    <3>3. o[1] = p /\ o[2] = i /\ o \in KnownProjects \X {1, 2} /\ o \notin open
      BY <3>1, <3>2
    <3>4. CoveredBy(windows[o[1]], pair[o[2]])
      BY <1>3, <3>3
    <3>5. QED
      BY <3>3, <3>4
  <2>5. QED
    BY <2>1, <2>2, <2>3, <2>4
<1>9. QED
  BY <1>1, <1>7, <1>8 DEF EndInv

LEMMA EndInvInit == Init => EndInv
  BY DEF Init, EndInv

LEMMA EndInvStep == TypeInv /\ WalkInv /\ LoadInv /\ EndInv /\ [Next]_vars => EndInv'
<1> SUFFICES ASSUME TypeInv, WalkInv, LoadInv, EndInv, [Next]_vars PROVE EndInv'
  OBVIOUS
<1>1. CASE Abort
  <2>1. shown' = shown /\ pc' = "error"
    BY <1>1 DEF Abort
  <2>2. CASE shown = None
    BY <2>1, <2>2 DEF EndInv
  <2>3. CASE pc = "reported" /\ shown # None
    <3>1. ~Load /\ ~Writer
      BY <2>3 DEF Load, Inventory1, BeginManifests, ReadManifest, EndManifests, OpenListed, ReadRow, EndRead, EndRun,
                  BeginRecheck, Inventory2, EndLoad, Investigate, Writer, Running
    <3>2. pc' = pc
      BY <3>1 DEF Next, vars
    <3>3. QED
      BY <2>1, <2>3, <3>2
  <2>4. QED
    BY <2>2, <2>3 DEF EndInv
<1>2. CASE ~Abort
  <2>1. CASE pc \in {"inv1", "manifests", "files", "read"} /\ ~BeginRecheck
    <3>1. shown = None
      BY <2>1 DEF EndInv
    <3>2. shown' = None /\ pc' \in {"inv1", "manifests", "files", "read"}
      BY <1>2, <2>1, <3>1 DEF Next, Load, Inventory1, BeginManifests, ReadManifest, EndManifests, OpenListed, ReadRow,
                  EndRead, EndRun, Inventory2, EndLoad, Investigate, Writer, vars, Discard, Close
    <3>3. QED
      BY <3>2 DEF EndInv
  <2>2. CASE BeginRecheck
    BY <2>2, EndInvRecheck
  <2>3. CASE pc = "inv2" /\ Inventory2
    <3>1. UNCHANGED <<diskVars, pc, names, runs, j, gone, got, sumVars, shown, atEnd>>
      BY <1>2, <2>3 DEF Inventory2
    <3>2. shown' = None
      BY <2>3, <3>1 DEF EndInv
    <3>3. CASE Settled
      <4>1. Settled'
        BY <3>1, <3>3, SettledSame DEF sumVars
      <4>2. QED
        BY <2>3, <3>1, <3>2, <4>1 DEF EndInv
    <3>4. CASE Spoiled
      <4>1. Spoiled'
        BY <2>3, <3>1, <3>4, SpoiledStays
      <4>2. QED
        BY <2>3, <3>1, <3>2, <4>1 DEF EndInv
    <3>5. QED
      BY <2>3, <3>3, <3>4 DEF EndInv
  <2>4. CASE pc = "inv2" /\ Writer
    <3>1. UNCHANGED <<pc, todo, names, after, runs, j, got, sumVars, shown, atEnd>>
      BY <2>4 DEF Writer
    <3>2. shown' = None
      BY <2>4, <3>1 DEF EndInv
    <3>3. CASE Settled
      <4>1. Settled'
        BY <3>1, <3>3, SettledSame DEF sumVars
      <4>2. QED
        BY <2>4, <3>1, <3>2, <4>1 DEF EndInv
    <3>4. CASE Spoiled
      <4>1. Spoiled'
        BY <2>4, <3>4, SpoiledStays
      <4>2. QED
        BY <2>4, <3>1, <3>2, <4>1 DEF EndInv
    <3>5. QED
      BY <2>4, <3>3, <3>4 DEF EndInv
  <2>5. CASE EndLoad
    <3>1. pc' # "error"
      BY <1>2, <2>5 DEF EndLoad
    <3>2. QED
      BY <2>5, <3>1, EndInvLoaded
  <2>6. CASE Investigate
    BY <2>6, EndInvReported
  <2>7. CASE UNCHANGED vars
    <3>1. UNCHANGED <<diskVars, pc, names, after, runs, shown, atEnd, rows, windows, listed, cov>>
      BY <2>7 DEF vars, sumVars
    <3>2. Settled => Settled'
      BY <3>1, SettledSame
    <3>3. Spoiled => Spoiled'
      BY <3>1 DEF Spoiled, diskVars, Held
    <3>4. KnownProjects' = KnownProjects
      BY <3>1 DEF KnownProjects
    <3>5. QED
      BY <3>1, <3>2, <3>3, <3>4 DEF EndInv
  <2>8. QED
    <3>1. pc \in {"inv2", "loaded", "reported", "error"} /\ ~UNCHANGED vars
             => BeginRecheck \/ Inventory2 \/ EndLoad \/ Investigate \/ Writer
      BY DEF Next, Load, Inventory1, BeginManifests, ReadManifest, EndManifests, OpenListed, ReadRow, EndRead, EndRun
    <3>2. Writer => pc \notin {"loaded", "reported", "error"}
      BY DEF Writer, Running
    <3>3. Inventory2 => pc = "inv2"
      BY DEF Inventory2
    <3>4. pc \in {"inv1", "manifests", "files", "read", "inv2", "loaded", "reported", "error"}
      BY DEF TypeInv, PhaseOK
    <3>5. QED
      BY <2>1, <2>2, <2>3, <2>4, <2>5, <2>6, <2>7, <3>1, <3>2, <3>3, <3>4
<1>3. QED
  BY <1>1, <1>2

\* Rows that differ have different keys.
LEMMA KeysDiffer ==
    ASSUME NEW rs, IsFiniteSet(rs), \A q, r \in rs : Key(q) = Key(r) => q = r
    PROVE  IsFiniteSet({Key(r) : r \in rs}) /\ Cardinality({Key(r) : r \in rs}) = Cardinality(rs)
<1>1. PICK K : K = {Key(r) : r \in rs}
  OBVIOUS
<1>2. PICK f : f = [r \in rs |-> Key(r)]
  OBVIOUS
<1>3. f \in [rs -> K] /\ \A r \in rs : f[r] = Key(r)
  BY <1>1, <1>2
<1>4. f \in Surjection(rs, K)
  BY <1>1, <1>3 DEF Surjection
<1>5. f \in Injection(rs, K)
  BY <1>3 DEF Injection, IsInjective
<1>6. IsFiniteSet(K) /\ Cardinality(K) = Cardinality(rs)
  BY <1>4, <1>5, FS_Surjection
<1>7. QED
  BY <1>1, <1>6

\* A settled account is the snapshot of a directory.
LEMMA SettledSnapshot == TypeInv /\ EndInv => SnapshotOfOneDirectory
<1> SUFFICES ASSUME TypeInv, EndInv, pc \in {"loaded", "reported"} PROVE SnapshotOfOneDirectory
  BY DEF SnapshotOfOneDirectory
<1>1. PICK D : D = atEnd
  OBVIOUS
<1>2. /\ TypedDir(D) /\ \A n \in ManifestNames : runs[n] = D[n]
      /\ RowsAgree(D, Entries(D), rows) /\ CountsAgree(D, Entries(D), Manifests(D), cov, Cardinality(rows))
      /\ FilesAgree(D, Entries(D), cov, listed) /\ cov.extra = Cardinality(DataFiles(D) \ Listed(D))
  BY <1>1 DEF EndInv, Settled
<1>3. runs = [n \in ManifestNames |-> D[n]]
  <2>1. runs \in [ManifestNames -> ManifestFields \cup {None}]
    BY DEF TypeInv, RunsOK
  <2>2. QED
    BY <1>2, <2>1
<1>4. PICK all : all = Observed(D)
  OBVIOUS
<1>5. Seen(D, Entries(D)) = all
  BY <1>4 DEF Seen, WithRows, Observed, SoundRows
<1>6. /\ rows \subseteq all
      /\ \A r \in all : \E q \in rows : Key(q) = Key(r) /\ q.print = r.print
      /\ \A q, r \in rows : Key(q) = Key(r) => q = r
  BY <1>2, <1>5 DEF RowsAgree
<1>7. {<<Key(r), r.print>> : r \in rows} = {<<Key(r), r.print>> : r \in all}
  BY <1>6
<1>8. Cardinality(rows) = Cardinality({Key(r) : r \in all})
  <2>1. {Key(r) : r \in rows} = {Key(r) : r \in all}
    BY <1>6
  <2>2. IsFiniteSet(rows)
    BY DEF TypeInv, RowsOK
  <2>3. QED
    BY <1>6, <2>1, <2>2, KeysDiffer
<1>9. /\ cov.physical = SumFunctionOnSet([e \in SoundRows(D) |-> Len(D[Entry(D, e).path])], SoundRows(D))
      /\ cov.physical = Cardinality(rows) + cov.duplicates
      /\ cov.verified = Cardinality({e \in Entries(D) : Sound(D, e)})
      /\ cov.missing = Cardinality({e \in Entries(D) : ~Present(D, e)})
                       + Cardinality({n \in Manifests(D) : ~HasObservations(D[n])})
      /\ cov.partial = Cardinality({e \in Entries(D) : Present(D, e) /\ ~Sound(D, e)})
  <2>1. WithRows(D, Entries(D)) = SoundRows(D)
    BY DEF WithRows, SoundRows
  <2>2. Lengths(D, Entries(D)) = SumFunctionOnSet([e \in SoundRows(D) |-> Len(D[Entry(D, e).path])], SoundRows(D))
    BY <2>1 DEF Lengths
  <2>3. QED
    BY <1>2, <2>2 DEF CountsAgree, ReadWell, Absent, Rejected, Silent
<1>10. cov.files = Cardinality(Entries(D))
  BY <1>2 DEF FilesAgree
<1>11. QED
  BY <1>1, <1>2, <1>3, <1>4, <1>7, <1>8, <1>9, <1>10 DEF SnapshotOfOneDirectory
-----------------------------------------------------------------------------
(* Where the windows of a project leave nothing out.                       *)

\* The points at which the loop may stop.
LEMMA EndsFinite ==
    ASSUME NEW ws, ws \subseteq [start: Nat, end: Nat], IsFiniteSet(ws), NEW from \in Nat
    PROVE  IsFiniteSet({from} \cup {w.end : w \in ws}) /\ {from} \cup {w.end : w \in ws} \subseteq Nat
<1>1. PICK f : f = [w \in ws |-> w.end]
  OBVIOUS
<1>2. {f[w] : w \in ws} = {w.end : w \in ws}
  BY <1>1
<1>3. IsFiniteSet({w.end : w \in ws})
  BY <1>2, ImageFinite
<1>4. IsFiniteSet({w.end : w \in ws} \cup {from}) /\ {from} \cup {w.end : w \in ws} = {w.end : w \in ws} \cup {from}
  BY <1>3, FS_AddElement
<1>5. QED
  BY <1>4

\* The loop over the windows stops: at the start, or at the end of a window.
LEMMA ReachStops ==
    ASSUME NEW ws, ws \subseteq [start: Nat, end: Nat], IsFiniteSet(ws), NEW from \in Nat
    PROVE  /\ Reach(ws, from) \in Nat
           /\ \A e \in {from} \cup {w.end : w \in ws} :
                 e >= from /\ (\A w \in ws : w.start <= e => w.end <= e) => Reach(ws, from) <= e
<1> DEFINE Stuck(e) == e >= from /\ \A w \in ws : w.start <= e => w.end <= e
<1>1. PICK ends : ends = {from} \cup {w.end : w \in ws}
  OBVIOUS
<1>2. IsFiniteSet(ends) /\ ends \subseteq Nat
  BY <1>1, EndsFinite
<1>3. PICK S : S = {e \in ends : Stuck(e)}
  OBVIOUS
<1>4. Reach(ws, from) = Min(S)
  BY <1>1, <1>3 DEF Reach
<1>5. PICK m \in ends : \A e \in ends : e <= m
  BY <1>1, <1>2, Extremes
<1>6. m \in S
  BY <1>1, <1>2, <1>3, <1>5
<1>7. PICK l \in S : \A e \in S : l <= e
  <2>1. S \in SUBSET ends
    BY <1>3
  <2>2. IsFiniteSet(S) /\ S \subseteq Nat
    BY <1>2, <2>1, FS_Subset
  <2>3. QED
    BY <1>6, <2>2, Extremes
<1>8. Min(S) \in S /\ \A e \in S : Min(S) <= e
  BY <1>7 DEF Min
<1>9. QED
  BY <1>1, <1>2, <1>3, <1>4, <1>8

\* Every moment before the point that the loop reaches is in some window.
LEMMA ReachCovers ==
    ASSUME NEW ws, ws \subseteq [start: Nat, end: Nat], IsFiniteSet(ws), NEW from \in Nat, NEW t \in Nat,
           from <= t, t < Reach(ws, from)
    PROVE  \E w \in ws : w.start <= t /\ t + 1 <= w.end
<1>1. PICK ends : ends = {from} \cup {w.end : w \in ws}
  OBVIOUS
<1>2. PICK k : k = Reach(ws, from)
  OBVIOUS
<1>3. k \in Nat /\ \A e \in ends : e >= from /\ (\A w \in ws : w.start <= e => w.end <= e) => k <= e
  BY <1>1, <1>2, ReachStops
<1>4. IsFiniteSet(ends) /\ ends \subseteq Nat
  BY <1>1, EndsFinite
<1>5. SUFFICES ASSUME \A w \in ws : w.start <= t => w.end <= t PROVE FALSE
  <2>1. \A w \in ws : w.start \in Nat /\ w.end \in Nat
    OBVIOUS
  <2>2. QED
    BY <2>1
<1>6. PICK reached : reached = {e \in ends : from <= e /\ e <= t}
  OBVIOUS
<1>7. PICK m \in reached : \A e \in reached : e <= m
  <2>1. from \in reached
    BY <1>1, <1>6
  <2>2. reached \in SUBSET ends
    BY <1>6
  <2>3. IsFiniteSet(reached) /\ reached \subseteq Nat
    BY <1>4, <2>2, FS_Subset
  <2>4. QED
    BY <2>1, <2>3, Extremes
<1>8. m \in ends /\ m \in Nat /\ from <= m /\ m <= t
  BY <1>4, <1>6
<1>9. ASSUME NEW w \in ws, w.start <= m PROVE w.end <= m
  <2>1. w.start \in Nat /\ w.end \in Nat /\ w.end \in ends
    BY <1>1
  <2>2. w.end <= t
    BY <1>5, <1>8, <1>9, <2>1
  <2>3. CASE from <= w.end
    BY <1>6, <1>7, <2>1, <2>2, <2>3
  <2>4. CASE ~(from <= w.end)
    BY <1>8, <2>1, <2>4
  <2>5. QED
    BY <2>3, <2>4
<1>10. k <= m
  BY <1>3, <1>8, <1>9
<1>11. QED
  BY <1>2, <1>3, <1>8, <1>10

LEMMA SettledCovered == TypeInv /\ EndInv => VolumeOnlyIfCovered
<1> SUFFICES ASSUME TypeInv, EndInv, shown # None PROVE VolumeOnlyIfCovered
  BY DEF VolumeOnlyIfCovered
<1>1. PICK D : D = atEnd
  OBVIOUS
<1>2. PICK good : good = {n \in Manifests(D) : \A e \in Entries(D) : e[1] = n => Sound(D, e)}
  OBVIOUS
<1>3. /\ pc = "reported" /\ shown \in PeriodPairs /\ cov.extra = 0
      /\ \A p \in KnownProjects, i \in {1, 2} : CoveredBy(windows[p], shown[i])
  BY DEF EndInv
<1>4. /\ TypedDir(D) /\ WindowsAgree(D, Manifests(D), windows)
      /\ cov.extra = Cardinality(DataFiles(D) \ Listed(D))
  BY <1>1, <1>3 DEF EndInv, Settled
<1>5. DataFiles(D) \subseteq Listed(D)
  <2>1. PICK X : X = DataFiles(D) \ Listed(D)
    OBVIOUS
  <2>2. IsFiniteSet(X)
    BY <1>4, <2>1, EntryFacts, FS_Subset
  <2>3. X = {}
    BY <1>3, <1>4, <2>1, <2>2, FS_EmptySet
  <2>4. QED
    BY <2>1, <2>3
<1>6. ASSUME NEW n \in Manifests(D), NEW i \in {1, 2}, NEW t \in shown[i].start..(shown[i].end - 1)
      PROVE  \E m \in good : D[m].project = D[n].project /\ D[m].start <= t /\ t + 1 <= D[m].end
  <2>1. PICK p : p = D[n].project
    OBVIOUS
  <2>2. p \in KnownProjects
    BY <1>4, <2>1 DEF WindowsAgree, KnownProjects
  <2>3. PICK a, b : a = shown[i].start /\ b = shown[i].end
    OBVIOUS
  <2>4. a \in Nat /\ b \in Nat
    BY <1>3, <2>3, LangfuseAssumption
  <2>5. t \in Nat /\ a <= t /\ t < b
    BY <1>6, <2>3, <2>4
  <2>6. PICK ws : ws = windows[p]
    OBVIOUS
  <2>7. ws \subseteq [start: Nat, end: Nat] /\ IsFiniteSet(ws)
    BY <2>2, <2>6 DEF TypeInv, WindowsOK
  <2>8. b <= Reach(ws, a)
    BY <1>3, <2>2, <2>3, <2>6 DEF CoveredBy
  <2>9. t < Reach(ws, a)
    <3>1. Reach(ws, a) \in Nat
      BY <2>4, <2>7, ReachStops
    <3>2. QED
      BY <2>4, <2>5, <2>8, <3>1
  <2>10. PICK w \in ws : w.start <= t /\ t + 1 <= w.end
    BY <2>4, <2>5, <2>7, <2>9, ReachCovers
  <2>11. PICK m \in Manifests(D) : D[m].project = p /\ Complete(D, m) /\ w = [start |-> D[m].start, end |-> D[m].end]
    BY <1>4, <2>2, <2>6, <2>10 DEF WindowsAgree, KnownProjects
  <2>12. ASSUME NEW e \in Entries(D), e[1] = m PROVE Sound(D, e)
    <3>1. e = <<m, e[2]>> /\ e[2] \in DOMAIN D[m].files
      BY <1>4, <2>12, EntryFacts
    <3>2. PICK x \in DOMAIN D[m].files : x = e[2]
      BY <3>1
    <3>3. Sound(D, <<m, x>>)
      BY <2>11 DEF Complete
    <3>4. QED
      BY <3>1, <3>2, <3>3
  <2>13. m \in good
    BY <1>2, <2>12
  <2>14. QED
    BY <2>1, <2>10, <2>11, <2>13
<1>7. QED
  BY <1>1, <1>2, <1>5, <1>6 DEF VolumeOnlyIfCovered

-----------------------------------------------------------------------------
(* A directory that nobody changes and that is within the limits.          *)

\* Nothing has been touched, and an inventory is right about all it found.
LEMMA Untouched ==
    ASSUME DiskOK, changes = 0, NEW found, FoundOK(found)
    PROVE  /\ \A x \in Everything : stamp[x] = 0
           /\ \A x \in Held(found) : x \in Everything /\ found[x].stamp = stamp[x] /\ Fresh(found, x)
<1>1. ASSUME NEW x \in Everything PROVE stamp[x] = 0
  BY DEF DiskOK
<1>2. ASSUME NEW x \in Held(found) PROVE x \in Everything /\ found[x].stamp = stamp[x] /\ Fresh(found, x)
  <2>1. x \in Everything /\ found[x] # None /\ found[x] \in Infos
    BY DEF Held, FoundOK, Everything
  <2>2. found[x].stamp \in Nat /\ found[x].stamp <= stamp[x] /\ stamp[x] = 0
    BY <1>1, <2>1 DEF FoundOK, Infos
  <2>3. QED
    BY <2>1, <2>2 DEF Fresh
<1>3. QED
  BY <1>1, <1>2

There(D) == DataFiles(D) \cup Manifests(D)

\* The names that are there and the two directories, counted and summed up.
LEMMA ThereFacts ==
    ASSUME NEW D, \A n \in There(D) : Bytes(n, D[n]) \in Nat, NEW g,
           \A n \in There(D) : g[n] = Bytes(n, D[n]), \A x \in Dirs : g[x] = 0
    PROVE  /\ There(D) \subseteq Names /\ IsFiniteSet(There(D) \cup Dirs)
           /\ Cardinality(There(D) \cup Dirs) = Cardinality(There(D)) + 2
           /\ SumFunctionOnSet(g, There(D) \cup Dirs) = SumFunctionOnSet([n \in There(D) |-> Bytes(n, D[n])], There(D))
<1>1. PICK T : T = There(D)
  OBVIOUS
<1>2. T \subseteq Names /\ T \in SUBSET Everything
  BY <1>1 DEF There, DataFiles, Manifests, Names, Everything
<1>3. IsFiniteSet(T) /\ Cardinality(T) \in Nat
  BY <1>2, NamesFinite, FS_Subset, FS_CardinalityType
<1>4. T \cap Dirs = {}
  BY <1>2, NameFacts
<1>5. PICK a, b : Dirs = {a, b} /\ a # b
  BY DEF Dirs
<1>6. IsFiniteSet(Dirs) /\ T \cup Dirs = (T \cup {a}) \cup {b} /\ a \notin T /\ b \notin T \cup {a}
  BY <1>4, <1>5, TwoFinite
<1>7. IsFiniteSet(T \cup {a}) /\ Cardinality(T \cup {a}) = Cardinality(T) + 1
  BY <1>3, <1>6, FS_AddElement
<1>8. IsFiniteSet(T \cup Dirs) /\ Cardinality(T \cup Dirs) = Cardinality(T) + 2
  <2>1. IsFiniteSet((T \cup {a}) \cup {b}) /\ Cardinality((T \cup {a}) \cup {b}) = Cardinality(T \cup {a}) + 1
    BY <1>6, <1>7, FS_AddElement
  <2>2. IsFiniteSet(T \cup Dirs) /\ Cardinality(T \cup Dirs) = Cardinality(T \cup {a}) + 1
    BY <1>6, <2>1
  <2>3. QED
    BY <1>3, <1>7, <2>2
<1>9. SumFunctionOnSet(g, T \cup Dirs) = SumFunctionOnSet(g, T) + SumFunctionOnSet(g, Dirs)
  <2>1. \A x \in T \cup Dirs : g[x] \in Nat
    BY <1>1
  <2>2. QED
    BY <1>3, <1>4, <1>6, <2>1, SumUnion
<1>10. SumFunctionOnSet(g, Dirs) = 0
  BY <1>6, SumZero
<1>11. PICK h : h = [n \in T |-> Bytes(n, D[n])]
  OBVIOUS
<1>12. SumFunctionOnSet(g, T) = SumFunctionOnSet(h, T) /\ SumFunctionOnSet(h, T) \in Nat
  <2>1. \A x \in T : g[x] = h[x] /\ h[x] \in Nat
    BY <1>1, <1>11
  <2>2. QED
    BY <1>3, <2>1, SumSame, SumType
<1>13. QED
  BY <1>1, <1>2, <1>8, <1>9, <1>10, <1>11, <1>12

\* No step of a walk is refused.
LEMMA WalkFits ==
    ASSUME DiskOK, changes = 0, Loadable(dir), NEW found, FoundOK(found), Walked(found, todo), todo # {}
    PROVE  ~WalkFails(found)
<1>1. PICK D, T, t : D = dir /\ T = There(D) /\ t = Turn
  OBVIOUS
<1>2. t \in todo /\ t \in Everything
  BY <1>1, TurnIsOne DEF Walked
<1>3. ASSUME NEW n \in Names, n \in todo \cup Held(found) PROVE dir[n] # None
  <2>1. DirOf(n) \notin todo /\ DirOf(n) \in Dirs
    BY <1>3, NameFacts DEF Walked
  <2>2. Fresh(found, DirOf(n))
    BY <2>1, Untouched DEF Walked
  <2>3. dir[n] # None <=> found[n] # None \/ n \in todo
    BY <2>1, <2>2 DEF Walked
  <2>4. QED
    BY <1>3, <2>3 DEF Held
<1>4. ASSUME NEW x \in todo \cup Held(found) PROVE x \in T \cup Dirs
  <2>1. x \in Names \/ x \in Dirs
    BY DEF Walked, Held, Everything
  <2>2. CASE x \in Names
    BY <1>1, <1>3, <2>2 DEF There, DataFiles, Manifests, Names
  <2>3. QED
    BY <2>1, <2>2
<1>5. SUFFICES ASSUME ~Lists(found)
               PROVE  /\ t \in Names => dir[t] # None
                      /\ ~(Cardinality(Held(found)) >= MaxNames) /\ ~(Total(Described(found)) > MaxTotal)
  BY <1>1 DEF WalkFails
<1>6. t \in Names => dir[t] # None
  BY <1>2, <1>3
<1>7. t \notin Held(found)
  <2>1. CASE t \in Names
    BY <1>2, <2>1 DEF Walked, Held
  <2>2. CASE t \in Dirs
    BY <1>1, <1>5, <2>2 DEF Lists, Held
  <2>3. QED
    BY <1>2, <2>1, <2>2 DEF Everything
<1>8. ASSUME NEW n \in T PROVE n \in Names /\ D[n] # None /\ Bytes(n, D[n]) \in Nat
  <2>1. n \in Names /\ dir[n] # None
    BY <1>1 DEF There, DataFiles, Manifests, Names
  <2>2. QED
    BY <1>1, <2>1, ContentOf
<1>9. PICK g : g = [x \in T \cup Dirs |-> IF x \in Dirs THEN 0 ELSE Bytes(x, D[x])]
  OBVIOUS
<1>10. /\ \A n \in T : g[n] = Bytes(n, D[n])
       /\ \A x \in Dirs : g[x] = 0
  BY <1>8, <1>9, NameFacts
<1>11. /\ IsFiniteSet(T \cup Dirs) /\ Cardinality(T \cup Dirs) = Cardinality(T) + 2
       /\ SumFunctionOnSet(g, T \cup Dirs) = SumFunctionOnSet([n \in T |-> Bytes(n, D[n])], T)
  BY <1>1, <1>8, <1>10, ThereFacts
<1>12. Cardinality(T) + 2 <= MaxNames /\ SumFunctionOnSet([n \in T |-> Bytes(n, D[n])], T) <= MaxTotal
  BY <1>1 DEF Loadable, There
<1>13. PICK S : S = Held(found) \cup {t}
  OBVIOUS
<1>14. S \in SUBSET (T \cup Dirs)
  BY <1>2, <1>4, <1>13
<1>15. ~(Cardinality(Held(found)) >= MaxNames)
  <2>1. IsFiniteSet(Held(found)) /\ Cardinality(Held(found)) \in Nat
    BY TotalType DEF FoundOK
  <2>2. Cardinality(S) = Cardinality(Held(found)) + 1
    BY <1>7, <1>13, <2>1, CountMore
  <2>3. Cardinality(S) <= Cardinality(T \cup Dirs) /\ Cardinality(T \cup Dirs) \in Nat /\ Cardinality(S) \in Nat
    BY <1>11, <1>14, FS_Subset, FS_CardinalityType
  <2>4. QED
    BY <1>11, <1>12, <2>1, <2>2, <2>3, LimitTypes
<1>16. ~(Total(Described(found)) > MaxTotal)
  <2>1. PICK info : info = Info(t) /\ info \in Infos /\ info # None
                    /\ info.size = IF t \in Dirs THEN 0 ELSE Bytes(t, dir[t])
    BY <1>2, <1>6, InfoType
  <2>2. PICK more : more = Described(found)
    OBVIOUS
  <2>3. found \in [Everything -> Infos \cup {None}]
    BY DEF FoundOK
  <2>4. more = [found EXCEPT ![t] = info] /\ more \in [Everything -> Infos \cup {None}]
    BY <1>1, <2>1, <2>2, <2>3 DEF Described
  <2>5. Held(more) = S
    BY <1>2, <1>13, <2>1, <2>3, <2>4 DEF Held, Everything
  <2>6. ASSUME NEW x \in S PROVE more[x].size = g[x]
    <3>1. x \in Everything /\ x \in T \cup Dirs
      BY <1>14, <1>2, <1>13, <2>6 DEF Held, Everything
    <3>2. g[x] = IF x \in Dirs THEN 0 ELSE Bytes(x, dir[x])
      BY <1>1, <1>9, <3>1
    <3>3. CASE x = t
      BY <2>1, <2>3, <2>4, <3>1, <3>2, <3>3
    <3>4. CASE x # t
      <4>1. x \in Held(found) /\ more[x] = found[x]
        BY <1>13, <2>3, <2>4, <2>6, <3>1, <3>4
      <4>2. found[x] = Info(x)
        BY <3>1, <4>1, Untouched DEF Walked
      <4>3. QED
        BY <3>2, <4>1, <4>2 DEF Info
    <3>5. QED
      BY <3>3, <3>4
  <2>7. PICK h : h = [x \in S |-> more[x].size]
    OBVIOUS
  <2>8. Total(more) = SumFunctionOnSet(h, S)
    BY <2>5, <2>7 DEF Total
  <2>9. IsFiniteSet(S) /\ \A x \in S : h[x] = g[x]
    BY <1>11, <1>14, <2>6, <2>7, FS_Subset
  <2>10. SumFunctionOnSet(h, S) = SumFunctionOnSet(g, S)
    BY <2>9, SumSame
  <2>11. \A x \in T \cup Dirs : g[x] \in Nat
    BY <1>8, <1>10
  <2>12. SumFunctionOnSet(g, S) <= SumFunctionOnSet(g, T \cup Dirs)
    BY <1>11, <1>14, <2>11, SumPart
  <2>13. SumFunctionOnSet(g, S) \in Nat /\ SumFunctionOnSet(g, T \cup Dirs) \in Nat
    <3>1. \A x \in S : g[x] \in Nat
      BY <1>14, <2>11
    <3>2. QED
      BY <1>11, <2>9, <2>11, <3>1, SumType
  <2>14. QED
    BY <1>11, <1>12, <2>2, <2>8, <2>10, <2>12, <2>13, LimitTypes
<1>17. QED
  BY <1>6, <1>15, <1>16

\* What a directory within the limits says of its data files and its rows.
LEMMA LoadableFiles ==
    ASSUME NEW D, TypedDir(D), Loadable(D), NEW n \in DataFiles(D)
    PROVE  /\ D[n] \in Seq(RowFields) /\ FileBytes(D[n]) <= MaxFileBytes /\ Len(D[n]) <= MaxRows
           /\ Tokens(D[n]) <= MaxCount /\ Cost(D[n]) <= MaxCost /\ \A i \in DOMAIN D[n] : D[n][i] # Torn
<1>1. /\ Torn \notin ToSet(D[n]) /\ Bytes(n, D[n]) <= MaxFileBytes /\ Len(D[n]) <= MaxRows
      /\ Tokens(D[n]) <= MaxCount /\ Cost(D[n]) <= MaxCost
  BY DEF Loadable
<1>2. PICK c : c = D[n]
  OBVIOUS
<1>3. c \in Seq(RowFields \cup {Torn}) /\ \A i \in DOMAIN c : c[i] # Torn
  BY <1>1, <1>2 DEF TypedDir, ToSet
<1>4. c \in Seq(RowFields)
  BY <1>3
<1>5. Bytes(n, D[n]) = FileBytes(D[n])
  <2>1. n \notin ManifestNames
    BY LangfuseAssumption DEF DataFiles
  <2>2. QED
    BY <2>1 DEF Bytes
<1>6. QED
  BY <1>1, <1>2, <1>3, <1>4, <1>5

\* The beginning of a file costs no more than the file.
LEMMA BeginningsCost ==
    ASSUME NEW c \in Seq(RowFields), NEW s \in Seq(RowFields), Begins(s, c)
    PROVE  Tokens(s) <= Tokens(c) /\ Cost(s) <= Cost(c)
<1>1. PICK G, H : G = Generations(c) /\ H = Generations(s)
  OBVIOUS
<1>2. DOMAIN c = 1..Len(c) /\ DOMAIN s = 1..Len(s) /\ Len(c) \in Nat /\ Len(s) \in Nat
  OBVIOUS
<1>3. Len(s) <= Len(c) /\ \A i \in DOMAIN s : s[i] = c[i]
  BY DEF Begins
<1>4. DOMAIN s \subseteq DOMAIN c
  BY <1>2, <1>3
<1>5. G \in SUBSET DOMAIN c /\ H \in SUBSET G /\ H \in SUBSET DOMAIN s
  BY <1>1, <1>3, <1>4 DEF Generations
<1>6. IsFiniteSet(G) /\ IsFiniteSet(H)
  BY <1>5, IndexSetsFinite, FS_Subset
<1>7. ASSUME NEW i \in DOMAIN c PROVE c[i].tokens \in Nat /\ c[i].cost \in Nat
  <2>1. c[i] \in RowFields
    OBVIOUS
  <2>2. QED
    BY <2>1 DEF RowFields
<1>8. Tokens(s) <= Tokens(c)
  <2>1. PICK f, g : f = [i \in DOMAIN s |-> s[i].tokens] /\ g = [i \in DOMAIN c |-> c[i].tokens]
    OBVIOUS
  <2>2. \A i \in H : f[i] = g[i]
    BY <1>3, <1>4, <1>5, <2>1
  <2>3. \A i \in G : g[i] \in Nat
    BY <1>5, <1>7, <2>1
  <2>4. SumFunctionOnSet(f, H) = SumFunctionOnSet(g, H)
    BY <1>6, <2>2, SumSame
  <2>5. SumFunctionOnSet(g, H) <= SumFunctionOnSet(g, G)
    BY <1>5, <1>6, <2>3, SumPart
  <2>6. QED
    BY <1>1, <2>1, <2>4, <2>5 DEF Tokens
<1>9. Cost(s) <= Cost(c)
  <2>1. PICK f, g : f = [i \in DOMAIN s |-> s[i].cost] /\ g = [i \in DOMAIN c |-> c[i].cost]
    OBVIOUS
  <2>2. \A i \in H : f[i] = g[i]
    BY <1>3, <1>4, <1>5, <2>1
  <2>3. \A i \in G : g[i] \in Nat
    BY <1>5, <1>7, <2>1
  <2>4. SumFunctionOnSet(f, H) = SumFunctionOnSet(g, H)
    BY <1>6, <2>2, SumSame
  <2>5. SumFunctionOnSet(g, H) <= SumFunctionOnSet(g, G)
    BY <1>5, <1>6, <2>3, SumPart
  <2>6. QED
    BY <1>1, <2>1, <2>4, <2>5 DEF Cost
<1>10. QED
  BY <1>8, <1>9

\* The rows of its sound files.
LEMMA ObservedFinite ==
    ASSUME NEW D, TypedDir(D), Loadable(D)
    PROVE  IsFiniteSet(Observed(D)) /\ Observed(D) \subseteq RowFields
<1>1. PICK S : S = SoundRows(D)
  OBVIOUS
<1>2. S \subseteq Entries(D) /\ IsFiniteSet(S)
  <2>1. S \in SUBSET Entries(D)
    BY <1>1 DEF SoundRows
  <2>2. QED
    BY <2>1, EntryFacts, FS_Subset
<1>3. PICK f : f = [e \in S |-> ToSet(D[Entry(D, e).path])]
  OBVIOUS
<1>4. ASSUME NEW e \in S PROVE IsFiniteSet(f[e]) /\ f[e] \subseteq RowFields
  <2>1. PICK n : n = Entry(D, e).path
    OBVIOUS
  <2>2. n \in DataNames
    <3>1. Entry(D, e) \in FileFields /\ n # Elsewhere
      BY <1>2, <2>1, EntryFacts DEF Loadable
    <3>2. QED
      BY <2>1, <3>1 DEF FileFields
  <2>3. n \in DataFiles(D)
    BY <1>1, <2>1, <2>2 DEF SoundRows, Sound, DataFiles
  <2>4. PICK c \in Seq(RowFields) : c = D[n]
    BY <2>3, LoadableFiles
  <2>5. f[e] = {c[i] : i \in DOMAIN c}
    BY <1>3, <1>4, <2>1, <2>4 DEF ToSet
  <2>6. IsFiniteSet({c[i] : i \in DOMAIN c})
    BY ElementsFinite
  <2>7. QED
    BY <2>5, <2>6
<1>5. Observed(D) = UNION {f[e] : e \in S}
  BY <1>1, <1>3 DEF Observed
<1>6. IsFiniteSet({f[e] : e \in S}) /\ \A T \in {f[e] : e \in S} : IsFiniteSet(T)
  BY <1>2, <1>4, ImageFinite
<1>7. IsFiniteSet(UNION {f[e] : e \in S})
  BY <1>6, FS_UNION
<1>8. UNION {f[e] : e \in S} \subseteq RowFields
  BY <1>4
<1>9. QED
  BY <1>5, <1>7, <1>8

\* A row that is within the limits.
LEMMA RowFits ==
    ASSUME TypeInv, LoadInv, pc = "read", Good, Loadable(dir), Len(got) < Len(Opened)
    PROVE  ~Exceeds(Opened[Len(got) + 1])
<1>1. PICK c, n, row : c = Opened /\ n = File.path /\ row = c[Len(got) + 1]
  OBVIOUS
<1>2. /\ TypedDir(dir) /\ c = dir[n] /\ c # None /\ OpenAgrees
      /\ File \in FileFields
  BY <1>1, OpenFacts DEF LoadInv, ReadInv, Reading
<1>3. n \in DataFiles(dir)
  BY <1>1, <1>2 DEF TypeInv, OpenOK, DataFiles
<1>4. /\ c \in Seq(RowFields) /\ Len(c) <= MaxRows /\ Tokens(c) <= MaxCount /\ Cost(c) <= MaxCost
  BY <1>2, <1>3, LoadableFiles
<1>5. got \in Seq(RowFields) /\ Len(got) < Len(c) /\ Begins(got, c)
  BY <1>1, <1>2 DEF TypeInv, GotOK, OpenAgrees
<1>6. ~(Len(got) >= MaxRows)
  BY <1>4, <1>5, LimitTypes
<1>7. PICK s : s = Append(got, row)
  OBVIOUS
<1>8. row \in RowFields /\ Len(got) + 1 \in DOMAIN c
  BY <1>1, <1>4, <1>5
<1>9. /\ s \in Seq(RowFields) /\ Len(s) = Len(got) + 1 /\ DOMAIN s = 1..(Len(got) + 1)
      /\ \A i \in DOMAIN s : s[i] = IF i = Len(got) + 1 THEN row ELSE got[i]
  BY <1>5, <1>7, <1>8
<1>10. Begins(s, c)
  <2>1. Len(s) <= Len(c)
    BY <1>4, <1>5, <1>9
  <2>2. ASSUME NEW i \in DOMAIN s PROVE s[i] = c[i]
    <3>1. CASE i = Len(got) + 1
      BY <1>1, <1>9, <3>1
    <3>2. CASE i # Len(got) + 1
      <4>1. i \in DOMAIN got
        BY <1>5, <1>9, <3>2
      <4>2. QED
        BY <1>5, <1>9, <3>2, <4>1 DEF Begins
    <3>3. QED
      BY <3>1, <3>2
  <2>3. QED
    BY <2>1, <2>2 DEF Begins
<1>11. Tokens(s) <= Tokens(c) /\ Cost(s) <= Cost(c)
  BY <1>4, <1>9, <1>10, BeginningsCost
<1>12. Tokens(s) \in Nat /\ Cost(s) \in Nat /\ Tokens(c) \in Nat /\ Cost(c) \in Nat
  BY <1>4, <1>9, TokensType
<1>13. ~(Tokens(s) > MaxCount) /\ ~(Cost(s) > MaxCost)
  BY <1>4, <1>11, <1>12, LimitTypes
<1>14. QED
  BY <1>1, <1>6, <1>7, <1>13 DEF Exceeds

\* And a file.
LEMMA FileFits ==
    ASSUME TypeInv, LoadInv, pc = "read", Good, Loadable(dir), Len(got) >= Len(Opened), AsListed, Observations
    PROVE  ~Refused
<1>1. PICK D, e : D = dir /\ e = <<Turn, j>>
  OBVIOUS
<1>2. PICK all : all = Observed(D)
  OBVIOUS
<1>3. /\ TypedDir(D) /\ e \in Entries(D) /\ e \notin Done /\ Done \subseteq Entries(D) /\ Entry(D, e) = File
  BY <1>1, OpenFacts
<1>4. got = D[File.path] /\ Sound(D, e) /\ got \in Seq(RowFields)
  BY <1>1, ReadSound DEF TypeInv, GotOK
<1>5. e \in SoundRows(D)
  BY <1>3, <1>4 DEF SoundRows, Observations
<1>6. ToSet(got) \subseteq all
  BY <1>2, <1>3, <1>4, <1>5 DEF Observed
<1>7. RowsAgree(D, Done, rows)
  BY <1>1 DEF LoadInv, ReadInv, Reading
<1>8. rows \subseteq all
  <2>1. WithRows(D, Done) \subseteq SoundRows(D)
    BY <1>3 DEF WithRows, SoundRows
  <2>2. Seen(D, Done) \subseteq all
    BY <1>2, <2>1 DEF Seen, Observed
  <2>3. QED
    BY <1>7, <2>2 DEF RowsAgree
<1>9. IsFiniteSet(all) /\ all \subseteq RowFields
  BY <1>1, <1>2, <1>3, ObservedFinite
<1>10. /\ \A r, q \in all : Key(r) = Key(q) => r.print = q.print
       /\ \A r \in all : r.end # "bad"
       /\ Cardinality({Key(r) : r \in all}) <= MaxRows /\ KeptCost(all) <= MaxCost
  BY <1>1, <1>2 DEF Loadable
<1>11. \A i \in DOMAIN got : got[i].end # "bad"
  BY <1>6, <1>10 DEF ToSet
<1>12. ~Conflict
  BY <1>6, <1>8, <1>10 DEF Conflict
<1>13. PICK kept : kept = Merged
  OBVIOUS
<1>14. kept \subseteq all /\ IsFiniteSet(kept)
  <2>1. rows \subseteq RowFields /\ IsFiniteSet(rows)
    BY DEF TypeInv, RowsOK
  <2>2. IsFiniteSet(kept) /\ \A r \in kept : r \in rows \/ r \in ToSet(got)
    BY <1>4, <1>13, <2>1, MergedTypes
  <2>3. QED
    BY <1>6, <1>8, <2>2
<1>15. \A q, r \in kept : Key(q) = Key(r) => q = r
  <2>1. PICK E, F : E = Done /\ F = Done \cup {e}
    OBVIOUS
  <2>2. Seen(D, F) = Seen(D, E) \cup ToSet(got)
    BY <1>3, <1>4, <2>1, RowsTaken DEF Observations
  <2>3. RowsAgree(D, F, Merged)
    BY <1>4, <1>7, <1>12, <2>1, <2>2, MergedAgree
  <2>4. QED
    BY <1>13, <2>3 DEF RowsAgree
<1>16. ~(Cardinality(kept) > MaxRows)
  <2>1. PICK f, K : f = [r \in all |-> Key(r)] /\ K = {Key(r) : r \in all}
    OBVIOUS
  <2>2. {f[r] : r \in all} = K
    BY <2>1
  <2>3. IsFiniteSet(K)
    BY <1>9, <2>2, ImageFinite
  <2>4. {Key(r) : r \in kept} \in SUBSET K
    BY <1>14, <2>1
  <2>5. Cardinality({Key(r) : r \in kept}) <= Cardinality(K)
    BY <2>3, <2>4, FS_Subset
  <2>6. Cardinality({Key(r) : r \in kept}) = Cardinality(kept)
    BY <1>14, <1>15, KeysDiffer
  <2>7. Cardinality(kept) \in Nat /\ Cardinality(K) \in Nat
    BY <1>14, <2>3, FS_CardinalityType
  <2>8. QED
    BY <1>10, <2>1, <2>5, <2>6, <2>7, LimitTypes
<1>17. ~(KeptCost(kept) > MaxCost)
  <2>1. PICK f, g : f = [r \in kept |-> r.cost] /\ g = [r \in all |-> r.cost]
    OBVIOUS
  <2>2. PICK S, T : S = {r \in kept : r.kind = "GENERATION"} /\ T = {r \in all : r.kind = "GENERATION"}
    OBVIOUS
  <2>3. T \in SUBSET all /\ S \in SUBSET T /\ S \subseteq kept
    BY <1>14, <2>2
  <2>4. IsFiniteSet(S) /\ IsFiniteSet(T)
    BY <1>9, <2>3, FS_Subset
  <2>5. \A r \in S : f[r] = g[r]
    BY <2>1, <2>3
  <2>6. \A r \in T : g[r] \in Nat
    <3>1. \A r \in all : r.cost \in Nat
      BY <1>9 DEF RowFields
    <3>2. QED
      BY <2>1, <2>3, <3>1
  <2>7. SumFunctionOnSet(f, S) = SumFunctionOnSet(g, S)
    BY <2>4, <2>5, SumSame
  <2>8. SumFunctionOnSet(g, S) <= SumFunctionOnSet(g, T)
    BY <2>3, <2>4, <2>6, SumPart
  <2>9. KeptCost(kept) = SumFunctionOnSet(f, S) /\ KeptCost(all) = SumFunctionOnSet(g, T)
    BY <2>1, <2>2 DEF KeptCost
  <2>10. KeptCost(kept) \in Nat /\ KeptCost(all) \in Nat
    BY <1>9, <1>14, KeptCostType
  <2>11. QED
    BY <1>10, <2>7, <2>8, <2>9, <2>10, LimitTypes
<1>18. QED
  BY <1>11, <1>12, <1>13, <1>16, <1>17 DEF Refused

\* Two inventories of a directory that nobody has touched are the same.
LEMMA SameTwice ==
    ASSUME TypeInv, changes = 0, Walked(names, {}), Walked(after, {})
    PROVE  after = names
<1>1. /\ DiskOK /\ FoundOK(names) /\ FoundOK(after)
      /\ names \in [Everything -> Infos \cup {None}] /\ after \in [Everything -> Infos \cup {None}]
  BY DEF TypeInv, FoundOK
<1>2. Good
  BY <1>1, Untouched DEF Good
<1>3. \A n \in Names : dir[n] # None <=> names[n] # None
  BY <1>2, Inventoried
<1>4. ASSUME NEW n \in Names PROVE dir[n] # None <=> after[n] # None
  <2>1. DirOf(n) \in Dirs /\ DirOf(n) \in Everything
    BY NameFacts
  <2>2. DirOf(n) \in Held(after)
    BY <2>1 DEF Walked
  <2>3. Fresh(after, DirOf(n))
    BY <1>1, <2>2, Untouched
  <2>4. QED
    BY <2>3 DEF Walked
<1>5. ASSUME NEW x \in Everything PROVE after[x] = names[x]
  <2>1. after[x] # None <=> names[x] # None
    <3>1. CASE x \in Names
      BY <1>3, <1>4, <3>1
    <3>2. CASE x \in Dirs
      BY <3>2 DEF Walked, Held
    <3>3. QED
      BY <3>1, <3>2 DEF Everything
  <2>2. CASE names[x] # None
    <3>1. x \in Held(names) /\ x \in Held(after)
      BY <2>1, <2>2 DEF Held, Everything
    <3>2. names[x] = Info(x) /\ after[x] = Info(x)
      BY <1>1, <3>1, Untouched DEF Walked
    <3>3. QED
      BY <3>2
  <2>3. QED
    BY <2>1, <2>2
<1>6. QED
  BY <1>1, <1>5

\* Nothing of such a directory ends the load.
LEMMA StableManifests ==
    ASSUME TypeInv, WalkInv, LoadInv, changes = 0, Loadable(dir), ReadManifest \/ EndManifests
    PROVE  pc' # "error"
<1>1. pc = "manifests" /\ DiskOK /\ FoundOK(names)
  BY DEF ReadManifest, EndManifests, TypeInv
<1>2. Good
  BY <1>1, Untouched DEF Good
<1>3. CASE ReadManifest
  <2>1. todo # {} /\ todo \subseteq ManifestNames /\ todo \subseteq Held(names) /\ todo \subseteq Everything
    BY <1>1, <1>3 DEF ReadManifest, TypeInv, PhaseOK, LoadInv, ManifestsInv
  <2>2. PICK n : n = Turn
    OBVIOUS
  <2>3. n \in ManifestNames /\ n \in Held(names) /\ n \in Names
    BY <2>1, <2>2, TurnIsOne DEF Names
  <2>4. Walked(names, {})
    BY <1>1 DEF WalkInv, Left1
  <2>5. dir[n] # None
    BY <1>2, <2>3, <2>4, Inventoried DEF Held
  <2>6. WellFormed(dir[n])
    BY <2>3, <2>5 DEF Loadable, Manifests
  <2>7. pc' = pc
    BY <1>3, <2>2, <2>5, <2>6 DEF ReadManifest
  <2>8. QED
    BY <1>1, <2>7
<1>4. CASE EndManifests
  <2>1. todo = {}
    BY <1>4 DEF EndManifests
  <2>2. \A n \in ManifestNames : runs[n] = dir[n]
    BY <1>1, <1>2, <2>1 DEF LoadInv, ManifestsInv
  <2>3. ReadRuns = Manifests(dir)
    BY <2>2 DEF ReadRuns, Manifests
  <2>4. ReadRuns # {}
    BY <2>3 DEF Loadable
  <2>5. QED
    BY <1>4, <2>4 DEF EndManifests
<1>5. QED
  BY <1>3, <1>4

LEMMA StableOpenListed ==
    ASSUME TypeInv, WalkInv, LoadInv, changes = 0, Loadable(dir), OpenListed
    PROVE  pc' # "error"
<1>1. pc = "files" /\ todo # {} /\ j <= Len(Run.files) /\ DiskOK /\ FoundOK(names)
  BY DEF OpenListed, TypeInv
<1>2. Good
  BY <1>1, Untouched DEF Good
<1>3. \A n \in ManifestNames : runs[n] = dir[n]
  BY <1>1, <1>2 DEF LoadInv, ReadInv, Reading
<1>4. PICK e, n : e = <<Turn, j>> /\ n = File.path
  OBVIOUS
<1>5. TypedDir(dir) /\ e \in Entries(dir) /\ Entry(dir, e) = File /\ File \in FileFields
  BY <1>1, <1>3, <1>4, TurnFacts DEF Reading
<1>6. n # Elsewhere /\ n \in DataNames /\ n \in Names
  <2>1. n # Elsewhere
    BY <1>4, <1>5 DEF Loadable
  <2>2. QED
    BY <1>4, <1>5, <2>1 DEF FileFields, Names
<1>7. Walked(names, {})
  BY <1>1 DEF WalkInv, Left1
<1>8. ASSUME names[n] # None
      PROVE  ~(names[n].size > MaxFileBytes) /\ Opens(n)
  <2>1. n \in Held(names) /\ dir[n] # None /\ names[n].size = Bytes(n, dir[n])
    BY <1>2, <1>6, <1>7, <1>8, Inventoried DEF Held
  <2>2. n \in DataFiles(dir)
    BY <1>6, <2>1 DEF DataFiles
  <2>3. Bytes(n, dir[n]) <= MaxFileBytes /\ Bytes(n, dir[n]) \in Nat
    BY <1>1, <1>6, <2>1, <2>2, ContentOf DEF Loadable
  <2>4. Opens(n)
    BY <1>2, <2>1 DEF Opens, Good
  <2>5. QED
    BY <2>1, <2>3, <2>4, LimitTypes
<1>9. pc' = pc \/ pc' = "read"
  BY <1>4, <1>6, <1>8 DEF OpenListed
<1>10. QED
  BY <1>1, <1>9

LEMMA StableRead ==
    ASSUME TypeInv, LoadInv, changes = 0, Loadable(dir), ReadRow \/ EndRead
    PROVE  pc' # "error"
<1>1. pc = "read" /\ DiskOK /\ FoundOK(names)
  BY DEF ReadRow, EndRead, TypeInv
<1>2. Good
  BY <1>1, Untouched DEF Good
<1>3. CASE ReadRow
  <2>1. PICK row : row = Opened[Len(got) + 1]
    OBVIOUS
  <2>2. ~Exceeds(row)
    BY <1>1, <1>2, <1>3, <2>1, RowFits DEF ReadRow
  <2>3. pc' = pc \/ pc' = "files"
    BY <1>3, <2>1, <2>2 DEF ReadRow, Discard, Close
  <2>4. QED
    BY <1>1, <2>3
<1>4. CASE EndRead
  <2>1. ~(AsListed /\ Observations /\ Refused)
    BY <1>1, <1>2, <1>4, FileFits DEF EndRead
  <2>2. pc' = "files"
    BY <1>4, <2>1 DEF EndRead, Discard, Close
  <2>3. QED
    BY <2>2
<1>5. QED
  BY <1>3, <1>4

LEMMA StableStep ==
    ASSUME TypeInv, WalkInv, LoadInv, StableDirectoryLoaded, [Next]_vars
    PROVE  StableDirectoryLoaded'
<1> SUFFICES ASSUME changes' = 0, Loadable(dir)' PROVE pc' # "error"
  BY DEF StableDirectoryLoaded
<1>1. CASE Writer
  <2>1. changes' = changes + 1 /\ changes \in Nat
    BY <1>1, LimitTypes DEF Writer, TypeInv, DiskOK
  <2>2. QED
    BY <2>1
<1>2. CASE ~Writer
  <2>1. UNCHANGED diskVars
    BY <1>2, LoadKeepsDisk DEF Next, vars
  <2>2. changes = 0 /\ dir' = dir
    BY <2>1 DEF diskVars
  <2>3. Loadable(dir)
    <3>1. Loadable(dir')
      OBVIOUS
    <3>2. QED
      BY <2>2, <3>1
  <2>4. pc # "error"
    BY <2>2, <2>3 DEF StableDirectoryLoaded
  <2>5. DiskOK /\ FoundOK(names) /\ FoundOK(after)
    BY DEF TypeInv
  <2>6. CASE Inventory1
    <3>1. pc = "inv1" /\ todo # {}
      BY <2>6 DEF Inventory1
    <3>2. Walked(names, todo)
      BY <3>1 DEF WalkInv, Left1
    <3>3. ~WalkFails(names)
      BY <2>2, <2>3, <2>5, <3>1, <3>2, WalkFits
    <3>4. QED
      BY <2>4, <2>6, <3>3 DEF Inventory1
  <2>7. CASE Inventory2
    <3>1. pc = "inv2" /\ todo # {}
      BY <2>7 DEF Inventory2
    <3>2. Walked(after, todo)
      BY <3>1 DEF WalkInv, Left2, BeforeRecheck
    <3>3. ~WalkFails(after)
      BY <2>2, <2>3, <2>5, <3>1, <3>2, WalkFits
    <3>4. QED
      BY <2>4, <2>7, <3>3 DEF Inventory2
  <2>8. CASE EndLoad
    <3>1. pc = "inv2" /\ todo = {}
      BY <2>8 DEF EndLoad
    <3>2. Walked(names, {}) /\ Walked(after, {})
      BY <3>1 DEF WalkInv, Left1, Left2, BeforeRecheck
    <3>3. Unchanged
      BY <2>2, <3>2, SameTwice DEF Unchanged
    <3>4. QED
      BY <2>8, <3>3 DEF EndLoad
  <2>9. CASE ReadManifest \/ EndManifests
    BY <2>2, <2>3, <2>9, StableManifests
  <2>10. CASE OpenListed
    BY <2>2, <2>3, <2>10, StableOpenListed
  <2>11. CASE ReadRow \/ EndRead
    BY <2>2, <2>3, <2>11, StableRead
  <2>12. CASE BeginManifests \/ EndRun \/ BeginRecheck \/ Investigate \/ UNCHANGED vars
    BY <2>4, <2>12 DEF BeginManifests, EndRun, BeginRecheck, Investigate, vars
  <2>13. QED
    BY <1>2, <2>6, <2>7, <2>8, <2>9, <2>10, <2>11, <2>12 DEF Next, Load
<1>3. QED
  BY <1>1, <1>2
-----------------------------------------------------------------------------
LangfuseInv == TypeInv /\ WalkInv /\ LoadInv /\ EndInv /\ StableDirectoryLoaded

\* The inductive invariant: types; what an inventory knows; the account of
\* what was read, as long as nobody has touched the directory; the account at
\* the end, or a stamp that the second inventory will not find unchanged.
THEOREM LangfuseInvariant == Spec => []LangfuseInv
<1>1. Init => LangfuseInv
  <2>1. Init => pc # "error"
    BY DEF Init
  <2>2. QED
    BY <2>1, TypesInit, WalkInit, LoadInvInit, EndInvInit DEF LangfuseInv, StableDirectoryLoaded
<1>2. LangfuseInv /\ [Next]_vars => LangfuseInv'
  BY TypesStep, WalkStep, LoadInvStep, EndInvStep, StableStep DEF LangfuseInv
<1>3. QED
  BY <1>1, <1>2, PTL DEF Spec

\* A load of a local Langfuse export that succeeds (loadDirectory) describes
\* the directory as it was when the second inventory began, whatever other
\* programs did before, in between and after: its runs, each observation of
\* its sound files once, and counters of missing, partial, extra and
\* duplicate data to match.
THEOREM LoadIsSnapshot == Spec => []SnapshotOfOneDirectory
<1>1. LangfuseInv => SnapshotOfOneDirectory
  BY SettledSnapshot DEF LangfuseInv
<1>2. QED
  BY <1>1, LangfuseInvariant, PTL

\* The report compares volumes (Investigate, covered) only of periods every
\* moment of which lies, for every project, in the window of a manifest whose
\* files were all there and sound, with no data file left over.
THEOREM VolumeIsCovered == Spec => []VolumeOnlyIfCovered
<1>1. LangfuseInv => VolumeOnlyIfCovered
  BY SettledCovered DEF LangfuseInv
<1>2. QED
  BY <1>1, LangfuseInvariant, PTL

\* The loader holds no more names, bytes, rows, tokens or cost than its limits
\* (inventory, readFile, loadDirectory), and refuses no directory that keeps
\* within all of them and that nobody changes.
THEOREM LimitsAreExact == Spec => []LoadLimitsExact
<1>1. LangfuseInv => LoadLimitsExact
  BY TypesFollow DEF LangfuseInv, LoadLimitsExact
<1>2. QED
  BY <1>1, LangfuseInvariant, PTL
=============================================================================
