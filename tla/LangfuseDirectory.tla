-------------------------- MODULE LangfuseDirectory --------------------------
(***************************************************************************)
(* loadDirectory and Investigate (internal/langfuse/directory.go): a local *)
(* copy of a Langfuse bucket export is inventoried, its manifests and the  *)
(* files they list are read, and the inventory is taken again, while other *)
(* programs may write, replace, add or remove files at any moment.         *)
(***************************************************************************)
EXTENDS Integers, Sequences, FiniteSets, FiniteSetsExt, Functions, SequencesExt

CONSTANTS
    Projects,      \* project ids
    ManifestNames, \* names under manifests/
    DataNames,     \* names under observations_v2/ and scores/
    PathOrder,     \* these names and the two directories, as a walk meets them
    Contents,      \* Contents[n]: what may be found under a name
    StartDirs,     \* the directories explored at the start
    ChangingDirs,  \* bound: those that other programs change
    Written,       \* bound: Written[n]: what they write under a name
    PeriodPairs,   \* the two periods of the comparison
    None, Torn, Elsewhere,
    MaxNames,      \* maxDirectoryFiles
    MaxTotal,      \* maxDirectoryBytes
    MaxFileBytes, MaxRows, MaxCount, MaxCost,
    MaxWrites      \* bound: changes by other programs

Dirs == {"manifests", "data"}
Names == ManifestNames \cup DataNames
DirOf(n) == IF n \in ManifestNames THEN "manifests" ELSE "data"
NamesIn(d) == IF d = "manifests" THEN ManifestNames ELSE DataNames

\* An observation: "broken" lacks a required field; end "bad" is no native
\* time; print is the fingerprint of the fields that duplicates must share.
RowFields == [id: Nat, project: Projects, t: Nat, kind: {"GENERATION", "SPAN", "broken"},
              end: {"valid", "bad"}, print: Nat, tokens: Nat, cost: Nat, size: Nat \ {0}]
FileFields == [path: DataNames \cup {Elsewhere}, table: {"observations_v2", "scores"}, size: Nat, rows: Nat]
ManifestFields == [project: Projects, start: Nat, end: Nat, files: Seq(FileFields)]

Infos == [stamp: Nat, size: Nat]

ASSUME LangfuseAssumption ==
    /\ PathOrder \in Seq(Names \cup Dirs) /\ ToSet(PathOrder) = Names \cup Dirs
    /\ ManifestNames \cap DataNames = {} /\ Names \cap Dirs = {} /\ Elsewhere \notin Names
    /\ None \notin Infos /\ \A n \in Names : None \notin Contents[n]
    /\ \A n \in Names : Contents[n] \subseteq
          IF DirOf(n) = "manifests" THEN ManifestFields \cup {Torn} ELSE Seq(RowFields \cup {Torn})
    /\ ChangingDirs \subseteq StartDirs /\ \A n \in Names : Written[n] \subseteq Contents[n]
    /\ \A d \in StartDirs : DOMAIN d = Names /\ \A n \in Names : d[n] \in Contents[n] \cup {None}
    /\ \A pair \in PeriodPairs : \A i \in {1, 2} : pair[i].start \in Nat /\ pair[i].end \in Nat
    /\ {MaxNames, MaxTotal, MaxFileBytes, MaxRows, MaxCount, MaxCost, MaxWrites} \subseteq Nat

VARIABLES
    dir,     \* dir[n]: the content under a name, or None
    stamp,   \* stamp[x]: inode and mtime of a name or directory
    changes, \* changes by other programs so far
    pc,      \* inv1, manifests, files, read, inv2, loaded, reported or error
    todo,    \* the names that a walk, or the loop over runs, has still to do
    names,   \* names[x]: what the first inventory found
    after,   \* what the second one found
    runs,    \* runs[n]: the manifest read under a name
    j,       \* the file being read of the first run still to do
    gone,    \* the open file's content once it was removed or replaced
    got,     \* the rows of the open file so far
    whole,   \* "complete": no file of the run is missing or partial
    listed, rows, windows, cov,
    shown,   \* the periods whose volume and increase the report shows, or None
    atEnd    \* history: the directory when the second inventory began

diskVars == <<dir, stamp, changes>>
sumVars == <<whole, listed, rows, windows, cov>>
vars == <<diskVars, pc, todo, names, after, runs, j, gone, got, sumVars, shown, atEnd>>

NoNames == [x \in Names \cup Dirs |-> None]

\* The first of some names in path order.
Earliest(xs) == PathOrder[Min({i \in DOMAIN PathOrder : PathOrder[i] \in xs})]

Init ==
    /\ dir \in StartDirs /\ stamp = [x \in Names \cup Dirs |-> 0] /\ changes = 0
    /\ pc = "inv1" /\ todo = Dirs /\ names = NoNames /\ after = NoNames
    /\ runs = [n \in ManifestNames |-> None] /\ j = 1 /\ gone = None /\ got = <<>>
    /\ whole = TRUE /\ listed = {} /\ rows = {} /\ windows = [p \in {} |-> {}]
    /\ cov = [files |-> 0, verified |-> 0, missing |-> 0, partial |-> 0, extra |-> 0, gaps |-> 0,
              physical |-> 0, duplicates |-> 0, uncovered |-> 0, incomplete |-> FALSE]
    /\ shown = None /\ atEnd = None
-----------------------------------------------------------------------------
(* inventory.                                                              *)

\* The bytes of a data file; the size of a manifest is one unit.
FileBytes(s) == SumFunctionOnSet([i \in DOMAIN s |-> IF s[i] = Torn THEN 1 ELSE s[i].size], DOMAIN s)
Bytes(n, content) == IF n \in ManifestNames THEN 1 ELSE FileBytes(content)

Info(x) == [stamp |-> stamp[x], size |-> IF x \in Dirs THEN 0 ELSE Bytes(x, dir[x])]
Held(found) == {x \in Names \cup Dirs : found[x] # None}
Total(found) == SumFunctionOnSet([x \in Held(found) |-> found[x].size], Held(found))

Abort == /\ pc' = "error"
         /\ UNCHANGED <<diskVars, todo, names, after, runs, j, gone, got, sumVars, shown, atEnd>>

\* WalkDir: a directory is described before it is listed, and each of its
\* names when its turn comes.
Turn == Earliest(todo)
Lists(found) == Turn \in Dirs /\ found[Turn] # None
Described(found) == [found EXCEPT ![Turn] = Info(Turn)]
Listing == {n \in NamesIn(Turn) : dir[n] # None}

\* A name that has gone since it was listed, one name or one byte too many.
WalkFails(found) ==
    /\ ~Lists(found)
    /\ \/ Turn \in Names /\ dir[Turn] = None
       \/ Cardinality(Held(found)) >= MaxNames
       \/ Total(Described(found)) > MaxTotal

\* One step of a walk over todo, which has found these names so far.
Visit(found) ==
    [names |-> IF Lists(found) THEN found ELSE Described(found),
     todo |-> IF Lists(found) THEN (todo \ {Turn}) \cup Listing
              ELSE IF Turn \in Dirs THEN todo ELSE todo \ {Turn}]

Inventory1 ==
    /\ pc = "inv1" /\ todo # {}
    /\ IF WalkFails(names) THEN Abort
       ELSE /\ names' = Visit(names).names /\ todo' = Visit(names).todo
            /\ UNCHANGED <<diskVars, pc, after, runs, j, gone, got, sumVars, shown, atEnd>>

BeginManifests ==
    /\ pc = "inv1" /\ todo = {} /\ pc' = "manifests"
    /\ todo' = ManifestNames \cap Held(names)
    /\ UNCHANGED <<diskVars, names, after, runs, j, gone, got, sumVars, shown, atEnd>>
-----------------------------------------------------------------------------
(* The manifests.                                                          *)

\* ParseManifest.
WellFormed(m) ==
    /\ m # Torn /\ m.start < m.end /\ m.files # <<>>
    /\ \A a, b \in DOMAIN m.files : a # b => m.files[a].path # m.files[b].path
    /\ \A a \in DOMAIN m.files : m.files[a].size <= MaxFileBytes /\ m.files[a].rows <= MaxRows

\* localfile.Read: the content of the moment, not that of the inventory.
ReadManifest ==
    /\ pc = "manifests" /\ todo # {}
    /\ LET m == dir[Turn]
       IN IF m = None \/ ~WellFormed(m) THEN Abort
          ELSE /\ runs' = [runs EXCEPT ![Turn] = m] /\ todo' = todo \ {Turn}
               /\ UNCHANGED <<diskVars, pc, names, after, j, gone, got, sumVars, shown, atEnd>>

ReadRuns == {n \in ManifestNames : runs[n] # None}

EndManifests ==
    /\ pc = "manifests" /\ todo = {}
    /\ IF ReadRuns = {} THEN Abort
       ELSE /\ pc' = "files" /\ todo' = ReadRuns
            /\ UNCHANGED <<diskVars, names, after, runs, j, gone, got, sumVars, shown, atEnd>>
-----------------------------------------------------------------------------
(* The listed files, run by run.                                           *)

Run == runs[Turn]
File == Run.files[j]

Count(c, field) == [c EXCEPT ![field] = @ + 1]

\* openFile: the file must still be the one of the inventory.
Opens(n) == dir[n] # None /\ stamp[n] = names[n].stamp

OpenListed ==
    LET f == File
        info == names[f.path]
        seen == Count(cov, "files")
        skip(what) == cov' = Count(seen, what) /\ whole' = FALSE /\ j' = j + 1 /\ pc' = pc
    IN /\ pc = "files" /\ todo # {} /\ j <= Len(Run.files)
       /\ IF f.path = Elsewhere THEN Abort
          ELSE IF info # None /\ (info.size > MaxFileBytes \/ (info.size = f.size /\ ~Opens(f.path))) THEN Abort
          ELSE /\ listed' = listed \cup {f.path}
               /\ \/ info = None /\ skip("missing")
                  \/ info # None /\ info.size # f.size /\ skip("partial")
                  \/ info # None /\ info.size = f.size /\ pc' = "read" /\ cov' = seen /\ UNCHANGED <<j, whole>>
               /\ UNCHANGED <<diskVars, todo, names, after, runs, gone, got, rows, windows, shown, atEnd>>

\* What the open descriptor reads.
Opened == IF gone # None THEN gone ELSE dir[File.path]

Generations(s) == {i \in DOMAIN s : s[i].kind = "GENERATION"}
Tokens(s) == SumFunctionOnSet([i \in DOMAIN s |-> s[i].tokens], Generations(s))
Cost(s) == SumFunctionOnSet([i \in DOMAIN s |-> s[i].cost], Generations(s))

\* The row belongs to the manifest's project and window. Adjacent runs may
\* both hold the row of their common boundary.
Belongs(row, m) == row.project = m.project /\ m.start <= row.t /\ row.t <= m.end

\* Mutant: counts are added without a bound.
ExceedsRows(row) == row # Torn /\ Len(got) >= MaxRows

\* readFile's visitor and FileReport.add: a row that makes the file
\* unusable, and one that ends the whole load.
Unusable(row) == \/ row = Torn
                 \/ File.table = "observations_v2" /\ (row.kind = "broken" \/ ~Belongs(row, Run))
Exceeds(row) == /\ row # Torn
                /\ \/ Len(got) >= MaxRows
                   \/ /\ File.table = "observations_v2" /\ row.kind # "broken"
                      /\ (Tokens(Append(got, row)) > MaxCount \/ Cost(Append(got, row)) > MaxCost)

Close == gone' = None /\ got' = <<>> /\ j' = j + 1 /\ pc' = "files"

\* A bad file contributes nothing, its valid prefix included.
Discard == /\ Close /\ cov' = Count(cov, "partial") /\ whole' = FALSE
           /\ UNCHANGED <<diskVars, todo, names, after, runs, listed, rows, windows, shown, atEnd>>

ReadRow ==
    /\ pc = "read" /\ Len(got) < Len(Opened)
    /\ LET row == Opened[Len(got) + 1]
       IN IF Exceeds(row) THEN Abort
          ELSE IF Unusable(row) THEN Discard
          ELSE /\ got' = Append(got, row)
               /\ UNCHANGED <<diskVars, pc, todo, names, after, runs, j, gone, sumVars, shown, atEnd>>

Key(row) == <<row.project, row.id>>

\* The rows kept after a file: the first of each key.
Merged ==
    rows \cup {got[i] : i \in {i \in DOMAIN got : /\ \A r \in rows : Key(r) # Key(got[i])
                                                /\ \A h \in 1..(i - 1) : Key(got[h]) # Key(got[i])}}

Conflict == \E a, b \in rows \cup ToSet(got) : Key(a) = Key(b) /\ a.print # b.print

\* The cost of the rows kept.
KeptCost(rs) == SumFunctionOnSet([r \in rs |-> r.cost], {r \in rs : r.kind = "GENERATION"})

\* The size and row count are those of the manifest.
AsListed == FileBytes(got) = File.size /\ Len(got) = File.rows

Observations == File.table = "observations_v2"

Verified(fresh) ==
    LET n == IF Observations THEN Len(got) ELSE 0
    IN [cov EXCEPT !.verified = @ + 1, !.physical = @ + n, !.duplicates = @ + n - fresh]

\* Mutant: duplicates count against the row limit.
RefusedEarly == \/ \E i \in DOMAIN got : got[i].end = "bad"
                \/ Conflict
                \/ Cardinality(rows) + Len(got) > MaxRows \/ KeptCost(Merged) > MaxCost

\* mappedRow and the totals of the whole directory.
Refused == \/ \E i \in DOMAIN got : got[i].end = "bad"
           \/ Conflict
           \/ Cardinality(Merged) > MaxRows \/ KeptCost(Merged) > MaxCost

EndRead ==
    /\ pc = "read" /\ Len(got) >= Len(Opened)
    /\ IF ~AsListed THEN Discard
       ELSE IF Observations /\ Refused THEN Abort
       ELSE /\ Close /\ rows' = (IF Observations THEN Merged ELSE rows)
            /\ cov' = Verified(Cardinality(rows') - Cardinality(rows))
            /\ UNCHANGED <<diskVars, todo, names, after, runs, whole, listed, windows, shown, atEnd>>

HasObservations(m) == \E a \in DOMAIN m.files : m.files[a].table = "observations_v2"

\* A project is known from its first manifest on; only complete runs cover.
KnownProjects == DOMAIN windows
WindowsOf(p) == IF p \in KnownProjects THEN windows[p] ELSE {}
Covers == whole /\ HasObservations(Run)
WindowsAfter ==
    [p \in KnownProjects \cup {Run.project} |->
        IF p = Run.project /\ Covers THEN WindowsOf(p) \cup {[start |-> Run.start, end |-> Run.end]}
        ELSE WindowsOf(p)]

EndRun ==
    /\ pc = "files" /\ todo # {} /\ j > Len(Run.files)
    /\ windows' = WindowsAfter
    /\ cov' = IF HasObservations(Run) THEN cov ELSE Count(cov, "missing")
    /\ todo' = todo \ {Turn} /\ j' = 1 /\ whole' = TRUE
    /\ UNCHANGED <<diskVars, pc, names, after, runs, gone, got, listed, rows, shown, atEnd>>

BeginRecheck ==
    /\ pc = "files" /\ todo = {}
    /\ pc' = "inv2" /\ todo' = Dirs /\ atEnd' = dir
    /\ cov' = [cov EXCEPT !.extra = Cardinality((DataNames \cap Held(names)) \ listed)]
    /\ UNCHANGED <<diskVars, names, after, runs, j, gone, got, whole, listed, rows, windows, shown>>
-----------------------------------------------------------------------------
(* The second inventory and the report.                                    *)

Inventory2 ==
    /\ pc = "inv2" /\ todo # {}
    /\ IF WalkFails(after) THEN Abort
       ELSE /\ after' = Visit(after).names /\ todo' = Visit(after).todo
            /\ UNCHANGED <<diskVars, pc, names, runs, j, gone, got, sumVars, shown, atEnd>>

\* Mutant: only the number of names is compared.
UnchangedCount == Cardinality(Held(after)) = Cardinality(Held(names))

Unchanged == after = names

\* Windows that start after the furthest end before them.
GapsIn(ws) ==
    Cardinality({s \in {w.start : w \in ws} : /\ \E w \in ws : w.start < s
                                             /\ \A w \in ws : w.start < s => w.end < s})
Gaps == SumFunctionOnSet([p \in KnownProjects |-> GapsIn(windows[p])], KnownProjects)

EndLoad ==
    /\ pc = "inv2" /\ todo = {}
    /\ IF ~Unchanged THEN Abort
       ELSE /\ pc' = "loaded"
            /\ cov' = [cov EXCEPT !.gaps = Gaps,
                                  !.incomplete = cov.missing + cov.partial + cov.extra + Gaps > 0]
            /\ UNCHANGED <<diskVars, todo, names, after, runs, j, gone, got, whole, listed, rows, windows, shown, atEnd>>

\* Where the loop over the windows, by their start, stops: the first moment
\* from which no window that has begun goes on.
Reach(ws, from) ==
    Min({e \in {from} \cup {w.end : w \in ws} : e >= from /\ \A w \in ws : w.start <= e => w.end <= e})

\* Mutant: the time before the first window is not looked at.
CoveredByLate(ws, p) ==
    ws # {} /\ p.end <= Reach(ws, Max({p.start, Min({w.start : w \in ws})}))

\* covered.
CoveredBy(ws, p) == ws # {} /\ p.end <= Reach(ws, p.start)

\* Investigate. The rows go to spend.InvestigateRows, which picks periods.
Investigate ==
    /\ pc = "loaded" /\ pc' = "reported"
    /\ \E pair \in PeriodPairs :
          LET open == {o \in KnownProjects \X {1, 2} : ~CoveredBy(windows[o[1]], pair[o[2]])}
              incomplete == cov.incomplete \/ open # {}
          IN /\ cov' = [cov EXCEPT !.uncovered = Cardinality(open), !.incomplete = incomplete]
             /\ shown' = IF incomplete THEN None ELSE pair
    /\ UNCHANGED <<diskVars, todo, names, after, runs, j, gone, got, whole, listed, rows, windows, atEnd>>

Load == \/ Inventory1 \/ BeginManifests \/ ReadManifest \/ EndManifests
        \/ OpenListed \/ ReadRow \/ EndRead \/ EndRun
        \/ BeginRecheck \/ Inventory2 \/ EndLoad \/ Investigate
-----------------------------------------------------------------------------
(* Other programs.                                                         *)

Running == pc \notin {"loaded", "reported", "error"}

\* The open file lives on when its name goes away.
KeepOpen(n) == gone' = IF pc = "read" /\ File.path = n /\ gone = None THEN dir[n] ELSE gone

Touch(xs) == stamp' = [x \in Names \cup Dirs |-> IF x \in xs THEN changes + 1 ELSE stamp[x]]

\* Written in place.
Rewrite(n) == /\ dir[n] # None
              /\ \E c \in Written[n] : dir' = [dir EXCEPT ![n] = c]
              /\ Touch({n}) /\ UNCHANGED gone

\* Created, or renamed over the old one.
Install(n) == /\ \E c \in Written[n] : dir' = [dir EXCEPT ![n] = c]
              /\ Touch({n, DirOf(n)}) /\ KeepOpen(n)

Unlink(n) == /\ dir[n] # None /\ dir' = [dir EXCEPT ![n] = None]
             /\ Touch({n, DirOf(n)}) /\ KeepOpen(n)

Writer ==
    /\ Running /\ changes < MaxWrites /\ (changes > 0 \/ dir \in ChangingDirs)
    /\ changes' = changes + 1
    /\ \E n \in Names : Rewrite(n) \/ Install(n) \/ Unlink(n)
    /\ UNCHANGED <<pc, todo, names, after, runs, j, got, sumVars, shown, atEnd>>

Next == Load \/ Writer

Spec == Init /\ [][Next]_vars
-----------------------------------------------------------------------------
Stamps == 0..MaxWrites

\* The types of the variables, within the limits of the reader.
TypeOK ==
    /\ \A n \in Names : dir[n] \in Contents[n] \cup {None}
    /\ stamp \in [Names \cup Dirs -> Stamps] /\ changes \in Stamps
    /\ pc \in {"inv1", "manifests", "files", "read", "inv2", "loaded", "reported", "error"}
    /\ \A found \in {names, after} : /\ found \in [Names \cup Dirs -> Infos \cup {None}]
                                     /\ Cardinality(Held(found)) <= MaxNames /\ Total(found) <= MaxTotal
    /\ got \in Seq(RowFields) /\ Len(got) <= MaxRows
    /\ pc = "read" /\ Observations => Tokens(got) <= MaxCount /\ Cost(got) <= MaxCost
    /\ rows \subseteq RowFields /\ IsFiniteSet(rows) /\ Cardinality(rows) <= MaxRows /\ KeptCost(rows) <= MaxCost
    /\ todo \subseteq Names \cup Dirs /\ listed \subseteq DataNames

\* What a directory that does not change says, file by file.
Manifests(D) == {n \in ManifestNames : D[n] # None}
DataFiles(D) == {n \in DataNames : D[n] # None}
Entries(D) == UNION {{n} \X DOMAIN D[n].files : n \in Manifests(D)}
Entry(D, e) == D[e[1]].files[e[2]]
Present(D, e) == D[Entry(D, e).path] # None
Sound(D, e) ==
    LET f == Entry(D, e)
        c == D[f.path]
    IN /\ c # None /\ Torn \notin ToSet(c)
       /\ FileBytes(c) = f.size /\ Len(c) = f.rows
       /\ f.table = "observations_v2" => \A i \in DOMAIN c : c[i].kind # "broken" /\ Belongs(c[i], D[e[1]])
SoundRows(D) == {e \in Entries(D) : Sound(D, e) /\ Entry(D, e).table = "observations_v2"}
Observed(D) == UNION {ToSet(D[Entry(D, e).path]) : e \in SoundRows(D)}
Listed(D) == {Entry(D, e).path : e \in Entries(D)}

\* A load that succeeds describes the directory as it was at one moment, no
\* matter what happened between the inventory, the manifests, the rows of each
\* file and the second inventory: the same runs, every observation of the
\* sound files once, nothing of the others, and coverage counters to match.
SnapshotOfOneDirectory ==
    pc \in {"loaded", "reported"} =>
        LET D == atEnd
            silent == {n \in Manifests(D) : ~HasObservations(D[n])}
        IN /\ runs = [n \in ManifestNames |-> D[n]]
           /\ {<<Key(r), r.print>> : r \in rows} = {<<Key(r), r.print>> : r \in Observed(D)}
           /\ Cardinality(rows) = Cardinality({Key(r) : r \in Observed(D)})
           /\ cov.physical = SumFunctionOnSet([e \in SoundRows(D) |-> Len(D[Entry(D, e).path])], SoundRows(D))
           /\ cov.physical = Cardinality(rows) + cov.duplicates
           /\ cov.files = Cardinality(Entries(D))
           /\ cov.verified = Cardinality({e \in Entries(D) : Sound(D, e)})
           /\ cov.missing = Cardinality({e \in Entries(D) : ~Present(D, e)}) + Cardinality(silent)
           /\ cov.partial = Cardinality({e \in Entries(D) : Present(D, e) /\ ~Sound(D, e)})
           /\ cov.extra = Cardinality(DataFiles(D) \ Listed(D))

\* Volumes are compared only where nothing is unknown: every moment of both
\* periods lies, for every project seen, in the window of a manifest whose
\* files were all there and sound, and no data file is unaccounted for.
VolumeOnlyIfCovered ==
    shown # None =>
        LET D == atEnd
            sound == {n \in Manifests(D) : \A e \in Entries(D) : e[1] = n => Sound(D, e)}
        IN /\ DataFiles(D) \subseteq Listed(D)
           /\ \A n \in Manifests(D), i \in {1, 2} : \A t \in shown[i].start..(shown[i].end - 1) :
                 \E m \in sound : D[m].project = D[n].project /\ D[m].start <= t /\ t + 1 <= D[m].end

\* Nothing about the directory stands in the way of a report.
Loadable(D) ==
    LET there == DataFiles(D) \cup Manifests(D)
        all == Observed(D)
    IN /\ Cardinality(there) + 2 <= MaxNames
       /\ SumFunctionOnSet([n \in there |-> Bytes(n, D[n])], there) <= MaxTotal
       /\ Manifests(D) # {} /\ \A n \in Manifests(D) : WellFormed(D[n])
       /\ \A e \in Entries(D) : Entry(D, e).path # Elsewhere
       /\ \A n \in DataFiles(D) : /\ Torn \notin ToSet(D[n]) /\ Bytes(n, D[n]) <= MaxFileBytes /\ Len(D[n]) <= MaxRows
                          /\ Tokens(D[n]) <= MaxCount /\ Cost(D[n]) <= MaxCost
       /\ \A r, q \in all : Key(r) = Key(q) => r.print = q.print
       /\ \A r \in all : r.end # "bad"
       /\ Cardinality({Key(r) : r \in all}) <= MaxRows
       /\ KeptCost(all) <= MaxCost

\* A directory that nobody changes and that is within the limits is loaded,
\* also when runs overlap and with rejected or missing files.
StableDirectoryLoaded == changes = 0 /\ Loadable(dir) => pc # "error"

\* The limits hold in both directions: the loader never holds more names,
\* bytes, rows, tokens or cost than a limit, whatever happens to the directory,
\* and refuses no unchanged directory that stays within all of them.
LoadLimitsExact == TypeOK /\ StableDirectoryLoaded
=============================================================================
