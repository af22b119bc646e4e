------------------------------- MODULE Archive -------------------------------
(***************************************************************************)
(* The local summary archive helper (examples/archive): several helper     *)
(* processes, started by cron, read the summaries a collector keeps        *)
(* overwriting and maintain one private directory of the newest snapshot   *)
(* per producer, epoch and window. The directory is locked, every new      *)
(* snapshot is staged and synced before it is renamed into place, and old  *)
(* windows are pruned last. Processes crash, I/O fails, the power is lost. *)
(***************************************************************************)
EXTENDS Integers, FiniteSets, FiniteSetsExt

CONSTANTS
    Helpers,     \* helper processes, run again and again
    Owners,      \* producer/epoch pairs, ordered by the digest in the name
    None,        \* no such file, no such holder
    Torn,        \* a file whose content never fully reached the disk
    Keeps,       \* the values of --keep-windows explored
    MaxClock,    \* bound: the clock, which also bounds the windows
    MaxWindow,   \* bound: the last window a collector summarises
    MaxSeq,      \* bound: the sequence numbers of a collector
    MaxFiles,    \* compare.MaxFiles
    MaxEntries,  \* compare.MaxEntries
    MaxBytes,    \* compare.MaxInputBytes
    MaxFaults,   \* bound: faults of any kind in one behaviour
    Faults       \* the kinds of faults explored

FaultKinds == {"crash", "power", "io", "reset", "skew", "edit", "copy", "expire"}

ASSUME ArchiveAssumption ==
    /\ Owners \subseteq Nat /\ IsFiniteSet(Owners) /\ IsFiniteSet(Helpers)
    /\ Keeps \subseteq Nat \ {0} /\ Keeps # {}
    /\ MaxClock \in Nat /\ MaxWindow \in Nat /\ MaxSeq \in Nat \ {0} /\ MaxFaults \in Nat
    /\ MaxFiles \in Nat /\ MaxEntries \in Nat /\ MaxBytes \in Nat
    /\ Faults \subseteq FaultKinds /\ None \notin Helpers

Windows == 0..MaxClock

\* archiveName: the window start, then the digest of producer and epoch.
Names == Windows \X Owners
Before(a, b) == a[1] < b[1] \/ (a[1] = b[1] /\ a[2] <= b[2])

\* A summary. "at" is the later of its window's end and its emission, which
\* the helper compares with its own clock; "count" stands for the cumulative
\* counters.
Docs == [name: Names, seq: 1..MaxSeq, count: 0..MaxSeq, at: 0..(MaxClock + 1)]

ASSUME SpecialValues == None \notin Docs /\ Torn \notin Docs /\ None # Torn

\* The canonical encoding grows with the counters.
Size(d) == 1 + d.count

VARIABLES
    clock,    \* the wall clock, in windows
    src,      \* the summaries in the collector's directory
    issued,   \* issued[n]: the last sequence the collector gave to n
    vis,      \* vis[n]: the archived file n, as every process sees it
    maybe,    \* maybe[n]: what n can be after a power loss now
    kept,     \* kept[n]: the highest sequence that surely reached the disk
    litter,   \* entries and bytes left by interrupted runs
    lock,     \* who holds the flock on the archive directory
    pc,       \* the step each helper executes next
    docs,     \* archive.documents, read before the lock is taken
    now,      \* the invocation's reference time
    keep,     \* the invocation's --keep-windows
    cur,      \* archive.current: the inventory read under the lock
    writes,   \* archivePlan.writes
    remove,   \* archivePlan.remove, still to be removed
    staged,   \* installPlan.staged: names whose stage exists
    flushed,  \* of these, the ones whose content was synced
    faults    \* faults so far

worldVars == <<clock, src, issued>>
dirVars == <<vis, maybe, kept, litter>>
runVars == <<docs, now, keep>>
planVars == <<cur, writes, remove>>
stageVars == <<staged, flushed>>
vars == <<worldVars, dirVars, runVars, planVars, stageVars, lock, pc, faults>>

NoFiles == [n \in Names |-> None]

Init ==
    /\ clock = 0 /\ src = {} /\ issued = [n \in Names |-> 0]
    /\ vis = NoFiles /\ maybe = [n \in Names |-> {None}] /\ kept = [n \in Names |-> 0]
    /\ litter = [entries |-> 0, bytes |-> 0]
    /\ lock = None
    /\ pc = [h \in Helpers |-> "idle"]
    /\ docs = [h \in Helpers |-> {}] /\ now = [h \in Helpers |-> 0] /\ keep = [h \in Helpers |-> 1]
    /\ cur = [h \in Helpers |-> NoFiles] /\ writes = [h \in Helpers |-> NoFiles]
    /\ remove = [h \in Helpers |-> {}] /\ staged = [h \in Helpers |-> {}]
    /\ flushed = [h \in Helpers |-> {}]
    /\ faults = 0

-----------------------------------------------------------------------------
(* Sizes of the directory.                                                 *)

Files(dir) == {n \in Names : dir[n] # None}
Bytes(dir, names) == SumFunctionOnSet([n \in names |-> Size(dir[n])], names)

\* Entries and bytes on the disk now, stages and leftovers included.
Entries == Cardinality(Files(vis)) + litter.entries
           + SumFunctionOnSet([h \in Helpers |-> Cardinality(staged[h])], Helpers)
DiskBytes == Bytes(vis, Files(vis)) + litter.bytes
             + SumFunctionOnSet([h \in Helpers |-> Bytes(writes[h], staged[h])], Helpers)
-----------------------------------------------------------------------------
(* The collector and the clock.                                            *)

Tick ==
    /\ clock < MaxClock
    /\ clock' = clock + 1
    /\ UNCHANGED <<src, issued, dirVars, runVars, planVars, stageVars, lock, pc, faults>>

Summary(n, seq, count) ==
    [name |-> n, seq |-> seq, count |-> count,
     at |-> IF clock > n[1] THEN clock ELSE n[1] + 1]

\* The collector rewrites its cumulative summary of the current or the last
\* window; somebody's copy of the previous one may stay in the directory.
Emit(n) ==
    LET old == {d \in src : d.name = n}
    IN /\ n[1] <= clock /\ clock <= n[1] + 1 /\ n[1] <= MaxWindow
       /\ issued[n] < MaxSeq
       /\ issued' = [issued EXCEPT ![n] = @ + 1]
       /\ \E gone \in {old} \cup (IF "copy" \in Faults THEN {{}} ELSE {}) :
             src' = (src \ gone) \cup {Summary(n, issued[n] + 1, issued[n] + 1)}
       /\ UNCHANGED <<clock, dirVars, runVars, planVars, stageVars, lock, pc, faults>>

\* It deletes summaries of closed windows.
Expire(d) ==
    /\ "expire" \in Faults /\ d.name[1] < clock
    /\ src' = src \ {d}
    /\ UNCHANGED <<clock, issued, dirVars, runVars, planVars, stageVars, lock, pc, faults>>

Fault(kind) == kind \in Faults /\ faults < MaxFaults /\ faults' = faults + 1

\* A collector that starts its sequence over within one epoch.
Reset(n) ==
    /\ Fault("reset") /\ n[1] <= clock /\ n[1] <= MaxWindow
    /\ src' = {d \in src : d.name # n} \cup {Summary(n, 1, 0)}
    /\ issued' = [issued EXCEPT ![n] = 1]
    /\ UNCHANGED <<clock, dirVars, runVars, planVars, stageVars, lock, pc>>
-----------------------------------------------------------------------------
(* One run of the helper, up to the plan.                                  *)

Goto(h, from, to) == pc[h] = from /\ pc' = [pc EXCEPT ![h] = to]

\* The process ends: its memory is gone and the kernel drops its lock.
Forget(h) ==
    /\ docs' = [docs EXCEPT ![h] = {}] /\ now' = [now EXCEPT ![h] = 0]
    /\ keep' = [keep EXCEPT ![h] = 1]
    /\ cur' = [cur EXCEPT ![h] = NoFiles] /\ writes' = [writes EXCEPT ![h] = NoFiles]
    /\ remove' = [remove EXCEPT ![h] = {}]
    /\ staged' = [staged EXCEPT ![h] = {}] /\ flushed' = [flushed EXCEPT ![h] = {}]
    /\ lock' = IF lock = h THEN None ELSE lock

\* summary.Combine over every window: equal sequences are equal summaries,
\* and cumulative counters do not fall.
Consistent(series) ==
    \A a, b \in series :
        a.name = b.name => /\ a.seq = b.seq => a = b
                           /\ a.seq < b.seq => a.count <= b.count

\* Mutant: a reference time before the epoch is accepted.
ValidTimeAlways(t) == TRUE

ValidTime(t) == t >= 0

\* command and archive, down to validateSeries(documents): the clock is read
\* once, and an empty or inconsistent source ends the run.
Start(h) ==
    /\ src # {} /\ Consistent(src)
    /\ Goto(h, "idle", "open")
    /\ docs' = [docs EXCEPT ![h] = src]
    /\ \E k \in Keeps : keep' = [keep EXCEPT ![h] = k]
    /\ \/ now' = [now EXCEPT ![h] = clock] /\ UNCHANGED faults
       \/ Fault("skew") /\ ValidTime(clock - 1) /\ now' = [now EXCEPT ![h] = clock - 1]
    /\ UNCHANGED <<worldVars, dirVars, planVars, stageVars, lock>>

\* Mutant: flock without LOCK_EX: every helper gets it.
LockFreeAlways == TRUE

LockFree == lock = None

\* openArchive and lockArchive, LOCK_EX|LOCK_NB: a busy archive is an error.
Lock(h) ==
    /\ \/ /\ LockFree
          /\ Goto(h, "open", "read")
          /\ lock' = h
          /\ UNCHANGED <<runVars, planVars, stageVars>>
       \/ ~LockFree /\ Goto(h, "open", "idle") /\ Forget(h)
    /\ UNCHANGED <<worldVars, dirVars, faults>>

\* Mutant: a leftover stage makes the archive unreadable.
ReadableWhenClean ==
    /\ litter.entries = 0 /\ Cardinality(Files(vis)) <= MaxFiles
    /\ \A n \in Names : vis[n] # Torn

\* readArchive. Leftover stages count as entries and bytes.
Readable ==
    /\ Entries <= MaxEntries /\ DiskBytes <= MaxBytes
    /\ Cardinality(Files(vis)) <= MaxFiles
    /\ \A n \in Names : vis[n] # Torn

Read(h) ==
    /\ pc[h] = "read"
    /\ IF Readable
       THEN Goto(h, "read", "plan") /\ cur' = [cur EXCEPT ![h] = vis]
       ELSE Goto(h, "read", "failed") /\ UNCHANGED cur
    /\ UNCHANGED <<worldVars, dirVars, runVars, writes, remove, stageVars, lock, faults>>
-----------------------------------------------------------------------------
(* planArchive.                                                            *)

Archived(h) == {cur[h][n] : n \in Files(cur[h])}
Eligible(h) == {d \in docs[h] : d.at <= now[h]}

\* The newest snapshot of each name, archived or eligible in the source.
Newest(all) == CHOOSE d \in all : \A x \in all : x.seq <= d.seq
Selected(h) ==
    [n \in Names |->
        LET all == {d \in Archived(h) \cup Eligible(h) : d.name = n}
        IN IF all = {} THEN None ELSE Newest(all)]

SelectedWindows(h) == {n[1] : n \in Files(Selected(h))}

\* Mutant: one window too many survives.
KeptWindowsPlusOne(h) == {w \in SelectedWindows(h) :
                            Cardinality({v \in SelectedWindows(h) : v > w}) <= keep[h]}

\* The newest keep windows.
KeptWindows(h) == {w \in SelectedWindows(h) :
                     Cardinality({v \in SelectedWindows(h) : v > w}) < keep[h]}

PlannedRemove(h) == {n \in Files(cur[h]) : n[1] \notin KeptWindows(h)}
PlannedWrites(h) ==
    LET sel == Selected(h) keepers == KeptWindows(h)
    IN [n \in Names |-> IF sel[n] # None /\ n[1] \in keepers /\ sel[n] # cur[h][n]
                        THEN sel[n] ELSE None]

\* Snapshots from the future, conflicting history, or a source that is older
\* than what is archived stop the run.
Plannable(h) ==
    /\ \A d \in Archived(h) : d.at <= now[h]
    /\ Consistent(docs[h] \cup Archived(h))
    /\ \A d \in Eligible(h) : cur[h][d.name] # None => d.seq >= cur[h][d.name].seq

\* Mutant: pruning is counted as done before the stages are written.
FitsAfterPruning(h, w, r) ==
    LET names == Files(w) fresh == names \ Files(cur[h])
    IN /\ Cardinality(Files(cur[h])) + Cardinality(fresh) - Cardinality(r) <= MaxFiles
       /\ Cardinality(Files(cur[h])) - Cardinality(r) + litter.entries + Cardinality(names) <= MaxEntries

\* The staged batch is reserved on top of the whole existing directory.
Fits(h, w, r) ==
    LET names == Files(w) fresh == names \ Files(cur[h]) old == Files(cur[h])
        bytes == Bytes(cur[h], old) + litter.bytes
    IN /\ Cardinality(old) + Cardinality(fresh) <= MaxFiles
       /\ Cardinality(old) + litter.entries + Cardinality(names) <= MaxEntries
       /\ bytes - Bytes(cur[h], r) + Bytes(w, names) - Bytes(cur[h], names \cap old) <= MaxBytes
       /\ bytes + Bytes(w, names) <= MaxBytes

Plan(h) ==
    LET w == PlannedWrites(h) r == PlannedRemove(h)
    IN /\ pc[h] = "plan"
       /\ IF Plannable(h) /\ Fits(h, w, r)
          THEN /\ Goto(h, "plan", "stage")
               /\ writes' = [writes EXCEPT ![h] = w]
               /\ remove' = [remove EXCEPT ![h] = r]
          ELSE Goto(h, "plan", "failed") /\ UNCHANGED <<writes, remove>>
       /\ UNCHANGED <<worldVars, dirVars, runVars, cur, stageVars, lock, faults>>
-----------------------------------------------------------------------------
(* installPlan.                                                            *)

First(names) == CHOOSE n \in names : \A m \in names : Before(n, m)

\* Mutant: the stage is written and closed, never synced.
FlushedNever(h, n) == flushed[h]

\* f.Sync before f.Close.
Flushed(h, n) == flushed[h] \cup {n}

\* stageFile, in sorted order. A failure removes the stage it made, unless
\* the file could not be inspected.
Stage(h) ==
    LET n == First(Files(writes[h]) \ staged[h])
    IN /\ pc[h] = "stage" /\ Files(writes[h]) \ staged[h] # {}
       /\ \/ /\ staged' = [staged EXCEPT ![h] = @ \cup {n}]
             /\ flushed' = [flushed EXCEPT ![h] = Flushed(h, n)]
             /\ UNCHANGED <<pc, litter, faults>>
          \/ /\ Fault("io") /\ Goto(h, "stage", "failed")
             /\ \E left \in {0, 1} : litter' = [litter EXCEPT !.entries = @ + left]
             /\ UNCHANGED stageVars
       /\ UNCHANGED <<worldVars, vis, maybe, kept, runVars, planVars, lock>>

\* Mutant: the archive is trusted not to have changed since the inventory.
UnmodifiedAlways(h) == TRUE

\* Every inventoried file is still what was read, every new name still free.
Unmodified(h) == \A n \in Files(cur[h]) \cup Files(writes[h]) : vis[n] = cur[h][n]

\* The checks before the first change, and the early return of an empty plan.
Recheck(h) ==
    /\ pc[h] = "stage" /\ staged[h] = Files(writes[h])
    /\ IF ~Unmodified(h) THEN Goto(h, "stage", "failed")
       ELSE IF staged[h] = {} /\ remove[h] = {} THEN Goto(h, "stage", "done")
       ELSE Goto(h, "stage", "syncStage")
    /\ UNCHANGED <<worldVars, dirVars, runVars, planVars, stageVars, lock, faults>>

\* dir.Sync: what the directory shows is what a power loss will leave.
SyncDir ==
    /\ maybe' = [n \in Names |-> {vis[n]}]
    /\ kept' = [n \in Names |-> IF vis[n] = None THEN kept[n] ELSE vis[n].seq]
    /\ UNCHANGED <<vis, litter>>

SyncOrFail(h, from, to) ==
    /\ \/ Goto(h, from, to) /\ SyncDir /\ UNCHANGED faults
       \/ Fault("io") /\ Goto(h, from, "failed") /\ UNCHANGED dirVars
    /\ UNCHANGED <<worldVars, runVars, planVars, stageVars, lock>>

SyncStage(h) == SyncOrFail(h, "syncStage", "install")

\* root.Rename of one stage, in sorted order.
Install(h) ==
    LET n == First(staged[h])
    IN /\ pc[h] = "install" /\ staged[h] # {}
       /\ \/ /\ vis' = [vis EXCEPT ![n] = writes[h][n]]
             /\ maybe' = [maybe EXCEPT ![n] = @ \cup {writes[h][n]}
                            \cup IF n \in flushed[h] THEN {} ELSE {Torn}]
             /\ staged' = [staged EXCEPT ![h] = @ \ {n}]
             /\ UNCHANGED <<pc, faults>>
          \/ Fault("io") /\ Goto(h, "install", "failed") /\ UNCHANGED <<vis, maybe, staged>>
       /\ UNCHANGED <<worldVars, kept, litter, runVars, planVars, flushed, lock>>

\* Mutant: pruning starts before the renames are on the disk.
SyncInstallSkipped(h) ==
    /\ staged[h] = {} /\ Goto(h, "install", "prune")
    /\ UNCHANGED <<worldVars, dirVars, runVars, planVars, stageVars, lock, faults>>

SyncInstall(h) == staged[h] = {} /\ SyncOrFail(h, "install", "prune")

\* Retention: an old snapshot goes only while it is the file inventoried.
Prune(h) ==
    LET n == First(remove[h])
    IN /\ pc[h] = "prune" /\ remove[h] # {}
       /\ \/ /\ vis[n] = cur[h][n]
             /\ vis' = [vis EXCEPT ![n] = None]
             /\ maybe' = [maybe EXCEPT ![n] = @ \cup {None}]
             /\ remove' = [remove EXCEPT ![h] = @ \ {n}]
             /\ UNCHANGED <<pc, faults>>
          \/ /\ \/ vis[n] # cur[h][n] /\ UNCHANGED faults
                \/ Fault("io")
             /\ Goto(h, "prune", "failed") /\ UNCHANGED <<vis, maybe, remove>>
       /\ UNCHANGED <<worldVars, kept, litter, runVars, cur, writes, stageVars, lock>>

SyncPrune(h) == remove[h] = {} /\ SyncOrFail(h, "prune", "done")

\* The deferred calls: remaining stages are removed, the lock is released.
Finish(h) ==
    /\ pc[h] \in {"failed", "done"}
    /\ pc' = [pc EXCEPT ![h] = "idle"]
    /\ Forget(h)
    /\ UNCHANGED <<worldVars, dirVars, faults>>
-----------------------------------------------------------------------------
(* What goes wrong around the helper.                                      *)

\* A process dies. Its stages stay, the one being written perhaps cut short.
Crash(h) ==
    /\ Fault("crash") /\ pc[h] # "idle"
    /\ pc' = [pc EXCEPT ![h] = "idle"]
    /\ \E left \in IF pc[h] = "failed" THEN SUBSET staged[h] ELSE {staged[h]},
          torn \in IF pc[h] = "stage" /\ staged[h] # Files(writes[h]) THEN {0, 1} ELSE {0} :
            litter' = [entries |-> litter.entries + Cardinality(left) + torn,
                       bytes |-> litter.bytes + Bytes(writes[h], left) + torn]
    /\ Forget(h)
    /\ UNCHANGED <<worldVars, vis, maybe, kept>>

\* The stages that exist, or exist again, when the names are as in dir.
Staging(dir) == {x \in Helpers \X Names :
                    \/ x[2] \in staged[x[1]]
                    \/ /\ writes[x[1]][x[2]] # None /\ vis[x[2]] = writes[x[1]][x[2]]
                       /\ dir[x[2]] # vis[x[2]]}

\* All processes stop, and each name has one of the values it had since the
\* last directory sync. A rename that is undone brings its stage back.
PowerLoss ==
    /\ Fault("power")
    /\ \E after \in [Names -> UNION {maybe[n] : n \in Names}] :
          /\ \A n \in Names : after[n] \in maybe[n]
          /\ vis' = after
          /\ maybe' = [n \in Names |-> {after[n]}]
          /\ kept' = [n \in Names |-> IF after[n] \in {None, Torn} THEN kept[n] ELSE after[n].seq]
          /\ \E left \in SUBSET Staging(after) :
                litter' = [entries |-> litter.entries + Cardinality(left),
                           bytes |-> litter.bytes + SumFunctionOnSet([x \in left |-> Size(writes[x[1]][x[2]])], left)]
    /\ pc' = [h \in Helpers |-> "idle"]
    /\ docs' = [h \in Helpers |-> {}] /\ now' = [h \in Helpers |-> 0] /\ keep' = [h \in Helpers |-> 1]
    /\ cur' = [h \in Helpers |-> NoFiles] /\ writes' = [h \in Helpers |-> NoFiles]
    /\ remove' = [h \in Helpers |-> {}] /\ staged' = [h \in Helpers |-> {}]
    /\ flushed' = [h \in Helpers |-> {}]
    /\ lock' = None
    /\ UNCHANGED worldVars

\* Somebody edits the archive by hand before a helper has rechecked it.
Edit(n) ==
    /\ Fault("edit")
    /\ \A h \in Helpers : pc[h] \in {"idle", "open", "read", "plan", "stage"}
    /\ \E v \in {None} \cup {Summary(n, s, s) : s \in 1..MaxSeq} :
          vis' = [vis EXCEPT ![n] = v] /\ maybe' = [maybe EXCEPT ![n] = @ \cup {v}]
    /\ UNCHANGED <<worldVars, kept, litter, runVars, planVars, stageVars, lock, pc>>
-----------------------------------------------------------------------------
HelperStep(h) ==
    \/ Start(h) \/ Lock(h) \/ Read(h) \/ Plan(h) \/ Stage(h) \/ Recheck(h) \/ SyncStage(h)
    \/ Install(h) \/ SyncInstall(h) \/ Prune(h) \/ SyncPrune(h) \/ Finish(h)

Collector ==
    \/ Tick
    \/ \E n \in Names : Emit(n) \/ Reset(n)
    \/ \E d \in src : Expire(d)

Interference ==
    \/ \E h \in Helpers : Crash(h)
    \/ \E n \in Names : Edit(n)
    \/ PowerLoss

Next == (\E h \in Helpers : HelperStep(h)) \/ Collector \/ Interference

Spec == Init /\ [][Next]_vars

\* Cron starts each helper again and again, and the system schedules it.
FairSpec == Spec /\ \A h \in Helpers : WF_vars(HelperStep(h))
-----------------------------------------------------------------------------
Values == Docs \cup {None, Torn}

\* The types of the variables; a torn file never becomes visible.
TypeOK ==
    /\ clock \in Windows /\ src \in SUBSET Docs /\ issued \in [Names -> 0..MaxSeq]
    /\ vis \in [Names -> Docs \cup {None}] /\ maybe \in [Names -> SUBSET Values]
    /\ kept \in [Names -> 0..MaxSeq]
    /\ litter \in [entries: Nat, bytes: Nat]
    /\ lock \in Helpers \cup {None}
    /\ pc \in [Helpers -> {"idle", "open", "read", "plan", "stage", "syncStage", "install",
                           "prune", "failed", "done"}]
    /\ docs \in [Helpers -> SUBSET Docs] /\ now \in [Helpers -> Windows]
    /\ keep \in [Helpers -> Keeps \cup {1}]
    /\ cur \in [Helpers -> [Names -> Docs \cup {None}]]
    /\ writes \in [Helpers -> [Names -> Docs \cup {None}]]
    /\ remove \in [Helpers -> SUBSET Names] /\ staged \in [Helpers -> SUBSET Names]
    /\ flushed \in [Helpers -> SUBSET Names]
    /\ faults \in 0..MaxFaults

Least(S) == CHOOSE x \in S : \A y \in S : x <= y

\* Windows that some name holds in every possible outcome of a power loss.
SureWindows == {w \in Windows : \E n \in Names : n[1] = w /\ None \notin maybe[n]}

\* Whenever the power goes, and however runs crashed and were repeated before,
\* a snapshot that once reached the disk is there with at least that sequence,
\* or as many newer windows as retention keeps are there for certain: stages
\* and renames are synced before anything is pruned.
HistorySurvives ==
    \A n \in Names :
        kept[n] > 0 => \A v \in maybe[n] :
            \/ v \in Docs /\ v.seq >= kept[n]
            \/ Cardinality({w \in SureWindows : w > n[1]}) >= Least(Keeps)

\* No power loss leaves half a snapshot under an archived name, which would
\* make readArchive, and every later run, fail.
NeverTorn == \A n \in Names : Torn \notin maybe[n]

\* A run that reports success has archived every eligible snapshot it read,
\* unless its window fell to retention, and left no more windows than asked.
SuccessSettles ==
    \A h \in Helpers : pc[h] = "done" =>
        /\ Cardinality({n[1] : n \in Files(vis)}) <= keep[h]
        /\ \A d \in Eligible(h) :
              \/ vis[d.name] # None /\ vis[d.name].seq >= d.seq
              \/ Cardinality({n[1] : n \in {m \in Files(vis) : m[1] > d.name[1]}}) = keep[h]

\* The archive stays within the limits of readArchive and of scan's
\* ReadSeries at every moment, with the whole batch staged next to the old
\* files and with whatever crashed runs left behind. (A power loss can bring
\* back a removal that an earlier, crashed run did not sync.)
WithinLimits ==
    /\ Cardinality(Files(vis)) <= MaxFiles
    /\ Entries <= MaxEntries
    /\ DiskBytes <= MaxBytes

\* Helpers that run at once, each with a source read before it had the lock,
\* never replace an archived snapshot by an older one.
NoRegression ==
    [][\A n \in Names : vis[n] # None /\ vis'[n] # None /\ vis'[n].seq < vis[n].seq
            => PowerLoss \/ Edit(n)]_vars

\* A name changes only while the lock holder's inventory still describes it,
\* also when the archive was edited between the inventory and the recheck.
OnlyInventoried ==
    [][\A n \in Names : vis'[n] # vis[n] =>
          \/ lock \in Helpers /\ vis[n] = cur[lock][n] /\ pc[lock] \in {"install", "prune"}
          \/ PowerLoss \/ Edit(n)]_vars

\* What the newest windows of source and archive ask for is archived.
Settled ==
    LET ready == {d \in src : d.at <= clock}
        windows == {d.name[1] : d \in ready} \cup {n[1] : n \in Files(vis)}
        newest == {w \in windows : Cardinality({v \in windows : v > w}) < Least(Keeps)}
    IN /\ \A d \in ready : d.name[1] \in newest =>
             vis[d.name] # None /\ vis[d.name].seq >= d.seq
       /\ src # {} => \A n \in Files(vis) : n[1] \in newest

\* Rerunning converges: after the last crash, I/O error or power loss, and
\* once the collector is quiet, the archive holds what it should.
Converges == <>[]Settled
=============================================================================
