----------------------------- MODULE NativeExport -----------------------------
(***************************************************************************)
(* The native LiteLLM export: cmd/fleetdiff/main.go (signals),             *)
(* internal/cli/database.go (the commands around the exporter) and         *)
(* internal/postgres (Export, the staging directory, publication).         *)
(* Several commands run at once, against one live database and one         *)
(* destination name per parent directory, while signals, timeouts, I/O     *)
(* failures, crashes, a power loss and other processes interfere.          *)
(***************************************************************************)
EXTENDS Integers, FiniteSets

CONSTANTS
    Procs,      \* fleetdiff processes
    Parents,    \* directories the caller's path may resolve to
    None,       \* no such entry
    Foreign,    \* an entry made by another program
    MaxRows,    \* spend.MaxRows
    MaxDb,      \* bound: the database never holds more rows than this
    OptionSet,  \* the command lines explored
    Faults      \* the kinds of interference explored

Options == [mode: {"export", "keep", "temp"}, format: {"csv", "jsonl"}, daily: BOOLEAN]

FaultKinds == {"io", "signal", "timeout", "crash", "power", "foreign", "rebind",
               "replace", "stray", "write"}

\* The name a process gives to its own temporary parent is the process.
Places == Parents \cup Procs

ASSUME ConstantsAssumption ==
    /\ Parents # {} /\ Parents \cap Procs = {}
    /\ None # Foreign /\ {None, Foreign} \cap Places = {}
    /\ {None, Foreign} \cap [by: Procs, rows: Int, daily: Int] = {}
    /\ MaxRows \in Nat /\ MaxDb \in Nat
    /\ OptionSet \subseteq Options /\ Faults \subseteq FaultKinds

FileNames == {"spend", "daily"}
NoFile == -1

VARIABLES
    opts,       \* the command line of each process
    pc,         \* the statement each process executes next
    err,        \* Export's named result err, as a Failure kind
    result,     \* what the exporter returned: pending, ok or error
    code,       \* the exit status of the command
    cancelled,  \* the context of withExportSignals is done
    expired,    \* the five-minute context of Export is done
    handler,    \* the signal goroutine: off, listening or stopped
    sigbuf,     \* the one-element channel interrupts is full
    path,       \* the directory the caller's path resolves to now
    held,       \* outputDir.parent: the directory each process holds open
    entry,      \* entry[p]: what the destination name in p is
    tmp,        \* databaseTemporaryExport's directory exists
    stage,      \* .fleetdiff-stage-...: none, own, or replaced by another
    inner,      \* the directory "export": none, held in the stage, or moved
    file,       \* rows in each staged or published file, NoFile if absent
    synced,     \* what reached the disk: files and the directory itself
    stray,      \* an entry the exporter did not create is in "export"
    complete,   \* outputDir.complete
    snap,       \* rows in the transaction's snapshot
    db,         \* rows of the selected period in the live database
    stuck,      \* a removal or its Lstat failed, and the code went on
    lost        \* the power was lost

ctlVars == <<opts, pc, err, result, code>>
sigVars == <<cancelled, expired, handler, sigbuf>>
nameVars == <<path, held, entry, tmp>>
diskVars == <<stage, inner, file, synced, stray, complete>>
envVars == <<db, lost>>
vars == <<ctlVars, sigVars, nameVars, diskVars, envVars, snap, stuck>>

ExportSteps == {"connect", "begin", "create", "copy", "sync", "createDaily", "copyDaily",
                "syncDaily", "commit", "validate", "verify", "check", "rename", "unwind"}
PcValues == ExportSteps \cup {"idle", "enter", "prepare", "openParent", "mkStage",
                "openStage", "closeFiles", "closeExport", "closeStage", "returned",
                "join", "report", "analyse", "removeAll", "rmParent", "exit", "crashed"}
Kinds == {"none", "setup", "output", "database", "limit", "storage", "interrupted"}

Init ==
    /\ opts \in [Procs -> OptionSet]
    /\ pc = [e \in Procs |-> IF opts[e].mode = "temp" THEN "idle" ELSE "enter"]
    /\ err = [e \in Procs |-> "none"]
    /\ result = [e \in Procs |-> "pending"]
    /\ code = [e \in Procs |-> "none"]
    /\ cancelled = [e \in Procs |-> FALSE]
    /\ expired = [e \in Procs |-> FALSE]
    /\ handler = [e \in Procs |-> "off"]
    /\ sigbuf = [e \in Procs |-> FALSE]
    /\ path \in Parents
    /\ held = [e \in Procs |-> None]
    /\ entry = [p \in Places |-> None]
    /\ tmp = [e \in Procs |-> FALSE]
    /\ stage = [e \in Procs |-> "none"]
    /\ inner = [e \in Procs |-> "none"]
    /\ file = [e \in Procs |-> [n \in FileNames |-> NoFile]]
    /\ synced = [e \in Procs |-> {}]
    /\ stray = [e \in Procs |-> FALSE]
    /\ complete = [e \in Procs |-> FALSE]
    /\ snap = [e \in Procs |-> NoFile]
    /\ db \in 0..MaxDb
    /\ stuck = [e \in Procs |-> FALSE]
    /\ lost = FALSE

Running(e) == pc[e] \notin {"exit", "crashed"}
Done(e) == cancelled[e] \/ expired[e]       \* ctx.Err() != nil inside Export
IoFault == "io" \in Faults
Resolve(e) == IF opts[e].mode = "temp" THEN e ELSE path
DbErrors == {"database", "interrupted"}     \* what databaseFailure can answer

Goto(e, from, to) == /\ pc[e] = from
                     /\ pc' = [pc EXCEPT ![e] = to]

\* One statement succeeds, or returns an error after Export's deferred calls
\* are in place.
Pass(e, from, to) == Goto(e, from, to) /\ UNCHANGED <<opts, err, result, code>>
Fail(e, from, kinds) == /\ Goto(e, from, "unwind")
                        /\ \E k \in kinds : err' = [err EXCEPT ![e] = k]
                        /\ UNCHANGED <<opts, result, code>>
\* Mutant: newOutput forgets to close what it has opened so far.
EarlyFailUnclosed(e, from, to, kind) == /\ Goto(e, from, "returned")
                                        /\ err' = [err EXCEPT ![e] = kind]
                                        /\ UNCHANGED <<opts, result, code>>

\* An error returned before those defers exist.
EarlyFail(e, from, to, kind) == /\ Goto(e, from, to)
                                /\ err' = [err EXCEPT ![e] = kind]
                                /\ UNCHANGED <<opts, result, code>>
-----------------------------------------------------------------------------
(* The command, up to the exporter.                                        *)

\* databaseTemporaryExport. A failure after Mkdir leaves the directory.
MakeTemp(e) ==
    /\ \/ /\ Pass(e, "idle", "enter")
          /\ tmp' = [tmp EXCEPT ![e] = TRUE]
          /\ UNCHANGED stuck
       \/ /\ IoFault
          /\ Goto(e, "idle", "exit")
          /\ code' = [code EXCEPT ![e] = "1"]
          /\ \E made \in BOOLEAN : /\ tmp' = [tmp EXCEPT ![e] = made]
                                   /\ stuck' = [stuck EXCEPT ![e] = made]
          /\ UNCHANGED <<opts, err, result>>
    /\ UNCHANGED <<sigVars, path, held, entry, diskVars, envVars, snap>>

\* withExportSignals: register, start the goroutine, call Export.
Enter(e) ==
    /\ Pass(e, "enter", "prepare")
    /\ handler' = [handler EXCEPT ![e] = "listening"]
    /\ UNCHANGED <<cancelled, expired, sigbuf, nameVars, diskVars, envVars, snap, stuck>>

\* Format, queries, daily span, credentials and connectionConfig.
Prepare(e) ==
    /\ \/ Pass(e, "prepare", "openParent")
       \/ IoFault /\ EarlyFail(e, "prepare", "returned", "setup")
    /\ UNCHANGED <<sigVars, nameVars, diskVars, envVars, snap, stuck>>
-----------------------------------------------------------------------------
(* newOutput.                                                              *)

OpenParent(e) ==
    /\ \/ /\ entry[Resolve(e)] = None
          /\ Pass(e, "openParent", "mkStage")
          /\ held' = [held EXCEPT ![e] = Resolve(e)]
       \/ /\ entry[Resolve(e)] # None \/ IoFault
          /\ EarlyFail(e, "openParent", "returned", "output")
          /\ UNCHANGED held
    /\ UNCHANGED <<sigVars, path, entry, tmp, diskVars, envVars, snap, stuck>>

MakeStage(e) ==
    /\ \/ /\ Pass(e, "mkStage", "openStage")
          /\ stage' = [stage EXCEPT ![e] = "own"]
       \/ /\ IoFault
          /\ EarlyFail(e, "mkStage", "returned", "output")
          /\ UNCHANGED stage
    /\ UNCHANGED <<sigVars, nameVars, inner, file, synced, stray, complete, envVars, snap, stuck>>

\* Lstat, OpenRoot and Mkdir "export". When Lstat itself fails, stageInfo
\* stays nil and close leaves the stage behind.
OpenStage(e) ==
    /\ \/ /\ Pass(e, "openStage", "connect")
          /\ inner' = [inner EXCEPT ![e] = "held"]
          /\ UNCHANGED stuck
       \/ /\ IoFault
          /\ EarlyFail(e, "openStage", "closeFiles", "output")
          /\ inner' \in {inner, [inner EXCEPT ![e] = "held"]}
          /\ UNCHANGED stuck
       \/ /\ IoFault
          /\ EarlyFail(e, "openStage", "returned", "output")
          /\ stuck' = [stuck EXCEPT ![e] = TRUE]
          /\ UNCHANGED inner
    /\ UNCHANGED <<sigVars, nameVars, stage, file, synced, stray, complete, envVars, snap>>
-----------------------------------------------------------------------------
(* Export, from the connection to the validated files.                     *)

\* A database call that starts on a done context fails at once.
DatabaseCall(e, from, to) ==
    \/ ~Done(e) /\ Pass(e, from, to)
    \/ (Done(e) \/ IoFault) /\ Fail(e, from, DbErrors)

Connect(e) ==
    /\ DatabaseCall(e, "connect", "begin")
    /\ UNCHANGED <<sigVars, nameVars, diskVars, envVars, snap, stuck>>

\* BEGIN ISOLATION LEVEL REPEATABLE READ READ ONLY, then checkSchema, whose
\* first query fixes the snapshot.
BeginTransaction(e) ==
    /\ DatabaseCall(e, "begin", "create")
    /\ snap' = [snap EXCEPT ![e] = IF pc'[e] = "create" THEN db ELSE @]
    /\ UNCHANGED <<sigVars, nameVars, diskVars, envVars, stuck>>

\* create: O_EXCL, then the stat. A file whose stat fails is in d.created.
Create(e, n, from, to) ==
    /\ \/ /\ Pass(e, from, to)
          /\ file' = [file EXCEPT ![e][n] = 0]
       \/ /\ IoFault /\ Fail(e, from, {"output"})
          /\ file' \in {file, [file EXCEPT ![e][n] = 0]}
    /\ UNCHANGED <<sigVars, nameVars, stage, inner, synced, stray, complete, envVars, snap, stuck>>

CreateSpend(e) == Create(e, "spend", "create", "copy")
CreateDaily(e) == Create(e, "daily", "createDaily", "copyDaily")

\* Mutants: LIMIT MaxRows, and no LIMIT at all.
LimitedExactly(n) == IF n > MaxRows THEN MaxRows ELSE n
LimitedNever(n) == n

\* The query carries LIMIT MaxRows+1, so that an overflow shows.
Limited(n) == IF n > MaxRows + 1 THEN MaxRows + 1 ELSE n

\* One row through the byteLimit writer. JSON Lines counts before it writes.
CopyRow(e) ==
    /\ pc[e] = "copy"
    /\ file[e]["spend"] < Limited(snap[e])
    /\ IF opts[e].format = "jsonl" /\ file[e]["spend"] + 1 > MaxRows
       THEN Fail(e, "copy", {"limit"}) /\ UNCHANGED file
       ELSE /\ file' = [file EXCEPT ![e]["spend"] = @ + 1]
            /\ UNCHANGED ctlVars
    /\ UNCHANGED <<sigVars, nameVars, stage, inner, synced, stray, complete, envVars, snap, stuck>>

\* The copy ends; CSV compares the server's row count with the limit here.
CopyEnd(e) ==
    /\ pc[e] = "copy"
    /\ \/ /\ file[e]["spend"] = Limited(snap[e])
          /\ IF file[e]["spend"] > MaxRows
             THEN Fail(e, "copy", {"limit"})
             ELSE Pass(e, "copy", "sync")
       \/ /\ Done(e) \/ IoFault
          /\ Fail(e, "copy", DbErrors \cup {"limit", "storage"})
    /\ UNCHANGED <<sigVars, nameVars, diskVars, envVars, snap, stuck>>

\* Mutant: the file is closed but never synced.
SyncFileSkipped(e, n, from, to) ==
    /\ Pass(e, from, to)
    /\ UNCHANGED <<sigVars, nameVars, diskVars, envVars, snap, stuck>>

\* file.Sync and file.Close.
SyncFile(e, n, from, to) ==
    /\ \/ /\ Pass(e, from, to)
          /\ synced' = [synced EXCEPT ![e] = @ \cup {n}]
       \/ IoFault /\ Fail(e, from, {"storage"}) /\ UNCHANGED synced
    /\ UNCHANGED <<sigVars, nameVars, stage, inner, file, stray, complete, envVars, snap, stuck>>

SyncSpend(e) == SyncFile(e, "spend", "sync", IF opts[e].daily THEN "createDaily" ELSE "commit")
SyncDaily(e) == SyncFile(e, "daily", "syncDaily", "commit")

\* The daily counters, read in the same transaction.
CopyDaily(e) ==
    /\ \/ /\ ~Done(e) /\ Pass(e, "copyDaily", "syncDaily")
          /\ file' = [file EXCEPT ![e]["daily"] = snap[e]]
       \/ /\ (Done(e) \/ IoFault) /\ Fail(e, "copyDaily", DbErrors \cup {"limit", "storage"})
          /\ UNCHANGED file
    /\ UNCHANGED <<sigVars, nameVars, stage, inner, synced, stray, complete, envVars, snap, stuck>>

Commit(e) ==
    /\ DatabaseCall(e, "commit", "validate")
    /\ UNCHANGED <<sigVars, nameVars, diskVars, envVars, snap, stuck>>

\* ReadRoutingRoot with a visitor that answers ctx.Err() on every row (an
\* export without rows never calls it), then ValidateDailyExportRoot.
Validate(e) ==
    /\ \/ (~Done(e) \/ file[e]["spend"] = 0) /\ Pass(e, "validate", "verify")
       \/ (Done(e) /\ file[e]["spend"] > 0) /\ Fail(e, "validate", {"limit"})
       \/ IoFault /\ Fail(e, "validate", {"limit", "database"})
    /\ UNCHANGED <<sigVars, nameVars, diskVars, envVars, snap, stuck>>
-----------------------------------------------------------------------------
(* publish: the checks, the last look at the context, the rename.          *)

\* The caller's path still leads to the held parent, "export" is the held
\* directory and its entries are exactly the files the exporter created.
Unchanged(e) == Resolve(e) = held[e] /\ inner[e] = "held" /\ ~stray[e]

Verify(e) ==
    /\ \/ /\ Unchanged(e) /\ Pass(e, "verify", "check")
          /\ synced' = [synced EXCEPT ![e] = @ \cup {"dir"}]
       \/ /\ (~Unchanged(e) \/ IoFault) /\ Fail(e, "verify", {"output"})
          /\ UNCHANGED synced
    /\ UNCHANGED <<sigVars, nameVars, stage, inner, file, stray, complete, envVars, snap, stuck>>

\* Mutant: publish trusts the validation to have seen the cancellation.
CheckContextSkipped(e) ==
    /\ Pass(e, "check", "rename")
    /\ UNCHANGED <<sigVars, nameVars, diskVars, envVars, snap, stuck>>

CheckContext(e) ==
    /\ \/ ~Done(e) /\ Pass(e, "check", "rename")
       \/ Done(e) /\ Fail(e, "check", {"interrupted"})
    /\ UNCHANGED <<sigVars, nameVars, diskVars, envVars, snap, stuck>>

\* Mutant: a plain rename, which replaces an existing destination.
MayTakeAny(e) == TRUE

\* renameDirectoryNoReplace: the kernel refuses an existing destination.
MayTake(e) == entry[held[e]] = None

Rename(e) ==
    /\ pc[e] = "rename"
    /\ \/ /\ MayTake(e)
          /\ Pass(e, "rename", "unwind")
          /\ entry' = [entry EXCEPT ![held[e]] = e]
          /\ inner' = [inner EXCEPT ![e] = "moved"]
          /\ complete' = [complete EXCEPT ![e] = TRUE]
       \/ /\ ~MayTake(e) \/ IoFault
          /\ Fail(e, "rename", {"output"})
          /\ UNCHANGED <<entry, inner, complete>>
    /\ UNCHANGED <<sigVars, path, held, tmp, stage, file, synced, stray, envVars, snap, stuck>>
-----------------------------------------------------------------------------
(* Export's deferred calls: the error rewrite, then outputDir.close.       *)

\* Mutant: the rewrite forgets that err may be nil.
RewrittenAlways(e) == IF Done(e) THEN "interrupted" ELSE err[e]

Rewritten(e) == IF err[e] # "none" /\ Done(e) THEN "interrupted" ELSE err[e]

Unwind(e) ==
    /\ Goto(e, "unwind", "closeFiles")
    /\ err' = [err EXCEPT ![e] = Rewritten(e)]
    /\ UNCHANGED <<opts, result, code, sigVars, nameVars, diskVars, envVars, snap, stuck>>

CloseFiles(e) ==
    /\ Pass(e, "closeFiles", "closeExport")
    /\ \/ /\ ~complete[e]
          /\ file' = [file EXCEPT ![e] = [n \in FileNames |-> NoFile]]
          /\ UNCHANGED stuck
       \/ complete[e] /\ UNCHANGED <<file, stuck>>
       \/ /\ IoFault /\ ~complete[e]
          /\ stuck' = [stuck EXCEPT ![e] = TRUE]
          /\ UNCHANGED file
    /\ UNCHANGED <<sigVars, nameVars, stage, inner, synced, stray, complete, envVars, snap>>

\* rmdir only removes an empty directory.
EmptyInner(e) == ~stray[e] /\ \A n \in FileNames : file[e][n] = NoFile

CloseExport(e) ==
    /\ Pass(e, "closeExport", "closeStage")
    /\ IF ~complete[e] /\ inner[e] = "held" /\ EmptyInner(e)
       THEN inner' = [inner EXCEPT ![e] = "none"] /\ UNCHANGED stuck
       ELSE /\ stuck' = [stuck EXCEPT ![e] = @ \/ (~complete[e] /\ inner[e] = "held")]
            /\ UNCHANGED inner
    /\ UNCHANGED <<sigVars, nameVars, stage, file, synced, stray, complete, envVars, snap>>

\* The public name is removed only while it is the directory made here.
CloseStage(e) ==
    /\ Pass(e, "closeStage", "returned")
    /\ \/ /\ stage[e] = "own" /\ inner[e] # "held"
          /\ stage' = [stage EXCEPT ![e] = "none"]
          /\ UNCHANGED stuck
       \/ /\ stage[e] = "own" /\ (inner[e] = "held" \/ IoFault)
          /\ stuck' = [stuck EXCEPT ![e] = TRUE]
          /\ UNCHANGED stage
       \/ stage[e] # "own" /\ UNCHANGED <<stage, stuck>>
    /\ UNCHANGED <<sigVars, nameVars, inner, file, synced, stray, complete, envVars, snap>>
-----------------------------------------------------------------------------
(* Back through withExportSignals to the command.                          *)

\* Mutant: the deferred function waits for the goroutine without cancelling.
ReturnUncancelled(e) ==
    /\ Goto(e, "returned", "join")
    /\ result' = [result EXCEPT ![e] = IF err[e] = "none" THEN "ok" ELSE "error"]
    /\ UNCHANGED <<opts, err, code, sigVars, nameVars, diskVars, envVars, snap, stuck>>

Return(e) ==
    /\ Goto(e, "returned", "join")
    /\ result' = [result EXCEPT ![e] = IF err[e] = "none" THEN "ok" ELSE "error"]
    /\ cancelled' = [cancelled EXCEPT ![e] = TRUE]
    /\ UNCHANGED <<opts, err, code, expired, handler, sigbuf, nameVars, diskVars, envVars, snap, stuck>>

Join(e) ==
    /\ handler[e] = "stopped"
    /\ Pass(e, "join", "report")
    /\ UNCHANGED <<sigVars, nameVars, diskVars, envVars, snap, stuck>>

\* Mutant: a failed export skips the cleanup of its temporary parent.
AfterCommandForgetful(e) ==
    IF opts[e].mode = "temp" /\ result[e] = "ok" THEN "removeAll" ELSE "exit"

\* A temporary export is cleaned up on every way out of the command.
AfterCommand(e) == IF opts[e].mode = "temp" THEN "removeAll" ELSE "exit"

\* runExport prints the result; the convenience commands go on to analyse it.
Report(e) ==
    /\ \/ /\ result[e] = "ok" /\ opts[e].mode # "export"
          /\ Goto(e, "report", "analyse") /\ UNCHANGED code
       \/ /\ opts[e].mode = "export" \/ result[e] = "error"
          /\ Goto(e, "report", AfterCommand(e))
          /\ \E c \in IF result[e] = "ok" THEN {"0"} \cup (IF IoFault THEN {"1"} ELSE {}) ELSE {"1"} :
                code' = [code EXCEPT ![e] = c]
    /\ UNCHANGED <<opts, err, result, sigVars, nameVars, diskVars, envVars, snap, stuck>>

\* Investigation or what-if over the exported file, and its report.
Analyse(e) ==
    /\ Goto(e, "analyse", AfterCommand(e))
    /\ \E c \in {"0"} \cup (IF IoFault THEN {"1"} ELSE {}) : code' = [code EXCEPT ![e] = c]
    /\ UNCHANGED <<opts, err, result, sigVars, nameVars, diskVars, envVars, snap, stuck>>

\* cleanup: RemoveAll of the held "export", then rmdir of the parent.
RemoveAll(e) ==
    /\ Pass(e, "removeAll", "rmParent")
    /\ \/ /\ entry[e] = e
          /\ file' = [file EXCEPT ![e] = [n \in FileNames |-> NoFile]]
          /\ \/ entry' = [entry EXCEPT ![e] = None] /\ UNCHANGED stuck
             \/ IoFault /\ stuck' = [stuck EXCEPT ![e] = TRUE] /\ UNCHANGED entry
       \/ entry[e] # e /\ UNCHANGED <<file, entry, stuck>>
    /\ UNCHANGED <<sigVars, path, held, tmp, stage, inner, synced, stray, complete, envVars, snap>>

RmParent(e) ==
    /\ Pass(e, "rmParent", "exit")
    /\ \/ /\ entry[e] = None /\ stage[e] = "none"
          /\ tmp' = [tmp EXCEPT ![e] = FALSE] /\ UNCHANGED stuck
       \/ /\ entry[e] # None \/ stage[e] # "none" \/ IoFault
          /\ stuck' = [stuck EXCEPT ![e] = TRUE] /\ UNCHANGED tmp
    /\ UNCHANGED <<sigVars, path, held, entry, diskVars, envVars, snap>>
-----------------------------------------------------------------------------
(* The signal goroutine and the context timer.                             *)

HandleSignal(e) ==
    /\ Running(e) /\ handler[e] = "listening" /\ sigbuf[e]
    /\ handler' = [handler EXCEPT ![e] = "stopped"]
    /\ sigbuf' = [sigbuf EXCEPT ![e] = FALSE]
    /\ cancelled' = [cancelled EXCEPT ![e] = TRUE]
    /\ UNCHANGED <<ctlVars, expired, nameVars, diskVars, envVars, snap, stuck>>

HandleDone(e) ==
    /\ Running(e) /\ handler[e] = "listening" /\ cancelled[e]
    /\ handler' = [handler EXCEPT ![e] = "stopped"]
    /\ UNCHANGED <<ctlVars, cancelled, expired, sigbuf, nameVars, diskVars, envVars, snap, stuck>>

Timeout(e) ==
    /\ "timeout" \in Faults
    /\ pc[e] \in ExportSteps /\ ~expired[e]
    /\ expired' = [expired EXCEPT ![e] = TRUE]
    /\ UNCHANGED <<ctlVars, cancelled, handler, sigbuf, nameVars, diskVars, envVars, snap, stuck>>

\* SIGINT or SIGTERM: buffered while Notify is in force (and dropped when the
\* buffer is full), the default action, termination, otherwise.
Signal(e) ==
    /\ "signal" \in Faults /\ Running(e)
    /\ \/ /\ handler[e] = "listening"
          /\ sigbuf' = [sigbuf EXCEPT ![e] = TRUE]
          /\ UNCHANGED pc
       \/ /\ handler[e] # "listening"
          /\ pc' = [pc EXCEPT ![e] = "crashed"]
          /\ UNCHANGED sigbuf
    /\ UNCHANGED <<opts, err, result, code, cancelled, expired, handler, nameVars, diskVars,
                   envVars, snap, stuck>>

Crash(e) ==
    /\ "crash" \in Faults /\ Running(e)
    /\ pc' = [pc EXCEPT ![e] = "crashed"]
    /\ UNCHANGED <<opts, err, result, code, sigVars, nameVars, diskVars, envVars, snap, stuck>>
-----------------------------------------------------------------------------
(* The rest of the machine.                                                *)

DatabaseWrite ==
    /\ "write" \in Faults
    /\ db' \in 0..MaxDb
    /\ UNCHANGED <<ctlVars, sigVars, nameVars, diskVars, lost, snap, stuck>>

\* Another program creates the destination, or removes what it made there.
ForeignEntry(p) ==
    /\ "foreign" \in Faults /\ p \in Parents
    /\ entry[p] \in {None, Foreign}
    /\ entry' = [entry EXCEPT ![p] = IF @ = None THEN Foreign ELSE None]
    /\ UNCHANGED <<ctlVars, sigVars, path, held, tmp, diskVars, envVars, snap, stuck>>

\* An ancestor is renamed: the caller's path leads to another directory.
Rebind ==
    /\ "rebind" \in Faults
    /\ path' \in Parents \ {path}
    /\ UNCHANGED <<ctlVars, sigVars, held, entry, tmp, diskVars, envVars, snap, stuck>>

\* The public name of the stage is moved away and taken by something else.
ReplaceStage(e) ==
    /\ "replace" \in Faults
    /\ stage[e] = "own" /\ inner[e] # "none"
    /\ stage' = [stage EXCEPT ![e] = "replaced"]
    /\ UNCHANGED <<ctlVars, sigVars, nameVars, inner, file, synced, stray, complete, envVars, snap, stuck>>

\* A file system or desktop service leaves an entry in the staged directory.
StrayEntry(e) ==
    /\ "stray" \in Faults
    /\ Running(e) /\ inner[e] = "held" /\ ~stray[e]
    /\ stray' = [stray EXCEPT ![e] = TRUE]
    /\ UNCHANGED <<ctlVars, sigVars, nameVars, stage, inner, file, synced, complete, envVars, snap, stuck>>

\* Every process stops. A file that was not synced, or whose directory was
\* not, keeps any prefix or disappears; a rename may not have reached the
\* disk, since nothing syncs the parent.
PowerLoss ==
    /\ "power" \in Faults /\ ~lost
    /\ lost' = TRUE
    /\ pc' = [e \in Procs |-> IF pc[e] = "exit" THEN "exit" ELSE "crashed"]
    /\ file' \in [Procs -> [FileNames -> NoFile..(MaxRows + 1)]]
    /\ \A e \in Procs, n \in FileNames :
          /\ file'[e][n] <= file[e][n]
          /\ {n, "dir"} \subseteq synced[e] => file'[e][n] = file[e][n]
    /\ \E undone \in SUBSET {e \in Procs : inner[e] = "moved"} :
          /\ inner' = [e \in Procs |-> IF e \in undone THEN "held" ELSE inner[e]]
          /\ entry' = [p \in Places |-> IF entry[p] \in undone THEN None ELSE entry[p]]
    /\ UNCHANGED <<opts, err, result, code, sigVars, path, held, tmp, stage, synced, stray,
                   complete, db, snap, stuck>>
-----------------------------------------------------------------------------
ExporterStep(e) ==
    \/ MakeTemp(e) \/ Enter(e) \/ Prepare(e) \/ OpenParent(e) \/ MakeStage(e) \/ OpenStage(e)
    \/ Connect(e) \/ BeginTransaction(e) \/ CreateSpend(e) \/ CopyRow(e) \/ CopyEnd(e)
    \/ SyncSpend(e) \/ CreateDaily(e) \/ CopyDaily(e) \/ SyncDaily(e) \/ Commit(e)
    \/ Validate(e) \/ Verify(e) \/ CheckContext(e) \/ Rename(e)
    \/ Unwind(e) \/ CloseFiles(e) \/ CloseExport(e) \/ CloseStage(e)
    \/ Return(e) \/ Join(e) \/ Report(e) \/ Analyse(e) \/ RemoveAll(e) \/ RmParent(e)

HandlerStep(e) == HandleSignal(e) \/ HandleDone(e)

Interference ==
    \/ \E e \in Procs : Timeout(e) \/ Signal(e) \/ Crash(e) \/ ReplaceStage(e) \/ StrayEntry(e)
    \/ \E p \in Parents : ForeignEntry(p)
    \/ DatabaseWrite \/ Rebind \/ PowerLoss

Next == (\E e \in Procs : ExporterStep(e) \/ HandlerStep(e)) \/ Interference

Spec == Init /\ [][Next]_vars

\* Every started process and its goroutine are scheduled; database calls end
\* because each is bounded by the context or by a server-side timeout.
Fairness == \A e \in Procs : WF_vars(ExporterStep(e)) /\ WF_vars(HandlerStep(e))

FairSpec == Spec /\ Fairness
-----------------------------------------------------------------------------
CtlTypeOK ==
    /\ opts \in [Procs -> OptionSet]
    /\ pc \in [Procs -> PcValues]
    /\ err \in [Procs -> Kinds]
    /\ result \in [Procs -> {"pending", "ok", "error"}]
    /\ code \in [Procs -> {"none", "0", "1"}]

SigTypeOK ==
    /\ cancelled \in [Procs -> BOOLEAN] /\ expired \in [Procs -> BOOLEAN]
    /\ handler \in [Procs -> {"off", "listening", "stopped"}]
    /\ sigbuf \in [Procs -> BOOLEAN]

NameTypeOK ==
    /\ path \in Parents
    /\ held \in [Procs -> Places \cup {None}]
    /\ entry \in [Places -> Procs \cup {None, Foreign}]
    /\ tmp \in [Procs -> BOOLEAN]

Files == [FileNames -> NoFile..(MaxRows + 1)]

DiskTypeOK ==
    /\ stage \in [Procs -> {"none", "own", "replaced"}]
    /\ inner \in [Procs -> {"none", "held", "moved"}]
    /\ file \in [Procs -> Files]
    /\ synced \in [Procs -> SUBSET {"spend", "daily", "dir"}]
    /\ stray \in [Procs -> BOOLEAN] /\ complete \in [Procs -> BOOLEAN]

EnvTypeOK ==
    /\ snap \in [Procs -> NoFile..MaxDb]
    /\ db \in 0..MaxDb
    /\ stuck \in [Procs -> BOOLEAN] /\ lost \in BOOLEAN

\* The types of the variables; no file ever holds more rows than the limited
\* query returns (Export's LIMIT and byteLimit).
TypeOK == CtlTypeOK /\ SigTypeOK /\ NameTypeOK /\ DiskTypeOK /\ EnvTypeOK

\* Everything of one snapshot, nothing cut off at the row limit, and the
\* daily counters of that same snapshot exactly when they were asked for.
Full(e) ==
    /\ snap[e] \in 0..MaxRows
    /\ file[e]["spend"] = snap[e]
    /\ file[e]["daily"] = IF opts[e].daily THEN snap[e] ELSE NoFile

\* The command still needs what it exported: always for a destination the
\* user named, until the analysis is over for a temporary one.
Wanted(p) == p \in Parents \/ (p \in Procs /\ code[p] = "none")

\* Whatever the destination name shows of an exporter is a complete export of
\* one database snapshot, in every interleaving with writers, failures,
\* crashes and a power loss (publish, Export's Sync calls and LIMIT).
PublishedIsComplete ==
    \A p \in Places : entry[p] \in Procs /\ Wanted(p) => Full(entry[p])

\* Of several exporters that hold the same parent, at most one publishes
\* (newOutput's Lstat is long before the rename that decides).
OneWinner ==
    \A e, f \in Procs :
        complete[e] /\ complete[f] /\ held[e] = held[f] /\ ~lost => e = f

\* What Export answers is what happened: an error, "interrupted; no complete
\* export was published" included, leaves nothing at the destination, and a
\* success stays there until a temporary export is cleaned up.
AnswerMatchesPublication ==
    \A e \in Procs :
        /\ result[e] = "error" \/ err[e] # "none" => \A p \in Places : entry[p] # e
        /\ result[e] = "ok" /\ ~lost /\ Wanted(held[e]) => entry[held[e]] = e

\* A handled failure leaves no staged file, no "export" and no stage of its
\* own, unless a removal was refused (outputDir.close).
HandledFailureLeavesNothing ==
    \A e \in Procs :
        result[e] = "error" /\ ~stuck[e] /\ ~lost =>
            /\ stage[e] # "own" /\ inner[e] = "none"
            /\ \A n \in FileNames : file[e][n] = NoFile

\* A convenience command that ends by itself has removed its private
\* temporary directory, whatever happened to the export or the analysis.
TemporaryRemoved ==
    \A e \in Procs :
        opts[e].mode = "temp" /\ pc[e] = "exit" /\ ~stuck[e] /\ stage[e] # "replaced" /\ ~lost =>
            ~tmp[e] /\ entry[e] = None

\* Whatever fails, and whether it fails in the exporter or in the command that
\* uses the export, nothing private stays on the disk.
NothingLeftBehind == HandledFailureLeavesNothing /\ TemporaryRemoved

\* Cancellation or the deadline, seen before publish looks at the context,
\* stops publication for good, also for an export without rows, whose
\* validation never looks at the context.
CancellationStopsPublication ==
    \A e \in Procs :
        [](Done(e) /\ pc[e] \in ExportSteps \ {"rename", "unwind"} => []~complete[e])

\* No exporter step and no cleanup replaces or removes an entry that another
\* program made at a destination.
ForeignUntouched ==
    [][\A p \in Places : entry[p] = Foreign /\ entry'[p] # Foreign => ForeignEntry(p)]_vars

\* Every command ends: the exporter returns, and the join with the signal
\* goroutine does not wait for a signal that never comes.
Terminates == \A e \in Procs : <>(~Running(e))

\* What a reader of the destinations sees of the concrete state. A temporary
\* export counts as withdrawn when the command has finished with it.
Shown == [p \in Places |->
            IF entry[p] \notin Procs THEN entry[p]
            ELSE IF ~Wanted(p) THEN None
            ELSE [by |-> entry[p], rows |-> file[entry[p]]["spend"],
                  daily |-> file[entry[p]]["daily"]]]

Abs == INSTANCE AtomicPublication WITH shown <- Shown, answer <- result

\* The exporters implement atomic, no-replace publication.
Refinement == Abs!AbsSpec
=============================================================================
