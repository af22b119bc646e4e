# fleetdiff: TLA+ models and proofs

This directory holds TLA+ models of fleetdiff, a local command-line program that
exports, archives and analyses records of LLM usage. The modules are translated
from the Go source; `PROJECT.json` maps every definition to the lines it stands
for. Runs are model-checked with TLC on small instances; the central results
about the exporter, the archive, the session review, the investigation and the
accounts that it keeps in one pass are proved with TLAPS for every value of the
constants.

## 1. The system

fleetdiff is mostly sequential: a command opens files, makes one or more passes
over them and prints a report. What is hard sits at the edges: publication of an
export on a file system shared with other programs, an archive kept by a cron
job that may die at any step, and analyses that read one path several times and
keep only bounded state. The accounts inside one pass are sequential, but keep
several views of the same records under limits, scopes and missing values, which
have to agree.

| Component | State | Operations | Interacts with |
|---|---|---|---|
| Native export (`cmd/fleetdiff`, `internal/cli/database.go`, `internal/postgres`, `internal/exportdata`) | context, signal channel and goroutine, held parent directory, stage, files, transaction | connect, snapshot, copy, sync, validate, publish (no-replace rename), clean up | PostgreSQL, file system, signals, other programs; hands a temporary export to the analyses |
| Archive helper (`examples/archive`) | directory lock, inventory, plan, stages | read the source, lock, inventory, plan, stage, recheck, install, prune | a collector that overwrites its summaries, cron, other helpers |
| Session-budget review (`internal/spend/session.go`) | period, three digests, bounded sessions and memberships, totals | choose a period, accumulate, look for cut sessions | the spend reader |
| Spend investigation (`internal/spend/investigate.go`, `coverage.go`, `period.go`, `selection.go`, `accounting.go`, `cache.go`) | two windows, models, two rankings of bounded sketches, digests | choose periods, accumulate, rank, order candidates, name them | spend reader or Langfuse rows; `compare.RankCandidates`; sketches |
| Spend reader (`internal/spend/reader.go`) | descriptor, byte budget, frame | open, frame, visit | both analyses |
| Routing, agents, provider counts, daily coverage (`spend/routing.go`, `agents.go`, `provider_counts.go`, `row_coverage.go`) | field coverage, cohorts, cells, agents, entries per day and model, bounded identity maps | observe, add, rank, result | the investigation's main pass; contract, counts and map files |
| Repricing (`internal/reprice`, `spend/reprice.go`) | a calculator with buckets per move and workload, a child for failed records | add, result | spend reader, summaries |
| Comparison and scan (`internal/compare`) | merged windows, baseline, streaks, work | compare, scan, project top-k | archived summaries |
| Langfuse import (`internal/langfuse`) | two inventories, manifests, rows, covered windows per project | inventory, read manifests, read files, recheck, report | a directory other programs write; the investigation |
| Inspection, diagnosis (`internal/inspect`, `internal/diagnose`) | field counters | one pass | files |
| Command line (`internal/cli`) | flags | dispatch, format | all |
| Summaries and sketches | library outside this repository | encode, combine, bounds | archive, comparison, investigation |

What makes each correct:

* **Export**: what the destination shows is a complete export of one snapshot,
  also after a power loss; nobody else's entry is replaced; the exit status says
  what happened; cancellation prevents publication; nothing is left behind.
* **Archive**: no archived window is lost except by retention; readers never meet
  a torn file; reruns converge; the archive stays within what its readers accept.
* **Analyses**: a report describes one sequence of records although the file may
  change between passes; nothing within the limits is refused; every record is
  accounted for; intervals from bounded sketches hold the real values.
* **Accounts of one pass**: two views of the same records never disagree; limits
  are exact; what the display leaves out is summed once; a difference from a
  provider's counts is shown only when nothing else can explain it.
* **Repricing**: sums per move and workload price every record as if alone, and no
  scenario moves more traffic than there is.
* **Langfuse import**: a result is that of the directory at one moment; volumes are
  shown only for periods that complete runs cover.
* **Scan**: a finding is about what contributors really did, persists as asked, and
  a quiet answer is never given over missing history.

`PROJECT.json` lists the hazards, each with its line and the properties that
would catch it going wrong.

## 2. Modules

| Module | Models |
|---|---|
| `AtomicPublication` | what an export promises: a destination changes once, from nothing to a complete export |
| `NativeExport` | the exporter processes, their signal goroutines and the commands around them |
| `NativeExportProofs` | inductive invariants and safety theorems of the exporter; `NativeExport` implements `AtomicPublication` |
| `Archive` | helpers, collector, directory, power loss |
| `ArchiveProofs` | inductive invariants and safety theorems of the archive |
| `SpendFile` | a file on disk, its reader and the programs that change it |
| `SessionReview` | the session-budget review, over `SpendFile` |
| `SumLemmas` | sums over finite sets: empty, one element more, order, single terms, extremes, places in an order |
| `SessionReviewProofs` | inductive invariants and safety theorems of the review |
| `SpendInvestigation` | the investigation, over `SpendFile` |
| `SpendInvestigationProofs` | inductive invariants and safety theorems of the investigation |
| `LangfuseDirectory` | the directory loader and the programs that change the directory |
| `LangfuseProofs` | inductive invariant and safety theorems of the loader |
| `PersistenceScan` | the scan of a summary archive |
| `PersistenceScanProofs` | inductive invariant and safety theorems of the scan |
| `SpendRows` | records of an export, identities and totals, as the next four modules see them |
| `RoutingAudit` | routing coverage, scope, cohorts, cells, display and labels |
| `AgentAttribution` | agents of records, ranking and remainder |
| `ProviderCounts` | LiteLLM's daily counters, provider counts, contract and map |
| `WhatIf` | the repricing reader, calculator and its child for failures |
| `SpendViews` | the four above composed in one pass over the records |
| `SpendViewsProofs` | inductive invariants and safety theorems of the accounts of one pass |
| `MC...` | constants for TLC |

Definitions called `...Late`, `...Never`, `...Skipped` and the like, marked
"Mutant", are plausible bugs. No specification uses them; each one put in place
of the definition after it violates the property listed in `PROJECT.json`.

### NativeExport

One action per call that can fail or be interrupted. `pc[e]` names the next
statement: `MakeTemp` (databaseTemporaryExport), `Enter` (withExportSignals),
`Prepare` (credentials and configuration), `OpenParent`, `MakeStage`, `OpenStage`
(newOutput), `Connect`, `BeginTransaction`, `CreateSpend`, `CopyRow`, `CopyEnd`,
`SyncSpend`, the daily counterparts, `Commit`, `Validate`, `Verify`,
`CheckContext`, `Rename` (publish), `Unwind` (the deferred rewrite of `err`),
`CloseFiles`, `CloseExport`, `CloseStage` (close), `Return`, `Join` (the wrapper
waits for its goroutine), `Report`, `Analyse`, `RemoveAll`, `RmParent`. The signal
goroutine is `HandleSignal`, `HandleDone`. Around it: `Signal`, `Timeout`, `Crash`,
`PowerLoss`, `DatabaseWrite`, `ForeignEntry`, `Rebind` (the path leads to another
directory), `ReplaceStage`, `StrayEntry`. A file is the number of rows it holds.
`synced` records what reached the disk; after a power loss an unsynced file may
hold any prefix.

What the code does, and the model therefore does:

* The parent directory is not synced after the rename, so a power loss can undo a
  publication; it cannot make it partial. `AbsLose` says so.
* When `Lstat` fails after `Mkdir` in newOutput, the stage stays (no information
  to remove it by), and so does a temporary parent whose set-up fails after it
  was made. `HandledFailureLeavesNothing` and `TemporaryRemoved` except these.
* An export without rows never looks at its context during validation; the last
  look is the one before the rename. A signal after the rename changes nothing,
  and the first one is swallowed.
* Outside withExportSignals a signal kills the process (`Crash`).

### Archive

A helper reads the source *before* it takes the lock (`Start`, `Lock`), then
`Read` (inventory), `Plan`, `Stage` (one snapshot at a time), `Recheck`,
`SyncStage`, `Install`, `SyncInstall`, `Prune`, `SyncPrune`, `Finish`. `vis` is the
directory as processes see it; `maybe[n]` is the set of things name `n` can be
after a power loss: a rename or removal adds to it, a directory sync empties it
to what is visible. Reading the source is one step. Leftovers of crashed runs are
counted in `litter`; the code never reclaims them. A source that holds two
snapshots of one name with counters that went backwards makes the run fail. A rerun with an empty plan
succeeds without another sync, which is why `SuccessSettles` speaks of what is
visible, and `HistorySurvives` of what is on disk. The limits run has no power
loss: a removal that an earlier crashed run left unsynced can come back next to new
stages, and then exceeds limits that only count what is visible.

### SpendFile, SessionReview, SpendInvestigation

`SpendFile` is a path opened anew for each pass. Between any two records, other
programs may append (also a torn record), rewrite, cut, or rename a new file over
the path, in which case the open descriptor keeps the old one. A digest is the
sequence of records encoded so far: collisions of SHA-256 and of HMAC identities
are not considered.

`SessionReview` has three passes: `Visit1`/`End1` (span, duplicates), `Visit2`/
`End2` (sessions, memberships and totals within the limits), `Visit3`/`End3`
(sessions cut by the period; skipped if the first pass saw nothing outside). A cap
is always given; the daily coverage file, aliases and distributions are left out.

`SpendInvestigation` has `VisitSpan`/`EndSpan` (only for automatic periods),
`VisitMain`/`EndMain` and `VisitOrder`/`EndOrder` (only if there are candidates).
A frequent-items sketch is modelled by its contract: exact counters, and when
there are more than it keeps, some amount is taken from all of them and added to
the error bound. Which amount is a free choice, so the result holds for any purge
rule of that form. `Movers`, `Leaders`, `IncreaseOf`, `Position`, `Item`,
`Number` and `AliasOf` are the report; a place in a list is the number of members that come
before. Left out: cache and cost totals, quality counters. In
both modules `Changing` names the start files that other programs change and
`WrittenRows` what they write.

### LangfuseDirectory

`pc` follows loadDirectory: `inv1` (`Inventory1`, one name at a time, as WalkDir
visits them: `todo` holds the names still to visit, and the `Turn` is that of the
earliest in `PathOrder`), `manifests` (`ReadManifest`), `files` (`OpenListed`, `EndRun`), `read`
(`ReadRow`, `EndRead`), `inv2` (`Inventory2`, `EndLoad`), `loaded`, `reported`
(`Investigate`). At any step another program may write a file in place, rename one
over a name, or remove one; an open descriptor keeps the old file, and every change
gives the file (and, for a changed name, its directory) a new stamp, which stands
for inode and modification time. Manifests are read as they are at that moment, not as inventoried:
the second inventory is what catches a change. A name may disappear and come back
with other content between the two inventories; the stamps tell.

`SnapshotOfOneDirectory` compares what was loaded with the directory as it was when
the second inventory began: the runs, the rows, and the counters of listed,
verified, missing, partial, extra and duplicate data. `StableDirectoryLoaded` is the converse: a directory
nobody touches loads if it is within the limits and its rows are consistent. A
program that restores the modification time after a write in place without changing
the size is not modelled, and would not be noticed by the code.

`covered` walks the windows in the order of their starts and moves the covered time on.
`Reach` says where that ends up, the first moment from which no window that has begun
goes on, and `CoveredBy` compares it with the end of the period.

### PersistenceScan

`Start` builds the closed frames and decides whether there is a baseline;
`CheckWindow` judges one window after the other, from the persistence lookback on;
`Finish` ends. Shares and statistics are exact integers in units of 1/40000, so that
medians, deviations and the factor 1.4826 involve no rounding; counts are chosen so
that percentages are whole (`WholeShares`). A sketch is its contract: counters never
above the true weight, and within the offset of it; `truth` is known to the
properties only. The report keeps all persisted findings and counts those beyond
`--top`; aliases are left out.

A contributor that clears both tests is reported as newly prominent and not as the
leading share. A leader that first clears only the leading-share test and then both
changes its kind of finding and starts a new streak. The documents do not exclude
this, and `PersistenceExact` speaks of one kind of finding throughout.

### SpendRows, RoutingAudit, AgentAttribution, ProviderCounts, WhatIf, SpendViews

`SpendViews` takes a command and its options, then one record after the other, in
any order. `Investigate` is the callback of investigate: outside the periods; daily
and provider counts (any call type); routing coverage and scope; end times; routing
cells; windows; agents. A refusal at any point discards the report, as in the code.
`WhatIfRow` is the callback of readReprice with Calculator.Add; `Report` and
`EndWhatIf` end a pass. The other four modules hold the state and the steps of one
account each. A record has the fields the accounts look at; a spelling is a model
string and `Canon` maps spellings to keyed identities, so that two spellings of one
route, model or agent occur. `-1` is a number that is absent or unusable.

Left out here: duplicates and the replay digest (`SpendInvestigation` has them), the
per-call-type table of unsupported records, display labels of agents and provider
models, and the leading contributor. Factors are whole multiples of 1/`Unit`,
fractions of 1/`Parts`: exact, as the rational arithmetic of the code is.

## 3. Runs

| Run | Question | Bounds, and why they are enough |
|---|---|---|
| `export_storage` | Is only a complete export ever visible, is publication atomic, and is everything cleaned up? | one process, all command lines (temporary exports too), a limit of 1 row and a database of up to 3: below, at, one and two above the limit; I/O errors, crash, power loss, strays, replaced stage |
| `export_cancel` | Do cancellation and answers agree with publication, and does every command end? | signals, deadline and I/O errors at every step, under fairness |
| `export_race` | Can two exporters and a third program hurt each other? | two processes, two directories, rebinding of the path, crashes; one row is enough, since the race is about names |
| `archive_durable` | Is history ever lost or torn, and do reruns finish the work? | two windows that close and are archived, two sequence numbers, retention of one window, any two faults (crash, I/O error, clock, power loss); convergence under fairness |
| `archive_limits` | Does the archive stay readable, and does success mean archived? | limits of 2 files, 3 entries, 6 bytes, so that each of them binds; retention of one and two windows |
| `archive_race` | Can a late helper bring back an old snapshot, or touch a file it has not inventoried? | two helpers and one fault: a collector restart, a crash, an I/O error, or an edit at any point |
| `session` | Is anything refused, miscounted, or mixed from two contents of a file? | every file of up to four records over eleven kinds, limits of two sessions, so that the record at the limit and the next one both occur; two changes of any kind at any point of a few of the files |
| `investigation` | The same, and: do intervals hold the truth, are aliases distinct? | files of up to five records over the periods' edges; sketches of one identity, so that purges happen constantly; limits of two call types and three models; two changes |
| `langfuse_load` | Can a result mix two states of a directory, or report a volume over a hole? | two manifests and three data files over two projects, every limit small enough to bind, two changes at any step |
| `scan` | Is a finding real, does it persist as asked, is quiet really quiet? | archives of up to five windows, missing and incomplete ones included, around each threshold; a baseline of at least two windows (six in the code) |
| `scan_lookback` | Does an unjudged lookback window show? | as `scan`, one recent window and a persistence of two; expected to fail, see below |
| `views` | Do the accounts of one pass agree, close and stay exact? | every export of up to four records over 36 kinds of record, in groups per account, in every order; 26 option sets; limits of two to four; `MaxCount` of 12 so that counters reach their range |

Some checked properties are conjunctions of named parts that belong together:
`NothingLeftBehind` (`HandledFailureLeavesNothing` and `TemporaryRemoved`), `AccountsClose`,
`EveryRowObserved`, `EveryRowPriced`, and the four that say that limits are exact
(`ReviewLimitsExact`, `InvestigationLimitsExact`, `LoadLimitsExact`, `LimitsExact`):
the type invariant, which bounds what is held, together with the converse, that
nothing within the limits is refused. That publication is atomic among several
exporters is the theorem `Implements`, for any number of them; `export_storage`
checks the refinement for one with every fault.

Each run ends because commands end, clocks and counters are bounded, or no
further fault is allowed; deadlock is therefore not an error in them (`views` has an
explicit last step instead). That the
commands do end is `Terminates`, and `Converges` for the helper. The bounds on
the environment are `MaxDb`, `MaxClock`, `MaxWindow`, `MaxSeq`, `MaxFaults`, `MaxFile`,
`MaxStream` and `MaxWrites`; `MaxRows`, `MaxFiles`, `MaxEntries`, `MaxBytes`,
`MaxSessions`, `MaxMembers`, `MaxModels`, `MaxCallTypes`, `MaxCount`, `MaxNames`,
`MaxTotal`, `MaxFileBytes`, `MaxCost`, `MaxWork`, `MinBaseline`, `MaxRoutes`,
`MaxRoutingAgents`, `MaxRoutingModels`, `MaxCohorts`, `MaxCells`, `MaxAgents` and
`MaxProviderRows` are limits of the code with small values.

A summary is eligible only once its window has ended, so what a collector writes about
the window that starts at `MaxClock` could never be archived. `archive_durable` and
`archive_race` leave it out (`MaxWindow` is 1, `MaxClock` is 2); that a window is
still open when a helper reads the source occurs with the two others. `archive_limits`
includes it.

All runs but `scan_lookback` pass.

**Finding.** `docs/SCAN.md` says that missing producers produce an explicit
unavailable result (lines 100-102), and that history which prevents a quiet verdict
is exit code 4 (line 124). With a persistence above one, `Scan` also judges the
windows just before the recent ones, only to start streaks. When one of those lacks
a producer, it yields no candidates and the streaks start over, so nothing can
persist into the first recent window (with one recent window, the default, nothing
at all can be found); but `compare/scan.go:243` leaves the loop
before the status of the report is set, and the answer is "evaluated", exit code 0.
`scan_lookback` shows the archive. `QuietIsCovered`, which passes, is what the code
does guarantee: baseline and recent windows are complete, and nothing is missing
altogether.

**Fairness.** `export_cancel` assumes that a running process and its signal
goroutine take their next step when they can: the Go scheduler runs both, and
every database call is bounded by the five-minute context. No fault, signal or
deadline is fair. `archive_durable` assumes that a helper keeps taking steps,
which includes being started again: the helper is documented as a periodic job.

## 4. Proofs

Everything below holds for any sets, limits and bounds that satisfy the named
assumptions of the modules: special values are distinct from data and from each
other, limits are natural numbers, records and options have the stated fields,
and owners and helpers (archive), measurements and contributors (scan), and workloads
and models (investigation) are finitely many.

### The exporter (`NativeExportProofs`)

For any sets of processes and directories, any row limit, any size of the
database and any kinds of interference, from `ConstantsAssumption`:

| Theorem | Says |
|---|---|
| `TypeCorrect` | `Spec => []TypeOK` |
| `PublicationComplete` | `Spec => []PublishedIsComplete` |
| `PublicationExclusive` | `Spec => []OneWinner` |
| `AnswersTruthful` | `Spec => []AnswerMatchesPublication` |
| `NothingStays` | `Spec => []NothingLeftBehind` |
| `ForeignSafe` | `Spec => ForeignUntouched`, an action property |
| `CancellationFinal` | `Spec => CancellationStopsPublication`, an action property |
| `Implements` | `Spec => Refinement`: every step publishes, answers, withdraws, loses, or stutters |

None of these invariants is inductive: that a destination is complete says
nothing about a process one step before its rename. `IInv` adds what a process has
established by the time it reaches each statement. `FilesInv` ties `pc` to the
files (after the copy the file holds the snapshot and the snapshot is within the
limit, after each sync it is on disk, before the rename the directory is too);
`NamesInv` ties `pc`, `held`, `complete`, `err` and `result` together; `EntryInv`
says of a destination that shows an exporter that this exporter is complete,
holds that directory, and, while somebody needs the export, that its files are
full and synced. The last part is what makes the power-loss step go through.
There is one lemma per action, with one step per part of `IInv`; `NextIInv`
combines them, and each theorem follows from `Invariance`. `NothingStays` adds
`CleanInv`: which private things may still exist at each statement of the
unwinding, and which of them only because a removal was refused.

The refinement maps `shown[p]` to what destination `p` shows. Of all actions only
the rename, the return, the end of the command, the removal of a temporary
export, a foreign entry and a power loss change what the map sees; the others are
shown to stutter from the variables they leave alone (`QuietStep`).

### The archive (`ArchiveProofs`)

For any number of helpers, windows, owners, limits and faults, from
`ArchiveAssumption`:

| Theorem | Says | Unless |
|---|---|---|
| `ArchiveTypes` | `Spec => []TypeOK` | |
| `ArchiveNeverTorn` | `Spec => []NeverTorn` | |
| `ArchiveNoRegression` | `Spec => NoRegression`, an action property | |
| `ArchiveOnlyInventoried` | `Spec => OnlyInventoried`, an action property | |
| `ArchiveSuccessSettles` | `Spec => []SuccessSettles` | somebody edits the archive by hand |
| `ArchiveHistorySurvives` | `Spec => []HistorySurvives` | somebody edits the archive by hand |
| `ArchiveWithinLimits` | `Spec => []WithinLimits` | an edit, or a power loss that brings back what was removed |

The exceptions are those of the runs: an edit may do anything, and a power loss
may undo removals (section 2). `Inv` says who holds the lock (`Locked`), that what is
visible is one of the things that may be there after a power loss and that each
name shows a document of that name (`DirOK`), that a plan follows from the inventory
it was made of (`HelperOK`), and how far the holder of the lock has got with it
(`Progress`). Three more layers rest on it. `Undisturbed`: between the inventory and
the end of a run the directory shows the inventory, changed only by the steps the
helper has done. `Sure` and `Covered`: from the first removal on, every window the
plan keeps is on the disk, which is the sync between the last rename and the
first removal; the sync of the stages alone would not do. `Room`: what is still to
be staged fits next to everything that is there, which is what makes `WithinLimits`
inductive: the batch is budgeted as a whole before its first stage.

### The session review (`SessionReviewProofs`, `SumLemmas`)

For every file, period, limit and change of the file, from `SpendFileAssumption` and
`SessionAssumption`:

| Theorem | Says |
|---|---|
| `ReviewIsOfOneFile` | `Spec => []ReviewOfOneFile` |
| `ReviewConserves` | `Spec => []Conservation` |
| `ReviewWithinLimits` | `Spec => []ReviewLimitsExact` |

`ReadOK` (theorem `PassesAgree`) is the digest argument: from its second pass on, a
review that goes on has read the same records as before, or will fail; a third pass
that is skipped could have found nothing. `StateOK` says that every retained session is
what the records visited so far say of it (`Gathered`), whatever their order; `SumOK` that
totals and sessions add up record by record; `SeenOK` that nothing is counted towards a
limit but by a visited record; `StableOK` that a file nobody has changed is read as it
is. The converse of the limits follows from the last two: a refusal would need a
visited record of the unchanged file that is itself beyond a limit.

Sums over finite sets are recursive functions on subsets, and nothing installed
can instantiate an induction theorem. `SumLemmas` argues by a smallest
counterexample instead: among the subsets that violate a claim one has the least
cardinality, and taking one element away gives a smaller one. What follows are
`SumOne`, `SumMove` and the like, each for all functions and finite sets, and the order
in which a sum is taken no longer matters.

### The investigation (`SpendInvestigationProofs`, `SumLemmas`)

For every file, every change of it, any periods, scope, limits, models and
workloads, and any amount a purge takes, from `SpendFileAssumption` and
`InvestigationAssumption`:

| Theorem | Says |
|---|---|
| `IntervalsAreTrue` | `Spec => []IntervalsHoldTruth` |
| `InvestigationIsOfOneFile` | `Spec => []InvestigationOfOneFile` |
| `InvestigationAccounts` | `Spec => []Accounted` |
| `InvestigationWithinLimits` | `Spec => []InvestigationLimitsExact`, with `InvestigationTypes` for its type invariant |
| `AliasesAreDistinct` | `Spec => []AliasesDistinct` |

`ReadOK` (theorem `PassesAgree`) is again the digest argument, with the periods: what
the main pass accumulates is divided by the periods that its own records give, or by
those of the command line, and a last pass that goes on has read the same records. The
other parts say what each register is a function of, for the records read so far.
`WindowsOK`: requests and tokens of a side are sums over the analysed records of that
side. `SketchOK`: each sketch *encloses* the true weights (a counter is never above the
weight, and never more than the error bound below it), and counters and error bound
together never exceed the tokens of the side (`Load`). Adding a record keeps both,
and so does a purge: what it takes from at least one counter it adds once to the
bound. `Load` is what keeps the registers in range without any account of how often a
purge happens. An interval is a difference of two enclosures; for the leaders the
differences are added up, whichever of equal candidates were taken, and a workload that
no sketch holds has counters of zero. `ModelsOK`: a model is what its records say of it,
its public name included, which is known only while all of them agree; `OrderOK`:
each candidate is placed at its first record. `TallyOK` adds up the records, `TypesOK`
and `OwnersOK` say that nothing counts towards a limit but a visited record, and
`StableOK` that an unchanged file is read as it is, so that a refusal would need a record
of that file which is itself beyond a limit.

Aliases are made of places and borrowed names. Places differ because the comparisons are
strict total orders (`AheadOrders`, `MovedMoreOrders`): equal strengths are told apart by
first records, and these are different because each candidate has a record of its own
(`CandidatePlaced`: its bound is positive, so its true weight is). In such an order no
two members have equally many before them (`PlacesDiffer`). For borrowed names `AliasOK`
relates two passes: the main pass notes which models several identities use, the last pass
which models a candidate uses. An unsplit model has one owner as far as the main pass
has read, and both passes have read the same records when a report with candidates is
written, so two identities cannot both borrow it.

### The accounts of one pass (`SpendViewsProofs`, `SumLemmas`)

For every export, all options, files of counts and maps, and all limits, from
`SpendRowsAssumption`, `RoutingAssumption`, `AgentAssumption`,
`ProviderAssumption` and, for the last three, `WhatIfAssumption`:

| Theorem | Says |
|---|---|
| `AllAccountsClose` | `Spec => []AccountsClose` |
| `LabelsAreFaithful` | `Spec => []LabelsFaithful` |
| `EveryRowIsObserved` | `Spec => []EveryRowObserved` |
| `ComparisonsAreExact` | `Spec => []ComparisonsExact` |
| `LimitsAreExact` | `Spec => []LimitsExact` |
| `EveryRowIsPriced` | `Spec => []EveryRowPriced` |
| `NothingIsOvermoved` | `Spec => []NeverOvermoved` |
| `FailuresAreAPart` | `Spec => []FailuresArePart` |

`InvestigationSteps` reduces every step to three kinds: the files are loaded, a record
passes outside the periods or is counted, or no account changes. Each part of the
invariant is then shown for these.

* `RoutingOK`: totals and windows are one; cohorts of any set hold what the cells of
  these cohorts hold, which is stronger than that all cohorts hold what all cells
  hold, and is what makes the remainder close whichever cohorts the display shows.
  `CreditSum` is the lemma behind it: a sum over a register gains a record if and only
  if it includes the record's key. `AgentsOK` says the same of agents and the known
  window, and that the three states make up the windows; that the contributors,
  the agents without a cost and the rest do not overlap follows from `AheadOrder`, the
  ranking being a strict order.
* `LabelsOK`: a name that is not withdrawn is the spelling of every record of its
  identity, and an identity has a name from its first record on.
* `ClassesOK` counts the records of a period in each classification. `DaysOK` ties
  daily counters and provider entries to the records: `EntryHolds` says that an entry
  is the account of the records with its key, numbers, token sums and missing values
  included. `LinesOK` adds that each line of the counts file is an entry of its own
  and that an entry with a count is such a line, so that a difference is between a
  line and its records.
* `HeldOK` bounds the registers, since whatever joins one was found to fit. `ExactOK` is
  the converse: registers hold the identities, cohorts, cells and agents of visited
  records and nothing else, and no window holds more tokens than all records
  together. While nothing is refused, therefore, nothing exceeds a limit (`Within`);
  and a record that is refused makes one of these sets too large, because its tokens
  alone cannot be the reason in an export whose tokens fit a counter (`Refusal`).
  `RefusalOK` keeps that for the states after the refusal.

The last three are about repricing, with the invariant `WhatIfOK`. A calculator
never keeps a record: it has one bin of tokens per move and workload, and both
levels are computed from the bins when the report is written. `Took` says what a
calculator has in common with the set of records it took. The counts are those of
the records (`CountsTook`). The costs are too (`CostsTook`), and in a form that does
not mention the levels: for every price list that gives each move a model, an
input factor and an output factor for each workload (`Tariffs`), the bins cost what the
records cost one by one. That is stronger than the property, since a report uses only a
few of these lists, and it is inductive: `BinsGain` shows that tokens which join a bin cost
there what they cost alone, since prices are linear (`CostAdds`) and the fields of a bin
add up (`FilledJoins`). Then `AtSource`, and `AtTarget` with the output factors of a level,
are such lists, which gives `LevelOnePriced` and `LevelTwoPriced` for both calculators
and any set of moves outside which nothing is held.

* `NeverOvermoved`: `Shares` of a priced record are at most all of it, because `Overlaps`
  was checked before; the sums over records and moves carry that to the totals
  (`MovedAtMost`). The bounds of level 2 are in order since bins cost more at higher
  rates (`BinsCostGrows`).
* `FailuresArePart`: the child holds `Took` of the failed records among the priced ones, so each
  of its bins is a bin of the parent, its factors are available, and its sums
  are sums over a subset of records that each cost at least nothing (`MovedCostType`).

The proofs speak of the terms the options set (`Terms`: why a record is not priced,
which moves select it, its workload) as one constant record, so that the
lemmas about calculators and records need no state.

### The scan (`PersistenceScanProofs`, `SumLemmas`)

For every archive, whichever windows are missing, incomplete or late, every sketch within
its error bounds, any measurements, contributors and producers, and all options, from
`ScanAssumption`:

| Theorem | Says |
|---|---|
| `FindingsAreTrue` | `Spec => []FindingsTrue` |
| `PersistenceIsExact` | `Spec => []PersistenceExact` |
| `QuietIsNoHole` | `Spec => []QuietIsCovered` |
| `ScanTypes` | `Spec => []TypeOK` |

`ScanInv` has a case for each outcome: nothing read yet, no baseline, or judging. `ClosedOK`:
the closed frames are those of all windows that ended by now, in order; it rests on
`NthIs` and `NthOnto`, that the number of windows up to a window numbers them. In the
last case there is a baseline without holes, and `StreaksOK` says how long each candidate has
been there: at least k windows exactly if it is found in the last k, none of them before the
lookback. `WindowsOK` says that each entry of the report is what its window and the streaks
up to it give. `NoGap` then turns places into windows, which is how
both `PersistenceExact` and `QuietIsCovered` follow. That a streak can reach the
persistence asked for in the first recent window is `PlacesAre`: with a baseline
before it, the lookback is never cut short.

`FindingsTrue` needs no history: `CandidatesHold` shows it of every candidate, from what
each bound encloses (`UpperHolds`, `MostHolds`, where a contributor the sketch
dropped weighs at most the offset) and from the exact comparison of shares by cross
multiplication (`SharesTrue`). For tool errors it also needs that the statistics are
numbers at all (`SignalIs`: a median, a largest value exist). The quoted percentages
and medians decide which candidates are reported, never whether they are true.

### The Langfuse directory (`LangfuseProofs`, `SumLemmas`)

For every directory, names, contents, limits and periods, and every write, rename and
removal by other programs, however many, from `LangfuseAssumption`:

| Theorem | Says |
|---|---|
| `LoadIsSnapshot` | `Spec => []SnapshotOfOneDirectory` |
| `VolumeIsCovered` | `Spec => []VolumeOnlyIfCovered` |
| `LimitsAreExact` | `Spec => []LoadLimitsExact` |

`LangfuseInvariant` is the inductive invariant. The difficulty is that a change makes
what was read worthless although the loader goes on and cannot know.

* `WalkInv` says what an inventory knows while it is taken and after: a name whose stamp is
  still the one noted is as it was described, and a directory whose stamp is still the
  one noted has exactly the names that were listed in it. So if no noted stamp has
  changed (`Good`), the inventory is the directory. A name that comes and goes
  changes the stamp of its directory, which is why directories are compared too.
* `LoadInv` is the account of what was read, under the hypothesis `Good`: manifests are
  those of the directory; rows, counters, windows and listed files are what the
  entries read so far (`Done`) say of the directory (`RowsAgree`, `CountsAgree`,
  `WindowsAgree`, `FilesAgree`); the open file is the one of the inventory. A stamp
  only grows, so `Good` never becomes true again.
* `EndInv` is the second inventory: either the account is settled for the directory at its
  beginning (`Settled`), or some noted stamp is out of date and the second inventory will
  find a later one (`Spoiled`). Equal inventories exclude the second case.
* `MergedAgree` and `RowsTaken` are the merge: the rows kept have one row per key, and the
  same keys and fingerprints as all rows of the sound files read, whatever their order.
  `ReachCovers` is the coverage: each moment before `Reach` is in some window, since
  otherwise the latest end up to that moment would be a place to stop.
* `StableDirectoryLoaded` is inductive next to these: each reason to stop would need
  something the unchanged directory does not have. Names and bytes walked are a part of
  what is there (`WalkFits`), and rows kept so far are a part of those that `Loadable`
  counts (`RowFits`, `FileFits`).

### Only model-checked

* Liveness (`Terminates`, `Converges`), which is outside the prover's reach.

## 5. Not modelled

* Parsing and framing (CSV, JSON, compression), the reader's byte budget, column
  rules; of the Langfuse readers only what becomes of a row.
* Repricing of summaries (cohorts with input extrema), price overrides, and the
  syntax of configuration files.
* Pairwise comparison of summaries, top-k projection and provenance, except
  `RankCandidates`; the aliases and the 4096-candidate display limit of the scan.
* Writers that restore a modification time; changes above the export's directories.
* Inspection and diagnosis: counters over one pass of a file and their wording.
* Flag parsing and report formatting.
* Sketches and summary encodings, which come from a library.

## 6. Plan

1. Pairwise comparison and provenance; repricing of summaries.
2. The reader: byte budget, framing and row limit as an implementation of
   `SpendFile`.
