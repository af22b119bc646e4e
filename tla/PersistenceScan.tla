--------------------------- MODULE PersistenceScan ---------------------------
(***************************************************************************)
(* Scan (internal/compare/scan.go, scan_signals.go): closed windows of a   *)
(* summary archive are judged against a fixed baseline of preceding        *)
(* windows, one after the other, and a finding is reported once it has     *)
(* persisted. Shares are percentages and statistics integers in units of   *)
(* 1/40000, so that medians, deviations and 1.4826 stay exact.             *)
(***************************************************************************)
EXTENDS Integers, Sequences, FiniteSets, FiniteSetsExt, Functions, SequencesExt

CONSTANTS
    Keys,         \* hashes of contributors
    Rankings,     \* Rankings[m]: what measurement m ranks
    Frames,       \* the windows' contents explored
    Series,       \* archives: sequences of frames, with None where one is missing
    OptionSet,    \* scan options explored, with the reference time
    None,
    Expected,     \* --expected producers
    MinBaseline,  \* minScanBaseline
    MaxWork       \* maxScanComparisons

Measurements == DOMAIN Rankings

\* docs: the snapshots of the window. A counter of -1 is absent. A sketch has
\* a total, per-key counters, and an offset that bounds what they may lack;
\* truth is the weights it summarises, which Scan never sees.
Sketches == [count: [Keys -> Nat], offset: Nat, truth: [Keys -> Nat]]
FrameFields == [docs: SUBSET [producer: Expected, emitted: Nat, partial: BOOLEAN],
                requests: Nat \cup {-1}, missing: Nat \cup {-1}, tokens: Nat \cup {-1},
                sketch: [Measurements -> Sketches \cup {None}]]

Total(s) == SumFunctionOnSet(s.truth, Keys)

\* Shares are whole percentages.
WholeShares(s) == Total(s) > 0 => 100 % Total(s) = 0

\* The frequent-items contract.
Encloses(s) == \A key \in Keys : s.count[key] <= s.truth[key] /\ s.truth[key] <= s.count[key] + s.offset

\* ScanOptions; thresholds are percentages, but for z and minAttempts.
OptionFields == [baseline: Nat, recent: Nat \ {0}, persist: Nat \ {0}, top: Nat, minAttempts: Nat \ {0},
                 z: Nat, relative: Nat, floor: Nat, shareChange: Nat, coverage: Nat, now: Nat, maxAge: Nat]

ASSUME ScanAssumption ==
    /\ OptionSet \subseteq OptionFields
    /\ IsFiniteSet(Measurements) /\ IsFiniteSet(Keys)
    /\ \A m \in Measurements : /\ Rankings[m] \in [errors: BOOLEAN, tokens: BOOLEAN, leader: BOOLEAN]
                             /\ ~(Rankings[m].errors /\ Rankings[m].leader)
    /\ \A f \in Frames : /\ f \in FrameFields /\ f.docs # {} /\ IsFiniteSet(f.docs)
                         /\ \A m \in Measurements : f.sketch[m] # None =>
                              Encloses(f.sketch[m]) /\ (Rankings[m].errors \/ WholeShares(f.sketch[m]))
                         /\ f.requests > 0 => (100 * f.missing) % f.requests = 0 /\ f.tokens % f.requests = 0
    /\ Series \subseteq Seq(Frames \cup {None}) /\ Keys \subseteq Nat
    /\ MinBaseline \in Nat \ {0} /\ MaxWork \in Nat

VARIABLES
    opts,     \* the options: baseline, recent, persist, top, thresholds, now, maxAge
    archive,  \* what the archive holds, window after window
    pc,       \* ready, check, done or error
    closed,   \* the frames that ended by now, oldest first
    status,   \* ScanReport.Status
    i,        \* the closed window to judge next
    streaks,  \* how often each candidate was seen in a row
    work,     \* comparisons so far
    windows   \* the judged windows of the report

vars == <<opts, archive, pc, closed, status, i, streaks, work, windows>>

Init ==
    /\ opts \in OptionSet /\ archive \in Series
    /\ pc = "ready" /\ closed = <<>> /\ status = "evaluated" /\ i = 0
    /\ streaks = <<>> /\ work = 0 /\ windows = <<>>
-----------------------------------------------------------------------------
(* scanFrames: one frame for each window that has snapshots.               *)

Starts == {w \in DOMAIN archive : archive[w] # None}
Frame(w) ==
    LET f == archive[w]
    IN [start |-> w, end |-> w + 1, data |-> f,
        complete |-> {d.producer : d \in f.docs} = Expected /\ \A d \in f.docs : ~d.partial,
        emitted |-> Max({d.emitted : d \in f.docs})]

\* The x-th oldest of a set of windows.
Nth(ws, x) == CHOOSE w \in ws : Cardinality({v \in ws : v <= w}) = x

ClosedFrames ==
    LET ws == {w \in Starts : w + 1 <= opts.now}
    IN [x \in 1..Cardinality(ws) |-> Frame(Nth(ws, x))]
-----------------------------------------------------------------------------
(* The baseline.                                                           *)

Larger(a, b) == IF a > b THEN a ELSE b
RecentStart(n) == Larger(0, n - opts.recent) + 1
CheckStart(n) == Larger(0, RecentStart(n) - 1 - opts.persist + 1) + 1
BaselineStart(n) == Larger(0, CheckStart(n) - 1 - opts.baseline) + 1
Base == SubSeq(closed, BaselineStart(Len(closed)), CheckStart(Len(closed)) - 1)

\* Mutant: windows are counted, not looked at.
ProblemCounting(fs) == CheckStart(Len(fs)) - BaselineStart(Len(fs)) < MinBaseline

\* What stands in the way of a judgment.
Problem(fs) ==
    LET n == Len(fs)
        first == BaselineStart(n)
    IN \/ CheckStart(n) - first < MinBaseline
       \/ opts.now - fs[n].end > opts.maxAge
       \/ \E x \in first..n : \/ fs[x].emitted > opts.now
                              \/ x > first /\ fs[x - 1].end # fs[x].start
                              \/ x < CheckStart(n) /\ ~fs[x].complete

NotReady(f) == [start |-> f.start, status |-> "not_ready", findings |-> {}, pending |-> 0, omitted |-> 0]

Start ==
    /\ pc = "ready"
    /\ closed' = ClosedFrames
    /\ LET n == Len(closed')
       IN IF closed' = <<>> \/ Problem(closed')
          THEN /\ pc' = "done" /\ status' = "not_ready"
               /\ windows' = [x \in 1..(n - RecentStart(n) + 1) |-> NotReady(closed'[RecentStart(n) - 1 + x])]
               /\ UNCHANGED i
          ELSE pc' = "check" /\ i' = CheckStart(n) /\ UNCHANGED <<status, windows>>
    /\ UNCHANGED <<opts, archive, streaks, work>>
-----------------------------------------------------------------------------
(* baselineSignal. The scale floor is one attempt, one token, one error or *)
(* one percent.                                                            *)

Abs(x) == IF x < 0 THEN -x ELSE x
Upto(values, x) == Cardinality({y \in DOMAIN values : values[y] <= x})

\* The k-th smallest value.
Ranked(values, k) == Min({x \in ToSet(values) : Upto(values, x) >= k})

\* Twice the median.
Median2(values) ==
    LET n == Len(values) IN Ranked(values, (n + 1) \div 2) + Ranked(values, n \div 2 + 1)

Signal(values, minimum) ==
    LET m2 == Median2(values)
        mad4 == Median2([x \in DOMAIN values |-> Abs(2 * values[x] - m2)])
        scale == Larger(14826 * mad4, 40000)
        change == Max({opts.z * scale, opts.relative * 200 * m2, 40000 * minimum})
    IN [median |-> 20000 * m2, change |-> change, threshold |-> 20000 * m2 + change, upper |-> Max(ToSet(values))]

\* scalarValue; None when it cannot be told.
Scalar(f, name) ==
    LET n == f.data.requests
        known == f.data.missing # -1 /\ f.data.missing <= n /\ n >= opts.minAttempts
    IN IF n = -1 THEN None
       ELSE IF name = "attempt_volume" THEN n
       ELSE IF ~known THEN None
       ELSE IF name = "missing_usage_share" THEN (100 * f.data.missing) \div n
       ELSE IF f.data.tokens = -1 \/ f.data.missing # 0 THEN None
       ELSE f.data.tokens \div n

\* The direction of a scalar signal, "limited" when it cannot be judged.
Direction(f, name) ==
    LET now == Scalar(f, name)
        history == [x \in DOMAIN Base |-> Scalar(Base[x], name)]
        share == name = "missing_usage_share"
        s == Signal(history, IF share THEN opts.coverage ELSE 0)
    IN IF now = None \/ None \in ToSet(history) THEN "limited"
       ELSE IF /\ name = "attempt_volume" /\ now < opts.minAttempts
               /\ s.median < 40000 * opts.minAttempts THEN "limited"
       ELSE IF ~share /\ s.median - 40000 * now >= s.change THEN "down"
       ELSE IF 40000 * now - s.median >= s.change THEN "up" ELSE "quiet"

Scalars == {"missing_usage_share", "attempt_volume", "tokens_per_attempt"}
Scalar1(name, direction) == [signal |-> name, of |-> None, key |-> 0, direction |-> direction]
ScalarFindings(f) == {Scalar1(x[1], x[2]) : x \in {y \in Scalars \X {"up", "down"} : Direction(f, y[1]) = y[2]}}
-----------------------------------------------------------------------------
(* Contributors.                                                           *)

Items(s) == {key \in Keys : s.count[key] > 0}
Smaller(a, b) == IF a < b THEN a ELSE b

\* Mutant: a key the baseline did not retain counts as absent from it.
UpperRetained(s, key) == Smaller(Total(s), IF s.count[key] > 0 THEN s.count[key] + s.offset ELSE 0)

\* UpperBoundHash, within the total: also a key that was not retained may
\* weigh as much as the offset.
Upper(s, key) == Smaller(Total(s), s.count[key] + s.offset)

\* scanFrame.upperBounds: the most any key may weigh.
MostOf(s) == Max({Smaller(Total(s), s.offset)} \cup {Upper(s, key) : key \in Items(s)})

\* The item of the largest lower bound, the smallest hash among equals.
Leader(s) == CHOOSE key \in Items(s) : \A other \in Items(s) :
                s.count[other] < s.count[key] \/ (s.count[other] = s.count[key] /\ key <= other)

Usable(f, m) ==
    \A w \in ToSet(Base) \cup {f} :
        /\ w.data.sketch[m] # None
        /\ ~Rankings[m].errors => w.data.requests >= opts.minAttempts /\ Total(w.data.sketch[m]) > 0
        /\ Rankings[m].tokens => Scalar(w, "tokens_per_attempt") # None

Percent(x, s) == (100 * x) \div Total(s)

\* shareStrictlyAbove, exact.
AboveFloor(x, s) == 100 * x > opts.floor * Total(s)

\* A share above every baseline share, bound[b], and above the threshold.
ShareClears(s, m, x, bound) ==
    LET signal == Signal([y \in DOMAIN Base |-> Percent(bound[Base[y]], Base[y].data.sketch[m])], opts.shareChange)
    IN /\ \A b \in ToSet(Base) : x * Total(b.data.sketch[m]) > bound[b] * Total(s)
       /\ 40000 * 100 * x > Max({signal.threshold, 40000 * signal.upper, 40000 * opts.floor}) * Total(s)
       /\ AboveFloor(x, s)

ErrorClears(s, m, key) ==
    LET signal == Signal([y \in DOMAIN Base |-> Upper(Base[y].data.sketch[m], key)], 10)
    IN 40000 * s.count[key] > Larger(signal.threshold, 40000 * signal.upper)

Prominent(s, m, key) ==
    IF Rankings[m].errors THEN ErrorClears(s, m, key)
    ELSE /\ \A b \in ToSet(Base) : 100 * Upper(b.data.sketch[m], key) < opts.floor * Total(b.data.sketch[m])
         /\ ShareClears(s, m, s.count[key], [b \in ToSet(Base) |-> Upper(b.data.sketch[m], key)])

ItemFindings(f, m) ==
    LET s == f.data.sketch[m]
        name == IF Rankings[m].errors THEN "tool_error_surge" ELSE "newly_prominent"
        new == {key \in Items(s) : Prominent(s, m, key)}
        top == {key \in Items(s) : /\ Rankings[m].leader /\ key = Leader(s)
                                   /\ ShareClears(s, m, s.count[key], [b \in ToSet(Base) |-> MostOf(b.data.sketch[m])])}
    IN {[signal |-> name, of |-> m, key |-> key, direction |-> "up"] : key \in new}
       \cup {[signal |-> "top_share", of |-> m, key |-> key, direction |-> "up"] : key \in top \ new}

\* scanSignals.
Candidates(f) == ScalarFindings(f) \cup UNION {ItemFindings(f, m) : m \in {m \in Measurements : Usable(f, m)}}

Limited(f) == \/ \E name \in Scalars : Direction(f, name) = "limited"
              \/ \E m \in Measurements : f.data.sketch[m] # None /\ ~Usable(f, m)

WorkOf(f) == SumFunctionOnSet([m \in Measurements |-> IF Usable(f, m) THEN Cardinality(Items(f.data.sketch[m])) * Len(Base)
                                                       ELSE 0], Measurements)

\* Mutant: the budget is for each window.
OverBudgetEach(spent) == spent - work > MaxWork

OverBudget(spent) == spent > MaxWork
-----------------------------------------------------------------------------
(* One window after the other.                                             *)

Seen(finding) == IF finding \in DOMAIN streaks THEN streaks[finding] ELSE 0

\* Mutant: a candidate that was away for a window keeps its streak.
NextStreaksKept(found) == [c \in found \cup DOMAIN streaks |-> Seen(c) + IF c \in found THEN 1 ELSE 0]

NextStreaks(found) == [c \in found |-> Seen(c) + 1]

\* findings: all that persisted. The report shows the first opts.top of them
\* and counts the others as omitted. Windows before the recent ones only
\* start streaks: their status goes nowhere.
CheckWindow ==
    LET f == closed[i]
        found == IF f.complete THEN Candidates(f) ELSE {}
        lasting == {c \in found : NextStreaks(found)[c] >= opts.persist}
        verdict == IF ~f.complete THEN "incomplete" ELSE IF Limited(f) THEN "limited" ELSE "evaluated"
        judged == [start |-> f.start, status |-> verdict, findings |-> lasting,
                   pending |-> Cardinality(found \ lasting),
                   omitted |-> Larger(0, Cardinality(lasting) - opts.top)]
        spent == IF f.complete THEN work + WorkOf(f) ELSE work
    IN /\ pc = "check" /\ i <= Len(closed)
       /\ IF OverBudget(spent) THEN pc' = "error" /\ UNCHANGED <<status, i, streaks, work, windows>>
          ELSE /\ streaks' = NextStreaks(found) /\ work' = spent /\ i' = i + 1 /\ pc' = pc
               /\ IF i < RecentStart(Len(closed)) THEN UNCHANGED <<status, windows>>
                  ELSE /\ windows' = Append(windows, judged)
                       /\ status' = IF verdict # "evaluated" THEN "limited" ELSE status
       /\ UNCHANGED <<opts, archive, closed>>

Finish ==
    /\ pc = "check" /\ i > Len(closed)
    /\ pc' = "done"
    /\ UNCHANGED <<opts, archive, closed, status, i, streaks, work, windows>>

Next == Start \/ CheckWindow \/ Finish

Spec == Init /\ [][Next]_vars
-----------------------------------------------------------------------------
\* The exit code of the command.
ExitCode == IF pc = "error" THEN 1
            ELSE IF \E x \in DOMAIN windows : windows[x].findings # {} THEN 3
            ELSE IF status # "evaluated" THEN 4 ELSE 0

Findings == [signal: Scalars \cup {"newly_prominent", "top_share", "tool_error_surge"},
             of: Measurements \cup {None}, key: Keys \cup {0}, direction: {"up", "down"}]

\* The types of the variables; all comparisons of a scan together stay within
\* their budget, and no streak is longer than the windows judged.
TypeOK ==
    /\ opts \in OptionSet /\ archive \in Series /\ pc \in {"ready", "check", "done", "error"}
    /\ status \in {"evaluated", "limited", "not_ready"} /\ work \in 0..MaxWork
    /\ DOMAIN streaks \subseteq Findings /\ \A c \in DOMAIN streaks : streaks[c] \in 1..(opts.persist + opts.recent)
    /\ \A x \in DOMAIN windows : windows[x].findings \subseteq Findings
    /\ i \in 0..(Len(closed) + 1) /\ Len(windows) <= opts.recent

WindowOf(w) == Frame(w.start)

\* A contributor is reported only for what it really did. Whatever the
\* sketches dropped, its true share is above the floor and above what it, or
\* for a leader anybody, had in any baseline window; tool errors likewise.
FindingsTrue ==
    pc = "done" => \A x \in DOMAIN windows : \A c \in windows[x].findings : c.of # None =>
        LET s == WindowOf(windows[x]).data.sketch[c.of]
            true == s.truth[c.key]
        IN \A b \in ToSet(Base) :
              LET t == b.data.sketch[c.of]
              IN IF Rankings[c.of].errors THEN true > t.truth[c.key]
                 ELSE /\ 100 * true > opts.floor * Total(s)
                      /\ true * Total(t) > t.truth[c.key] * Total(s)
                      /\ c.signal = "top_share" =>
                            \A key \in Keys : true * Total(t) > t.truth[key] * Total(s)

\* A reported finding was there in as many windows as asked, one right after
\* the other, all of them complete and none of them part of the baseline; and
\* a candidate with such a streak is never left out.
PersistenceExact ==
    pc = "done" => \A x \in DOMAIN windows : windows[x].status # "not_ready" =>
        LET last == windows[x].start
            run == (last - opts.persist + 1)..last
            unusual == [w \in run |-> IF w \in Starts /\ Frame(w).complete /\ Frame(w) \notin ToSet(Base)
                                      THEN Candidates(Frame(w)) ELSE {}]
        IN windows[x].findings = {c \in unusual[last] : \A w \in run : c \in unusual[w]}

\* A quiet answer is never given over a hole: baseline and judged windows
\* follow each other without a gap up to the last one due, nothing was
\* emitted later than now, and both baseline and judged windows are complete.
QuietIsCovered ==
    pc = "done" /\ ExitCode = 0 =>
        LET first == closed[BaselineStart(Len(closed))].start
            last == closed[Len(closed)].start
        IN /\ first..last \subseteq Starts /\ last - first + 1 >= MinBaseline + 1
           /\ \A w \in Starts : w + 1 <= opts.now => w <= last
           /\ opts.now - (last + 1) <= opts.maxAge
           /\ \A b \in ToSet(Base) : b.complete
           /\ \A x \in DOMAIN windows : Frame(windows[x].start).complete
           /\ \A w \in first..last : \A d \in archive[w].docs : d.emitted <= opts.now

\* docs/SCAN.md: missing producers produce an explicit unavailable result,
\* and history that prevents a quiet verdict is exit 4, not 0. A window of
\* the persistence lookback without all its producers prevents one.
QuietHistoryComplete ==
    pc = "done" /\ ExitCode = 0 =>
        \A x \in BaselineStart(Len(closed))..Len(closed) : closed[x].complete
=============================================================================
