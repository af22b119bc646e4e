-------------------------- MODULE SpendInvestigation --------------------------
(***************************************************************************)
(* investigate (internal/spend/investigate.go): two equal periods of a     *)
(* spend export are compared. Without explicit periods a first pass finds  *)
(* the observed span; the main pass accumulates windows, models and the    *)
(* bounded rankings of identities; a last pass, only when the rankings     *)
(* have candidates, finds the record each candidate came from first.       *)
(* Digests tie the passes to one content of a file that may change.        *)
(***************************************************************************)
EXTENDS SpendFile, FiniteSets, FiniteSetsExt, SequencesExt

CONSTANTS
    Groups,       \* identities of the chosen --group-by kind
    Models,       \* raw model names
    Supported,    \* call types that operation() knows
    NoId,         \* an absent field
    Day, Week,    \* a UTC day and the length of an automatic period, in ticks
    Now,          \* opts.Now
    OptionSet,    \* the options explored
    SketchSize,   \* identities a frequent-items sketch keeps
    MaxModels,    \* spend.MaxModels
    MaxCallTypes, \* the limit of recordCallType
    MaxCount      \* math.MaxInt64

BadTime == -1
Sides == {1, 2}                    \* before, after
Rankings == {"tokens", "uncached"} \* aggregate.top and aggregate.cacheTop

\* The fields of a record the investigation looks at. "whole": both primary
\* token counts are present. uncached: -1 unless input and cache reads are
\* valid. public: what reprice.PublicModelID makes of the raw names. route:
\* the original model group, NoId when it is not known.
RowFields ==
    [id: Nat, t: {BadTime} \cup Nat, type: STRING, end: {"absent", "valid", "wrong"},
     group: Groups \cup {NoId}, model: Models, public: {NoId} \cup STRING, route: {NoId} \cup STRING,
     tokens: Nat, whole: BOOLEAN, uncached: Nat \cup {-1}]

\* periods: the two given periods, or NoId for automatic ones; source: the
\* records come from a row adapter (Langfuse), which may share model aliases.
OptionFields == [periods: {NoId} \cup [Sides -> [start: Nat, end: Nat]], scope: {NoId} \cup STRING,
                 source: BOOLEAN, aliases: BOOLEAN, top: Nat \ {0}]

\* The two aggregates of a model, its first record and its label.
ModelTypes == [sides: [Sides -> [requests: Nat, tokens: 0..MaxCount]], order: 1..MaxRows,
               label: {NoId} \cup STRING]

ASSUME InvestigationAssumption ==
    /\ \A row \in Rows : row \in RowFields /\ row.uncached <= row.tokens
    /\ \A o \in OptionSet : /\ o \in OptionFields
                            /\ o.scope # NoId => o.periods # NoId /\ ~o.source
                            /\ o.aliases => o.source
    /\ Day \in Nat \ {0} /\ Week \in Nat \ {0} /\ Now \in Nat
    /\ SketchSize \in Nat \ {0} /\ MaxModels \in Nat /\ MaxCallTypes \in Nat /\ MaxCount \in Nat
    /\ IsFiniteSet(Groups) /\ IsFiniteSet(Models) /\ NoId \notin Groups /\ NoId \notin Nat
    /\ NoId \notin [Sides -> [start: Nat, end: Nat]] /\ NoId \notin ModelTypes

VARIABLES
    opts,      \* the options
    pc,        \* span, main, order, ok, gap (nothing analyzable) or error
    read0, read1, read2,  \* the records each pass has encoded into its digest
    periods,   \* the two selected periods
    tally,     \* Rows, OutsidePeriods, ExcludedRows and unmatched records
    incomplete,\* Report.Incomplete
    callTypes, \* call types seen by recordCallType, in order of appearance
    windows,   \* windows[side]: requests, tokens and AttributedTokens
    sketch,    \* sketch[r][side]: the frequent-items sketch of a ranking
    models,    \* models[m]: its two aggregates, its first record, its label
    owner,     \* modelGroups: the first identity seen with a model
    split,     \* splitModels: models seen with several identities
    order,     \* order[g]: the first record of candidate g
    usedBy     \* candidateModels and ambiguousModels: models of candidate g

repVars == <<tally, incomplete, callTypes, windows, sketch, models, owner, split>>
vars == <<fileVars, opts, pc, read0, read1, read2, periods, repVars, order, usedBy>>

EmptySketch == [count |-> [g \in Groups |-> 0], offset |-> 0]
NoTokens == [requests |-> 0, tokens |-> 0]

Init ==
    /\ FileInit /\ opts \in OptionSet
    /\ pc = (IF opts.periods = NoId THEN "span" ELSE "main")
    /\ read0 = <<>> /\ read1 = <<>> /\ read2 = <<>>
    /\ periods = opts.periods
    /\ tally = [rows |-> 0, outside |-> 0, excluded |-> 0, unmatched |-> 0]
    /\ incomplete = FALSE /\ callTypes = <<>>
    /\ windows = [s \in Sides |-> [requests |-> 0, tokens |-> 0, attributed |-> 0]]
    /\ sketch = [r \in Rankings |-> [s \in Sides |-> EmptySketch]]
    /\ models = [m \in Models |-> NoId]
    /\ owner = [m \in Models |-> NoId] /\ split = {}
    /\ order = [g \in Groups |-> 0] /\ usedBy = [g \in Groups |-> {}]
-----------------------------------------------------------------------------
(* selectPeriods.                                                          *)

In(p, t) == p.start <= t /\ t < p.end

FloorDay(t) == (t \div Day) * Day
CeilDay(t) == IF FloorDay(t) = t THEN t ELSE FloorDay(t) + Day
Smaller(a, b) == IF a < b THEN a ELSE b
Earliest(rows) == Min({rows[i].t : i \in DOMAIN rows})
Latest(rows) == Max({rows[i].t : i \in DOMAIN rows})

\* The two weeks that end with the last complete day; NoId when the interior
\* days of the observed span are too few.
AutomaticPeriods(rows) ==
    LET end == Smaller(FloorDay(Latest(rows)), FloorDay(Now))
    IN IF end - CeilDay(Earliest(rows)) < 2 * Week THEN NoId
       ELSE [s \in Sides |-> IF s = 1 THEN [start |-> end - 2 * Week, end |-> end - Week]
                             ELSE [start |-> end - Week, end |-> end]]

\* Given periods are as long as each other, in order, and over.
ValidPeriods(p) ==
    /\ p[1].start < p[1].end /\ p[2].start < p[2].end
    /\ p[1].end <= p[2].start /\ p[1].end - p[1].start = p[2].end - p[2].start
    /\ p[2].end <= Now

SelectPeriods(rows) ==
    IF opts.periods # NoId THEN (IF ValidPeriods(opts.periods) THEN opts.periods ELSE NoId)
    ELSE IF rows = <<>> THEN NoId ELSE AutomaticPeriods(rows)
-----------------------------------------------------------------------------
(* The first pass.                                                         *)

Passing == pc \in {"span", "main", "order"}

Stop(verdict) == /\ pc' = verdict /\ CloseFile
                 /\ UNCHANGED <<opts, read0, read1, read2, periods, repVars, order, usedBy>>

\* Given periods are looked at before the file is opened.
Open ==
    /\ Passing
    /\ IF pc = "main" /\ SelectPeriods(read0) = NoId
       THEN fd = "closed" /\ Stop("error")
       ELSE OpenFile /\ UNCHANGED <<opts, pc, read0, read1, read2, periods, repVars, order, usedBy>>

ReadFails == Passing /\ Unreadable /\ Stop("error")

Visiting(pass) == pc = pass /\ HasRow /\ ~Unreadable

VisitSpan ==
    /\ Visiting("span")
    /\ IF NextRow.t = BadTime THEN Stop("error")
       ELSE /\ read0' = Append(read0, NextRow) /\ Advance
            /\ UNCHANGED <<opts, pc, read1, read2, periods, repVars, order, usedBy>>

EndSpan ==
    /\ pc = "span" /\ AtEnd
    /\ IF SelectPeriods(read0) = NoId THEN Stop("error")
       ELSE /\ periods' = SelectPeriods(read0) /\ pc' = "main" /\ CloseFile
            /\ UNCHANGED <<opts, read0, read1, read2, repVars, order, usedBy>>
-----------------------------------------------------------------------------
(* The main pass.                                                          *)

\* 0 when the record is in neither period.
Side(row) == IF In(periods[1], row.t) THEN 1 ELSE IF In(periods[2], row.t) THEN 2 ELSE 0
IsSupported(row) == row.type \in Supported

\* scopeSelection.match.
Matched(row) == opts.scope = NoId \/ row.route = opts.scope

Analysed(row) == Side(row) # 0 /\ Matched(row) /\ IsSupported(row)

Known == {m \in Models : models[m] # NoId}

\* Records that cannot be read as a request. The end time is validated in the
\* periods whether or not the scope matches.
Invalid(row) ==
    \/ row.id = 0 \/ row.t = BadTime
    \/ Side(row) # 0 /\ IsSupported(row) /\ row.end = "wrong"

TooManyTypes(row) == /\ Side(row) # 0 /\ Matched(row)
                     /\ row.type \notin Range(callTypes) /\ Len(callTypes) = MaxCallTypes

TooManyTokens(row) == Analysed(row) /\ windows[Side(row)].tokens + row.tokens > MaxCount

\* Mutant: the model that exceeds the limit is let through.
TooManyModelsLate(row) == Analysed(row) /\ models[row.model] = NoId /\ Cardinality(Known) > MaxModels

\* Mutant: the limit is tested before the model is looked up.
TooManyModelsAny(row) == Analysed(row) /\ Cardinality(Known) >= MaxModels

TooManyModels(row) == Analysed(row) /\ models[row.model] = NoId /\ Cardinality(Known) >= MaxModels

\* Records that end the investigation; the limits count matched records.
Refused(row) == Invalid(row) \/ TooManyTypes(row) \/ TooManyTokens(row) \/ TooManyModels(row)

\* What a ranking adds for a record; NoId when the record does not take part.
Weight(r, row) ==
    IF row.group = NoId THEN NoId
    ELSE IF r = "tokens" THEN (IF row.whole THEN row.tokens ELSE NoId)
    ELSE IF row.uncached >= 0 THEN row.uncached ELSE NoId

Tracked(s) == {g \in Groups : s.count[g] > 0}

\* The sketch: exact counters, and when there are too many, some amount is
\* taken from all of them, the ones that reach zero are dropped, and the
\* amount is added to the error bound.
Added(s, g, w) == [count |-> [s.count EXCEPT ![g] = @ + w], offset |-> s.offset]
Purged(s, c) == [count |-> [h \in Groups |-> IF s.count[h] > c THEN s.count[h] - c ELSE 0],
                 offset |-> s.offset + c]
AddHash(s, g, w) ==
    LET added == Added(s, g, w)
    IN IF Cardinality(Tracked(added)) <= SketchSize THEN {added}
       ELSE {Purged(added, c) : c \in {added.count[h] : h \in Tracked(added)}}

NextSketches(row) ==
    {f \in [Rankings -> UNION {AddHash(sketch[r][Side(row)], row.group, Weight(r, row)) :
                                  r \in {x \in Rankings : Weight(x, row) # NoId}}
                        \cup {sketch[r][Side(row)] : r \in Rankings}] :
        \A r \in Rankings : f[r] \in IF Weight(r, row) = NoId THEN {sketch[r][Side(row)]}
                                     ELSE AddHash(sketch[r][Side(row)], row.group, Weight(r, row))}

\* Mutant: the label of the last record wins.
LabelAfterLast(label, row) == row.public

\* Records of one model that disagree keep it private for good.
LabelAfter(label, row) == IF label = row.public THEN label ELSE NoId

\* Mutant: the record that introduces a model is not added to it.
ModelAfterFirst(row) ==
    LET known == models[row.model]
    IN IF known = NoId THEN [sides |-> [s \in Sides |-> NoTokens], order |-> pos + 1, label |-> row.public]
       ELSE [known EXCEPT !.label = LabelAfter(@, row),
                          !.sides[Side(row)] = [requests |-> @.requests + 1, tokens |-> @.tokens + row.tokens]]

ModelAfter(row) ==
    LET known == models[row.model]
        m == IF known = NoId THEN [sides |-> [s \in Sides |-> NoTokens], order |-> pos + 1, label |-> row.public]
             ELSE [known EXCEPT !.label = LabelAfter(@, row)]
    IN [m EXCEPT !.sides[Side(row)] = [requests |-> @.requests + 1, tokens |-> @.tokens + row.tokens]]

\* Mutant: a model counts as split only while its last record disagrees.
SplitAfterLast(row) == IF owner[row.model] \in {NoId, row.group} THEN split \ {row.model}
                       ELSE split \cup {row.model}

SplitAfter(row) == IF owner[row.model] \in {NoId, row.group} THEN split ELSE split \cup {row.model}

\* aggregate.add, the rankings and the model's own aggregate.
Analyse(row) ==
    LET side == Side(row) weight == Weight("tokens", row)
    IN /\ windows' = [windows EXCEPT ![side] =
                        [requests |-> @.requests + 1, tokens |-> @.tokens + row.tokens,
                         attributed |-> @.attributed + IF weight = NoId THEN 0 ELSE weight]]
       /\ \E next \in NextSketches(row) :
             sketch' = [r \in Rankings |-> [sketch[r] EXCEPT ![side] = next[r]]]
       /\ models' = [models EXCEPT ![row.model] = ModelAfter(row)]
       /\ IF opts.aliases /\ row.group # NoId
          THEN /\ split' = SplitAfter(row)
               /\ owner' = [owner EXCEPT ![row.model] = IF @ = NoId THEN row.group ELSE @]
          ELSE UNCHANGED <<split, owner>>

VisitMain ==
    LET row == NextRow
        n(b) == IF b THEN 1 ELSE 0
        inside == Side(row) # 0
        counted == inside /\ Matched(row)
    IN /\ Visiting("main")
       /\ IF Refused(row) THEN Stop("error")
          ELSE /\ read1' = Append(read1, row) /\ Advance
               /\ tally' = [rows |-> tally.rows + 1, outside |-> tally.outside + n(~inside),
                            excluded |-> tally.excluded + n(~IsSupported(row)),
                            unmatched |-> tally.unmatched + n(inside /\ ~Matched(row))]
               /\ incomplete' = (incomplete \/ (counted /\ ~IsSupported(row)))
               /\ callTypes' = IF counted /\ row.type \notin Range(callTypes)
                               THEN Append(callTypes, row.type) ELSE callTypes
               /\ IF Analysed(row) THEN Analyse(row) ELSE UNCHANGED <<windows, sketch, models, owner, split>>
               /\ UNCHANGED <<opts, pc, read0, read2, periods, order, usedBy>>

Duplicated(rows) == \E i, j \in DOMAIN rows : i # j /\ rows[i].id = rows[j].id

Requests == windows[1].requests + windows[2].requests

\* RankCandidates asks both sketches for everything they track. The cache
\* ranking is dropped unless both periods have a covered record.
Covered(s) == \E i \in DOMAIN read1 : /\ Analysed(read1[i]) /\ Side(read1[i]) = s
                                      /\ read1[i].uncached >= 0
Ranked(r) == r = "tokens" \/ \A s \in Sides : Covered(s)
Candidates(r) == IF Ranked(r) THEN Tracked(sketch[r][1]) \cup Tracked(sketch[r][2]) ELSE {}
AllCandidates == Candidates("tokens") \cup Candidates("uncached")

\* Mutant: the periods of the first pass are trusted.
SpanChangedNever == FALSE

\* Only automatic periods have a first digest to compare with.
SpanChanged == opts.periods = NoId /\ read0 # read1

EndMain ==
    /\ pc = "main" /\ AtEnd
    /\ IF Duplicated(read1) \/ SpanChanged THEN Stop("error")
       ELSE IF Requests = 0
            THEN IF opts.scope # NoId \/ opts.source
                 THEN /\ incomplete' = TRUE /\ pc' = "gap" /\ CloseFile
                      /\ UNCHANGED <<opts, read0, read1, read2, periods, tally, callTypes, windows,
                                     sketch, models, owner, split, order, usedBy>>
                 ELSE Stop("error")
            ELSE Stop(IF AllCandidates = {} THEN "ok" ELSE "order")
-----------------------------------------------------------------------------
(* orderCandidatesRead.                                                    *)

VisitOrder ==
    LET row == NextRow
        mine == row.t # BadTime /\ Analysed(row) /\ row.group \in AllCandidates
    IN /\ Visiting("order")
       /\ IF row.t = BadTime THEN Stop("error")
          ELSE /\ read2' = Append(read2, row) /\ Advance
               /\ order' = IF mine /\ order[row.group] = 0
                           THEN [order EXCEPT ![row.group] = pos + 1] ELSE order
               /\ usedBy' = IF mine /\ opts.aliases
                            THEN [usedBy EXCEPT ![row.group] = @ \cup {row.model}] ELSE usedBy
               /\ UNCHANGED <<opts, pc, read0, read1, periods, repVars>>

\* Mutant: the last pass is trusted.
SameAgainAlways == TRUE

SameAgain == read2 = read1

EndOrder ==
    /\ pc = "order" /\ AtEnd
    /\ Stop(IF SameAgain THEN "ok" ELSE "error")

Investigation ==
    \/ Open \/ ReadFails \/ VisitSpan \/ EndSpan \/ VisitMain \/ EndMain \/ VisitOrder \/ EndOrder

\* A row adapter replays a snapshot it holds in memory; only a path can change.
Next ==
    \/ Investigation
    \/ ~opts.source /\ Writer /\ UNCHANGED <<opts, pc, read0, read1, read2, periods, repVars, order, usedBy>>

Spec == Init /\ [][Next]_vars
-----------------------------------------------------------------------------
(* The report.                                                             *)

LowerBound(r, s, g) == sketch[r][s].count[g]
UpperBound(r, s, g) == sketch[r][s].count[g] + sketch[r][s].offset

\* Mutant: the endpoints are subtracted like numbers.
DeltaNaive(r, g) == [lower |-> LowerBound(r, 2, g) - LowerBound(r, 1, g),
                     upper |-> UpperBound(r, 2, g) - UpperBound(r, 1, g)]

\* Mover.Delta.
Delta(r, g) == [lower |-> LowerBound(r, 2, g) - UpperBound(r, 1, g),
                upper |-> UpperBound(r, 2, g) - LowerBound(r, 1, g)]

UntrackedDelta(r) == [lower |-> -sketch[r][1].offset, upper |-> sketch[r][2].offset]

Strength(r, g) == IF r = "uncached" THEN Delta(r, g).lower
                  ELSE Max({Delta(r, g).upper, -Delta(r, g).lower})

\* By strength, then by first appearance.
Ahead(r, a, b) == \/ Strength(r, a) > Strength(r, b)
                  \/ Strength(r, a) = Strength(r, b) /\ order[a] < order[b]

\* Falling cache candidates are left out, and the rest is cut at --top.
Kept(r) == {g \in Candidates(r) : r = "uncached" => Delta(r, g).upper > 0}
Place(r, K, g) == Cardinality({h \in K : Ahead(r, h, g)}) + 1
Movers(r) == {g \in Kept(r) : Place(r, Kept(r), g) <= opts.top}

\* increase is only reported for a complete file whose tokens grew.
HasIncrease == ~incomplete /\ windows[2].tokens > windows[1].tokens

\* The up to two candidates of increase. Candidates with equal lower bounds
\* may be taken in any order.
Leaders ==
    LET rising == {g \in Candidates("tokens") : Delta("tokens", g).lower > 0}
    IN {S \in SUBSET rising :
          /\ Cardinality(S) = Smaller(2, Cardinality(rising))
          /\ \A g \in S, h \in rising \ S : Delta("tokens", g).lower >= Delta("tokens", h).lower}

\* increase: the share of the increase that S explains, over after - before.
IncreaseOf(S) ==
    [lower |-> SumFunctionOnSet([g \in S |-> Delta("tokens", g).lower], S),
     upper |-> Smaller(SumFunctionOnSet([g \in S |-> Delta("tokens", g).upper], S), windows[2].tokens)]

\* Models by change, then by first record.
Change(m) == models[m].sides[2].tokens - models[m].sides[1].tokens
MovedMore(a, b) == \/ Change(a) > Change(b)
                   \/ Change(a) = Change(b) /\ models[a].order < models[b].order
Position(m) == Cardinality({x \in Known : MovedMore(x, m)}) + 1

\* Mutant: a public name is shown as it is.
ItemPlain(m) == IF models[m].label = NoId THEN <<"model", Position(m)>> ELSE <<"public", models[m].label>>

\* A public name that several models share is told apart by the position.
Item(m) ==
    LET label == models[m].label
        shared == \E x \in Known \ {m} : models[x].label = label
    IN IF label = NoId THEN <<"model", Position(m)>>
       ELSE IF shared THEN <<"public", label, Position(m)>> ELSE <<"public", label>>

\* The shown identities, numbered in the order of the rankings.
Shown == Movers("tokens") \cup Movers("uncached")
Number(g) ==
    LET first == Movers("tokens")
    IN IF g \in first THEN Place("tokens", first, g)
       ELSE Cardinality(first) + Place("uncached", Movers("uncached") \ first, g)

\* An identity seen with one model only is called by that model's name.
OnlyModel(g) == CHOOSE m \in usedBy[g] : TRUE
AliasOf(g) ==
    IF ~opts.aliases \/ Cardinality(usedBy[g]) # 1 THEN <<"group", Number(g)>>
    ELSE IF OnlyModel(g) \in split THEN <<"item", Item(OnlyModel(g)), Number(g)>>
    ELSE <<"item", Item(OnlyModel(g))>>
-----------------------------------------------------------------------------
\* The types of the variables, within the limits of the investigation.
TypeOK ==
    /\ FileTypeOK /\ opts \in OptionSet
    /\ pc \in {"span", "main", "order", "ok", "gap", "error"}
    /\ \A rows \in {read0, read1, read2} : rows \in Seq(Rows) /\ Len(rows) <= MaxRows
    /\ periods \in {NoId} \cup [Sides -> [start: Nat, end: Nat]]
    /\ tally \in [rows: Nat, outside: Nat, excluded: Nat, unmatched: Nat] /\ incomplete \in BOOLEAN
    /\ callTypes \in Seq(STRING) /\ Len(callTypes) <= MaxCallTypes
    /\ windows \in [Sides -> [requests: Nat, tokens: 0..MaxCount, attributed: 0..MaxCount]]
    /\ \A r \in Rankings, s \in Sides :
          /\ sketch[r][s].count \in [Groups -> 0..MaxCount] /\ sketch[r][s].offset \in 0..MaxCount
          /\ Cardinality(Tracked(sketch[r][s])) <= SketchSize
    /\ \A m \in Models : models[m] = NoId \/ models[m] \in ModelTypes
    /\ Cardinality(Known) <= MaxModels
    /\ owner \in [Models -> Groups \cup {NoId}] /\ split \subseteq Models
    /\ order \in [Groups -> 0..MaxRows] /\ usedBy \in [Groups -> SUBSET Models]

\* The analysed records of the main pass: of a model, of an identity, those
\* on one side, and those a ranking counts for an identity.
MineOf(m) == {i \in DOMAIN read1 : Analysed(read1[i]) /\ read1[i].model = m}
OfGroup(g) == {i \in DOMAIN read1 : Analysed(read1[i]) /\ read1[i].group = g}
OnSide(I, s) == {i \in I : Side(read1[i]) = s}
Weighed(r, s, g) == {i \in OnSide(OfGroup(g), s) : Weight(r, read1[i]) # NoId}

TokensOf(rows, I) == SumFunctionOnSet([i \in I |-> rows[i].tokens], I)
WeightOf(r, rows, I) == SumFunctionOnSet([i \in I |-> Weight(r, rows[i])], I)
First(I) == IF I = {} THEN 0 ELSE Min(I)

\* What the records say of model m, in whatever order they come.
DescribedModel(m) ==
    LET mine == MineOf(m)
        labels == {read1[i].public : i \in mine}
    IN IF mine = {} THEN NoId
       ELSE [sides |-> [s \in Sides |-> [requests |-> Cardinality(OnSide(mine, s)),
                                        tokens |-> TokensOf(read1, OnSide(mine, s))]],
             order |-> First(mine),
             label |-> IF \E l \in labels : labels = {l} THEN CHOOSE l \in labels : TRUE ELSE NoId]

\* A report, complete or not, describes one and the same sequence of records:
\* its periods come from the records that were accumulated, each model is
\* what they say (a public name only when all of them agree on it), and each
\* candidate is placed at its own first record, although the file may have
\* changed between and during the passes.
InvestigationOfOneFile ==
    pc \in {"ok", "gap"} =>
        /\ periods = SelectPeriods(read1)
        /\ \A m \in Models : models[m] = DescribedModel(m)
        /\ pc = "ok" => \A g \in AllCandidates : order[g] = First(OfGroup(g))

TrueWeight(r, s, g) == WeightOf(r, read1, Weighed(r, s, g))
TrueDelta(r, g) == TrueWeight(r, 2, g) - TrueWeight(r, 1, g)
Holds(interval, x) == interval.lower <= x /\ x <= interval.upper

\* However the bounded sketches were purged, the real change of every
\* candidate is within its reported interval, that of everyone else within
\* UntrackedDelta, and the real increase of the leaders within the reported
\* one, whichever of equal candidates were taken.
IntervalsHoldTruth ==
    pc = "ok" =>
        /\ \A r \in Rankings, g \in Groups :
              Ranked(r) => Holds(IF g \in Candidates(r) THEN Delta(r, g) ELSE UntrackedDelta(r), TrueDelta(r, g))
        /\ HasIncrease => \A S \in Leaders :
              Holds(IncreaseOf(S), SumFunctionOnSet([g \in S |-> TrueDelta("tokens", g)], S))

\* Records of the scope whose call type is not analysed.
Excluded == {i \in DOMAIN read1 : Side(read1[i]) # 0 /\ Matched(read1[i]) /\ ~IsSupported(read1[i])}

\* No record is lost or counted twice between the windows, the models, the
\* rankings and the excluded records.
Accounted ==
    pc \in {"ok", "gap"} =>
        /\ \A s \in Sides :
              /\ windows[s].tokens = SumFunctionOnSet([m \in Known |-> models[m].sides[s].tokens], Known)
              /\ windows[s].requests = SumFunctionOnSet([m \in Known |-> models[m].sides[s].requests], Known)
              /\ windows[s].attributed = SumFunctionOnSet([g \in Groups |-> TrueWeight("tokens", s, g)], Groups)
              /\ windows[s].attributed <= windows[s].tokens
        /\ tally.rows = tally.outside + tally.unmatched + Requests + Cardinality(Excluded)
        /\ (pc = "ok" /\ ~incomplete) => \A i \in DOMAIN read1 :
              Side(read1[i]) # 0 /\ Matched(read1[i]) => IsSupported(read1[i])

\* No two identities, and no two models, of a report have the same alias,
\* also when identities borrow the names of models they alone use.
AliasesDistinct ==
    pc = "ok" =>
        /\ \A g, h \in Shown : g # h => AliasOf(g) # AliasOf(h)
        /\ \A m, x \in Known : m # x => Item(m) # Item(x)

\* Nothing about the whole file stands in the way of a report.
Reportable(rows) ==
    /\ rows \in Seq(Rows) /\ Len(rows) <= MaxRows
    /\ \A i \in DOMAIN rows : rows[i].t # BadTime /\ rows[i].id # 0
    /\ ~Duplicated(rows)
    /\ SelectPeriods(rows) # NoId
    /\ LET p == SelectPeriods(rows)
           inside == {rows[i] : i \in {i \in DOMAIN rows : \E s \in Sides : In(p[s], rows[i].t)}}
           chosen == {r \in inside : Matched(r)}
           analysed == {r \in chosen : IsSupported(r)}
       IN /\ \A r \in inside : IsSupported(r) => r.end # "wrong"
          /\ analysed # {} \/ opts.scope # NoId \/ opts.source
          /\ Cardinality({r.type : r \in chosen}) <= MaxCallTypes
          /\ Cardinality({r.model : r \in analysed}) <= MaxModels
          /\ \A s \in Sides :
                TokensOf(rows, {i \in DOMAIN rows : rows[i] \in analysed /\ In(p[s], rows[i].t)}) <= MaxCount

\* A file that nobody changes and that is within the limits, up to the very
\* last model, call type and count, is never refused.
StableFileInvestigated == changes = 0 /\ Reportable(file) => pc # "error"

\* The limits hold in both directions: no register, sketch or count outgrows
\* its limit, whatever the file becomes, and no unchanged file that stays
\* within all of them is refused.
InvestigationLimitsExact == TypeOK /\ StableFileInvestigated
=============================================================================
