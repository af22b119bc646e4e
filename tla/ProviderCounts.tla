---------------------------- MODULE ProviderCounts ----------------------------
(***************************************************************************)
(* Daily counts beside the export: LiteLLM's own daily counters            *)
(* (internal/spend/row_coverage.go) and the provider's aggregate counts,   *)
(* with the map from logged to provider models and the contract under      *)
(* which the counts were retrieved (internal/spend/provider_counts.go).    *)
(***************************************************************************)
EXTENDS SpendRows

CONSTANT MaxProviderRows

CountLines == [day: Nat, model: STRING \X STRING, requests: Nat \cup {-1}, input: Nat \cup {-1}, output: Nat \cup {-1}]
MapLines == [source: STRING \X STRING, target: STRING \X STRING, exact: (STRING \X STRING) \cup {NoId}]

ASSUME ProviderAssumption ==
    /\ MaxProviderRows \in Nat \ {0}
    /\ \A o \in OptionSet : o.command = "investigate" /\ o.provider # NoId =>
          o.provider.counts \in Seq(CountLines) /\ o.provider.map \in Seq(MapLines)

VARIABLES
    exported, \* exported[day]: records of the day, for the daily counters
    mapping,  \* the models of the map file and their targets
    targets,  \* the provider models of the counts file
    entries,  \* entries[<<day, model, mapped>>]: counts and measurements
    order     \* the keys of the entries, as they were made

providerVars == <<exported, mapping, targets, entries, order>>

DayOf(t) == t \div Day
DaysOf(p) == DayOf(p.start)..DayOf(p.end - 1)
Days == DaysOf(opts.periods[1]) \cup DaysOf(opts.periods[2])
InPeriods(t) == \E s \in Sides : Inside(opts.periods[s], t)
Counting == opts.provider # NoId
Contract == opts.provider.contract
NoEntry == [sent |-> NoId, rows |-> 0, failed |-> 0, unclear |-> 0, input |-> 0, output |-> 0,
            noInput |-> FALSE, noOutput |-> FALSE]

ProviderInit == /\ exported = [d \in {} |-> 0] /\ mapping = [x \in {} |-> x]
                /\ targets = {} /\ entries = [x \in {} |-> x] /\ order = <<>>
-----------------------------------------------------------------------------
(* newCoverage and newProviderCoverage.                                    *)

ValidContract(c) ==
    /\ c.start < c.end /\ c.start % Day = 0 /\ c.end % Day = 0
    /\ c.end <= c.retrieved /\ c.retrieved <= Now
    /\ ~(c.basis = "tokens_only" /\ c.unitsMatch)
    /\ \A s \in Sides : c.start <= opts.periods[s].start /\ opts.periods[s].end <= c.end

\* A line of the counts file: one of its numbers is there, and its day lies
\* in the contract.
ValidCounts(line) ==
    /\ \E f \in {"requests", "input", "output"} : line[f] # -1
    /\ Contract # NoId => /\ Contract.basis = "tokens_only" => line.requests = -1
                          /\ Contract.start < (line.day + 1) * Day /\ (line.day + 1) * Day <= Contract.end

\* A line of the map file may not contradict the provider's own name.
ValidMapping(line, names) ==
    line.exact # NoId /\ line.exact \in names => line.target = line.exact

Distinct(seq, Key(_)) == \A i, j \in DOMAIN seq : Key(seq[i]) = Key(seq[j]) => i = j

ProviderRefused ==
    LET counts == opts.provider.counts
        lines == opts.provider.map
    IN \/ Contract # NoId /\ ~ValidContract(Contract)
       \/ Len(counts) > MaxProviderRows
       \/ ~Distinct(counts, LAMBDA line : <<line.day, line.model>>)
       \/ \E i \in DOMAIN counts : ~ValidCounts(counts[i])
       \/ ~Distinct(lines, LAMBDA line : line.source)
       \/ \E i \in DOMAIN lines : ~ValidMapping(lines[i], {counts[j].model : j \in DOMAIN counts})

\* The daily counters are read first, then contract, counts and map.
LoadCounts ==
    /\ exported' = IF opts.daily = NoId THEN exported ELSE [d \in Days |-> 0]
    /\ IF ~Counting THEN UNCHANGED <<mapping, targets, entries, order>>
       ELSE LET counts == opts.provider.counts
                lines == opts.provider.map
                Key(i) == <<counts[i].day, counts[i].model, TRUE>>
                Line(d, model) == CHOOSE i \in DOMAIN counts : counts[i].day = d /\ counts[i].model = model
            IN /\ targets' = {counts[i].model : i \in DOMAIN counts}
               /\ mapping' = [src \in {lines[i].source : i \in DOMAIN lines} |->
                                 lines[CHOOSE i \in DOMAIN lines : lines[i].source = src].target]
               /\ entries' = [key \in {Key(i) : i \in DOMAIN counts} |->
                                 [NoEntry EXCEPT !.sent = counts[Line(key[1], key[2])]]]
               /\ order' = [i \in DOMAIN counts |-> Key(i)]
-----------------------------------------------------------------------------
(* coverageBuilder.add and providerBuilder.add: any record of a period,    *)
(* whatever its call type.                                                 *)

Source(row) == <<row.vendor, row.model>>

\* The map first, then the provider's own name; otherwise it is unmapped.
KeyOf(row) ==
    IF Source(row) \in DOMAIN mapping THEN <<DayOf(row.t), mapping[Source(row)], TRUE>>
    ELSE IF row.exact # NoId /\ row.exact \in targets THEN <<DayOf(row.t), row.exact, TRUE>>
    ELSE <<DayOf(row.t), Source(row), FALSE>>

Entry(key) == IF key \in DOMAIN entries THEN entries[key] ELSE NoEntry

ProviderRefuses(row) ==
    /\ Counting
    /\ \/ KeyOf(row) \notin DOMAIN entries /\ Cardinality(DOMAIN entries) = MaxProviderRows
       \/ Entry(KeyOf(row)).input + Usable(row.input) > MaxCount
       \/ Entry(KeyOf(row)).output + Usable(row.output) > MaxCount

\* Mutant: only supported call types are counted.
CountRowElsewhere(row) ==
    /\ exported' = IF opts.daily = NoId \/ ~Supported(row) THEN exported
                   ELSE [exported EXCEPT ![DayOf(row.t)] = @ + 1]
    /\ UNCHANGED <<mapping, targets, entries, order>>
CountRow(row) ==
    /\ exported' = IF opts.daily = NoId THEN exported ELSE [exported EXCEPT ![DayOf(row.t)] = @ + 1]
    /\ entries' = IF ~Counting THEN entries
                  ELSE [key \in DOMAIN entries \cup {KeyOf(row)} |->
                          IF key # KeyOf(row) THEN entries[key]
                          ELSE LET e == Entry(key) IN
                               [e EXCEPT !.rows = @ + 1,
                                         !.failed = @ + One(row.status = "failure"),
                                         !.unclear = @ + One(row.status = "unknown"),
                                         !.input = @ + Usable(row.input), !.noInput = @ \/ row.input = -1,
                                         !.output = @ + Usable(row.output), !.noOutput = @ \/ row.output = -1]]
    /\ order' = IF ~Counting \/ KeyOf(row) \in DOMAIN entries THEN order ELSE Append(order, KeyOf(row))
    /\ UNCHANGED <<mapping, targets>>
-----------------------------------------------------------------------------
(* result.                                                                 *)

Complete(d) == \E s \in Sides : opts.periods[s].start <= d * Day /\ (d + 1) * Day <= opts.periods[s].end

\* Settled days end before today, and long enough before the retrieval.
DayStatus(d) ==
    IF ~Complete(d) THEN "partial_day"
    ELSE IF (d + 1) * Day > DayOf(Now) * Day THEN "unsettled_day"
    ELSE IF Contract # NoId /\ (d + 1) * Day + Contract.margin > Contract.retrieved THEN "unsettled_day"
    ELSE "complete_day"

Population ==
    IF Contract = NoId THEN "population_unverified"
    ELSE IF ~Contract.paginated THEN "provider_export_incomplete"
    ELSE IF Contract.population = "mismatch" THEN "population_mismatch"
    ELSE IF Contract.population = "unverified" THEN "population_unverified"
    ELSE "matched"

KeysOf(d) == {key \in DOMAIN entries : key[1] = d}
LoggedOn(d) == LET Rows(key) == entries[key].rows IN Total(Rows, KeysOf(d))
UnmappedOn(d) == LET Rows(key) == entries[key].rows IN Total(Rows, {key \in KeysOf(d) : ~key[3]})

Sent(key, f) == IF entries[key].sent = NoId THEN -1 ELSE entries[key].sent[f]

\* The request difference of a model, NoId where none is reported.
RequestDifference(key) ==
    IF \/ Sent(key, "requests") = -1 \/ DayStatus(key[1]) # "complete_day"
       \/ Population \in {"population_mismatch", "provider_export_incomplete"}
    THEN NoId ELSE Sent(key, "requests") - entries[key].rows

\* A day with unmapped records compares nothing.
Comparable(key) ==
    /\ DayStatus(key[1]) = "complete_day" /\ Population = "matched" /\ Contract.unitsMatch
    /\ RequestDifference(key) # NoId
    /\ UnmappedOn(key[1]) = 0

TokenDifference(key, f) ==
    IF \/ DayStatus(key[1]) # "complete_day" \/ Population # "matched" \/ ~Contract.tokensMatch
       \/ UnmappedOn(key[1]) # 0 \/ Sent(key, f) = -1
       \/ (IF f = "input" THEN entries[key].noInput ELSE entries[key].noOutput)
    THEN NoId ELSE Sent(key, f) - entries[key][f]

\* Mutant: models without a count add nothing.
AnyProviderRequests(d) ==
    LET Number(key) == Usable(Sent(key, "requests"))
    IN IF KeysOf(d) = {} THEN -1 ELSE Total(Number, KeysOf(d))

\* The day's provider requests, -1 unless every model of the day has them.
ProviderRequests(d) ==
    LET Number(key) == Sent(key, "requests")
    IN IF KeysOf(d) = {} \/ \E key \in KeysOf(d) : ~key[3] \/ Number(key) = -1 THEN -1
       ELSE Total(Number, KeysOf(d))

\* Sums are bounded as they grow, until a model of the day has no count.
ProviderOverflows(d) ==
    LET Upto(n) == {i \in 1..n : order[i][1] = d}
        Number(i) == Sent(order[i], "requests")
    IN \E n \in DOMAIN order : /\ \A i \in Upto(n) : order[i][3] /\ Number(i) # -1
                              /\ Total(Number, Upto(n)) > MaxCount

\* CoverageDay.Status, and the rows the daily counters have and the export has not.
CoverageStatus(d) ==
    IF ~Complete(d) THEN "partial_day"
    ELSE IF d \notin DOMAIN opts.daily THEN "daily_counts_missing"
    ELSE IF exported[d] > opts.daily[d] THEN "excess_rows"
    ELSE IF exported[d] = opts.daily[d] THEN "matched" ELSE "missing_rows"

\* LiteLLMTablesAgreeProviderDiffers.
ProviderDiffers(d) ==
    /\ DayStatus(d) = "complete_day" /\ Population = "matched" /\ Contract.unitsMatch
    /\ opts.daily # NoId /\ d \in DOMAIN opts.daily /\ LoggedOn(d) = opts.daily[d]
    /\ ProviderRequests(d) \notin {-1, LoggedOn(d)}
-----------------------------------------------------------------------------
(* The records themselves, by day.                                         *)

LoggedRows(d) == {i \in DOMAIN rows : InPeriods(rows[i].t) /\ DayOf(rows[i].t) = d}
ProviderLines(d) == {i \in DOMAIN opts.provider.counts : opts.provider.counts[i].day = d}
Reporting == opts.command = "investigate" /\ pc \in {"rows", "ok"}

\* Every record of a period is counted on its day, by the daily counters and
\* by the provider counts alike, mapped or not, supported or not; statuses
\* and token sums of the entries are those of their records.
DaysHoldEveryRow ==
    Reporting =>
      \A d \in Days :
        /\ opts.daily # NoId => exported[d] = Cardinality(LoggedRows(d))
        /\ Counting =>
             /\ LoggedOn(d) = Cardinality(LoggedRows(d))
             /\ \A key \in KeysOf(d) :
                  LET mine == {i \in LoggedRows(d) : KeyOf(rows[i]) = key}
                      In(i) == Usable(rows[i].input)
                  IN /\ entries[key].rows = Cardinality(mine)
                     /\ entries[key].input = Total(In, mine)
                     /\ entries[key].noInput = (\E i \in mine : rows[i].input = -1)

\* A comparison is made only when nothing else can explain it: the whole day
\* was read, no record of it lacks a provider model, and the difference is
\* that of the provider's line and the records of that model. The day-level
\* verdict that the provider differs from two agreeing LiteLLM tables rests
\* on every line and every record of the day.
ComparisonsExact ==
    Reporting /\ Counting =>
      \A d \in Days :
        /\ \A key \in KeysOf(d) : Comparable(key) =>
             /\ \A i \in LoggedRows(d) : KeyOf(rows[i])[3]
             /\ \E i \in ProviderLines(d) :
                  /\ opts.provider.counts[i].model = key[2]
                  /\ RequestDifference(key) = opts.provider.counts[i].requests
                                              - Count(LoggedRows(d), LAMBDA j : KeyOf(rows[j])[2] = key[2])
        /\ ProviderDiffers(d) =>
             LET Number(i) == opts.provider.counts[i].requests IN
             /\ \A t \in d * Day..(d + 1) * Day - 1 : InPeriods(t)
             /\ \A i \in LoggedRows(d) : \E j \in ProviderLines(d) :
                   KeyOf(rows[i]) = <<d, opts.provider.counts[j].model, TRUE>>
             /\ Total(Number, ProviderLines(d)) # Cardinality(LoggedRows(d))
=============================================================================
