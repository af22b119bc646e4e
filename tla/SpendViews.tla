----------------------------- MODULE SpendViews -----------------------------
(***************************************************************************)
(* The accounts of one pass together. "investigate" hands every record of  *)
(* a period to the daily and provider counts, then to the routing audit    *)
(* and its scope, and the supported ones in scope to the windows and the   *)
(* agents (internal/spend/investigate.go); "what-if" hands every record to *)
(* the repricing calculator. Any refusal discards the whole report.        *)
(***************************************************************************)
EXTENDS RoutingAudit, AgentAttribution, ProviderCounts, WhatIf

VARIABLES
    windows, \* the windows of the investigation
    outside  \* Report.OutsidePeriods

vars == <<rowVars, auditVars, agentVars, providerVars, whatIfVars, windows, outside>>
accounts == <<auditVars, agentVars, providerVars, windows, outside>>

Investigating == opts.command = "investigate"

Init ==
    /\ opts \in OptionSet /\ rows = <<>>
    /\ pc = IF Investigating THEN "load" ELSE "rows"
    /\ AuditInit /\ AgentInit /\ ProviderInit /\ WhatIfInit
    /\ windows = Zero /\ outside = 0

\* The row that is refused is the last one visited; nothing is reported.
Refuse(row) ==
    /\ pc' = "error" /\ rows' = Append(rows, row)
    /\ UNCHANGED <<opts, accounts, whatIfVars>>

Visit(row) == rows' = Append(rows, row) /\ UNCHANGED <<opts, pc>>
-----------------------------------------------------------------------------
(* investigate.                                                            *)

Load ==
    /\ pc = "load"
    /\ IF Counting /\ ProviderRefused
       THEN pc' = "error" /\ UNCHANGED providerVars
       ELSE pc' = "rows" /\ LoadCounts
    /\ UNCHANGED <<opts, rows, auditVars, agentVars, whatIfVars, windows, outside>>

InScope(row) == ~Observed \/ Match(row) = "matched"

\* The checks of a record in a period, in the order of the callback: provider
\* counts, the end of a supported record (in scope or not), routing, window,
\* agents.
Refused(row, s) ==
    \/ ProviderRefuses(row)
    \/ Supported(row) /\ row.end = "wrong"
    \/ /\ InScope(row)
       /\ \/ AuditRefuses(row, s)
          \/ Supported(row) /\ Overflows(windows, s, row)
          \/ AgentRefuses(row)

Account(row, s) ==
    /\ Visit(row) /\ CountRow(row) /\ Observe(row, s)
    /\ IF InScope(row)
       THEN /\ AuditAdd(row, s) /\ AgentAdd(row, s)
            /\ windows' = IF Supported(row) THEN Plus(windows, s, Worth(row)) ELSE windows
       ELSE UNCHANGED <<ids, labels, totals, raw, cohorts, cells, agentVars, windows>>
    /\ UNCHANGED <<outside, whatIfVars>>

Investigate(row) ==
    /\ Investigating /\ pc = "rows" /\ Len(rows) < MaxStream
    /\ LET s == SideOf(row.t) IN
       IF AgentUnreadable(row) THEN Refuse(row)
       ELSE IF s = 0
       THEN /\ Visit(row) /\ outside' = outside + 1
            /\ UNCHANGED <<auditVars, agentVars, providerVars, whatIfVars, windows>>
       ELSE IF Refused(row, s) THEN Refuse(row) ELSE Account(row, s)

\* Nothing to analyse, and no view of the other records either.
NothingToShow ==
    /\ \A s \in Sides : windows[s]["requests"] = 0
    /\ opts.daily = NoId /\ ~Counting /\ ~Observed

Report ==
    /\ Investigating /\ pc = "rows"
    /\ pc' = IF (Counting /\ \E d \in Days : ProviderOverflows(d)) \/ NothingToShow THEN "error" ELSE "ok"
    /\ UNCHANGED <<opts, rows, accounts, whatIfVars>>
-----------------------------------------------------------------------------
(* what-if.                                                                *)

Price(row) ==
    /\ calc' = Added(calc, row) /\ failures' = AddFailure(row)
    /\ source' = [source EXCEPT !.rows = @ + 1]
    /\ served' = IF Routing THEN [y \in DOMAIN served |-> IF y \in {row.type, "all"}
                                                          THEN Attribute(served[y], row) ELSE served[y]]
                 ELSE served

WhatIfRow(row) ==
    /\ ~Investigating /\ pc = "rows" /\ Len(rows) < MaxStream
    /\ IF ~Inside(opts.period, row.t)
       THEN /\ Visit(row) /\ source' = [source EXCEPT !.outside = @ + 1]
            /\ UNCHANGED <<calc, failures, served, repeated, accounts>>
       ELSE IF (Supported(row) /\ row.end = "wrong") \/ PriceRefuses(row) THEN Refuse(row)
       ELSE /\ Visit(row) /\ Price(row) /\ UNCHANGED <<repeated, accounts>>

\* Duplicates are found when all request ids are known, after the visits.
EndWhatIf ==
    /\ ~Investigating /\ pc = "rows"
    /\ repeated' \in (IF Len(rows) > 1 THEN BOOLEAN ELSE {FALSE})
    /\ pc' = IF repeated' \/ source.rows = 0 THEN "error" ELSE "ok"
    /\ UNCHANGED <<opts, rows, accounts, calc, failures, source, served>>

Done == pc \in {"ok", "error"} /\ UNCHANGED vars

Next == Load \/ (\E row \in opts.explored : Investigate(row) \/ WhatIfRow(row)) \/ Report \/ EndWhatIf \/ Done

Spec == Init /\ [][Next]_vars
-----------------------------------------------------------------------------
\* No register outgrows its limit, registers hold no entry twice, and no sum
\* of tokens leaves the range of a counter (accounting.AddBounded).
TypeOK ==
    /\ opts \in OptionSet /\ pc \in {"load", "rows", "ok", "error"}
    /\ rows \in Seq(Stream) /\ Len(rows) <= MaxStream /\ outside \in 0..MaxStream
    /\ \A kind \in Kinds : Len(ids[kind]) <= Limit[kind] /\ IsInjective(ids[kind])
    /\ Cardinality(DOMAIN cohorts) <= MaxCohorts /\ Cardinality(DOMAIN cells) <= MaxCells
    /\ Cardinality(DOMAIN agents) <= MaxAgents /\ Cardinality(DOMAIN entries) <= MaxProviderRows
    /\ ToSet(order) = DOMAIN entries /\ IsInjective(order)
    /\ \A s \in Sides : windows[s]["tokens"] <= MaxCount /\ totals[s]["tokens"] <= MaxCount
    /\ calc.covered \in 0..MaxStream /\ source.rows \in 0..MaxStream

\* Two accounts of the same records never disagree: with the routing audit or
\* with agents, the windows, the audited routes and the three agent states
\* hold the same requests, tokens, spend and unusable costs in each period.
ViewsAgree ==
    Investigating /\ pc \in {"rows", "ok"} => \A s \in Sides, m \in Measures :
        LET Part(z) == agentSum[z][s][m] IN
        /\ opts.audit => totals[s][m] = windows[s][m]
        /\ Attributing => Total(Part, AgentStates) = windows[s][m]

\* Every account closes: the accounts of the same records agree with each
\* other, and what the display cuts off (hidden cohorts and cells of the routing
\* audit, hidden agents) is summed once and adds up to them.
AccountsClose == ViewsAgree /\ RemainderCloses /\ AgentsClose

\* The counts taken before the scope and the call type exclude a record (field
\* states, scope, daily counters, provider entries) hold every one of a period.
EveryRowObserved == EveryRowClassified /\ DaysHoldEveryRow

\* Every record is priced as if it were alone, or excluded for one reason.
EveryRowPriced == PricedPerRecord /\ EveryRowPlaced

\* No record is wrong in itself, and no sum leaves the range of a counter.
Sound ==
    LET Size(i) == Tokens(rows[i]) IN
    /\ \A i \in DOMAIN rows : rows[i].end # "wrong" /\ ~AgentUnreadable(rows[i])
    /\ Total(Size, DOMAIN rows) <= MaxCount
    /\ Counting => \A d \in Days : ~ProviderOverflows(d)

\* An export is refused for its size if and only if it holds more routes,
\* agents, models, cohorts, cells, known agents or provider entries than the
\* limit, however its records are ordered and whatever they leave unknown.
RefusedIffOverLimit ==
    Investigating /\ pc # "load" /\ rows # <<>> /\ Sound /\ ~NothingToShow =>
      LET visited == {i \in DOMAIN rows : SideOf(rows[i].t) # 0}
          audited == IF opts.audit THEN {i \in visited : Match(rows[i]) = "matched" /\ Supported(rows[i])} ELSE {}
          named == IF Attributing THEN {i \in visited : /\ InScope(rows[i]) /\ Supported(rows[i])
                                                        /\ Resolve(rows[i]).state = "known"} ELSE {}
          keys == IF Counting THEN {KeyOf(rows[i]) : i \in visited} \cup DOMAIN entries ELSE {}
          over == \/ \E kind \in Kinds :
                       Cardinality({IdOf(rows[i], kind) : i \in audited} \ {NoId}) > Limit[kind]
                  \/ Cardinality({CohortOf(rows[i]) : i \in audited}) > MaxCohorts
                  \/ Cardinality({CellOf(rows[i]) : i \in audited}) > MaxCells
                  \/ Cardinality({AgentId(rows[i]) : i \in named}) > MaxAgents
                  \/ Cardinality(keys) > MaxProviderRows
      IN over <=> pc = "error"

\* Limits are exact: nothing beyond one is ever held, and an export is refused
\* exactly when it exceeds one.
LimitsExact == TypeOK /\ RefusedIffOverLimit
=============================================================================
