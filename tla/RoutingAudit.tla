----------------------------- MODULE RoutingAudit -----------------------------
(***************************************************************************)
(* The routing audit of internal/spend/routing.go, and the scope of        *)
(* selection.go: which fields the records of each call type carry, how the *)
(* requests of each original route (and agent) were spread over selected   *)
(* models, and what the bounded display leaves out. Routes, agents, models,*)
(* cohorts and cells are held in full, up to limits that refuse the file.  *)
(***************************************************************************)
EXTENDS SpendRows

CONSTANTS MaxRoutes, MaxRoutingAgents, MaxRoutingModels, MaxCohorts, MaxCells

ASSUME RoutingAssumption ==
    /\ {MaxRoutes, MaxRoutingAgents, MaxRoutingModels, MaxCohorts, MaxCells} \subseteq Nat
    /\ \A o \in OptionSet : o.command = "investigate" =>
          o.audit \in BOOLEAN /\ o.scope \in {NoId} \cup [kind: {"route", "agent"}, id: {Canon[v] : v \in DOMAIN Canon}]

Fields == {"agent", "route", "fallbacks", "model", "deployment", "origin"}
CallTypes == {"chat", "pass", "other"}  \* unfamiliar types are one, "unknown"
Kinds == {"route", "agent", "model"}
Limit == [route |-> MaxRoutes, agent |-> MaxRoutingAgents, model |-> MaxRoutingModels]

VARIABLES
    fields,  \* fields[type][side][field][state]: RoutingCoverage
    scoped,  \* scoped[side]: matched, nonmatching and unknown records
    ids,     \* ids[kind]: known identities in order of appearance
    labels,  \* labels[kind][id]: the one spelling shown for it, "" if aliased
    totals,  \* all supported records
    raw,     \* raw[class][side]: classifier overhead and other records
    cohorts, cells

auditVars == <<fields, scoped, ids, labels, totals, raw, cohorts, cells>>

Empty == [x \in {} |-> x]

AuditInit ==
    /\ fields = [y \in CallTypes \cup {"all"} |-> [s \in Sides |-> [f \in Fields |-> [z \in States |-> 0]]]]
    /\ scoped = [s \in Sides |-> [matched |-> 0, nonmatching |-> 0, unknown |-> 0]]
    /\ ids = [k \in Kinds |-> <<>>] /\ labels = [k \in Kinds |-> Empty]
    /\ totals = Zero /\ cohorts = Empty /\ cells = Empty
    /\ raw = [c \in {"overhead", "other"} |-> [s \in Sides |-> [requests |-> 0, spend |-> 0, costless |-> 0]]]
-----------------------------------------------------------------------------
(* observe: every record of a period, before the scope selects.            *)

FieldState(row, f) ==
    CASE f = "fallbacks" -> IF row.fallback \in {"zero", "positive"} THEN "known" ELSE row.fallback
      [] OTHER -> TextState(row[f])

Seen(part, row, s) ==
    [part EXCEPT ![s] = [f \in Fields |-> [z \in States |-> @[f][z] + One(z = FieldState(row, f))]]]

\* scopeSelection.match: matched, nonmatching (a known other), or unknown.
Match(row) ==
    IF opts.scope = NoId THEN "matched"
    ELSE LET id == Identity(row[opts.scope.kind])
         IN IF id = NoId THEN "unknown" ELSE IF id = opts.scope.id THEN "matched" ELSE "nonmatching"

Observed == opts.audit \/ opts.scope # NoId

\* Mutant: only matched records are observed.
ObserveMatched(row, s) ==
    IF Observed /\ Match(row) = "matched"
    THEN /\ fields' = [y \in DOMAIN fields |->
                          IF y \in {"all", row.type} THEN Seen(fields[y], row, s) ELSE fields[y]]
         /\ scoped' = IF opts.scope = NoId THEN scoped ELSE [scoped EXCEPT ![s].matched = @ + 1]
    ELSE UNCHANGED <<fields, scoped>>
Observe(row, s) ==
    IF Observed
    THEN /\ fields' = [y \in DOMAIN fields |->
                          IF y \in {"all", row.type} THEN Seen(fields[y], row, s) ELSE fields[y]]
         /\ scoped' = IF opts.scope = NoId THEN scoped ELSE [scoped EXCEPT ![s][Match(row)] = @ + 1]
    ELSE UNCHANGED <<fields, scoped>>
-----------------------------------------------------------------------------
(* add: a matched record.                                                  *)

Overhead(row) == row.type = "pass" /\ row.origin = "autorouter_classifier"

\* The identities of a record; agents only when they are part of a cohort.
IdOf(row, kind) ==
    CASE kind = "route" -> Identity(row.route)
      [] kind = "agent" -> IF opts.by = "route-agent" THEN Identity(row.agent) ELSE NoId
      [] OTHER -> Selected(row)

CohortOf(row) == <<IdOf(row, "route"), IdOf(row, "agent")>>
CellOf(row) == <<IdOf(row, "route"), IdOf(row, "agent"), IdOf(row, "model")>>

Registered(kind, id) == id = NoId \/ \E i \in DOMAIN ids[kind] : ids[kind][i] = id
\* Mutant: the last place of a register is never used.
FullEarly(kind, id) == ~Registered(kind, id) /\ Len(ids[kind]) + 1 >= Limit[kind]
\* Mutant: a register takes one identity too many.
FullLate(kind, id) == ~Registered(kind, id) /\ Len(ids[kind]) > Limit[kind]
\* routingRegister.
Full(kind, id) == ~Registered(kind, id) /\ Len(ids[kind]) >= Limit[kind]

AuditRefuses(row, s) ==
    /\ opts.audit /\ Supported(row)
    /\ \/ \E kind \in Kinds : Full(kind, IdOf(row, kind))
       \/ CohortOf(row) \notin DOMAIN cohorts /\ Cardinality(DOMAIN cohorts) >= MaxCohorts
       \/ CellOf(row) \notin DOMAIN cells /\ Cardinality(DOMAIN cells) >= MaxCells
       \/ Overflows(totals, s, row)

ShowLabels == opts.labels /\ opts.agentSource = NoId

\* Mutant: a name that was withdrawn comes back with the next record.
RelearnLabel(f, id, v) ==
    IF id = NoId THEN f
    ELSE [x \in DOMAIN f \cup {id} |->
            IF x # id THEN f[x] ELSE IF id \in DOMAIN f /\ f[id] \notin {v, ""} THEN "" ELSE v]

\* routingRememberLabel: a second spelling aliases an identity for good.
RememberLabel(f, id, v) ==
    IF id = NoId THEN f
    ELSE [x \in DOMAIN f \cup {id} |->
            IF x # id THEN f[x] ELSE IF id \in DOMAIN f /\ f[id] # v THEN "" ELSE v]

AddRaw(row, s) ==
    /\ raw' = [raw EXCEPT ![IF Overhead(row) THEN "overhead" ELSE "other"][s] =
                   [requests |-> @.requests + 1, spend |-> @.spend + Usable(row.cost),
                    costless |-> @.costless + One(row.cost = -1)]]
    /\ UNCHANGED <<ids, labels, totals, cohorts, cells>>

AddCell(row, s) ==
    /\ ids' = [kind \in Kinds |-> IF Registered(kind, IdOf(row, kind)) THEN ids[kind]
                                  ELSE Append(ids[kind], IdOf(row, kind))]
    /\ labels' = [kind \in Kinds |->
                     IF kind # "model" /\ ~ShowLabels THEN labels[kind]
                     ELSE RememberLabel(labels[kind], IdOf(row, kind),
                                        IF kind = "model" THEN row.public ELSE row[kind])]
    /\ totals' = Plus(totals, s, Worth(row))
    /\ cohorts' = Credit(cohorts, CohortOf(row), Len(rows) + 1, s, Worth(row))
    /\ cells' = Credit(cells, CellOf(row), Len(rows) + 1, s, Worth(row))
    /\ UNCHANGED raw

AuditAdd(row, s) ==
    IF ~opts.audit THEN UNCHANGED <<ids, labels, totals, raw, cohorts, cells>>
    ELSE IF Supported(row) THEN AddCell(row, s) ELSE AddRaw(row, s)
-----------------------------------------------------------------------------
(* result: cohorts by requests, then by first record; the rest is summed.  *)

Ahead(a, b) == Requests(a) > Requests(b) \/ (Requests(a) = Requests(b) /\ a.first < b.first)
Rank(f, S, x) == Cardinality({y \in S : Ahead(f[y], f[x])})

Cohort(k) == <<k[1], k[2]>>
CellsOf(c) == {k \in DOMAIN cells : Cohort(k) = c}

ShownCohorts == {c \in DOMAIN cohorts : Rank(cohorts, DOMAIN cohorts, c) < opts.top}
ShownCells == {k \in DOMAIN cells : /\ Cohort(k) \in ShownCohorts
                                    /\ Rank(cells, CellsOf(Cohort(k)), k) < opts.top}

\* Mutant: hidden cells of shown cohorts are left out.
RemainderOfCohorts(s, m) ==
    SumOf(cohorts, DOMAIN cohorts \ ShownCohorts, s, m)

\* Hidden cohorts whole, and the hidden cells of the cohorts that are shown.
Remainder(s, m) ==
    SumOf(cohorts, DOMAIN cohorts \ ShownCohorts, s, m)
    + SumOf(cells, {k \in DOMAIN cells \ ShownCells : Cohort(k) \in ShownCohorts}, s, m)

\* The name a model is shown by: its public name, with the alias when another
\* model has the same one; the alias alone when it has none.
Alias(kind, id) == IF id = NoId THEN 0 ELSE CHOOSE i \in DOMAIN ids[kind] : ids[kind][i] = id
Public(id) == IF id \in DOMAIN labels.model THEN labels.model[id] ELSE ""
Item(id) ==
    IF Public(id) = "" THEN <<"", Alias("model", id)>>
    ELSE IF \E other \in DOMAIN labels.model \ {id} : labels.model[other] = Public(id)
    THEN <<Public(id), Alias("model", id)>>
    ELSE <<Public(id), -1>>
-----------------------------------------------------------------------------
(* The records themselves.                                                 *)

Auditing == opts.command = "investigate" /\ opts.audit /\ pc \in {"rows", "ok"}
SideOf(t) == IF Inside(opts.periods[1], t) THEN 1 ELSE IF Inside(opts.periods[2], t) THEN 2 ELSE 0
InSide(s) == {i \in DOMAIN rows : SideOf(rows[i].t) = s}
Audited == {i \in InSide(1) \cup InSide(2) : Match(rows[i]) = "matched" /\ Supported(rows[i])}

\* Nothing is lost or counted twice by the display: in each period and for
\* each measure, the model cells shown and the remainder add up to all model
\* records, which are those of the export.
RemainderCloses ==
    Auditing => \A s \in Sides, m \in Measures :
        LET Mine(i) == Worth(rows[i])[m] IN
        /\ SumOf(cells, ShownCells, s, m) + Remainder(s, m) = totals[s][m]
        /\ totals[s][m] = Total(Mine, Audited \cap InSide(s))

\* A public model name is shown only for a model all of whose records carry
\* it, and never for two models without telling them apart; a route or agent
\* label only if it is the one spelling of that identity.
LabelsFaithful ==
    Auditing =>
      /\ \A k1, k2 \in ShownCells : k1[3] # k2[3] => Item(k1[3]) # Item(k2[3])
      /\ \A kind \in Kinds : \A id \in DOMAIN labels[kind] : labels[kind][id] # "" =>
           \A i \in Audited : IdOf(rows[i], kind) = id =>
              labels[kind][id] = (IF kind = "model" THEN rows[i].public ELSE rows[i][kind])

\* The records of a period are told apart by field state, call type and scope
\* without a rest: each state of each field, each call type and each outcome
\* of the scope counts them once; those in scope are the model records, the
\* classifier overhead and the others.
EveryRowClassified ==
    opts.command = "investigate" /\ Observed /\ pc \in {"rows", "ok"} =>
      \A s \in Sides :
        LET n == Cardinality(InSide(s))
            OfType(y) == fields[y][s]["route"]["known"] IN
        /\ \A f \in Fields : LET OfState(z) == fields["all"][s][f][z] IN Total(OfState, States) = n
        /\ Total(OfType, CallTypes) = fields["all"][s]["route"]["known"]
        /\ opts.scope # NoId => scoped[s].matched + scoped[s].nonmatching + scoped[s].unknown = n
        /\ opts.audit => totals[s]["requests"] + raw["overhead"][s].requests + raw["other"][s].requests
                         = (IF opts.scope = NoId THEN n ELSE scoped[s].matched)
=============================================================================
