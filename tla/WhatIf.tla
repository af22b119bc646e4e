-------------------------------- MODULE WhatIf --------------------------------
(***************************************************************************)
(* What-if repricing of a spend export: the reader of                      *)
(* internal/spend/reprice.go makes a record of every row of the period,    *)
(* the Calculator of internal/reprice/calculate.go prices it, adds it to   *)
(* the buckets of the moves that select it, and keeps a second calculator  *)
(* for the failed records among them (failures.go). Amounts are whole      *)
(* numbers: factors in units of 1/Unit, fractions of 1/Parts.              *)
(***************************************************************************)
EXTENDS SpendRows

CONSTANTS
    Prices,  \* Prices[model]: input, output, read, write, tier (0: none)
    Factors, \* Factors[<<from, to, workload>>]: low, mean and high output factor
    Unit, Parts

Workloads == {"qa", "coding"}  \* three in the code; two tell them apart
Parts4 == {"input", "output", "read", "write"}
Issues == {"invalid_usage", "unusable_usage", "missing_split", "unknown_served_identity",
           "unknown_model_price", "outside_price_tier", "unsupported_call_type",
           "missing_scope_identity", "invalid_cache_partition"}

MoveFields == [from: DOMAIN Prices, to: DOMAIN Prices, ratio: 1..Parts, factor: Nat \ {0},
               scope: {NoId} \cup [kind: {"key", "team", "route", "agent"}, id: {Canon[v] : v \in DOMAIN Canon}]]

\* The tokens of a move by workload, "" for none.
Buckets == UNION {[W -> [Parts4 -> Nat]] : W \in SUBSET (Workloads \cup {""})}
Calculators == [covered: Nat, unmapped: Nat, excluded: [Issues -> Nat], baseline: Nat,
                moves: Seq([covered: Nat, excluded: Nat, buckets: Buckets])]

ASSUME WhatIfAssumption ==
    /\ Unit \in Nat \ {0} /\ Parts \in Nat \ {0} /\ NoId \notin Calculators
    /\ \A m \in DOMAIN Prices : Prices[m] \in [input: Nat, output: Nat, read: Nat, write: Nat, tier: Nat]
    /\ \A x \in DOMAIN Factors : /\ x \in (DOMAIN Prices) \X (DOMAIN Prices) \X Workloads
                                 /\ Factors[x] \in [low: Nat, mean: Nat, high: Nat]
                                 /\ Factors[x].low <= Factors[x].mean /\ Factors[x].mean <= Factors[x].high
    /\ \A o \in OptionSet : o.command = "what-if" =>
          /\ o.moves \in Seq(MoveFields) /\ \A i \in DOMAIN o.moves : o.moves[i].from # o.moves[i].to
          /\ \A sel \in DOMAIN o.mapping : o.mapping[sel] \in Workloads

VARIABLES
    calc,      \* the Calculator
    failures,  \* its child for failed records, NoId until there is one
    source,    \* Source.Rows and Source.Outside
    served,    \* served[type]: attribution of the routing reader
    repeated   \* a request id came twice (requestDigests)

whatIfVars == <<calc, failures, source, served, repeated>>

Moves == opts.moves
Routing == \/ \E i \in DOMAIN Moves : Moves[i].scope # NoId /\ Moves[i].scope.kind \in {"route", "agent"}
           \/ \E sel \in DOMAIN opts.mapping : sel[1] \in {"route", "agent"}

NewCalculator(n) ==
    [covered |-> 0, unmapped |-> 0, excluded |-> [x \in Issues |-> 0], baseline |-> 0,
     moves |-> [i \in 1..n |-> [covered |-> 0, excluded |-> 0, buckets |-> [w \in {} |-> w]]]]

Attributes == {"rows", "route", "agent", "model", "deployment", "identity"}

WhatIfInit ==
    /\ calc = IF opts.command = "what-if" THEN NewCalculator(Len(Moves)) ELSE NewCalculator(0)
    /\ failures = NoId /\ source = [rows |-> 0, outside |-> 0] /\ repeated = FALSE
    /\ served = [y \in {"chat", "pass", "other", "all"} |-> [a \in Attributes |-> 0]]
-----------------------------------------------------------------------------
(* readReprice: the record of a row.                                       *)

Missing(r) == r.input = -1 \/ r.output = -1 \/ r.read = -1 \/ r.write = -1

\* Overlapping cache parts make the usage invalid; unsupported rows have none.
Record(row) ==
    LET usage == IF row.issue # "" THEN row.issue
                 ELSE IF row.status = "unknown" \/ row.end = "absent" THEN "unusable_usage" ELSE ""
        r == [model |-> IF row.public # "" THEN row.public ELSE row.model,
              input |-> row.input, output |-> row.output, read |-> row.read, write |-> row.write,
              issue |-> usage]
    IN IF ~Supported(row)
       THEN [r EXCEPT !.input = -1, !.output = -1, !.read = -1, !.write = -1, !.issue = "unsupported_call_type"]
       ELSE IF row.input # -1 /\ row.read # -1 /\ row.write # -1 /\ row.write > row.input - row.read
       THEN [r EXCEPT !.read = -1, !.write = -1, !.issue = "invalid_usage"]
       ELSE r

Attribute(part, row) ==
    [a \in Attributes |-> part[a] +
        CASE a = "rows" -> 1
          [] a = "identity" -> One(SelectedKnown(row))
          [] OTHER -> One(TextState(row[a]) = "known")]
-----------------------------------------------------------------------------
(* Calculator.Add.                                                         *)

Kinds4 == {"key", "team"} \cup (IF Routing THEN {"route", "agent"} ELSE {})

\* A scoped move selects its identity; a row without one may belong to it.
ScopeUnknown(m, row) == m.scope # NoId /\ Identity(row[m.scope.kind]) = NoId
Selects(m, row) == m.scope = NoId \/ Identity(row[m.scope.kind]) = m.scope.id
Indices(row) == {i \in DOMAIN Moves : /\ Moves[i].from = Record(row).model
                                      /\ ScopeUnknown(Moves[i], row) \/ Selects(Moves[i], row)}
UnknownScope(row) == \E i \in Indices(row) : ScopeUnknown(Moves[i], row)

\* Mutant: each move is checked by itself.
OverlapsOne(row) == \E i \in Indices(row) : Moves[i].ratio > Parts

\* Fractions are of the original cohort: together at most all of it.
Overlaps(row) ==
    LET Ratio(i) == Moves[i].ratio
    IN ~UnknownScope(row) /\ Total(Ratio, Indices(row)) > Parts

MappedTo(row) == {opts.mapping[sel] : sel \in
                    {<<kind, Identity(row[kind])>> : kind \in Kinds4} \cap DOMAIN opts.mapping}
Conflicts(row) == Indices(row) # {} /\ Cardinality(MappedTo(row)) > 1
Workload(row) == IF Indices(row) = {} \/ MappedTo(row) = {} THEN "" ELSE CHOOSE w \in MappedTo(row) : TRUE

\* Why a record is not priced, "" if it is; later reasons replace earlier ones.
Issue(row) ==
    LET r == Record(row)
        own == IF r.issue # "" THEN r.issue
               ELSE IF Missing(r) THEN "missing_split"
               ELSE IF Routing /\ ~SelectedKnown(row) THEN "unknown_served_identity" ELSE ""
        priced == r.model \in DOMAIN Prices
    IN IF ~Supported(row) THEN "unsupported_call_type"
       ELSE IF (~Routing \/ own = "") /\ ~priced THEN "unknown_model_price"
       ELSE IF (~Routing \/ own = "") /\ r.input # -1 /\ Prices[r.model].tier > 0
               /\ r.input > Prices[r.model].tier THEN "outside_price_tier"
       ELSE IF own # "" THEN own
       ELSE IF UnknownScope(row) THEN "missing_scope_identity"
       ELSE IF r.read > r.input \/ r.write > r.input - r.read THEN "invalid_cache_partition" ELSE ""

\* A moved record must fit the priced tier of its target.
OutsideTarget(row) ==
    \E i \in Indices(row) : LET tier == Prices[Moves[i].to].tier
                            IN tier > 0 /\ row.input * Moves[i].factor > tier * Unit

Cost(t, model, input, output) ==
    ((t.input - t.read - t.write) * Prices[model].input + t.read * Prices[model].read
     + t.write * Prices[model].write) * input + t.output * Prices[model].output * output

Bucket(m, w) == IF w \in DOMAIN m.buckets THEN m.buckets[w] ELSE [f \in Parts4 |-> 0]
Filled(m, w, row) ==
    [x \in DOMAIN m.buckets \cup {w} |->
        IF x = w THEN [f \in Parts4 |-> Bucket(m, w)[f] + row[f]] ELSE m.buckets[x]]

PriceRefuses(row) ==
    \/ Overlaps(row) \/ Conflicts(row)
    \/ /\ Issue(row) = ""
       /\ \/ OutsideTarget(row)
          \/ \E i \in Indices(row), f \in Parts4 : Bucket(calc.moves[i], Workload(row))[f] + row[f] > MaxCount

\* A move counts a record that is not priced, and takes one that is.
Skips(m) == [m EXCEPT !.excluded = @ + 1]
Takes(m, row) == [m EXCEPT !.covered = @ + 1, !.buckets = Filled(m, Workload(row), row)]

\* Mutant: an excluded record is not counted by its moves.
AddedApart(c, row) ==
    IF Issue(row) # "" THEN [c EXCEPT !.excluded[Issue(row)] = @ + 1]
    ELSE [c EXCEPT !.covered = @ + 1,
                   !.moves = [i \in DOMAIN @ |-> IF i \in Indices(row) THEN Takes(@[i], row) ELSE @[i]]]
Added(c, row) ==
    IF Issue(row) # ""
    THEN [c EXCEPT !.excluded[Issue(row)] = @ + 1,
                   !.moves = [i \in DOMAIN @ |-> IF i \in Indices(row) THEN Skips(@[i]) ELSE @[i]]]
    ELSE [c EXCEPT !.covered = @ + 1,
                   !.baseline = @ + Cost(row, Record(row).model, Unit, Unit),
                   !.unmapped = @ + One(Indices(row) # {} /\ Workload(row) = ""),
                   !.moves = [i \in DOMAIN @ |-> IF i \in Indices(row) THEN Takes(@[i], row) ELSE @[i]]]

\* Mutant: the child takes failed records that were not priced.
AddFailureFirst(row) ==
    IF row.status # "failure" THEN failures
    ELSE Added(IF failures = NoId THEN NewCalculator(Len(Moves)) ELSE failures, row)

\* The child prices a failed record again, once the parent has accepted it.
AddFailure(row) ==
    IF Issue(row) # "" \/ row.status # "failure" THEN failures
    ELSE Added(IF failures = NoId THEN NewCalculator(Len(Moves)) ELSE failures, row)
-----------------------------------------------------------------------------
(* result. Level 1 keeps output tokens; level 2 scales them per workload.  *)

\* What a move costs, at its source and at its target.
Before(c, i) == LET bins == c.moves[i].buckets
                    From(w) == Cost(bins[w], Moves[i].from, Unit, Unit)
                IN Total(From, DOMAIN bins) * Moves[i].ratio

\* Mutant: the input factor of the move is not applied.
After1SameInput(c, i) == LET bins == c.moves[i].buckets
                             To(w) == Cost(bins[w], Moves[i].to, Unit, Unit)
                         IN Total(To, DOMAIN bins) * Moves[i].ratio
After1(c, i) == LET bins == c.moves[i].buckets
                    To(w) == Cost(bins[w], Moves[i].to, Moves[i].factor, Unit)
                IN Total(To, DOMAIN bins) * Moves[i].ratio

\* A bucket without a workload takes the factor of each variant in turn.
FactorKey(i, w, v) == <<Moves[i].from, Moves[i].to, IF w = "" THEN v ELSE w>>
Available(c, i, v) == \A w \in DOMAIN c.moves[i].buckets : FactorKey(i, w, v) \in DOMAIN Factors
After2(c, i, v, bound) ==
    LET bins == c.moves[i].buckets
        To(w) == Cost(bins[w], Moves[i].to, Moves[i].factor, Factors[FactorKey(i, w, v)][bound])
    IN Total(To, DOMAIN bins) * Moves[i].ratio

Level1(c, moved) == LET Gain(i) == After1(c, i) - Before(c, i) IN c.baseline * Parts + Total(Gain, moved)
Level2(c, moved, v, bound) ==
    LET Gain(i) == After2(c, i, v, bound) - Before(c, i) IN c.baseline * Parts + Total(Gain, moved)

Variants(c) == IF c.unmapped = 0 THEN {"mapped"} ELSE Workloads
AllMoved == DOMAIN Moves
\* Level 2 is reported only when every move has records and factors.
Level2Reported(c) ==
    \A i \in AllMoved : c.moves[i].covered > 0 /\ \A v \in Variants(c) : Available(c, i, v)

\* pricedFailures: the child's moves that have records, the parent's variants.
FailedMoves == {i \in AllMoved : failures.moves[i].covered > 0}
-----------------------------------------------------------------------------
(* The records themselves.                                                 *)

Pricing == opts.command = "what-if" /\ pc \in {"rows", "ok"}
Period == {i \in DOMAIN rows : Inside(opts.period, rows[i].t)}
Covered == {i \in Period : Issue(rows[i]) = ""}

\* What one record costs when each move that selects it takes its share, with
\* an output factor for each move.
Repriced(row, output) ==
    LET from == Cost(row, Record(row).model, Unit, Unit)
        Share(i) == Moves[i].ratio * (Cost(row, Moves[i].to, Moves[i].factor, output[i]) - from)
    IN from * Parts + Total(Share, Indices(row))

\* Totals kept per move and workload price every record as if it were priced
\* alone: moves take their shares of the original cohort and never of each
\* other's, and a mapped record keeps its own factor in every variant.
PricedPerRecord ==
    Pricing =>
      /\ LET One1(i) == Repriced(rows[i], [m \in AllMoved |-> Unit])
         IN Level1(calc, AllMoved) = Total(One1, Covered)
      /\ Level2Reported(calc) => \A v \in Variants(calc), b \in {"low", "mean", "high"} :
           LET Own(i) == Repriced(rows[i], [m \in Indices(rows[i]) |-> Factors[FactorKey(m, Workload(rows[i]), v)][b]])
           IN Level2(calc, AllMoved, v, b) = Total(Own, Covered)

\* Every row of the period is priced or excluded for one reason; a move
\* answers for exactly the rows it could select; with routing selectors a
\* priced row has an attested model and deployment.
EveryRowPlaced ==
    Pricing =>
      LET Excluded(x) == calc.excluded[x]
          OfType(y) == served[y]["rows"] IN
      /\ calc.covered + Total(Excluded, Issues) = source.rows
      /\ source.rows = Cardinality(Period) /\ source.rows + source.outside = Len(rows)
      /\ \A i \in AllMoved : calc.moves[i].covered + calc.moves[i].excluded
                             = Cardinality({j \in Period : i \in Indices(rows[j])})
      /\ Routing => /\ calc.covered <= served["all"]["identity"]
                    /\ Total(OfType, {"chat", "pass", "other"}) = source.rows

\* A scenario never moves more than there is: the source cost that moves is
\* within the baseline, so no repriced total falls below the cost of what
\* stays, and the bounds of level 2 enclose its mean.
NeverOvermoved ==
    Pricing =>
      LET Moved(i) == Before(calc, i)
      IN /\ Total(Moved, AllMoved) <= calc.baseline * Parts
         /\ Level2Reported(calc) => \A v \in Variants(calc) :
              /\ Level2(calc, AllMoved, v, "low") >= calc.baseline * Parts - Total(Moved, AllMoved)
              /\ Level2(calc, AllMoved, v, "low") <= Level2(calc, AllMoved, v, "mean")
              /\ Level2(calc, AllMoved, v, "mean") <= Level2(calc, AllMoved, v, "high")

\* Priced failures are a part of the reported totals, never an addition: the
\* child holds exactly the failed records that were priced, excludes none of
\* them, and whenever the parent reports a level, so does the child, within it.
FailuresArePart ==
    Pricing =>
      LET failed == {i \in Covered : rows[i].status = "failure"}
          Alone(i) == Repriced(rows[i], [m \in AllMoved |-> Unit]) IN
      /\ (failures = NoId) = (failed = {})
      /\ failures # NoId =>
           /\ failures.covered = Cardinality(failed) /\ failures.baseline <= calc.baseline
           /\ \A x \in Issues : failures.excluded[x] = 0
           /\ Level1(failures, FailedMoves) = Total(Alone, failed)
           /\ Level2Reported(calc) => \A v \in Variants(calc) :
                /\ \A i \in FailedMoves : Available(failures, i, v)
                /\ \A b \in {"low", "mean", "high"} :
                     Level2(failures, FailedMoves, v, b) <= Level2(calc, AllMoved, v, b)
=============================================================================
