------------------------------ MODULE SpendRows ------------------------------
(***************************************************************************)
(* One complete pass over the request-level records of a spend export, as  *)
(* the accounts kept beside the main comparison see it: the routing audit, *)
(* agent attribution, daily and provider counts, and what-if repricing.    *)
(* Reading the file itself (several passes, a file that changes) is the    *)
(* subject of SpendFile and SpendInvestigation.                            *)
(***************************************************************************)
EXTENDS Integers, Sequences, FiniteSets, FiniteSetsExt, SequencesExt

CONSTANTS
    Stream,    \* the records an export may hold
    MaxStream, \* bound: records of one export
    OptionSet, \* the commands and options explored; "explored" bounds the
               \* records that an export holds under them
    Canon,     \* Canon[v]: the keyed identity of spelling v (text_v1)
    NoId,      \* an unknown identity, or an option that is not given
    Day,       \* a UTC day, in ticks
    Now,       \* opts.Now, or the clock of the repricing reader
    MaxCount   \* math.MaxInt64

Sides == {1, 2}  \* before, after
States == {"known", "absent", "empty", "invalid"}

\* A text field holds a spelling, or why there is none. "invalid" is a
\* placeholder of the selected model or deployment (RoutingSelectedTextKnown).
Texts == DOMAIN Canon \cup {"absent", "empty"}
Placed == Texts \cup {"invalid"}

\* tags: request_tags, as the suffixes of the tags with the chosen prefix (""
\* for a blank suffix). public: what reprice.PublicModelID makes of the model
\* and provider names. exact: the provider's own name of a model written as
\* provider/name with the row's provider. -1: no usable number.
\* issue: what classify finds in the token fields.
RowFields ==
    [t: Nat, type: {"chat", "pass", "other"}, end: {"absent", "valid", "wrong"}, origin: Texts,
     route: Texts, agent: Texts, tags: [state: {"absent", "empty", "list", "nonstring", "malformed"},
                                        suffixes: Seq(STRING)],
     model: Placed, deployment: Placed, vendor: STRING, public: STRING, exact: (STRING \X STRING) \cup {NoId},
     key: Texts, team: Texts, fallback: {"absent", "empty", "invalid", "zero", "positive"},
     status: {"success", "failure", "unknown"}, issue: {"", "invalid_usage", "unusable_usage"},
     input: Nat \cup {-1}, output: Nat \cup {-1}, read: Nat \cup {-1}, write: Nat \cup {-1},
     cost: Nat \cup {-1}]

ASSUME SpendRowsAssumption ==
    /\ Stream \subseteq RowFields
    /\ \A row \in Stream : /\ row.input # -1 => row.read <= row.input /\ row.write <= row.input
                           /\ row.input = -1 => row.read = -1 /\ row.write = -1
                           /\ (row.input = -1 \/ row.output = -1) => row.issue # ""
    /\ {"absent", "empty", "invalid"} \cap DOMAIN Canon = {} /\ \A v \in DOMAIN Canon : Canon[v] # NoId
    /\ \A o \in OptionSet :
          /\ o.explored \subseteq Stream
          /\ o.command = "investigate" => o.periods \in [Sides -> [start: Nat, end: Nat]] /\ o.top \in Nat
    /\ MaxStream \in Nat /\ Day \in Nat \ {0} /\ Now \in Nat /\ MaxCount \in Nat

VARIABLES
    opts, \* the command and its options
    pc,   \* load, rows, ok or error
    rows  \* the records visited so far

rowVars == <<opts, pc, rows>>

Inside(p, t) == p.start <= t /\ t < p.end
Supported(row) == row.type = "chat"   \* operation(call_type) # ""

\* routingTextState, and routingRowIdentity of a text.
TextState(v) == IF v \in {"absent", "empty", "invalid"} THEN v ELSE "known"
Identity(v) == IF TextState(v) = "known" THEN Canon[v] ELSE NoId

\* RoutingSelectedModelKnown: a model needs its deployment too.
SelectedKnown(row) == TextState(row.model) = "known" /\ TextState(row.deployment) = "known"
Selected(row) == IF SelectedKnown(row) THEN Identity(row.model) ELSE NoId

Usable(n) == IF n = -1 THEN 0 ELSE n
Count(S, P(_)) == Cardinality({i \in S : P(i)})
Total(f(_), S) == SumFunctionOnSet([x \in S |-> f(x)], S)
-----------------------------------------------------------------------------
(* aggregate and routingTotals: what one supported record adds to a total. *)

Measures == {"requests", "tokens", "spend", "costless", "failed", "nomodel",
             "fallback0", "fallback", "nocounter"}

One(b) == IF b THEN 1 ELSE 0
Tokens(row) == Usable(row.input) + Usable(row.output)

Worth(row) ==
    [m \in Measures |->
        CASE m = "requests" -> 1
          [] m = "tokens" -> Tokens(row)
          [] m = "spend" -> Usable(row.cost)
          [] m = "costless" -> One(row.cost = -1)
          [] m = "failed" -> One(row.status = "failure")
          [] m = "nomodel" -> One(Selected(row) = NoId)
          [] m = "fallback0" -> One(row.fallback = "zero")
          [] m = "fallback" -> One(row.fallback = "positive")
          [] OTHER -> One(row.fallback \notin {"zero", "positive"})]

Zero == [s \in Sides |-> [m \in Measures |-> 0]]
Plus(sum, s, worth) == [sum EXCEPT ![s] = [m \in Measures |-> @[m] + worth[m]]]

\* The entry of key k, created at its first record number n, gains a record.
Credit(f, k, n, s, worth) ==
    [x \in DOMAIN f \cup {k} |->
        IF x # k THEN f[x]
        ELSE IF k \in DOMAIN f THEN [f[k] EXCEPT !.sum = Plus(@, s, worth)]
        ELSE [first |-> n, sum |-> Plus(Zero, s, worth)]]

Requests(e) == e.sum[1]["requests"] + e.sum[2]["requests"]
SumOf(f, S, s, m) == LET Part(k) == f[k].sum[s][m] IN Total(Part, S)

\* AddBounded refuses token counts above the signed range.
Overflows(sum, s, row) == sum[s]["tokens"] + Tokens(row) > MaxCount
=============================================================================
