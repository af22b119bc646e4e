---------------------------- MODULE MCSpendViews ----------------------------
(* Small exports and options for the accounts of one pass.                 *)
EXTENDS SpendViews

\* Two spellings of one route, of one model and of one agent.
MCCanon == [v \in {"r1", "R1", "r2", "r3", "M1", "m1", "p/M1", "m3", "a1", "A1", "a2", "a3", "a4", "d1", "k1", "k2",
                   "t1", "autorouter_classifier", "hook"} |->
              CASE v = "R1" -> "r1" [] v = "m1" -> "M1" [] v = "A1" -> "a1" [] OTHER -> v]

\* Two models of the provider.
X == <<"p", "x">>
Y == <<"q", "y">>

Base == [t |-> 0, type |-> "chat", end |-> "valid", origin |-> "absent", route |-> "r1", agent |-> "a1",
         tags |-> [state |-> "absent", suffixes |-> <<>>], model |-> "M1", deployment |-> "d1", vendor |-> "p",
         public |-> "M1", exact |-> NoId, key |-> "k1", team |-> "t1", fallback |-> "zero", status |-> "success",
         issue |-> "", input |-> 2, output |-> 1, read |-> 1, write |-> 0, cost |-> 1]
Tags(state, suffixes) == [state |-> state, suffixes |-> suffixes]
Raw(row) == [row EXCEPT !.public = "", !.type = "other"]

\* Conflicting spellings, a second model of the same public name, unknown
\* route and model, classifier overhead, another call type.
AuditRows ==
    {Base, [Base EXCEPT !.t = 2, !.route = "R1", !.model = "m1", !.public = "", !.fallback = "positive"],
     [Base EXCEPT !.route = "r2", !.model = "p/M1", !.cost = 3],
     [Base EXCEPT !.t = 2, !.route = "empty", !.model = "invalid", !.public = "", !.fallback = "invalid",
                  !.cost = -1, !.status = "failure"],
     [Base EXCEPT !.type = "pass", !.origin = "autorouter_classifier", !.deployment = "absent"],
     [Raw(Base) EXCEPT !.t = 2, !.origin = "hook", !.fallback = "absent", !.agent = "a2"],
     [Base EXCEPT !.route = "r3", !.agent = "a2", !.model = "m3", !.public = "", !.deployment = "empty"],
     [Base EXCEPT !.route = "r1", !.agent = "absent", !.model = "m3", !.public = ""]}

\* Tags that name one agent, repeat it, name two, none, or are not strings.
AgentRows ==
    {[Base EXCEPT !.tags = Tags("list", <<"a1", "a1", "">>)],
     [Base EXCEPT !.t = 2, !.agent = "A1", !.tags = Tags("list", <<"A1">>), !.cost = 3],
     [Base EXCEPT !.t = 2, !.agent = "a2", !.tags = Tags("list", <<"a2">>), !.cost = -1, !.input = 3],
     [Base EXCEPT !.t = 2, !.agent = "a3", !.tags = Tags("list", <<"a3">>), !.cost = 2],
     [Base EXCEPT !.agent = "a4", !.tags = Tags("list", <<"a4">>)],
     [Base EXCEPT !.agent = "empty", !.tags = Tags("list", <<"a1", "a2">>), !.cost = -1],
     [Base EXCEPT !.agent = "absent", !.tags = Tags("list", <<"">>)],
     [Base EXCEPT !.agent = "absent", !.tags = Tags("nonstring", <<>>)],
     [Base EXCEPT !.t = 8, !.tags = Tags("malformed", <<>>)],
     [Raw(Base) EXCEPT !.tags = Tags("empty", <<>>)]}

\* Mapped, named by the provider, unmapped, unsupported; four days.
CountRows ==
    {[Base EXCEPT !.exact = X], [Base EXCEPT !.t = 1, !.model = "m3", !.public = "", !.status = "failure"],
     [Base EXCEPT !.t = 2, !.exact = X, !.output = -1, !.issue = "unusable_usage"],
     [Base EXCEPT !.t = 3, !.vendor = "q", !.public = "", !.status = "unknown"],
     [Raw(Base) EXCEPT !.t = 3, !.exact = X, !.input = 4, !.output = 1],
     [Base EXCEPT !.t = 4, !.exact = X], [Base EXCEPT !.t = 0, !.end = "wrong", !.exact = X]}

\* Rows of two keys and a team, without a key, of another price, too large,
\* failed, unusable, and with cache parts that overlap.
PriceRows ==
    {Base, [Base EXCEPT !.key = "k2", !.status = "failure", !.write = 1],
     [Base EXCEPT !.key = "absent", !.agent = "empty", !.output = 3],
     [Base EXCEPT !.key = "k2", !.team = "absent", !.model = "p/M1", !.public = "M1", !.deployment = "invalid"],
     [Base EXCEPT !.model = "m3", !.public = "", !.output = 2, !.status = "failure"],
     [Base EXCEPT !.model = "m1", !.public = "", !.end = "absent"],
     [Base EXCEPT !.input = 5, !.key = "empty", !.agent = "a2"],
     [Base EXCEPT !.read = 2, !.write = 1], [Base EXCEPT !.status = "failure", !.read = -1, !.write = -1],
     [Raw(Base) EXCEPT !.end = "wrong"], [Base EXCEPT !.t = 6, !.end = "wrong"], [Base EXCEPT !.t = 1, !.end = "wrong"]}

MCStream == AuditRows \cup AgentRows \cup CountRows \cup PriceRows

Weeks(a, b, c) == [s \in Sides |-> IF s = 1 THEN [start |-> a, end |-> b] ELSE [start |-> b, end |-> c]]

Plain == [command |-> "investigate", explored |-> AuditRows, periods |-> Weeks(0, 2, 4), scope |-> NoId,
          audit |-> TRUE, by |-> "route", labels |-> TRUE, agentSource |-> NoId, rank |-> "", top |-> 1,
          provider |-> NoId, daily |-> NoId]

Contract1 == [start |-> 0, end |-> 4, retrieved |-> 5, margin |-> 0, paginated |-> TRUE, population |-> "matched",
              basis |-> "primary_requests", unitsMatch |-> TRUE, tokensMatch |-> TRUE]
Line(day, model, requests, input) ==
    [day |-> day, model |-> model, requests |-> requests, input |-> input, output |-> -1]
Counts1 == <<Line(0, X, 1, 2), Line(1, X, 2, 7), Line(1, Y, 1, -1)>>
Map1 == <<[source |-> <<"p", "m3">>, target |-> X, exact |-> NoId]>>
Map2 == Append(Map1, [source |-> <<"q", "M1">>, target |-> Y, exact |-> NoId])
Files(contract, counts, map) == [contract |-> contract, counts |-> counts, map |-> map]
Counted1 == [Plain EXCEPT !.explored = CountRows, !.audit = FALSE, !.labels = FALSE, !.daily = (0 :> 1 @@ 1 :> 2)]

ProviderFiles ==
    {Files(Contract1, Counts1, Map2), Files(Contract1, Counts1, Map1), Files(NoId, Counts1, <<>>),
     Files([Contract1 EXCEPT !.margin = 2], Counts1, Map2),
     Files([Contract1 EXCEPT !.paginated = FALSE], Counts1, Map2),
     Files([Contract1 EXCEPT !.population = "unverified", !.tokensMatch = FALSE], Counts1, Map2),
     Files([Contract1 EXCEPT !.population = "mismatch"], Counts1, Map2),
     Files(Contract1, <<Line(0, X, 1, 2), Line(1, X, -1, 9)>>, Map1),
     Files(Contract1, <<Line(1, X, 9, 1), Line(1, Y, 9, 1)>>, Map2),
     Files([Contract1 EXCEPT !.end = 2, !.retrieved = 2], Counts1, Map2),
     Files(Contract1, Append(Counts1, Counts1[1]), Map2),
     Files(Contract1, Counts1, <<[source |-> <<"p", "p/x">>, target |-> Y, exact |-> X]>>)}

Investigations ==
    {Plain, [Plain EXCEPT !.top = 2], [Plain EXCEPT !.by = "route-agent", !.labels = FALSE],
     [Plain EXCEPT !.scope = [kind |-> "route", id |-> "r1"], !.top = 2],
     [Plain EXCEPT !.scope = [kind |-> "agent", id |-> "a1"], !.audit = FALSE, !.labels = FALSE],
     [Plain EXCEPT !.explored = AgentRows, !.agentSource = "agent_id", !.rank = "recorded-spend-change"],
     [Plain EXCEPT !.explored = AgentRows, !.agentSource = "request-tag", !.audit = FALSE]}
    \cup {[Counted1 EXCEPT !.provider = files] : files \in ProviderFiles}
    \cup {Counted1, [Counted1 EXCEPT !.periods = Weeks(1, 3, 5), !.provider = Files(NoId, Counts1, Map2)]}

MCPrices ==
    [m \in {"M1", "m3", "big"} |->
        CASE m = "M1" -> [input |-> 2, output |-> 4, read |-> 1, write |-> 3, tier |-> 4]
          [] m = "m3" -> [input |-> 1, output |-> 1, read |-> 0, write |-> 1, tier |-> 0]
          [] OTHER -> [input |-> 5, output |-> 6, read |-> 2, write |-> 5, tier |-> 3]]
MCFactors ==
    (<<"M1", "m3", "qa">> :> [low |-> 1, mean |-> 2, high |-> 3]) @@
    (<<"M1", "m3", "coding">> :> [low |-> 2, mean |-> 3, high |-> 5]) @@
    (<<"M1", "big", "coding">> :> [low |-> 1, mean |-> 1, high |-> 2]) @@
    (<<"m3", "M1", "qa">> :> [low |-> 3, mean |-> 4, high |-> 4])

To(from, to, ratio, scope, factor) == [from |-> from, to |-> to, ratio |-> ratio, scope |-> scope, factor |-> factor]
Scope(kind, id) == [kind |-> kind, id |-> id]
NoMap == [x \in {} |-> x]
Scenario(moves, mapping1) ==
    [command |-> "what-if", explored |-> PriceRows, period |-> [start |-> 0, end |-> 4], moves |-> moves,
     mapping |-> mapping1]

\* A share of one model; overlapping shares of one cohort; a chain of moves;
\* workloads by key, team and agent, some in conflict; a target with a tier.
Scenarios ==
    {Scenario(<<To("M1", "m3", 3, NoId, 2)>>, NoMap),
     Scenario(<<To("M1", "m3", 2, NoId, 2), To("M1", "m3", 3, Scope("key", "k1"), 2)>>, NoMap),
     Scenario(<<To("M1", "m3", 2, Scope("key", "k2"), 2), To("m3", "M1", 4, NoId, 3)>>, <<"key", "k2">> :> "qa"),
     Scenario(<<To("M1", "m3", 4, NoId, 1)>>, (<<"key", "k2">> :> "qa") @@ (<<"team", "t1">> :> "coding")),
     Scenario(<<To("M1", "m3", 1, Scope("agent", "a1"), 2), To("M1", "big", 3, NoId, 2)>>, <<"team", "t1">> :> "coding")}

MCOptionSet == Investigations \cup Scenarios
=============================================================================
