--------------------------- MODULE AgentAttribution ---------------------------
(***************************************************************************)
(* Agent attribution (internal/spend/agents.go): every supported record of *)
(* a period belongs to one known agent, to none, or to several; known      *)
(* agents are ranked by the change of their recorded tokens or spend, and  *)
(* those beyond the display are summed. The source of the agent is chosen, *)
(* never inferred: the agent_id column or request tags with a prefix.      *)
(***************************************************************************)
EXTENDS SpendRows

CONSTANT MaxAgents

ASSUME AgentAssumption ==
    /\ MaxAgents \in Nat
    /\ \A o \in OptionSet : o.command = "investigate" => o.agentSource \in {NoId, "agent_id", "request-tag"}

AgentStates == {"known", "unknown", "ambiguous"}
AgentCounts == {"absent", "empty", "nonstring", "unmatched", "repeatedRows", "repeated",
                "blankRows", "blank"} \cup AgentStates

VARIABLES
    agentSum,   \* agentSum[state]: the windows of the three states
    agentRows,  \* agentRows[side]: AgentCoverage
    agents      \* the known agents, in order of appearance

agentVars == <<agentSum, agentRows, agents>>

AgentInit ==
    /\ agentSum = [z \in AgentStates |-> Zero]
    /\ agentRows = [s \in Sides |-> [c \in AgentCounts |-> 0]]
    /\ agents = [x \in {} |-> x]

Attributing == opts.agentSource # NoId
-----------------------------------------------------------------------------
(* resolveAgent, for every record the reader delivers.                     *)

Agent(state, label, why) == [state |-> state, label |-> label, why |-> why, repeated |-> 0, blank |-> 0]

\* Tags with the prefix: a blank suffix names nobody, a repeated one nobody new.
FromTags(suffixes) ==
    LET named == SelectSeq(suffixes, LAMBDA v : v # "")
        names == ToSet(named)
    IN [Agent(CASE names = {} -> "unknown" [] Cardinality(names) = 1 -> "known" [] OTHER -> "ambiguous",
              IF Cardinality(names) = 1 THEN named[1] ELSE "", IF names = {} THEN "unmatched" ELSE "")
        EXCEPT !.repeated = Len(named) - Cardinality(names), !.blank = Len(suffixes) - Len(named)]

Resolve(row) ==
    IF opts.agentSource = "agent_id"
    THEN IF TextState(row.agent) = "known" THEN Agent("known", row.agent, "")
         ELSE Agent("unknown", "", row.agent)
    ELSE IF row.tags.state = "list" THEN FromTags(row.tags.suffixes)
         ELSE Agent("unknown", "", row.tags.state)

\* A malformed tag list refuses the file whatever the record's period.
AgentUnreadable(row) == opts.agentSource = "request-tag" /\ row.tags.state = "malformed"
-----------------------------------------------------------------------------
(* add.                                                                    *)

AgentId(row) == Canon[Resolve(row).label]

AgentRefuses(row) ==
    /\ Attributing /\ Supported(row) /\ Resolve(row).state = "known"
    /\ AgentId(row) \notin DOMAIN agents /\ Cardinality(DOMAIN agents) = MaxAgents

Counted(c, r) ==
    CASE c = r.state -> 1
      [] c = r.why -> 1
      [] c = "repeatedRows" -> One(r.repeated > 0)
      [] c = "repeated" -> r.repeated
      [] c = "blankRows" -> One(r.blank > 0)
      [] c = "blank" -> r.blank
      [] OTHER -> 0

\* Mutant: records with several agents are not counted.
AgentAddNamed(row, s) ==
    IF ~Attributing \/ ~Supported(row) \/ Resolve(row).state = "ambiguous" THEN UNCHANGED agentVars
    ELSE LET r == Resolve(row) IN
        /\ agentRows' = [agentRows EXCEPT ![s] = [c \in AgentCounts |-> @[c] + Counted(c, r)]]
        /\ agentSum' = [agentSum EXCEPT ![r.state] = Plus(@, s, Worth(row))]
        /\ agents' = IF r.state = "known"
                     THEN Credit(agents, AgentId(row), Cardinality(DOMAIN agents), s, Worth(row))
                     ELSE agents

\* Each record once, whatever its state.
AgentAdd(row, s) ==
    IF ~Attributing \/ ~Supported(row) THEN UNCHANGED agentVars
    ELSE LET r == Resolve(row) IN
        /\ agentRows' = [agentRows EXCEPT ![s] = [c \in AgentCounts |-> @[c] + Counted(c, r)]]
        /\ agentSum' = [agentSum EXCEPT ![r.state] = Plus(@, s, Worth(row))]
        /\ agents' = IF r.state = "known"
                     THEN Credit(agents, AgentId(row), Cardinality(DOMAIN agents), s, Worth(row))
                     ELSE agents
-----------------------------------------------------------------------------
(* finish: contributors, agents without a usable cost, and the rest.       *)

Change(e, m) == e.sum[2][m] - e.sum[1][m]
Ranking == IF opts.rank = "recorded-spend-change" THEN "spend" ELSE "tokens"

\* agentValues: a side with records but no usable cost has no recorded USD.
HasCost(e) == \A s \in Sides : e.sum[s]["requests"] > 0 => e.sum[s]["costless"] < e.sum[s]["requests"]

\* Stable on the order of appearance; agents without a cost come last.
AgentAhead(a, b) ==
    IF Ranking = "spend" /\ HasCost(a) # HasCost(b) THEN HasCost(a)
    ELSE IF Ranking = "spend" /\ ~HasCost(a) THEN a.first < b.first
    ELSE \/ Change(a, Ranking) > Change(b, Ranking)
         \/ Change(a, Ranking) = Change(b, Ranking) /\ a.first < b.first

Position(x) == Cardinality({y \in DOMAIN agents : AgentAhead(agents[y], agents[x])})

Unavailable == {x \in DOMAIN agents : Ranking = "spend" /\ ~HasCost(agents[x])}
Contributors == {x \in DOMAIN agents \ Unavailable : Position(x) < opts.top}

\* Mutant: agents without a cost are summed as well.
UndisplayedByRank == {x \in DOMAIN agents : Position(x) >= opts.top}

\* Agents without a cost are listed on their own, never summed.
Undisplayed == {x \in DOMAIN agents \ Unavailable : Position(x) >= opts.top}
-----------------------------------------------------------------------------
(* The report closes.                                                      *)

\* Known agents are shown, listed without a cost, or summed, each once: in
\* each period and for each measure the three add up to the known window;
\* a record without a known agent is explained by exactly one reason.
AgentsClose ==
    opts.command = "investigate" /\ Attributing /\ pc \in {"rows", "ok"} =>
      \A s \in Sides :
        /\ \A m \in Measures :
             SumOf(agents, Contributors, s, m) + SumOf(agents, Unavailable, s, m)
             + SumOf(agents, Undisplayed, s, m) = agentSum["known"][s][m]
        /\ Cardinality(Contributors) <= opts.top
        /\ \A z \in AgentStates : agentRows[s][z] = agentSum[z][s]["requests"]
        /\ agentRows[s]["unknown"] = agentRows[s]["absent"] + agentRows[s]["empty"]
                                     + agentRows[s]["nonstring"] + agentRows[s]["unmatched"]
=============================================================================
