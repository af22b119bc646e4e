------------------------- MODULE MCSpendInvestigation -------------------------
EXTENDS SpendInvestigation

MCGroups == {"g1", "g2", "g3"}
MCModels == {"m1", "m2", "m3", "m4"}
Chat == {"chat"}

Base == [id |-> 1, t |-> 2, type |-> "chat", end |-> "valid", group |-> "g1", model |-> "m1",
         public |-> "p", route |-> "r1", tokens |-> 1, whole |-> TRUE, uncached |-> 1]

\* Records of three identities and four models in the two periods [2,4) and [4,6),
\* and around them.
Old == Base
New == [Base EXCEPT !.id = 2, !.t = 4, !.tokens = 2, !.uncached = 2]
Second == [Base EXCEPT !.id = 3, !.t = 5, !.group = "g2", !.route = NoId, !.uncached = -1]
Third == [Base EXCEPT !.id = 4, !.t = 3, !.group = "g3", !.model = "m2", !.tokens = 2, !.end = "absent"]
Disputed == [Base EXCEPT !.id = 5, !.t = 4, !.public = NoId, !.group = NoId, !.route = "r2"]
Partial == [Base EXCEPT !.id = 6, !.t = 5, !.whole = FALSE, !.model = "m3", !.public = NoId, !.group = "g2"]
Fourth == [Base EXCEPT !.id = 13, !.t = 4, !.model = "m4", !.tokens = 3]
Odd == [Base EXCEPT !.id = 7, !.t = 3, !.type = "embedding", !.end = "wrong"]
Before1 == [Base EXCEPT !.id = 8, !.t = 1]
After1 == [Base EXCEPT !.id = 9, !.t = 6]
Unfinished == [Base EXCEPT !.id = 10, !.end = "wrong", !.route = "r2"]
BadStart == [Base EXCEPT !.id = 11, !.t = BadTime]
Anonymous == [Base EXCEPT !.id = 0]

ManyRows == {Old, New, Second, Third, Disputed, Partial, Fourth, Odd,
             Before1, After1, Unfinished, BadStart, Anonymous}
FewRows == {Old, New, Disputed, Before1, After1}
RankRows == {Old, New, Second, Third, Disputed, Partial,
             [New EXCEPT !.id = 12, !.group = "g3", !.model = "m2"]}

UpTo(S, n) == UNION {[1..k -> S] : k \in 0..n}

FewFiles == {<<>>, <<Before1, New, After1>>, <<Before1, Old, After1>>, <<Old, New>>, <<Old, Disputed, New>>}
RankFiles == {f \in UpTo(RankRows, 5) : \A i, j \in DOMAIN f : i # j => f[i].id # f[j].id}
AllFiles == UpTo(ManyRows, 4) \cup RankFiles \cup FewFiles
AllRows == ManyRows \cup RankRows

Pair(a, b, c, d) == [s \in Sides |-> IF s = 1 THEN [start |-> a, end |-> b] ELSE [start |-> c, end |-> d]]
Opt(p, scope, source, aliases) ==
    [periods |-> p, scope |-> scope, source |-> source, aliases |-> aliases, top |-> 2]
Given == Pair(2, 4, 4, 6)

AllOptions == {Opt(NoId, NoId, FALSE, FALSE), Opt(Given, NoId, FALSE, FALSE), Opt(Given, "r1", FALSE, FALSE),
               [Opt(Given, NoId, TRUE, TRUE) EXCEPT !.top = 3], Opt(Pair(2, 4, 3, 5), NoId, FALSE, FALSE)}
=============================================================================
