------------------------- MODULE MCLangfuseDirectory -------------------------
EXTENDS LangfuseDirectory

MCProjects == {"p", "q"}
MCManifests == {"m1", "m2"}
MCData == {"o1", "o2", "s1"}
MCPathOrder == <<"manifests", "m1", "m2", "data", "o1", "o2", "s1">>

Base == [id |-> 1, project |-> "p", t |-> 1, kind |-> "GENERATION", end |-> "valid",
         print |-> 1, tokens |-> 1, cost |-> 1, size |-> 1]
Boundary == [Base EXCEPT !.id = 2, !.t = 2]
Disputed == [Boundary EXCEPT !.print = 2]
Later == [Base EXCEPT !.id = 3, !.t = 3, !.kind = "SPAN"]
Dear == [Later EXCEPT !.kind = "GENERATION", !.cost = 2, !.tokens = 2]
Broken == [Base EXCEPT !.id = 4, !.kind = "broken"]
BadEnd == [Base EXCEPT !.id = 5, !.t = 2, !.end = "bad"]
Foreign == [Later EXCEPT !.project = "q"]

Obs(n, size, len) == [path |-> n, table |-> "observations_v2", size |-> size, rows |-> len]
Scores == [path |-> "s1", table |-> "scores", size |-> 1, rows |-> 1]
Run1(files) == [project |-> "p", start |-> 0, end |-> 2, files |-> files]
Run2(files) == [project |-> "p", start |-> 2, end |-> 4, files |-> files]

First == {Run1(<<Obs("o1", 2, 2)>>), Run1(<<Obs("o1", 2, 2), Scores>>), Run1(<<Obs("o1", 3, 3)>>), Torn}
Second == {Run2(<<Obs("o2", 2, 2)>>), Run2(<<Obs("o2", 1, 1), Obs("o1", 2, 2)>>), Run2(<<Scores>>),
           [Run2(<<Obs("o2", 2, 2)>>) EXCEPT !.start = 3, !.end = 5],
           [Run2(<<Obs("o2", 1, 1)>>) EXCEPT !.project = "q"],
           [Run2(<<Obs("o2", 2, 2)>>) EXCEPT !.start = 4], Run2(<<Obs(Elsewhere, 1, 1)>>)}

O1 == {<<Base, Boundary>>, <<Base, Disputed>>, <<Base, Base, Boundary>>, <<Base, Torn>>, <<Boundary>>,
       <<Boundary, Boundary, Base, Base>>}
O2 == {<<Boundary, Later>>, <<Boundary, Dear>>, <<Foreign>>, <<Later, Broken>>, <<BadEnd, Later>>, <<Later>>, <<Dear, Later>>}
S1 == {<<Base>>, <<Torn>>}

MCContents == [n \in Names |-> CASE n = "m1" -> First [] n = "m2" -> Second [] n = "o1" -> O1
                                 [] n = "o2" -> O2 [] n = "s1" -> S1]

Dir(a, b, c, d, e) == [n \in Names |-> CASE n = "m1" -> a [] n = "m2" -> b [] n = "o1" -> c
                                         [] n = "o2" -> d [] n = "s1" -> e]
AllDirs == {Dir(a, b, c, d, e) : a \in First \cup {None}, b \in Second \cup {None},
                                 c \in O1 \cup {None}, d \in O2 \cup {None}, e \in S1 \cup {None}}

FewDirs == {Dir(Run1(<<Obs("o1", 2, 2)>>), b, <<Base, Boundary>>, d, None) :
              b \in {None, Run2(<<Obs("o2", 2, 2)>>)}, d \in {None, <<Boundary, Later>>}}
MCWritten == [n \in Names |-> CASE n = "m1" -> {Run1(<<Obs("o1", 2, 2), Scores>>)}
                                [] n = "m2" -> {Run2(<<Obs("o2", 1, 1), Obs("o1", 2, 2)>>)}
                                [] n = "o1" -> {<<Base, Disputed>>, <<Base, Boundary>>, <<Boundary>>}
                                [] n = "o2" -> {<<Boundary, Dear>>, <<Later>>} [] n = "s1" -> {}]

Pairs == {<<[start |-> a, end |-> a + 1], [start |-> b, end |-> b + 1]>> : a \in {0, 1}, b \in {1, 2, 3}}
=============================================================================
