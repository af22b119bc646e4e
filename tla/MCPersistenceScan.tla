-------------------------- MODULE MCPersistenceScan --------------------------
EXTENDS PersistenceScan

MCKeys == {1, 2}
MCRankings == [users |-> [errors |-> FALSE, tokens |-> TRUE, leader |-> TRUE],
               faults |-> [errors |-> TRUE, tokens |-> FALSE, leader |-> FALSE]]
MCExpected == {"a", "b"}

Sketch(a, b, x, y, offset) == [count |-> <<a, b>>, truth |-> <<x, y>>, offset |-> offset]
Exact(a, b) == Sketch(a, b, a, b, 0)

Doc(p) == [producer |-> p, emitted |-> 1, partial |-> FALSE]
Users(s) == [docs |-> {Doc("a"), Doc("b")}, requests |-> 4, missing |-> 0, tokens |-> 8,
             sketch |-> [users |-> s, faults |-> Exact(1, 0)]]

\* The first contributor holds 10 to 90 percent; it may be hidden from the
\* sketch, or only partly seen.
Quiet == Users(Exact(1, 9))
Even == Users(Exact(5, 5))
Hidden == Users(Sketch(0, 2, 3, 2, 3))
Blurred == Users(Sketch(0, 8, 1, 9, 2))
AtFloor == Users(Exact(1, 3))
Risen == Users(Exact(2, 3))
Leading == Users(Sketch(8, 1, 9, 1, 1))
\* One producer missing or partial; too few, many, uncounted or unpriced calls.
Missing == [Leading EXCEPT !.docs = {Doc("a")}]
Partial == [Quiet EXCEPT !.docs = {Doc("a"), [Doc("b") EXCEPT !.partial = TRUE]}]
Late == [Quiet EXCEPT !.docs = {[Doc("a") EXCEPT !.emitted = 7], Doc("b")}]
Few == [Quiet EXCEPT !.requests = 1]
Busy == [Quiet EXCEPT !.requests = 20, !.tokens = 40]
Costly == [Quiet EXCEPT !.tokens = 80]
Unreported == [Quiet EXCEPT !.missing = 2]
Uncounted == [Quiet EXCEPT !.requests = -1]
Faulty == [Quiet EXCEPT !.sketch.faults = Exact(12, 1)]
Unranked == [Quiet EXCEPT !.sketch.users = None]

MCFrames == {Quiet, Even, Hidden, Blurred, AtFloor, Risen, Leading, Missing, Partial, Late, Few, Busy, Costly,
             Unreported, Uncounted, Faulty, Unranked}
Bases == {<<Quiet, Quiet>>, <<Quiet, Even>>, <<Even, Even>>, <<Quiet, Hidden>>, <<Blurred, Quiet>>, <<Partial, Quiet>>, <<Quiet, Few>>}
Rising == {Quiet, Risen, Leading, Missing, Faulty}

MCSeries == {b \o t : b \in Bases, t \in
                {<<>>} \cup (MCFrames \X (MCFrames \cup {None})) \cup (Rising \X Rising \X Rising)}
            \cup {<<Quiet, None, Quiet, Risen, Risen>>}

Opt(recent, persist, now) ==
    [baseline |-> 2, recent |-> recent, persist |-> persist, top |-> 1, minAttempts |-> 2, z |-> 4, relative |-> 50,
     floor |-> 25, shareChange |-> 10, coverage |-> 5, now |-> now, maxAge |-> 3]
MCOptions == {Opt(1, 1, 5), Opt(2, 1, 6), Opt(1, 2, 6), Opt(2, 2, 6), Opt(2, 1, 9)}
LookbackOptions == {Opt(1, 2, 6)}
=============================================================================
