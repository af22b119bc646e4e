--------------------------- MODULE MCSessionReview ---------------------------
EXTENDS SessionReview

MCSessions == {"s1", "s2", "s3"}

Base == [id |-> 1, t |-> 1, session |-> "s1", supported |-> TRUE, failed |-> FALSE,
         rejection |-> "none", end |-> "valid", spend |-> 1, tokens |-> 1,
         who |-> [k \in IdKinds |-> IF k = "key" THEN 1 ELSE 0]]

\* Calls of two sessions in and out of the period, one without a usable
\* amount, one of an unsupported kind, a rejection, one without a session.
Paid == Base
Outside == [Base EXCEPT !.id = 2, !.t = 5, !.spend = 2]
Costless == [Base EXCEPT !.id = 3, !.t = 2, !.spend = -1, !.rejection = "absent"]
Odd == [Base EXCEPT !.id = 4, !.t = 2, !.supported = FALSE, !.end = "absent"]
Refused == [Base EXCEPT !.id = 5, !.t = 3, !.failed = TRUE, !.rejection = "session_budget", !.tokens = 0]
Other == [Base EXCEPT !.id = 6, !.t = 3, !.session = "s2", !.spend = 2, !.who = [k \in IdKinds |-> 2]]
Loose == [Base EXCEPT !.id = 7, !.t = 2, !.session = NoId, !.spend = -2]
Early == [Base EXCEPT !.id = 8, !.t = 0, !.session = "s2", !.spend = 0]
Third == [Base EXCEPT !.id = 11, !.session = "s3", !.tokens = 0]
BadStart == [Base EXCEPT !.id = 9, !.t = BadTime]
Unfinished == [Base EXCEPT !.id = 10, !.t = 2, !.end = "wrong"]

ManyRows == {Paid, Outside, Costless, Odd, Refused, Other, Loose, Early, Third, BadStart, Unfinished}
FewRows == {Paid, Outside, Odd, Other}

UpTo(S, n) == UNION {[1..k -> S] : k \in 0..n}

ManyFiles == UpTo(ManyRows, 4)
FewFiles == UpTo(FewRows, 2)

Given == [start |-> 1, end |-> 4]
BothPeriods == {NoId, Given}
=============================================================================
