---------------------------- MODULE SessionReview ----------------------------
(***************************************************************************)
(* ReviewSessions (internal/spend/session.go): the session-budget review   *)
(* of a spend export, in two or three passes over a file that may change   *)
(* under it. Pass 1 finds the observed span, pass 2 accumulates sessions,  *)
(* pass 3, only when the span sticks out of the period, finds sessions     *)
(* with activity outside it. The passes are tied together by digests.      *)
(***************************************************************************)
EXTENDS SpendFile, FiniteSets, Functions

CONSTANTS
    Sessions,       \* literal session identifiers
    NoId,           \* an absent or empty field
    Day,            \* length of a UTC day, in ticks
    Now,            \* opts.Now
    Periods,        \* the --period values explored; NoId chooses one
    Cap,            \* --session-budget-usd
    CounterWindow,  \* opts.CounterWindow
    MaxSessions,    \* spend.MaxSessions
    MaxMembers,     \* spend.MaxSessionMemberships
    MaxCount        \* math.MaxInt64

IdKinds == {"key", "team", "agent"}
BadTime == -1

\* The fields of a record the review looks at. spend: -1 is missing, -2 is
\* not a usable amount. end: absent, valid, or before the start or later
\* than now. rejection: no column, no rejection, or one of the kinds.
RowFields ==
    [id: Nat, t: {BadTime} \cup Nat, session: Sessions \cup {NoId}, supported: BOOLEAN,
     failed: BOOLEAN, rejection: {"absent", "none", "session_budget", "other", "unsupported"},
     end: {"absent", "valid", "wrong"}, spend: Nat \cup {-1, -2}, tokens: Nat, who: [IdKinds -> Nat]]

\* sessionState and the part of Session it fills.
States == [calls: Nat, tokens: Nat, cost: Nat, missing: Nat, invalid: Nat, unanalyzed: Nat,
           budgetRejections: Nat, censored: BOOLEAN, complete: BOOLEAN, covered: BOOLEAN,
           first: Nat \cup {NoId}, last: Nat \cup {NoId}, firstActivity: Nat \cup {NoId},
           lastActivity: Nat \cup {NoId}, clipped: BOOLEAN, order: 1..MaxRows]

ASSUME SessionAssumption ==
    /\ Rows \subseteq RowFields
    /\ Periods \subseteq {NoId} \cup [start: Nat, end: Nat]
    /\ Day \in Nat \ {0} /\ Now \in Nat /\ Cap \in Nat /\ CounterWindow \in Nat
    /\ MaxSessions \in Nat /\ MaxMembers \in Nat /\ MaxCount \in Nat
    /\ NoId \notin Sessions /\ NoId \notin Nat
    /\ NoId \notin [start: Nat, end: Nat] /\ NoId \notin States

VARIABLES
    pc,        \* pass1, pass2, pass3, ok or error
    choice,    \* opts.Period
    read1, read2, read3,  \* the records each pass has encoded into its digest
    period,    \* the selected period
    states,    \* states[s]: the retained sessionState, or NoId
    members,   \* distinct identities seen per session
    sums       \* the report's running totals

revVars == <<pc, choice, read1, read2, read3, period, states, members, sums>>
vars == <<fileVars, revVars>>

ZeroSums == [selected |-> 0, unsupported |-> 0, classified |-> 0, calls |-> 0, tokens |-> 0,
             loose |-> 0, looseCalls |-> 0, looseSpend |-> 0]

NewState(number) ==
    [calls |-> 0, tokens |-> 0, cost |-> 0, missing |-> 0, invalid |-> 0, unanalyzed |-> 0,
     budgetRejections |-> 0, censored |-> FALSE, complete |-> TRUE, covered |-> TRUE,
     first |-> NoId, last |-> NoId, firstActivity |-> NoId, lastActivity |-> NoId,
     clipped |-> FALSE, order |-> number]

Init ==
    /\ FileInit
    /\ pc = "pass1" /\ choice \in Periods
    /\ read1 = <<>> /\ read2 = <<>> /\ read3 = <<>>
    /\ period = NoId
    /\ states = [s \in Sessions |-> NoId]
    /\ members = {}
    /\ sums = ZeroSums

RowsOf(s) == {s[i] : i \in DOMAIN s}
Times(rows) == {row.t : row \in RowsOf(rows)}
Earliest(rows) == CHOOSE t \in Times(rows) : \A u \in Times(rows) : t <= u
Latest(rows) == CHOOSE t \in Times(rows) : \A u \in Times(rows) : u <= t

In(p, t) == p.start <= t /\ t < p.end
-----------------------------------------------------------------------------
(* sessionPeriod.                                                          *)

FloorDay(t) == (t \div Day) * Day
CeilDay(t) == IF FloorDay(t) = t THEN t ELSE FloorDay(t) + Day
Smaller(a, b) == IF a < b THEN a ELSE b

\* The complete days of the observed span, or the span itself when it has
\* none; NoId when there is no usable period.
AutomaticPeriod(first, last) ==
    LET start == CeilDay(first)
        end == Smaller(FloorDay(last), FloorDay(Now))
    IN IF start < end THEN [start |-> start, end |-> end]
       ELSE IF last > Now THEN NoId
       ELSE [start |-> first, end |-> last + 1]

SessionPeriod(rows) ==
    IF choice # NoId THEN (IF choice.end > Now THEN NoId ELSE choice)
    ELSE IF rows = <<>> THEN NoId
    ELSE AutomaticPeriod(Earliest(rows), Latest(rows))
-----------------------------------------------------------------------------
(* The passes.                                                             *)

Fail == pc' = "error" /\ CloseFile /\ UNCHANGED <<choice, read1, read2, read3, period, states, members, sums>>

Open ==
    /\ pc \in {"pass1", "pass2", "pass3"} /\ OpenFile
    /\ UNCHANGED revVars

ReadFails == pc \in {"pass1", "pass2", "pass3"} /\ Unreadable /\ Fail

Visiting(pass) == pc = pass /\ HasRow /\ ~Unreadable

Visit1 ==
    /\ Visiting("pass1")
    /\ IF NextRow.t = BadTime THEN Fail
       ELSE /\ read1' = Append(read1, NextRow) /\ Advance
            /\ UNCHANGED <<pc, choice, read2, read3, period, states, members, sums>>

End1 ==
    /\ pc = "pass1" /\ AtEnd
    /\ IF SessionPeriod(read1) = NoId THEN Fail
       ELSE /\ period' = SessionPeriod(read1) /\ pc' = "pass2" /\ CloseFile
            /\ UNCHANGED <<choice, read1, read2, read3, states, members, sums>>

Rejected(row) == row.rejection \in {"session_budget", "other", "unsupported"}
Unsupported(row) == ~Rejected(row) /\ ~row.supported
Analysed(row) == ~Rejected(row) /\ row.supported
Selected(row) == In(period, row.t)

\* Records that end the review: unclassifiable, contradictory, unfinished.
Wrong(row) ==
    \/ row.id = 0 \/ row.t = BadTime
    \/ Selected(row) /\ \/ row.rejection = "unsupported"
                        \/ Rejected(row) /\ ~row.failed
                        \/ row.end = "wrong" /\ ~Unsupported(row)

Retained == {s \in Sessions : states[s] # NoId}
NewMembers(row) == {<<row.session, k, row.who[k]>> : k \in {k \in IdKinds : row.who[k] # 0}}

\* Mutant: the session that reaches the limit is let through.
OverLimitLate(row) ==
    /\ Selected(row)
    /\ \/ Analysed(row) /\ sums.tokens + row.tokens > MaxCount
       \/ row.session # NoId /\ states[row.session] = NoId /\ Cardinality(Retained) > MaxSessions

\* Mutant: the limit is tested before the session is known to be new.
OverLimitAny(row) ==
    /\ Selected(row)
    /\ \/ Analysed(row) /\ sums.tokens + row.tokens > MaxCount
       \/ row.session # NoId /\ Cardinality(Retained) = MaxSessions

\* One session, one membership or one count too many.
OverLimit(row) ==
    /\ Selected(row)
    /\ \/ Analysed(row) /\ sums.tokens + row.tokens > MaxCount
       \/ /\ row.session # NoId
          /\ \/ states[row.session] = NoId /\ Cardinality(Retained) = MaxSessions
             \/ Cardinality(members \cup NewMembers(row)) > MaxMembers

Usable(row) == row.spend >= 0

Earlier(a, t) == IF a = NoId \/ t < a THEN t ELSE a
Later(a, t) == IF a = NoId \/ t > a THEN t ELSE a

\* Every record of a session moves its activity bounds.
Touch(s, row) ==
    [s EXCEPT !.covered = @ /\ row.rejection # "absent",
              !.firstActivity = Earlier(@, row.t), !.lastActivity = Later(@, row.t)]

\* A logged model call.
Call(s, row) ==
    LET missing == s.missing + (IF row.spend = -1 THEN 1 ELSE 0)
        invalid == s.invalid + (IF row.spend = -2 THEN 1 ELSE 0)
    IN [s EXCEPT !.calls = @ + 1, !.tokens = @ + row.tokens,
                 !.missing = missing, !.invalid = invalid,
                 !.cost = @ + (IF Usable(row) THEN row.spend ELSE 0),
                 !.first = IF row.spend > 0 THEN Earlier(@, row.t) ELSE @,
                 !.last = IF row.spend > 0 THEN Later(@, row.t) ELSE @,
                 !.complete = missing + invalid + s.unanalyzed = 0]

Accumulate(s, row) ==
    IF Rejected(row) THEN [Touch(s, row) EXCEPT !.censored = TRUE,
                              !.budgetRejections = @ + IF row.rejection = "session_budget" THEN 1 ELSE 0]
    ELSE IF Unsupported(row) THEN [Touch(s, row) EXCEPT !.unanalyzed = @ + 1, !.complete = FALSE]
    ELSE Call(Touch(s, row), row)

\* Mutant: records without a session leave the token total.
SumsAttributed(row) ==
    [sums EXCEPT
        !.selected = @ + 1,
        !.calls = @ + IF Analysed(row) THEN 1 ELSE 0,
        !.tokens = @ + IF Analysed(row) /\ row.session # NoId THEN row.tokens ELSE 0,
        !.loose = @ + IF row.session = NoId THEN 1 ELSE 0]

\* The report's totals after one more selected record.
SumsWith(row) ==
    LET n(b) == IF b THEN 1 ELSE 0
        loose == row.session = NoId
    IN [sums EXCEPT
        !.selected = @ + 1,
        !.unsupported = @ + n(Unsupported(row)),
        !.classified = @ + n(row.rejection # "absent"),
        !.calls = @ + n(Analysed(row)),
        !.tokens = @ + IF Analysed(row) THEN row.tokens ELSE 0,
        !.loose = @ + n(loose),
        !.looseCalls = @ + n(loose /\ Analysed(row)),
        !.looseSpend = @ + IF loose /\ Analysed(row) /\ Usable(row) THEN row.spend ELSE 0]

Visit2 ==
    LET row == NextRow
    IN /\ Visiting("pass2")
       /\ IF Wrong(row) \/ OverLimit(row) THEN Fail
          ELSE /\ read2' = Append(read2, row) /\ Advance
               /\ sums' = IF Selected(row) THEN SumsWith(row) ELSE sums
               /\ IF Selected(row) /\ row.session # NoId
                  THEN /\ states' = [states EXCEPT ![row.session] =
                                        Accumulate(IF @ = NoId THEN NewState(pos + 1) ELSE @, row)]
                       /\ members' = members \cup NewMembers(row)
                  ELSE UNCHANGED <<states, members>>
               /\ UNCHANGED <<pc, choice, read1, read3, period>>

Duplicated(rows) == \E i, j \in DOMAIN rows : i # j /\ rows[i].id = rows[j].id

\* The observed span sticks out of the period, so sessions may be cut.
SpanOutside == Earliest(read1) < period.start \/ Latest(read1) >= period.end

End2 ==
    /\ pc = "pass2" /\ AtEnd
    /\ IF read1 # read2 \/ Duplicated(read2) \/ sums.selected = 0 THEN Fail
       ELSE /\ pc' = IF SpanOutside THEN "pass3" ELSE "ok"
            /\ CloseFile
            /\ UNCHANGED <<choice, read1, read2, read3, period, states, members, sums>>

\* Only sessions already retained are looked up.
Visit3 ==
    LET row == NextRow
    IN /\ Visiting("pass3")
       /\ IF row.t = BadTime THEN Fail
          ELSE /\ read3' = Append(read3, row) /\ Advance
               /\ states' = IF ~Selected(row) /\ row.session \in Retained
                            THEN [states EXCEPT ![row.session].clipped = TRUE] ELSE states
               /\ UNCHANGED <<pc, choice, read1, read2, period, members, sums>>

\* Mutant: the last pass is trusted.
SameAgainAlways == TRUE

SameAgain == read3 = read1

End3 ==
    /\ pc = "pass3" /\ AtEnd
    /\ IF ~SameAgain THEN Fail
       ELSE /\ pc' = "ok" /\ CloseFile
            /\ UNCHANGED <<choice, read1, read2, read3, period, states, members, sums>>

Review == Open \/ ReadFails \/ Visit1 \/ End1 \/ Visit2 \/ End2 \/ Visit3 \/ End3

Next == Review \/ (Writer /\ UNCHANGED revVars)

Spec == Init /\ [][Next]_vars
-----------------------------------------------------------------------------
(* finishSessions: what the report says of the retained sessions.          *)

WithCalls == {s \in Retained : states[s].calls > 0}
Exceeding == {s \in Retained : states[s].cost > Cap /\ states[s].complete}
PartialExceeding == {s \in Retained : states[s].cost > Cap /\ ~states[s].complete}

\* nil unless every selected record was classified.
NoRecordedRejection ==
    IF sums.classified # sums.selected THEN NoId
    ELSE Cardinality({s \in Exceeding : states[s].budgetRejections = 0})

PossiblyClipped(s) ==
    /\ ~states[s].clipped
    /\ \/ Earliest(read1) >= period.start /\ states[s].firstActivity - period.start <= CounterWindow
       \/ Latest(read1) < period.end /\ period.end - states[s].lastActivity <= CounterWindow

LongSpan(s) == states[s].first # NoId /\ states[s].last - states[s].first > CounterWindow
Shared(s) == \E k \in IdKinds : Cardinality({m \in members : m[1] = s /\ m[2] = k}) > 1
-----------------------------------------------------------------------------
\* The types of the variables, within the reader's and the review's limits.
TypeOK ==
    /\ FileTypeOK
    /\ pc \in {"pass1", "pass2", "pass3", "ok", "error"} /\ choice \in Periods
    /\ \A rows \in {read1, read2, read3} : rows \in Seq(Rows) /\ Len(rows) <= MaxRows
    /\ period \in {NoId} \cup [start: Nat, end: Nat]
    /\ states \in [Sessions -> States \cup {NoId}] /\ Cardinality(Retained) <= MaxSessions
    /\ Cardinality(members) <= MaxMembers
    /\ sums \in [selected: Nat, unsupported: Nat, classified: Nat, calls: Nat, tokens: 0..MaxCount,
                 loose: Nat, looseCalls: Nat, looseSpend: Nat]

\* The records of session s in period p, and when they happened.
Mine(p, rows, s) == {i \in DOMAIN rows : rows[i].session = s /\ In(p, rows[i].t)}
Least(rows, I) == IF I = {} THEN NoId ELSE CHOOSE t \in {rows[i].t : i \in I} : \A i \in I : t <= rows[i].t
Most(rows, I) == IF I = {} THEN NoId ELSE CHOOSE t \in {rows[i].t : i \in I} : \A i \in I : rows[i].t <= t

\* What they say about the session, with no regard to the order of rows.
Totals(rows, mine) ==
    LET calls == {i \in mine : Analysed(rows[i])}
        paid == {i \in calls : rows[i].spend > 0}
    IN [calls |-> Cardinality(calls),
        tokens |-> SumFunctionOnSet([i \in calls |-> rows[i].tokens], calls),
        cost |-> SumFunctionOnSet([i \in paid |-> rows[i].spend], paid),
        missing |-> Cardinality({i \in calls : rows[i].spend = -1}),
        invalid |-> Cardinality({i \in calls : rows[i].spend = -2}),
        unanalyzed |-> Cardinality({i \in mine : Unsupported(rows[i])}),
        budgetRejections |-> Cardinality({i \in mine : rows[i].rejection = "session_budget"}),
        censored |-> \E i \in mine : Rejected(rows[i]),
        complete |-> \A i \in mine : Rejected(rows[i]) \/ (Analysed(rows[i]) /\ Usable(rows[i])),
        covered |-> \A i \in mine : rows[i].rejection # "absent",
        first |-> Least(rows, paid), last |-> Most(rows, paid),
        firstActivity |-> Least(rows, mine), lastActivity |-> Most(rows, mine),
        clipped |-> FALSE,
        order |-> CHOOSE i \in mine : \A j \in mine : i <= j]

\* The rows hold activity of session s outside the period.
Cut(p, rows, s) == \E i \in DOMAIN rows : rows[i].session = s /\ ~In(p, rows[i].t)

\* What one file says about session s.
Described(p, rows, s) ==
    IF Mine(p, rows, s) = {} THEN NoId
    ELSE [Totals(rows, Mine(p, rows, s)) EXCEPT !.clipped = Cut(p, rows, s)]

\* A review that succeeds describes one and the same sequence of records in
\* all its parts, whatever happened to the file between and during passes:
\* the period comes from the records that were accumulated, each session is
\* what they say in whatever order, and a session is marked as cut exactly
\* when they hold activity outside the period, the skipped pass included.
ReviewOfOneFile ==
    pc = "ok" => /\ period = SessionPeriod(read2)
                 /\ \A s \in Sessions : states[s] = Described(period, read2, s)

\* The tokens of the calls in period p.
CallsOf(p, rows) == {i \in DOMAIN rows : In(p, rows[i].t) /\ Analysed(rows[i])}
TokensOf(p, rows) == SumFunctionOnSet([i \in CallsOf(p, rows) |-> rows[i].tokens], CallsOf(p, rows))

\* No selected record is lost or counted twice: what the sessions and the
\* unattributed remainder hold adds up to the report's totals, and every
\* retained session is in exactly one class of the report.
Conservation ==
    pc = "ok" =>
        /\ sums.calls = sums.looseCalls + SumFunctionOnSet([s \in Retained |-> states[s].calls], Retained)
        /\ sums.tokens = TokensOf(period, read2)
        /\ sums.tokens >= SumFunctionOnSet([s \in Retained |-> states[s].tokens], Retained)
        /\ Exceeding \cap PartialExceeding = {} /\ Exceeding \subseteq WithCalls
        /\ NoRecordedRejection # NoId => \A s \in Retained : states[s].covered

\* Nothing about the whole file stands in the way of a review.
Reviewable(rows) ==
    /\ rows \in Seq(Rows) /\ Len(rows) <= MaxRows
    /\ \A i \in DOMAIN rows : rows[i].t # BadTime /\ rows[i].id # 0
    /\ ~Duplicated(rows)
    /\ SessionPeriod(rows) # NoId
    /\ LET p == SessionPeriod(rows)
           chosen == {rows[i] : i \in {i \in DOMAIN rows : In(p, rows[i].t)}}
       IN /\ chosen # {}
          /\ \A r \in chosen : /\ r.rejection # "unsupported" /\ (Rejected(r) => r.failed)
                               /\ (r.end # "wrong" \/ Unsupported(r))
          /\ Cardinality({r.session : r \in chosen} \ {NoId}) <= MaxSessions
          /\ Cardinality(UNION {NewMembers(r) : r \in {r \in chosen : r.session # NoId}}) <= MaxMembers
          /\ TokensOf(p, rows) <= MaxCount

\* A file that nobody changes and that is within the limits, up to the very
\* last session, membership and row, is never refused.
StableFileReviewed == changes = 0 /\ Reviewable(file) => pc # "error"

\* The limits hold in both directions: the review never holds more sessions,
\* memberships, rows or tokens than a limit, whatever the file becomes, and
\* refuses no unchanged file that stays within all of them.
ReviewLimitsExact == TypeOK /\ StableFileReviewed
=============================================================================
