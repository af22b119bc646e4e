------------------------- MODULE SessionReviewProofs -------------------------
(***************************************************************************)
(* The safety of SessionReview for every file, every period and all        *)
(* limits, whatever other programs do to the file between and during the   *)
(* passes.                                                                 *)
(***************************************************************************)
EXTENDS SessionReview, SumLemmas

(* What an analysis that reads a SpendFile may rely on: the record it visits *)
(* is a whole one, other programs keep a file a file, and a pass over a file *)
(* that nobody changes reads the file.                                       *)

\* Indices of records form finite sets.
LEMMA IndicesFinite ==
    ASSUME NEW rows \in Seq(Rows), NEW I \in SUBSET DOMAIN rows
    PROVE  IsFiniteSet(I)
<1>1. DOMAIN rows = 1..Len(rows) /\ Len(rows) \in Nat
  OBVIOUS
<1>2. IsFiniteSet(1..Len(rows))
  BY <1>1, FS_Interval
<1>3. QED
  BY <1>1, <1>2, FS_Subset

\* The record a pass visits is a whole one within the row limit.
LEMMA VisitedRow ==
    ASSUME FileTypeOK, HasRow, ~Unreadable
    PROVE  NextRow \in Rows /\ pos < MaxRows /\ pos \in Nat /\ pos + 1 \in 1..Len(Content)
<1>1. Content \in Seq(Rows \cup {Torn})
  BY DEF Content, FileTypeOK
<1>2. MaxRows \in Nat /\ pos \in Nat /\ pos <= MaxRows /\ pos # MaxRows /\ pos < Len(Content)
  BY SpendFileAssumption DEF FileTypeOK, HasRow, Unreadable
<1>3. pos + 1 \in 1..Len(Content)
  BY <1>1, <1>2
<1>4. QED
  BY <1>1, <1>2, <1>3 DEF NextRow, HasRow, Unreadable

\* Other programs keep a file a file, and move no pass.
LEMMA WriterKeepsFile ==
    ASSUME FileTypeOK, Writer
    PROVE  FileTypeOK' /\ pos' = pos /\ (fd' = "closed" <=> fd = "closed")
<1>1. WrittenRows \subseteq Rows /\ Changing \subseteq Seq(Rows \cup {Torn}) /\ MaxWrites \in Nat
  BY SpendFileAssumption
<1>2. file \in Seq(Rows \cup {Torn})
  BY DEF FileTypeOK
<1>3. file' \in Seq(Rows \cup {Torn}) /\ old' \in Seq(Rows \cup {Torn})
      /\ fd' \in {"closed", "path", "old"} /\ (fd' = "closed" <=> fd = "closed")
  <2>1. CASE Append1
    BY <1>1, <1>2, <2>1 DEF Append1, FileTypeOK
  <2>2. CASE Rewrite
    BY <1>1, <1>2, <2>2 DEF Rewrite, FileTypeOK
  <2>3. CASE Truncate
    BY <1>1, <1>2, <2>3 DEF Truncate, FileTypeOK
  <2>4. CASE Replace
    BY <1>1, <1>2, <2>4 DEF Replace, FileTypeOK
  <2>5. QED
    BY <2>1, <2>2, <2>3, <2>4 DEF Writer
<1>4. changes' \in 0..MaxWrites /\ pos' = pos
  BY <1>1 DEF Writer, FileTypeOK
<1>5. QED
  BY <1>3, <1>4 DEF FileTypeOK

\* Nor does opening, advancing or closing the file spoil it.
LEMMA FileSteps ==
    ASSUME FileTypeOK
    PROVE  /\ OpenFile => FileTypeOK' /\ fd' = "path" /\ pos' = 0
           /\ CloseFile => FileTypeOK' /\ fd' = "closed" /\ pos' = 0
           /\ HasRow /\ ~Unreadable /\ Advance => FileTypeOK' /\ pos' = pos + 1 /\ fd' = fd /\ fd # "closed"
<1>1. MaxRows \in Nat
  BY SpendFileAssumption
<1>2. OpenFile => FileTypeOK' /\ fd' = "path" /\ pos' = 0
  BY <1>1 DEF OpenFile, FileTypeOK
<1>3. CloseFile => FileTypeOK' /\ fd' = "closed" /\ pos' = 0
  BY <1>1 DEF CloseFile, FileTypeOK
<1>4. HasRow /\ ~Unreadable /\ Advance => FileTypeOK' /\ pos' = pos + 1 /\ fd' = fd /\ fd # "closed"
  BY <1>1, VisitedRow DEF Advance, FileTypeOK, HasRow
<1>5. QED
  BY <1>2, <1>3, <1>4

\* At the end of a file a pass has read all of it.
LEMMA AllRead ==
    ASSUME NEW rows \in Seq(Rows), file \in Seq(Rows \cup {Torn}), Begins(rows, file), Len(rows) = pos,
           fd # "old", AtEnd
    PROVE  rows = file
<1>1. Len(rows) = Len(file) /\ Len(rows) \in Nat
  BY DEF AtEnd, Content, Begins
<1>2. \A i \in 1..Len(rows) : rows[i] = file[i]
  BY DEF Begins
<1>3. DOMAIN rows = DOMAIN file
  BY <1>1
<1>4. rows = [i \in 1..Len(rows) |-> rows[i]] /\ file = [i \in 1..Len(rows) |-> file[i]]
  BY <1>1
<1>5. QED
  BY <1>2, <1>4

\* The next record of an unchanged file.
LEMMA NextOfFile ==
    ASSUME NEW rows \in Seq(Rows), file \in Seq(Rows \cup {Torn}), Begins(rows, file), Len(rows) = pos,
           fd # "old", HasRow
    PROVE  NextRow = file[pos + 1] /\ pos + 1 \in DOMAIN file /\ Begins(Append(rows, NextRow), file)
<1>1. PICK n : n = pos + 1
  OBVIOUS
<1>2. Content = file /\ NextRow = file[n] /\ pos < Len(file) /\ pos \in Nat /\ Len(file) \in Nat
  BY <1>1 DEF HasRow, Content, NextRow
<1>3. n \in DOMAIN file
  BY <1>1, <1>2
<1>4. PICK more : more = Append(rows, NextRow)
  OBVIOUS
<1>5. DOMAIN more = 1..n /\ Len(more) = n
  BY <1>1, <1>4
<1>6. \A i \in 1..n : more[i] = file[i]
  <2>1. TAKE i \in 1..n
  <2>2. CASE i = n
    BY <1>1, <1>2, <1>4, <2>2
  <2>3. CASE i # n
    BY <1>1, <1>2, <1>4, <2>3 DEF Begins
  <2>4. QED
    BY <2>2, <2>3
<1>7. QED
  BY <1>1, <1>2, <1>3, <1>4, <1>5, <1>6 DEF Begins
-----------------------------------------------------------------------------

-----------------------------------------------------------------------------
(* What a session's state is after one more of its records. The state is   *)
(* accumulated in the order of the file; Totals has no order.               *)

\* The records of an export have the fields the review reads.
LEMMA RowTypes ==
    ASSUME NEW row \in Rows
    PROVE  /\ row.tokens \in Nat /\ row.spend \in Nat \cup {-1, -2}
           /\ row.session \in Sessions \cup {NoId} /\ row.t \in {BadTime} \cup Nat
           /\ row.rejection \in {"absent", "none", "session_budget", "other", "unsupported"}
           /\ row.supported \in BOOLEAN
  BY SessionAssumption DEF RowFields

\* So do the times of records.
LEMMA TimesFinite ==
    ASSUME NEW rows \in Seq(Rows), NEW I \in SUBSET DOMAIN rows
    PROVE  IsFiniteSet({rows[i].t : i \in I})
<1>1. PICK f : f = [i \in I |-> rows[i].t]
  OBVIOUS
<1>2. {rows[i].t : i \in I} = {f[i] : i \in I}
  BY <1>1
<1>3. IsFiniteSet({f[i] : i \in I})
  BY IndicesFinite, ImageFinite
<1>4. QED
  BY <1>2, <1>3

\* The earliest and the latest time, as they move with one more record.
LEMMA LeastMoves ==
    ASSUME NEW rows \in Seq(Rows), NEW I \in SUBSET DOMAIN rows, NEW n \in DOMAIN rows,
           \A i \in I \cup {n} : rows[i].t \in Nat
    PROVE  /\ Least(rows, I \cup {n}) = Earlier(Least(rows, I), rows[n].t)
           /\ Least(rows, I \cup {n}) \in {rows[i].t : i \in I \cup {n}}
           /\ \A i \in I \cup {n} : Least(rows, I \cup {n}) <= rows[i].t
<1>1. PICK l : l = Earlier(Least(rows, I), rows[n].t)
  OBVIOUS
<1>2. I # {} => Least(rows, I) \in {rows[i].t : i \in I} /\ \A i \in I : Least(rows, I) <= rows[i].t
  <2>1. SUFFICES ASSUME I # {} PROVE \E t \in {rows[i].t : i \in I} : \A i \in I : t <= rows[i].t
    BY DEF Least
  <2>2. IsFiniteSet({rows[i].t : i \in I})
    BY TimesFinite
  <2>3. {rows[i].t : i \in I} \subseteq Nat /\ {rows[i].t : i \in I} # {}
    BY <2>1
  <2> DEFINE T == {rows[i].t : i \in I}
  <2>4. (\E m \in T : \A x \in T : m <= x) /\ (\E m \in T : \A x \in T : x <= m)
    <3> HIDE DEF T
    <3>1. QED
      BY <2>2, <2>3, Extremes DEF T
  <2>5. QED
    BY <2>4
<1>3. l \in {rows[i].t : i \in I \cup {n}} /\ \A i \in I \cup {n} : l <= rows[i].t
  <2>1. CASE I = {}
    BY <1>1, <2>1 DEF Earlier, Least
  <2>2. CASE I # {}
    <3>1. Least(rows, I) \in Nat /\ Least(rows, I) # NoId
      BY <1>2, <2>2, SessionAssumption
    <3>2. QED
      BY <1>1, <1>2, <2>2, <3>1 DEF Earlier
  <2>3. QED
    BY <2>1, <2>2
<1>4. \A t \in {rows[i].t : i \in I \cup {n}} : (\A i \in I \cup {n} : t <= rows[i].t) => t = l
  BY <1>3
<1>5. Least(rows, I \cup {n}) = l
  BY <1>3, <1>4 DEF Least
<1>6. QED
  BY <1>1, <1>3, <1>5

\* The same for the latest.
LEMMA MostMoves ==
    ASSUME NEW rows \in Seq(Rows), NEW I \in SUBSET DOMAIN rows, NEW n \in DOMAIN rows,
           \A i \in I \cup {n} : rows[i].t \in Nat
    PROVE  /\ Most(rows, I \cup {n}) = Later(Most(rows, I), rows[n].t)
           /\ Most(rows, I \cup {n}) \in {rows[i].t : i \in I \cup {n}}
           /\ \A i \in I \cup {n} : rows[i].t <= Most(rows, I \cup {n})
<1>1. PICK l : l = Later(Most(rows, I), rows[n].t)
  OBVIOUS
<1>2. I # {} => Most(rows, I) \in {rows[i].t : i \in I} /\ \A i \in I : rows[i].t <= Most(rows, I)
  <2>1. SUFFICES ASSUME I # {} PROVE \E t \in {rows[i].t : i \in I} : \A i \in I : rows[i].t <= t
    BY DEF Most
  <2>2. IsFiniteSet({rows[i].t : i \in I})
    BY TimesFinite
  <2>3. {rows[i].t : i \in I} \subseteq Nat /\ {rows[i].t : i \in I} # {}
    BY <2>1
  <2> DEFINE T == {rows[i].t : i \in I}
  <2>4. (\E m \in T : \A x \in T : m <= x) /\ (\E m \in T : \A x \in T : x <= m)
    <3> HIDE DEF T
    <3>1. QED
      BY <2>2, <2>3, Extremes DEF T
  <2>5. QED
    BY <2>4
<1>3. l \in {rows[i].t : i \in I \cup {n}} /\ \A i \in I \cup {n} : rows[i].t <= l
  <2>1. CASE I = {}
    BY <1>1, <2>1 DEF Later, Most
  <2>2. CASE I # {}
    <3>1. Most(rows, I) \in Nat /\ Most(rows, I) # NoId
      BY <1>2, <2>2, SessionAssumption
    <3>2. QED
      BY <1>1, <1>2, <2>2, <3>1 DEF Later
  <2>3. QED
    BY <2>1, <2>2
<1>4. \A t \in {rows[i].t : i \in I \cup {n}} : (\A i \in I \cup {n} : rows[i].t <= t) => t = l
  BY <1>3
<1>5. Most(rows, I \cup {n}) = l
  BY <1>3, <1>4 DEF Most
<1>6. QED
  BY <1>1, <1>3, <1>5

\* One more record adds its tokens to the sum.
LEMMA TokensMore ==
    ASSUME NEW rows \in Seq(Rows), NEW I \in SUBSET DOMAIN rows, NEW n \in DOMAIN rows, n \notin I
    PROVE  /\ SumFunctionOnSet([i \in I |-> rows[i].tokens], I) \in Nat
           /\ SumFunctionOnSet([i \in I \cup {n} |-> rows[i].tokens], I \cup {n})
                = SumFunctionOnSet([i \in I |-> rows[i].tokens], I) + rows[n].tokens
<1>1. PICK f, g : f = [i \in I |-> rows[i].tokens] /\ g = [i \in I \cup {n} |-> rows[i].tokens]
  OBVIOUS
<1>2. IsFiniteSet(I)
  BY IndicesFinite
<1>3. \A i \in I \cup {n} : g[i] \in Nat /\ (i \in I => f[i] = g[i])
  BY <1>1, RowTypes
<1>4. SumFunctionOnSet(g, I \cup {n}) = g[n] + SumFunctionOnSet(g, I)
  BY <1>2, <1>3, SumAdd
<1>5. SumFunctionOnSet(g, I) = SumFunctionOnSet(f, I)
  BY <1>2, <1>3, SumSame
<1>6. SumFunctionOnSet(f, I) \in Nat /\ g[n] = rows[n].tokens /\ g[n] \in Nat
  BY <1>1, <1>2, <1>3, SumType
<1>7. QED
  BY <1>1, <1>4, <1>5, <1>6

\* One more paid record adds its amount.
LEMMA SpendMore ==
    ASSUME NEW rows \in Seq(Rows), NEW I \in SUBSET DOMAIN rows, NEW n \in DOMAIN rows, n \notin I,
           \A i \in I \cup {n} : rows[i].spend > 0
    PROVE  /\ SumFunctionOnSet([i \in I |-> rows[i].spend], I) \in Nat
           /\ SumFunctionOnSet([i \in I \cup {n} |-> rows[i].spend], I \cup {n})
                = SumFunctionOnSet([i \in I |-> rows[i].spend], I) + rows[n].spend
<1>1. PICK f, g : f = [i \in I |-> rows[i].spend] /\ g = [i \in I \cup {n} |-> rows[i].spend]
  OBVIOUS
<1>2. IsFiniteSet(I)
  BY IndicesFinite
<1>3. \A i \in I \cup {n} : g[i] \in Nat /\ (i \in I => f[i] = g[i])
  <2>1. \A i \in I \cup {n} : rows[i].spend \in Nat \cup {-1, -2}
    BY RowTypes
  <2>2. \A i \in I \cup {n} : rows[i].spend \in Nat
    BY <2>1
  <2>3. QED
    BY <1>1, <2>2
<1>4. SumFunctionOnSet(g, I \cup {n}) = g[n] + SumFunctionOnSet(g, I)
  BY <1>2, <1>3, SumAdd
<1>5. SumFunctionOnSet(g, I) = SumFunctionOnSet(f, I)
  BY <1>2, <1>3, SumSame
<1>6. SumFunctionOnSet(f, I) \in Nat /\ g[n] = rows[n].spend /\ g[n] \in Nat
  BY <1>1, <1>2, <1>3, SumType
<1>7. QED
  BY <1>1, <1>4, <1>5, <1>6

\* A session's state, field by field.
State(c, k, a, m, v, u, b, g, z, w, f, l, fa, la, x, o) ==
    [calls |-> c, tokens |-> k, cost |-> a, missing |-> m, invalid |-> v, unanalyzed |-> u,
     budgetRejections |-> b, censored |-> g, complete |-> z, covered |-> w, first |-> f,
     last |-> l, firstActivity |-> fa, lastActivity |-> la, clipped |-> x, order |-> o]

\* Touch, field by field.
LEMMA TouchFields ==
    ASSUME NEW c, NEW k, NEW a, NEW m, NEW v, NEW u, NEW b, NEW g, NEW z, NEW w \in BOOLEAN,
           NEW f, NEW l, NEW fa, NEW la, NEW x, NEW o, NEW row
    PROVE  Touch(State(c, k, a, m, v, u, b, g, z, w, f, l, fa, la, x, o), row)
           = State(c, k, a, m, v, u, b, g, z, w /\ row.rejection # "absent", f, l,
                   Earlier(fa, row.t), Later(la, row.t), x, o)
<1>1. PICK R0, R1, R2, wn : 
        /\ wn = (w /\ row.rejection # "absent")
        /\ R0 = State(c, k, a, m, v, u, b, g, z, w, f, l, fa, la, x, o)
        /\ R1 = State(c, k, a, m, v, u, b, g, z, wn, f, l, fa, la, x, o)
        /\ R2 = State(c, k, a, m, v, u, b, g, z, wn, f, l, Earlier(fa, row.t), la, x, o)
  OBVIOUS
<1>2. [R0 EXCEPT !.covered = R0.covered /\ row.rejection # "absent"] = R1
  BY <1>1 DEF State
<1>3. [R1 EXCEPT !.firstActivity = Earlier(R1.firstActivity, row.t)] = R2
  BY <1>1 DEF State
<1>4. [R2 EXCEPT !.lastActivity = Later(R2.lastActivity, row.t)]
       = State(c, k, a, m, v, u, b, g, z, wn, f, l, Earlier(fa, row.t), Later(la, row.t), x, o)
  BY <1>1 DEF State
<1>5. Touch(R0, row) = [R2 EXCEPT !.lastActivity = Later(R2.lastActivity, row.t)]
  BY <1>2, <1>3 DEF Touch
<1>6. QED
  BY <1>1, <1>4, <1>5

\* Call, field by field.
LEMMA CallFields ==
    ASSUME NEW c, NEW k, NEW a, NEW m, NEW v, NEW u, NEW b, NEW g, NEW z, NEW w, NEW f, NEW l,
           NEW fa, NEW la, NEW x, NEW o, NEW row
    PROVE  Call(State(c, k, a, m, v, u, b, g, z, w, f, l, fa, la, x, o), row)
           = State(c + 1, k + row.tokens, a + (IF Usable(row) THEN row.spend ELSE 0),
                   m + (IF row.spend = -1 THEN 1 ELSE 0), v + (IF row.spend = -2 THEN 1 ELSE 0),
                   u, b, g,
                   m + (IF row.spend = -1 THEN 1 ELSE 0) + (v + (IF row.spend = -2 THEN 1 ELSE 0)) + u = 0,
                   w, IF row.spend > 0 THEN Earlier(f, row.t) ELSE f,
                   IF row.spend > 0 THEN Later(l, row.t) ELSE l, fa, la, x, o)
<1>1. PICK mn, vn, an, fn, ln :
        /\ mn = m + (IF row.spend = -1 THEN 1 ELSE 0) /\ vn = v + (IF row.spend = -2 THEN 1 ELSE 0)
        /\ an = a + (IF Usable(row) THEN row.spend ELSE 0)
        /\ fn = (IF row.spend > 0 THEN Earlier(f, row.t) ELSE f)
        /\ ln = (IF row.spend > 0 THEN Later(l, row.t) ELSE l)
  OBVIOUS
<1>2. PICK R0, R1, R2, R3, R4, R5, R6, R7 :
        /\ R0 = State(c, k, a, m, v, u, b, g, z, w, f, l, fa, la, x, o)
        /\ R1 = State(c + 1, k, a, m, v, u, b, g, z, w, f, l, fa, la, x, o)
        /\ R2 = State(c + 1, k + row.tokens, a, m, v, u, b, g, z, w, f, l, fa, la, x, o)
        /\ R3 = State(c + 1, k + row.tokens, a, mn, v, u, b, g, z, w, f, l, fa, la, x, o)
        /\ R4 = State(c + 1, k + row.tokens, a, mn, vn, u, b, g, z, w, f, l, fa, la, x, o)
        /\ R5 = State(c + 1, k + row.tokens, an, mn, vn, u, b, g, z, w, f, l, fa, la, x, o)
        /\ R6 = State(c + 1, k + row.tokens, an, mn, vn, u, b, g, z, w, fn, l, fa, la, x, o)
        /\ R7 = State(c + 1, k + row.tokens, an, mn, vn, u, b, g, z, w, fn, ln, fa, la, x, o)
  OBVIOUS
<1>3. [R0 EXCEPT !.calls = R0.calls + 1]
       = R1
  BY <1>1, <1>2 DEF State
<1>4. [R1 EXCEPT !.tokens = R0.tokens + row.tokens]
       = R2
  BY <1>1, <1>2 DEF State
<1>5. [R2 EXCEPT !.missing = mn]
       = R3
  BY <1>1, <1>2 DEF State
<1>6. [R3 EXCEPT !.invalid = vn]
       = R4
  BY <1>1, <1>2 DEF State
<1>7. [R4 EXCEPT !.cost = R0.cost + IF Usable(row) THEN row.spend ELSE 0]
       = R5
  BY <1>1, <1>2 DEF State
<1>8. [R5 EXCEPT !.first = IF row.spend > 0 THEN Earlier(R0.first, row.t) ELSE R0.first]
       = R6
  BY <1>1, <1>2 DEF State
<1>9. [R6 EXCEPT !.last = IF row.spend > 0 THEN Later(R0.last, row.t) ELSE R0.last]
       = R7
  BY <1>1, <1>2 DEF State
<1>10. [R7 EXCEPT !.complete = mn + vn + R0.unanalyzed = 0]
       = State(c + 1, k + row.tokens, an, mn, vn, u, b, g, mn + vn + u = 0, w, fn, ln, fa, la, x, o)
  BY <1>1, <1>2 DEF State
<1>11. Call(R0, row) = [R7 EXCEPT !.complete = mn + vn + R0.unanalyzed = 0]
  <2>1. R0.missing = m /\ R0.invalid = v
    BY <1>2 DEF State
  <2>2. QED
    BY <1>1, <1>3, <1>4, <1>5, <1>6, <1>7, <1>8, <1>9, <2>1 DEF Call
<1>12. QED
  BY <1>1, <1>2, <1>10, <1>11

\* What every record of a session moves, and what each of the three kinds
\* of records moves besides.
Activity(row, w, wn, fa, fan, la, lan) ==
    /\ w \in BOOLEAN /\ wn = (w /\ row.rejection # "absent")
    /\ fan = Earlier(fa, row.t) /\ lan = Later(la, row.t)

RejectedMove(row, b, bn, gn) ==
    /\ Rejected(row) /\ gn = TRUE
    /\ bn = b + (IF row.rejection = "session_budget" THEN 1 ELSE 0)

UnsupportedMove(row, u, un, zn) == Unsupported(row) /\ un = u + 1 /\ zn = FALSE

AnalysedMove(row, c, cn, k, kn, a, an, m, mn, v, vn, u, zn, f, fn, l, ln) ==
    /\ Analysed(row) /\ cn = c + 1 /\ kn = k + row.tokens
    /\ an = a + (IF Usable(row) THEN row.spend ELSE 0)
    /\ mn = m + (IF row.spend = -1 THEN 1 ELSE 0)
    /\ vn = v + (IF row.spend = -2 THEN 1 ELSE 0)
    /\ zn = (mn + vn + u = 0)
    /\ fn = (IF row.spend > 0 THEN Earlier(f, row.t) ELSE f)
    /\ ln = (IF row.spend > 0 THEN Later(l, row.t) ELSE l)

\* Accumulate, field by field, for each of the three kinds of records.
LEMMA RejectedFields ==
    ASSUME NEW c, NEW k, NEW a, NEW m, NEW v, NEW u, NEW b, NEW g, NEW z, NEW w,
           NEW f, NEW l, NEW fa, NEW la, NEW x, NEW o, NEW row,
           NEW wn, NEW fan, NEW lan, Activity(row, w, wn, fa, fan, la, lan),
           NEW bn, NEW gn, RejectedMove(row, b, bn, gn)
    PROVE  Accumulate(State(c, k, a, m, v, u, b, g, z, w, f, l, fa, la, x, o), row)
           = State(c, k, a, m, v, u, bn, gn, z, wn, f, l, fan, lan, x, o)
<1>2. PICK R, R0, R1, R2 :
        /\ R = State(c, k, a, m, v, u, b, g, z, w, f, l, fa, la, x, o)
        /\ R0 = State(c, k, a, m, v, u, b, g, z, wn, f, l, fan, lan, x, o)
        /\ R1 = State(c, k, a, m, v, u, b, gn, z, wn, f, l, fan, lan, x, o)
        /\ R2 = State(c, k, a, m, v, u, bn, gn, z, wn, f, l, fan, lan, x, o)
  OBVIOUS
<1>3. Touch(R, row) = R0
  <2>1. Touch(R, row) = State(c, k, a, m, v, u, b, g, z, w /\ row.rejection # "absent", f, l,
                              Earlier(fa, row.t), Later(la, row.t), x, o)
    BY <1>2, TouchFields DEF Activity
  <2>2. QED
    BY <1>2, <2>1 DEF Activity
<1>4. [R0 EXCEPT !.censored = gn] = R1
  BY ONLY <1>2 DEF State
<1>5. R1.budgetRejections = b
  BY ONLY <1>2 DEF State
<1>6. [R1 EXCEPT !.budgetRejections = bn] = R2
  BY ONLY <1>2 DEF State
<1>7. Accumulate(R, row) = [R1 EXCEPT !.budgetRejections = bn]
  BY <1>3, <1>4, <1>5 DEF Accumulate, RejectedMove
<1>8. QED
  BY <1>2, <1>6, <1>7

\* A record of a failed or unknown kind is counted and makes the sum partial.
LEMMA UnsupportedFields ==
    ASSUME NEW c, NEW k, NEW a, NEW m, NEW v, NEW u, NEW b, NEW g, NEW z, NEW w,
           NEW f, NEW l, NEW fa, NEW la, NEW x, NEW o, NEW row,
           NEW wn, NEW fan, NEW lan, Activity(row, w, wn, fa, fan, la, lan),
           NEW un, NEW zn, UnsupportedMove(row, u, un, zn)
    PROVE  Accumulate(State(c, k, a, m, v, u, b, g, z, w, f, l, fa, la, x, o), row)
           = State(c, k, a, m, v, un, b, g, zn, wn, f, l, fan, lan, x, o)
<1>2. PICK R, R0, R1, R2 :
        /\ R = State(c, k, a, m, v, u, b, g, z, w, f, l, fa, la, x, o)
        /\ R0 = State(c, k, a, m, v, u, b, g, z, wn, f, l, fan, lan, x, o)
        /\ R1 = State(c, k, a, m, v, un, b, g, z, wn, f, l, fan, lan, x, o)
        /\ R2 = State(c, k, a, m, v, un, b, g, zn, wn, f, l, fan, lan, x, o)
  OBVIOUS
<1>3. Touch(R, row) = R0
  <2>1. Touch(R, row) = State(c, k, a, m, v, u, b, g, z, w /\ row.rejection # "absent", f, l,
                              Earlier(fa, row.t), Later(la, row.t), x, o)
    BY <1>2, TouchFields DEF Activity
  <2>2. QED
    BY <1>2, <2>1 DEF Activity
<1>4. R0.unanalyzed = u
  BY ONLY <1>2 DEF State
<1>5. [R0 EXCEPT !.unanalyzed = un] = R1
  BY ONLY <1>2 DEF State
<1>6. [R1 EXCEPT !.complete = zn] = R2
  BY ONLY <1>2 DEF State
<1>7. Unsupported(row) /\ ~Rejected(row) /\ un = u + 1 /\ zn = FALSE
  BY DEF Unsupported, UnsupportedMove
<1>8. Accumulate(R, row) = [R1 EXCEPT !.complete = zn]
  BY <1>3, <1>4, <1>5, <1>7 DEF Accumulate
<1>9. QED
  BY <1>2, <1>6, <1>8

\* A logged model call.
LEMMA AnalysedFields ==
    ASSUME NEW c, NEW k, NEW a, NEW m, NEW v, NEW u, NEW b, NEW g, NEW z, NEW w,
           NEW f, NEW l, NEW fa, NEW la, NEW x, NEW o, NEW row,
           NEW wn, NEW fan, NEW lan, Activity(row, w, wn, fa, fan, la, lan),
           NEW cn, NEW kn, NEW an, NEW mn, NEW vn, NEW zn, NEW fn, NEW ln,
           AnalysedMove(row, c, cn, k, kn, a, an, m, mn, v, vn, u, zn, f, fn, l, ln)
    PROVE  Accumulate(State(c, k, a, m, v, u, b, g, z, w, f, l, fa, la, x, o), row)
           = State(cn, kn, an, mn, vn, u, b, g, zn, wn, fn, ln, fan, lan, x, o)
<1>2. PICK R, R0 :
        /\ R = State(c, k, a, m, v, u, b, g, z, w, f, l, fa, la, x, o)
        /\ R0 = State(c, k, a, m, v, u, b, g, z, wn, f, l, fan, lan, x, o)
  OBVIOUS
<1>3. Touch(R, row) = R0
  <2>1. Touch(R, row) = State(c, k, a, m, v, u, b, g, z, w /\ row.rejection # "absent", f, l,
                              Earlier(fa, row.t), Later(la, row.t), x, o)
    BY <1>2, TouchFields DEF Activity
  <2>2. QED
    BY <1>2, <2>1 DEF Activity
<1>4. ~Rejected(row) /\ ~Unsupported(row)
  BY DEF Analysed, Unsupported, AnalysedMove
<1>5. Accumulate(R, row) = Call(R0, row)
  BY <1>3, <1>4 DEF Accumulate
<1>6. Call(R0, row) = State(c + 1, k + row.tokens, a + (IF Usable(row) THEN row.spend ELSE 0),
                   m + (IF row.spend = -1 THEN 1 ELSE 0), v + (IF row.spend = -2 THEN 1 ELSE 0),
                   u, b, g,
                   m + (IF row.spend = -1 THEN 1 ELSE 0) + (v + (IF row.spend = -2 THEN 1 ELSE 0)) + u = 0,
                   wn, IF row.spend > 0 THEN Earlier(f, row.t) ELSE f,
                   IF row.spend > 0 THEN Later(l, row.t) ELSE l, fan, lan, x, o)
  BY <1>2, CallFields
<1>7. QED
  BY <1>2, <1>5, <1>6 DEF AnalysedMove

\* Accumulate is what one more record, the last so far, adds to Totals.
LEMMA TotalsGrow ==
    ASSUME NEW rows \in Seq(Rows), NEW I \in SUBSET DOMAIN rows, NEW n \in DOMAIN rows,
           \A i \in I : i < n, \A i \in I \cup {n} : rows[i].t \in Nat
    PROVE  Totals(rows, I \cup {n}) =
             Accumulate(IF I = {} THEN NewState(n) ELSE Totals(rows, I), rows[n])
<1> DEFINE J == I \cup {n}
<1>0. /\ J \in SUBSET DOMAIN rows /\ n \notin I /\ IsFiniteSet(I) /\ n \in Int /\ I \subseteq Int
      /\ \A i \in J : rows[i] \in Rows
  <2>1. DOMAIN rows = 1..Len(rows)
    OBVIOUS
  <2>2. QED
    BY <2>1, IndicesFinite
<1>1. PICK row : row = rows[n]
  OBVIOUS
<1>2. PICK c, cn, q, qn :
        /\ c = {i \in I : Analysed(rows[i])} /\ cn = {i \in J : Analysed(rows[i])}
        /\ q = {i \in c : rows[i].spend > 0} /\ qn = {i \in cn : rows[i].spend > 0}
  OBVIOUS
<1>3. PICK m, mn, v, vn, u, un, b, bn :
        /\ m = {i \in c : rows[i].spend = -1} /\ mn = {i \in cn : rows[i].spend = -1}
        /\ v = {i \in c : rows[i].spend = -2} /\ vn = {i \in cn : rows[i].spend = -2}
        /\ u = {i \in I : Unsupported(rows[i])} /\ un = {i \in J : Unsupported(rows[i])}
        /\ b = {i \in I : rows[i].rejection = "session_budget"}
        /\ bn = {i \in J : rows[i].rejection = "session_budget"}
  OBVIOUS
<1>4. /\ \A S \in {c, q, m, v, u, b} : S \in SUBSET I /\ IsFiniteSet(S) /\ n \notin S
      /\ cn = IF Analysed(row) THEN c \cup {n} ELSE c
      /\ qn = IF Analysed(row) /\ row.spend > 0 THEN q \cup {n} ELSE q
      /\ mn = IF Analysed(row) /\ row.spend = -1 THEN m \cup {n} ELSE m
      /\ vn = IF Analysed(row) /\ row.spend = -2 THEN v \cup {n} ELSE v
      /\ un = IF Unsupported(row) THEN u \cup {n} ELSE u
      /\ bn = IF row.rejection = "session_budget" THEN b \cup {n} ELSE b
  <2>1. \A S \in {c, q, m, v, u, b} : S \in SUBSET I
    BY <1>2, <1>3
  <2>2. \A S \in {c, q, m, v, u, b} : IsFiniteSet(S) /\ n \notin S
    BY <1>0, <2>1, FS_Subset
  <2>3. QED
    BY <1>1, <1>2, <1>3, <2>1, <2>2
<1>5. /\ \A S \in {c, q, m, v, u, b} : Cardinality(S) \in Nat /\ Cardinality(S \cup {n}) = Cardinality(S) + 1
  BY <1>4, CountMore, FS_CardinalityType
<1>6. PICK k, kn, a, an :
        /\ k = SumFunctionOnSet([i \in c |-> rows[i].tokens], c)
        /\ kn = SumFunctionOnSet([i \in cn |-> rows[i].tokens], cn)
        /\ a = SumFunctionOnSet([i \in q |-> rows[i].spend], q)
        /\ an = SumFunctionOnSet([i \in qn |-> rows[i].spend], qn)
  OBVIOUS
<1>7. /\ k \in Nat /\ kn = k + (IF Analysed(row) THEN row.tokens ELSE 0)
      /\ row.tokens \in Nat /\ row.spend \in Nat \cup {-1, -2}
  <2>1. c \in SUBSET DOMAIN rows /\ n \notin c
    BY <1>4
  <2>2. row.tokens \in Nat /\ row.spend \in Nat \cup {-1, -2}
    BY <1>0, <1>1, RowTypes
  <2>3. k \in Nat /\ SumFunctionOnSet([i \in c \cup {n} |-> rows[i].tokens], c \cup {n}) = k + row.tokens
    BY <1>1, <1>6, <2>1, TokensMore
  <2>4. cn = (IF Analysed(row) THEN c \cup {n} ELSE c)
    BY <1>4
  <2>5. kn = k + (IF Analysed(row) THEN row.tokens ELSE 0)
    <3>1. CASE Analysed(row)
      <4>1. cn = c \cup {n}
        BY ONLY <2>4, <3>1
      <4>2. kn = k + row.tokens
        BY ONLY <1>6, <2>3, <4>1
      <4>3. QED
        BY ONLY <3>1, <4>2
    <3>2. CASE ~Analysed(row)
      <4>1. cn = c
        BY ONLY <2>4, <3>2
      <4>2. kn = k + 0
        BY ONLY <1>6, <2>3, <4>1
      <4>3. QED
        BY ONLY <3>2, <4>2
    <3>3. QED
      BY ONLY <3>1, <3>2
  <2>6. QED
    BY ONLY <2>2, <2>3, <2>5
<1>8. a \in Nat /\ an = a + (IF Analysed(row) /\ row.spend > 0 THEN row.spend ELSE 0)
  <2>1. q \in SUBSET DOMAIN rows /\ n \notin q /\ \A i \in q : rows[i].spend > 0
    BY <1>2, <1>4
  <2>2. CASE Analysed(row) /\ row.spend > 0
    BY <1>1, <1>4, <1>6, <2>1, <2>2, SpendMore
  <2>3. CASE ~(Analysed(row) /\ row.spend > 0)
    <3>1. a \in Nat
      <4>1. PICK f : f = [i \in q |-> rows[i].spend]
        OBVIOUS
      <4>2. \A i \in q : f[i] \in Nat
        <5>1. \A i \in q : rows[i].spend \in Nat \cup {-1, -2}
          BY <2>1, RowTypes
        <5>2. QED
          BY <2>1, <4>1, <5>1
      <4>3. QED
        BY <1>4, <1>6, <4>1, <4>2, SumType
    <3>2. qn = q
      BY <1>4, <2>3
    <3>3. QED
      BY <1>6, <2>3, <3>1, <3>2
  <2>4. QED
    BY <2>2, <2>3
<1>9. PICK o, on : /\ o = (IF I = {} THEN n ELSE CHOOSE i \in I : \A j \in I : i <= j)
                   /\ on = CHOOSE i \in J : \A j \in J : i <= j
  OBVIOUS
<1>10. on = o
  <2>1. CASE I = {}
    BY <1>0, <1>9, <2>1
  <2>2. CASE I # {}
    <3>1. \E i \in I : \A j \in I : i <= j
      <4>1. I \subseteq Nat
        OBVIOUS
      <4>2. QED
        BY <1>0, <2>2, <4>1, Extremes
    <3>2. o \in I /\ \A j \in I : o <= j
      BY <1>9, <2>2, <3>1
    <3>3. o \in J /\ \A j \in J : o <= j
      BY <1>0, <3>2
    <3>4. \A i \in J : (\A j \in J : i <= j) => i = o
      BY <1>0, <3>3
    <3>5. QED
      BY <1>9, <3>3, <3>4
  <2>3. QED
    BY <2>1, <2>2
<1>11. PICK T : T = IF I = {} THEN NewState(n) ELSE Totals(rows, I)
  OBVIOUS
<1>12. T = State(Cardinality(c), k, a, Cardinality(m), Cardinality(v), Cardinality(u), Cardinality(b),
                 \E i \in I : Rejected(rows[i]),
                 \A i \in I : Rejected(rows[i]) \/ (Analysed(rows[i]) /\ Usable(rows[i])),
                 \A i \in I : rows[i].rejection # "absent",
                 Least(rows, q), Most(rows, q), Least(rows, I), Most(rows, I), FALSE, o)
  <2>1. CASE I = {}
    <3>1. \A S \in {c, q, m, v, u, b} : S = {} /\ Cardinality(S) = 0
      BY <1>4, <2>1, FS_EmptySet
    <3>2. k = 0 /\ a = 0
      BY <1>4, <1>6, <3>1, SumStep
    <3>3. Least(rows, q) = NoId /\ Most(rows, q) = NoId /\ Least(rows, I) = NoId /\ Most(rows, I) = NoId
      BY <2>1, <3>1 DEF Least, Most
    <3>4. QED
      BY <1>9, <1>11, <2>1, <3>1, <3>2, <3>3 DEF NewState, State
  <2>2. CASE I # {}
    <3>1. T = Totals(rows, I) /\ o = CHOOSE i \in I : \A j \in I : i <= j
      BY <1>9, <1>11, <2>2
    <3>2. QED
      BY <1>2, <1>3, <1>6, <3>1 DEF Totals, State
  <2>3. QED
    BY <2>1, <2>2
<1>13. Totals(rows, J) =
           State(Cardinality(cn), kn, an, Cardinality(mn), Cardinality(vn), Cardinality(un), Cardinality(bn),
                 \E i \in J : Rejected(rows[i]),
                 \A i \in J : Rejected(rows[i]) \/ (Analysed(rows[i]) /\ Usable(rows[i])),
                 \A i \in J : rows[i].rejection # "absent",
                 Least(rows, qn), Most(rows, qn), Least(rows, J), Most(rows, J), FALSE, on)
  BY <1>2, <1>3, <1>6, <1>9 DEF Totals, State
<1>14. /\ Least(rows, J) = Earlier(Least(rows, I), row.t) /\ Most(rows, J) = Later(Most(rows, I), row.t)
       /\ Analysed(row) /\ row.spend > 0 =>
             Least(rows, qn) = Earlier(Least(rows, q), row.t) /\ Most(rows, qn) = Later(Most(rows, q), row.t)
  <2>1. q \in SUBSET DOMAIN rows /\ q \subseteq I
    BY <1>4
  <2>2. QED
    BY <1>1, <1>4, <2>1, LeastMoves, MostMoves
<1>15. /\ (\A i \in J : rows[i].rejection # "absent")
             <=> ((\A i \in I : rows[i].rejection # "absent") /\ row.rejection # "absent")
       /\ (\E i \in J : Rejected(rows[i])) <=> ((\E i \in I : Rejected(rows[i])) \/ Rejected(row))
       /\ (\A i \in J : Rejected(rows[i]) \/ (Analysed(rows[i]) /\ Usable(rows[i])))
             <=> (/\ \A i \in I : Rejected(rows[i]) \/ (Analysed(rows[i]) /\ Usable(rows[i]))
                  /\ Rejected(row) \/ (Analysed(row) /\ Usable(row)))
  BY <1>1
<1>16. (\A i \in J : Rejected(rows[i]) \/ (Analysed(rows[i]) /\ Usable(rows[i])))
         <=> Cardinality(mn) + Cardinality(vn) + Cardinality(un) = 0
  <2>1. \A i \in J : rows[i].spend \in Nat \cup {-1, -2}
    BY <1>0, RowTypes
  <2>2. \A i \in J : (Rejected(rows[i]) \/ (Analysed(rows[i]) /\ Usable(rows[i])))
                     <=> (i \notin mn /\ i \notin vn /\ i \notin un)
    BY <1>2, <1>3, <2>1 DEF Analysed, Unsupported, Usable
  <2>3. mn \subseteq J /\ vn \subseteq J /\ un \subseteq J
    BY <1>2, <1>3
  <2>4. IsFiniteSet(J)
    BY <1>0, FS_AddElement
  <2>5. \A S \in {mn, vn, un} : IsFiniteSet(S) /\ Cardinality(S) \in Nat /\ (Cardinality(S) = 0 <=> S = {})
    BY <2>3, <2>4, FS_Subset, FS_EmptySet, FS_CardinalityType
  <2>6. Cardinality(mn) + Cardinality(vn) + Cardinality(un) = 0 <=> (mn = {} /\ vn = {} /\ un = {})
    BY <2>5
  <2>7. QED
    BY <2>2, <2>3, <2>6
<1>17. PICK g, gn, z, zn, w, wn \in BOOLEAN :
         /\ g = (\E i \in I : Rejected(rows[i])) /\ gn = (\E i \in J : Rejected(rows[i]))
         /\ z = (\A i \in I : Rejected(rows[i]) \/ (Analysed(rows[i]) /\ Usable(rows[i])))
         /\ zn = (\A i \in J : Rejected(rows[i]) \/ (Analysed(rows[i]) /\ Usable(rows[i])))
         /\ w = (\A i \in I : rows[i].rejection # "absent")
         /\ wn = (\A i \in J : rows[i].rejection # "absent")
  OBVIOUS
<1>18. /\ wn = (w /\ row.rejection # "absent") /\ gn = (g \/ Rejected(row))
       /\ zn = (z /\ (Rejected(row) \/ (Analysed(row) /\ Usable(row))))
       /\ zn = (Cardinality(mn) + Cardinality(vn) + Cardinality(un) = 0)
  BY <1>15, <1>16, <1>17
<1>19. /\ Cardinality(c) \in Nat /\ Cardinality(cn) = Cardinality(c) + (IF Analysed(row) THEN 1 ELSE 0)
       /\ Cardinality(m) \in Nat
       /\ Cardinality(mn) = Cardinality(m) + (IF Analysed(row) /\ row.spend = -1 THEN 1 ELSE 0)
       /\ Cardinality(v) \in Nat
       /\ Cardinality(vn) = Cardinality(v) + (IF Analysed(row) /\ row.spend = -2 THEN 1 ELSE 0)
       /\ Cardinality(u) \in Nat /\ Cardinality(un) = Cardinality(u) + (IF Unsupported(row) THEN 1 ELSE 0)
       /\ Cardinality(b) \in Nat
       /\ Cardinality(bn) = Cardinality(b) + (IF row.rejection = "session_budget" THEN 1 ELSE 0)
  <2>1. Cardinality(c) \in Nat /\ Cardinality(cn) = Cardinality(c) + (IF Analysed(row) THEN 1 ELSE 0)
    BY <1>4, <1>5
  <2>2. /\ Cardinality(m) \in Nat
        /\ Cardinality(mn) = Cardinality(m) + (IF Analysed(row) /\ row.spend = -1 THEN 1 ELSE 0)
    BY <1>4, <1>5
  <2>3. /\ Cardinality(v) \in Nat
        /\ Cardinality(vn) = Cardinality(v) + (IF Analysed(row) /\ row.spend = -2 THEN 1 ELSE 0)
    BY <1>4, <1>5
  <2>4. Cardinality(u) \in Nat /\ Cardinality(un) = Cardinality(u) + (IF Unsupported(row) THEN 1 ELSE 0)
    BY <1>4, <1>5
  <2>5. /\ Cardinality(b) \in Nat
        /\ Cardinality(bn) = Cardinality(b) + (IF row.rejection = "session_budget" THEN 1 ELSE 0)
    BY <1>4, <1>5
  <2>6. QED
    BY <2>1, <2>2, <2>3, <2>4, <2>5
<1>20. PICK nc, ncn, nm, nmn, nv, nvn, nu, nun, nb, nbn :
         /\ nc = Cardinality(c) /\ ncn = Cardinality(cn) /\ nm = Cardinality(m) /\ nmn = Cardinality(mn)
         /\ nv = Cardinality(v) /\ nvn = Cardinality(vn) /\ nu = Cardinality(u) /\ nun = Cardinality(un)
         /\ nb = Cardinality(b) /\ nbn = Cardinality(bn)
  OBVIOUS
<1>21. PICK f, fn, l, ln, fa, fan, la, lan :
         /\ f = Least(rows, q) /\ fn = Least(rows, qn) /\ l = Most(rows, q) /\ ln = Most(rows, qn)
         /\ fa = Least(rows, I) /\ fan = Least(rows, J) /\ la = Most(rows, I) /\ lan = Most(rows, J)
  OBVIOUS
<1>22. /\ T = State(nc, k, a, nm, nv, nu, nb, g, z, w, f, l, fa, la, FALSE, o)
       /\ Totals(rows, J) = State(ncn, kn, an, nmn, nvn, nun, nbn, gn, zn, wn, fn, ln, fan, lan, FALSE, o)
  BY <1>10, <1>12, <1>13, <1>17, <1>20, <1>21
<1>23. /\ nm \in Nat /\ nv \in Nat /\ nu \in Nat /\ nb \in Nat
       /\ ncn = nc + (IF Analysed(row) THEN 1 ELSE 0)
       /\ nmn = nm + (IF Analysed(row) /\ row.spend = -1 THEN 1 ELSE 0)
       /\ nvn = nv + (IF Analysed(row) /\ row.spend = -2 THEN 1 ELSE 0)
       /\ nun = nu + (IF Unsupported(row) THEN 1 ELSE 0)
       /\ nbn = nb + (IF row.rejection = "session_budget" THEN 1 ELSE 0)
       /\ zn = (nmn + nvn + nun = 0)
  BY <1>18, <1>19, <1>20
<1>24. /\ fan = Earlier(fa, row.t) /\ lan = Later(la, row.t)
       /\ fn = (IF Analysed(row) /\ row.spend > 0 THEN Earlier(f, row.t) ELSE f)
       /\ ln = (IF Analysed(row) /\ row.spend > 0 THEN Later(l, row.t) ELSE l)
  <2>1. qn = IF Analysed(row) /\ row.spend > 0 THEN q \cup {n} ELSE q
    BY <1>4
  <2>2. QED
    BY <1>14, <1>21, <2>1
<1>25. Activity(row, w, wn, fa, fan, la, lan)
  BY <1>18, <1>24 DEF Activity
<1>26. PICK e : e = FALSE
  OBVIOUS
<1>27. Totals(rows, J) = Accumulate(T, row)
  <2>1. CASE Rejected(row)
    <3>1. /\ ncn = nc /\ nmn = nm /\ nvn = nv /\ nun = nu /\ kn = k /\ an = a /\ fn = f /\ ln = l
          /\ gn = TRUE /\ zn = z
      <4>1. ~Analysed(row) /\ ~Unsupported(row)
        BY <2>1 DEF Analysed, Unsupported
      <4>2. ncn = nc + 0 /\ nmn = nm + 0 /\ nvn = nv + 0 /\ nun = nu + 0
        BY <1>23, <4>1
      <4>3. nc \in Nat /\ kn = k + 0 /\ an = a + 0 /\ k \in Nat /\ a \in Nat
        BY <1>7, <1>8, <1>19, <1>20, <4>1
      <4>4. fn = f /\ ln = l
        BY <1>24, <4>1
      <4>5. gn = TRUE /\ zn = z
        BY <1>18, <2>1
      <4>6. QED
        BY ONLY <4>2, <4>3, <4>4, <4>5, <1>23
    <3>2. Accumulate(State(nc, k, a, nm, nv, nu, nb, g, z, w, f, l, fa, la, e, o), row)
            = State(nc, k, a, nm, nv, nu, nbn, gn, z, wn, f, l, fan, lan, e, o)
      <4>1. RejectedMove(row, nb, nbn, gn)
        BY <1>23, <2>1, <3>1 DEF RejectedMove
      <4>2. QED
        BY ONLY <1>25, <4>1, RejectedFields
    <3>3. QED
      BY ONLY <1>22, <1>26, <3>1, <3>2
  <2>2. CASE Unsupported(row)
    <3>1. /\ ncn = nc /\ nmn = nm /\ nvn = nv /\ nbn = nb /\ kn = k /\ an = a /\ fn = f /\ ln = l
          /\ gn = g /\ zn = FALSE /\ nun = nu + 1
      <4>1. ~Rejected(row) /\ ~Analysed(row) /\ row.rejection # "session_budget"
        BY <2>2 DEF Analysed, Unsupported, Rejected
      <4>2. ncn = nc + 0 /\ nmn = nm + 0 /\ nvn = nv + 0 /\ nbn = nb + 0 /\ nun = nu + 1
        BY <1>23, <2>2, <4>1
      <4>3. nc \in Nat /\ kn = k + 0 /\ an = a + 0 /\ k \in Nat /\ a \in Nat
        BY <1>7, <1>8, <1>19, <1>20, <4>1
      <4>4. fn = f /\ ln = l
        BY <1>24, <4>1
      <4>5. gn = g /\ zn = FALSE
        BY <1>18, <4>1
      <4>6. QED
        BY ONLY <4>2, <4>3, <4>4, <4>5, <1>23
    <3>2. Accumulate(State(nc, k, a, nm, nv, nu, nb, g, z, w, f, l, fa, la, e, o), row)
            = State(nc, k, a, nm, nv, nun, nb, g, zn, wn, f, l, fan, lan, e, o)
      <4>1. UnsupportedMove(row, nu, nun, zn)
        BY <2>2, <3>1 DEF UnsupportedMove
      <4>2. QED
        BY ONLY <1>25, <4>1, UnsupportedFields
    <3>3. QED
      BY ONLY <1>22, <1>26, <3>1, <3>2
  <2>3. CASE Analysed(row)
    <3>1. /\ ncn = nc + 1 /\ nun = nu /\ nbn = nb /\ kn = k + row.tokens /\ gn = g
          /\ nmn = nm + (IF row.spend = -1 THEN 1 ELSE 0) /\ nvn = nv + (IF row.spend = -2 THEN 1 ELSE 0)
          /\ fn = (IF row.spend > 0 THEN Earlier(f, row.t) ELSE f)
          /\ ln = (IF row.spend > 0 THEN Later(l, row.t) ELSE l)
          /\ an = a + (IF Usable(row) THEN row.spend ELSE 0)
      <4>1. ~Rejected(row) /\ ~Unsupported(row) /\ row.rejection # "session_budget"
        BY <2>3 DEF Analysed, Unsupported, Rejected
      <4>2. ncn = nc + 1 /\ nun = nu + 0 /\ nbn = nb + 0 /\ kn = k + row.tokens
        BY <1>7, <1>23, <2>3, <4>1
      <4>3. /\ nmn = nm + (IF row.spend = -1 THEN 1 ELSE 0) /\ nvn = nv + (IF row.spend = -2 THEN 1 ELSE 0)
            /\ fn = (IF row.spend > 0 THEN Earlier(f, row.t) ELSE f)
            /\ ln = (IF row.spend > 0 THEN Later(l, row.t) ELSE l)
        BY <1>23, <1>24, <2>3
      <4>4. an = a + (IF Usable(row) THEN row.spend ELSE 0)
        BY <1>7, <1>8, <2>3 DEF Usable
      <4>5. gn = g
        BY <1>18, <4>1
      <4>6. nun = nu /\ nbn = nb
        BY ONLY <1>23, <4>2
      <4>7. QED
        BY ONLY <4>2, <4>3, <4>4, <4>5, <4>6
    <3>2. zn = (nmn + nvn + nu = 0)
      BY ONLY <1>23, <3>1
    <3>3. Accumulate(State(nc, k, a, nm, nv, nu, nb, g, z, w, f, l, fa, la, e, o), row)
            = State(ncn, kn, an, nmn, nvn, nu, nb, g, zn, wn, fn, ln, fan, lan, e, o)
      <4>1. AnalysedMove(row, nc, ncn, k, kn, a, an, nm, nmn, nv, nvn, nu, zn, f, fn, l, ln)
        BY ONLY <2>3, <3>1, <3>2 DEF AnalysedMove
      <4>2. QED
        BY ONLY <1>25, <4>1, AnalysedFields
    <3>4. QED
      BY ONLY <1>22, <1>26, <3>1, <3>3
  <2>4. QED
    BY <2>1, <2>2, <2>3 DEF Analysed, Unsupported
<1>28. QED
  BY <1>1, <1>11, <1>27
-----------------------------------------------------------------------------
(* What the passes have read, and the period.                               *)

Timed(rows) == \A i \in DOMAIN rows : rows[i].t \in Nat
Bounded == pc \in {"pass2", "pass3", "ok"}

\* Every pass has encoded as many records as it has visited; a later pass
\* has not begun before the earlier ones were found equal.
ReadOK ==
    /\ FileTypeOK
    /\ pc \in {"pass1", "pass2", "pass3", "ok", "error"} /\ choice \in Periods
    /\ read1 \in Seq(Rows) /\ Len(read1) <= MaxRows /\ Timed(read1)
    /\ read2 \in Seq(Rows) /\ Len(read2) <= MaxRows /\ Timed(read2)
    /\ read3 \in Seq(Rows) /\ Len(read3) <= MaxRows /\ Timed(read3)
    /\ period \in {NoId} \cup [start: Nat, end: Nat]
    /\ fd = "closed" => pos = 0
    /\ pc = "pass1" => read2 = <<>> /\ Len(read1) = pos
    /\ pc \in {"pass1", "pass2"} => read3 = <<>>
    /\ pc = "pass2" => Len(read2) = pos
    /\ pc = "pass3" => Len(read3) = pos
    /\ pc \in {"pass3", "ok"} => read2 = read1
    /\ pc = "ok" => read3 = read1 \/ (read3 = <<>> /\ ~SpanOutside)
    /\ Bounded => period = SessionPeriod(read1) /\ period # NoId

\* The first and the last time of records.
LEMMA SpanFound ==
    ASSUME NEW rows \in Seq(Rows), Timed(rows), rows # <<>>
    PROVE  /\ Earliest(rows) \in Nat /\ Latest(rows) \in Nat
           /\ \A i \in DOMAIN rows : Earliest(rows) <= rows[i].t /\ rows[i].t <= Latest(rows)
<1>1. PICK T : T = Times(rows)
  OBVIOUS
<1>2. T = {rows[i].t : i \in DOMAIN rows}
  BY <1>1 DEF Times, RowsOf
<1>3. DOMAIN rows # {} /\ DOMAIN rows \in SUBSET DOMAIN rows
  <2>1. DOMAIN rows = 1..Len(rows) /\ Len(rows) \in Nat /\ Len(rows) # 0
    OBVIOUS
  <2>2. 1 \in DOMAIN rows
    BY <2>1
  <2>3. QED
    BY <2>2
<1>4. T # {} /\ T \subseteq Nat
  BY <1>2, <1>3 DEF Timed
<1>5. IsFiniteSet(T)
  BY <1>2, <1>3, TimesFinite
<1>6. (\E m \in T : \A x \in T : m <= x) /\ (\E m \in T : \A x \in T : x <= m)
  BY <1>4, <1>5, Extremes
<1>7. /\ Earliest(rows) \in T /\ \A x \in T : Earliest(rows) <= x
      /\ Latest(rows) \in T /\ \A x \in T : x <= Latest(rows)
  BY <1>1, <1>6 DEF Earliest, Latest
<1>8. QED
  BY <1>2, <1>4, <1>7

\* Complete days begin and end at times.
LEMMA DaysAreTimes ==
    ASSUME NEW t \in Nat
    PROVE  FloorDay(t) \in Nat /\ CeilDay(t) \in Nat
<1>1. Day \in Nat /\ Day > 0
  BY SessionAssumption
<1>2. t \div Day \in Nat
  BY <1>1
<1>3. \A d \in Nat : d * Day \in Nat
  BY <1>1
<1>4. QED
  BY <1>1, <1>2, <1>3 DEF FloorDay, CeilDay

\* The period of any records is none or one of times.
LEMMA PeriodType ==
    ASSUME NEW rows \in Seq(Rows), Timed(rows), choice \in Periods
    PROVE  SessionPeriod(rows) \in {NoId} \cup [start: Nat, end: Nat]
<1>1. CASE choice # NoId
  BY <1>1, SessionAssumption DEF SessionPeriod
<1>2. CASE choice = NoId /\ rows = <<>>
  BY <1>2 DEF SessionPeriod
<1>3. CASE choice = NoId /\ rows # <<>>
  <2>1. PICK first, last \in Nat : first = Earliest(rows) /\ last = Latest(rows)
    BY <1>3, SpanFound
  <2>2. CeilDay(first) \in Nat /\ FloorDay(last) \in Nat /\ FloorDay(Now) \in Nat
    BY DaysAreTimes, SessionAssumption
  <2>3. AutomaticPeriod(first, last) \in {NoId} \cup [start: Nat, end: Nat]
    BY <2>2 DEF AutomaticPeriod, Smaller
  <2>4. QED
    BY <1>3, <2>1, <2>3 DEF SessionPeriod
<1>4. QED
  BY <1>1, <1>2, <1>3

\* One more record with a time.
LEMMA TimedMore ==
    ASSUME NEW rows \in Seq(Rows), Timed(rows), NEW row \in Rows, row.t # BadTime
    PROVE  /\ Append(rows, row) \in Seq(Rows) /\ Timed(Append(rows, row))
           /\ Len(Append(rows, row)) = Len(rows) + 1 /\ row.t \in Nat
<1>1. row.t \in Nat
  BY RowTypes
<1>2. \A i \in 1..(Len(rows) + 1) : Append(rows, row)[i].t \in Nat
  BY <1>1 DEF Timed
<1>3. QED
  BY <1>1, <1>2 DEF Timed

\* The first pass starts from nothing.
LEMMA ReadInit == Init => ReadOK
<1>1. MaxRows \in Nat /\ MaxWrites \in Nat /\ StartFiles \subseteq Seq(Rows \cup {Torn})
  BY SpendFileAssumption
<1>2. <<>> \in Seq(Rows) /\ <<>> \in Seq(Rows \cup {Torn}) /\ Len(<<>>) = 0 /\ Timed(<<>>)
  BY DEF Timed
<1>3. QED
  BY <1>1, <1>2 DEF Init, FileInit, ReadOK, FileTypeOK, Bounded

\* An error keeps what was read.
LEMMA ReadFail == ReadOK /\ Fail => ReadOK'
<1>1. SUFFICES ASSUME ReadOK, Fail PROVE ReadOK'
  OBVIOUS
<1>2. FileTypeOK' /\ fd' = "closed" /\ pos' = 0
  BY <1>1, FileSteps DEF ReadOK, Fail
<1>3. QED
  BY <1>1, <1>2 DEF ReadOK, Fail, Bounded, Timed

\* A step of the review or of another program keeps all of it.
LEMMA ReadNext == ReadOK /\ [Next]_vars => ReadOK'
<1>1. SUFFICES ASSUME ReadOK, [Next]_vars PROVE ReadOK'
  OBVIOUS
<1>2. FileTypeOK /\ MaxRows \in Nat
  BY <1>1, SpendFileAssumption DEF ReadOK
<1>3. CASE Open
  <2>1. FileTypeOK' /\ fd' = "path" /\ pos' = 0 /\ pos = 0
    BY <1>1, <1>2, <1>3, FileSteps DEF Open, OpenFile, ReadOK
  <2>2. QED
    BY <1>1, <1>3, <2>1 DEF Open, ReadOK, revVars, Bounded, Timed, SpanOutside, SessionPeriod,
         Earliest, Latest, Times, RowsOf
<1>4. CASE ReadFails
  BY <1>1, <1>4, ReadFail DEF ReadFails
<1>5. CASE Visit1
  <2>1. CASE NextRow.t = BadTime
    BY <1>1, <1>5, <2>1, ReadFail DEF Visit1
  <2>2. CASE NextRow.t # BadTime
    <3>1. PICK row : row = NextRow
      OBVIOUS
    <3>2. row \in Rows /\ pos < MaxRows /\ row.t # BadTime
      BY <1>2, <1>5, <2>2, <3>1, VisitedRow DEF Visit1, Visiting
    <3>3. /\ read1' = Append(read1, row) /\ Advance /\ pc = "pass1" /\ pc' = pc
          /\ UNCHANGED <<choice, read2, read3, period>>
      BY <1>5, <2>2, <3>1 DEF Visit1, Visiting
    <3>4. FileTypeOK' /\ pos' = pos + 1 /\ fd' = fd /\ fd # "closed"
      BY <1>2, <1>5, <3>3, FileSteps DEF Visit1, Visiting
    <3>5. read1' \in Seq(Rows) /\ Timed(read1') /\ Len(read1') = pos'
      BY <1>1, <3>2, <3>3, <3>4, TimedMore DEF ReadOK
    <3>6. pos' <= MaxRows /\ pos' \in Nat
      BY <1>2, <3>2, <3>4 DEF FileTypeOK
    <3>7. QED
      BY <1>1, <3>3, <3>4, <3>5, <3>6 DEF ReadOK, Timed, Bounded
  <2>3. QED
    BY <2>1, <2>2
<1>6. CASE End1
  <2>1. CASE SessionPeriod(read1) = NoId
    BY <1>1, <1>6, <2>1, ReadFail DEF End1
  <2>2. CASE SessionPeriod(read1) # NoId
    <3>1. /\ period' = SessionPeriod(read1) /\ pc = "pass1" /\ pc' = "pass2" /\ CloseFile
          /\ UNCHANGED <<choice, read1, read2, read3>>
      BY <1>6, <2>2 DEF End1
    <3>2. FileTypeOK' /\ fd' = "closed" /\ pos' = 0
      BY <1>2, <3>1, FileSteps
    <3>3. SessionPeriod(read1)' = SessionPeriod(read1)
      BY <3>1 DEF SessionPeriod
    <3>4. SessionPeriod(read1) \in {NoId} \cup [start: Nat, end: Nat]
      BY <1>1, PeriodType DEF ReadOK
    <3>5. QED
      BY <1>1, <2>2, <3>1, <3>2, <3>3, <3>4 DEF ReadOK, Timed, Bounded
  <2>3. QED
    BY <2>1, <2>2
<1>7. CASE Visit2
  <2>1. CASE Fail
    BY <1>1, <2>1, ReadFail
  <2>2. CASE ~Fail
    <3>1. PICK row : row = NextRow
      OBVIOUS
    <3>2. /\ read2' = Append(read2, row) /\ Advance /\ pc = "pass2" /\ pc' = pc /\ ~Wrong(row)
          /\ UNCHANGED <<choice, read1, read3, period>>
      BY <1>7, <2>2, <3>1 DEF Visit2, Visiting
    <3>3. row \in Rows /\ pos < MaxRows /\ row.t # BadTime
      BY <1>2, <1>7, <3>1, <3>2, VisitedRow DEF Visit2, Visiting, Wrong
    <3>4. FileTypeOK' /\ pos' = pos + 1 /\ fd' = fd /\ fd # "closed"
      BY <1>2, <1>7, <3>2, FileSteps DEF Visit2, Visiting
    <3>5. read2' \in Seq(Rows) /\ Timed(read2') /\ Len(read2') = pos'
      BY <1>1, <3>2, <3>3, <3>4, TimedMore DEF ReadOK
    <3>6. pos' <= MaxRows /\ pos' \in Nat
      BY <1>2, <3>3, <3>4 DEF FileTypeOK
    <3>7. SessionPeriod(read1)' = SessionPeriod(read1)
      BY <3>2 DEF SessionPeriod
    <3>8. QED
      BY <1>1, <3>2, <3>4, <3>5, <3>6, <3>7 DEF ReadOK, Timed, Bounded
  <2>3. QED
    BY <2>1, <2>2
<1>8. CASE End2
  <2>1. CASE Fail
    BY <1>1, <2>1, ReadFail
  <2>2. CASE ~Fail
    <3>1. /\ pc = "pass2" /\ pc' = (IF SpanOutside THEN "pass3" ELSE "ok") /\ CloseFile /\ read1 = read2
          /\ UNCHANGED <<choice, read1, read2, read3, period>>
      BY <1>8, <2>2 DEF End2
    <3>2. FileTypeOK' /\ fd' = "closed" /\ pos' = 0
      BY <1>2, <3>1, FileSteps
    <3>3. SessionPeriod(read1)' = SessionPeriod(read1) /\ SpanOutside' = SpanOutside
      BY <3>1 DEF SessionPeriod, SpanOutside
    <3>4. QED
      BY <1>1, <3>1, <3>2, <3>3 DEF ReadOK, Timed, Bounded
  <2>3. QED
    BY <2>1, <2>2
<1>9. CASE Visit3
  <2>1. CASE NextRow.t = BadTime
    BY <1>1, <1>9, <2>1, ReadFail DEF Visit3
  <2>2. CASE NextRow.t # BadTime
    <3>1. PICK row : row = NextRow
      OBVIOUS
    <3>2. row \in Rows /\ pos < MaxRows /\ row.t # BadTime
      BY <1>2, <1>9, <2>2, <3>1, VisitedRow DEF Visit3, Visiting
    <3>3. /\ read3' = Append(read3, row) /\ Advance /\ pc = "pass3" /\ pc' = pc
          /\ UNCHANGED <<choice, read1, read2, period>>
      BY <1>9, <2>2, <3>1 DEF Visit3, Visiting
    <3>4. FileTypeOK' /\ pos' = pos + 1 /\ fd' = fd /\ fd # "closed"
      BY <1>2, <1>9, <3>3, FileSteps DEF Visit3, Visiting
    <3>5. read3' \in Seq(Rows) /\ Timed(read3') /\ Len(read3') = pos'
      BY <1>1, <3>2, <3>3, <3>4, TimedMore DEF ReadOK
    <3>6. pos' <= MaxRows /\ pos' \in Nat
      BY <1>2, <3>2, <3>4 DEF FileTypeOK
    <3>7. SessionPeriod(read1)' = SessionPeriod(read1)
      BY <3>3 DEF SessionPeriod
    <3>8. QED
      BY <1>1, <3>3, <3>4, <3>5, <3>6, <3>7 DEF ReadOK, Timed, Bounded
  <2>3. QED
    BY <2>1, <2>2
<1>10. CASE End3
  <2>1. CASE ~SameAgain
    BY <1>1, <1>10, <2>1, ReadFail DEF End3
  <2>2. CASE SameAgain
    <3>1. /\ pc = "pass3" /\ pc' = "ok" /\ CloseFile /\ read3 = read1
          /\ UNCHANGED <<choice, read1, read2, read3, period>>
      BY <1>10, <2>2 DEF End3, SameAgain
    <3>2. FileTypeOK' /\ fd' = "closed" /\ pos' = 0
      BY <1>2, <3>1, FileSteps
    <3>3. SessionPeriod(read1)' = SessionPeriod(read1)
      BY <3>1 DEF SessionPeriod
    <3>4. QED
      BY <1>1, <3>1, <3>2, <3>3 DEF ReadOK, Timed, Bounded
  <2>3. QED
    BY <2>1, <2>2
<1>11. CASE Writer /\ UNCHANGED revVars
  <2>1. FileTypeOK' /\ pos' = pos /\ (fd' = "closed" <=> fd = "closed")
    BY <1>2, <1>11, WriterKeepsFile
  <2>2. SessionPeriod(read1)' = SessionPeriod(read1) /\ SpanOutside' = SpanOutside
    BY <1>11 DEF SessionPeriod, SpanOutside, revVars
  <2>3. QED
    BY <1>1, <1>11, <2>1, <2>2 DEF ReadOK, Timed, Bounded, revVars
<1>12. CASE UNCHANGED vars
  <2>1. SessionPeriod(read1)' = SessionPeriod(read1) /\ SpanOutside' = SpanOutside
    BY <1>12 DEF SessionPeriod, SpanOutside, vars, revVars
  <2>2. QED
    BY <1>1, <1>12, <2>1 DEF ReadOK, FileTypeOK, Timed, Bounded, vars, revVars, fileVars
<1>13. QED
  BY <1>1, <1>3, <1>4, <1>5, <1>6, <1>7, <1>8, <1>9, <1>10, <1>11, <1>12 DEF Next, Review

\* In every state the passes of the review have read one sequence of records.
THEOREM PassesAgree == Spec => []ReadOK
  BY ReadInit, ReadNext, PTL DEF Spec
-----------------------------------------------------------------------------
(* What the passes have accumulated.                                       *)

\* Totals depend on the counted records only.
LEMMA TotalsFrame ==
    ASSUME NEW rows, NEW more, NEW I, \A i \in I : rows[i] = more[i]
    PROVE  Totals(more, I) = Totals(rows, I)
<1>1. PICK c, q, k, a :
        /\ c = {i \in I : Analysed(rows[i])} /\ q = {i \in c : rows[i].spend > 0}
        /\ k = [i \in c |-> rows[i].tokens] /\ a = [i \in q |-> rows[i].spend]
  OBVIOUS
<1>2. c = {i \in I : Analysed(more[i])} /\ q = {i \in c : more[i].spend > 0} /\ q \subseteq I
  BY <1>1
<1>3. k = [i \in c |-> more[i].tokens] /\ a = [i \in q |-> more[i].spend]
  BY <1>1, <1>2
<1>4. PICK m, v, u, b :
        /\ m = {i \in c : rows[i].spend = -1} /\ v = {i \in c : rows[i].spend = -2}
        /\ u = {i \in I : Unsupported(rows[i])} /\ b = {i \in I : rows[i].rejection = "session_budget"}
  OBVIOUS
<1>5. /\ m = {i \in c : more[i].spend = -1} /\ v = {i \in c : more[i].spend = -2}
      /\ u = {i \in I : Unsupported(more[i])} /\ b = {i \in I : more[i].rejection = "session_budget"}
  BY <1>1, <1>4
<1>6. PICK g, z, w \in BOOLEAN :
        /\ g = (\E i \in I : Rejected(rows[i]))
        /\ z = (\A i \in I : Rejected(rows[i]) \/ (Analysed(rows[i]) /\ Usable(rows[i])))
        /\ w = (\A i \in I : rows[i].rejection # "absent")
  OBVIOUS
<1>7. /\ g = (\E i \in I : Rejected(more[i]))
      /\ z = (\A i \in I : Rejected(more[i]) \/ (Analysed(more[i]) /\ Usable(more[i])))
      /\ w = (\A i \in I : more[i].rejection # "absent")
  BY <1>6
<1>8. \A S \in {I, q} : Least(more, S) = Least(rows, S) /\ Most(more, S) = Most(rows, S)
  <2>1. TAKE S \in {I, q}
  <2>2. {rows[i].t : i \in S} = {more[i].t : i \in S} /\ \A i \in S : rows[i].t = more[i].t
    BY <1>2
  <2>3. Least(more, S) = Least(rows, S)
    <3>1. \A t : (t \in {more[i].t : i \in S} /\ \A i \in S : t <= more[i].t)
              <=> (t \in {rows[i].t : i \in S} /\ \A i \in S : t <= rows[i].t)
      BY <2>2
    <3>2. PICK x, y : /\ x = CHOOSE t \in {more[i].t : i \in S} : \A i \in S : t <= more[i].t
                      /\ y = CHOOSE t \in {rows[i].t : i \in S} : \A i \in S : t <= rows[i].t
      OBVIOUS
    <3>3. x = y
      BY <3>1, <3>2, Zenon
    <3>4. Least(more, S) = IF S = {} THEN NoId ELSE x
      BY <3>2 DEF Least
    <3>5. Least(rows, S) = IF S = {} THEN NoId ELSE y
      BY <3>2 DEF Least
    <3>6. QED
      BY <3>3, <3>4, <3>5
  <2>4. Most(more, S) = Most(rows, S)
    <3>1. \A t : (t \in {more[i].t : i \in S} /\ \A i \in S : more[i].t <= t)
              <=> (t \in {rows[i].t : i \in S} /\ \A i \in S : rows[i].t <= t)
      BY <2>2
    <3>2. PICK x, y : /\ x = CHOOSE t \in {more[i].t : i \in S} : \A i \in S : more[i].t <= t
                      /\ y = CHOOSE t \in {rows[i].t : i \in S} : \A i \in S : rows[i].t <= t
      OBVIOUS
    <3>3. x = y
      BY <3>1, <3>2, Zenon
    <3>4. Most(more, S) = IF S = {} THEN NoId ELSE x
      BY <3>2 DEF Most
    <3>5. Most(rows, S) = IF S = {} THEN NoId ELSE y
      BY <3>2 DEF Most
    <3>6. QED
      BY <3>3, <3>4, <3>5
  <2>5. QED
    BY <2>3, <2>4
<1>9. PICK o : o = CHOOSE i \in I : \A j \in I : i <= j
  OBVIOUS
<1>10. Totals(rows, I) = State(Cardinality(c), SumFunctionOnSet(k, c), SumFunctionOnSet(a, q), Cardinality(m),
          Cardinality(v), Cardinality(u), Cardinality(b), g, z, w, Least(rows, q), Most(rows, q),
          Least(rows, I), Most(rows, I), FALSE, o)
  BY <1>1, <1>4, <1>6, <1>9 DEF Totals, State
<1>11. Totals(more, I) = State(Cardinality(c), SumFunctionOnSet(k, c), SumFunctionOnSet(a, q), Cardinality(m),
          Cardinality(v), Cardinality(u), Cardinality(b), g, z, w, Least(more, q), Most(more, q),
          Least(more, I), Most(more, I), FALSE, o)
  BY <1>2, <1>3, <1>5, <1>7, <1>9 DEF Totals, State
<1>12. QED
  BY <1>8, <1>10, <1>11

\* The totals of some records are a session's state.
LEMMA TotalsType ==
    ASSUME NEW rows \in Seq(Rows), NEW I \in SUBSET DOMAIN rows, I # {}, Len(rows) <= MaxRows,
           \A i \in I : rows[i].t \in Nat, NEW x \in BOOLEAN
    PROVE  /\ [Totals(rows, I) EXCEPT !.clipped = x] \in States
           /\ [Totals(rows, I) EXCEPT !.clipped = x] # NoId
           /\ [Totals(rows, I) EXCEPT !.clipped = FALSE] = Totals(rows, I)
<1>1. PICK c, q : c = {i \in I : Analysed(rows[i])} /\ q = {i \in c : rows[i].spend > 0}
  OBVIOUS
<1>2. PICK m, v, u, b :
        /\ m = {i \in c : rows[i].spend = -1} /\ v = {i \in c : rows[i].spend = -2}
        /\ u = {i \in I : Unsupported(rows[i])} /\ b = {i \in I : rows[i].rejection = "session_budget"}
  OBVIOUS
<1>3. PICK g, z, w \in BOOLEAN :
        /\ g = (\E i \in I : Rejected(rows[i]))
        /\ z = (\A i \in I : Rejected(rows[i]) \/ (Analysed(rows[i]) /\ Usable(rows[i])))
        /\ w = (\A i \in I : rows[i].rejection # "absent")
  OBVIOUS
<1>4. PICK k, a, o :
        /\ k = SumFunctionOnSet([i \in c |-> rows[i].tokens], c)
        /\ a = SumFunctionOnSet([i \in q |-> rows[i].spend], q)
        /\ o = CHOOSE i \in I : \A j \in I : i <= j
  OBVIOUS
<1>5. Totals(rows, I) = State(Cardinality(c), k, a, Cardinality(m), Cardinality(v), Cardinality(u),
                              Cardinality(b), g, z, w, Least(rows, q), Most(rows, q),
                              Least(rows, I), Most(rows, I), FALSE, o)
  BY <1>1, <1>2, <1>3, <1>4 DEF Totals, State
<1>6. \A S \in {c, q, m, v, u, b} : S \in SUBSET DOMAIN rows
  BY <1>1, <1>2
<1>7. \A S \in {c, m, v, u, b} : Cardinality(S) \in Nat
  BY <1>6, IndicesFinite, FS_CardinalityType
<1>8. k \in Nat /\ a \in Nat
  <2>1. PICK f, h : f = [i \in c |-> rows[i].tokens] /\ h = [i \in q |-> rows[i].spend]
    OBVIOUS
  <2>2. c \in SUBSET DOMAIN rows /\ q \in SUBSET DOMAIN rows
    BY <1>6
  <2>3. IsFiniteSet(c) /\ IsFiniteSet(q)
    BY <2>2, IndicesFinite
  <2>4. \A i \in c : f[i] \in Nat
    BY <2>1, <2>2, RowTypes
  <2>5. \A i \in q : rows[i].spend \in Nat \cup {-1, -2} /\ rows[i].spend > 0
    BY <1>1, <2>2, RowTypes
  <2>6. \A i \in q : h[i] \in Nat
    BY <2>1, <2>5
  <2>7. k \in Nat
    BY <1>4, <2>1, <2>3, <2>4, SumType
  <2>8. a \in Nat
    BY <1>4, <2>1, <2>3, <2>6, SumType
  <2>9. QED
    BY <2>7, <2>8
<1>9. \A S \in {q, I} : Least(rows, S) \in Nat \cup {NoId} /\ Most(rows, S) \in Nat \cup {NoId}
  <2>1. TAKE S \in {q, I}
  <2>2. S \in SUBSET DOMAIN rows /\ S \subseteq I /\ \A i \in S : rows[i].t \in Nat
    BY <1>1
  <2>3. CASE S = {}
    BY <2>3 DEF Least, Most
  <2>4. CASE S # {}
    <3>1. PICK n \in S : TRUE
      BY <2>4
    <3>2. Least(rows, S \cup {n}) \in {rows[i].t : i \in S \cup {n}}
      BY <2>2, <3>1, LeastMoves
    <3>3. Most(rows, S \cup {n}) \in {rows[i].t : i \in S \cup {n}}
      BY <2>2, <3>1, MostMoves
    <3>4. S \cup {n} = S
      BY <3>1
    <3>5. QED
      BY <2>2, <3>2, <3>3, <3>4
  <2>5. QED
    BY <2>3, <2>4
<1>10. o \in 1..MaxRows
  <2>1. DOMAIN rows = 1..Len(rows) /\ Len(rows) \in Nat /\ MaxRows \in Nat
    BY SpendFileAssumption
  <2>2. I \subseteq Nat /\ I # {} /\ IsFiniteSet(I)
    BY <2>1, IndicesFinite
  <2>3. \E i \in I : \A j \in I : i <= j
    BY <2>2, Extremes
  <2>4. o \in I
    BY <1>4, <2>3
  <2>5. QED
    BY <2>1, <2>4
<1>11. PICK T : T = State(Cardinality(c), k, a, Cardinality(m), Cardinality(v), Cardinality(u),
                          Cardinality(b), g, z, w, Least(rows, q), Most(rows, q),
                          Least(rows, I), Most(rows, I), x, o)
  OBVIOUS
<1>12. T \in States
  BY <1>3, <1>7, <1>8, <1>9, <1>10, <1>11 DEF State, States
<1>13. [Totals(rows, I) EXCEPT !.clipped = x] = T /\ [Totals(rows, I) EXCEPT !.clipped = FALSE] = Totals(rows, I)
  <2>1. PICK nc, nm, nv, nu, nb, f, l, fa, la :
          /\ nc = Cardinality(c) /\ nm = Cardinality(m) /\ nv = Cardinality(v) /\ nu = Cardinality(u)
          /\ nb = Cardinality(b) /\ f = Least(rows, q) /\ l = Most(rows, q)
          /\ fa = Least(rows, I) /\ la = Most(rows, I)
    OBVIOUS
  <2>2. PICK R : R = State(nc, k, a, nm, nv, nu, nb, g, z, w, f, l, fa, la, FALSE, o)
    OBVIOUS
  <2>3. PICK V : V = State(nc, k, a, nm, nv, nu, nb, g, z, w, f, l, fa, la, x, o)
    OBVIOUS
  <2>4. [R EXCEPT !.clipped = x] = V
    BY ONLY <2>2, <2>3 DEF State
  <2>5. Totals(rows, I) = R /\ T = V
    BY <1>5, <1>11, <2>1, <2>2, <2>3
  <2>6. [R EXCEPT !.clipped = FALSE] = R
    <3>1. PICK e : e = FALSE
      OBVIOUS
    <3>2. R = State(nc, k, a, nm, nv, nu, nb, g, z, w, f, l, fa, la, e, o)
      BY <2>2, <3>1
    <3>3. [R EXCEPT !.clipped = e] = R
      BY ONLY <3>2 DEF State
    <3>4. QED
      BY <3>1, <3>3
  <2>7. QED
    BY <2>4, <2>5, <2>6
<1>14. QED
  BY <1>12, <1>13, SessionAssumption

\* The records of a session, with one more record.
LEMMA MineMore ==
    ASSUME NEW p, NEW rows \in Seq(Rows), NEW row \in Rows, NEW s
    PROVE  /\ Mine(p, rows, s) \in SUBSET DOMAIN rows
           /\ Mine(p, Append(rows, row), s) =
                IF row.session = s /\ In(p, row.t) THEN Mine(p, rows, s) \cup {Len(rows) + 1} ELSE Mine(p, rows, s)
<1>1. PICK n, more : n = Len(rows) + 1 /\ more = Append(rows, row)
  OBVIOUS
<1>2. DOMAIN rows = 1..Len(rows) /\ Len(rows) \in Nat /\ DOMAIN more = DOMAIN rows \cup {n}
  <2>1. DOMAIN more = 1..n /\ DOMAIN rows = 1..Len(rows) /\ Len(rows) \in Nat
    BY <1>1
  <2>2. QED
    BY <1>1, <2>1
<1>3. more[n] = row /\ \A i \in DOMAIN rows : more[i] = rows[i]
  BY <1>1, <1>2
<1>4. QED
  BY <1>1, <1>2, <1>3 DEF Mine

\* What the records say of a session, with one more record.
LEMMA TotalsMore ==
    ASSUME NEW p, NEW rows \in Seq(Rows), Timed(rows), NEW row \in Rows, row.t \in Nat, NEW s
    PROVE  /\ row.session = s /\ In(p, row.t) =>
                /\ Totals(Append(rows, row), Mine(p, Append(rows, row), s)) =
                     Accumulate(IF Mine(p, rows, s) = {} THEN NewState(Len(rows) + 1)
                                ELSE Totals(rows, Mine(p, rows, s)), row)
                /\ Mine(p, Append(rows, row), s) # {}
           /\ ~(row.session = s /\ In(p, row.t)) =>
                /\ Totals(Append(rows, row), Mine(p, Append(rows, row), s)) = Totals(rows, Mine(p, rows, s))
                /\ Mine(p, Append(rows, row), s) = Mine(p, rows, s)
<1>1. PICK n, more, mine : n = Len(rows) + 1 /\ more = Append(rows, row) /\ mine = Mine(p, rows, s)
  OBVIOUS
<1>2. /\ more \in Seq(Rows) /\ mine \in SUBSET DOMAIN rows /\ DOMAIN rows = 1..Len(rows) /\ Len(rows) \in Nat
      /\ n \in DOMAIN more /\ more[n] = row /\ DOMAIN rows \subseteq DOMAIN more
      /\ \A i \in DOMAIN rows : rows[i] = more[i]
  <2>1. DOMAIN rows = 1..Len(rows) /\ Len(rows) \in Nat
    OBVIOUS
  <2>2. more \in Seq(Rows) /\ DOMAIN more = 1..n
    BY <1>1, <2>1
  <2>3. more[n] = row /\ \A i \in DOMAIN rows : rows[i] = more[i]
    BY <1>1, <2>1, <2>2
  <2>4. mine \in SUBSET DOMAIN rows
    BY <1>1 DEF Mine
  <2>5. QED
    BY <1>1, <2>1, <2>2, <2>3, <2>4
<1>3. Totals(more, mine) = Totals(rows, mine)
  <2>1. \A i \in mine : rows[i] = more[i]
    BY <1>2
  <2>2. QED
    BY <2>1, TotalsFrame
<1>4. Mine(p, more, s) = IF row.session = s /\ In(p, row.t) THEN mine \cup {n} ELSE mine
  BY <1>1, MineMore
<1>5. CASE ~(row.session = s /\ In(p, row.t))
  BY <1>1, <1>3, <1>4, <1>5
<1>6. CASE row.session = s /\ In(p, row.t)
  <2>1. mine \in SUBSET DOMAIN more /\ \A i \in mine : i < n
    BY <1>1, <1>2
  <2>2. \A i \in mine \cup {n} : more[i].t \in Nat
    BY <1>2 DEF Timed
  <2>3. Totals(more, mine \cup {n}) = Accumulate(IF mine = {} THEN NewState(n) ELSE Totals(more, mine), more[n])
    BY <1>2, <2>1, <2>2, TotalsGrow
  <2>4. QED
    BY <1>1, <1>2, <1>3, <1>4, <1>6, <2>3
<1>7. QED
  BY <1>5, <1>6

\* Marking a session as cut a second time changes nothing.
LEMMA ClippedAgain ==
    ASSUME NEW T, NEW x, NEW y
    PROVE  [[T EXCEPT !.clipped = x] EXCEPT !.clipped = y] = [T EXCEPT !.clipped = y]
  OBVIOUS

\* What the second pass has gathered of a session from rows, and the third
\* marked from cut.
Gathered(p, rows, cut, s) ==
    IF Mine(p, rows, s) = {} THEN NoId
    ELSE [Totals(rows, Mine(p, rows, s)) EXCEPT !.clipped = Cut(p, cut, s)]

\* The retained states hold what the records visited so far say.
StateOK ==
    /\ states \in [Sessions -> States \cup {NoId}]
    /\ pc = "pass1" => states = [s \in Sessions |-> NoId] /\ members = {} /\ sums = ZeroSums
    /\ Bounded => \A s \in Sessions : states[s] = Gathered(period, read2, read3, s)

\* It is a state, present when there are records; nothing is cut before the
\* third pass.
LEMMA GatheredType ==
    ASSUME NEW p, NEW rows \in Seq(Rows), Timed(rows), Len(rows) <= MaxRows, NEW cut, NEW s
    PROVE  /\ Gathered(p, rows, cut, s) \in States \cup {NoId}
           /\ Gathered(p, rows, cut, s) = NoId <=> Mine(p, rows, s) = {}
           /\ cut = <<>> => Gathered(p, rows, cut, s) =
                               IF Mine(p, rows, s) = {} THEN NoId ELSE Totals(rows, Mine(p, rows, s))
<1>1. PICK I, x : I = Mine(p, rows, s) /\ x = Cut(p, cut, s)
  OBVIOUS
<1>2. I \in SUBSET DOMAIN rows /\ x \in BOOLEAN /\ (cut = <<>> => x = FALSE)
  BY <1>1 DEF Mine, Cut
<1>3. CASE I = {}
  BY <1>1, <1>3 DEF Gathered
<1>4. CASE I # {}
  <2>1. \A i \in I : rows[i].t \in Nat
    BY <1>2 DEF Timed
  <2>2. /\ [Totals(rows, I) EXCEPT !.clipped = x] \in States
        /\ [Totals(rows, I) EXCEPT !.clipped = x] # NoId
        /\ [Totals(rows, I) EXCEPT !.clipped = FALSE] = Totals(rows, I)
    BY <1>2, <1>4, <2>1, TotalsType
  <2>3. Gathered(p, rows, cut, s) = [Totals(rows, I) EXCEPT !.clipped = x]
    BY <1>1, <1>4 DEF Gathered
  <2>4. QED
    BY <1>1, <1>2, <1>4, <2>2, <2>3
<1>5. QED
  BY <1>3, <1>4

\* The second pass: what it gathers with one more record.
LEMMA GatherMore ==
    ASSUME NEW p, NEW rows \in Seq(Rows), Timed(rows), Len(rows) + 1 <= MaxRows,
           NEW row \in Rows, row.t \in Nat, NEW s
    PROVE  Gathered(p, Append(rows, row), <<>>, s) =
             IF row.session = s /\ In(p, row.t)
             THEN Accumulate(IF Gathered(p, rows, <<>>, s) = NoId THEN NewState(Len(rows) + 1)
                             ELSE Gathered(p, rows, <<>>, s), row)
             ELSE Gathered(p, rows, <<>>, s)
<1>1. PICK more, mine, none : more = Append(rows, row) /\ mine = Mine(p, rows, s) /\ none = <<>>
  OBVIOUS
<1>2. row.t # BadTime
  BY DEF BadTime
<1>3. more \in Seq(Rows) /\ Timed(more) /\ Len(more) <= MaxRows
  BY <1>1, <1>2, TimedMore
<1>4. Len(rows) <= MaxRows
  <2>1. Len(rows) \in Nat /\ MaxRows \in Nat
    BY SpendFileAssumption
  <2>2. QED
    BY <2>1
<1>5. /\ Gathered(p, rows, none, s) = NoId <=> mine = {}
      /\ Gathered(p, rows, none, s) = IF mine = {} THEN NoId ELSE Totals(rows, mine)
  BY <1>1, <1>4, GatheredType
<1>6. Gathered(p, more, none, s) = IF Mine(p, more, s) = {} THEN NoId ELSE Totals(more, Mine(p, more, s))
  BY <1>1, <1>3, GatheredType
<1>7. /\ row.session = s /\ In(p, row.t) =>
           /\ Totals(Append(rows, row), Mine(p, Append(rows, row), s)) =
                Accumulate(IF Mine(p, rows, s) = {} THEN NewState(Len(rows) + 1)
                           ELSE Totals(rows, Mine(p, rows, s)), row)
           /\ Mine(p, Append(rows, row), s) # {}
      /\ ~(row.session = s /\ In(p, row.t)) =>
           /\ Totals(Append(rows, row), Mine(p, Append(rows, row), s)) = Totals(rows, Mine(p, rows, s))
           /\ Mine(p, Append(rows, row), s) = Mine(p, rows, s)
  BY TotalsMore
<1>8. CASE row.session = s /\ In(p, row.t)
  BY <1>1, <1>5, <1>6, <1>7, <1>8
<1>9. CASE ~(row.session = s /\ In(p, row.t))
  BY <1>1, <1>5, <1>6, <1>7, <1>9
<1>10. QED
  BY <1>8, <1>9

MarkedCut(T) == [T EXCEPT !.clipped = TRUE]

\* The third pass: a session seen outside the period becomes a cut one.
LEMMA CutMore ==
    ASSUME NEW p, NEW rows, NEW cut \in Seq(Rows), NEW row \in Rows, NEW s,
           Gathered(p, rows, cut, s) = NoId <=> Mine(p, rows, s) = {}
    PROVE  Gathered(p, rows, Append(cut, row), s) =
             IF row.session = s /\ ~In(p, row.t) /\ Gathered(p, rows, cut, s) # NoId
             THEN MarkedCut(Gathered(p, rows, cut, s))
             ELSE Gathered(p, rows, cut, s)
<1>1. PICK x, y : x = Cut(p, cut, s) /\ y = Cut(p, Append(cut, row), s)
  OBVIOUS
<1>2. x \in BOOLEAN /\ y \in BOOLEAN /\ (y <=> (x \/ (row.session = s /\ ~In(p, row.t))))
  <2>1. PICK n, more : n = Len(cut) + 1 /\ more = Append(cut, row)
    OBVIOUS
  <2>2. DOMAIN cut = 1..Len(cut) /\ Len(cut) \in Nat /\ DOMAIN more = 1..n
    BY <2>1
  <2>3. DOMAIN more = DOMAIN cut \cup {n} /\ more[n] = row /\ \A i \in DOMAIN cut : more[i] = cut[i]
    BY <2>1, <2>2
  <2>4. QED
    BY <1>1, <2>1, <2>3 DEF Cut
<1>3. CASE Mine(p, rows, s) = {}
  BY <1>3 DEF Gathered
<1>4. CASE Mine(p, rows, s) # {}
  <2>1. PICK T : T = Totals(rows, Mine(p, rows, s))
    OBVIOUS
  <2>2. Gathered(p, rows, cut, s) = [T EXCEPT !.clipped = x]
    BY <1>1, <1>4, <2>1 DEF Gathered
  <2>3. Gathered(p, rows, Append(cut, row), s) = [T EXCEPT !.clipped = y]
    BY <1>1, <1>4, <2>1 DEF Gathered
  <2>4. MarkedCut([T EXCEPT !.clipped = x]) = [T EXCEPT !.clipped = TRUE]
    BY ClippedAgain DEF MarkedCut
  <2>5. [T EXCEPT !.clipped = x] # NoId
    BY <1>4, <2>2
  <2>6. CASE row.session = s /\ ~In(p, row.t)
    <3>1. y = TRUE
      BY <1>2, <2>6
    <3>2. QED
      BY <2>2, <2>3, <2>4, <2>5, <2>6, <3>1
  <2>7. CASE ~(row.session = s /\ ~In(p, row.t))
    <3>1. y = x
      BY <1>2, <2>7
    <3>2. QED
      BY <2>2, <2>3, <2>7, <3>1
  <2>8. QED
    BY <2>6, <2>7
<1>5. QED
  BY <1>3, <1>4

\* The record the second pass accumulates, and what its step does.
LEMMA SecondPass ==
    ASSUME ReadOK, Visit2, ~Fail
    PROVE  /\ pc = "pass2" /\ pc' = "pass2" /\ UNCHANGED <<choice, read1, read3, period>>
           /\ NextRow \in Rows /\ NextRow.t \in Nat /\ ~Wrong(NextRow) /\ ~OverLimit(NextRow)
           /\ read2' = Append(read2, NextRow) /\ read3 = <<>> /\ Len(read2) = pos /\ pos + 1 <= MaxRows
           /\ sums' = IF Selected(NextRow) THEN SumsWith(NextRow) ELSE sums
           /\ IF Selected(NextRow) /\ NextRow.session # NoId
              THEN /\ states' = [states EXCEPT ![NextRow.session] =
                        Accumulate(IF @ = NoId THEN NewState(pos + 1) ELSE @, NextRow)]
                   /\ members' = members \cup NewMembers(NextRow)
              ELSE UNCHANGED <<states, members>>
<1>1. /\ pc = "pass2" /\ pc' = "pass2" /\ UNCHANGED <<choice, read1, read3, period>>
      /\ ~Wrong(NextRow) /\ ~OverLimit(NextRow) /\ read2' = Append(read2, NextRow)
      /\ sums' = IF Selected(NextRow) THEN SumsWith(NextRow) ELSE sums
      /\ IF Selected(NextRow) /\ NextRow.session # NoId
         THEN /\ states' = [states EXCEPT ![NextRow.session] =
                   Accumulate(IF @ = NoId THEN NewState(pos + 1) ELSE @, NextRow)]
              /\ members' = members \cup NewMembers(NextRow)
         ELSE UNCHANGED <<states, members>>
  BY DEF Visit2, Visiting
<1>2. NextRow \in Rows /\ pos < MaxRows /\ pos \in Nat
  BY VisitedRow DEF Visit2, Visiting, ReadOK
<1>3. NextRow.t \in Nat
  BY <1>1, <1>2, RowTypes DEF Wrong
<1>4. read3 = <<>> /\ Len(read2) = pos /\ pos + 1 <= MaxRows
  BY <1>1, <1>2, SpendFileAssumption DEF ReadOK
<1>5. QED
  BY <1>1, <1>2, <1>3, <1>4

\* Nothing is retained at the start.
LEMMA StateInit == Init => StateOK
  BY DEF Init, StateOK, Bounded

\* Every step keeps the retained states what the records say.
LEMMA StateNext == ReadOK /\ ReadOK' /\ StateOK /\ [Next]_vars => StateOK'
<1>1. SUFFICES ASSUME ReadOK, ReadOK', StateOK, [Next]_vars PROVE StateOK'
  OBVIOUS
<1>2. CASE UNCHANGED revVars
  BY <1>1, <1>2 DEF StateOK, revVars, Bounded
<1>3. CASE Fail
  BY <1>1, <1>3 DEF StateOK, Fail, Bounded
<1>4. CASE Visit1 /\ ~Fail
  BY <1>1, <1>4 DEF StateOK, Visit1, Visiting, Bounded
<1>5. CASE End1 /\ ~Fail
  <2>1. /\ pc = "pass1" /\ pc' = "pass2" /\ UNCHANGED <<read2, read3, states, members, sums>>
        /\ read2 = <<>>
    BY <1>1, <1>5 DEF End1, ReadOK
  <2>2. \A s \in Sessions : Gathered(period', read2', read3', s) = NoId
    BY <2>1 DEF Gathered, Mine
  <2>3. QED
    BY <1>1, <2>1, <2>2 DEF StateOK, Bounded
<1>6. CASE Visit2 /\ ~Fail
  <2>1. PICK row : row = NextRow
    OBVIOUS
  <2>2. /\ pc = "pass2" /\ pc' = "pass2" /\ period' = period /\ read3' = read3 /\ read3 = <<>>
        /\ row \in Rows /\ row.t \in Nat /\ read2' = Append(read2, row)
        /\ Len(read2) = pos /\ Len(read2) + 1 <= MaxRows
        /\ IF Selected(row) /\ row.session # NoId
           THEN states' = [states EXCEPT ![row.session] =
                        Accumulate(IF @ = NoId THEN NewState(pos + 1) ELSE @, row)]
           ELSE states' = states
    BY <1>1, <1>6, <2>1, SecondPass
  <2>3. /\ read2 \in Seq(Rows) /\ Timed(read2) /\ states \in [Sessions -> States \cup {NoId}]
        /\ \A s \in Sessions : states[s] = Gathered(period, read2, <<>>, s)
    BY <1>1, <2>2 DEF ReadOK, StateOK, Bounded
  <2>4. row.session \in Sessions \cup {NoId} /\ NoId \notin Sessions
    BY <2>2, RowTypes, SessionAssumption
  <2>5. \A s \in Sessions : states'[s] = Gathered(period, Append(read2, row), <<>>, s)
    <3>1. TAKE s \in Sessions
    <3>2. Gathered(period, Append(read2, row), <<>>, s) =
             IF row.session = s /\ In(period, row.t)
             THEN Accumulate(IF Gathered(period, read2, <<>>, s) = NoId THEN NewState(Len(read2) + 1)
                             ELSE Gathered(period, read2, <<>>, s), row)
             ELSE Gathered(period, read2, <<>>, s)
      BY <2>2, <2>3, GatherMore
    <3>3. states'[s] = IF row.session = s /\ In(period, row.t)
                       THEN Accumulate(IF states[s] = NoId THEN NewState(pos + 1) ELSE states[s], row)
                       ELSE states[s]
      BY <2>2, <2>3, <2>4 DEF Selected
    <3>4. QED
      BY <2>2, <2>3, <3>2, <3>3
  <2>6. \A s \in Sessions : states'[s] = Gathered(period', read2', read3', s)
    BY <2>2, <2>5
  <2>7. \A s \in Sessions : Gathered(period', read2', read3', s) \in States \cup {NoId}
    BY <1>1, GatheredType DEF ReadOK, Timed
  <2>8. states' \in [Sessions -> States \cup {NoId}]
    <3>1. DOMAIN states' = Sessions /\ states' = [s \in Sessions |-> states'[s]]
      BY <2>2, <2>3
    <3>2. QED
      BY <2>6, <2>7, <3>1
  <2>9. QED
    BY <2>2, <2>6, <2>8 DEF StateOK, Bounded
<1>7. CASE End2 /\ ~Fail
  BY <1>1, <1>7 DEF StateOK, End2, Bounded
<1>8. CASE Visit3 /\ ~Fail
  <2>1. PICK row : row = NextRow
    OBVIOUS
  <2>2. /\ pc = "pass3" /\ pc' = "pass3" /\ period' = period /\ read2' = read2
        /\ read3' = Append(read3, row)
        /\ states' = IF ~Selected(row) /\ row.session \in Retained
                     THEN [states EXCEPT ![row.session].clipped = TRUE] ELSE states
    BY <1>1, <1>8, <2>1 DEF Visit3, Visiting
  <2>3. row \in Rows
    BY <1>1, <1>8, <2>1, VisitedRow DEF Visit3, Visiting, ReadOK
  <2>4. /\ read2 \in Seq(Rows) /\ Timed(read2) /\ Len(read2) <= MaxRows /\ read3 \in Seq(Rows)
        /\ states \in [Sessions -> States \cup {NoId}]
        /\ \A s \in Sessions : states[s] = Gathered(period, read2, read3, s)
    BY <1>1, <2>2 DEF ReadOK, StateOK, Bounded
  <2>5. \A s \in Sessions : states'[s] = Gathered(period, read2, Append(read3, row), s)
    <3>1. TAKE s \in Sessions
    <3>2. Gathered(period, read2, read3, s) = NoId <=> Mine(period, read2, s) = {}
      BY <2>4, GatheredType
    <3>3. Gathered(period, read2, Append(read3, row), s) =
             IF row.session = s /\ ~In(period, row.t) /\ Gathered(period, read2, read3, s) # NoId
             THEN MarkedCut(Gathered(period, read2, read3, s))
             ELSE Gathered(period, read2, read3, s)
      BY <2>3, <2>4, <3>2, CutMore
    <3>4. states'[s] = IF row.session = s /\ ~In(period, row.t) /\ states[s] # NoId
                       THEN MarkedCut(states[s]) ELSE states[s]
      BY <2>2, <2>4 DEF Selected, Retained, MarkedCut
    <3>5. QED
      BY <2>4, <3>3, <3>4
  <2>6. \A s \in Sessions : states'[s] = Gathered(period', read2', read3', s)
    BY <2>2, <2>5
  <2>7. \A s \in Sessions : Gathered(period', read2', read3', s) \in States \cup {NoId}
    BY <1>1, GatheredType DEF ReadOK, Timed
  <2>8. states' \in [Sessions -> States \cup {NoId}]
    <3>1. DOMAIN states' = Sessions /\ states' = [s \in Sessions |-> states'[s]]
      BY <2>2, <2>4
    <3>2. QED
      BY <2>6, <2>7, <3>1
  <2>9. QED
    BY <2>2, <2>6, <2>8 DEF StateOK, Bounded
<1>9. CASE End3 /\ ~Fail
  BY <1>1, <1>9 DEF StateOK, End3, Bounded
<1>10. QED
  BY <1>1, <1>2, <1>3, <1>4, <1>5, <1>6, <1>7, <1>8, <1>9
     DEF Next, Review, Open, ReadFails, vars

\* A finished review read the same records in its passes: what the third one
\* would have marked is what the second one read.
LEMMA SkippedPass ==
    ASSUME ReadOK, pc = "ok", NEW s \in Sessions
    PROVE  Gathered(period, read2, read3, s) = Described(period, read2, s)
<1>1. read2 = read1 /\ read1 \in Seq(Rows) /\ Timed(read1) /\ (read3 = read1 \/ (read3 = <<>> /\ ~SpanOutside))
  BY DEF ReadOK
<1>2. CASE read3 = read1
  BY <1>1, <1>2 DEF Gathered, Described
<1>3. CASE read3 = <<>> /\ ~SpanOutside
  <2>1. CASE Mine(period, read2, s) = {}
    BY <2>1 DEF Gathered, Described
  <2>2. CASE Mine(period, read2, s) # {}
    <3>1. read1 # <<>>
      BY <1>1, <2>2 DEF Mine
    <3>2. period \in [start: Nat, end: Nat]
      BY DEF ReadOK, Bounded
    <3>3. \A i \in DOMAIN read1 : In(period, read1[i].t)
      <4>1. \A i \in DOMAIN read1 : /\ read1[i].t \in Nat /\ Earliest(read1) <= read1[i].t
                                     /\ read1[i].t <= Latest(read1)
        BY <1>1, <3>1, SpanFound DEF Timed
      <4>2. Earliest(read1) \in Nat /\ Latest(read1) \in Nat
        BY <1>1, <3>1, SpanFound
      <4>3. period.start <= Earliest(read1) /\ Latest(read1) < period.end /\ period.start \in Nat /\ period.end \in Nat
        BY <1>3, <3>2, <4>2 DEF SpanOutside
      <4>4. QED
        BY <4>1, <4>2, <4>3 DEF In
    <3>4. PICK x, y : x = Cut(period, read3, s) /\ y = Cut(period, read2, s)
      OBVIOUS
    <3>5. x = FALSE
      BY <1>3, <3>4 DEF Cut
    <3>6. y = FALSE
      BY <1>1, <3>3, <3>4 DEF Cut
    <3>7. QED
      BY <2>2, <3>4, <3>5, <3>6 DEF Gathered, Described
  <2>3. QED
    BY <2>1, <2>2
<1>4. QED
  BY <1>1, <1>2, <1>3

\* For every file, every period and all limits, and whatever other programs
\* do to the file between and during the passes, a review that succeeds
\* describes one sequence of records.
THEOREM ReviewIsOfOneFile == Spec => []ReviewOfOneFile
<1>1. ReadOK /\ StateOK => ReviewOfOneFile
  <2>1. SUFFICES ASSUME ReadOK, StateOK, pc = "ok"
                 PROVE  /\ period = SessionPeriod(read2)
                        /\ \A s \in Sessions : states[s] = Described(period, read2, s)
    BY DEF ReviewOfOneFile
  <2>2. period = SessionPeriod(read2)
    BY <2>1 DEF ReadOK, Bounded
  <2>3. \A s \in Sessions : states[s] = Gathered(period, read2, read3, s)
    BY <2>1 DEF StateOK, Bounded
  <2>4. QED
    BY <2>1, <2>2, <2>3, SkippedPass
<1>2. QED
  BY <1>1, StateInit, StateNext, PassesAgree, PTL DEF Spec
-----------------------------------------------------------------------------
(* What the totals of the report add up to.                                *)

\* What one more record adds to a session.
LEMMA AccumulateEffect ==
    ASSUME NEW T \in States, NEW row \in Rows, NEW N, N = Accumulate(T, row)
    PROVE  /\ N.calls = T.calls + (IF Analysed(row) THEN 1 ELSE 0)
           /\ N.tokens = T.tokens + (IF Analysed(row) THEN row.tokens ELSE 0)
           /\ N.cost = T.cost + (IF Analysed(row) /\ Usable(row) THEN row.spend ELSE 0)
           /\ N.covered = (T.covered /\ row.rejection # "absent")
<1>1. T.calls \in Nat /\ T.tokens \in Nat /\ T.cost \in Nat /\ T.covered \in BOOLEAN
  BY DEF States
<1>2. PICK U : U = Touch(T, row)
  OBVIOUS
<1>3. /\ U.calls = T.calls /\ U.tokens = T.tokens /\ U.cost = T.cost
      /\ U.covered = (T.covered /\ row.rejection # "absent") /\ DOMAIN U = DOMAIN T
  BY <1>2 DEF Touch, States
<1>4. CASE Rejected(row)
  <2>1. N.calls = U.calls /\ N.tokens = U.tokens /\ N.cost = U.cost /\ N.covered = U.covered
    BY <1>2, <1>4 DEF Accumulate
  <2>2. QED
    BY <1>1, <1>3, <1>4, <2>1 DEF Analysed
<1>5. CASE Unsupported(row)
  <2>1. N.calls = U.calls /\ N.tokens = U.tokens /\ N.cost = U.cost /\ N.covered = U.covered
    BY <1>2, <1>5 DEF Accumulate, Unsupported
  <2>2. QED
    BY <1>1, <1>3, <1>5, <2>1 DEF Analysed, Unsupported
<1>6. CASE Analysed(row)
  <2>1. N = Call(U, row)
    BY <1>2, <1>6 DEF Accumulate, Analysed, Unsupported
  <2>2. /\ N.calls = U.calls + 1 /\ N.tokens = U.tokens + row.tokens
        /\ N.cost = U.cost + (IF Usable(row) THEN row.spend ELSE 0) /\ N.covered = U.covered
    BY <1>3, <2>1 DEF Call, States
  <2>3. QED
    BY <1>1, <1>3, <1>6, <2>2
<1>7. QED
  BY <1>4, <1>5, <1>6 DEF Analysed, Unsupported

\* The tokens of the calls in the period, with one more record.
LEMMA TokensOfMore ==
    ASSUME NEW p, NEW rows \in Seq(Rows), NEW row \in Rows
    PROVE  /\ TokensOf(p, rows) \in Nat
           /\ TokensOf(p, Append(rows, row)) =
                TokensOf(p, rows) + (IF In(p, row.t) /\ Analysed(row) THEN row.tokens ELSE 0)
<1>1. PICK n, more, I, J :
        n = Len(rows) + 1 /\ more = Append(rows, row) /\ I = CallsOf(p, rows) /\ J = CallsOf(p, more)
  OBVIOUS
<1>2. /\ DOMAIN rows = 1..Len(rows) /\ Len(rows) \in Nat /\ DOMAIN more = DOMAIN rows \cup {n}
      /\ more \in Seq(Rows) /\ n \notin DOMAIN rows
      /\ more[n] = row /\ \A i \in DOMAIN rows : more[i] = rows[i]
  <2>1. DOMAIN more = 1..n /\ DOMAIN rows = 1..Len(rows) /\ Len(rows) \in Nat /\ more \in Seq(Rows)
    BY <1>1
  <2>2. DOMAIN more = DOMAIN rows \cup {n} /\ n \notin DOMAIN rows
    BY <1>1, <2>1
  <2>3. more[n] = row /\ \A i \in DOMAIN rows : more[i] = rows[i]
    BY <1>1, <2>1
  <2>4. QED
    BY <2>1, <2>2, <2>3
<1>3. I \in SUBSET DOMAIN rows /\ J = (IF In(p, row.t) /\ Analysed(row) THEN I \cup {n} ELSE I)
  BY <1>1, <1>2 DEF CallsOf
<1>4. [i \in I |-> more[i].tokens] = [i \in I |-> rows[i].tokens]
  BY <1>2, <1>3
<1>5. n \in DOMAIN more /\ n \notin I /\ I \in SUBSET DOMAIN more
  BY <1>2, <1>3
<1>6. /\ SumFunctionOnSet([i \in I |-> more[i].tokens], I) \in Nat
      /\ SumFunctionOnSet([i \in I \cup {n} |-> more[i].tokens], I \cup {n})
           = SumFunctionOnSet([i \in I |-> more[i].tokens], I) + more[n].tokens
  BY <1>2, <1>5, TokensMore
<1>7. TokensOf(p, rows) = SumFunctionOnSet([i \in I |-> rows[i].tokens], I)
  BY <1>1 DEF TokensOf
<1>8. TokensOf(p, more) = SumFunctionOnSet([i \in J |-> more[i].tokens], J)
  BY <1>1 DEF TokensOf
<1>9. CASE In(p, row.t) /\ Analysed(row)
  BY <1>1, <1>2, <1>3, <1>4, <1>6, <1>7, <1>8, <1>9
<1>10. CASE ~(In(p, row.t) /\ Analysed(row))
  <2>1. J = I
    BY <1>3, <1>10
  <2>2. TokensOf(p, more) = TokensOf(p, rows) /\ TokensOf(p, rows) \in Nat
    BY <1>4, <1>6, <1>7, <1>8, <2>1
  <2>3. QED
    BY <1>1, <1>10, <2>2
<1>11. QED
  BY <1>9, <1>10

\* The totals, the limits they respect, and how they relate to the sessions.
SumsType ==
    sums \in [selected: Nat, unsupported: Nat, classified: Nat, calls: Nat, tokens: 0..MaxCount,
              loose: Nat, looseCalls: Nat, looseSpend: Nat]

CallsHeld == SumFunctionOnSet([s \in Retained |-> states[s].calls], Retained)
TokensHeld == SumFunctionOnSet([s \in Retained |-> states[s].tokens], Retained)

SumOK ==
    /\ SumsType
    /\ IsFiniteSet(Retained) /\ Cardinality(Retained) <= MaxSessions
    /\ IsFiniteSet(members) /\ Cardinality(members) <= MaxMembers
    /\ sums.calls = sums.looseCalls + CallsHeld
    /\ sums.tokens >= TokensHeld
    /\ sums.classified <= sums.selected
    /\ \A s \in Retained : /\ states[s].covered \/ sums.classified < sums.selected
                           /\ states[s].calls = 0 => states[s].cost = 0
    /\ Bounded => sums.tokens = TokensOf(period, read2)

\* Nothing is counted at the start.
LEMMA SumInit == Init => SumOK
<1>1. SUFFICES ASSUME Init PROVE SumOK
  OBVIOUS
<1>2. Retained = {} /\ members = {} /\ sums = ZeroSums /\ pc = "pass1"
  BY <1>1 DEF Init, Retained
<1>3. IsFiniteSet({}) /\ Cardinality({}) = 0
  BY FS_EmptySet
<1>4. CallsHeld = 0 /\ TokensHeld = 0
  BY <1>2, <1>3, SumStep DEF CallsHeld, TokensHeld
<1>5. MaxCount \in Nat /\ MaxSessions \in Nat /\ MaxMembers \in Nat
  BY SessionAssumption
<1>6. QED
  BY <1>2, <1>3, <1>4, <1>5 DEF SumOK, SumsType, ZeroSums, Bounded

\* From A to B, retaining R and Q, one more record of session e: row n.
OneMore(A, B, row, n, R, Q, e) ==
    /\ A \in [Sessions -> States \cup {NoId}] /\ B \in [Sessions -> States \cup {NoId}]
    /\ row \in Rows /\ n \in 1..MaxRows /\ e = row.session /\ e \in Sessions
    /\ B = [A EXCEPT ![e] = Accumulate(IF @ = NoId THEN NewState(n) ELSE @, row)] /\ B[e] # NoId
    /\ R = {s \in Sessions : A[s] # NoId} /\ Q = {s \in Sessions : B[s] # NoId} /\ IsFiniteSet(R)

\* What the retained sessions hold and held.
Gained(A, B, row, R, Q, e) ==
    /\ Q = R \cup {e} /\ \A s \in R \ {e} : B[s] = A[s]
    /\ SumFunctionOnSet([s \in R |-> A[s].calls], R) \in Nat
    /\ SumFunctionOnSet([s \in Q |-> B[s].calls], Q)
         = SumFunctionOnSet([s \in R |-> A[s].calls], R) + (IF Analysed(row) THEN 1 ELSE 0)
    /\ SumFunctionOnSet([s \in R |-> A[s].tokens], R) \in Nat
    /\ SumFunctionOnSet([s \in Q |-> B[s].tokens], Q)
         = SumFunctionOnSet([s \in R |-> A[s].tokens], R) + (IF Analysed(row) THEN row.tokens ELSE 0)
    /\ B[e].covered = ((e \in R => A[e].covered) /\ row.rejection # "absent")
    /\ (e \in R /\ A[e].calls = 0 => A[e].cost = 0) => (B[e].calls = 0 => B[e].cost = 0)

\* The sessions after one more record: at most one of them is new, and what
\* it gained is what the record adds.
LEMMA SessionsMore ==
    ASSUME NEW A, NEW B, NEW row, NEW n, NEW R, NEW Q, NEW e, OneMore(A, B, row, n, R, Q, e)
    PROVE  Gained(A, B, row, R, Q, e)
<1>0. /\ A \in [Sessions -> States \cup {NoId}] /\ B \in [Sessions -> States \cup {NoId}]
      /\ row \in Rows /\ n \in 1..MaxRows /\ e = row.session /\ e \in Sessions
      /\ B = [A EXCEPT ![e] = Accumulate(IF @ = NoId THEN NewState(n) ELSE @, row)] /\ B[e] # NoId
      /\ R = {s \in Sessions : A[s] # NoId} /\ Q = {s \in Sessions : B[s] # NoId} /\ IsFiniteSet(R)
  BY DEF OneMore
<1>1. PICK T : T = IF A[e] = NoId THEN NewState(n) ELSE A[e]
  OBVIOUS
<1>2. B[e] = Accumulate(T, row)
  BY <1>0, <1>1
<1>3. T \in States
  <2>1. NewState(n) \in States
    BY <1>0, SpendFileAssumption DEF NewState, States
  <2>2. QED
    BY <1>0, <1>1, <2>1
<1>4. /\ B[e].calls = T.calls + (IF Analysed(row) THEN 1 ELSE 0)
      /\ B[e].tokens = T.tokens + (IF Analysed(row) THEN row.tokens ELSE 0)
      /\ B[e].cost = T.cost + (IF Analysed(row) /\ Usable(row) THEN row.spend ELSE 0)
      /\ B[e].covered = (T.covered /\ row.rejection # "absent")
  BY <1>0, <1>2, <1>3, AccumulateEffect
<1>5. /\ T.calls = (IF e \in R THEN A[e].calls ELSE 0) /\ T.tokens = (IF e \in R THEN A[e].tokens ELSE 0)
      /\ T.cost = (IF e \in R THEN A[e].cost ELSE 0) /\ T.covered = (e \in R => A[e].covered)
      /\ T.calls \in Nat /\ T.tokens \in Nat /\ T.cost \in Nat
  <2>1. CASE e \in R
    <3>1. T = A[e]
      BY <1>0, <1>1, <2>1
    <3>2. T.covered \in BOOLEAN
      BY <1>3 DEF States
    <3>3. QED
      BY <1>3, <2>1, <3>1, <3>2 DEF States
  <2>2. CASE e \notin R
    <3>1. T = NewState(n)
      BY <1>0, <1>1, <2>2
    <3>2. QED
      BY <2>2, <3>1 DEF NewState
  <2>3. QED
    BY <2>1, <2>2
<1>6. Q = R \cup {e} /\ \A s \in R \ {e} : B[s] = A[s]
  BY <1>0
<1>7. \A s \in R : A[s].calls \in Nat /\ A[s].tokens \in Nat
  BY <1>0 DEF States
<1>8. row.tokens \in Nat
  BY <1>0, RowTypes
<1>9. /\ SumFunctionOnSet([s \in R |-> A[s].calls], R) \in Nat
      /\ SumFunctionOnSet([s \in Q |-> B[s].calls], Q)
           = SumFunctionOnSet([s \in R |-> A[s].calls], R) + (IF Analysed(row) THEN 1 ELSE 0)
  <2>1. PICK f, g, d : f = [s \in R |-> A[s].calls] /\ g = [s \in Q |-> B[s].calls]
                       /\ d = IF Analysed(row) THEN 1 ELSE 0
    OBVIOUS
  <2>2. d \in Nat /\ \A s \in R : f[s] \in Nat
    BY <1>7, <2>1
  <2>3. (\A s \in R \ {e} : g[s] = f[s]) /\ g[e] = (IF e \in R THEN f[e] ELSE 0) + d
    BY <1>4, <1>5, <1>6, <2>1
  <2>4. SumFunctionOnSet(f, R) \in Nat /\ SumFunctionOnSet(g, R \cup {e}) = SumFunctionOnSet(f, R) + d
    <3>1. MovesUp(f, g, R, e, d)
      BY <2>2, <2>3 DEF MovesUp
    <3>2. QED
      BY <1>0, <3>1, SumMove
  <2>5. QED
    BY <1>6, <2>1, <2>4
<1>10. /\ SumFunctionOnSet([s \in R |-> A[s].tokens], R) \in Nat
       /\ SumFunctionOnSet([s \in Q |-> B[s].tokens], Q)
            = SumFunctionOnSet([s \in R |-> A[s].tokens], R) + (IF Analysed(row) THEN row.tokens ELSE 0)
  <2>1. PICK f, g, d : f = [s \in R |-> A[s].tokens] /\ g = [s \in Q |-> B[s].tokens]
                       /\ d = IF Analysed(row) THEN row.tokens ELSE 0
    OBVIOUS
  <2>2. d \in Nat /\ \A s \in R : f[s] \in Nat
    BY <1>7, <1>8, <2>1
  <2>3. (\A s \in R \ {e} : g[s] = f[s]) /\ g[e] = (IF e \in R THEN f[e] ELSE 0) + d
    BY <1>4, <1>5, <1>6, <2>1
  <2>4. SumFunctionOnSet(f, R) \in Nat /\ SumFunctionOnSet(g, R \cup {e}) = SumFunctionOnSet(f, R) + d
    <3>1. MovesUp(f, g, R, e, d)
      BY <2>2, <2>3 DEF MovesUp
    <3>2. QED
      BY <1>0, <3>1, SumMove
  <2>5. QED
    BY <1>6, <2>1, <2>4
<1>11. B[e].covered = ((e \in R => A[e].covered) /\ row.rejection # "absent")
  BY <1>4, <1>5
<1>12. (e \in R /\ A[e].calls = 0 => A[e].cost = 0) => (B[e].calls = 0 => B[e].cost = 0)
  BY <1>4, <1>5
<1>13. QED
  BY <1>6, <1>9, <1>10, <1>11, <1>12 DEF Gained

\* The identities of one record are few.
LEMMA NewMembersFinite == ASSUME NEW row PROVE IsFiniteSet(NewMembers(row))
<1>1. IsFiniteSet(IdKinds)
  <2>1. IsFiniteSet({}) /\ IdKinds = (({} \cup {"key"}) \cup {"team"}) \cup {"agent"}
    BY FS_EmptySet DEF IdKinds
  <2>2. IsFiniteSet({} \cup {"key"})
    BY <2>1, FS_AddElement
  <2>3. IsFiniteSet(({} \cup {"key"}) \cup {"team"})
    BY <2>2, FS_AddElement
  <2>4. QED
    BY <2>1, <2>3, FS_AddElement
<1>2. PICK K, f : K = {k \in IdKinds : row.who[k] # 0} /\ f = [k \in K |-> <<row.session, k, row.who[k]>>]
  OBVIOUS
<1>3. IsFiniteSet(K)
  BY <1>1, <1>2, FS_Subset
<1>4. NewMembers(row) = {f[k] : k \in K}
  BY <1>2 DEF NewMembers
<1>5. QED
  BY <1>3, <1>4, ImageFinite

\* The totals with one more selected record within the limits.
LEMMA SumsMore ==
    ASSUME SumsType, NEW row \in Rows, Analysed(row) => sums.tokens + row.tokens <= MaxCount,
           NEW N, N = SumsWith(row)
    PROVE  /\ N \in [selected: Nat, unsupported: Nat, classified: Nat, calls: Nat, tokens: 0..MaxCount,
                     loose: Nat, looseCalls: Nat, looseSpend: Nat]
           /\ N.selected = sums.selected + 1
           /\ N.classified = sums.classified + (IF row.rejection # "absent" THEN 1 ELSE 0)
           /\ N.calls = sums.calls + (IF Analysed(row) THEN 1 ELSE 0)
           /\ N.looseCalls = sums.looseCalls + (IF row.session = NoId /\ Analysed(row) THEN 1 ELSE 0)
           /\ N.tokens = sums.tokens + (IF Analysed(row) THEN row.tokens ELSE 0)
<1>1. /\ sums.selected \in Nat /\ sums.unsupported \in Nat /\ sums.classified \in Nat /\ sums.calls \in Nat
      /\ sums.tokens \in 0..MaxCount /\ sums.loose \in Nat /\ sums.looseCalls \in Nat
      /\ sums.looseSpend \in Nat
  BY DEF SumsType
<1>2. row.tokens \in Nat /\ row.spend \in Nat \cup {-1, -2} /\ MaxCount \in Nat
  BY RowTypes, SessionAssumption
<1>3. PICK a, u, j, l \in BOOLEAN :
        /\ a = Analysed(row) /\ u = Unsupported(row) /\ j = (row.rejection # "absent") /\ l = (row.session = NoId)
  BY DEF Analysed, Unsupported
<1>4. /\ N.selected = sums.selected + 1
      /\ N.unsupported = sums.unsupported + (IF u THEN 1 ELSE 0)
      /\ N.classified = sums.classified + (IF j THEN 1 ELSE 0)
      /\ N.calls = sums.calls + (IF a THEN 1 ELSE 0)
      /\ N.tokens = sums.tokens + (IF a THEN row.tokens ELSE 0)
      /\ N.loose = sums.loose + (IF l THEN 1 ELSE 0)
      /\ N.looseCalls = sums.looseCalls + (IF l /\ a THEN 1 ELSE 0)
      /\ N.looseSpend = sums.looseSpend + (IF l /\ a /\ Usable(row) THEN row.spend ELSE 0)
  BY <1>3 DEF SumsWith, SumsType
<1>5. /\ N.unsupported \in Nat /\ N.classified \in Nat /\ N.calls \in Nat /\ N.tokens \in 0..MaxCount
      /\ N.loose \in Nat /\ N.looseCalls \in Nat /\ N.looseSpend \in Nat /\ N.selected \in Nat
  BY <1>1, <1>2, <1>3, <1>4 DEF Usable
<1>6. N \in [selected: Nat, unsupported: Nat, classified: Nat, calls: Nat, tokens: 0..MaxCount,
             loose: Nat, looseCalls: Nat, looseSpend: Nat]
  <2>1. N = [f \in {"selected", "unsupported", "classified", "calls", "tokens", "loose", "looseCalls",
                    "looseSpend"} |-> N[f]]
    BY DEF SumsWith, SumsType
  <2>2. QED
    BY <1>5, <2>1
<1>7. QED
  BY <1>3, <1>4, <1>6

\* One more record of a session, within the limits.
LEMMA SumSession ==
    ASSUME ReadOK, StateOK, SumOK, StateOK', Visit2, ~Fail, Selected(NextRow), NextRow.session # NoId
    PROVE  /\ IsFiniteSet(Retained') /\ Cardinality(Retained') <= MaxSessions
           /\ IsFiniteSet(members') /\ Cardinality(members') <= MaxMembers
           /\ CallsHeld \in Nat /\ CallsHeld' = CallsHeld + (IF Analysed(NextRow) THEN 1 ELSE 0)
           /\ TokensHeld \in Nat
           /\ TokensHeld' = TokensHeld + (IF Analysed(NextRow) THEN NextRow.tokens ELSE 0)
           /\ Retained' = Retained \cup {NextRow.session}
           /\ \A s \in Retained \ {NextRow.session} : states'[s] = states[s]
           /\ states'[NextRow.session].covered =
                ((NextRow.session \in Retained => states[NextRow.session].covered) /\ NextRow.rejection # "absent")
           /\ states'[NextRow.session].calls = 0 => states'[NextRow.session].cost = 0
<1>1. PICK row, e : row = NextRow /\ e = row.session
  OBVIOUS
<1>2. /\ row \in Rows /\ row.t \in Nat /\ ~OverLimit(row) /\ pos + 1 <= MaxRows /\ period' = period
      /\ states' = [states EXCEPT ![e] = Accumulate(IF @ = NoId THEN NewState(pos + 1) ELSE @, row)]
      /\ members' = members \cup NewMembers(row) /\ read2' = Append(read2, row) /\ pc' = "pass2"
  BY <1>1, SecondPass
<1>3. e \in Sessions
  BY <1>1, <1>2, RowTypes
<1>4. pos + 1 \in 1..MaxRows
  BY <1>2, SpendFileAssumption DEF ReadOK, FileTypeOK
<1>5. states \in [Sessions -> States \cup {NoId}] /\ states' \in [Sessions -> States \cup {NoId}]
  BY DEF StateOK
<1>6. states'[e] # NoId
  <2>1. states'[e] = Gathered(period', read2', read3', e)
    BY <1>2, <1>3 DEF StateOK, Bounded
  <2>2. Mine(period, Append(read2, row), e) # {}
    <3>1. Mine(period, Append(read2, row), e) = Mine(period, read2, e) \cup {Len(read2) + 1}
      BY <1>1, <1>2, MineMore DEF Selected, ReadOK
    <3>2. QED
      BY <3>1
  <2>3. Append(read2, row) \in Seq(Rows) /\ Timed(Append(read2, row)) /\ Len(Append(read2, row)) <= MaxRows
    <3>1. row.t # BadTime
      BY <1>2 DEF BadTime
    <3>2. pc = "pass2"
      BY SecondPass
    <3>3. QED
      BY <1>2, <3>1, <3>2, TimedMore DEF ReadOK
  <2>4. Gathered(period, Append(read2, row), read3', e) = NoId <=> Mine(period, Append(read2, row), e) = {}
    BY <2>3, GatheredType
  <2>5. QED
    BY <1>2, <2>1, <2>2, <2>4
<1>7. PICK A, B, R, Q : A = states /\ B = states' /\ R = Retained /\ Q = Retained'
  OBVIOUS
<1>8. R = {s \in Sessions : A[s] # NoId} /\ Q = {s \in Sessions : B[s] # NoId} /\ IsFiniteSet(R)
  BY <1>7 DEF Retained, SumOK
<1>9. /\ Q = R \cup {e} /\ \A s \in R \ {e} : B[s] = A[s]
      /\ SumFunctionOnSet([s \in R |-> A[s].calls], R) \in Nat
      /\ SumFunctionOnSet([s \in Q |-> B[s].calls], Q)
           = SumFunctionOnSet([s \in R |-> A[s].calls], R) + (IF Analysed(row) THEN 1 ELSE 0)
      /\ SumFunctionOnSet([s \in R |-> A[s].tokens], R) \in Nat
      /\ SumFunctionOnSet([s \in Q |-> B[s].tokens], Q)
           = SumFunctionOnSet([s \in R |-> A[s].tokens], R) + (IF Analysed(row) THEN row.tokens ELSE 0)
      /\ B[e].covered = ((e \in R => A[e].covered) /\ row.rejection # "absent")
      /\ (e \in R /\ A[e].calls = 0 => A[e].cost = 0) => (B[e].calls = 0 => B[e].cost = 0)
  <2>1. OneMore(A, B, row, pos + 1, R, Q, e)
    BY <1>1, <1>2, <1>3, <1>4, <1>5, <1>6, <1>7, <1>8 DEF OneMore
  <2>2. Gained(A, B, row, R, Q, e)
    BY <2>1, SessionsMore
  <2>3. QED
    BY <2>2 DEF Gained
<1>10. /\ CallsHeld \in Nat /\ CallsHeld' = CallsHeld + (IF Analysed(row) THEN 1 ELSE 0)
       /\ TokensHeld \in Nat /\ TokensHeld' = TokensHeld + (IF Analysed(row) THEN row.tokens ELSE 0)
  BY <1>7, <1>9 DEF CallsHeld, TokensHeld
<1>11. IsFiniteSet(Q) /\ Cardinality(Q) <= MaxSessions
  <2>1. Cardinality(R) <= MaxSessions /\ Cardinality(R) \in Nat /\ MaxSessions \in Nat
    BY <1>7, <1>8, FS_CardinalityType, SessionAssumption DEF SumOK
  <2>2. CASE e \in R
    <3>1. Q = R
      BY <1>9, <2>2
    <3>2. QED
      BY <1>8, <2>1, <3>1
  <2>3. CASE e \notin R
    <3>1. Cardinality(R) # MaxSessions
      BY <1>1, <1>2, <1>3, <1>7, <1>8, <2>3 DEF OverLimit
    <3>2. IsFiniteSet(Q) /\ Cardinality(Q) = Cardinality(R) + 1
      <4>1. Q = R \cup {e} /\ IsFiniteSet(R)
        BY <1>8, <1>9
      <4>2. QED
        BY <2>3, <4>1, FS_AddElement
    <3>3. QED
      BY <2>1, <3>1, <3>2
  <2>4. QED
    BY <2>2, <2>3
<1>12. IsFiniteSet(members') /\ Cardinality(members') <= MaxMembers
  <2>1. IsFiniteSet(members')
    BY <1>2, NewMembersFinite, FS_Union DEF SumOK
  <2>2. ~(Cardinality(members') > MaxMembers)
    BY <1>1, <1>2 DEF OverLimit
  <2>3. QED
    BY <2>1, <2>2, FS_CardinalityType, SessionAssumption
<1>13. B[e].calls = 0 => B[e].cost = 0
  BY <1>7, <1>9 DEF SumOK
<1>14. QED
  BY <1>1, <1>7, <1>9, <1>10, <1>11, <1>12, <1>13

\* Every step keeps the totals and the limits.
LEMMA SumNext == ReadOK /\ ReadOK' /\ StateOK /\ StateOK' /\ SumOK /\ [Next]_vars => SumOK'
<1>1. SUFFICES ASSUME ReadOK, ReadOK', StateOK, StateOK', SumOK, [Next]_vars PROVE SumOK'
  OBVIOUS
<1>2. CASE UNCHANGED <<sums, states, members>> /\ (Bounded' => Bounded /\ UNCHANGED <<period, read2>>)
  <2>1. Retained' = Retained /\ CallsHeld' = CallsHeld /\ TokensHeld' = TokensHeld
    BY <1>2 DEF Retained, CallsHeld, TokensHeld
  <2>2. QED
    BY <1>1, <1>2, <2>1 DEF SumOK, SumsType
<1>3. CASE End1 /\ ~Fail
  <2>1. /\ UNCHANGED <<sums, states, members>> /\ sums = ZeroSums /\ read2' = <<>>
    BY <1>1, <1>3 DEF End1, ReadOK, StateOK
  <2>2. Retained' = Retained /\ CallsHeld' = CallsHeld /\ TokensHeld' = TokensHeld
    BY <2>1 DEF Retained, CallsHeld, TokensHeld
  <2>3. TokensOf(period', read2') = 0
    <3>1. CallsOf(period', read2') = {}
      BY <2>1 DEF CallsOf
    <3>2. QED
      BY <3>1, FS_EmptySet, SumStep DEF TokensOf
  <2>4. QED
    BY <1>1, <2>1, <2>2, <2>3 DEF SumOK, SumsType, ZeroSums
<1>4. CASE Visit2 /\ ~Fail
  <2>1. PICK row : row = NextRow
    OBVIOUS
  <2>2. /\ row \in Rows /\ read2' = Append(read2, row) /\ period' = period /\ Bounded /\ Bounded'
        /\ ~OverLimit(row) /\ sums' = IF Selected(row) THEN SumsWith(row) ELSE sums
        /\ ~(Selected(row) /\ row.session # NoId) => UNCHANGED <<states, members>>
    BY <1>1, <1>4, <2>1, SecondPass DEF Bounded
  <2>3. /\ TokensOf(period, read2) \in Nat
        /\ TokensOf(period, read2') = TokensOf(period, read2)
             + (IF Selected(row) /\ Analysed(row) THEN row.tokens ELSE 0)
    BY <1>1, <2>2, TokensOfMore DEF ReadOK, Selected
  <2>4. /\ sums.tokens = TokensOf(period, read2) /\ SumsType
        /\ sums.selected \in Nat /\ sums.classified \in Nat /\ sums.calls \in Nat /\ sums.tokens \in Nat
        /\ sums.looseCalls \in Nat /\ row.tokens \in Nat /\ MaxCount \in Nat
    BY <1>1, <2>2, RowTypes, SessionAssumption DEF SumOK, SumsType
  <2>5. CASE ~Selected(row)
    <3>1. UNCHANGED <<sums, states, members>>
      BY <2>2, <2>5
    <3>2. Retained' = Retained /\ CallsHeld' = CallsHeld /\ TokensHeld' = TokensHeld
      BY <3>1 DEF Retained, CallsHeld, TokensHeld
    <3>3. sums'.tokens = TokensOf(period', read2')
      BY <2>2, <2>3, <2>4, <2>5, <3>1
    <3>4. QED
      BY <1>1, <3>1, <3>2, <3>3 DEF SumOK, SumsType
  <2>6. CASE Selected(row)
    <3>1. Analysed(row) => sums.tokens + row.tokens <= MaxCount
      BY <2>2, <2>4, <2>6 DEF OverLimit
    <3>2. /\ SumsType' /\ sums'.selected = sums.selected + 1
          /\ sums'.classified = sums.classified + (IF row.rejection # "absent" THEN 1 ELSE 0)
          /\ sums'.calls = sums.calls + (IF Analysed(row) THEN 1 ELSE 0)
          /\ sums'.looseCalls = sums.looseCalls + (IF row.session = NoId /\ Analysed(row) THEN 1 ELSE 0)
          /\ sums'.tokens = sums.tokens + (IF Analysed(row) THEN row.tokens ELSE 0)
      BY <2>2, <2>4, <2>6, <3>1, SumsMore DEF SumsType
    <3>3. sums'.tokens = TokensOf(period', read2')
      BY <2>2, <2>3, <2>4, <2>6, <3>2
    <3>4. sums'.classified <= sums'.selected
      BY <1>1, <2>4, <3>2 DEF SumOK
    <3>5. CASE row.session = NoId
      <4>1. UNCHANGED <<states, members>>
        BY <2>2, <3>5
      <4>2. Retained' = Retained /\ CallsHeld' = CallsHeld /\ TokensHeld' = TokensHeld
        BY <4>1 DEF Retained, CallsHeld, TokensHeld
      <4>3. CallsHeld \in Nat /\ TokensHeld \in Nat
        <5>1. PICK R, f, g : R = Retained /\ f = [s \in R |-> states[s].calls]
                              /\ g = [s \in R |-> states[s].tokens]
          OBVIOUS
        <5>2. \A s \in R : states[s] \in States
          BY <1>1, <5>1 DEF StateOK, Retained
        <5>3. \A s \in R : f[s] \in Nat /\ g[s] \in Nat
          BY <5>1, <5>2 DEF States
        <5>4. IsFiniteSet(R)
          BY <1>1, <5>1 DEF SumOK
        <5>5. QED
          BY <5>1, <5>3, <5>4, SumType DEF CallsHeld, TokensHeld
      <4>4. sums'.calls = sums'.looseCalls + CallsHeld'
        BY <1>1, <2>4, <3>2, <3>5, <4>2, <4>3 DEF SumOK
      <4>5. sums'.tokens >= TokensHeld'
        BY <1>1, <2>4, <3>2, <4>2, <4>3 DEF SumOK
      <4>6. \A s \in Retained : states[s].covered \/ sums'.classified < sums'.selected
        BY <1>1, <2>4, <3>2 DEF SumOK
      <4>7. QED
        BY <1>1, <3>2, <3>3, <3>4, <4>1, <4>2, <4>4, <4>5, <4>6 DEF SumOK
    <3>6. CASE row.session # NoId
      <4>1. PICK e : e = row.session
        OBVIOUS
      <4>2. /\ IsFiniteSet(Retained') /\ Cardinality(Retained') <= MaxSessions
            /\ IsFiniteSet(members') /\ Cardinality(members') <= MaxMembers
            /\ CallsHeld \in Nat /\ CallsHeld' = CallsHeld + (IF Analysed(row) THEN 1 ELSE 0)
            /\ TokensHeld \in Nat
            /\ TokensHeld' = TokensHeld + (IF Analysed(row) THEN row.tokens ELSE 0)
            /\ Retained' = Retained \cup {e} /\ \A s \in Retained \ {e} : states'[s] = states[s]
            /\ states'[e].covered = ((e \in Retained => states[e].covered) /\ row.rejection # "absent")
            /\ states'[e].calls = 0 => states'[e].cost = 0
        BY <1>1, <1>4, <2>1, <2>6, <3>6, <4>1, SumSession
      <4>3. sums'.calls = sums'.looseCalls + CallsHeld'
        BY <1>1, <2>4, <3>2, <3>6, <4>2 DEF SumOK
      <4>4. sums'.tokens >= TokensHeld'
        BY <1>1, <2>4, <3>2, <4>2 DEF SumOK
      <4>5. \A s \in Retained' : /\ states'[s].covered \/ sums'.classified < sums'.selected
                                 /\ states'[s].calls = 0 => states'[s].cost = 0
        <5>1. TAKE s \in Retained'
        <5>2. CASE s # e
          <6>1. s \in Retained /\ states'[s] = states[s]
            BY <4>2, <5>2
          <6>2. QED
            BY <1>1, <2>4, <3>2, <6>1 DEF SumOK
        <5>3. CASE s = e
          <6>1. CASE row.rejection = "absent"
            BY <1>1, <2>4, <3>2, <4>2, <5>3, <6>1 DEF SumOK
          <6>2. CASE row.rejection # "absent" /\ (e \in Retained => states[e].covered)
            BY <4>2, <5>3, <6>2
          <6>3. CASE row.rejection # "absent" /\ e \in Retained /\ ~states[e].covered
            <7>1. sums.classified < sums.selected
              BY <1>1, <6>3 DEF SumOK
            <7>2. QED
              BY <2>4, <3>2, <4>2, <5>3, <7>1
          <6>4. QED
            BY <6>1, <6>2, <6>3
        <5>4. QED
          BY <5>2, <5>3
      <4>6. QED
        BY <3>2, <3>3, <3>4, <4>2, <4>3, <4>4, <4>5 DEF SumOK
    <3>7. QED
      BY <3>5, <3>6
  <2>7. QED
    BY <2>5, <2>6
<1>5. CASE Visit3 /\ ~Fail
  <2>1. PICK row : row = NextRow
    OBVIOUS
  <2>2. /\ UNCHANGED <<sums, members, period, read2>> /\ Bounded /\ Bounded'
        /\ states' = IF ~Selected(row) /\ row.session \in Retained
                     THEN [states EXCEPT ![row.session].clipped = TRUE] ELSE states
    BY <1>5, <2>1 DEF Visit3, Visiting, Bounded
  <2>3. /\ states \in [Sessions -> States \cup {NoId}] /\ states' \in [Sessions -> States \cup {NoId}]
        /\ NoId \notin States
    BY <1>1, SessionAssumption DEF StateOK
  <2>4. \A s \in Sessions :
          /\ states'[s] # NoId <=> states[s] # NoId
          /\ states[s] # NoId => /\ states'[s].calls = states[s].calls /\ states'[s].tokens = states[s].tokens
                                 /\ states'[s].cost = states[s].cost /\ states'[s].covered = states[s].covered
    <3>1. TAKE s \in Sessions
    <3>2. CASE s = row.session /\ ~Selected(row) /\ s \in Retained
      <4>1. states'[s] = [states[s] EXCEPT !.clipped = TRUE] /\ states[s] \in States /\ states[s] # NoId
        BY <2>2, <2>3, <3>2 DEF Retained
      <4>2. [states[s] EXCEPT !.clipped = TRUE] \in States
        BY <4>1 DEF States
      <4>3. QED
        BY <2>3, <4>1, <4>2 DEF States
    <3>3. CASE ~(s = row.session /\ ~Selected(row) /\ s \in Retained)
      BY <2>2, <2>3, <3>3
    <3>4. QED
      BY <3>2, <3>3
  <2>5. Retained' = Retained
    BY <2>4 DEF Retained
  <2>6. \A s \in Retained : /\ states'[s].calls = states[s].calls /\ states'[s].tokens = states[s].tokens
                            /\ states'[s].cost = states[s].cost /\ states'[s].covered = states[s].covered
    BY <2>4 DEF Retained
  <2>7. CallsHeld' = CallsHeld /\ TokensHeld' = TokensHeld
    BY <2>5, <2>6 DEF CallsHeld, TokensHeld
  <2>8. QED
    BY <1>1, <2>2, <2>5, <2>6, <2>7 DEF SumOK, SumsType
<1>6. QED
  <2>1. CASE UNCHANGED revVars
    BY <1>2, <2>1 DEF revVars, Bounded
  <2>2. CASE Fail
    BY <1>2, <2>2 DEF Fail, Bounded
  <2>3. CASE Visit1 /\ ~Fail
    BY <1>2, <2>3 DEF Visit1, Visiting, Bounded
  <2>4. CASE End2 /\ ~Fail
    BY <1>2, <2>4 DEF End2, Bounded
  <2>5. CASE End3 /\ ~Fail
    BY <1>2, <2>5 DEF End3, Bounded
  <2>6. QED
    BY <1>1, <1>3, <1>4, <1>5, <2>1, <2>2, <2>3, <2>4, <2>5 DEF Next, Review, Open, ReadFails, vars

\* For every file, period and limits: no selected record is lost or counted
\* twice, and every retained session is in exactly one class of the report.
THEOREM ReviewConserves == Spec => []Conservation
<1>1. ReadOK /\ StateOK /\ SumOK => Conservation
  <2>1. SUFFICES ASSUME ReadOK, StateOK, SumOK, pc = "ok" PROVE Conservation
    BY DEF Conservation
  <2>2. sums.calls = sums.looseCalls + CallsHeld /\ sums.tokens >= TokensHeld
    BY <2>1 DEF SumOK
  <2>3. sums.tokens = TokensOf(period, read2)
    BY <2>1 DEF SumOK, Bounded
  <2>4. Exceeding \cap PartialExceeding = {}
    BY DEF Exceeding, PartialExceeding
  <2>5. Exceeding \subseteq WithCalls
    <3>1. SUFFICES ASSUME NEW s \in Exceeding PROVE s \in WithCalls
      OBVIOUS
    <3>2. s \in Retained /\ states[s] \in States /\ states[s].cost > Cap
      BY <2>1, <3>1 DEF Exceeding, StateOK, Retained
    <3>3. states[s].calls \in Nat /\ states[s].cost \in Nat /\ Cap \in Nat
      BY <3>2, SessionAssumption DEF States
    <3>4. states[s].calls = 0 => states[s].cost = 0
      BY <2>1, <3>2 DEF SumOK
    <3>5. QED
      BY <3>2, <3>3, <3>4 DEF WithCalls
  <2>6. NoRecordedRejection # NoId => \A s \in Retained : states[s].covered
    <3>1. SUFFICES ASSUME NoRecordedRejection # NoId, NEW s \in Retained PROVE states[s].covered
      OBVIOUS
    <3>2. sums.classified = sums.selected
      BY <3>1 DEF NoRecordedRejection
    <3>3. QED
      BY <2>1, <3>2 DEF SumOK, SumsType
  <2>7. QED
    BY <2>2, <2>3, <2>4, <2>5, <2>6 DEF Conservation, CallsHeld, TokensHeld
<1>2. Spec => [](ReadOK /\ StateOK)
  BY StateInit, StateNext, PassesAgree, PTL DEF Spec
<1>3. QED
  BY <1>1, <1>2, SumInit, SumNext, PTL DEF Spec

\* The types and the limits, in every state, a failed review's included.
THEOREM ReviewTypes == Spec => []TypeOK
<1>1. ReadOK /\ StateOK /\ SumOK => TypeOK
  BY DEF ReadOK, StateOK, SumOK, SumsType, TypeOK
<1>2. Spec => [](ReadOK /\ StateOK)
  BY StateInit, StateNext, PassesAgree, PTL DEF Spec
<1>3. QED
  BY <1>1, <1>2, SumInit, SumNext, PTL DEF Spec
-----------------------------------------------------------------------------
(* A file that nobody changes.                                             *)

\* The records in period p, and the memberships they make.
Chosen(p, rows) == {rows[i] : i \in {i \in DOMAIN rows : In(p, rows[i].t)}}
MembersOf(p, rows) == UNION {NewMembers(r) : r \in {r \in Chosen(p, rows) : r.session # NoId}}

\* The chosen records, with one more record.
LEMMA ChosenMore ==
    ASSUME NEW p, NEW rows \in Seq(Rows), NEW row \in Rows
    PROVE  Chosen(p, Append(rows, row)) = Chosen(p, rows) \cup (IF In(p, row.t) THEN {row} ELSE {})
<1>1. PICK n, more : n = Len(rows) + 1 /\ more = Append(rows, row)
  OBVIOUS
<1>2. DOMAIN rows = 1..Len(rows) /\ Len(rows) \in Nat /\ DOMAIN more = 1..n
  BY <1>1
<1>3. DOMAIN more = DOMAIN rows \cup {n} /\ n \notin DOMAIN rows
  BY <1>1, <1>2
<1>4. more[n] = row /\ \A i \in DOMAIN rows : more[i] = rows[i]
  BY <1>1, <1>2
<1>5. Chosen(p, more) = Chosen(p, rows) \cup (IF In(p, row.t) THEN {row} ELSE {})
  BY <1>3, <1>4 DEF Chosen
<1>6. QED
  BY <1>1, <1>5

\* Nothing is selected and no member seen but by the records visited.
SeenOK ==
    Bounded => /\ sums.selected = 0 => Chosen(period, read2) = {}
               /\ members \subseteq MembersOf(period, read2)

\* Nothing is seen before the second pass.
LEMMA SeenInit == Init => SeenOK
  BY DEF Init, SeenOK, Bounded

\* A record that is visited selects at most itself and its own membership.
LEMMA SeenNext == ReadOK /\ StateOK /\ SumOK /\ SeenOK /\ [Next]_vars => SeenOK'
<1>1. SUFFICES ASSUME ReadOK, StateOK, SumOK, SeenOK, [Next]_vars PROVE SeenOK'
  OBVIOUS
<1>2. CASE UNCHANGED <<sums, members>> /\ (Bounded' => Bounded /\ UNCHANGED <<period, read2>>)
  BY <1>1, <1>2 DEF SeenOK
<1>3. CASE End1 /\ ~Fail
  <2>1. members' = {} /\ read2' = <<>>
    BY <1>1, <1>3 DEF End1, ReadOK, StateOK
  <2>2. QED
    BY <2>1 DEF SeenOK, Chosen
<1>4. CASE Visit2 /\ ~Fail
  <2>1. PICK row : row = NextRow
    OBVIOUS
  <2>2. /\ row \in Rows /\ read2' = Append(read2, row) /\ period' = period /\ Bounded
        /\ sums' = IF Selected(row) THEN SumsWith(row) ELSE sums
        /\ IF Selected(row) /\ row.session # NoId THEN members' = members \cup NewMembers(row)
           ELSE UNCHANGED members
    BY <1>1, <1>4, <2>1, SecondPass DEF Bounded
  <2>3. Chosen(period, read2') = Chosen(period, read2) \cup (IF Selected(row) THEN {row} ELSE {})
    BY <1>1, <2>2, ChosenMore DEF ReadOK, Selected
  <2>4. sums'.selected = 0 => Chosen(period', read2') = {}
    <3>1. CASE Selected(row)
      <4>1. sums'.selected = sums.selected + 1 /\ sums.selected \in Nat
        BY <1>1, <2>2, <3>1 DEF SumsWith, SumOK, SumsType
      <4>2. QED
        BY <4>1
    <3>2. CASE ~Selected(row)
      BY <1>1, <2>2, <2>3, <3>2 DEF SeenOK
    <3>3. QED
      BY <3>1, <3>2
  <2>5. members' \subseteq MembersOf(period', read2')
    <3>1. MembersOf(period, read2) \subseteq MembersOf(period', read2')
      BY <2>2, <2>3 DEF MembersOf
    <3>2. Selected(row) /\ row.session # NoId => NewMembers(row) \subseteq MembersOf(period', read2')
      BY <2>2, <2>3 DEF MembersOf
    <3>3. QED
      BY <1>1, <2>2, <3>1, <3>2 DEF SeenOK
  <2>6. QED
    BY <2>4, <2>5 DEF SeenOK
<1>5. QED
  <2>1. CASE UNCHANGED revVars
    BY <1>2, <2>1 DEF revVars, Bounded
  <2>2. CASE Fail
    BY <1>2, <2>2 DEF Fail, Bounded
  <2>3. CASE Visit1 /\ ~Fail
    BY <1>2, <2>3 DEF Visit1, Visiting, Bounded
  <2>4. CASE End2 /\ ~Fail
    BY <1>2, <2>4 DEF End2, Bounded
  <2>5. CASE Visit3 /\ ~Fail
    BY <1>2, <2>5 DEF Visit3, Visiting, Bounded
  <2>6. CASE End3 /\ ~Fail
    BY <1>2, <2>6 DEF End3, Bounded
  <2>7. QED
    BY <1>1, <1>3, <1>4, <2>1, <2>2, <2>3, <2>4, <2>5, <2>6 DEF Next, Review, Open, ReadFails, vars

\* What they select, and add up to, the file selects and adds up to.
LEMMA BeginsWithin ==
    ASSUME NEW p, NEW rows \in Seq(Rows), NEW whole \in Seq(Rows), Begins(rows, whole)
    PROVE  /\ Chosen(p, rows) \subseteq Chosen(p, whole)
           /\ MembersOf(p, rows) \subseteq MembersOf(p, whole)
           /\ TokensOf(p, rows) \in Nat /\ TokensOf(p, whole) \in Nat
           /\ TokensOf(p, rows) <= TokensOf(p, whole)
<1>1. DOMAIN rows \subseteq DOMAIN whole /\ \A i \in DOMAIN rows : rows[i] = whole[i]
  <2>1. DOMAIN rows = 1..Len(rows) /\ DOMAIN whole = 1..Len(whole) /\ Len(rows) \in Nat /\ Len(whole) \in Nat
    OBVIOUS
  <2>2. QED
    BY <2>1 DEF Begins
<1>2. Chosen(p, rows) \subseteq Chosen(p, whole)
  BY <1>1 DEF Chosen
<1>3. MembersOf(p, rows) \subseteq MembersOf(p, whole)
  BY <1>2 DEF MembersOf
<1>4. PICK I, J, f, g : /\ I = CallsOf(p, rows) /\ J = CallsOf(p, whole)
                        /\ f = [i \in I |-> rows[i].tokens] /\ g = [i \in J |-> whole[i].tokens]
  OBVIOUS
<1>5. I \subseteq J /\ J \in SUBSET DOMAIN whole
  BY <1>1, <1>4 DEF CallsOf
<1>6. IsFiniteSet(J) /\ IsFiniteSet(I)
  BY <1>5, IndicesFinite, FS_Subset
<1>7. (\A i \in J : g[i] \in Nat) /\ \A i \in I : f[i] = g[i]
  <2>1. \A i \in J : whole[i] \in Rows
    BY <1>5
  <2>2. \A i \in J : whole[i].tokens \in Nat
    BY <2>1, RowTypes
  <2>3. I \subseteq DOMAIN rows
    BY <1>4 DEF CallsOf
  <2>4. \A i \in I : rows[i] = whole[i]
    BY <1>1, <2>3
  <2>5. QED
    BY <1>4, <1>5, <2>2, <2>4
<1>8. SumFunctionOnSet(f, I) = SumFunctionOnSet(g, I)
  BY <1>6, <1>7, SumSame
<1>9. SumFunctionOnSet(g, I) <= SumFunctionOnSet(g, J)
  BY <1>5, <1>6, <1>7, SumPart
<1>10. SumFunctionOnSet(g, I) \in Nat /\ SumFunctionOnSet(g, J) \in Nat
  BY <1>5, <1>6, <1>7, SumType
<1>11. TokensOf(p, rows) = SumFunctionOnSet(f, I) /\ TokensOf(p, whole) = SumFunctionOnSet(g, J)
  BY <1>4 DEF TokensOf
<1>12. QED
  BY <1>2, <1>3, <1>8, <1>9, <1>10, <1>11

\* What a reviewable file keeps within the limits.
LEMMA ReviewableMeans ==
    ASSUME Reviewable(file), NEW p, p = SessionPeriod(file)
    PROVE  /\ file \in Seq(Rows) /\ Len(file) <= MaxRows /\ ~Duplicated(file) /\ p # NoId
           /\ \A i \in DOMAIN file : file[i].t # BadTime /\ file[i].id # 0
           /\ Chosen(p, file) # {}
           /\ \A r \in Chosen(p, file) : /\ r.rejection # "unsupported" /\ (Rejected(r) => r.failed)
                                         /\ (r.end # "wrong" \/ Unsupported(r))
           /\ Cardinality({r.session : r \in Chosen(p, file)} \ {NoId}) <= MaxSessions
           /\ Cardinality(MembersOf(p, file)) <= MaxMembers
           /\ TokensOf(p, file) <= MaxCount
  BY DEF Reviewable, Chosen, MembersOf

\* The chosen records, their sessions and their members are finite.
LEMMA ChosenFinite ==
    ASSUME NEW p, NEW rows \in Seq(Rows)
    PROVE  IsFiniteSet({r.session : r \in Chosen(p, rows)} \ {NoId}) /\ IsFiniteSet(MembersOf(p, rows))
<1>1. PICK I, f : I = {i \in DOMAIN rows : In(p, rows[i].t)} /\ f = [i \in I |-> rows[i]]
  OBVIOUS
<1>2. IsFiniteSet(I)
  <2>1. I \in SUBSET DOMAIN rows
    BY <1>1
  <2>2. QED
    BY <2>1, IndicesFinite
<1>3. Chosen(p, rows) = {f[i] : i \in I}
  BY <1>1 DEF Chosen
<1>4. IsFiniteSet(Chosen(p, rows))
  BY <1>2, <1>3, ImageFinite
<1>5. PICK C, h : C = Chosen(p, rows) /\ h = [r \in C |-> r.session]
  OBVIOUS
<1>6. IsFiniteSet({h[r] : r \in C}) /\ {r.session : r \in Chosen(p, rows)} = {h[r] : r \in C}
  BY <1>4, <1>5, ImageFinite
<1>7. PICK D, m : D = {r \in C : r.session # NoId} /\ m = [r \in D |-> NewMembers(r)]
  OBVIOUS
<1>8. IsFiniteSet(D)
  BY <1>4, <1>5, <1>7, FS_Subset
<1>9. IsFiniteSet({m[r] : r \in D}) /\ MembersOf(p, rows) = UNION {m[r] : r \in D}
  <2>1. MembersOf(p, rows) = UNION {NewMembers(r) : r \in D}
    BY <1>5, <1>7 DEF MembersOf
  <2>2. {NewMembers(r) : r \in D} = {m[r] : r \in D}
    BY <1>7
  <2>3. IsFiniteSet({m[r] : r \in D})
    BY <1>8, ImageFinite
  <2>4. QED
    BY <2>1, <2>2, <2>3
<1>10. \A S \in {m[r] : r \in D} : IsFiniteSet(S)
  BY <1>7, NewMembersFinite
<1>11. IsFiniteSet(UNION {m[r] : r \in D})
  BY <1>9, <1>10, FS_UNION
<1>12. QED
  BY <1>6, <1>9, <1>11, FS_Subset

\* While nobody has changed the file, the passes hold its first records, and
\* no file within the limits was refused.
StableOK ==
    changes = 0 =>
        /\ fd # "old"
        /\ Begins(read1, file) /\ Begins(read2, file) /\ Begins(read3, file)
        /\ Bounded => read1 = file
        /\ Reviewable(file) => pc # "error"

\* The second pass accepts the next record of a file within the limits: the
\* totals, the sessions and the members so far and the record are all part
\* of what the file holds.
LEMMA RowAccepted ==
    ASSUME ReadOK, StateOK, SumOK, SeenOK, StableOK, changes = 0, Reviewable(file), pc = "pass2", HasRow
    PROVE  ~Wrong(NextRow) /\ ~OverLimit(NextRow)
<1>1. PICK row, p : row = NextRow /\ p = SessionPeriod(file)
  OBVIOUS
<1>2. /\ file \in Seq(Rows) /\ Chosen(p, file) # {}
      /\ \A i \in DOMAIN file : file[i].t # BadTime /\ file[i].id # 0
      /\ \A r \in Chosen(p, file) : /\ r.rejection # "unsupported" /\ (Rejected(r) => r.failed)
                                    /\ (r.end # "wrong" \/ Unsupported(r))
      /\ Cardinality({r.session : r \in Chosen(p, file)} \ {NoId}) <= MaxSessions
      /\ Cardinality(MembersOf(p, file)) <= MaxMembers
      /\ TokensOf(p, file) <= MaxCount
  BY <1>1, ReviewableMeans
<1>3. /\ read2 \in Seq(Rows) /\ Begins(read2, file) /\ Len(read2) = pos /\ period = p /\ fd # "old" /\ Bounded
      /\ file \in Seq(Rows \cup {Torn})
  BY <1>1 DEF ReadOK, StableOK, Bounded, FileTypeOK
<1>4. row = file[pos + 1] /\ pos + 1 \in DOMAIN file /\ Begins(Append(read2, row), file)
  BY <1>1, <1>3, NextOfFile
<1>5. row \in Rows /\ row.t # BadTime /\ row.id # 0
  BY <1>2, <1>4
<1>6. Append(read2, row) \in Seq(Rows)
  BY <1>3, <1>5
<1>7. /\ Chosen(p, Append(read2, row)) \subseteq Chosen(p, file)
      /\ MembersOf(p, Append(read2, row)) \subseteq MembersOf(p, file)
      /\ TokensOf(p, Append(read2, row)) <= TokensOf(p, file)
      /\ TokensOf(p, Append(read2, row)) \in Nat /\ TokensOf(p, file) \in Nat
  BY <1>2, <1>4, <1>6, BeginsWithin
<1>8. Chosen(p, Append(read2, row)) = Chosen(p, read2) \cup (IF In(p, row.t) THEN {row} ELSE {})
  BY <1>3, <1>5, ChosenMore
<1>9. ~Wrong(row)
  <2>1. Selected(row) => row \in Chosen(p, file)
    BY <1>3, <1>7, <1>8 DEF Selected
  <2>2. QED
    BY <1>2, <1>5, <2>1 DEF Wrong
<1>10. ~OverLimit(row)
  <2>1. SUFFICES ASSUME Selected(row), OverLimit(row) PROVE FALSE
    BY DEF OverLimit
  <2>2. row \in Chosen(p, Append(read2, row)) /\ row \in Chosen(p, file)
    BY <1>3, <1>7, <1>8, <2>1 DEF Selected
  <2>3. MaxCount \in Nat /\ MaxSessions \in Nat /\ MaxMembers \in Nat
    BY SessionAssumption
  <2>4. ~(Analysed(row) /\ sums.tokens + row.tokens > MaxCount)
    <3>1. TokensOf(p, Append(read2, row)) =
             TokensOf(p, read2) + (IF In(p, row.t) /\ Analysed(row) THEN row.tokens ELSE 0)
      BY <1>3, <1>5, TokensOfMore
    <3>2. sums.tokens = TokensOf(p, read2)
      BY <1>3 DEF SumOK
    <3>3. Analysed(row) => sums.tokens + row.tokens <= MaxCount
      BY <1>2, <1>3, <1>7, <2>1, <2>3, <3>1, <3>2 DEF Selected
    <3>4. sums.tokens \in Nat /\ row.tokens \in Nat
      BY <1>5, <2>3, RowTypes DEF SumOK, SumsType
    <3>5. QED
      BY <2>3, <3>3, <3>4
  <2>5. row.session # NoId => ~(states[row.session] = NoId /\ Cardinality(Retained) = MaxSessions)
    <3>1. SUFFICES ASSUME row.session # NoId, states[row.session] = NoId, Cardinality(Retained) = MaxSessions
                   PROVE FALSE
      OBVIOUS
    <3>2. PICK S : S = {r.session : r \in Chosen(p, file)} \ {NoId}
      OBVIOUS
    <3>3. Retained \subseteq S
      <4>1. SUFFICES ASSUME NEW s \in Retained PROVE s \in S
        OBVIOUS
      <4>2. s \in Sessions /\ s # NoId /\ Gathered(period, read2, read3, s) # NoId
        BY <1>3, <4>1, SessionAssumption DEF Retained, StateOK
      <4>3. Mine(p, read2, s) # {}
        BY <1>3, <4>2 DEF Gathered
      <4>4. PICK i \in DOMAIN read2 : read2[i].session = s /\ In(p, read2[i].t)
        BY <4>3 DEF Mine
      <4>5. read2[i] \in Chosen(p, read2)
        BY <4>4 DEF Chosen
      <4>6. read2[i] \in Chosen(p, file)
        BY <1>7, <1>8, <4>5
      <4>7. QED
        BY <3>2, <4>2, <4>4, <4>6
    <3>4. row.session \in S /\ row.session \notin Retained
      BY <2>2, <3>1, <3>2 DEF Retained
    <3>5. IsFiniteSet(S) /\ Cardinality(S) <= MaxSessions /\ IsFiniteSet(Retained)
      BY <1>2, <3>2, ChosenFinite DEF SumOK
    <3>6. PICK R : R = Retained \cup {row.session}
      OBVIOUS
    <3>7. IsFiniteSet(R) /\ Cardinality(R) = Cardinality(Retained) + 1 /\ R \subseteq S
      BY <3>3, <3>4, <3>5, <3>6, FS_AddElement
    <3>8. Cardinality(R) <= Cardinality(S) /\ Cardinality(S) \in Nat
      BY <3>5, <3>7, FS_Subset, FS_CardinalityType
    <3>9. QED
      BY <2>3, <3>1, <3>5, <3>7, <3>8
  <2>6. row.session # NoId => ~(Cardinality(members \cup NewMembers(row)) > MaxMembers)
    <3>1. SUFFICES ASSUME row.session # NoId PROVE ~(Cardinality(members \cup NewMembers(row)) > MaxMembers)
      OBVIOUS
    <3>2. PICK M, N : M = MembersOf(p, file) /\ N = members \cup NewMembers(row)
      OBVIOUS
    <3>3. members \subseteq MembersOf(p, read2)
      BY <1>3 DEF SeenOK
    <3>4. MembersOf(p, read2) \subseteq MembersOf(p, Append(read2, row))
      BY <1>8 DEF MembersOf
    <3>5. NewMembers(row) \subseteq MembersOf(p, Append(read2, row))
      BY <2>2, <3>1 DEF MembersOf
    <3>6. N \subseteq M
      BY <1>7, <3>2, <3>3, <3>4, <3>5
    <3>7. IsFiniteSet(M) /\ Cardinality(M) <= MaxMembers
      BY <1>2, <3>2, ChosenFinite
    <3>8. Cardinality(N) <= Cardinality(M) /\ Cardinality(M) \in Nat /\ Cardinality(N) \in Nat
      BY <3>6, <3>7, FS_Subset, FS_CardinalityType
    <3>9. QED
      BY <2>3, <3>2, <3>7, <3>8
  <2>7. QED
    BY <2>1, <2>4, <2>5, <2>6 DEF OverLimit
<1>11. QED
  BY <1>1, <1>9, <1>10

\* No step of the review refuses an unchanged file within the limits.
LEMMA NotRefused ==
    ASSUME ReadOK, StateOK, SumOK, SeenOK, StableOK, changes = 0, Reviewable(file), Review
    PROVE  pc' # "error"
<1>1. /\ file \in Seq(Rows) /\ Len(file) <= MaxRows /\ ~Duplicated(file) /\ SessionPeriod(file) # NoId
      /\ \A i \in DOMAIN file : file[i].t # BadTime
      /\ Chosen(SessionPeriod(file), file) # {}
  BY ReviewableMeans
<1>2. /\ fd # "old" /\ Begins(read1, file) /\ Begins(read2, file) /\ Begins(read3, file)
      /\ Bounded => read1 = file
      /\ pc # "error" /\ file \in Seq(Rows \cup {Torn})
  BY DEF StableOK, ReadOK, FileTypeOK
<1>3. /\ read1 \in Seq(Rows) /\ read2 \in Seq(Rows) /\ read3 \in Seq(Rows)
      /\ pc = "pass1" => Len(read1) = pos
      /\ pc = "pass2" => Len(read2) = pos
      /\ pc = "pass3" => Len(read3) = pos
      /\ Bounded => period = SessionPeriod(read1)
  BY DEF ReadOK
<1>4. HasRow => NextRow = file[pos + 1] /\ pos + 1 \in DOMAIN file /\ pos < Len(file) /\ pos \in Nat
  BY <1>1, <1>2 DEF HasRow, NextRow, Content, ReadOK, FileTypeOK
<1>5. CASE Open
  BY <1>2, <1>5 DEF Open, revVars
<1>6. ~ReadFails
  <2>1. SUFFICES ASSUME HasRow, NextRow = Torn \/ pos = MaxRows PROVE FALSE
    BY DEF ReadFails, Unreadable
  <2>2. NextRow # Torn
    BY <1>1, <1>4, <2>1, SpendFileAssumption
  <2>3. pos # MaxRows
    BY <1>1, <1>4, <2>1, SpendFileAssumption
  <2>4. QED
    BY <2>1, <2>2, <2>3
<1>7. CASE Visit1
  BY <1>1, <1>2, <1>4, <1>7 DEF Visit1, Visiting
<1>8. CASE End1
  <2>1. read1 = file
    BY <1>2, <1>3, <1>8, AllRead DEF End1
  <2>2. QED
    BY <1>1, <1>8, <2>1 DEF End1
<1>9. CASE Visit2
  <2>1. ~Wrong(NextRow) /\ ~OverLimit(NextRow)
    BY <1>9, RowAccepted DEF Visit2, Visiting
  <2>2. QED
    BY <1>9, <2>1 DEF Visit2, Visiting
<1>10. CASE End2
  <2>1. read2 = file /\ read1 = file /\ period = SessionPeriod(file)
    BY <1>2, <1>3, <1>10, AllRead DEF End2, Bounded
  <2>2. sums.selected # 0
    BY <1>1, <1>10, <2>1 DEF SeenOK, End2, Bounded
  <2>3. QED
    BY <1>1, <1>10, <2>1, <2>2 DEF End2
<1>11. CASE Visit3
  BY <1>1, <1>2, <1>4, <1>11 DEF Visit3, Visiting
<1>12. CASE End3
  <2>1. read3 = file /\ read1 = file
    BY <1>2, <1>3, <1>12, AllRead DEF End3, Bounded
  <2>2. QED
    BY <1>12, <2>1 DEF End3, SameAgain
<1>13. QED
  BY <1>5, <1>6, <1>7, <1>8, <1>9, <1>10, <1>11, <1>12 DEF Review

\* Every start file is a file that nobody has changed yet.
LEMMA StableInit == Init => StableOK
<1>1. SUFFICES ASSUME Init PROVE StableOK
  OBVIOUS
<1>2. file \in Seq(Rows \cup {Torn})
  BY <1>1, SpendFileAssumption DEF Init, FileInit
<1>3. Begins(<<>>, file)
  BY <1>2 DEF Begins
<1>4. QED
  BY <1>1, <1>3 DEF Init, FileInit, StableOK, Bounded

\* Only another program moves the file of a review.
LEMMA StableNext == ReadOK /\ ReadOK' /\ StateOK /\ SumOK /\ SeenOK /\ StableOK /\ [Next]_vars => StableOK'
<1>1. SUFFICES ASSUME ReadOK, ReadOK', StateOK, SumOK, SeenOK, StableOK, [Next]_vars, changes' = 0 PROVE StableOK'
  BY DEF StableOK
<1>2. CASE UNCHANGED vars
  <2>1. Reviewable(file)' <=> Reviewable(file)
    BY <1>2 DEF vars, fileVars, revVars, Reviewable, SessionPeriod
  <2>2. QED
    BY <1>1, <1>2, <2>1 DEF StableOK, vars, fileVars, revVars, Bounded, Begins
<1>3. ~Writer
  BY <1>1 DEF Writer, ReadOK, FileTypeOK
<1>4. CASE Review
  <2>1. /\ changes' = changes /\ file' = file /\ choice' = choice /\ changes = 0
        /\ (fd' = fd \/ fd' = "path" \/ fd' = "closed")
    BY <1>1, <1>4 DEF Review, Open, OpenFile, ReadFails, Fail, CloseFile, Visit1, End1, Visit2, End2, Visit3,
         End3, Advance, revVars
  <2>2. /\ fd # "old" /\ Begins(read1, file) /\ Begins(read2, file) /\ Begins(read3, file)
        /\ Bounded => read1 = file
        /\ file \in Seq(Rows \cup {Torn})
    BY <1>1, <2>1 DEF StableOK, ReadOK, FileTypeOK
  <2>3. Reviewable(file)' <=> Reviewable(file)
    BY <2>1 DEF Reviewable, SessionPeriod
  <2>4. Reviewable(file) => pc' # "error"
    BY <1>1, <1>4, <2>1, NotRefused
  <2>5. /\ read1 \in Seq(Rows) /\ read2 \in Seq(Rows) /\ read3 \in Seq(Rows)
        /\ pc = "pass1" => Len(read1) = pos
        /\ pc = "pass2" => Len(read2) = pos
        /\ pc = "pass3" => Len(read3) = pos
    BY <1>1 DEF ReadOK
  <2>6. Begins(read1', file)
    <3>1. CASE read1' = read1
      BY <2>2, <3>1
    <3>2. CASE read1' # read1
      <4>1. pc = "pass1" /\ HasRow /\ read1' = Append(read1, NextRow)
        BY <1>4, <3>2 DEF Review, Open, ReadFails, Fail, Visit1, Visiting, End1, Visit2, End2, Visit3, End3, revVars
      <4>2. QED
        BY <2>2, <2>5, <4>1, NextOfFile
    <3>3. QED
      BY <3>1, <3>2
  <2>7. Begins(read2', file)
    <3>1. CASE read2' = read2
      BY <2>2, <3>1
    <3>2. CASE read2' # read2
      <4>1. pc = "pass2" /\ HasRow /\ read2' = Append(read2, NextRow)
        BY <1>4, <3>2 DEF Review, Open, ReadFails, Fail, Visit1, Visiting, End1, Visit2, End2, Visit3, End3, revVars
      <4>2. QED
        BY <2>2, <2>5, <4>1, NextOfFile
    <3>3. QED
      BY <3>1, <3>2
  <2>8. Begins(read3', file)
    <3>1. CASE read3' = read3
      BY <2>2, <3>1
    <3>2. CASE read3' # read3
      <4>1. pc = "pass3" /\ HasRow /\ read3' = Append(read3, NextRow)
        BY <1>4, <3>2 DEF Review, Open, ReadFails, Fail, Visit1, Visiting, End1, Visit2, End2, Visit3, End3, revVars
      <4>2. QED
        BY <2>2, <2>5, <4>1, NextOfFile
    <3>3. QED
      BY <3>1, <3>2
  <2>9. Bounded' => read1' = file
    <3>1. CASE Bounded
      <4>1. read1' = read1
        BY <1>4, <3>1 DEF Review, Open, ReadFails, Fail, Visit1, Visiting, End1, Visit2, End2, Visit3, End3,
             revVars, Bounded
      <4>2. QED
        BY <2>2, <3>1, <4>1
    <3>2. CASE ~Bounded /\ Bounded'
      <4>1. pc = "pass1" /\ AtEnd /\ read1' = read1
        BY <1>4, <3>2 DEF Review, Open, ReadFails, Fail, Visit1, Visiting, End1, Visit2, End2, Visit3, End3,
             revVars, Bounded
      <4>2. QED
        BY <2>2, <2>5, <4>1, AllRead
    <3>3. QED
      BY <3>1, <3>2
  <2>10. QED
    BY <2>1, <2>2, <2>3, <2>4, <2>6, <2>7, <2>8, <2>9 DEF StableOK
<1>5. QED
  BY <1>1, <1>2, <1>3, <1>4 DEF Next

\* For every file, period and limits: the review never holds more than a
\* limit whatever the file becomes, and never refuses an unchanged file that
\* stays within all of them.
THEOREM ReviewWithinLimits == Spec => []ReviewLimitsExact
<1>1. TypeOK /\ StableOK => ReviewLimitsExact
  BY DEF StableOK, ReviewLimitsExact, StableFileReviewed
<1>2. Spec => [](ReadOK /\ StateOK)
  BY StateInit, StateNext, PassesAgree, PTL DEF Spec
<1>3. Spec => []SumOK
  BY <1>2, SumInit, SumNext, PTL DEF Spec
<1>4. Spec => []SeenOK
  BY <1>2, <1>3, SeenInit, SeenNext, PTL DEF Spec
<1>5. Spec => []StableOK
  BY <1>2, <1>3, <1>4, StableInit, StableNext, PTL DEF Spec
<1>6. QED
  BY <1>1, <1>5, ReviewTypes, PTL
=============================================================================
