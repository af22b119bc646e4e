--------------------------- MODULE SpendViewsProofs ---------------------------
(***************************************************************************)
(* The accounts of one pass, for every export, all options and all limits. *)
(***************************************************************************)
EXTENDS SpendViews, SumLemmas

-----------------------------------------------------------------------------
(* Sums and windows.                                                        *)

Windows == [Sides -> [Measures -> Nat]]
Entries == [first: Nat, sum: Windows]

\* What one record adds to a total is a natural number of each measure.
LEMMA WorthType ==
    ASSUME NEW row \in Stream
    PROVE  /\ row \in RowFields /\ Tokens(row) \in Nat
           /\ Worth(row) \in [Measures -> Nat]
           /\ Worth(row)["tokens"] = Tokens(row) /\ Worth(row)["requests"] = 1
<1>1. row \in RowFields
  BY SpendRowsAssumption
<1>2. Tokens(row) \in Nat /\ Usable(row.cost) \in Nat
  <2>1. row.input \in Nat \cup {-1} /\ row.output \in Nat \cup {-1} /\ row.cost \in Nat \cup {-1}
    BY <1>1 DEF RowFields
  <2>2. \A n \in Nat \cup {-1} : Usable(n) \in Nat
    BY DEF Usable
  <2>3. QED
    BY <2>1, <2>2 DEF Tokens
<1>3. \A b \in BOOLEAN : One(b) \in Nat
  BY DEF One
<1>4. \A m \in Measures : Worth(row)[m] \in Nat
  <2>1. TAKE m \in Measures
  <2>2. One(row.cost = -1) \in Nat /\ One(row.status = "failure") \in Nat /\ One(Selected(row) = NoId) \in Nat
        /\ One(row.fallback = "zero") \in Nat /\ One(row.fallback = "positive") \in Nat
        /\ One(row.fallback \notin {"zero", "positive"}) \in Nat
    BY DEF One
  <2>3. QED
    BY <1>2, <2>2 DEF Worth, Measures
<1>5. QED
  BY <1>1, <1>2, <1>4 DEF Worth, Measures

\* A window gains a record on its side.
LEMMA WindowGains ==
    ASSUME NEW w \in Windows, NEW s \in Sides, NEW d \in [Measures -> Nat]
    PROVE  /\ Plus(w, s, d) \in Windows
           /\ \A z \in Sides, m \in Measures : Plus(w, s, d)[z][m] = w[z][m] + IF z = s THEN d[m] ELSE 0
<1>1. [m \in Measures |-> w[s][m] + d[m]] \in [Measures -> Nat]
  BY DEF Windows
<1>2. Plus(w, s, d) = [w EXCEPT ![s] = [m \in Measures |-> w[s][m] + d[m]]]
  BY DEF Plus, Windows
<1>3. QED
  BY <1>1, <1>2 DEF Windows

\* The empty window.
LEMMA ZeroWindow == Zero \in Windows /\ \A s \in Sides, m \in Measures : Zero[s][m] = 0
  BY DEF Zero, Windows

\* Entries by key, finitely many.
Register(f) == IsFiniteSet(DOMAIN f) /\ \A x \in DOMAIN f : f[x] \in Entries

\* From f to g, entry k gains d on side s, and is there from then on.
Gains(f, g, k, n, s, d) ==
    /\ DOMAIN g = DOMAIN f \cup {k}
    /\ \A x \in DOMAIN f \ {k} : g[x] = f[x]
    /\ g[k].first = IF k \in DOMAIN f THEN f[k].first ELSE n
    /\ \A z \in Sides, m \in Measures :
          g[k].sum[z][m] = (IF k \in DOMAIN f THEN f[k].sum[z][m] ELSE 0) + IF z = s THEN d[m] ELSE 0

\* The entry that is credited gains the record, the others stay.
LEMMA CreditGains ==
    ASSUME NEW f, Register(f), NEW k, NEW n \in Nat, NEW s \in Sides, NEW d \in [Measures -> Nat]
    PROVE  Register(Credit(f, k, n, s, d)) /\ Gains(f, Credit(f, k, n, s, d), k, n, s, d)
<1>0. PICK g : g = Credit(f, k, n, s, d)
  OBVIOUS
<1>. USE DEF Register
<1>1. PICK e : e = IF k \in DOMAIN f THEN [f[k] EXCEPT !.sum = Plus(f[k].sum, s, d)]
                   ELSE [first |-> n, sum |-> Plus(Zero, s, d)]
  OBVIOUS
<1>2. /\ e \in Entries /\ e.first = IF k \in DOMAIN f THEN f[k].first ELSE n
      /\ \A z \in Sides, m \in Measures :
            e.sum[z][m] = (IF k \in DOMAIN f THEN f[k].sum[z][m] ELSE 0) + IF z = s THEN d[m] ELSE 0
  <2>1. CASE k \in DOMAIN f
    <3>1. f[k] \in Entries /\ f[k].sum \in Windows /\ f[k].first \in Nat
      BY <2>1 DEF Entries
    <3>2. e.sum = Plus(f[k].sum, s, d) /\ e.first = f[k].first /\ e = [first |-> f[k].first, sum |-> Plus(f[k].sum, s, d)]
      BY <1>1, <2>1, <3>1 DEF Entries
    <3>3. QED
      BY <2>1, <3>1, <3>2, WindowGains DEF Entries
  <2>2. CASE k \notin DOMAIN f
    <3>1. e.sum = Plus(Zero, s, d) /\ e.first = n /\ e = [first |-> n, sum |-> Plus(Zero, s, d)]
      BY <1>1, <2>2
    <3>2. \A z \in Sides, m \in Measures : Plus(Zero, s, d)[z][m] = IF z = s THEN d[m] ELSE 0
      <4>1. TAKE z \in Sides, m \in Measures
      <4>2. d[m] \in Nat
        OBVIOUS
      <4>3. QED
        BY <4>2, ZeroWindow, WindowGains
    <3>3. Plus(Zero, s, d) \in Windows
      BY ZeroWindow, WindowGains
    <3>4. \A z \in Sides, m \in Measures : d[m] \in Nat
      OBVIOUS
    <3>5. QED
      BY <2>2, <3>1, <3>2, <3>3, <3>4 DEF Entries
  <2>3. QED
    BY <2>1, <2>2
<1>3. g = [x \in DOMAIN f \cup {k} |-> IF x # k THEN f[x] ELSE e]
  BY <1>0, <1>1 DEF Credit
<1>4. DOMAIN g = DOMAIN f \cup {k} /\ g[k] = e /\ \A x \in DOMAIN f \ {k} : g[x] = f[x]
  BY <1>3
<1>5. Gains(f, g, k, n, s, d)
  BY <1>2, <1>4 DEF Gains
<1>6. Register(g)
  <2>1. IsFiniteSet(DOMAIN g)
    BY <1>4, FS_AddElement
  <2>2. \A x \in DOMAIN g : g[x] \in Entries
    BY <1>2, <1>4
  <2>3. QED
    BY <2>1, <2>2
<1>7. QED
  BY <1>0, <1>5, <1>6

\* A part of the entries adds up to a natural number.
LEMMA PartSum ==
    ASSUME NEW f, Register(f), NEW X \in SUBSET DOMAIN f, NEW z \in Sides, NEW m \in Measures
    PROVE  IsFiniteSet(X) /\ SumOf(f, X, z, m) \in Nat
<1>. USE DEF Register
<1>1. IsFiniteSet(X)
  BY FS_Subset
<1>2. \A x \in X : [k \in X |-> f[k].sum[z][m]][x] \in Nat
  BY DEF Entries, Windows
<1>3. QED
  BY <1>1, <1>2, SumType DEF SumOf, Total

\* Two disjoint parts add up.
LEMMA PartsSum ==
    ASSUME NEW f, Register(f), NEW X \in SUBSET DOMAIN f, NEW Y \in SUBSET DOMAIN f, X \cap Y = {},
           NEW z \in Sides, NEW m \in Measures
    PROVE  SumOf(f, X \cup Y, z, m) = SumOf(f, X, z, m) + SumOf(f, Y, z, m)
<1>. USE DEF Register
<1> DEFINE g == [k \in X \cup Y |-> f[k].sum[z][m]]
           gx == [k \in X |-> f[k].sum[z][m]]
           gy == [k \in Y |-> f[k].sum[z][m]]
<1>1. IsFiniteSet(X) /\ IsFiniteSet(Y)
  BY FS_Subset
<1>2. \A x \in X \cup Y : g[x] \in Nat
  BY DEF Entries, Windows
<1>3. (\A x \in X : g[x] = gx[x]) /\ (\A x \in Y : g[x] = gy[x])
  OBVIOUS
<1>4. SumOf(f, X \cup Y, z, m) = SumFunctionOnSet(g, X \cup Y) /\ SumOf(f, X, z, m) = SumFunctionOnSet(gx, X)
      /\ SumOf(f, Y, z, m) = SumFunctionOnSet(gy, Y)
  BY DEF SumOf, Total
<1> HIDE DEF g, gx, gy
<1>5. SumFunctionOnSet(g, X) = SumFunctionOnSet(gx, X) /\ SumFunctionOnSet(g, Y) = SumFunctionOnSet(gy, Y)
  BY <1>1, <1>3, SumSame
<1>6. QED
  BY <1>1, <1>2, <1>4, <1>5, SumUnion

\* Each part of the entries that holds k gains d on side s, and no other.
SumsGain(f, g, k, s, d) ==
    \A X \in SUBSET (DOMAIN f \cup {k}), z \in Sides, m \in Measures :
        /\ SumOf(f, X \cap DOMAIN f, z, m) \in Nat
        /\ k \in X /\ z = s => SumOf(g, X, z, m) = SumOf(f, X \cap DOMAIN f, z, m) + d[m]
        /\ k \notin X \/ z # s => SumOf(g, X, z, m) = SumOf(f, X \cap DOMAIN f, z, m)

\* That is what a credited record does.
LEMMA CreditSum ==
    ASSUME NEW f, NEW g, Register(f), NEW k, NEW n, NEW s \in Sides, NEW d \in [Measures -> Nat],
           Gains(f, g, k, n, s, d)
    PROVE  SumsGain(f, g, k, s, d)
<1>. USE DEF Register
<1> SUFFICES ASSUME NEW X \in SUBSET (DOMAIN f \cup {k}), NEW z \in Sides, NEW m \in Measures
             PROVE  /\ SumOf(f, X \cap DOMAIN f, z, m) \in Nat
                    /\ k \in X /\ z = s => SumOf(g, X, z, m) = SumOf(f, X \cap DOMAIN f, z, m) + d[m]
                    /\ k \notin X \/ z # s => SumOf(g, X, z, m) = SumOf(f, X \cap DOMAIN f, z, m)
  BY DEF SumsGain
<1> DEFINE Y == X \cap DOMAIN f
           u == [x \in Y |-> f[x].sum[z][m]]
           v == [x \in X |-> g[x].sum[z][m]]
           e == IF z = s THEN d[m] ELSE 0
<1>1. IsFiniteSet(Y) /\ IsFiniteSet(X) /\ e \in Nat
  <2>1. IsFiniteSet(Y)
    BY FS_Subset
  <2>2. IsFiniteSet(DOMAIN f \cup {k})
    BY FS_AddElement
  <2>3. IsFiniteSet(X)
    BY <2>2, FS_Subset
  <2>4. QED
    BY <2>1, <2>3
<1>2. /\ \A x \in DOMAIN f \ {k} : g[x] = f[x]
      /\ g[k].sum[z][m] = (IF k \in DOMAIN f THEN f[k].sum[z][m] ELSE 0) + e
  BY DEF Gains
<1>3. \A x \in Y : u[x] \in Nat
  BY DEF Entries, Windows
<1>4. SumOf(f, Y, z, m) = SumFunctionOnSet(u, Y) /\ SumOf(g, X, z, m) = SumFunctionOnSet(v, X)
  BY DEF SumOf, Total
<1>5. CASE k \in X
  <2>1. X = Y \cup {k}
    BY <1>5
  <2>2. v[k] = (IF k \in Y THEN u[k] ELSE 0) + e
    BY <1>2, <1>5
  <2>3. \A x \in Y \ {k} : v[x] = u[x]
    BY <1>2
  <2> HIDE DEF u, v, Y
  <2>4. MovesUp(u, v, Y, k, e)
    BY <1>1, <1>3, <2>2, <2>3 DEF MovesUp
  <2>5. SumFunctionOnSet(v, Y \cup {k}) = SumFunctionOnSet(u, Y) + e
    <3> HIDE DEF e
    <3> QED
      BY <1>1, <2>4, SumMove
  <2>6. SumOf(g, X, z, m) = SumOf(f, Y, z, m) + e /\ SumOf(f, Y, z, m) \in Nat
    BY <1>1, <1>3, <1>4, <2>1, <2>5, SumType DEF u
  <2>7. QED
    BY <1>5, <2>6 DEF Y
<1>6. CASE k \notin X
  <2>1. X = Y /\ \A x \in X : v[x] = u[x]
    BY <1>2, <1>6
  <2> HIDE DEF u, v, Y
  <2>2. SumFunctionOnSet(v, X) = SumFunctionOnSet(u, X) /\ SumFunctionOnSet(u, X) \in Nat
    BY <1>1, <1>3, <2>1, SumSame, SumType
  <2>3. SumOf(g, X, z, m) = SumOf(f, Y, z, m) /\ SumOf(f, Y, z, m) \in Nat
    BY <1>4, <2>1, <2>2
  <2>4. QED
    BY <1>6, <2>3 DEF Y
<1>7. QED
  BY <1>5, <1>6
-----------------------------------------------------------------------------
(* The records of an export, one more at a time.                            *)

RowsOK == /\ opts \in OptionSet /\ pc \in {"load", "rows", "ok", "error"}
          /\ rows \in Seq(Stream) /\ Len(rows) <= MaxStream

\* A record is visited: it joins those read so far.
Grows(row) == row \in Stream /\ rows' = Append(rows, row) /\ opts' = opts

\* Nothing that an investigation accounts for is touched.
Idle == UNCHANGED <<opts, rows, auditVars, agentVars, providerVars, windows, outside>>

\* A record outside the periods, and one that is accounted for.
Passes(row) == /\ Grows(row) /\ SideOf(row.t) = 0
               /\ UNCHANGED <<auditVars, agentVars, providerVars, windows>>
Counts(row) == /\ Grows(row) /\ SideOf(row.t) # 0
               /\ ~AgentUnreadable(row) /\ ~Refused(row, SideOf(row.t)) /\ Account(row, SideOf(row.t))

\* A step of an investigation that does not end in a refusal loads the files,
\* visits a record, or changes no account.
LEMMA InvestigationSteps ==
    ASSUME RowsOK, opts.command = "investigate", [Next]_vars, pc' # "error"
    PROVE  /\ opts' = opts /\ pc # "error"
           /\ \/ pc = "load" /\ pc' = "rows" /\ UNCHANGED <<rows, auditVars, agentVars, windows>>
                 /\ LoadCounts /\ ~(Counting /\ ProviderRefused)
              \/ Idle /\ (pc' = pc \/ (pc = "rows" /\ pc' = "ok" /\ Report))
              \/ pc = "rows" /\ pc' = "rows" /\ \E row \in Stream : Passes(row) \/ Counts(row)
<1>1. CASE Load
  BY <1>1 DEF Load, RowsOK
<1>2. ASSUME NEW row \in opts.explored, Investigate(row)
      PROVE  opts' = opts /\ pc = "rows" /\ pc' = "rows" /\ row \in Stream /\ (Passes(row) \/ Counts(row))
  <2>1. row \in Stream
    BY SpendRowsAssumption DEF RowsOK
  <2>2. ~Refuse(row)
    BY DEF Refuse
  <2>3. Visit(row)
    BY <1>2, <2>2 DEF Investigate, Account
  <2>4. opts' = opts /\ pc' = pc /\ rows' = Append(rows, row) /\ pc = "rows"
    BY <1>2, <2>3 DEF Visit, Investigate
  <2>5. CASE SideOf(row.t) = 0
    BY <1>2, <2>1, <2>2, <2>4, <2>5 DEF Investigate, Passes, Grows
  <2>6. CASE SideOf(row.t) # 0
    BY <1>2, <2>1, <2>2, <2>4, <2>6 DEF Investigate, Counts, Grows
  <2>7. QED
    BY <2>1, <2>4, <2>5, <2>6
<1>3. CASE Report
  BY <1>3 DEF Report, Idle, accounts
<1>4. CASE UNCHANGED vars
  BY <1>4 DEF vars, Idle, rowVars
<1>5. ASSUME NEW row \in opts.explored, WhatIfRow(row) PROVE FALSE
  BY <1>5 DEF WhatIfRow, Investigating
<1>6. CASE Done
  BY <1>6, <1>4 DEF Done
<1>7. QED
  BY <1>1, <1>2, <1>3, <1>4, <1>5, <1>6 DEF Next, EndWhatIf, Investigating

\* An investigation begins with nothing read and nothing accounted for.
LEMMA RowsNext ==
    /\ Init => RowsOK
    /\ RowsOK /\ [Next]_vars => RowsOK' /\ opts' = opts
<1>1. Init => RowsOK
  <2>1. <<>> \in Seq(Stream) /\ Len(<<>>) <= MaxStream
    <3>1. MaxStream \in Nat /\ Len(<<>>) = 0
      BY SpendRowsAssumption
    <3>2. QED
      BY <3>1
  <2>2. QED
    BY <2>1 DEF Init, RowsOK
<1>2. ASSUME RowsOK, [Next]_vars PROVE RowsOK' /\ opts' = opts
  <2>1. MaxStream \in Nat /\ opts.explored \subseteq Stream
    BY <1>2, SpendRowsAssumption DEF RowsOK
  <2>2. ASSUME NEW row \in Stream, rows' = Append(rows, row), Len(rows) < MaxStream
        PROVE  rows' \in Seq(Stream) /\ Len(rows') <= MaxStream
    <3>1. rows \in Seq(Stream)
      BY <1>2 DEF RowsOK
    <3>2. rows' \in Seq(Stream) /\ Len(rows') = Len(rows) + 1 /\ Len(rows) \in Nat
      BY <2>2, <3>1
    <3>3. QED
      BY <2>1, <2>2, <3>2
  <2>3. CASE Load
    BY <1>2, <2>3 DEF Load, RowsOK
  <2>4. ASSUME NEW row \in opts.explored, Investigate(row) PROVE RowsOK' /\ opts' = opts
    <3>1. Len(rows) < MaxStream /\ row \in Stream
      BY <2>1, <2>4 DEF Investigate
    <3>2. opts' = opts /\ rows' = Append(rows, row) /\ pc' \in {pc, "error"}
      BY <2>4 DEF Investigate, Refuse, Account, Visit
    <3>3. QED
      BY <1>2, <2>2, <3>1, <3>2 DEF RowsOK
  <2>5. ASSUME NEW row \in opts.explored, WhatIfRow(row) PROVE RowsOK' /\ opts' = opts
    <3>1. Len(rows) < MaxStream /\ row \in Stream
      BY <2>1, <2>5 DEF WhatIfRow
    <3>2. opts' = opts /\ rows' = Append(rows, row) /\ pc' \in {pc, "error"}
      BY <2>5 DEF WhatIfRow, Refuse, Visit
    <3>3. QED
      BY <1>2, <2>2, <3>1, <3>2 DEF RowsOK
  <2>6. CASE Report \/ EndWhatIf
    BY <1>2, <2>6 DEF Report, EndWhatIf, RowsOK
  <2>7. CASE UNCHANGED vars \/ Done
    BY <1>2, <2>7 DEF vars, rowVars, Done, RowsOK
  <2>8. QED
    BY <1>2, <2>3, <2>4, <2>5, <2>6, <2>7 DEF Next
<1>3. QED
  BY <1>1, <1>2

\* What the records with the numbers in I add to a measure.
Recorded(R, I, m) == SumFunctionOnSet([i \in I |-> Worth(R[i])[m]], I)

\* Sets of record numbers are finite; a record that joins them is counted once.
LEMMA RecordedMore ==
    ASSUME NEW R \in Seq(Stream), NEW row \in Stream, NEW I \in SUBSET DOMAIN R, NEW m \in Measures
    PROVE  /\ IsFiniteSet(I) /\ Recorded(R, I, m) \in Nat
           /\ Recorded(Append(R, row), I, m) = Recorded(R, I, m)
           /\ Recorded(Append(R, row), I \cup {Len(R) + 1}, m) = Recorded(R, I, m) + Worth(row)[m]
<1> DEFINE n == Len(R) + 1
           v == [i \in I |-> Worth(R[i])[m]]
           u == [i \in I |-> Worth(Append(R, row)[i])[m]]
           w == [i \in I \cup {n} |-> Worth(Append(R, row)[i])[m]]
<1>1. /\ DOMAIN R = 1..Len(R) /\ Len(R) \in Nat /\ n \notin I /\ n \in Nat
      /\ \A i \in I : Append(R, row)[i] = R[i]
      /\ Append(R, row)[n] = row
  OBVIOUS
<1>2. IsFiniteSet(I)
  <2>1. IsFiniteSet(1..Len(R))
    BY <1>1, FS_Interval
  <2>2. QED
    BY <1>1, <2>1, FS_Subset
<1>3. (\A i \in I : v[i] \in Nat) /\ Worth(row)[m] \in Nat
  BY WorthType
<1>4. (\A i \in I : u[i] = v[i] /\ w[i] = v[i]) /\ w[n] = Worth(row)[m]
  BY <1>1
<1>5. /\ Recorded(R, I, m) = SumFunctionOnSet(v, I) /\ Recorded(Append(R, row), I, m) = SumFunctionOnSet(u, I)
      /\ Recorded(Append(R, row), I \cup {n}, m) = SumFunctionOnSet(w, I \cup {n})
  BY DEF Recorded
<1> HIDE DEF n, v, u, w
<1>6. SumFunctionOnSet(v, I) \in Nat /\ SumFunctionOnSet(u, I) = SumFunctionOnSet(v, I)
  BY <1>2, <1>3, <1>4, SumType, SumSame
<1>7. MovesUp(v, w, I, n, Worth(row)[m])
  BY <1>1, <1>3, <1>4 DEF MovesUp
<1>8. SumFunctionOnSet(w, I \cup {n}) = SumFunctionOnSet(v, I) + Worth(row)[m]
  BY <1>2, <1>3, <1>7, SumMove
<1>9. QED
  BY <1>2, <1>5, <1>6, <1>8 DEF n

\* How the sets of record numbers grow.
Newest == {Len(rows) + 1}
AuditedRow(row) == SideOf(row.t) # 0 /\ Match(row) = "matched" /\ Supported(row)

\* The sets of record numbers grow by the next one, where it belongs.
LEMMA RowSets ==
    ASSUME RowsOK, NEW row, Grows(row)
    PROVE  /\ DOMAIN rows' = DOMAIN rows \cup Newest /\ DOMAIN rows \cap Newest = {}
           /\ \A i \in DOMAIN rows : rows'[i] = rows[i]
           /\ rows'[Len(rows) + 1] = row
           /\ \A s \in Sides : InSide(s)' = InSide(s) \cup IF SideOf(row.t) = s THEN Newest ELSE {}
           /\ Audited' = Audited \cup IF AuditedRow(row) THEN Newest ELSE {}
<1>1. rows \in Seq(Stream) /\ row \in Stream /\ rows' = Append(rows, row) /\ opts' = opts
  BY DEF RowsOK, Grows
<1>2. /\ DOMAIN rows' = DOMAIN rows \cup Newest /\ DOMAIN rows \cap Newest = {} /\ Len(rows) \in Nat
      /\ \A i \in DOMAIN rows : rows'[i] = rows[i]
      /\ rows'[Len(rows) + 1] = row
  BY <1>1 DEF Newest
<1>3. \A t : SideOf(t)' = SideOf(t)
  BY <1>1 DEF SideOf, Inside
<1>4. ASSUME NEW s \in Sides PROVE InSide(s)' = InSide(s) \cup IF SideOf(row.t) = s THEN Newest ELSE {}
  <2>1. InSide(s)' = {i \in DOMAIN rows' : SideOf(rows'[i].t) = s}
    BY <1>1 DEF InSide, SideOf, Inside
  <2>2. QED
    BY <1>2, <2>1 DEF InSide, Newest
<1>5. Audited' = Audited \cup IF AuditedRow(row) THEN Newest ELSE {}
  <2>1. Audited' = {i \in InSide(1)' \cup InSide(2)' : Match(rows'[i]) = "matched" /\ Supported(rows'[i])}
    BY <1>1 DEF Audited, Match, Identity, TextState
  <2>2. InSide(1) \cup InSide(2) \subseteq DOMAIN rows
    BY DEF InSide
  <2>3. SideOf(row.t) \in {0, 1, 2}
    BY DEF SideOf
  <2>4. InSide(1)' \cup InSide(2)' = (InSide(1) \cup InSide(2)) \cup IF SideOf(row.t) # 0 THEN Newest ELSE {}
    BY <1>4, <2>3 DEF Sides
  <2>5. QED
    BY <1>2, <2>1, <2>2, <2>4 DEF Audited, Newest, AuditedRow
<1>6. QED
  BY <1>2, <1>4, <1>5
-----------------------------------------------------------------------------
(* The routing audit and the windows.                                       *)

Investigated == opts.command = "investigate" /\ pc # "error"

\* What the records of a step do to the routing audit and the windows.
LEMMA AuditStep ==
    ASSUME RowsOK, opts.command = "investigate", opts.audit, NEW row, Counts(row)
    PROVE  /\ SideOf(row.t) \in Sides
           /\ AuditedRow(row) => /\ AddCell(row, SideOf(row.t))
                                 /\ windows' = Plus(windows, SideOf(row.t), Worth(row))
           /\ ~AuditedRow(row) => UNCHANGED <<ids, labels, totals, cohorts, cells, windows>>
<1>1. SideOf(row.t) \in Sides
  BY DEF Counts, SideOf, Sides
<1>2. InScope(row) <=> Match(row) = "matched"
  BY DEF InScope, Observed
<1>3. AuditedRow(row) <=> InScope(row) /\ Supported(row)
  BY <1>2 DEF AuditedRow, Counts
<1>4. CASE AuditedRow(row)
  BY <1>1, <1>3, <1>4 DEF Counts, Account, AuditAdd
<1>5. CASE ~AuditedRow(row) /\ InScope(row)
  BY <1>1, <1>3, <1>5 DEF Counts, Account, AuditAdd, AddRaw
<1>6. CASE ~InScope(row)
  BY <1>1, <1>3, <1>6 DEF Counts, Account
<1>7. QED
  BY <1>4, <1>5, <1>6

\* Windows stay windows.
WindowsOK == Investigated => windows \in Windows

\* A step keeps them.
LEMMA WindowsNext == RowsOK /\ WindowsOK /\ [Next]_vars => WindowsOK'
<1> SUFFICES ASSUME RowsOK, WindowsOK, [Next]_vars, opts'.command = "investigate", pc' # "error"
             PROVE  windows' \in Windows
  BY DEF WindowsOK, Investigated
<1>1. opts' = opts /\ opts.command = "investigate"
  BY RowsNext
<1>2. pc # "error" /\ windows \in Windows
  BY <1>1, InvestigationSteps DEF WindowsOK, Investigated
<1>3. ASSUME NEW row \in Stream, Counts(row) PROVE windows' \in Windows
  <2>1. windows' \in {windows, Plus(windows, SideOf(row.t), Worth(row))}
    BY <1>3 DEF Counts, Account
  <2>2. SideOf(row.t) \in Sides
    BY <1>3 DEF Counts, SideOf, Sides
  <2>3. Worth(row) \in [Measures -> Nat]
    BY WorthType
  <2>4. QED
    BY <1>2, <2>1, <2>2, <2>3, WindowGains
<1>4. QED
  BY <1>1, <1>2, <1>3, InvestigationSteps DEF Idle, Passes

\* The cells of some cohorts.
CellsIn(X) == {k \in DOMAIN cells : Cohort(k) \in X}

\* Cohorts and their cells hold the same records, which are those of the
\* totals and of the windows.
RoutingOK ==
    Investigated /\ opts.audit =>
      /\ totals = windows /\ Register(cohorts) /\ Register(cells)
      /\ \A k \in DOMAIN cells : Cohort(k) \in DOMAIN cohorts
      /\ \A X \in SUBSET DOMAIN cohorts, s \in Sides, m \in Measures :
            SumOf(cohorts, X, s, m) = SumOf(cells, CellsIn(X), s, m)
      /\ \A s \in Sides, m \in Measures : /\ SumOf(cells, DOMAIN cells, s, m) = totals[s][m]
                                          /\ totals[s][m] = Recorded(rows, Audited \cap InSide(s), m)

\* A register without entries.
LEMMA NoEntries ==
    /\ Register(Empty) /\ DOMAIN Empty = {}
    /\ \A s, m : SumOf(Empty, {}, s, m) = 0
<1>1. DOMAIN Empty = {}
  BY DEF Empty
<1>2. IsFiniteSet({})
  BY FS_EmptySet
<1>3. ASSUME NEW s, NEW m PROVE SumOf(Empty, {}, s, m) = 0
  BY <1>2, SumStep DEF SumOf, Total
<1>4. QED
  BY <1>1, <1>2, <1>3 DEF Register

\* The accounts begin empty.
LEMMA RoutingInit == Init => WindowsOK /\ RoutingOK
<1> SUFFICES ASSUME Init PROVE WindowsOK /\ RoutingOK
  OBVIOUS
<1>1. cohorts = Empty /\ cells = Empty /\ totals = Zero /\ windows = Zero /\ rows = <<>>
  BY DEF Init, AuditInit
<1>2. WindowsOK
  BY <1>1, ZeroWindow DEF WindowsOK
<1>3. ASSUME NEW s \in Sides, NEW m \in Measures
      PROVE  Recorded(rows, Audited \cap InSide(s), m) = 0
  <2>1. DOMAIN rows = {}
    BY <1>1
  <2>2. Audited \cap InSide(s) = {}
    BY <2>1 DEF InSide
  <2>3. QED
    BY <2>2, SumStep, FS_EmptySet DEF Recorded
<1>4. \A X \in SUBSET DOMAIN cohorts : X = {} /\ CellsIn(X) = {}
  BY <1>1, NoEntries DEF CellsIn
<1>5. DOMAIN cells = {} /\ DOMAIN cohorts = {} /\ Register(cells) /\ Register(cohorts)
  BY <1>1, NoEntries
<1>6. ASSUME NEW s \in Sides, NEW m \in Measures
      PROVE  SumOf(cells, {}, s, m) = 0 /\ SumOf(cohorts, {}, s, m) = 0 /\ totals[s][m] = 0
  BY <1>1, NoEntries, ZeroWindow
<1>7. RoutingOK
  BY <1>1, <1>3, <1>4, <1>5, <1>6 DEF RoutingOK
<1>8. QED
  BY <1>2, <1>7

\* A record that is audited adds to its cell, its cohort and the totals.
LEMMA CellAdded ==
    ASSUME RowsOK, RoutingOK, WindowsOK, Investigated, opts.audit, NEW row, Grows(row), AuditedRow(row),
           AddCell(row, SideOf(row.t)), windows' = Plus(windows, SideOf(row.t), Worth(row))
    PROVE  /\ totals' = windows' /\ Register(cohorts') /\ Register(cells')
           /\ Gains(cohorts, cohorts', CohortOf(row), Len(rows) + 1, SideOf(row.t), Worth(row))
           /\ Gains(cells, cells', CellOf(row), Len(rows) + 1, SideOf(row.t), Worth(row))
           /\ Cohort(CellOf(row)) = CohortOf(row)
           /\ \A k \in DOMAIN cells' : Cohort(k) \in DOMAIN cohorts'
           /\ \A z \in Sides, m \in Measures :
                 totals'[z][m] = totals[z][m] + IF z = SideOf(row.t) THEN Worth(row)[m] ELSE 0
<1> DEFINE s == SideOf(row.t)
<1>1. s \in Sides
  BY DEF AuditedRow, SideOf, Sides
<1>2. row \in Stream /\ Worth(row) \in [Measures -> Nat] /\ Len(rows) + 1 \in Nat
  BY WorthType DEF Grows, RowsOK
<1>3. Register(cohorts) /\ Register(cells) /\ totals = windows /\ windows \in Windows
      /\ \A k \in DOMAIN cells : Cohort(k) \in DOMAIN cohorts
  BY DEF RoutingOK, WindowsOK
<1>4. /\ cohorts' = Credit(cohorts, CohortOf(row), Len(rows) + 1, s, Worth(row))
      /\ cells' = Credit(cells, CellOf(row), Len(rows) + 1, s, Worth(row))
      /\ totals' = Plus(totals, s, Worth(row))
  BY DEF AddCell
<1> HIDE DEF s
<1>5. Register(cohorts') /\ Gains(cohorts, cohorts', CohortOf(row), Len(rows) + 1, s, Worth(row))
  BY <1>1, <1>2, <1>3, <1>4, CreditGains
<1>6. Register(cells') /\ Gains(cells, cells', CellOf(row), Len(rows) + 1, s, Worth(row))
  BY <1>1, <1>2, <1>3, <1>4, CreditGains
<1>7. \A z \in Sides, m \in Measures : Plus(totals, s, Worth(row))[z][m] = totals[z][m] + IF z = s THEN Worth(row)[m] ELSE 0
  BY <1>1, <1>2, <1>3, WindowGains
<1>8. Cohort(CellOf(row)) = CohortOf(row)
  BY DEF Cohort, CellOf, CohortOf
<1>9. DOMAIN cells' = DOMAIN cells \cup {CellOf(row)} /\ DOMAIN cohorts' = DOMAIN cohorts \cup {CohortOf(row)}
  BY <1>5, <1>6 DEF Gains
<1>10. \A k \in DOMAIN cells' : Cohort(k) \in DOMAIN cohorts'
  BY <1>3, <1>8, <1>9
<1>11. totals' = windows'
  BY <1>3, <1>4 DEF s
<1>12. QED
  BY <1>4, <1>5, <1>6, <1>7, <1>8, <1>10, <1>11 DEF s

\* Every step keeps cohorts, cells and totals together.
LEMMA RoutingNext == RowsOK /\ WindowsOK /\ RoutingOK /\ [Next]_vars => RoutingOK'
<1> SUFFICES ASSUME RowsOK, WindowsOK, RoutingOK, [Next]_vars, opts'.command = "investigate", pc' # "error", opts'.audit
             PROVE  RoutingOK'
  BY DEF RoutingOK, Investigated
<1>1. opts' = opts /\ opts.command = "investigate" /\ opts.audit /\ pc # "error" /\ Investigated
  BY RowsNext, InvestigationSteps DEF Investigated
<1>2. CASE UNCHANGED <<rows, auditVars, windows>>
  <2>1. Audited' = Audited /\ \A s : InSide(s)' = InSide(s)
    BY <1>1, <1>2 DEF Audited, InSide, SideOf, Inside, Match, Identity, TextState
  <2>2. totals' = totals /\ windows' = windows /\ cohorts' = cohorts /\ cells' = cells /\ rows' = rows
    BY <1>2 DEF auditVars
  <2>3. \A X : CellsIn(X)' = CellsIn(X)
    BY <2>2 DEF CellsIn
  <2>4. QED
    BY <1>1, <2>1, <2>2, <2>3 DEF RoutingOK
<1>3. ASSUME NEW row \in Stream, Grows(row), ~AuditedRow(row), UNCHANGED <<totals, cohorts, cells, windows>>
      PROVE  RoutingOK'
  <2>1. ASSUME NEW s \in Sides, NEW m \in Measures
        PROVE  Recorded(rows, Audited \cap InSide(s), m)' = Recorded(rows, Audited \cap InSide(s), m)
    <3>1. Audited' = Audited /\ (Audited \cap InSide(s))' = Audited \cap InSide(s)
      <4>1. Audited' = Audited /\ InSide(s)' \cap DOMAIN rows = InSide(s) \cap DOMAIN rows
        <5>1. Audited' = Audited
          BY <1>3, RowSets
        <5>2. InSide(s)' = InSide(s) \cup IF SideOf(row.t) = s THEN Newest ELSE {}
          BY <1>3, RowSets
        <5>3. DOMAIN rows \cap Newest = {}
          BY <1>3, RowSets
        <5>4. QED
          BY <5>1, <5>2, <5>3
      <4>2. Audited \subseteq DOMAIN rows /\ InSide(s) \subseteq DOMAIN rows
        BY DEF Audited, InSide
      <4>3. QED
        BY <4>1, <4>2
    <3>2. rows \in Seq(Stream) /\ rows' = Append(rows, row) /\ Audited \cap InSide(s) \in SUBSET DOMAIN rows
      BY <1>3 DEF RowsOK, Grows, Audited, InSide
    <3>3. Recorded(rows', Audited \cap InSide(s), m) = Recorded(rows, Audited \cap InSide(s), m)
      BY <3>2, RecordedMore
    <3>4. QED
      BY <3>1, <3>3
  <2>2. \A X : CellsIn(X)' = CellsIn(X)
    BY <1>3 DEF CellsIn
  <2>3. QED
    BY <1>1, <1>3, <2>1, <2>2 DEF RoutingOK
<1>4. ASSUME NEW row \in Stream, Grows(row), AuditedRow(row), AddCell(row, SideOf(row.t)),
             windows' = Plus(windows, SideOf(row.t), Worth(row))
      PROVE  RoutingOK'
  <2> DEFINE s == SideOf(row.t)
             c == CohortOf(row)
             k == CellOf(row)
             d(z, m) == IF z = s THEN Worth(row)[m] ELSE 0
  <2>1. /\ totals' = windows' /\ Register(cohorts') /\ Register(cells')
        /\ Gains(cohorts, cohorts', c, Len(rows) + 1, s, Worth(row))
        /\ Gains(cells, cells', k, Len(rows) + 1, s, Worth(row))
        /\ Cohort(k) = c
        /\ \A x \in DOMAIN cells' : Cohort(x) \in DOMAIN cohorts'
        /\ \A z \in Sides, m \in Measures : totals'[z][m] = totals[z][m] + d(z, m)
    BY <1>1, <1>4, CellAdded
  <2>2. /\ s \in Sides /\ Worth(row) \in [Measures -> Nat] /\ Register(cohorts) /\ Register(cells)
        /\ DOMAIN cells' = DOMAIN cells \cup {k} /\ DOMAIN cohorts' = DOMAIN cohorts \cup {c}
        /\ \A x \in DOMAIN cells : Cohort(x) \in DOMAIN cohorts
    BY <1>1, <1>4, <2>1, WorthType DEF AuditedRow, SideOf, Sides, RoutingOK, Gains
  <2> HIDE DEF s, c, k
  <2>6. SumsGain(cohorts, cohorts', c, s, Worth(row))
    BY <2>1, <2>2, CreditSum
  <2>7. SumsGain(cells, cells', k, s, Worth(row))
    BY <2>1, <2>2, CreditSum
  <2>3. ASSUME NEW X \in SUBSET DOMAIN cohorts', NEW z \in Sides, NEW m \in Measures
        PROVE  SumOf(cohorts', X, z, m) = SumOf(cells', CellsIn(X)', z, m)
    <3> DEFINE Y == X \cap DOMAIN cohorts
               T == CellsIn(X)'
    <3>1. /\ c \in X /\ z = s => SumOf(cohorts', X, z, m) = SumOf(cohorts, Y, z, m) + Worth(row)[m]
          /\ c \notin X \/ z # s => SumOf(cohorts', X, z, m) = SumOf(cohorts, Y, z, m)
      BY <2>2, <2>6, <2>3 DEF SumsGain
    <3>2. T \in SUBSET (DOMAIN cells \cup {k})
      BY <2>2 DEF CellsIn
    <3>3. k \in T <=> c \in X
      BY <2>1, <2>2 DEF CellsIn
    <3>4. T \cap DOMAIN cells = CellsIn(Y)
      BY <2>2 DEF CellsIn
    <3> HIDE DEF T, Y
    <3>5. /\ k \in T /\ z = s => SumOf(cells', T, z, m) = SumOf(cells, T \cap DOMAIN cells, z, m) + Worth(row)[m]
          /\ k \notin T \/ z # s => SumOf(cells', T, z, m) = SumOf(cells, T \cap DOMAIN cells, z, m)
      BY <2>7, <3>2 DEF SumsGain
    <3>6. SumOf(cohorts, Y, z, m) = SumOf(cells, CellsIn(Y), z, m)
      BY <1>1 DEF RoutingOK, Y
    <3>7. QED
      BY <3>1, <3>3, <3>4, <3>5, <3>6 DEF T
  <2>4. ASSUME NEW z \in Sides, NEW m \in Measures
        PROVE  /\ SumOf(cells', DOMAIN cells', z, m) = totals'[z][m]
               /\ totals'[z][m] = Recorded(rows, Audited \cap InSide(z), m)'
    <3>1. SumOf(cells', DOMAIN cells', z, m) = SumOf(cells, DOMAIN cells, z, m) + d(z, m)
      <4>1. DOMAIN cells' \in SUBSET (DOMAIN cells \cup {k}) /\ k \in DOMAIN cells' /\ DOMAIN cells' \cap DOMAIN cells = DOMAIN cells
        BY <2>2
      <4>2. /\ z = s => SumOf(cells', DOMAIN cells', z, m) = SumOf(cells, DOMAIN cells' \cap DOMAIN cells, z, m) + Worth(row)[m]
            /\ z # s => SumOf(cells', DOMAIN cells', z, m) = SumOf(cells, DOMAIN cells' \cap DOMAIN cells, z, m)
            /\ SumOf(cells, DOMAIN cells' \cap DOMAIN cells, z, m) \in Nat
        BY <2>7, <4>1 DEF SumsGain
      <4>3. QED
        BY <4>1, <4>2
    <3>2. SumOf(cells, DOMAIN cells, z, m) = totals[z][m] /\ totals[z][m] = Recorded(rows, Audited \cap InSide(z), m)
      BY <1>1 DEF RoutingOK
    <3>3. totals'[z][m] = totals[z][m] + d(z, m)
      BY <2>1
    <3>4. (Audited \cap InSide(z))' = (Audited \cap InSide(z)) \cup IF z = s THEN Newest ELSE {}
      <4>1. Audited' = Audited \cup Newest /\ InSide(z)' = InSide(z) \cup IF s = z THEN Newest ELSE {}
        BY <1>4, RowSets DEF s
      <4>2. Audited \subseteq DOMAIN rows /\ InSide(z) \subseteq DOMAIN rows /\ DOMAIN rows \cap Newest = {}
        BY <1>4, RowSets DEF Audited, InSide
      <4>3. QED
        BY <4>1, <4>2
    <3>5. rows \in Seq(Stream) /\ rows' = Append(rows, row) /\ Audited \cap InSide(z) \in SUBSET DOMAIN rows
      BY <1>4 DEF RowsOK, Grows, Audited, InSide
    <3>6. Recorded(rows, Audited \cap InSide(z), m)' = Recorded(rows, Audited \cap InSide(z), m) + d(z, m)
      <4>1. PICK I : I = Audited \cap InSide(z)
        OBVIOUS
      <4>2. /\ Recorded(rows, I, m) \in Nat /\ Recorded(rows', I, m) = Recorded(rows, I, m)
            /\ Recorded(rows', I \cup Newest, m) = Recorded(rows, I, m) + Worth(row)[m]
        BY <3>5, <4>1, RecordedMore DEF Newest
      <4>3. Recorded(rows, Audited \cap InSide(z), m)' = Recorded(rows', I \cup IF z = s THEN Newest ELSE {}, m)
        BY <3>4, <4>1 DEF Recorded
      <4>4. CASE z = s
        BY <4>1, <4>2, <4>3, <4>4
      <4>5. CASE z # s
        <5>1. I \cup {} = I
          OBVIOUS
        <5>2. QED
          BY <4>1, <4>2, <4>3, <4>5, <5>1
      <4>6. QED
        BY <4>4, <4>5
    <3>7. QED
      BY <3>1, <3>2, <3>3, <3>6
  <2>5. QED
    BY <2>1, <2>3, <2>4 DEF RoutingOK
<1>5. ASSUME NEW row \in Stream, Counts(row) PROVE RoutingOK'
  <2>1. Grows(row)
    BY <1>5 DEF Counts
  <2>2. QED
    BY <1>1, <1>3, <1>4, <1>5, <2>1, AuditStep
<1>6. ASSUME NEW row \in Stream, Passes(row) PROVE RoutingOK'
  <2>1. Grows(row) /\ ~AuditedRow(row) /\ UNCHANGED <<totals, cohorts, cells, windows>>
    BY <1>6 DEF Passes, AuditedRow, auditVars
  <2>2. QED
    BY <1>3, <2>1
<1>7. QED
  BY <1>1, <1>2, <1>5, <1>6, InvestigationSteps DEF Idle

\* Cells shown, hidden cells of shown cohorts, and hidden cohorts are all.
LEMMA RemainderFollows == RoutingOK => RemainderCloses
<1> SUFFICES ASSUME RoutingOK, Auditing, NEW s \in Sides, NEW m \in Measures
             PROVE  /\ SumOf(cells, ShownCells, s, m) + Remainder(s, m) = totals[s][m]
                    /\ totals[s][m] = Recorded(rows, Audited \cap InSide(s), m)
  BY DEF RemainderCloses, Total, Recorded
<1> DEFINE C == DOMAIN cohorts
           H == {k \in DOMAIN cells \ ShownCells : Cohort(k) \in ShownCohorts}
<1>1. /\ Register(cohorts) /\ Register(cells)
      /\ \A k \in DOMAIN cells : Cohort(k) \in C
      /\ \A X \in SUBSET C : SumOf(cohorts, X, s, m) = SumOf(cells, CellsIn(X), s, m)
      /\ SumOf(cells, DOMAIN cells, s, m) = totals[s][m]
      /\ totals[s][m] = Recorded(rows, Audited \cap InSide(s), m)
  BY DEF RoutingOK, Investigated, Auditing
<1>2. ShownCohorts \in SUBSET C /\ ShownCells \in SUBSET DOMAIN cells /\ H \in SUBSET DOMAIN cells
      /\ \A k \in ShownCells : Cohort(k) \in ShownCohorts
  BY DEF ShownCohorts, ShownCells
<1>3. SumOf(cohorts, C \ ShownCohorts, s, m) = SumOf(cells, CellsIn(C \ ShownCohorts), s, m)
  BY <1>1
<1>4. CellsIn(C \ ShownCohorts) \in SUBSET DOMAIN cells /\ CellsIn(C \ ShownCohorts) \cap (ShownCells \cup H) = {}
      /\ ShownCells \cap H = {} /\ ShownCells \cup H \in SUBSET DOMAIN cells
      /\ CellsIn(C \ ShownCohorts) \cup (ShownCells \cup H) = DOMAIN cells
  BY <1>1, <1>2 DEF CellsIn
<1> HIDE DEF C, H
<1>5. SumOf(cells, DOMAIN cells, s, m) = SumOf(cells, CellsIn(C \ ShownCohorts), s, m) + SumOf(cells, ShownCells \cup H, s, m)
  <2>1. PICK A \in SUBSET DOMAIN cells : A = CellsIn(C \ ShownCohorts)
    BY <1>4
  <2>2. PICK B \in SUBSET DOMAIN cells : B = ShownCells \cup H
    BY <1>4
  <2>3. A \cap B = {} /\ A \cup B = DOMAIN cells
    BY <1>4, <2>1, <2>2
  <2>4. SumOf(cells, A \cup B, s, m) = SumOf(cells, A, s, m) + SumOf(cells, B, s, m)
    BY <1>1, <2>3, PartsSum
  <2>5. QED
    BY <2>1, <2>2, <2>3, <2>4
<1>6. SumOf(cells, ShownCells \cup H, s, m) = SumOf(cells, ShownCells, s, m) + SumOf(cells, H, s, m)
  BY <1>1, <1>2, <1>4, PartsSum
<1>7. SumOf(cells, ShownCells, s, m) \in Nat /\ SumOf(cells, H, s, m) \in Nat
      /\ SumOf(cells, CellsIn(C \ ShownCohorts), s, m) \in Nat
  BY <1>1, <1>2, <1>4, PartSum
<1>8. Remainder(s, m) = SumOf(cohorts, C \ ShownCohorts, s, m) + SumOf(cells, H, s, m)
  BY DEF Remainder, C, H
<1>9. QED
  BY <1>1, <1>3, <1>5, <1>6, <1>7, <1>8
-----------------------------------------------------------------------------
(* Agents.                                                                  *)

Reasons == {"absent", "empty", "nonstring", "unmatched"}

\* A record has an agent, or one reason why not.
LEMMA Resolved ==
    ASSUME RowsOK, opts.command = "investigate", Attributing, NEW row \in Stream, ~AgentUnreadable(row)
    PROVE  /\ Resolve(row).state \in AgentStates
           /\ Resolve(row).state = "unknown" => Resolve(row).why \in Reasons
           /\ Resolve(row).state # "unknown" => Resolve(row).why = ""
<1>1. row.agent \in Texts /\ row.tags.state \in {"absent", "empty", "list", "nonstring", "malformed"}
  BY WorthType DEF RowFields
<1>2. CASE opts.agentSource = "agent_id"
  <2>1. CASE TextState(row.agent) = "known"
    BY <1>2, <2>1 DEF Resolve, Agent, AgentStates
  <2>2. CASE TextState(row.agent) # "known"
    <3>1. row.agent \in {"absent", "empty"}
      BY <1>1, <2>2, SpendRowsAssumption DEF TextState, Texts
    <3>2. QED
      BY <1>2, <2>2, <3>1 DEF Resolve, Agent, AgentStates, Reasons
  <2>3. QED
    BY <2>1, <2>2
<1>3. CASE opts.agentSource = "request-tag" /\ row.tags.state = "list"
  <2>1. PICK v : v = row.tags.suffixes
    OBVIOUS
  <2>2. Resolve(row) = FromTags(v)
    BY <1>3, <2>1 DEF Resolve
  <2> DEFINE named == SelectSeq(v, LAMBDA x : x # "")
             names == ToSet(named)
             a == Agent(CASE names = {} -> "unknown" [] Cardinality(names) = 1 -> "known" [] OTHER -> "ambiguous",
                        IF Cardinality(names) = 1 THEN named[1] ELSE "", IF names = {} THEN "unmatched" ELSE "")
  <2>3. FromTags(v) = [a EXCEPT !.repeated = Len(named) - Cardinality(names), !.blank = Len(v) - Len(named)]
    BY DEF FromTags
  <2> HIDE DEF named, names
  <2>4. FromTags(v).state = a.state /\ FromTags(v).why = a.why
    BY <2>3 DEF Agent
  <2>5. CASE names = {}
    <3>1. a.state = "unknown" /\ a.why = "unmatched"
      <4>1. Cardinality(names) = 0
        BY <2>5, FS_EmptySet
      <4>2. QED
        BY <2>5, <4>1 DEF Agent
    <3>2. QED
      BY <2>2, <2>4, <3>1 DEF AgentStates, Reasons
  <2>6. CASE names # {}
    <3>1. a.state \in {"known", "ambiguous"} /\ a.why = ""
      BY <2>6 DEF Agent
    <3>2. QED
      BY <2>2, <2>4, <3>1 DEF AgentStates
  <2>7. QED
    BY <2>5, <2>6
<1>4. CASE opts.agentSource = "request-tag" /\ row.tags.state # "list"
  <2>1. row.tags.state \in {"absent", "empty", "nonstring"}
    BY <1>1, <1>4 DEF AgentUnreadable
  <2>2. QED
    BY <1>4, <2>1 DEF Resolve, Agent, AgentStates, Reasons
<1>5. QED
  BY <1>2, <1>3, <1>4, AgentAssumption DEF Attributing, RowsOK

\* Sums per state, agents, and counts of states and reasons go together.
StatesAdd(w) == \A s \in Sides, m \in Measures :
                   agentSum["known"][s][m] + agentSum["unknown"][s][m] + agentSum["ambiguous"][s][m] = w[s][m]
AgentsOK ==
    Investigated /\ Attributing =>
      /\ agentSum \in [AgentStates -> Windows] /\ Register(agents)
      /\ \A x \in DOMAIN agents : agents[x].first < Cardinality(DOMAIN agents)
      /\ \A x, y \in DOMAIN agents : x # y => agents[x].first # agents[y].first
      /\ \A s \in Sides, m \in Measures : SumOf(agents, DOMAIN agents, s, m) = agentSum["known"][s][m]
      /\ StatesAdd(windows)
      /\ DOMAIN agentRows = Sides
      /\ \A s \in Sides :
            /\ \A c \in AgentStates \cup Reasons : agentRows[s][c] \in Nat
            /\ \A z \in AgentStates : agentRows[s][z] = agentSum[z][s]["requests"]
            /\ agentRows[s]["unknown"] = agentRows[s]["absent"] + agentRows[s]["empty"]
                                         + agentRows[s]["nonstring"] + agentRows[s]["unmatched"]

\* What a record of a step does to agents and windows.
LEMMA AgentStep ==
    ASSUME opts.command = "investigate", Attributing, NEW row, Counts(row)
    PROVE  /\ SideOf(row.t) \in Sides
           /\ \/ /\ AgentAdd(row, SideOf(row.t)) /\ Supported(row) /\ ~AgentRefuses(row)
                 /\ windows' = Plus(windows, SideOf(row.t), Worth(row))
              \/ UNCHANGED <<agentVars, windows>>
<1>1. SideOf(row.t) \in Sides
  BY DEF Counts, SideOf, Sides
<1>2. CASE InScope(row) /\ Supported(row)
  BY <1>1, <1>2 DEF Counts, Account, Refused
<1>3. CASE InScope(row) /\ ~Supported(row)
  BY <1>1, <1>3 DEF Counts, Account, AgentAdd
<1>4. CASE ~InScope(row)
  BY <1>1, <1>4 DEF Counts, Account
<1>5. QED
  BY <1>1, <1>2, <1>3, <1>4

\* Nothing is attributed at first.
LEMMA AgentsInit == Init => AgentsOK
<1> SUFFICES ASSUME Init PROVE AgentsOK
  OBVIOUS
<1>1. agents = Empty /\ windows = Zero /\ agentSum = [z \in AgentStates |-> Zero]
      /\ agentRows = [s \in Sides |-> [c \in AgentCounts |-> 0]]
  BY DEF Init, AgentInit, Empty
<1>2. \A z \in AgentStates : agentSum[z] \in Windows /\ \A s \in Sides, m \in Measures : agentSum[z][s][m] = 0
  BY <1>1, ZeroWindow
<1>3. Register(agents) /\ DOMAIN agents = {} /\ \A s, m : SumOf(agents, DOMAIN agents, s, m) = 0
  BY <1>1, NoEntries
<1>4. \A s \in Sides, c \in AgentStates \cup Reasons : agentRows[s][c] = 0
  BY <1>1 DEF AgentCounts, Reasons
<1>5. StatesAdd(windows)
  <2>1. "known" \in AgentStates /\ "unknown" \in AgentStates /\ "ambiguous" \in AgentStates
    BY DEF AgentStates
  <2>2. \A s \in Sides, m \in Measures : windows[s][m] = 0
    BY <1>1, ZeroWindow
  <2>3. QED
    BY <1>2, <2>1, <2>2 DEF StatesAdd
<1>6. \A s \in Sides, z \in AgentStates : agentSum[z][s]["requests"] = 0
  BY <1>2 DEF Measures
<1>7. "known" \in AgentStates /\ "unknown" \in AgentStates /\ Reasons = {"absent", "empty", "nonstring", "unmatched"}
  BY DEF AgentStates, Reasons
<1>8. agentSum \in [AgentStates -> Windows]
  BY <1>1, <1>2
<1>9. ASSUME NEW s \in Sides
      PROVE  /\ \A c \in AgentStates \cup Reasons : agentRows[s][c] \in Nat
             /\ \A z \in AgentStates : agentRows[s][z] = agentSum[z][s]["requests"]
             /\ agentRows[s]["unknown"] = agentRows[s]["absent"] + agentRows[s]["empty"]
                                          + agentRows[s]["nonstring"] + agentRows[s]["unmatched"]
  BY <1>4, <1>6, <1>7
<1>10. DOMAIN agentRows = Sides
  BY <1>1
<1>11. QED
  BY <1>2, <1>3, <1>5, <1>7, <1>8, <1>9, <1>10 DEF AgentsOK

\* A record raises the windows of its state, its agent, its state's count and
\* that of its reason.
LEMMA AgentAdded ==
    ASSUME RowsOK, WindowsOK, AgentsOK, Investigated, Attributing, NEW row \in Stream, ~AgentUnreadable(row),
           SideOf(row.t) \in Sides, Supported(row), AgentAdd(row, SideOf(row.t)),
           windows' = Plus(windows, SideOf(row.t), Worth(row))
    PROVE  /\ agentSum' \in [AgentStates -> Windows]
           /\ \A z \in AgentStates, x \in Sides, m \in Measures :
                 agentSum'[z][x][m] = agentSum[z][x][m]
                                      + IF z = Resolve(row).state /\ x = SideOf(row.t) THEN Worth(row)[m] ELSE 0
           /\ StatesAdd(windows)'
           /\ DOMAIN agentRows' = Sides
           /\ \A x \in Sides : \A c \in AgentStates \cup Reasons :
                 agentRows'[x][c] = agentRows[x][c]
                                    + IF c \in {Resolve(row).state, Resolve(row).why} /\ x = SideOf(row.t) THEN 1 ELSE 0
           /\ agents' = IF Resolve(row).state = "known"
                        THEN Credit(agents, AgentId(row), Cardinality(DOMAIN agents), SideOf(row.t), Worth(row))
                        ELSE agents
<1>1. PICK s \in Sides : s = SideOf(row.t)
  OBVIOUS
<1>2. PICK r : r = Resolve(row)
  OBVIOUS
<1>3. PICK d \in [Measures -> Nat] : d = Worth(row)
  BY WorthType
<1>4. r.state \in AgentStates
  BY <1>2, Resolved DEF Investigated
<1>5. /\ agentSum' = [agentSum EXCEPT ![r.state] = Plus(@, s, d)]
      /\ agentRows' = [agentRows EXCEPT ![s] = [c \in AgentCounts |-> @[c] + Counted(c, r)]]
      /\ agents' = IF r.state = "known" THEN Credit(agents, AgentId(row), Cardinality(DOMAIN agents), s, d) ELSE agents
  BY <1>1, <1>2, <1>3 DEF AgentAdd
<1>6. agentSum \in [AgentStates -> Windows] /\ DOMAIN agentRows = Sides /\ StatesAdd(windows) /\ windows \in Windows
  BY DEF AgentsOK, WindowsOK
<1>7. PICK w \in Windows : /\ w = Plus(agentSum[r.state], s, d)
                           /\ \A x \in Sides, m \in Measures :
                                 w[x][m] = agentSum[r.state][x][m] + IF x = s THEN d[m] ELSE 0
  BY <1>4, <1>6, WindowGains
<1>8. agentSum' = [agentSum EXCEPT ![r.state] = w]
  BY <1>5, <1>7
<1>9. agentSum' \in [AgentStates -> Windows]
  BY <1>6, <1>8
<1>10. \A z \in AgentStates, x \in Sides, m \in Measures :
          agentSum'[z][x][m] = agentSum[z][x][m] + IF z = r.state /\ x = s THEN d[m] ELSE 0
  <2>1. TAKE z \in AgentStates, x \in Sides, m \in Measures
  <2>2. agentSum[z][x][m] \in Nat /\ d[m] \in Nat
    BY <1>6 DEF Windows
  <2>3. agentSum'[z] = IF z = r.state THEN w ELSE agentSum[z]
    BY <1>6, <1>8
  <2>4. QED
    BY <1>7, <2>2, <2>3
<1>11. StatesAdd(windows)'
  <2>1. SUFFICES ASSUME NEW x \in Sides, NEW m \in Measures
                 PROVE  agentSum'["known"][x][m] + agentSum'["unknown"][x][m] + agentSum'["ambiguous"][x][m]
                        = windows'[x][m]
    BY DEF StatesAdd
  <2>2. windows'[x][m] = windows[x][m] + IF x = s THEN d[m] ELSE 0
    BY <1>1, <1>3, <1>6, WindowGains
  <2>3. agentSum["known"][x][m] + agentSum["unknown"][x][m] + agentSum["ambiguous"][x][m] = windows[x][m]
    BY <1>6 DEF StatesAdd
  <2>4. \A z \in AgentStates : agentSum[z][x][m] \in Nat
    BY <1>6 DEF Windows
  <2>5. \A z \in AgentStates :
           agentSum'[z][x][m] = agentSum[z][x][m] + IF z = r.state /\ x = s THEN d[m] ELSE 0
    BY <1>10
  <2>6. d[m] \in Nat
    OBVIOUS
  <2>7. QED
    BY <1>4, <2>2, <2>3, <2>4, <2>5, <2>6 DEF AgentStates
<1>12. \A x \in Sides : \A c \in AgentStates \cup Reasons :
          agentRows'[x][c] = agentRows[x][c] + IF c \in {r.state, r.why} /\ x = s THEN 1 ELSE 0
  <2>1. TAKE x \in Sides
  <2>2. TAKE c \in AgentStates \cup Reasons
  <2>3. c \in AgentCounts /\ agentRows[x][c] \in Nat
    BY DEF AgentsOK, AgentCounts, Reasons
  <2>4. Counted(c, r) = IF c \in {r.state, r.why} THEN 1 ELSE 0
    BY DEF Counted, AgentStates, Reasons
  <2>5. CASE x = s
    <3>1. agentRows'[x] = [e \in AgentCounts |-> agentRows[s][e] + Counted(e, r)]
      BY <1>5, <1>6, <2>5
    <3>2. agentRows'[x][c] = agentRows[s][c] + Counted(c, r)
      BY <2>3, <3>1
    <3>3. QED
      BY <2>3, <2>4, <2>5, <3>2
  <2>6. CASE x # s
    <3>1. agentRows'[x] = agentRows[x]
      BY <1>5, <1>6, <2>6
    <3>2. QED
      BY <2>3, <2>6, <3>1
  <2>7. QED
    BY <2>5, <2>6
<1>13. DOMAIN agentRows' = Sides
  BY <1>5, <1>6
<1>14. QED
  <2>1. \A z \in AgentStates, x \in Sides, m \in Measures :
           agentSum'[z][x][m] = agentSum[z][x][m]
                                + IF z = Resolve(row).state /\ x = SideOf(row.t) THEN Worth(row)[m] ELSE 0
    BY <1>1, <1>2, <1>3, <1>10
  <2>2. \A x \in Sides : \A c \in AgentStates \cup Reasons :
           agentRows'[x][c] = agentRows[x][c]
                              + IF c \in {Resolve(row).state, Resolve(row).why} /\ x = SideOf(row.t) THEN 1 ELSE 0
    BY <1>1, <1>2, <1>12
  <2>3. agents' = IF Resolve(row).state = "known"
                  THEN Credit(agents, AgentId(row), Cardinality(DOMAIN agents), SideOf(row.t), Worth(row))
                  ELSE agents
    BY <1>1, <1>2, <1>3, <1>5
  <2>4. QED
    BY <1>9, <1>11, <1>13, <2>1, <2>2, <2>3

\* Every step keeps agents, states and windows together.
LEMMA AgentsNext == RowsOK /\ WindowsOK /\ AgentsOK /\ [Next]_vars => AgentsOK'
<1> SUFFICES ASSUME RowsOK, WindowsOK, AgentsOK, [Next]_vars, opts'.command = "investigate", pc' # "error", Attributing'
             PROVE  AgentsOK'
  BY DEF AgentsOK, Investigated
<1>1. opts' = opts /\ opts.command = "investigate" /\ Attributing /\ Investigated
  BY RowsNext, InvestigationSteps DEF Investigated, Attributing
<1>2. CASE UNCHANGED <<agentVars, windows>>
  <2>1. agentSum' = agentSum /\ agentRows' = agentRows /\ agents' = agents /\ windows' = windows
    BY <1>2 DEF agentVars
  <2>2. StatesAdd(windows)' <=> StatesAdd(windows)
    BY <2>1 DEF StatesAdd
  <2>3. QED
    BY <1>1, <2>1, <2>2 DEF AgentsOK
<1>3. ASSUME NEW row \in Stream, Counts(row), AgentAdd(row, SideOf(row.t)), Supported(row),
             SideOf(row.t) \in Sides, windows' = Plus(windows, SideOf(row.t), Worth(row))
      PROVE  AgentsOK'
  <2>1. PICK s \in Sides : s = SideOf(row.t)
    BY <1>3
  <2>2. PICK r : r = Resolve(row)
    OBVIOUS
  <2>3. PICK d \in [Measures -> Nat] : d = Worth(row) /\ d["requests"] = 1
    BY WorthType
  <2>4. ~AgentUnreadable(row)
    BY <1>3 DEF Counts
  <2>5. /\ r.state \in AgentStates
        /\ r.state = "unknown" => r.why \in Reasons
        /\ r.state # "unknown" => r.why = ""
    BY <1>1, <2>2, <2>4, Resolved
  <2>6. /\ agentSum' \in [AgentStates -> Windows] /\ StatesAdd(windows)' /\ DOMAIN agentRows' = Sides
        /\ \A z \in AgentStates, x \in Sides, m \in Measures :
              agentSum'[z][x][m] = agentSum[z][x][m] + IF z = r.state /\ x = s THEN d[m] ELSE 0
        /\ \A x \in Sides : \A c \in AgentStates \cup Reasons :
              agentRows'[x][c] = agentRows[x][c] + IF c \in {r.state, r.why} /\ x = s THEN 1 ELSE 0
        /\ agents' = IF r.state = "known" THEN Credit(agents, AgentId(row), Cardinality(DOMAIN agents), s, d)
                     ELSE agents
    <3>1. /\ agentSum' \in [AgentStates -> Windows] /\ StatesAdd(windows)' /\ DOMAIN agentRows' = Sides
      BY <1>1, <1>3, <2>4, AgentAdded
    <3>2. \A z \in AgentStates, x \in Sides, m \in Measures :
             agentSum'[z][x][m] = agentSum[z][x][m] + IF z = r.state /\ x = s THEN d[m] ELSE 0
      BY <1>1, <1>3, <2>1, <2>2, <2>3, <2>4, AgentAdded
    <3>3. \A x \in Sides : \A c \in AgentStates \cup Reasons :
             agentRows'[x][c] = agentRows[x][c] + IF c \in {r.state, r.why} /\ x = s THEN 1 ELSE 0
      BY <1>1, <1>3, <2>1, <2>2, <2>4, AgentAdded
    <3>4. agents' = IF r.state = "known" THEN Credit(agents, AgentId(row), Cardinality(DOMAIN agents), s, d)
                    ELSE agents
      BY <1>1, <1>3, <2>1, <2>2, <2>3, <2>4, AgentAdded
    <3>5. QED
      BY <3>1, <3>2, <3>3, <3>4
  <2>7. /\ agentSum \in [AgentStates -> Windows] /\ Register(agents)
        /\ \A x \in DOMAIN agents : agents[x].first < Cardinality(DOMAIN agents)
        /\ \A x, y \in DOMAIN agents : x # y => agents[x].first # agents[y].first
        /\ \A x \in Sides, m \in Measures : SumOf(agents, DOMAIN agents, x, m) = agentSum["known"][x][m]
        /\ \A x \in Sides :
              /\ \A c \in AgentStates \cup Reasons : agentRows[x][c] \in Nat
              /\ \A z \in AgentStates : agentRows[x][z] = agentSum[z][x]["requests"]
              /\ agentRows[x]["unknown"] = agentRows[x]["absent"] + agentRows[x]["empty"]
                                           + agentRows[x]["nonstring"] + agentRows[x]["unmatched"]
    BY <1>1 DEF AgentsOK
  <2>8. ASSUME NEW x \in Sides
        PROVE  /\ \A c \in AgentStates \cup Reasons : agentRows'[x][c] \in Nat
               /\ \A z \in AgentStates : agentRows'[x][z] = agentSum'[z][x]["requests"]
               /\ agentRows'[x]["unknown"] = agentRows'[x]["absent"] + agentRows'[x]["empty"]
                                             + agentRows'[x]["nonstring"] + agentRows'[x]["unmatched"]
    <3>1. \A c \in AgentStates \cup Reasons : agentRows'[x][c] \in Nat
      BY <2>6, <2>7
    <3>2. \A z \in AgentStates : agentRows'[x][z] = agentSum'[z][x]["requests"]
      <4>1. TAKE z \in AgentStates
      <4>2. "requests" \in Measures /\ z # r.why
        BY <2>5 DEF Measures, AgentStates, Reasons
      <4>3. agentSum'[z][x]["requests"] = agentSum[z][x]["requests"] + IF z = r.state /\ x = s THEN 1 ELSE 0
        BY <2>3, <2>6, <4>2
      <4>4. agentRows'[x][z] = agentRows[x][z] + IF z = r.state /\ x = s THEN 1 ELSE 0
        <5>1. \A c \in AgentStates \cup Reasons :
                 agentRows'[x][c] = agentRows[x][c] + IF c \in {r.state, r.why} /\ x = s THEN 1 ELSE 0
          BY <2>6
        <5>2. z \in {r.state, r.why} <=> z = r.state
          BY <4>2
        <5>3. QED
          BY <5>1, <5>2
      <4>5. agentRows[x][z] = agentSum[z][x]["requests"]
        BY <2>7
      <4>6. QED
        BY <4>3, <4>4, <4>5
    <3>3. QED
      <4>0. \A c \in AgentStates \cup Reasons :
               agentRows'[x][c] = agentRows[x][c] + IF c \in {r.state, r.why} /\ x = s THEN 1 ELSE 0
        BY <2>6
      <4>1. \A c \in Reasons : agentRows'[x][c] = agentRows[x][c] + IF c = r.why /\ x = s THEN 1 ELSE 0
        <5>1. \A c \in Reasons : c \in {r.state, r.why} <=> c = r.why
          BY <2>5 DEF AgentStates, Reasons
        <5>2. QED
          BY <4>0, <5>1
      <4>2. agentRows'[x]["unknown"] = agentRows[x]["unknown"] + IF r.state = "unknown" /\ x = s THEN 1 ELSE 0
        <5>1. "unknown" \in AgentStates \cup Reasons /\ ("unknown" \in {r.state, r.why} <=> r.state = "unknown")
          BY <2>5 DEF AgentStates, Reasons
        <5>2. QED
          BY <4>0, <5>1
      <4>3. r.state = "unknown" <=> r.why \in Reasons
        BY <2>5 DEF Reasons
      <4>4. /\ agentRows[x]["unknown"] = agentRows[x]["absent"] + agentRows[x]["empty"]
                                         + agentRows[x]["nonstring"] + agentRows[x]["unmatched"]
            /\ \A c \in Reasons : agentRows[x][c] \in Nat
        BY <2>7
      <4>5. QED
        BY <3>1, <3>2, <4>1, <4>2, <4>3, <4>4 DEF Reasons
  <2>9. /\ Register(agents')
        /\ \A x \in DOMAIN agents' : agents'[x].first < Cardinality(DOMAIN agents')
        /\ \A x, y \in DOMAIN agents' : x # y => agents'[x].first # agents'[y].first
        /\ \A x \in Sides, m \in Measures : SumOf(agents', DOMAIN agents', x, m) = agentSum'["known"][x][m]
    <3>1. CASE r.state # "known"
      <4>1. agents' = agents
        BY <2>6, <3>1
      <4>2. \A x \in Sides, m \in Measures : agentSum'["known"][x][m] = agentSum["known"][x][m]
        <5>1. TAKE x \in Sides, m \in Measures
        <5>2. agentSum["known"][x][m] \in Nat /\ "known" \in AgentStates
          BY <2>7 DEF Windows, AgentStates
        <5>3. QED
          BY <2>6, <3>1, <5>2
      <4>3. QED
        BY <2>7, <4>1, <4>2
    <3>2. CASE r.state = "known"
      <4>1. PICK k : k = AgentId(row)
        OBVIOUS
      <4>2. PICK n : n = Cardinality(DOMAIN agents)
        OBVIOUS
      <4>3. agents' = Credit(agents, k, n, s, d) /\ n \in Nat /\ IsFiniteSet(DOMAIN agents)
        BY <2>6, <2>7, <3>2, <4>1, <4>2, FS_CardinalityType DEF Register
      <4>4. Register(agents') /\ Gains(agents, agents', k, n, s, d)
        BY <2>7, <4>3, CreditGains
      <4>5. SumsGain(agents, agents', k, s, d)
        BY <2>7, <4>4, CreditSum
      <4>6. /\ DOMAIN agents' = DOMAIN agents \cup {k}
            /\ \A x \in DOMAIN agents \ {k} : agents'[x] = agents[x]
            /\ agents'[k].first = IF k \in DOMAIN agents THEN agents[k].first ELSE n
        BY <4>4 DEF Gains
      <4>7. Cardinality(DOMAIN agents') = IF k \in DOMAIN agents THEN n ELSE n + 1
        BY <4>2, <4>3, <4>6, FS_AddElement
      <4>8. \A x \in DOMAIN agents : agents[x].first \in Nat /\ agents[x].first < n
        BY <2>7, <4>2 DEF Register, Entries
      <4>9. \A x \in DOMAIN agents' : agents'[x].first < Cardinality(DOMAIN agents')
        BY <4>3, <4>6, <4>7, <4>8
      <4>10. \A x, y \in DOMAIN agents' : x # y => agents'[x].first # agents'[y].first
        BY <2>7, <4>3, <4>6, <4>8
      <4>11. ASSUME NEW x \in Sides, NEW m \in Measures
             PROVE  SumOf(agents', DOMAIN agents', x, m) = agentSum'["known"][x][m]
        <5>1. DOMAIN agents' \in SUBSET (DOMAIN agents \cup {k}) /\ k \in DOMAIN agents'
              /\ DOMAIN agents' \cap DOMAIN agents = DOMAIN agents
          BY <4>6
        <5>2. /\ x = s => SumOf(agents', DOMAIN agents', x, m) = SumOf(agents, DOMAIN agents' \cap DOMAIN agents, x, m) + d[m]
              /\ x # s => SumOf(agents', DOMAIN agents', x, m) = SumOf(agents, DOMAIN agents' \cap DOMAIN agents, x, m)
          BY <4>5, <5>1 DEF SumsGain
        <5>3. agentSum'["known"][x][m] = agentSum["known"][x][m] + IF x = s THEN d[m] ELSE 0
          BY <2>6, <3>2 DEF AgentStates
        <5>4. SumOf(agents, DOMAIN agents, x, m) = agentSum["known"][x][m] /\ agentSum["known"][x][m] \in Nat
          BY <2>7 DEF AgentStates, Windows
        <5>5. QED
          BY <5>1, <5>2, <5>3, <5>4
      <4>12. QED
        BY <4>4, <4>9, <4>10, <4>11
    <3>3. QED
      BY <3>1, <3>2
  <2>10. QED
    BY <2>6, <2>8, <2>9 DEF AgentsOK
<1>4. ASSUME NEW row \in Stream, Passes(row) PROVE UNCHANGED <<agentVars, windows>>
  BY <1>4 DEF Passes
<1>5. QED
  BY <1>1, <1>2, <1>3, <1>4, InvestigationSteps, AgentStep DEF Idle

\* The ranking of agents is a strict total order of agents that appeared at
\* different places.
LEMMA AheadOrder ==
    ASSUME NEW a \in Entries, NEW b \in Entries, NEW c \in Entries
    PROVE  /\ ~AgentAhead(a, a)
           /\ AgentAhead(a, b) /\ AgentAhead(b, c) => AgentAhead(a, c)
           /\ a.first # b.first => AgentAhead(a, b) \/ AgentAhead(b, a)
<1>1. Ranking \in Measures
  BY DEF Ranking, Measures
<1>2. PICK m \in Measures : m = Ranking
  BY <1>1
<1>3. \A e \in Entries : e.first \in Nat /\ Change(e, m) \in Int
  <2>1. TAKE e \in Entries
  <2>2. e.sum[1][m] \in Nat /\ e.sum[2][m] \in Nat /\ e.first \in Nat
    BY DEF Entries, Windows, Sides
  <2>3. QED
    BY <2>2 DEF Change
<1>4. CASE Ranking = "spend"
  <2>1. \A x, y : AgentAhead(x, y) <=>
           \/ HasCost(x) /\ ~HasCost(y)
           \/ ~HasCost(x) /\ ~HasCost(y) /\ x.first < y.first
           \/ HasCost(x) /\ HasCost(y) /\ (Change(x, m) > Change(y, m)
                                           \/ (Change(x, m) = Change(y, m) /\ x.first < y.first))
    BY <1>2, <1>4 DEF AgentAhead, HasCost
  <2>2. QED
    BY <1>3, <2>1
<1>5. CASE Ranking # "spend"
  <2>1. \A x, y : AgentAhead(x, y) <=> Change(x, m) > Change(y, m) \/ (Change(x, m) = Change(y, m) /\ x.first < y.first)
    BY <1>2, <1>5 DEF AgentAhead
  <2>2. QED
    BY <1>3, <2>1
<1>6. QED
  BY <1>4, <1>5

\* Different agents have different positions.
LEMMA PositionsDiffer ==
    ASSUME Register(agents), \A x, y \in DOMAIN agents : x # y => agents[x].first # agents[y].first
    PROVE  /\ \A x \in DOMAIN agents : Position(x) \in Nat
           /\ \A x, y \in DOMAIN agents : x # y => Position(x) # Position(y)
<1> DEFINE InFrontOf(x) == {y \in DOMAIN agents : AgentAhead(agents[y], agents[x])}
<1>1. IsFiniteSet(DOMAIN agents) /\ \A x \in DOMAIN agents : agents[x] \in Entries
  BY DEF Register
<1>2. \A x : IsFiniteSet(InFrontOf(x)) /\ Cardinality(InFrontOf(x)) \in Nat /\ Position(x) = Cardinality(InFrontOf(x))
  <2>1. TAKE x
  <2>2. InFrontOf(x) \in SUBSET DOMAIN agents
    OBVIOUS
  <2>3. IsFiniteSet(InFrontOf(x))
    BY <1>1, <2>2, FS_Subset
  <2>4. QED
    BY <2>3, FS_CardinalityType DEF Position
<1>3. ASSUME NEW x \in DOMAIN agents, NEW y \in DOMAIN agents, AgentAhead(agents[y], agents[x])
      PROVE  Position(x) # Position(y)
  <2>1. InFrontOf(y) \in SUBSET InFrontOf(x)
    <3>1. ASSUME NEW z \in DOMAIN agents, AgentAhead(agents[z], agents[y])
          PROVE  AgentAhead(agents[z], agents[x])
      BY <1>1, <1>3, <3>1, AheadOrder
    <3>2. QED
      BY <3>1
  <2>2. y \in InFrontOf(x) /\ y \notin InFrontOf(y)
    BY <1>1, <1>3, AheadOrder
  <2> HIDE DEF InFrontOf
  <2>3. Cardinality(InFrontOf(x)) # Cardinality(InFrontOf(y))
    BY <1>2, <2>1, <2>2, FS_Subset
  <2>4. QED
    BY <1>2, <2>3
<1>4. ASSUME NEW x \in DOMAIN agents, NEW y \in DOMAIN agents, x # y
      PROVE  Position(x) # Position(y)
  <2>1. AgentAhead(agents[x], agents[y]) \/ AgentAhead(agents[y], agents[x])
    BY <1>1, <1>4, AheadOrder
  <2>2. QED
    BY <1>3, <2>1
<1>5. QED
  BY <1>2, <1>4

\* Agents shown, without a cost, and hidden are all known agents.
LEMMA AgentsFollow == RowsOK /\ AgentsOK => AgentsClose
<1> SUFFICES ASSUME RowsOK, AgentsOK, opts.command = "investigate", Attributing, pc \in {"rows", "ok"}, NEW s \in Sides
             PROVE  /\ \A m \in Measures :
                          SumOf(agents, Contributors, s, m) + SumOf(agents, Unavailable, s, m)
                          + SumOf(agents, Undisplayed, s, m) = agentSum["known"][s][m]
                    /\ Cardinality(Contributors) <= opts.top
                    /\ \A z \in AgentStates : agentRows[s][z] = agentSum[z][s]["requests"]
                    /\ agentRows[s]["unknown"] = agentRows[s]["absent"] + agentRows[s]["empty"]
                                                 + agentRows[s]["nonstring"] + agentRows[s]["unmatched"]
  BY DEF AgentsClose
<1>1. /\ Register(agents) /\ \A x, y \in DOMAIN agents : x # y => agents[x].first # agents[y].first
      /\ \A m \in Measures : SumOf(agents, DOMAIN agents, s, m) = agentSum["known"][s][m]
      /\ \A z \in AgentStates : agentRows[s][z] = agentSum[z][s]["requests"]
      /\ agentRows[s]["unknown"] = agentRows[s]["absent"] + agentRows[s]["empty"]
                                   + agentRows[s]["nonstring"] + agentRows[s]["unmatched"]
  BY DEF AgentsOK, Investigated
<1>2. opts.top \in Nat
  BY SpendRowsAssumption DEF RowsOK
<1>3. /\ \A x \in DOMAIN agents : Position(x) \in Nat
      /\ \A x, y \in DOMAIN agents : x # y => Position(x) # Position(y)
  BY <1>1, PositionsDiffer
<1>4. /\ Contributors \in SUBSET DOMAIN agents /\ Unavailable \in SUBSET DOMAIN agents /\ Undisplayed \in SUBSET DOMAIN agents
      /\ Contributors \cap Unavailable = {} /\ (Contributors \cup Unavailable) \cap Undisplayed = {}
      /\ (Contributors \cup Unavailable) \cup Undisplayed = DOMAIN agents
  BY <1>2, <1>3 DEF Contributors, Unavailable, Undisplayed
<1>5. ASSUME NEW m \in Measures
      PROVE  SumOf(agents, Contributors, s, m) + SumOf(agents, Unavailable, s, m)
             + SumOf(agents, Undisplayed, s, m) = agentSum["known"][s][m]
  <2>1. PICK X \in SUBSET DOMAIN agents : X = Contributors
    BY <1>4
  <2>2. PICK Y \in SUBSET DOMAIN agents : Y = Unavailable
    BY <1>4
  <2>3. PICK Z \in SUBSET DOMAIN agents : Z = Undisplayed
    BY <1>4
  <2>4. SumOf(agents, X \cup Y, s, m) = SumOf(agents, X, s, m) + SumOf(agents, Y, s, m)
    BY <1>1, <1>4, <2>1, <2>2, PartsSum
  <2>5. SumOf(agents, (X \cup Y) \cup Z, s, m) = SumOf(agents, X \cup Y, s, m) + SumOf(agents, Z, s, m)
    <3>1. X \cup Y \in SUBSET DOMAIN agents /\ (X \cup Y) \cap Z = {}
      BY <1>4, <2>1, <2>2, <2>3
    <3>2. QED
      BY <1>1, <3>1, PartsSum
  <2>6. (X \cup Y) \cup Z = DOMAIN agents
    BY <1>4, <2>1, <2>2, <2>3
  <2>7. SumOf(agents, X, s, m) + SumOf(agents, Y, s, m) + SumOf(agents, Z, s, m) = SumOf(agents, DOMAIN agents, s, m)
    <3>1. PICK a, b, c : a = SumOf(agents, X, s, m) /\ b = SumOf(agents, Y, s, m) /\ c = SumOf(agents, Z, s, m)
      OBVIOUS
    <3>2. SumOf(agents, X \cup Y, s, m) = a + b
      BY <2>4, <3>1
    <3>3. SumOf(agents, DOMAIN agents, s, m) = (a + b) + c
      BY <2>5, <2>6, <3>1, <3>2
    <3>4. QED
      BY <3>1, <3>3
  <2>8. SumOf(agents, DOMAIN agents, s, m) = agentSum["known"][s][m]
    BY <1>1
  <2>9. QED
    BY <2>1, <2>2, <2>3, <2>7, <2>8
<1>6. Cardinality(Contributors) <= opts.top
  <2> DEFINE p == [x \in Contributors |-> Position(x)]
             T == 0..(opts.top - 1)
  <2>1. IsFiniteSet(T) /\ Cardinality(T) = opts.top
    <3>1. PICK n \in Nat : n = opts.top
      BY <1>2
    <3>2. IsFiniteSet(0..(n - 1)) /\ Cardinality(0..(n - 1)) = n
      BY FS_Interval
    <3>3. QED
      BY <3>1, <3>2
  <2>2. \A x \in Contributors : Position(x) \in T
    BY <1>2, <1>3 DEF Contributors
  <2>3. \A x, y \in Contributors : x # y => Position(x) # Position(y)
    BY <1>3, <1>4
  <2> HIDE DEF T
  <2>4. p \in Injection(Contributors, T)
    BY <2>2, <2>3 DEF Injection, IsInjective
  <2>5. QED
    BY <2>1, <2>4, FS_Injection
<1>7. QED
  BY <1>1, <1>5, <1>6

\* The three agent states add up to the window.
LEMMA StatesSum ==
    ASSUME AgentsOK, Investigated, Attributing, NEW s \in Sides, NEW m \in Measures
    PROVE  SumFunctionOnSet([z \in AgentStates |-> agentSum[z][s][m]], AgentStates) = windows[s][m]
<1>1. PICK g : g = [z \in AgentStates |-> agentSum[z][s][m]]
  OBVIOUS
<1>2. agentSum \in [AgentStates -> Windows]
      /\ agentSum["known"][s][m] + agentSum["unknown"][s][m] + agentSum["ambiguous"][s][m] = windows[s][m]
  BY DEF AgentsOK, StatesAdd
<1>3. g["known"] + g["unknown"] + g["ambiguous"] = windows[s][m] /\ \A z \in AgentStates : g[z] \in Nat
  BY <1>1, <1>2 DEF AgentStates, Windows
<1>4. IsFiniteSet({"known"}) /\ IsFiniteSet({"known"} \cup {"unknown"})
  BY FS_Singleton, FS_AddElement
<1>5. SumFunctionOnSet(g, {"known"}) = g["known"]
  BY <1>3, <1>4, SumOne DEF AgentStates
<1>6. SumFunctionOnSet(g, {"known"} \cup {"unknown"}) = g["unknown"] + SumFunctionOnSet(g, {"known"})
  BY <1>3, <1>4, SumAdd DEF AgentStates
<1>7. SumFunctionOnSet(g, ({"known"} \cup {"unknown"}) \cup {"ambiguous"})
      = g["ambiguous"] + SumFunctionOnSet(g, {"known"} \cup {"unknown"})
  BY <1>3, <1>4, SumAdd DEF AgentStates
<1>8. ({"known"} \cup {"unknown"}) \cup {"ambiguous"} = AgentStates
  BY DEF AgentStates
<1>9. g["known"] \in Nat /\ g["unknown"] \in Nat /\ g["ambiguous"] \in Nat
  BY <1>3 DEF AgentStates
<1>10. SumFunctionOnSet(g, AgentStates) = windows[s][m]
  <2>1. SumFunctionOnSet(g, {"known"} \cup {"unknown"}) = g["known"] + g["unknown"]
    BY <1>5, <1>6, <1>9
  <2>2. SumFunctionOnSet(g, AgentStates) = g["ambiguous"] + SumFunctionOnSet(g, {"known"} \cup {"unknown"})
    BY <1>7, <1>8
  <2>3. QED
    BY <1>3, <1>9, <2>1, <2>2
<1>11. QED
  BY <1>1, <1>10

\* All accounts rest on the same records.
AccountsOK == RowsOK /\ WindowsOK /\ RoutingOK /\ AgentsOK

\* For every export, all options and all limits, in each state: the totals of
\* the routing audit and the three agent states both are the windows of the
\* investigation; model cells shown and the remainder add up to them, and they
\* to the records themselves; agents shown, agents without a cost and the rest
\* add up to the known window; a record without an agent has one reason.
THEOREM AllAccountsClose == Spec => []AccountsClose
<1>1. Init => AccountsOK
  BY RowsNext, RoutingInit, AgentsInit DEF AccountsOK
<1>2. AccountsOK /\ [Next]_vars => AccountsOK'
  BY RowsNext, WindowsNext, RoutingNext, AgentsNext DEF AccountsOK
<1>3. AccountsOK => AccountsClose
  <2> SUFFICES ASSUME AccountsOK PROVE AccountsClose
    OBVIOUS
  <2>1. RemainderCloses /\ AgentsClose
    BY RemainderFollows, AgentsFollow DEF AccountsOK
  <2>2. ViewsAgree
    <3> SUFFICES ASSUME Investigating, pc \in {"rows", "ok"}, NEW s \in Sides, NEW m \in Measures
                 PROVE  /\ opts.audit => totals[s][m] = windows[s][m]
                        /\ Attributing => SumFunctionOnSet([z \in AgentStates |-> agentSum[z][s][m]], AgentStates)
                                          = windows[s][m]
      BY DEF ViewsAgree, Total
    <3>1. Investigated
      BY DEF Investigated, Investigating
    <3>2. opts.audit => totals = windows
      BY <3>1 DEF AccountsOK, RoutingOK
    <3>3. QED
      BY <3>1, <3>2, StatesSum DEF AccountsOK
  <2>3. QED
    BY <2>1, <2>2 DEF AccountsClose
<1>4. QED
  BY <1>1, <1>2, <1>3, PTL DEF Spec
-----------------------------------------------------------------------------
(* Labels.                                                                  *)

Ids == {Canon[v] : v \in DOMAIN Canon}
Labelled(kind) == kind = "model" \/ ShowLabels
Spelling(row, kind) == IF kind = "model" THEN row.public ELSE row[kind]

\* An identity that has a label has the spelling of each of its records, or
\* none; an identity without a label has no record that could give it one.
LabelKept(kind) ==
    /\ NoId \notin DOMAIN labels[kind]
    /\ ~Labelled(kind) => DOMAIN labels[kind] = {}
    /\ \A i \in Audited : Labelled(kind) /\ IdOf(rows[i], kind) # NoId =>
          /\ IdOf(rows[i], kind) \in DOMAIN labels[kind]
          /\ labels[kind][IdOf(rows[i], kind)] \in {"", Spelling(rows[i], kind)}

LabelsOK ==
    Investigated /\ opts.audit =>
      /\ ids \in [Kinds -> Seq(Ids)] /\ DOMAIN labels = Kinds
      /\ \A k \in DOMAIN cells : k[3] # NoId => \E i \in DOMAIN ids["model"] : ids["model"][i] = k[3]
      /\ \A kind \in Kinds : LabelKept(kind)

\* An identity is the keyed form of a spelling, or unknown.
LEMMA IdType == ASSUME NEW row \in Stream, NEW kind \in Kinds PROVE IdOf(row, kind) \in Ids \cup {NoId}
<1>1. row.route \in Placed /\ row.agent \in Placed /\ row.model \in Placed
  BY WorthType DEF RowFields, Placed
<1>2. \A v \in Placed : Identity(v) \in Ids \cup {NoId}
  BY DEF Identity, TextState, Placed, Texts, Ids
<1>3. QED
  BY <1>1, <1>2 DEF IdOf, Selected

\* Nothing is labelled at first.
LEMMA LabelsInit == Init => LabelsOK
<1> SUFFICES ASSUME Init PROVE LabelsOK
  OBVIOUS
<1>1. ids = [k \in Kinds |-> <<>>] /\ labels = [k \in Kinds |-> Empty] /\ cells = Empty /\ rows = <<>>
  BY DEF Init, AuditInit
<1>2. DOMAIN cells = {} /\ \A k \in Kinds : DOMAIN labels[k] = {}
  BY <1>1 DEF Empty
<1>3. Audited = {}
  BY <1>1 DEF Audited, InSide
<1>4. ids \in [Kinds -> Seq(Ids)]
  BY <1>1
<1>5. QED
  BY <1>1, <1>2, <1>3, <1>4 DEF LabelsOK, LabelKept

\* A record that is audited registers its identities and their spellings.
LEMMA LabelsAdded ==
    ASSUME RowsOK, LabelsOK, Investigated, opts.audit, NEW row, Grows(row), AuditedRow(row),
           AddCell(row, SideOf(row.t))
    PROVE  LabelsOK'
<1>1. /\ ids \in [Kinds -> Seq(Ids)] /\ DOMAIN labels = Kinds
      /\ \A k \in DOMAIN cells : k[3] # NoId => \E i \in DOMAIN ids["model"] : ids["model"][i] = k[3]
  BY DEF LabelsOK
<1>2. /\ ids' = [kind \in Kinds |-> IF Registered(kind, IdOf(row, kind)) THEN ids[kind]
                                    ELSE Append(ids[kind], IdOf(row, kind))]
      /\ labels' = [kind \in Kinds |->
                       IF kind # "model" /\ ~ShowLabels THEN labels[kind]
                       ELSE RememberLabel(labels[kind], IdOf(row, kind), Spelling(row, kind))]
      /\ DOMAIN cells' = DOMAIN cells \cup {CellOf(row)}
  BY DEF AddCell, Credit, Spelling
<1>3. row \in Stream /\ opts' = opts
  BY DEF Grows
<1>4. ASSUME NEW kind \in Kinds
      PROVE  /\ ids'[kind] \in Seq(Ids)
             /\ \A x : (\E i \in DOMAIN ids[kind] : ids[kind][i] = x) => \E i \in DOMAIN ids'[kind] : ids'[kind][i] = x
             /\ IdOf(row, kind) # NoId => \E i \in DOMAIN ids'[kind] : ids'[kind][i] = IdOf(row, kind)
  <2>1. ids[kind] \in Seq(Ids)
    BY <1>1
  <2>2. CASE Registered(kind, IdOf(row, kind))
    BY <1>2, <2>1, <2>2 DEF Registered
  <2>3. CASE ~Registered(kind, IdOf(row, kind))
    <3>1. PICK x \in Ids : x = IdOf(row, kind)
      BY <1>3, <2>3, IdType DEF Registered
    <3>2. ids'[kind] = Append(ids[kind], x)
      BY <1>2, <2>3, <3>1
    <3>3. PICK q \in Seq(Ids) : q = ids[kind]
      BY <2>1
    <3>4. /\ Append(q, x) \in Seq(Ids) /\ DOMAIN Append(q, x) = DOMAIN q \cup {Len(q) + 1}
          /\ Append(q, x)[Len(q) + 1] = x /\ \A i \in DOMAIN q : Append(q, x)[i] = q[i]
      OBVIOUS
    <3>5. QED
      BY <3>1, <3>2, <3>3, <3>4
  <2>4. QED
    BY <2>2, <2>3
<1>5. \A k \in DOMAIN cells' : k[3] # NoId => \E i \in DOMAIN ids'["model"] : ids'["model"][i] = k[3]
  <2>1. CellOf(row)[3] = IdOf(row, "model") /\ "model" \in Kinds
    BY DEF CellOf, Kinds
  <2>2. ASSUME NEW k \in DOMAIN cells', k[3] # NoId
        PROVE  \E i \in DOMAIN ids'["model"] : ids'["model"][i] = k[3]
    <3>1. CASE k \in DOMAIN cells
      BY <1>1, <1>4, <2>1, <2>2, <3>1
    <3>2. CASE k = CellOf(row)
      BY <1>4, <2>1, <2>2, <3>2
    <3>3. QED
      BY <1>2, <2>2, <3>1, <3>2
  <2>3. QED
    BY <2>2
<1>6. ASSUME NEW kind \in Kinds
      PROVE  /\ NoId \notin DOMAIN labels'[kind]
             /\ ~Labelled(kind) => DOMAIN labels'[kind] = {}
             /\ \A i \in Audited' : Labelled(kind) /\ IdOf(rows'[i], kind) # NoId =>
                   /\ IdOf(rows'[i], kind) \in DOMAIN labels'[kind]
                   /\ labels'[kind][IdOf(rows'[i], kind)] \in {"", Spelling(rows'[i], kind)}
  <2>1. /\ NoId \notin DOMAIN labels[kind]
        /\ ~Labelled(kind) => DOMAIN labels[kind] = {}
        /\ \A i \in Audited : Labelled(kind) /\ IdOf(rows[i], kind) # NoId =>
              /\ IdOf(rows[i], kind) \in DOMAIN labels[kind]
              /\ labels[kind][IdOf(rows[i], kind)] \in {"", Spelling(rows[i], kind)}
    BY DEF LabelsOK, LabelKept
  <2>2. CASE ~Labelled(kind)
    BY <1>2, <2>1, <2>2 DEF Labelled
  <2>3. CASE Labelled(kind)
    <3>1. PICK f : f = labels[kind]
      OBVIOUS
    <3>2. PICK x : x = IdOf(row, kind)
      OBVIOUS
    <3>3. PICK v : v = Spelling(row, kind)
      OBVIOUS
    <3>4. labels'[kind] = RememberLabel(f, x, v)
      BY <1>2, <2>3, <3>1, <3>2, <3>3 DEF Labelled
    <3>5. /\ Audited' = Audited \cup Newest /\ rows'[Len(rows) + 1] = row
          /\ \A i \in Audited : rows'[i] = rows[i]
      BY RowSets DEF Audited, InSide
    <3>6. CASE x = NoId
      BY <2>1, <3>1, <3>2, <3>4, <3>5, <3>6 DEF RememberLabel, Newest
    <3>7. CASE x # NoId
      <4>1. PICK g : g = labels'[kind]
        OBVIOUS
      <4>2. /\ DOMAIN g = DOMAIN f \cup {x} /\ \A y \in DOMAIN f \ {x} : g[y] = f[y]
            /\ g[x] = IF x \in DOMAIN f /\ f[x] # v THEN "" ELSE v
        BY <3>4, <3>7, <4>1 DEF RememberLabel
      <4>3. ASSUME NEW i \in Audited', IdOf(rows'[i], kind) # NoId
            PROVE  IdOf(rows'[i], kind) \in DOMAIN g /\ g[IdOf(rows'[i], kind)] \in {"", Spelling(rows'[i], kind)}
        <5>1. CASE i \in Newest
          <6>1. rows'[i] = row
            BY <3>5, <5>1 DEF Newest
          <6>2. QED
            BY <3>2, <3>3, <4>2, <6>1
        <5>2. CASE i \in Audited
          <6>1. rows'[i] = rows[i] /\ IdOf(rows[i], kind) # NoId
            BY <3>5, <4>3, <5>2
          <6>2. /\ IdOf(rows[i], kind) \in DOMAIN f
                /\ f[IdOf(rows[i], kind)] \in {"", Spelling(rows[i], kind)}
            BY <2>1, <2>3, <3>1, <5>2, <6>1
          <6>3. QED
            BY <4>2, <6>1, <6>2
        <5>3. QED
          BY <3>5, <4>3, <5>1, <5>2
      <4>4. NoId \notin DOMAIN g
        BY <2>1, <3>1, <3>7, <4>2
      <4>5. QED
        BY <2>3, <4>1, <4>3, <4>4
    <3>8. QED
      BY <3>6, <3>7
  <2>4. QED
    BY <2>2, <2>3
<1>7. DOMAIN labels' = Kinds /\ ids' \in [Kinds -> Seq(Ids)]
  BY <1>2, <1>4
<1>8. ASSUME NEW kind \in Kinds PROVE LabelKept(kind)'
  <2>1. Labelled(kind)' <=> Labelled(kind)
    BY <1>3 DEF Labelled, ShowLabels
  <2>2. \A i : IdOf(rows[i], kind)' = IdOf(rows'[i], kind) /\ Spelling(rows[i], kind)' = Spelling(rows'[i], kind)
    BY <1>3 DEF IdOf, Spelling
  <2>3. QED
    BY <1>6, <2>1, <2>2 DEF LabelKept
<1>9. QED
  BY <1>5, <1>7, <1>8 DEF LabelsOK

\* Every step keeps labels faithful.
LEMMA LabelsNext == RowsOK /\ LabelsOK /\ [Next]_vars => LabelsOK'
<1> SUFFICES ASSUME RowsOK, LabelsOK, [Next]_vars, opts'.command = "investigate", pc' # "error", opts'.audit
             PROVE  LabelsOK'
  BY DEF LabelsOK, Investigated
<1>1. opts' = opts /\ opts.command = "investigate" /\ opts.audit /\ pc # "error" /\ Investigated
  BY RowsNext, InvestigationSteps DEF Investigated
<1>2. ASSUME Audited' = Audited, \A i \in Audited : rows'[i] = rows[i], UNCHANGED <<ids, labels, cells>>
      PROVE  LabelsOK'
  <2>1. \A kind : Labelled(kind)' <=> Labelled(kind)
    BY <1>1 DEF Labelled, ShowLabels
  <2>2. \A i, kind : IdOf(rows[i], kind)' = IdOf(rows'[i], kind) /\ Spelling(rows[i], kind)' = Spelling(rows'[i], kind)
    BY <1>1 DEF IdOf, Spelling
  <2>3. ASSUME NEW kind \in Kinds PROVE LabelKept(kind)'
    <3>1. LabelKept(kind)
      BY <1>1 DEF LabelsOK
    <3>2. /\ NoId \notin DOMAIN labels'[kind]
          /\ ~Labelled(kind) => DOMAIN labels'[kind] = {}
      BY <1>2, <3>1 DEF LabelKept
    <3>3. ASSUME NEW i \in Audited', Labelled(kind), IdOf(rows'[i], kind) # NoId
          PROVE  /\ IdOf(rows'[i], kind) \in DOMAIN labels'[kind]
                 /\ labels'[kind][IdOf(rows'[i], kind)] \in {"", Spelling(rows'[i], kind)}
      <4>1. i \in Audited /\ rows'[i] = rows[i] /\ labels' = labels
        BY <1>2, <3>3
      <4>2. QED
        BY <3>1, <3>3, <4>1 DEF LabelKept
    <3>4. QED
      BY <2>1, <2>2, <3>2, <3>3 DEF LabelKept
  <2>4. ids \in [Kinds -> Seq(Ids)] /\ DOMAIN labels = Kinds
        /\ \A k \in DOMAIN cells : k[3] # NoId => \E i \in DOMAIN ids["model"] : ids["model"][i] = k[3]
    BY <1>1 DEF LabelsOK
  <2>5. QED
    BY <1>2, <2>3, <2>4 DEF LabelsOK
<1>3. CASE Idle \/ UNCHANGED <<rows, auditVars>>
  <2>1. Audited' = Audited
    BY <1>1, <1>3 DEF Idle, Audited, InSide, SideOf, Inside, Match, Identity, TextState
  <2>2. rows' = rows /\ UNCHANGED <<ids, labels, cells>>
    BY <1>3 DEF Idle, auditVars
  <2>3. QED
    BY <1>2, <2>1, <2>2
<1>4. ASSUME NEW row \in Stream, Grows(row), ~AuditedRow(row), UNCHANGED <<ids, labels, cells>>
      PROVE  LabelsOK'
  <2>1. Audited' = Audited /\ \A i \in DOMAIN rows : rows'[i] = rows[i]
    BY <1>4, RowSets
  <2>2. \A i \in Audited : rows'[i] = rows[i]
    BY <2>1 DEF Audited, InSide
  <2>3. QED
    BY <1>2, <1>4, <2>1, <2>2
<1>5. ASSUME NEW row \in Stream, Counts(row) PROVE LabelsOK'
  <2>1. Grows(row)
    BY <1>5 DEF Counts
  <2>2. QED
    BY <1>1, <1>4, <1>5, <2>1, AuditStep, LabelsAdded
<1>6. ASSUME NEW row \in Stream, Passes(row) PROVE LabelsOK'
  <2>1. Grows(row) /\ ~AuditedRow(row) /\ UNCHANGED <<ids, labels, cells>>
    BY <1>6 DEF Passes, AuditedRow, auditVars
  <2>2. QED
    BY <1>4, <2>1
<1>7. QED
  BY <1>1, <1>3, <1>5, <1>6, InvestigationSteps

\* The alias of a model is its number in the register, that of an unknown model
\* is zero: no two are the same.
LEMMA AliasesDiffer ==
    ASSUME LabelsOK, Investigated, opts.audit, NEW k1 \in DOMAIN cells, NEW k2 \in DOMAIN cells, k1[3] # k2[3]
    PROVE  Alias("model", k1[3]) # Alias("model", k2[3])
<1>1. /\ ids["model"] \in Seq(Ids)
      /\ \A k \in DOMAIN cells : k[3] # NoId => \E i \in DOMAIN ids["model"] : ids["model"][i] = k[3]
  BY DEF LabelsOK, Kinds
<1>2. \A k \in DOMAIN cells : k[3] # NoId =>
         Alias("model", k[3]) \in DOMAIN ids["model"] /\ ids["model"][Alias("model", k[3])] = k[3]
  BY <1>1 DEF Alias
<1>3. 0 \notin DOMAIN ids["model"]
  BY <1>1
<1>4. Alias("model", NoId) = 0
  BY DEF Alias
<1>5. QED
  BY <1>2, <1>3, <1>4

\* For every export, all options and all limits, in each state: the names of two
\* models that are shown differ, and a label is the one spelling that all
\* records of its identity have.
THEOREM LabelsAreFaithful == Spec => []LabelsFaithful
<1>1. Init => RowsOK /\ LabelsOK
  BY RowsNext, LabelsInit
<1>2. RowsOK /\ LabelsOK /\ [Next]_vars => (RowsOK /\ LabelsOK)'
  BY RowsNext, LabelsNext
<1>3. RowsOK /\ LabelsOK => LabelsFaithful
  <2> SUFFICES ASSUME LabelsOK, Auditing PROVE LabelsFaithful
    BY DEF LabelsFaithful
  <2>1. Investigated /\ opts.audit
    BY DEF Auditing, Investigated
  <2>2. ASSUME NEW k1 \in ShownCells, NEW k2 \in ShownCells, k1[3] # k2[3]
        PROVE  Item(k1[3]) # Item(k2[3])
    <3>1. Alias("model", k1[3]) # Alias("model", k2[3])
      BY <2>1, <2>2, AliasesDiffer DEF ShownCells
    <3>2. CASE Public(k1[3]) = "" /\ Public(k2[3]) = ""
      BY <3>1, <3>2 DEF Item
    <3>3. CASE Public(k1[3]) # Public(k2[3])
      <4>1. Item(k1[3])[1] = Public(k1[3]) /\ Item(k2[3])[1] = Public(k2[3])
        BY DEF Item
      <4>2. QED
        BY <3>3, <4>1
    <3>4. CASE Public(k1[3]) = Public(k2[3]) /\ Public(k1[3]) # ""
      <4>1. /\ k1[3] \in DOMAIN labels["model"] /\ k2[3] \in DOMAIN labels["model"]
            /\ labels["model"][k1[3]] = Public(k1[3]) /\ labels["model"][k2[3]] = Public(k2[3])
        BY <3>4 DEF Public
      <4>2. Item(k1[3])[2] = Alias("model", k1[3]) /\ Item(k2[3])[2] = Alias("model", k2[3])
        BY <2>2, <3>4, <4>1 DEF Item
      <4>3. QED
        BY <3>1, <4>2
    <3>5. QED
      BY <3>2, <3>3, <3>4
  <2>3. ASSUME NEW kind \in Kinds, NEW id \in DOMAIN labels[kind], labels[kind][id] # "",
               NEW i \in Audited, IdOf(rows[i], kind) = id
        PROVE  labels[kind][id] = IF kind = "model" THEN rows[i].public ELSE rows[i][kind]
    BY <2>1, <2>3 DEF LabelsOK, LabelKept, Spelling
  <2>4. QED
    BY <2>2, <2>3 DEF LabelsFaithful
<1>4. QED
  BY <1>1, <1>2, <1>3, PTL DEF Spec
-----------------------------------------------------------------------------
(* Field states, call types and the scope of all records of a period.       *)

FieldCounts == [Sides -> [Fields -> [States -> Nat]]]
Fourfold(part, s, f) == part[s][f]["known"] + part[s][f]["absent"] + part[s][f]["empty"] + part[s][f]["invalid"]
RawCounts == [{"overhead", "other"} -> [Sides -> [requests: Nat, spend: Nat, costless: Nat]]]
InScopeOf(s) == IF opts.scope = NoId THEN Cardinality(InSide(s)) ELSE scoped[s].matched

ClassesOK ==
    Investigated /\ Observed =>
      /\ fields \in [CallTypes \cup {"all"} -> FieldCounts]
      /\ scoped \in [Sides -> [matched: Nat, nonmatching: Nat, unknown: Nat]] /\ raw \in RawCounts
      /\ \A s \in Sides :
           /\ \A f \in Fields : Fourfold(fields["all"], s, f) = Cardinality(InSide(s))
           /\ fields["chat"][s]["route"]["known"] + fields["pass"][s]["route"]["known"]
              + fields["other"][s]["route"]["known"] = fields["all"][s]["route"]["known"]
           /\ opts.scope # NoId =>
                scoped[s].matched + scoped[s].nonmatching + scoped[s].unknown = Cardinality(InSide(s))
           /\ opts.audit => totals[s]["requests"] + raw["overhead"][s].requests + raw["other"][s].requests
                            = InScopeOf(s)

\* A record is seen once, in one state of each field.
LEMMA SeenOnce ==
    ASSUME NEW part \in FieldCounts, NEW row \in Stream, NEW s \in Sides
    PROVE  /\ Seen(part, row, s) \in FieldCounts
           /\ \A x \in Sides, f \in Fields, z \in States :
                 Seen(part, row, s)[x][f][z] = part[x][f][z] + IF x = s /\ z = FieldState(row, f) THEN 1 ELSE 0
           /\ \A x \in Sides, f \in Fields :
                 Fourfold(Seen(part, row, s), x, f) = Fourfold(part, x, f) + IF x = s THEN 1 ELSE 0
<1>1. \A f \in Fields : FieldState(row, f) \in States
  <2>1. row.fallback \in {"absent", "empty", "invalid", "zero", "positive"}
    BY WorthType DEF RowFields
  <2>2. QED
    BY <2>1 DEF FieldState, TextState, States
<1>2. PICK p : p = Seen(part, row, s)
  OBVIOUS
<1>3. PICK q : q = [f \in Fields |-> [z \in States |-> part[s][f][z] + One(z = FieldState(row, f))]]
  OBVIOUS
<1>4. p = [part EXCEPT ![s] = q]
  BY <1>2, <1>3 DEF Seen, FieldCounts
<1>5. ASSUME NEW f \in Fields
      PROVE  /\ q[f] \in [States -> Nat]
             /\ \A z \in States : q[f][z] = part[s][f][z] + IF z = FieldState(row, f) THEN 1 ELSE 0
  <2>1. part[s][f] \in [States -> Nat]
    BY DEF FieldCounts
  <2>2. q[f] = [z \in States |-> part[s][f][z] + One(z = FieldState(row, f))]
    BY <1>3
  <2>3. QED
    BY <1>1, <2>1, <2>2 DEF One
<1>6. q \in [Fields -> [States -> Nat]]
  BY <1>3, <1>5
<1>7. p \in FieldCounts
  BY <1>4, <1>6 DEF FieldCounts
<1>8. \A x \in Sides, f \in Fields, z \in States :
         p[x][f][z] = part[x][f][z] + IF x = s /\ z = FieldState(row, f) THEN 1 ELSE 0
  <2>1. TAKE x \in Sides, f \in Fields, z \in States
  <2>2. part[x][f][z] \in Nat
    BY DEF FieldCounts
  <2>3. p[x] = IF x = s THEN q ELSE part[x]
    BY <1>4 DEF FieldCounts
  <2>4. QED
    BY <1>5, <2>2, <2>3
<1>9. \A x \in Sides, f \in Fields : Fourfold(p, x, f) = Fourfold(part, x, f) + IF x = s THEN 1 ELSE 0
  <2>1. TAKE x \in Sides, f \in Fields
  <2>2. \A z \in States : part[x][f][z] \in Nat
    BY DEF FieldCounts
  <2>3. \A z \in States : p[x][f][z] = part[x][f][z] + IF x = s /\ z = FieldState(row, f) THEN 1 ELSE 0
    BY <1>8
  <2>4. FieldState(row, f) \in States
    BY <1>1
  <2>5. QED
    BY <2>2, <2>3, <2>4 DEF Fourfold, States
<1>10. QED
  BY <1>2, <1>7, <1>8, <1>9

\* A scope decides between three outcomes.
LEMMA MatchType == \A row : Match(row) \in {"matched", "nonmatching", "unknown"} /\ (opts.scope = NoId => Match(row) = "matched")
  BY DEF Match

\* A period gains a record.
LEMMA PeriodGains ==
    ASSUME RowsOK, NEW row, Grows(row), NEW s \in Sides
    PROVE  /\ Cardinality(InSide(s)) \in Nat
           /\ Cardinality(InSide(s)') = Cardinality(InSide(s)) + IF SideOf(row.t) = s THEN 1 ELSE 0
<1>1. InSide(s)' = InSide(s) \cup IF SideOf(row.t) = s THEN Newest ELSE {}
  BY RowSets
<1>2. InSide(s) \subseteq DOMAIN rows /\ DOMAIN rows \cap Newest = {} /\ DOMAIN rows = 1..Len(rows) /\ Len(rows) \in Nat
  BY RowSets DEF InSide, RowsOK
<1>3. IsFiniteSet(InSide(s)) /\ Len(rows) + 1 \notin InSide(s)
  <2>1. IsFiniteSet(1..Len(rows))
    BY <1>2, FS_Interval
  <2>2. IsFiniteSet(InSide(s))
    BY <1>2, <2>1, FS_Subset
  <2>3. QED
    BY <1>2, <2>2 DEF Newest
<1>4. Cardinality(InSide(s) \cup {Len(rows) + 1}) = Cardinality(InSide(s)) + 1 /\ Cardinality(InSide(s)) \in Nat
  BY <1>3, FS_AddElement, FS_CardinalityType
<1>5. CASE SideOf(row.t) = s
  BY <1>1, <1>4, <1>5 DEF Newest
<1>6. CASE SideOf(row.t) # s
  <2>1. InSide(s)' = InSide(s)
    BY <1>1, <1>6
  <2>2. QED
    BY <1>4, <1>6, <2>1
<1>7. QED
  BY <1>5, <1>6

\* No record has been classified at first.
LEMMA ClassesInit == Init => ClassesOK
<1> SUFFICES ASSUME Init PROVE ClassesOK
  OBVIOUS
<1>1. /\ fields = [y \in CallTypes \cup {"all"} |-> [s \in Sides |-> [f \in Fields |-> [z \in States |-> 0]]]]
      /\ scoped = [s \in Sides |-> [matched |-> 0, nonmatching |-> 0, unknown |-> 0]]
      /\ raw = [c \in {"overhead", "other"} |-> [s \in Sides |-> [requests |-> 0, spend |-> 0, costless |-> 0]]]
      /\ totals = Zero /\ rows = <<>>
  BY DEF Init, AuditInit
<1>2. \A s \in Sides : InSide(s) = {}
  BY <1>1 DEF InSide
<1>3. \A s \in Sides : Cardinality(InSide(s)) = 0 /\ totals[s]["requests"] = 0
  BY <1>1, <1>2, FS_EmptySet, ZeroWindow DEF Measures
<1>4. /\ fields \in [CallTypes \cup {"all"} -> FieldCounts]
      /\ scoped \in [Sides -> [matched: Nat, nonmatching: Nat, unknown: Nat]] /\ raw \in RawCounts
  BY <1>1 DEF FieldCounts, RawCounts
<1>5. \A y \in CallTypes \cup {"all"}, s \in Sides, f \in Fields, z \in States : fields[y][s][f][z] = 0
  BY <1>1
<1>6. /\ \A s \in Sides, f \in Fields : Fourfold(fields["all"], s, f) = 0
      /\ \A s \in Sides, y \in CallTypes \cup {"all"} : fields[y][s]["route"]["known"] = 0
  BY <1>5 DEF Fourfold, States, Fields
<1>7. \A s \in Sides : /\ scoped[s].matched = 0 /\ scoped[s].nonmatching = 0 /\ scoped[s].unknown = 0
                       /\ raw["overhead"][s].requests = 0 /\ raw["other"][s].requests = 0
  BY <1>1
<1>8. QED
  BY <1>3, <1>4, <1>6, <1>7 DEF ClassesOK, InScopeOf, CallTypes

\* What a record of a step does to the classes.
LEMMA ClassStep ==
    ASSUME Observed, NEW row \in Stream, Counts(row), ClassesOK, Investigated
    PROVE  LET s == SideOf(row.t) IN
           /\ s \in Sides
           /\ \A y \in CallTypes \cup {"all"} :
                 fields'[y] = IF y \in {"all", row.type} THEN Seen(fields[y], row, s) ELSE fields[y]
           /\ DOMAIN fields' = CallTypes \cup {"all"}
           /\ scoped' = IF opts.scope = NoId THEN scoped ELSE [scoped EXCEPT ![s][Match(row)] = @ + 1]
           /\ opts.audit =>
                \/ /\ Match(row) = "matched" /\ totals' = Plus(totals, s, Worth(row)) /\ raw' = raw
                \/ /\ Match(row) = "matched" /\ totals' = totals
                   /\ \E c \in {"overhead", "other"} :
                        raw' = [raw EXCEPT ![c][s] =
                                   [requests |-> @.requests + 1, spend |-> @.spend + Usable(row.cost),
                                    costless |-> @.costless + One(row.cost = -1)]]
                \/ Match(row) # "matched" /\ totals' = totals /\ raw' = raw
           /\ raw' \in RawCounts
<1> DEFINE s == SideOf(row.t)
<1>1. s \in Sides
  BY DEF Counts, SideOf, Sides
<1>2. Account(row, s) /\ fields \in [CallTypes \cup {"all"} -> FieldCounts] /\ raw \in RawCounts
  BY DEF Counts, ClassesOK
<1> HIDE DEF s
<1>3. /\ fields' = [y \in DOMAIN fields |->
                       IF y \in {"all", row.type} THEN Seen(fields[y], row, s) ELSE fields[y]]
      /\ scoped' = IF opts.scope = NoId THEN scoped ELSE [scoped EXCEPT ![s][Match(row)] = @ + 1]
  BY <1>2 DEF Account, Observe
<1>4. InScope(row) <=> Match(row) = "matched"
  BY DEF InScope
<1>5. Usable(row.cost) \in Nat /\ One(row.cost = -1) \in Nat
  <2>1. row.cost \in Nat \cup {-1}
    BY WorthType DEF RowFields
  <2>2. QED
    BY <2>1 DEF Usable, One
<1>6. CASE InScope(row) /\ opts.audit /\ Supported(row)
  BY <1>1, <1>2, <1>3, <1>4, <1>6 DEF Account, AuditAdd, AddCell, s
<1>7. CASE InScope(row) /\ opts.audit /\ ~Supported(row)
  <2>1. PICK c \in {"overhead", "other"} :
           raw' = [raw EXCEPT ![c][s] = [requests |-> @.requests + 1, spend |-> @.spend + Usable(row.cost),
                                         costless |-> @.costless + One(row.cost = -1)]]
    <3>1. AddRaw(row, s)
      BY <1>2, <1>7 DEF Account, AuditAdd
    <3>2. QED
      BY <3>1 DEF AddRaw
  <2>2. totals' = totals
    BY <1>2, <1>7 DEF Account, AuditAdd, AddRaw
  <2>3. PICK q \in [requests: Nat, spend: Nat, costless: Nat] :
           q = [requests |-> raw[c][s].requests + 1, spend |-> raw[c][s].spend + Usable(row.cost),
                costless |-> raw[c][s].costless + One(row.cost = -1)]
    <3>1. raw[c][s] \in [requests: Nat, spend: Nat, costless: Nat]
      BY <1>1, <1>2 DEF RawCounts
    <3>2. raw[c][s].requests + 1 \in Nat /\ raw[c][s].spend + Usable(row.cost) \in Nat
          /\ raw[c][s].costless + One(row.cost = -1) \in Nat
      BY <1>5, <3>1
    <3>3. QED
      BY <3>2
  <2>4. raw' = [raw EXCEPT ![c][s] = q]
    BY <2>1, <2>3
  <2>5. raw' \in RawCounts
    BY <1>1, <1>2, <2>4 DEF RawCounts
  <2>6. QED
    BY <1>1, <1>2, <1>3, <1>4, <1>7, <2>1, <2>2, <2>5 DEF s
<1>8. CASE ~InScope(row) \/ ~opts.audit
  <2>1. raw' = raw /\ (~InScope(row) => totals' = totals)
    BY <1>2, <1>8 DEF Account, AuditAdd
  <2>2. QED
    BY <1>1, <1>2, <1>3, <1>4, <1>8, <2>1 DEF s
<1>9. QED
  BY <1>6, <1>7, <1>8

\* A record that is classified joins each sum once.
LEMMA ClassesAdded ==
    ASSUME RowsOK, WindowsOK, RoutingOK, ClassesOK, Investigated, Observed, NEW row \in Stream, Counts(row)
    PROVE  ClassesOK'
<1>1. PICK s \in Sides : s = SideOf(row.t)
  BY ClassStep
<1>2. /\ \A y \in CallTypes \cup {"all"} :
            fields'[y] = IF y \in {"all", row.type} THEN Seen(fields[y], row, s) ELSE fields[y]
      /\ scoped' = IF opts.scope = NoId THEN scoped ELSE [scoped EXCEPT ![s][Match(row)] = @ + 1]
      /\ raw' \in RawCounts
  BY <1>1, ClassStep
<1>3. DOMAIN fields' = CallTypes \cup {"all"}
  BY ClassStep
<1>4. /\ fields \in [CallTypes \cup {"all"} -> FieldCounts]
      /\ scoped \in [Sides -> [matched: Nat, nonmatching: Nat, unknown: Nat]] /\ raw \in RawCounts
      /\ \A x \in Sides :
           /\ \A f \in Fields : Fourfold(fields["all"], x, f) = Cardinality(InSide(x))
           /\ fields["chat"][x]["route"]["known"] + fields["pass"][x]["route"]["known"]
              + fields["other"][x]["route"]["known"] = fields["all"][x]["route"]["known"]
           /\ opts.scope # NoId =>
                scoped[x].matched + scoped[x].nonmatching + scoped[x].unknown = Cardinality(InSide(x))
           /\ opts.audit => totals[x]["requests"] + raw["overhead"][x].requests + raw["other"][x].requests
                            = InScopeOf(x)
  BY DEF ClassesOK
<1>5. row.type \in CallTypes /\ Grows(row) /\ opts' = opts
  BY WorthType DEF RowFields, CallTypes, Counts, Grows
<1>6. \A x \in Sides : /\ Cardinality(InSide(x)) \in Nat
                       /\ Cardinality(InSide(x)') = Cardinality(InSide(x)) + IF x = s THEN 1 ELSE 0
  BY <1>1, <1>5, PeriodGains
<1>7. fields' \in [CallTypes \cup {"all"} -> FieldCounts]
  <2>1. \A y \in CallTypes \cup {"all"} : fields'[y] \in FieldCounts
    BY <1>2, <1>4, SeenOnce
  <2>2. fields' = [y \in CallTypes \cup {"all"} |-> fields'[y]]
    <3>1. fields' = [y \in DOMAIN fields |-> IF y \in {"all", row.type} THEN Seen(fields[y], row, SideOf(row.t)) ELSE fields[y]]
      BY DEF Counts, Account, Observe
    <3>2. QED
      BY <1>3, <3>1
  <2>3. QED
    BY <2>1, <2>2
<1>8. \A x \in Sides, f \in Fields : Fourfold(fields'["all"], x, f) = Cardinality(InSide(x)')
  <2>1. fields["all"] \in FieldCounts /\ fields'["all"] = Seen(fields["all"], row, s)
    BY <1>2, <1>4
  <2>2. \A x \in Sides, f \in Fields :
           Fourfold(Seen(fields["all"], row, s), x, f) = Fourfold(fields["all"], x, f) + IF x = s THEN 1 ELSE 0
    BY <2>1, SeenOnce
  <2>3. QED
    BY <1>4, <1>6, <2>1, <2>2
<1>9. ASSUME NEW x \in Sides
      PROVE  fields'["chat"][x]["route"]["known"] + fields'["pass"][x]["route"]["known"]
             + fields'["other"][x]["route"]["known"] = fields'["all"][x]["route"]["known"]
  <2> DEFINE gain == IF x = s /\ "known" = FieldState(row, "route") THEN 1 ELSE 0
  <2>1. ASSUME NEW y \in CallTypes \cup {"all"}
        PROVE  /\ fields[y][x]["route"]["known"] \in Nat
               /\ fields'[y][x]["route"]["known"]
                  = fields[y][x]["route"]["known"] + IF y \in {"all", row.type} THEN gain ELSE 0
    <3>1. fields[y] \in FieldCounts /\ "route" \in Fields /\ "known" \in States
      BY <1>4 DEF Fields, States
    <3>2. fields[y][x]["route"]["known"] \in Nat
      BY <3>1 DEF FieldCounts
    <3>3. Seen(fields[y], row, s)[x]["route"]["known"] = fields[y][x]["route"]["known"] + gain
      BY <3>1, SeenOnce
    <3>4. QED
      BY <1>2, <3>2, <3>3
  <2>2. gain \in Nat
    OBVIOUS
  <2> HIDE DEF gain
  <2>3. fields["chat"][x]["route"]["known"] + fields["pass"][x]["route"]["known"]
        + fields["other"][x]["route"]["known"] = fields["all"][x]["route"]["known"]
    BY <1>4
  <2>4. QED
    BY <1>5, <2>1, <2>2, <2>3 DEF CallTypes
<1>10. /\ scoped' \in [Sides -> [matched: Nat, nonmatching: Nat, unknown: Nat]]
       /\ opts.scope = NoId => scoped' = scoped /\ Match(row) = "matched"
       /\ opts.scope # NoId => \A x \in Sides :
            /\ scoped'[x].matched + scoped'[x].nonmatching + scoped'[x].unknown = Cardinality(InSide(x)')
            /\ scoped'[x].matched = scoped[x].matched + IF x = s /\ Match(row) = "matched" THEN 1 ELSE 0
  <2>1. CASE opts.scope = NoId
    BY <1>2, <1>4, <2>1, MatchType
  <2>2. CASE opts.scope # NoId
    <3>1. PICK c \in [matched: Nat, nonmatching: Nat, unknown: Nat] : c = scoped[s]
      BY <1>4
    <3>2. PICK q : q = [c EXCEPT ![Match(row)] = @ + 1]
      OBVIOUS
    <3>3. scoped' = [scoped EXCEPT ![s] = q]
      BY <1>2, <1>4, <2>2, <3>1, <3>2
    <3>4. /\ q \in [matched: Nat, nonmatching: Nat, unknown: Nat]
          /\ q.matched + q.nonmatching + q.unknown = c.matched + c.nonmatching + c.unknown + 1
          /\ q.matched = c.matched + IF Match(row) = "matched" THEN 1 ELSE 0
      <4>1. CASE Match(row) = "matched"
        BY <3>2, <4>1
      <4>2. CASE Match(row) = "nonmatching"
        BY <3>2, <4>2
      <4>3. CASE Match(row) = "unknown"
        BY <3>2, <4>3
      <4>4. QED
        BY <4>1, <4>2, <4>3, MatchType
    <3>5. \A x \in Sides : scoped'[x] = IF x = s THEN q ELSE scoped[x]
      BY <1>4, <3>3
    <3>6. scoped' \in [Sides -> [matched: Nat, nonmatching: Nat, unknown: Nat]]
      BY <1>4, <3>3, <3>4
    <3>7. ASSUME NEW x \in Sides
          PROVE  /\ scoped'[x].matched + scoped'[x].nonmatching + scoped'[x].unknown = Cardinality(InSide(x)')
                 /\ scoped'[x].matched = scoped[x].matched + IF x = s /\ Match(row) = "matched" THEN 1 ELSE 0
      <4>1. scoped[x].matched + scoped[x].nonmatching + scoped[x].unknown = Cardinality(InSide(x))
            /\ scoped[x].matched \in Nat /\ Cardinality(InSide(x)) \in Nat
        BY <1>4, <1>6, <2>2
      <4>2. CASE x = s
        BY <1>6, <3>1, <3>4, <3>5, <4>1, <4>2
      <4>3. CASE x # s
        BY <1>6, <3>5, <4>1, <4>3
      <4>4. QED
        BY <4>2, <4>3
    <3>8. QED
      BY <2>2, <3>6, <3>7
  <2>3. QED
    BY <2>1, <2>2
<1>11. ASSUME opts.audit, NEW x \in Sides
       PROVE  totals'[x]["requests"] + raw'["overhead"][x].requests + raw'["other"][x].requests = InScopeOf(x)'
  <2>1. totals \in Windows /\ totals[x]["requests"] \in Nat
    BY <1>11 DEF RoutingOK, WindowsOK, Windows, Measures
  <2>2. raw["overhead"][x].requests \in Nat /\ raw["other"][x].requests \in Nat
    BY <1>4 DEF RawCounts
  <2>3. totals[x]["requests"] + raw["overhead"][x].requests + raw["other"][x].requests = InScopeOf(x)
    BY <1>4, <1>11
  <2>4. InScopeOf(x)' = InScopeOf(x) + IF x = s /\ Match(row) = "matched" THEN 1 ELSE 0
    BY <1>5, <1>6, <1>10 DEF InScopeOf
  <2>5. totals'[x]["requests"] + raw'["overhead"][x].requests + raw'["other"][x].requests
        = totals[x]["requests"] + raw["overhead"][x].requests + raw["other"][x].requests
          + IF x = s /\ Match(row) = "matched" THEN 1 ELSE 0
    <3>1. CASE Match(row) = "matched" /\ totals' = Plus(totals, s, Worth(row)) /\ raw' = raw
      <4>1. Worth(row) \in [Measures -> Nat] /\ Worth(row)["requests"] = 1 /\ "requests" \in Measures
        BY WorthType DEF Measures
      <4>2. Plus(totals, s, Worth(row))[x]["requests"] = totals[x]["requests"] + IF x = s THEN 1 ELSE 0
        BY <2>1, <4>1, WindowGains
      <4>3. QED
        BY <2>1, <2>2, <3>1, <4>2
    <3>2. ASSUME Match(row) = "matched", totals' = totals, NEW c \in {"overhead", "other"},
                 raw' = [raw EXCEPT ![c][s] = [requests |-> @.requests + 1, spend |-> @.spend + Usable(row.cost),
                                               costless |-> @.costless + One(row.cost = -1)]]
          PROVE  raw'["overhead"][x].requests + raw'["other"][x].requests
                 = raw["overhead"][x].requests + raw["other"][x].requests + IF x = s THEN 1 ELSE 0
      <4>1. PICK q : q = [requests |-> raw[c][s].requests + 1, spend |-> raw[c][s].spend + Usable(row.cost),
                          costless |-> raw[c][s].costless + One(row.cost = -1)]
        OBVIOUS
      <4>2. raw' = [raw EXCEPT ![c][s] = q] /\ q.requests = raw[c][s].requests + 1
        BY <3>2, <4>1
      <4>3. \A e \in {"overhead", "other"} : raw'[e][x] = IF e = c /\ x = s THEN q ELSE raw[e][x]
        BY <1>4, <4>2 DEF RawCounts
      <4>4. QED
        BY <2>2, <4>2, <4>3
    <3>3. CASE Match(row) # "matched" /\ totals' = totals /\ raw' = raw
      BY <2>1, <2>2, <3>3
    <3>4. \/ Match(row) = "matched" /\ totals' = Plus(totals, s, Worth(row)) /\ raw' = raw
          \/ /\ Match(row) = "matched" /\ totals' = totals
             /\ \E c \in {"overhead", "other"} :
                  raw' = [raw EXCEPT ![c][s] = [requests |-> @.requests + 1, spend |-> @.spend + Usable(row.cost),
                                                costless |-> @.costless + One(row.cost = -1)]]
          \/ Match(row) # "matched" /\ totals' = totals /\ raw' = raw
      BY <1>1, <1>11, ClassStep
    <3>5. CASE Match(row) = "matched" /\ totals' = totals
               /\ \E c \in {"overhead", "other"} :
                    raw' = [raw EXCEPT ![c][s] = [requests |-> @.requests + 1, spend |-> @.spend + Usable(row.cost),
                                                  costless |-> @.costless + One(row.cost = -1)]]
      <4>1. raw'["overhead"][x].requests + raw'["other"][x].requests
            = raw["overhead"][x].requests + raw["other"][x].requests + IF x = s THEN 1 ELSE 0
        BY <3>2, <3>5
      <4>2. raw'["overhead"][x].requests \in Nat /\ raw'["other"][x].requests \in Nat
        BY <1>2 DEF RawCounts
      <4>3. QED
        BY <2>1, <2>2, <3>5, <4>1, <4>2
    <3>6. QED
      BY <3>1, <3>3, <3>4, <3>5
  <2>6. QED
    BY <2>3, <2>4, <2>5
<1>12. QED
  BY <1>2, <1>5, <1>7, <1>8, <1>9, <1>10, <1>11 DEF ClassesOK

\* Every step keeps the classes.
LEMMA ClassesNext == RowsOK /\ WindowsOK /\ RoutingOK /\ ClassesOK /\ [Next]_vars => ClassesOK'
<1> SUFFICES ASSUME RowsOK, WindowsOK, RoutingOK, ClassesOK, [Next]_vars, opts'.command = "investigate",
                    pc' # "error", Observed'
             PROVE  ClassesOK'
  BY DEF ClassesOK, Investigated
<1>1. opts' = opts /\ opts.command = "investigate" /\ Observed /\ Investigated
  BY RowsNext, InvestigationSteps DEF Investigated, Observed
<1>2. ASSUME \A s \in Sides : Cardinality(InSide(s)') = Cardinality(InSide(s)), UNCHANGED auditVars
      PROVE  ClassesOK'
  <2>1. fields' = fields /\ scoped' = scoped /\ raw' = raw /\ totals' = totals
    BY <1>2 DEF auditVars
  <2>2. \A s \in Sides : InScopeOf(s)' = InScopeOf(s)
    BY <1>1, <1>2, <2>1 DEF InScopeOf
  <2>3. QED
    BY <1>1, <1>2, <2>1, <2>2 DEF ClassesOK
<1>3. CASE Idle \/ UNCHANGED <<rows, auditVars>>
  <2>1. \A s : InSide(s)' = InSide(s)
    BY <1>1, <1>3 DEF Idle, InSide, SideOf, Inside
  <2>2. QED
    BY <1>2, <1>3, <2>1 DEF Idle
<1>4. ASSUME NEW row \in Stream, Passes(row) PROVE ClassesOK'
  <2>1. Grows(row) /\ UNCHANGED auditVars /\ SideOf(row.t) = 0
    BY <1>4 DEF Passes
  <2>2. \A s \in Sides : Cardinality(InSide(s)') = Cardinality(InSide(s))
    <3>1. TAKE s \in Sides
    <3>2. Cardinality(InSide(s)) \in Nat
          /\ Cardinality(InSide(s)') = Cardinality(InSide(s)) + IF SideOf(row.t) = s THEN 1 ELSE 0
      BY <2>1, PeriodGains
    <3>3. SideOf(row.t) # s
      BY <2>1 DEF Sides
    <3>4. QED
      BY <3>2, <3>3
  <2>3. QED
    BY <1>2, <2>1, <2>2
<1>5. QED
  BY <1>1, <1>3, <1>4, ClassesAdded, InvestigationSteps

\* A sum of four terms and one of three.
LEMMA SmallSums ==
    ASSUME NEW g, \A z \in States : g[z] \in Nat, NEW h, \A y \in CallTypes : h[y] \in Nat
    PROVE  /\ SumFunctionOnSet(g, States) = g["known"] + g["absent"] + g["empty"] + g["invalid"]
           /\ SumFunctionOnSet(h, CallTypes) = h["chat"] + h["pass"] + h["other"]
<1>1. /\ g["known"] \in Nat /\ g["absent"] \in Nat /\ g["empty"] \in Nat /\ g["invalid"] \in Nat
      /\ h["chat"] \in Nat /\ h["pass"] \in Nat /\ h["other"] \in Nat
  BY DEF States, CallTypes
<1>2. IsFiniteSet({"known"}) /\ IsFiniteSet({"known"} \cup {"absent"}) /\ IsFiniteSet(({"known"} \cup {"absent"}) \cup {"empty"})
      /\ IsFiniteSet({"chat"}) /\ IsFiniteSet({"chat"} \cup {"pass"})
  BY FS_Singleton, FS_AddElement
<1>3. SumFunctionOnSet(g, {"known"}) = g["known"] /\ SumFunctionOnSet(h, {"chat"}) = h["chat"]
  BY <1>1, <1>2, SumOne
<1>4. SumFunctionOnSet(g, {"known"} \cup {"absent"}) = g["absent"] + SumFunctionOnSet(g, {"known"})
  BY <1>1, <1>2, SumAdd
<1>5. SumFunctionOnSet(g, ({"known"} \cup {"absent"}) \cup {"empty"}) = g["empty"] + SumFunctionOnSet(g, {"known"} \cup {"absent"})
  BY <1>1, <1>2, SumAdd
<1>6. SumFunctionOnSet(g, (({"known"} \cup {"absent"}) \cup {"empty"}) \cup {"invalid"})
      = g["invalid"] + SumFunctionOnSet(g, ({"known"} \cup {"absent"}) \cup {"empty"})
  BY <1>1, <1>2, SumAdd
<1>7. SumFunctionOnSet(h, {"chat"} \cup {"pass"}) = h["pass"] + SumFunctionOnSet(h, {"chat"})
  BY <1>1, <1>2, SumAdd
<1>8. SumFunctionOnSet(h, ({"chat"} \cup {"pass"}) \cup {"other"}) = h["other"] + SumFunctionOnSet(h, {"chat"} \cup {"pass"})
  BY <1>1, <1>2, SumAdd
<1>9. (({"known"} \cup {"absent"}) \cup {"empty"}) \cup {"invalid"} = States /\ ({"chat"} \cup {"pass"}) \cup {"other"} = CallTypes
  BY DEF States, CallTypes
<1>10. SumFunctionOnSet(g, {"known"} \cup {"absent"}) = g["known"] + g["absent"]
  BY <1>1, <1>3, <1>4
<1>11. SumFunctionOnSet(g, ({"known"} \cup {"absent"}) \cup {"empty"}) = g["known"] + g["absent"] + g["empty"]
  BY <1>1, <1>5, <1>10
<1>12. SumFunctionOnSet(g, States) = g["known"] + g["absent"] + g["empty"] + g["invalid"]
  <2>1. SumFunctionOnSet(g, States) = g["invalid"] + SumFunctionOnSet(g, ({"known"} \cup {"absent"}) \cup {"empty"})
    BY <1>6, <1>9
  <2>2. QED
    BY <1>1, <1>11, <2>1
<1>13. SumFunctionOnSet(h, {"chat"} \cup {"pass"}) = h["chat"] + h["pass"]
  BY <1>1, <1>3, <1>7
<1>14. SumFunctionOnSet(h, CallTypes) = h["chat"] + h["pass"] + h["other"]
  <2>1. SumFunctionOnSet(h, CallTypes) = h["other"] + SumFunctionOnSet(h, {"chat"} \cup {"pass"})
    BY <1>8, <1>9
  <2>2. QED
    BY <1>1, <1>13, <2>1
<1>15. QED
  BY <1>12, <1>14

\* The classes are those that the property adds up.
LEMMA ClassesFollow == ClassesOK => EveryRowClassified
<1> SUFFICES ASSUME ClassesOK, opts.command = "investigate", Observed, pc \in {"rows", "ok"}, NEW s \in Sides
             PROVE  /\ \A f \in Fields :
                          SumFunctionOnSet([z \in States |-> fields["all"][s][f][z]], States) = Cardinality(InSide(s))
                    /\ SumFunctionOnSet([y \in CallTypes |-> fields[y][s]["route"]["known"]], CallTypes)
                       = fields["all"][s]["route"]["known"]
                    /\ opts.scope # NoId =>
                         scoped[s].matched + scoped[s].nonmatching + scoped[s].unknown = Cardinality(InSide(s))
                    /\ opts.audit => totals[s]["requests"] + raw["overhead"][s].requests + raw["other"][s].requests
                                     = (IF opts.scope = NoId THEN Cardinality(InSide(s)) ELSE scoped[s].matched)
  BY DEF EveryRowClassified, Total
<1>1. /\ fields \in [CallTypes \cup {"all"} -> FieldCounts]
      /\ \A f \in Fields : Fourfold(fields["all"], s, f) = Cardinality(InSide(s))
      /\ fields["chat"][s]["route"]["known"] + fields["pass"][s]["route"]["known"]
         + fields["other"][s]["route"]["known"] = fields["all"][s]["route"]["known"]
      /\ opts.scope # NoId =>
           scoped[s].matched + scoped[s].nonmatching + scoped[s].unknown = Cardinality(InSide(s))
      /\ opts.audit => totals[s]["requests"] + raw["overhead"][s].requests + raw["other"][s].requests
                       = InScopeOf(s)
  BY DEF ClassesOK, Investigated
<1>2. PICK h : h = [y \in CallTypes |-> fields[y][s]["route"]["known"]]
  OBVIOUS
<1>3. \A y \in CallTypes : h[y] \in Nat
  BY <1>1, <1>2 DEF FieldCounts, Fields, States
<1>4. ASSUME NEW f \in Fields
      PROVE  SumFunctionOnSet([z \in States |-> fields["all"][s][f][z]], States) = Cardinality(InSide(s))
  <2>1. PICK g : g = [z \in States |-> fields["all"][s][f][z]]
    OBVIOUS
  <2>2. \A z \in States : g[z] \in Nat
    BY <1>1, <2>1 DEF FieldCounts
  <2>3. SumFunctionOnSet(g, States) = g["known"] + g["absent"] + g["empty"] + g["invalid"]
    BY <1>3, <2>2, SmallSums
  <2>4. g["known"] + g["absent"] + g["empty"] + g["invalid"] = Fourfold(fields["all"], s, f)
    BY <2>1 DEF Fourfold, States
  <2>5. SumFunctionOnSet(g, States) = Cardinality(InSide(s))
    BY <1>1, <2>3, <2>4
  <2>6. QED
    BY <2>1, <2>5
<1>5. SumFunctionOnSet(h, CallTypes) = fields["all"][s]["route"]["known"]
  <2>1. PICK g : g = [z \in States |-> 0]
    OBVIOUS
  <2>2. \A z \in States : g[z] \in Nat
    BY <2>1
  <2>3. SumFunctionOnSet(h, CallTypes) = h["chat"] + h["pass"] + h["other"]
    BY <1>3, <2>2, SmallSums
  <2>4. QED
    BY <1>1, <1>2, <2>3 DEF CallTypes
<1>6. SumFunctionOnSet([y \in CallTypes |-> fields[y][s]["route"]["known"]], CallTypes) = fields["all"][s]["route"]["known"]
  BY <1>2, <1>5
<1>7. QED
  BY <1>1, <1>4, <1>6 DEF InScopeOf
-----------------------------------------------------------------------------
(* Daily and provider counts of all records of a period.                    *)

EntryFields == [sent: CountLines \cup {NoId}, rows: Nat, failed: Nat, unclear: Nat, input: Nat, output: Nat,
                noInput: BOOLEAN, noOutput: BOOLEAN]

\* What the records with the numbers in I have of a token field.
Used(R, I, f) == SumFunctionOnSet([i \in I |-> Usable(R[i][f])], I)
Mine(key) == {i \in LoggedRows(key[1]) : KeyOf(rows[i]) = key}

\* An entry is the account of its records.
EntryHolds(e, key) ==
    /\ e.rows = Cardinality(Mine(key))
    /\ e.input = Used(rows, Mine(key), "input") /\ e.output = Used(rows, Mine(key), "output")
    /\ e.noInput <=> \E i \in Mine(key) : rows[i].input = -1
    /\ e.noOutput <=> \E i \in Mine(key) : rows[i].output = -1

DaysOK ==
    Investigated =>
      /\ pc = "load" => rows = <<>>
      /\ pc # "load" /\ opts.daily # NoId =>
           DOMAIN exported = Days /\ \A d \in Days : exported[d] = Cardinality(LoggedRows(d))
      /\ pc # "load" /\ Counting =>
           /\ IsFiniteSet(DOMAIN entries) /\ \A key \in DOMAIN entries : entries[key] \in EntryFields
           /\ \A i \in DOMAIN rows : InPeriods(rows[i].t) => KeyOf(rows[i]) \in DOMAIN entries
           /\ \A key \in DOMAIN entries : EntryHolds(entries[key], key)
           /\ \A d \in Days : LoggedOn(d) = Cardinality(LoggedRows(d))

\* Tokens of a record that joins are counted once.
LEMMA UsedMore ==
    ASSUME NEW R \in Seq(Stream), NEW row \in Stream, NEW I \in SUBSET DOMAIN R, NEW f \in {"input", "output"}
    PROVE  /\ Usable(row[f]) \in Nat /\ Used(R, I, f) \in Nat
           /\ Used(Append(R, row), I, f) = Used(R, I, f)
           /\ Used(Append(R, row), I \cup {Len(R) + 1}, f) = Used(R, I, f) + Usable(row[f])
<1> DEFINE n == Len(R) + 1
           v == [i \in I |-> Usable(R[i][f])]
           u == [i \in I |-> Usable(Append(R, row)[i][f])]
           w == [i \in I \cup {n} |-> Usable(Append(R, row)[i][f])]
<1>1. /\ DOMAIN R = 1..Len(R) /\ Len(R) \in Nat /\ n \notin I /\ n \in Nat
      /\ \A i \in I : Append(R, row)[i] = R[i]
      /\ Append(R, row)[n] = row
  OBVIOUS
<1>2. IsFiniteSet(I)
  <2>1. IsFiniteSet(1..Len(R))
    BY <1>1, FS_Interval
  <2>2. QED
    BY <1>1, <2>1, FS_Subset
<1>3. (\A i \in I : v[i] \in Nat) /\ Usable(row[f]) \in Nat
  <2>1. \A r \in Stream : Usable(r[f]) \in Nat
    <3>1. TAKE r \in Stream
    <3>2. r.input \in Nat \cup {-1} /\ r.output \in Nat \cup {-1}
      BY WorthType DEF RowFields
    <3>3. r[f] \in Nat \cup {-1}
      BY <3>2
    <3>4. QED
      BY <3>3 DEF Usable
  <2>2. QED
    BY <2>1
<1>4. (\A i \in I : u[i] = v[i] /\ w[i] = v[i]) /\ w[n] = Usable(row[f])
  BY <1>1
<1>5. /\ Used(R, I, f) = SumFunctionOnSet(v, I) /\ Used(Append(R, row), I, f) = SumFunctionOnSet(u, I)
      /\ Used(Append(R, row), I \cup {n}, f) = SumFunctionOnSet(w, I \cup {n})
  BY DEF Used
<1> HIDE DEF n, v, u, w
<1>6. SumFunctionOnSet(v, I) \in Nat /\ SumFunctionOnSet(u, I) = SumFunctionOnSet(v, I)
  BY <1>2, <1>3, <1>4, SumType, SumSame
<1>7. MovesUp(v, w, I, n, Usable(row[f]))
  BY <1>1, <1>3, <1>4 DEF MovesUp
<1>8. SumFunctionOnSet(w, I \cup {n}) = SumFunctionOnSet(v, I) + Usable(row[f])
  BY <1>2, <1>3, <1>7, SumMove
<1>9. QED
  BY <1>2, <1>3, <1>5, <1>6, <1>8 DEF n

\* Loading the files makes one empty entry per line.
LEMMA CountsLoaded ==
    ASSUME RowsOK, DaysOK, Investigated, pc = "load", LoadCounts, ~(Counting /\ ProviderRefused),
           opts' = opts, rows' = rows, pc' = "rows"
    PROVE  DaysOK'
<1>1. rows = <<>>
  BY DEF DaysOK
<1>2. ASSUME NEW d PROVE LoggedRows(d)' = {} /\ Cardinality(LoggedRows(d)') = 0
  <2>1. LoggedRows(d)' = {}
    BY <1>1 DEF LoggedRows
  <2>2. QED
    BY <2>1, FS_EmptySet
<1>3. Days' = Days
  BY DEF Days, DaysOf
<1>4. opts.daily # NoId => exported' = [d \in Days |-> 0]
  BY DEF LoadCounts
<1>5. ASSUME Counting
      PROVE  /\ IsFiniteSet(DOMAIN entries') /\ \A key \in DOMAIN entries' : entries'[key] \in EntryFields
             /\ \A key \in DOMAIN entries' : EntryHolds(entries[key], key)'
             /\ \A d \in Days : LoggedOn(d)' = 0
  <2> DEFINE counts == opts.provider.counts
  <2>1. counts \in Seq(CountLines)
    BY <1>5, ProviderAssumption DEF RowsOK, Investigated, Counting
  <2> DEFINE K(i) == <<counts[i].day, counts[i].model, TRUE>>
             KK == {K(i) : i \in DOMAIN counts}
             Line(d, model) == CHOOSE i \in DOMAIN counts : counts[i].day = d /\ counts[i].model = model
  <2>2. entries' = [key \in KK |-> [NoEntry EXCEPT !.sent = counts[Line(key[1], key[2])]]]
    BY <1>5 DEF LoadCounts
  <2> HIDE DEF counts
  <2>3. \A key \in KK : counts[Line(key[1], key[2])] \in CountLines
    <3>1. TAKE key \in KK
    <3>2. \E i \in DOMAIN counts : counts[i].day = key[1] /\ counts[i].model = key[2]
      <4>1. PICK i \in DOMAIN counts : key = <<counts[i].day, counts[i].model, TRUE>>
        OBVIOUS
      <4>2. key[1] = counts[i].day /\ key[2] = counts[i].model
        BY <4>1
      <4>3. QED
        BY <4>2
    <3>3. Line(key[1], key[2]) \in DOMAIN counts
      BY <3>2
    <3>4. QED
      BY <2>1, <3>3
  <2>4. DOMAIN counts = 1..Len(counts) /\ Len(counts) \in Nat
    BY <2>1
  <2>5. IsFiniteSet(KK)
    <3>1. IsFiniteSet(DOMAIN counts)
      BY <2>4, FS_Interval
    <3>2. PICK k : k = [i \in DOMAIN counts |-> K(i)]
      OBVIOUS
    <3>3. KK = {k[i] : i \in DOMAIN counts}
      BY <3>2
    <3>4. QED
      BY <3>1, <3>3, ImageFinite
  <2> HIDE DEF KK, Line
  <2>6. \A key \in KK : /\ entries'[key] \in EntryFields
                        /\ entries'[key].rows = 0 /\ entries'[key].input = 0 /\ entries'[key].output = 0
                        /\ entries'[key].noInput = FALSE /\ entries'[key].noOutput = FALSE
    BY <2>2, <2>3 DEF NoEntry, EntryFields
  <2>7. DOMAIN entries' = KK
    BY <2>2
  <2>8. ASSUME NEW key \in KK PROVE EntryHolds(entries[key], key)'
    <3>1. Mine(key)' = {}
      BY <1>2 DEF Mine
    <3>2. \A f : Used(rows, Mine(key), f)' = 0
      <4>1. TAKE f
      <4>2. Used(rows, Mine(key), f)' = SumFunctionOnSet([i \in {} |-> Usable(rows'[i][f])], {})
        BY <3>1 DEF Used
      <4>3. QED
        BY <4>2, FS_EmptySet, SumStep
    <3>3. Cardinality(Mine(key)') = 0
      BY <3>1, FS_EmptySet
    <3>4. QED
      BY <2>6, <3>1, <3>2, <3>3 DEF EntryHolds
  <2>9. ASSUME NEW d \in Days PROVE LoggedOn(d)' = 0
    <3>1. PICK T : T = KeysOf(d)'
      OBVIOUS
    <3>2. T \subseteq KK
      BY <2>7, <3>1 DEF KeysOf
    <3>3. PICK g : g = [key \in T |-> entries'[key].rows]
      OBVIOUS
    <3>4. LoggedOn(d)' = SumFunctionOnSet(g, T)
      BY <3>1, <3>3 DEF LoggedOn, Total
    <3>5. IsFiniteSet(T) /\ \A x \in T : g[x] = 0
      BY <2>5, <2>6, <3>2, <3>3, FS_Subset
    <3>6. QED
      BY <3>4, <3>5, SumZero
  <2>10. QED
    BY <2>5, <2>6, <2>7, <2>8, <2>9
<1>6. Counting' <=> Counting
  BY DEF Counting
<1>7. DOMAIN rows' = {}
  BY <1>1
<1>8. /\ pc' # "load"
      /\ opts.daily # NoId => DOMAIN exported' = Days' /\ \A d \in Days' : exported'[d] = Cardinality(LoggedRows(d)')
  BY <1>2, <1>3, <1>4
<1>9. QED
  BY <1>2, <1>3, <1>5, <1>6, <1>7, <1>8 DEF DaysOK

\* A record of a period is logged on its day, and nowhere else.
LEMMA LoggedMore ==
    ASSUME RowsOK, NEW row, Grows(row), NEW d
    PROVE  /\ LoggedRows(d) \in SUBSET DOMAIN rows /\ IsFiniteSet(LoggedRows(d)) /\ Cardinality(LoggedRows(d)) \in Nat
           /\ LoggedRows(d)' = LoggedRows(d) \cup IF SideOf(row.t) # 0 /\ DayOf(row.t) = d THEN Newest ELSE {}
           /\ Cardinality(LoggedRows(d)') = Cardinality(LoggedRows(d)) + IF SideOf(row.t) # 0 /\ DayOf(row.t) = d THEN 1 ELSE 0
<1>1. /\ DOMAIN rows' = DOMAIN rows \cup Newest /\ DOMAIN rows \cap Newest = {}
      /\ \A i \in DOMAIN rows : rows'[i] = rows[i]
      /\ rows'[Len(rows) + 1] = row
  BY RowSets
<1>2. \A t : (InPeriods(t) <=> SideOf(t) # 0) /\ (InPeriods(t)' <=> InPeriods(t))
  BY DEF InPeriods, SideOf, Sides, Inside, Grows
<1>3. LoggedRows(d)' = LoggedRows(d) \cup IF SideOf(row.t) # 0 /\ DayOf(row.t) = d THEN Newest ELSE {}
  <2>1. LoggedRows(d)' = {i \in DOMAIN rows' : InPeriods(rows'[i].t) /\ DayOf(rows'[i].t) = d}
    BY <1>2 DEF LoggedRows, DayOf
  <2>2. QED
    BY <1>1, <1>2, <2>1 DEF LoggedRows, Newest
<1>4. LoggedRows(d) \in SUBSET DOMAIN rows
  BY DEF LoggedRows
<1>5. DOMAIN rows = 1..Len(rows) /\ Len(rows) \in Nat
  BY DEF RowsOK
<1>6. IsFiniteSet(LoggedRows(d)) /\ Cardinality(LoggedRows(d)) \in Nat
  <2>1. IsFiniteSet(1..Len(rows))
    BY <1>5, FS_Interval
  <2>2. QED
    BY <1>4, <1>5, <2>1, FS_Subset, FS_CardinalityType
<1>7. Cardinality(LoggedRows(d) \cup {Len(rows) + 1}) = Cardinality(LoggedRows(d)) + 1
  <2>1. Len(rows) + 1 \notin LoggedRows(d)
    BY <1>1, <1>4 DEF Newest
  <2>2. QED
    BY <1>6, <2>1, FS_AddElement
<1>8. CASE SideOf(row.t) # 0 /\ DayOf(row.t) = d
  BY <1>3, <1>4, <1>6, <1>7, <1>8 DEF Newest
<1>9. CASE ~(SideOf(row.t) # 0 /\ DayOf(row.t) = d)
  <2>1. LoggedRows(d)' = LoggedRows(d)
    BY <1>3, <1>9
  <2>2. QED
    BY <1>3, <1>4, <1>6, <1>9, <2>1
<1>10. QED
  BY <1>8, <1>9

\* A record that is logged under its key joins the records of that key alone.
LEMMA MineMore ==
    ASSUME RowsOK, NEW row, Grows(row), SideOf(row.t) # 0, UNCHANGED <<mapping, targets>>, NEW key
    PROVE  /\ Mine(key) \in SUBSET DOMAIN rows
           /\ Mine(key)' = Mine(key) \cup IF key = KeyOf(row) THEN Newest ELSE {}
<1>1. /\ LoggedRows(key[1]) \in SUBSET DOMAIN rows
      /\ LoggedRows(key[1])' = LoggedRows(key[1]) \cup IF DayOf(row.t) = key[1] THEN Newest ELSE {}
  BY LoggedMore
<1>2. /\ \A i \in DOMAIN rows : rows'[i] = rows[i]
      /\ rows'[Len(rows) + 1] = row
  BY RowSets
<1>3. \A r : KeyOf(r)' = KeyOf(r)
  BY DEF KeyOf
<1>4. KeyOf(row)[1] = DayOf(row.t)
  BY DEF KeyOf
<1>5. Mine(key)' = {i \in LoggedRows(key[1])' : KeyOf(rows'[i]) = key}
  BY <1>3 DEF Mine, KeyOf
<1>6. QED
  BY <1>1, <1>2, <1>4, <1>5 DEF Mine, Newest

\* The entry of a record after it.
Logs(e, row) == [e EXCEPT !.rows = @ + 1,
                          !.failed = @ + One(row.status = "failure"),
                          !.unclear = @ + One(row.status = "unknown"),
                          !.input = @ + Usable(row.input), !.noInput = @ \/ row.input = -1,
                          !.output = @ + Usable(row.output), !.noOutput = @ \/ row.output = -1]

\* An entry that logs a record counts it, with its tokens.
LEMMA LogsType ==
    ASSUME NEW e \in EntryFields, NEW row \in Stream
    PROVE  /\ Logs(e, row) \in EntryFields
           /\ Logs(e, row).rows = e.rows + 1
           /\ Logs(e, row).input = e.input + Usable(row.input) /\ Logs(e, row).output = e.output + Usable(row.output)
           /\ Logs(e, row).noInput <=> e.noInput \/ row.input = -1
           /\ Logs(e, row).noOutput <=> e.noOutput \/ row.output = -1
           /\ Logs(e, row).sent = e.sent
<1>1. PICK f1 \in Nat : f1 = e.failed + One(row.status = "failure")
  BY DEF EntryFields, One
<1>2. PICK f2 \in Nat : f2 = e.unclear + One(row.status = "unknown")
  BY DEF EntryFields, One
<1>3. row.input \in Nat \cup {-1} /\ row.output \in Nat \cup {-1}
  BY WorthType DEF RowFields
<1>4. PICK f3 \in Nat : f3 = e.input + Usable(row.input)
  BY <1>3 DEF EntryFields, Usable
<1>5. PICK f4 \in Nat : f4 = e.output + Usable(row.output)
  BY <1>3 DEF EntryFields, Usable
<1>6. PICK b1 \in BOOLEAN : b1 = (e.noInput \/ row.input = -1)
  OBVIOUS
<1>7. PICK b2 \in BOOLEAN : b2 = (e.noOutput \/ row.output = -1)
  OBVIOUS
<1>8. PICK f0 \in Nat : f0 = e.rows + 1
  BY DEF EntryFields
<1>9. Logs(e, row) = [e EXCEPT !.rows = f0, !.failed = f1, !.unclear = f2, !.input = f3, !.noInput = b1,
                               !.output = f4, !.noOutput = b2]
  BY <1>1, <1>2, <1>4, <1>5, <1>6, <1>7, <1>8, Zenon DEF Logs
<1>10. PICK q : q = Logs(e, row)
  OBVIOUS
<1>11. /\ q \in EntryFields /\ q.sent = e.sent /\ q.rows = f0 /\ q.input = f3 /\ q.output = f4
       /\ q.noInput = b1 /\ q.noOutput = b2
  BY <1>9, <1>10 DEF EntryFields
<1>12. (q.noInput <=> e.noInput \/ row.input = -1) /\ (q.noOutput <=> e.noOutput \/ row.output = -1)
  BY <1>6, <1>7, <1>11
<1>13. QED
  BY <1>4, <1>5, <1>8, <1>10, <1>11, <1>12

\* The account of a key gains its record, and no other.
LEMMA EntryMore ==
    ASSUME RowsOK, NEW row, Grows(row), SideOf(row.t) # 0, UNCHANGED <<mapping, targets>>, NEW key,
           NEW e \in EntryFields, EntryHolds(e, key)
    PROVE  /\ key = KeyOf(row) => /\ Logs(e, row).rows = Cardinality(Mine(key)')
                                  /\ Logs(e, row).input = Used(rows', Mine(key)', "input")
                                  /\ Logs(e, row).output = Used(rows', Mine(key)', "output")
                                  /\ Logs(e, row).noInput <=> \E i \in Mine(key)' : rows'[i].input = -1
                                  /\ Logs(e, row).noOutput <=> \E i \in Mine(key)' : rows'[i].output = -1
           /\ key # KeyOf(row) => /\ e.rows = Cardinality(Mine(key)')
                                  /\ e.input = Used(rows', Mine(key)', "input")
                                  /\ e.output = Used(rows', Mine(key)', "output")
                                  /\ e.noInput <=> \E i \in Mine(key)' : rows'[i].input = -1
                                  /\ e.noOutput <=> \E i \in Mine(key)' : rows'[i].output = -1
<1>1. PICK I \in SUBSET DOMAIN rows : I = Mine(key)
  BY MineMore
<1>2. Mine(key)' = I \cup IF key = KeyOf(row) THEN Newest ELSE {}
  BY <1>1, MineMore
<1>3. rows \in Seq(Stream) /\ row \in Stream /\ rows' = Append(rows, row) /\ Newest = {Len(rows) + 1}
  BY DEF RowsOK, Grows, Newest
<1>4. /\ \A i \in DOMAIN rows : rows'[i] = rows[i]
      /\ rows'[Len(rows) + 1] = row /\ DOMAIN rows \cap Newest = {}
  BY RowSets
<1>5. \A f \in {"input", "output"} :
         /\ Used(rows', I, f) = Used(rows, I, f)
         /\ Used(rows', I \cup Newest, f) = Used(rows, I, f) + Usable(row[f])
  BY <1>1, <1>3, UsedMore
<1>6. IsFiniteSet(I)
  <2>1. DOMAIN rows = 1..Len(rows) /\ Len(rows) \in Nat
    BY <1>3
  <2>2. IsFiniteSet(1..Len(rows))
    BY <2>1, FS_Interval
  <2>3. QED
    BY <1>1, <2>1, <2>2, FS_Subset
<1>7. Cardinality(I \cup Newest) = Cardinality(I) + 1
  <2>1. Len(rows) + 1 \notin I
    BY <1>1, <1>4 DEF Newest
  <2>2. QED
    BY <1>3, <1>6, <2>1, FS_AddElement
<1>8. /\ e.rows = Cardinality(I) /\ e.input = Used(rows, I, "input") /\ e.output = Used(rows, I, "output")
      /\ e.noInput <=> \E i \in I : rows[i].input = -1
      /\ e.noOutput <=> \E i \in I : rows[i].output = -1
  BY <1>1 DEF EntryHolds
<1>9. CASE key = KeyOf(row)
  <2>1. PICK J : J = Mine(key)' /\ J = I \cup Newest
    BY <1>2, <1>9
  <2>2. (\E i \in J : rows'[i].input = -1) <=> (\E i \in I : rows[i].input = -1) \/ row.input = -1
    BY <1>1, <1>3, <1>4, <2>1
  <2>3. (\E i \in J : rows'[i].output = -1) <=> (\E i \in I : rows[i].output = -1) \/ row.output = -1
    BY <1>1, <1>3, <1>4, <2>1
  <2>4. /\ Logs(e, row).rows = e.rows + 1
        /\ Logs(e, row).input = e.input + Usable(row.input) /\ Logs(e, row).output = e.output + Usable(row.output)
        /\ Logs(e, row).noInput <=> e.noInput \/ row.input = -1
        /\ Logs(e, row).noOutput <=> e.noOutput \/ row.output = -1
    BY <1>3, LogsType
  <2>5. Logs(e, row).rows = Cardinality(J)
    BY <1>7, <1>8, <2>1, <2>4
  <2>6. Logs(e, row).input = Used(rows', J, "input") /\ Logs(e, row).output = Used(rows', J, "output")
    BY <1>5, <1>8, <2>1, <2>4
  <2>7. QED
    BY <1>8, <1>9, <2>1, <2>2, <2>3, <2>4, <2>5, <2>6
<1>10. CASE key # KeyOf(row)
  <2>1. Mine(key)' = I
    BY <1>2, <1>10
  <2>2. \A i \in I : rows'[i] = rows[i]
    BY <1>1, <1>4
  <2>3. QED
    BY <1>5, <1>8, <1>10, <2>1, <2>2
<1>11. QED
  BY <1>9, <1>10

\* Before its first record a key has no account.
LEMMA NoRecords ==
    ASSUME DaysOK, Investigated, pc # "load", Counting, NEW key, key \notin DOMAIN entries
    PROVE  NoEntry \in EntryFields /\ EntryHolds(NoEntry, key)
<1>1. Mine(key) = {}
  BY DEF DaysOK, Mine, LoggedRows
<1>2. \A f : Used(rows, {}, f) = 0
  BY FS_EmptySet, SumStep DEF Used
<1>3. NoEntry \in EntryFields
  BY DEF NoEntry, EntryFields
<1>4. Cardinality({}) = 0
  BY FS_EmptySet
<1>5. QED
  BY <1>1, <1>2, <1>3, <1>4 DEF EntryHolds, NoEntry

\* What the counts of days and keys depend on.
SameDays == \A d : LoggedRows(d)' = LoggedRows(d)

\* A record outside the periods, or none, changes no count.
LEMMA DaysKept ==
    ASSUME RowsOK, DaysOK, Investigated, pc # "load", pc' # "load", opts' = opts, SameDays,
           \A i \in DOMAIN rows : i \in DOMAIN rows' /\ rows'[i] = rows[i],
           \A i \in DOMAIN rows' \ DOMAIN rows : ~InPeriods(rows[i].t)', UNCHANGED providerVars
    PROVE  DaysOK'
<1>1. /\ exported' = exported /\ mapping' = mapping /\ targets' = targets /\ entries' = entries
  BY DEF providerVars
<1>2. Days' = Days /\ (Counting' <=> Counting) /\ \A t : InPeriods(t)' <=> InPeriods(t)
  BY DEF Days, DaysOf, Counting, InPeriods, Inside
<1>3. \A r : KeyOf(r)' = KeyOf(r)
  BY <1>1 DEF KeyOf
<1>4. \A d : LoggedRows(d)' = LoggedRows(d) /\ LoggedRows(d) \subseteq DOMAIN rows
  BY DEF SameDays, LoggedRows
<1>5. \A key : Mine(key)' = Mine(key) /\ Mine(key) \subseteq DOMAIN rows
  <2>1. TAKE key
  <2>2. Mine(key)' = {i \in LoggedRows(key[1])' : KeyOf(rows'[i]) = key}
    BY <1>3 DEF Mine, KeyOf
  <2>3. QED
    BY <1>4, <2>2 DEF Mine
<1>6. ASSUME NEW key, NEW f PROVE Used(rows, Mine(key), f)' = Used(rows, Mine(key), f)
  <2>1. PICK I : I = Mine(key) /\ I \subseteq DOMAIN rows
    BY <1>5
  <2>2. [i \in I |-> Usable(rows'[i][f])] = [i \in I |-> Usable(rows[i][f])]
    BY <2>1
  <2>3. Used(rows', I, f) = Used(rows, I, f)
    BY <2>2 DEF Used
  <2>4. QED
    BY <1>5, <2>1, <2>3
<1>7. ASSUME NEW key \in DOMAIN entries, EntryHolds(entries[key], key) PROVE EntryHolds(entries[key], key)'
  <2>1. PICK I : I = Mine(key) /\ I \subseteq DOMAIN rows
    BY <1>5
  <2>2. Mine(key)' = I /\ \A i \in I : rows'[i] = rows[i]
    BY <1>5, <2>1
  <2>3. \A f : Used(rows, Mine(key), f)' = Used(rows, Mine(key), f)
    BY <1>6
  <2>4. PICK e : e = entries[key] /\ e = entries'[key]
    BY <1>1
  <2>5. QED
    BY <1>7, <2>1, <2>2, <2>3, <2>4 DEF EntryHolds
<1>8. \A d : LoggedOn(d)' = LoggedOn(d)
  BY <1>1 DEF LoggedOn, KeysOf, Total
<1>9. \A i \in DOMAIN rows' : InPeriods(rows[i].t)' => i \in DOMAIN rows /\ rows'[i] = rows[i] /\ InPeriods(rows[i].t)
  BY <1>2 DEF InPeriods, Inside
<1>10. ASSUME Counting, NEW i \in DOMAIN rows', InPeriods(rows[i].t)' PROVE KeyOf(rows[i])' \in DOMAIN entries'
  <2>1. i \in DOMAIN rows /\ rows'[i] = rows[i] /\ InPeriods(rows[i].t)
    BY <1>9, <1>10
  <2>2. KeyOf(rows[i])' = KeyOf(rows[i])
    BY <1>1, <2>1 DEF KeyOf, Source, DayOf
  <2>3. QED
    BY <1>1, <1>10, <2>1, <2>2 DEF DaysOK
<1>11. opts.daily # NoId => DOMAIN exported' = Days' /\ \A d \in Days' : exported'[d] = Cardinality(LoggedRows(d)')
  BY <1>1, <1>2, <1>4 DEF DaysOK
<1>12. Counting =>
          /\ IsFiniteSet(DOMAIN entries') /\ \A key \in DOMAIN entries' : entries'[key] \in EntryFields
          /\ \A key \in DOMAIN entries' : EntryHolds(entries[key], key)'
          /\ \A d \in Days' : LoggedOn(d)' = Cardinality(LoggedRows(d)')
  BY <1>1, <1>2, <1>4, <1>7, <1>8 DEF DaysOK
<1>13. QED
  BY <1>2, <1>10, <1>11, <1>12 DEF DaysOK

\* Only the entry of a record's key changes, and it gains the record.
EntryGains(k, row) ==
    /\ DOMAIN entries' = DOMAIN entries \cup {k}
    /\ \A key \in DOMAIN entries \ {k} : entries'[key] = entries[key]
    /\ entries'[k] = Logs(Entry(k), row)

\* Records that are logged are counted: for their day and for their key.
LEMMA DaysAdded ==
    ASSUME RowsOK, DaysOK, Investigated, pc # "load", pc' # "load", NEW row \in Stream, Counts(row)
    PROVE  DaysOK'
<1>1. Grows(row) /\ SideOf(row.t) # 0 /\ Account(row, SideOf(row.t)) /\ opts' = opts
  BY DEF Counts, Grows
<1>2. /\ exported' = IF opts.daily = NoId THEN exported ELSE [exported EXCEPT ![DayOf(row.t)] = @ + 1]
      /\ UNCHANGED <<mapping, targets>>
  BY <1>1 DEF Account, CountRow
<1>3. Days' = Days /\ (Counting' <=> Counting)
  BY <1>1 DEF Days, DaysOf, Counting
<1>4. \A d : /\ Cardinality(LoggedRows(d)) \in Nat
             /\ Cardinality(LoggedRows(d)') = Cardinality(LoggedRows(d)) + IF DayOf(row.t) = d THEN 1 ELSE 0
  BY <1>1, LoggedMore
<1>5. ASSUME opts.daily # NoId
      PROVE  DOMAIN exported' = Days' /\ \A d \in Days' : exported'[d] = Cardinality(LoggedRows(d)')
  BY <1>2, <1>3, <1>4, <1>5 DEF DaysOK
<1>6. ASSUME Counting
      PROVE  /\ IsFiniteSet(DOMAIN entries') /\ \A key \in DOMAIN entries' : entries'[key] \in EntryFields
             /\ \A i \in DOMAIN rows' : InPeriods(rows[i].t)' => KeyOf(rows[i])' \in DOMAIN entries'
             /\ \A key \in DOMAIN entries' : EntryHolds(entries[key], key)'
             /\ \A d \in Days' : LoggedOn(d)' = Cardinality(LoggedRows(d)')
  <2>1. PICK k : k = KeyOf(row)
    OBVIOUS
  <2>2. EntryGains(k, row)
    <3>1. CountRow(row)
      BY <1>1 DEF Account
    <3>2. entries' = [key \in DOMAIN entries \cup {k} |-> IF key # k THEN entries[key] ELSE Logs(Entry(key), row)]
      BY <1>6, <2>1, <3>1 DEF CountRow, Logs
    <3> HIDE DEF EntryGains
    <3>3. QED
      BY <3>2 DEF EntryGains
  <2>3. /\ IsFiniteSet(DOMAIN entries) /\ \A key \in DOMAIN entries : entries[key] \in EntryFields
        /\ \A i \in DOMAIN rows : InPeriods(rows[i].t) => KeyOf(rows[i]) \in DOMAIN entries
        /\ \A key \in DOMAIN entries : EntryHolds(entries[key], key)
        /\ \A d \in Days : LoggedOn(d) = Cardinality(LoggedRows(d))
    BY <1>6 DEF DaysOK
  <2>4. /\ DOMAIN entries' = DOMAIN entries \cup {k}
        /\ \A key \in DOMAIN entries \ {k} : entries'[key] = entries[key]
        /\ entries'[k] = Logs(Entry(k), row)
    BY <2>2 DEF EntryGains
  <2>5. Entry(k) \in EntryFields /\ EntryHolds(Entry(k), k)
    BY <1>6, <2>3, NoRecords DEF Entry
  <2>6. entries'[k] \in EntryFields /\ entries'[k].rows = Entry(k).rows + 1
    BY <2>4, <2>5, LogsType
  <2>7. IsFiniteSet(DOMAIN entries')
    BY <2>3, <2>4, FS_AddElement
  <2>8. \A key \in DOMAIN entries' : entries'[key] \in EntryFields
    BY <2>3, <2>4, <2>6
  <2>9. ASSUME NEW i \in DOMAIN rows', InPeriods(rows[i].t)' PROVE KeyOf(rows[i])' \in DOMAIN entries'
    <3>1. /\ DOMAIN rows' = DOMAIN rows \cup Newest
          /\ \A j \in DOMAIN rows : rows'[j] = rows[j]
          /\ rows'[Len(rows) + 1] = row
      BY <1>1, RowSets
    <3>2. PICK r : r = rows'[i]
      OBVIOUS
    <3>3. KeyOf(rows[i])' = KeyOf(r)
      BY <1>2, <3>2 DEF KeyOf, Source, DayOf
    <3>4. CASE i \in DOMAIN rows
      <4>1. r = rows[i] /\ InPeriods(rows[i].t)
        BY <1>1, <2>9, <3>1, <3>2, <3>4 DEF InPeriods, Inside
      <4>2. QED
        BY <2>3, <2>4, <3>3, <3>4, <4>1
    <3>5. CASE i \in Newest
      <4>1. r = row
        BY <3>1, <3>2, <3>5 DEF Newest
      <4>2. QED
        BY <2>1, <2>4, <3>3, <4>1
    <3>6. QED
      BY <3>1, <2>9, <3>4, <3>5
  <2>10. ASSUME NEW key \in DOMAIN entries' PROVE EntryHolds(entries[key], key)'
    <3>1. PICK e \in EntryFields : EntryHolds(e, key) /\ entries'[key] = IF key = k THEN Logs(e, row) ELSE e
      <4>1. CASE key = k
        BY <2>4, <2>5, <4>1
      <4>2. CASE key # k
        BY <2>3, <2>4, <4>2
      <4>3. QED
        BY <4>1, <4>2
    <3>2. CASE key = k
      <4>1. PICK e2 : e2 = entries'[key] /\ e2 = Logs(e, row)
        BY <3>1, <3>2
      <4>2. /\ e2.rows = Cardinality(Mine(key)')
            /\ e2.input = Used(rows', Mine(key)', "input")
            /\ e2.output = Used(rows', Mine(key)', "output")
            /\ e2.noInput <=> \E i \in Mine(key)' : rows'[i].input = -1
            /\ e2.noOutput <=> \E i \in Mine(key)' : rows'[i].output = -1
        BY <1>1, <1>2, <2>1, <3>1, <3>2, <4>1, EntryMore
      <4>3. QED
        BY <4>1, <4>2 DEF EntryHolds
    <3>3. CASE key # k
      <4>1. e = entries'[key]
        BY <3>1, <3>3
      <4>2. /\ e.rows = Cardinality(Mine(key)')
            /\ e.input = Used(rows', Mine(key)', "input")
            /\ e.output = Used(rows', Mine(key)', "output")
            /\ e.noInput <=> \E i \in Mine(key)' : rows'[i].input = -1
            /\ e.noOutput <=> \E i \in Mine(key)' : rows'[i].output = -1
        BY <1>1, <1>2, <2>1, <3>1, <3>3, EntryMore
      <4>3. QED
        BY <4>1, <4>2 DEF EntryHolds
    <3>4. QED
      BY <3>2, <3>3
  <2>11. ASSUME NEW d \in Days' PROVE LoggedOn(d)' = Cardinality(LoggedRows(d)')
    <3>1. PICK S : S = KeysOf(d)
      OBVIOUS
    <3>2. PICK T : T = KeysOf(d)'
      OBVIOUS
    <3>3. PICK g : g = [key \in S |-> entries[key].rows]
      OBVIOUS
    <3>4. PICK h : h = [key \in T |-> entries'[key].rows]
      OBVIOUS
    <3>5. LoggedOn(d) = SumFunctionOnSet(g, S) /\ LoggedOn(d)' = SumFunctionOnSet(h, T)
      BY <3>1, <3>2, <3>3, <3>4 DEF LoggedOn, Total
    <3>6. S = {key \in DOMAIN entries : key[1] = d} /\ T = {key \in DOMAIN entries' : key[1] = d}
      BY <3>1, <3>2 DEF KeysOf
    <3>7. IsFiniteSet(S) /\ \A key \in S : g[key] \in Nat
      BY <2>3, <3>3, <3>6, FS_Subset DEF EntryFields
    <3>8. k[1] = DayOf(row.t)
      BY <2>1 DEF KeyOf
    <3>9. CASE DayOf(row.t) = d
      <4>1. T = S \cup {k}
        BY <2>4, <3>6, <3>8, <3>9
      <4>2. h[k] = (IF k \in S THEN g[k] ELSE 0) + 1
        <5>1. h[k] = Entry(k).rows + 1
          BY <2>6, <3>4, <4>1
        <5>2. CASE k \in S
          BY <3>3, <3>6, <5>1, <5>2 DEF Entry
        <5>3. CASE k \notin S
          <6>1. Entry(k) = NoEntry
            BY <3>6, <3>8, <3>9, <5>3 DEF Entry
          <6>2. QED
            BY <5>1, <5>3, <6>1 DEF NoEntry
        <5>4. QED
          BY <5>2, <5>3
      <4>3. \A x \in S \ {k} : h[x] = g[x]
        BY <2>4, <3>3, <3>4, <3>6, <4>1
      <4>4. MovesUp(g, h, S, k, 1)
        BY <3>7, <4>2, <4>3 DEF MovesUp
      <4>5. SumFunctionOnSet(h, T) = SumFunctionOnSet(g, S) + 1
        BY <3>7, <4>1, <4>4, SumMove
      <4>6. LoggedOn(d) = Cardinality(LoggedRows(d)) /\ Cardinality(LoggedRows(d)') = Cardinality(LoggedRows(d)) + 1
        BY <1>3, <1>4, <2>3, <3>9
      <4>7. QED
        BY <3>5, <4>5, <4>6
    <3>10. CASE DayOf(row.t) # d
      <4>1. T = S /\ \A x \in S : h[x] = g[x]
        BY <2>4, <3>3, <3>4, <3>6, <3>8, <3>10
      <4>2. SumFunctionOnSet(h, T) = SumFunctionOnSet(g, S)
        BY <3>7, <4>1, SumSame
      <4>3. LoggedOn(d) = Cardinality(LoggedRows(d)) /\ Cardinality(LoggedRows(d)') = Cardinality(LoggedRows(d))
        BY <1>3, <1>4, <2>3, <3>10
      <4>4. QED
        BY <3>5, <4>2, <4>3
    <3>11. QED
      BY <3>9, <3>10
  <2>12. QED
    BY <2>7, <2>8, <2>9, <2>10, <2>11
<1>7. QED
  BY <1>1, <1>3, <1>5, <1>6 DEF DaysOK

\* Every step keeps the counts.
LEMMA DaysNext == RowsOK /\ DaysOK /\ [Next]_vars => DaysOK'
<1> SUFFICES ASSUME RowsOK, DaysOK, [Next]_vars, opts'.command = "investigate", pc' # "error"
             PROVE  DaysOK'
  BY DEF DaysOK, Investigated
<1>1. opts' = opts /\ opts.command = "investigate" /\ pc # "error" /\ Investigated
  BY RowsNext, InvestigationSteps DEF Investigated
<1>2. CASE pc = "load" /\ pc' = "rows" /\ UNCHANGED rows /\ LoadCounts /\ ~(Counting /\ ProviderRefused)
  BY <1>1, <1>2, CountsLoaded
<1>3. ASSUME NEW row \in Stream, Passes(row), pc = "rows", pc' = "rows" PROVE DaysOK'
  <2>1. Grows(row) /\ SideOf(row.t) = 0 /\ UNCHANGED providerVars
    BY <1>3 DEF Passes
  <2>2. /\ DOMAIN rows' = DOMAIN rows \cup Newest
        /\ \A i \in DOMAIN rows : rows'[i] = rows[i]
        /\ rows'[Len(rows) + 1] = row
    BY <2>1, RowSets
  <2>3. SameDays
    BY <2>1, LoggedMore DEF SameDays
  <2>4. \A i \in DOMAIN rows' \ DOMAIN rows : ~InPeriods(rows[i].t)'
    BY <1>1, <2>1, <2>2 DEF Newest, InPeriods, SideOf, Inside, Sides
  <2>5. QED
    BY <1>1, <1>3, <2>1, <2>2, <2>3, <2>4, DaysKept
<1>4. CASE Idle /\ pc = "load" /\ pc' = "load"
  BY <1>1, <1>4 DEF Idle, DaysOK
<1>5. CASE Idle /\ pc # "load" /\ pc' # "load"
  <2>1. rows' = rows /\ UNCHANGED providerVars
    BY <1>5 DEF Idle
  <2>2. SameDays
    BY <1>1, <2>1 DEF SameDays, LoggedRows, InPeriods, Inside
  <2>3. QED
    BY <1>1, <1>5, <2>1, <2>2, DaysKept
<1>6. ASSUME NEW row \in Stream, Counts(row), pc = "rows", pc' = "rows" PROVE DaysOK'
  BY <1>1, <1>6, DaysAdded
<1>7. QED
  BY <1>1, <1>2, <1>3, <1>4, <1>5, <1>6, InvestigationSteps

\* The counts are those that the property states.
LEMMA DaysFollow == DaysOK => DaysHoldEveryRow
<1> SUFFICES ASSUME DaysOK, Reporting, NEW d \in Days
             PROVE  /\ opts.daily # NoId => exported[d] = Cardinality(LoggedRows(d))
                    /\ Counting =>
                         /\ LoggedOn(d) = Cardinality(LoggedRows(d))
                         /\ \A key \in KeysOf(d) :
                              LET mine == {i \in LoggedRows(d) : KeyOf(rows[i]) = key}
                                  In(i) == Usable(rows[i].input)
                              IN /\ entries[key].rows = Cardinality(mine)
                                 /\ entries[key].input = Total(In, mine)
                                 /\ entries[key].noInput = (\E i \in mine : rows[i].input = -1)
  BY DEF DaysHoldEveryRow
<1>1. Investigated /\ pc # "load"
  BY DEF Reporting, Investigated
<1>2. opts.daily # NoId => exported[d] = Cardinality(LoggedRows(d))
  BY <1>1 DEF DaysOK
<1>3. Counting => LoggedOn(d) = Cardinality(LoggedRows(d))
  BY <1>1 DEF DaysOK
<1>4. ASSUME Counting, NEW key \in KeysOf(d)
      PROVE  LET mine == {i \in LoggedRows(d) : KeyOf(rows[i]) = key}
                 In(i) == Usable(rows[i].input)
             IN /\ entries[key].rows = Cardinality(mine)
                /\ entries[key].input = Total(In, mine)
                /\ entries[key].noInput = (\E i \in mine : rows[i].input = -1)
  <2> DEFINE mine == {i \in LoggedRows(d) : KeyOf(rows[i]) = key}
             In(i) == Usable(rows[i].input)
  <2>1. key \in DOMAIN entries /\ key[1] = d
    BY DEF KeysOf
  <2>2. mine = Mine(key)
    BY <2>1 DEF Mine
  <2>3. EntryHolds(entries[key], key) /\ entries[key] \in EntryFields
    BY <1>1, <1>4, <2>1 DEF DaysOK
  <2>4. entries[key].noInput \in BOOLEAN
    BY <2>3 DEF EntryFields
  <2>5. Total(In, mine) = Used(rows, mine, "input")
    BY DEF Total, Used
  <2> HIDE DEF mine
  <2>6. PICK e : e = entries[key]
    OBVIOUS
  <2>7. /\ e.rows = Cardinality(mine) /\ e.input = Used(rows, mine, "input")
        /\ e.noInput <=> \E i \in mine : rows[i].input = -1
    BY <2>2, <2>3, <2>6 DEF EntryHolds
  <2>8. e.noInput = (\E i \in mine : rows[i].input = -1)
    BY <2>4, <2>6, <2>7
  <2>9. QED
    BY <2>5, <2>6, <2>7, <2>8 DEF mine
<1>5. QED
  BY <1>2, <1>3, <1>4

\* For every export, all options and all limits, in each state: every record of
\* a period is counted once among the states of each field, the call types and
\* the outcomes of the scope; and once on its day, under its provider entry, of
\* which the counts and token sums are those of its records.
THEOREM EveryRowIsObserved == Spec => []EveryRowObserved
<1> DEFINE Kept == AccountsOK /\ ClassesOK /\ DaysOK
<1>1. Init => Kept
  <2> SUFFICES ASSUME Init PROVE Kept
    OBVIOUS
  <2>1. DaysOK
    BY DEF Init, Investigating, DaysOK, Investigated
  <2>2. QED
    BY <2>1, RowsNext, RoutingInit, AgentsInit, ClassesInit DEF AccountsOK
<1>2. Kept /\ [Next]_vars => Kept'
  BY RowsNext, WindowsNext, RoutingNext, AgentsNext, ClassesNext, DaysNext DEF AccountsOK
<1>3. Kept => EveryRowObserved
  BY ClassesFollow, DaysFollow DEF EveryRowObserved
<1>4. QED
  BY <1>1, <1>2, <1>3, PTL DEF Spec
-----------------------------------------------------------------------------
(* Lines of the counts file and their entries.                              *)

Lines == opts.provider.counts
LineKey(i) == <<Lines[i].day, Lines[i].model, TRUE>>

\* Each line has the entry of its day and model, and no entry has another.
LinesOK ==
    Investigated /\ pc # "load" /\ Counting =>
      /\ Lines \in Seq(CountLines)
      /\ \A i, j \in DOMAIN Lines : LineKey(i) = LineKey(j) => i = j
      /\ \A i \in DOMAIN Lines : LineKey(i) \in DOMAIN entries /\ entries[LineKey(i)].sent = Lines[i]
      /\ \A key \in DOMAIN entries : /\ key = <<key[1], key[2], key[3]>> /\ key[3] \in BOOLEAN
                                     /\ entries[key].sent # NoId => \E i \in DOMAIN Lines : key = LineKey(i)

\* Two keys of lines are the same if day and model are.
LEMMA LineKeys ==
    ASSUME NEW i, NEW j
    PROVE  LineKey(i) = LineKey(j) <=> Lines[i].day = Lines[j].day /\ Lines[i].model = Lines[j].model
  BY DEF LineKey

\* Loading the files makes the entry of each line.
LEMMA LinesLoaded ==
    ASSUME RowsOK, Investigated, pc = "load", LoadCounts, ~(Counting /\ ProviderRefused), opts' = opts, Counting
    PROVE  LinesOK'
<1>1. Lines \in Seq(CountLines)
  BY ProviderAssumption DEF RowsOK, Investigated, Counting, Lines
<1>2. Lines' = Lines /\ \A i : LineKey(i)' = LineKey(i)
  BY DEF Lines, LineKey
<1>3. \A i, j \in DOMAIN Lines : LineKey(i) = LineKey(j) => i = j
  <2>1. \A i, j \in DOMAIN Lines : <<Lines[i].day, Lines[i].model>> = <<Lines[j].day, Lines[j].model>> => i = j
    BY DEF ProviderRefused, Distinct, Lines
  <2>2. TAKE i, j \in DOMAIN Lines
  <2>3. QED
    BY <2>1, LineKeys
<1> DEFINE Line(d, model) == CHOOSE i \in DOMAIN Lines : Lines[i].day = d /\ Lines[i].model = model
           KK == {LineKey(i) : i \in DOMAIN Lines}
<1>4. entries' = [key \in KK |-> [NoEntry EXCEPT !.sent = Lines[Line(key[1], key[2])]]]
  BY DEF LoadCounts, Lines, LineKey
<1>5. ASSUME NEW i \in DOMAIN Lines PROVE Line(LineKey(i)[1], LineKey(i)[2]) = i
  <2>1. LineKey(i)[1] = Lines[i].day /\ LineKey(i)[2] = Lines[i].model
    BY DEF LineKey
  <2>2. PICK j : j = Line(Lines[i].day, Lines[i].model)
    OBVIOUS
  <2>3. j \in DOMAIN Lines /\ Lines[j].day = Lines[i].day /\ Lines[j].model = Lines[i].model
    BY <2>2
  <2>4. j = i
    BY <1>3, <2>3, LineKeys
  <2>5. QED
    BY <2>1, <2>2, <2>4
<1> HIDE DEF Line
<1>6. ASSUME NEW i \in DOMAIN Lines
      PROVE  LineKey(i) \in DOMAIN entries' /\ entries'[LineKey(i)].sent = Lines[i]
  <2>1. LineKey(i) \in KK
    OBVIOUS
  <2>2. entries'[LineKey(i)] = [NoEntry EXCEPT !.sent = Lines[Line(LineKey(i)[1], LineKey(i)[2])]]
    BY <1>4, <2>1
  <2>3. QED
    BY <1>4, <1>5, <2>1, <2>2 DEF NoEntry
<1>7. \A key \in DOMAIN entries' : \E i \in DOMAIN Lines : key = LineKey(i)
  BY <1>4
<1>8. \A i : LineKey(i) = <<LineKey(i)[1], LineKey(i)[2], LineKey(i)[3]>> /\ LineKey(i)[3] \in BOOLEAN
  BY DEF LineKey
<1> HIDE DEF KK
<1>9. \A key \in DOMAIN entries' : key = <<key[1], key[2], key[3]>> /\ key[3] \in BOOLEAN
  BY <1>7, <1>8
<1>10. QED
  BY <1>1, <1>2, <1>3, <1>6, <1>7, <1>9 DEF LinesOK

\* Every step keeps lines and entries together.
LEMMA LinesNext == RowsOK /\ DaysOK /\ LinesOK /\ [Next]_vars => LinesOK'
<1> SUFFICES ASSUME RowsOK, DaysOK, LinesOK, [Next]_vars, opts'.command = "investigate", pc' # "error", pc' # "load", Counting'
             PROVE  LinesOK'
  BY DEF LinesOK, Investigated
<1>1. opts' = opts /\ opts.command = "investigate" /\ pc # "error" /\ Investigated /\ Counting
  BY RowsNext, InvestigationSteps DEF Investigated, Counting
<1>2. CASE pc = "load" /\ LoadCounts /\ ~(Counting /\ ProviderRefused)
  BY <1>1, <1>2, LinesLoaded
<1>3. Lines' = Lines /\ \A i : LineKey(i)' = LineKey(i)
  BY <1>1 DEF Lines, LineKey
<1>4. CASE pc # "load" /\ UNCHANGED entries
  <2>1. entries' = entries
    BY <1>4
  <2>2. QED
    BY <1>1, <1>3, <1>4, <2>1 DEF LinesOK
<1>5. ASSUME NEW row \in Stream, Counts(row), pc = "rows" PROVE LinesOK'
  <2>1. PICK k : k = KeyOf(row)
    OBVIOUS
  <2>2. EntryGains(k, row)
    <3>1. CountRow(row)
      BY <1>5 DEF Counts, Account
    <3>2. entries' = [key \in DOMAIN entries \cup {k} |-> IF key # k THEN entries[key] ELSE Logs(Entry(key), row)]
      BY <1>1, <2>1, <3>1 DEF CountRow, Logs
    <3>3. QED
      BY <3>2 DEF EntryGains
  <2>3. /\ DOMAIN entries' = DOMAIN entries \cup {k}
        /\ \A key \in DOMAIN entries \ {k} : entries'[key] = entries[key]
        /\ entries'[k] = Logs(Entry(k), row)
    BY <2>2 DEF EntryGains
  <2>4. Entry(k) \in EntryFields
    BY <1>1, <1>5, NoRecords DEF Entry, DaysOK
  <2>5. entries'[k].sent = Entry(k).sent
    BY <2>3, <2>4, LogsType
  <2>6. k = <<k[1], k[2], k[3]>> /\ k[3] \in BOOLEAN
    BY <2>1 DEF KeyOf
  <2>7. k \notin DOMAIN entries => Entry(k).sent = NoId
    BY DEF Entry, NoEntry
  <2>8. k \in DOMAIN entries => Entry(k).sent = entries[k].sent
    BY DEF Entry
  <2>9. /\ Lines \in Seq(CountLines)
        /\ \A i, j \in DOMAIN Lines : LineKey(i) = LineKey(j) => i = j
        /\ \A i \in DOMAIN Lines : LineKey(i) \in DOMAIN entries /\ entries[LineKey(i)].sent = Lines[i]
        /\ \A key \in DOMAIN entries : /\ key = <<key[1], key[2], key[3]>> /\ key[3] \in BOOLEAN
                                       /\ entries[key].sent # NoId => \E i \in DOMAIN Lines : key = LineKey(i)
    BY <1>1, <1>5 DEF LinesOK
  <2>10. \A i \in DOMAIN Lines : LineKey(i) \in DOMAIN entries' /\ entries'[LineKey(i)].sent = Lines[i]
    BY <2>3, <2>5, <2>8, <2>9
  <2>11. ASSUME NEW key \in DOMAIN entries'
         PROVE  /\ key = <<key[1], key[2], key[3]>> /\ key[3] \in BOOLEAN
                /\ entries'[key].sent # NoId => \E i \in DOMAIN Lines : key = LineKey(i)
    <3>1. CASE key = k
      BY <2>5, <2>6, <2>7, <2>8, <2>9, <3>1
    <3>2. CASE key # k
      BY <2>3, <2>9, <3>2
    <3>3. QED
      BY <3>1, <3>2
  <2>12. QED
    BY <1>3, <2>9, <2>10, <2>11 DEF LinesOK
<1>6. \A row : Passes(row) => UNCHANGED entries
  BY DEF Passes, providerVars
<1>7. Idle => UNCHANGED entries
  BY DEF Idle, providerVars
<1>8. QED
  BY <1>1, <1>2, <1>4, <1>5, <1>6, <1>7, InvestigationSteps

\* A day without unmapped records has a provider model for each of its records.
LEMMA AllMapped ==
    ASSUME RowsOK, DaysOK, Investigated, pc # "load", Counting, NEW d, UnmappedOn(d) = 0, NEW i \in LoggedRows(d)
    PROVE  KeyOf(rows[i])[3]
<1>1. PICK k : k = KeyOf(rows[i])
  OBVIOUS
<1>2. i \in DOMAIN rows /\ InPeriods(rows[i].t) /\ DayOf(rows[i].t) = d
  BY DEF LoggedRows
<1>3. k \in DOMAIN entries /\ k[1] = d /\ i \in Mine(k)
  BY <1>1, <1>2 DEF DaysOK, KeyOf, Mine
<1>4. entries[k] \in EntryFields /\ entries[k].rows = Cardinality(Mine(k))
  BY <1>3 DEF DaysOK, EntryHolds
<1>5. entries[k].rows # 0
  <2>1. DOMAIN rows = 1..Len(rows) /\ Len(rows) \in Nat
    BY DEF RowsOK
  <2>2. IsFiniteSet(1..Len(rows))
    BY <2>1, FS_Interval
  <2>3. IsFiniteSet(Mine(k))
    <3>1. Mine(k) \in SUBSET (1..Len(rows))
      BY <2>1 DEF Mine, LoggedRows
    <3>2. QED
      BY <2>2, <3>1, FS_Subset
  <2>4. QED
    BY <1>3, <1>4, <2>3, FS_EmptySet
<1>6. SUFFICES ASSUME ~k[3] PROVE FALSE
  BY <1>1
<1>7. PICK U : U = {key \in KeysOf(d) : ~key[3]}
  OBVIOUS
<1>8. PICK g : g = [key \in U |-> entries[key].rows]
  OBVIOUS
<1>9. UnmappedOn(d) = SumFunctionOnSet(g, U)
  BY <1>7, <1>8 DEF UnmappedOn, Total
<1>10. IsFiniteSet(U) /\ k \in U /\ \A key \in U : g[key] \in Nat
  <2>1. U \in SUBSET DOMAIN entries
    BY <1>7 DEF KeysOf
  <2>2. IsFiniteSet(DOMAIN entries) /\ \A key \in DOMAIN entries : entries[key] \in EntryFields
    BY DEF DaysOK
  <2>3. k \in U
    BY <1>3, <1>6, <1>7 DEF KeysOf
  <2>4. QED
    BY <1>8, <2>1, <2>2, <2>3, FS_Subset DEF EntryFields
<1>11. SumFunctionOnSet(g, U) = g[k] + SumFunctionOnSet(g, U \ {k})
  BY <1>10, SumRemove
<1>12. SumFunctionOnSet(g, U \ {k}) \in Nat
  <2>1. IsFiniteSet(U \ {k})
    BY <1>10, FS_RemoveElement
  <2>2. QED
    BY <1>10, <2>1, SumType
<1>13. g[k] \in Nat /\ g[k] # 0
  BY <1>5, <1>8, <1>10
<1>14. QED
  BY <1>9, <1>11, <1>12, <1>13

\* The request difference of a model is that of its line and its records.
LEMMA DifferenceExact ==
    ASSUME RowsOK, DaysOK, LinesOK, Investigated, pc # "load", Counting, NEW d, NEW key \in KeysOf(d), Comparable(key)
    PROVE  /\ \A i \in LoggedRows(d) : KeyOf(rows[i])[3]
           /\ \E i \in ProviderLines(d) :
                /\ Lines[i].model = key[2]
                /\ RequestDifference(key)
                   = Lines[i].requests - Cardinality({j \in LoggedRows(d) : KeyOf(rows[j])[2] = key[2]})
<1>1. key \in DOMAIN entries /\ key[1] = d
  BY DEF KeysOf
<1>2. UnmappedOn(d) = 0 /\ RequestDifference(key) # NoId
  BY <1>1 DEF Comparable
<1>3. \A i \in LoggedRows(d) : KeyOf(rows[i])[3]
  BY <1>2, AllMapped
<1>4. RequestDifference(key) = Sent(key, "requests") - entries[key].rows /\ Sent(key, "requests") # -1
  BY <1>2 DEF RequestDifference
<1>5. entries[key].sent # NoId
  BY <1>4 DEF Sent
<1>6. PICK i \in DOMAIN Lines : key = LineKey(i) /\ entries[LineKey(i)].sent = Lines[i]
  BY <1>1, <1>5 DEF LinesOK
<1>7. /\ key[1] = Lines[i].day /\ key[2] = Lines[i].model /\ key[3] = TRUE
      /\ Sent(key, "requests") = Lines[i].requests
  <2>1. Sent(key, "requests") = Lines[i].requests
    BY <1>5, <1>6 DEF Sent
  <2>2. LineKey(i)[1] = Lines[i].day /\ LineKey(i)[2] = Lines[i].model /\ LineKey(i)[3] = TRUE
    BY DEF LineKey
  <2>3. QED
    BY <1>6, <2>1, <2>2
<1>8. i \in ProviderLines(d)
  BY <1>1, <1>7 DEF ProviderLines, Lines
<1>9. Mine(key) = {j \in LoggedRows(d) : KeyOf(rows[j])[2] = key[2]}
  <2>1. ASSUME NEW j \in LoggedRows(d), KeyOf(rows[j])[2] = key[2] PROVE KeyOf(rows[j]) = key
    <3>1. KeyOf(rows[j])[3] /\ DayOf(rows[j].t) = d
      BY <1>3 DEF LoggedRows
    <3>2. KeyOf(rows[j]) = <<d, key[2], TRUE>>
      BY <2>1, <3>1 DEF KeyOf
    <3>3. key = <<d, key[2], TRUE>>
      BY <1>1, <1>6, <1>7 DEF LineKey
    <3>4. QED
      BY <3>2, <3>3
  <2>2. Mine(key) = {j \in LoggedRows(d) : KeyOf(rows[j]) = key}
    BY <1>1 DEF Mine
  <2>3. QED
    BY <2>1, <2>2
<1>10. entries[key].rows = Cardinality(Mine(key))
  BY <1>1 DEF DaysOK, EntryHolds
<1>11. QED
  BY <1>3, <1>4, <1>7, <1>8, <1>9, <1>10

\* The requests of a day are those of its lines.
LEMMA RequestsExact ==
    ASSUME RowsOK, DaysOK, LinesOK, Investigated, pc # "load", Counting, NEW d, ProviderRequests(d) # -1
    PROVE  /\ ProviderRequests(d) = SumFunctionOnSet([i \in ProviderLines(d) |-> Lines[i].requests], ProviderLines(d))
           /\ \A key \in KeysOf(d) : \E i \in ProviderLines(d) : key = LineKey(i)
<1>1. PICK S : S = KeysOf(d)
  OBVIOUS
<1>2. PICK h : h = [key \in S |-> Sent(key, "requests")]
  OBVIOUS
<1>3. /\ ProviderRequests(d) = SumFunctionOnSet(h, S)
      /\ \A key \in S : key[3] /\ Sent(key, "requests") # -1
  BY <1>1, <1>2 DEF ProviderRequests, Total
<1>4. \A key \in S : key \in DOMAIN entries /\ key[1] = d /\ entries[key].sent # NoId
  BY <1>1, <1>3 DEF KeysOf, Sent
<1>5. \A i : LineKey(i)[1] = Lines[i].day
  BY DEF LineKey
<1>6. \A key \in S : \E i \in ProviderLines(d) : key = LineKey(i)
  <2>1. TAKE key \in S
  <2>2. PICK i \in DOMAIN Lines : key = LineKey(i)
    BY <1>4 DEF LinesOK
  <2>3. i \in ProviderLines(d)
    BY <1>4, <1>5, <2>2 DEF ProviderLines, Lines
  <2>4. QED
    BY <2>2, <2>3
<1>7. PICK T : T = ProviderLines(d)
  OBVIOUS
<1>8. PICK g : g = [i \in T |-> Lines[i].requests]
  OBVIOUS
<1>9. PICK f : f = [i \in T |-> LineKey(i)]
  OBVIOUS
<1>10. T \in SUBSET DOMAIN Lines /\ \A i \in T : Lines[i].day = d
  BY <1>7 DEF ProviderLines, Lines
<1>11. /\ Lines \in Seq(CountLines)
       /\ \A i, j \in DOMAIN Lines : LineKey(i) = LineKey(j) => i = j
       /\ \A i \in DOMAIN Lines : LineKey(i) \in DOMAIN entries /\ entries[LineKey(i)].sent = Lines[i]
  BY DEF LinesOK
<1>12. {f[i] : i \in T} = S
  <2>1. \A i \in T : LineKey(i) \in S
    BY <1>1, <1>5, <1>10, <1>11 DEF KeysOf
  <2>2. QED
    BY <1>6, <1>7, <1>9, <2>1
<1>13. \A i \in T : g[i] \in Nat /\ h[f[i]] = g[i]
  <2>1. TAKE i \in T
  <2>2. LineKey(i) \in S
    BY <1>9, <1>12
  <2>3. Sent(LineKey(i), "requests") = Lines[i].requests /\ Lines[i].requests # -1
    BY <1>3, <1>4, <1>10, <1>11, <2>2 DEF Sent
  <2>4. Lines[i].requests \in Nat \cup {-1}
    <3>1. Lines[i] \in CountLines
      BY <1>10, <1>11
    <3>2. QED
      BY <3>1 DEF CountLines
  <2>5. QED
    BY <1>2, <1>8, <1>9, <2>2, <2>3, <2>4
<1>14. \A i, j \in T : f[i] = f[j] => i = j
  BY <1>9, <1>10, <1>11
<1>15. IsFiniteSet(T)
  <2>1. DOMAIN Lines = 1..Len(Lines) /\ Len(Lines) \in Nat
    BY <1>11
  <2>2. IsFiniteSet(1..Len(Lines))
    BY <2>1, FS_Interval
  <2>3. QED
    BY <1>10, <2>1, <2>2, FS_Subset
<1>16. SumFunctionOnSet(h, {f[i] : i \in T}) = SumFunctionOnSet(g, T)
  BY <1>13, <1>14, <1>15, SumImage
<1>17. ProviderRequests(d) = SumFunctionOnSet(g, T)
  BY <1>3, <1>12, <1>16
<1>18. QED
  BY <1>1, <1>6, <1>7, <1>8, <1>17

\* A day that differs was read whole, and each record and line of it compared.
LEMMA DayExact ==
    ASSUME RowsOK, DaysOK, LinesOK, Investigated, pc # "load", Counting, NEW d \in Days, ProviderDiffers(d)
    PROVE  /\ \A t \in d * Day..(d + 1) * Day - 1 : InPeriods(t)
           /\ \A i \in LoggedRows(d) : \E j \in ProviderLines(d) : KeyOf(rows[i]) = LineKey(j)
           /\ SumFunctionOnSet([i \in ProviderLines(d) |-> Lines[i].requests], ProviderLines(d))
              # Cardinality(LoggedRows(d))
<1>1. DayStatus(d) = "complete_day" /\ ProviderRequests(d) \notin {-1, LoggedOn(d)}
  BY DEF ProviderDiffers
<1>2. \A t \in d * Day..(d + 1) * Day - 1 : InPeriods(t)
  <2>1. Complete(d)
    BY <1>1 DEF DayStatus
  <2>2. PICK s \in Sides : opts.periods[s].start <= d * Day /\ (d + 1) * Day <= opts.periods[s].end
    BY <2>1 DEF Complete
  <2>3. opts.periods[s].start \in Nat /\ opts.periods[s].end \in Nat
    BY SpendRowsAssumption DEF RowsOK, Investigated
  <2>4. d \in Int /\ Day \in Nat
    <3>1. PICK p \in {opts.periods[1], opts.periods[2]} : d \in DaysOf(p)
      BY DEF Days
    <3>2. PICK l, h : d \in l..h
      BY <3>1 DEF DaysOf
    <3>3. d \in Int
      BY <3>2
    <3>4. QED
      BY <3>3, SpendRowsAssumption
  <2>5. PICK a \in Int : a = d * Day
    BY <2>4
  <2>6. PICK b \in Int : b = (d + 1) * Day
    BY <2>4
  <2>7. \A t \in a..b - 1 : opts.periods[s].start <= t /\ t < opts.periods[s].end
    BY <2>2, <2>3, <2>5, <2>6
  <2>8. QED
    BY <2>5, <2>6, <2>7 DEF InPeriods, Inside
<1>3. LoggedOn(d) = Cardinality(LoggedRows(d))
  BY DEF DaysOK
<1>4. \A i \in LoggedRows(d) : KeyOf(rows[i]) \in KeysOf(d)
  BY DEF LoggedRows, KeysOf, DaysOK, KeyOf
<1>5. QED
  BY <1>1, <1>2, <1>3, <1>4, RequestsExact

\* For every export, all options, files and limits, in each state: a request
\* difference is reported only for a day all of whose records have a provider
\* model, and is that of the model's line and records; a day whose provider
\* requests are said to differ was read whole, each of its records belongs to a
\* line, and its lines add up to another number than its records.
THEOREM ComparisonsAreExact == Spec => []ComparisonsExact
<1> DEFINE Kept == RowsOK /\ DaysOK /\ LinesOK
<1>1. Init => Kept
  <2> SUFFICES ASSUME Init PROVE Kept
    OBVIOUS
  <2>1. DaysOK /\ LinesOK
    BY DEF Init, Investigating, DaysOK, LinesOK, Investigated
  <2>2. QED
    BY <2>1, RowsNext
<1>2. Kept /\ [Next]_vars => Kept'
  BY RowsNext, DaysNext, LinesNext
<1>3. Kept => ComparisonsExact
  <2> SUFFICES ASSUME Kept, Reporting, Counting, NEW d \in Days
               PROVE  /\ \A key \in KeysOf(d) : Comparable(key) =>
                           /\ \A i \in LoggedRows(d) : KeyOf(rows[i])[3]
                           /\ \E i \in ProviderLines(d) :
                                /\ opts.provider.counts[i].model = key[2]
                                /\ RequestDifference(key)
                                   = opts.provider.counts[i].requests
                                     - Cardinality({j \in LoggedRows(d) : KeyOf(rows[j])[2] = key[2]})
                      /\ ProviderDiffers(d) =>
                           /\ \A t \in d * Day..(d + 1) * Day - 1 : InPeriods(t)
                           /\ \A i \in LoggedRows(d) : \E j \in ProviderLines(d) :
                                 KeyOf(rows[i]) = <<d, opts.provider.counts[j].model, TRUE>>
                           /\ SumFunctionOnSet([i \in ProviderLines(d) |-> opts.provider.counts[i].requests],
                                               ProviderLines(d)) # Cardinality(LoggedRows(d))
    BY DEF ComparisonsExact, Total, Count
  <2>1. Investigated /\ pc # "load"
    BY DEF Reporting, Investigated
  <2>2. ASSUME NEW key \in KeysOf(d), Comparable(key)
        PROVE  /\ \A i \in LoggedRows(d) : KeyOf(rows[i])[3]
               /\ \E i \in ProviderLines(d) :
                    /\ Lines[i].model = key[2]
                    /\ RequestDifference(key)
                       = Lines[i].requests - Cardinality({j \in LoggedRows(d) : KeyOf(rows[j])[2] = key[2]})
    BY <2>1, <2>2, DifferenceExact
  <2>3. ASSUME ProviderDiffers(d)
        PROVE  /\ \A t \in d * Day..(d + 1) * Day - 1 : InPeriods(t)
               /\ \A i \in LoggedRows(d) : \E j \in ProviderLines(d) :
                     KeyOf(rows[i]) = <<d, opts.provider.counts[j].model, TRUE>>
               /\ SumFunctionOnSet([i \in ProviderLines(d) |-> Lines[i].requests], ProviderLines(d))
                  # Cardinality(LoggedRows(d))
    <3>1. /\ \A t \in d * Day..(d + 1) * Day - 1 : InPeriods(t)
          /\ \A i \in LoggedRows(d) : \E j \in ProviderLines(d) : KeyOf(rows[i]) = LineKey(j)
          /\ SumFunctionOnSet([i \in ProviderLines(d) |-> Lines[i].requests], ProviderLines(d))
             # Cardinality(LoggedRows(d))
      BY <2>1, <2>3, DayExact
    <3>2. \A j \in ProviderLines(d) : LineKey(j) = <<d, opts.provider.counts[j].model, TRUE>>
      BY DEF ProviderLines, LineKey, Lines
    <3>3. QED
      BY <3>1, <3>2
  <2>4. QED
    BY <2>2, <2>3 DEF Lines
<1>4. QED
  BY <1>1, <1>2, <1>3, PTL DEF Spec
-----------------------------------------------------------------------------
(* Limits.                                                                  *)

\* A list without repetitions is as long as the set of its elements.
LEMMA ListLength ==
    ASSUME NEW S, NEW q \in Seq(S), IsInjective(q)
    PROVE  IsFiniteSet(ToSet(q)) /\ Cardinality(ToSet(q)) = Len(q)
<1>1. q \in [1..Len(q) -> ToSet(q)] /\ Len(q) \in Nat /\ DOMAIN q = 1..Len(q)
  BY DEF ToSet
<1>2. q \in Surjection(1..Len(q), ToSet(q))
  BY <1>1 DEF Surjection, ToSet
<1>3. q \in Injection(1..Len(q), ToSet(q))
  BY <1>1 DEF Injection, IsInjective
<1>4. IsFiniteSet(1..Len(q)) /\ Cardinality(1..Len(q)) = Len(q)
  <2>1. PICK n \in Nat : n = Len(q)
    BY <1>1
  <2>2. IsFiniteSet(1..n) /\ Cardinality(1..n) = IF 1 > n THEN 0 ELSE n - 1 + 1
    BY FS_Interval
  <2>3. Cardinality(1..n) = n
    BY <2>2
  <2>4. QED
    BY <2>1, <2>2, <2>3
<1>5. QED
  BY <1>2, <1>3, <1>4, FS_Surjection

\* Appending what a list does not hold makes it longer by that.
LEMMA ListAppend ==
    ASSUME NEW S, NEW q \in Seq(S), IsInjective(q), NEW x, x \notin ToSet(q)
    PROVE  /\ Append(q, x) \in Seq(S \cup {x}) /\ Len(Append(q, x)) = Len(q) + 1
           /\ IsInjective(Append(q, x)) /\ ToSet(Append(q, x)) = ToSet(q) \cup {x}
<1>1. /\ q \in Seq(S \cup {x}) /\ DOMAIN q = 1..Len(q) /\ Len(q) \in Nat
      /\ DOMAIN Append(q, x) = 1..Len(q) + 1 /\ Len(Append(q, x)) = Len(q) + 1
      /\ Append(q, x)[Len(q) + 1] = x /\ \A i \in DOMAIN q : Append(q, x)[i] = q[i]
  OBVIOUS
<1>2. Append(q, x) \in Seq(S \cup {x})
  BY <1>1
<1>3. \A i \in DOMAIN q : q[i] # x
  BY DEF ToSet
<1>4. PICK r : r = Append(q, x)
  OBVIOUS
<1>5. \A i \in DOMAIN r : i \in DOMAIN q \/ i = Len(q) + 1
  BY <1>1, <1>4
<1>6. IsInjective(r)
  BY <1>1, <1>3, <1>4, <1>5 DEF IsInjective
<1>7. ToSet(r) = ToSet(q) \cup {x}
  <2>1. \A i \in DOMAIN q : i \in DOMAIN r
    BY <1>1, <1>4
  <2>2. Len(q) + 1 \in DOMAIN r
    BY <1>1, <1>4
  <2>3. QED
    BY <1>1, <1>4, <1>5, <2>1, <2>2 DEF ToSet
<1>8. QED
  BY <1>1, <1>2, <1>4, <1>6, <1>7

\* Every step leaves the accounts alone, loads the files, or visits a record
\* of an investigation that is not refused.
LEMMA AccountSteps ==
    ASSUME RowsOK, [Next]_vars
    PROVE  \/ UNCHANGED <<auditVars, agentVars, providerVars, windows, outside>> /\ Len(rows) <= Len(rows')
           \/ /\ pc = "load" /\ LoadCounts /\ ~(Counting /\ ProviderRefused)
              /\ UNCHANGED <<rows, auditVars, agentVars, windows, outside>>
           \/ \E row \in Stream : Passes(row) /\ outside' = outside + 1
           \/ opts.command = "investigate" /\ \E row \in Stream : Counts(row) /\ outside' = outside
<1>1. Len(rows) \in Nat /\ \A row : Len(Append(rows, row)) = Len(rows) + 1
  BY DEF RowsOK
<1>2. CASE Load
  <2>1. UNCHANGED <<rows, auditVars, agentVars, windows, outside>>
    BY <1>2 DEF Load
  <2>2. CASE Counting /\ ProviderRefused
    <3>1. UNCHANGED providerVars
      BY <1>2, <2>2 DEF Load
    <3>2. QED
      BY <1>1, <2>1, <3>1
  <2>3. CASE ~(Counting /\ ProviderRefused)
    <3>1. LoadCounts /\ pc = "load"
      BY <1>2, <2>3 DEF Load
    <3>2. QED
      BY <2>1, <2>3, <3>1
  <2>4. QED
    BY <2>2, <2>3
<1>3. ASSUME NEW row \in opts.explored, Investigate(row)
      PROVE  \/ UNCHANGED <<auditVars, agentVars, providerVars, windows, outside>> /\ Len(rows) <= Len(rows')
             \/ row \in Stream /\ Passes(row) /\ outside' = outside + 1
             \/ opts.command = "investigate" /\ row \in Stream /\ Counts(row) /\ outside' = outside
  <2>1. row \in Stream
    BY SpendRowsAssumption DEF RowsOK
  <2>2. CASE Refuse(row)
    BY <1>1, <2>2 DEF Refuse, accounts
  <2>3. CASE SideOf(row.t) = 0 /\ ~Refuse(row)
    BY <1>3, <2>1, <2>3 DEF Investigate, Passes, Grows, Visit
  <2>4. CASE SideOf(row.t) # 0 /\ ~Refuse(row)
    BY <1>3, <2>1, <2>4 DEF Investigate, Counts, Grows, Visit, Account, Investigating
  <2>5. QED
    BY <2>2, <2>3, <2>4
<1>4. ASSUME NEW row \in opts.explored, WhatIfRow(row)
      PROVE  UNCHANGED <<auditVars, agentVars, providerVars, windows, outside>> /\ Len(rows) <= Len(rows')
  BY <1>1, <1>4 DEF WhatIfRow, Refuse, Visit, accounts
<1>5. CASE Report \/ EndWhatIf
  <2>1. UNCHANGED <<rows, accounts>>
    BY <1>5 DEF Report, EndWhatIf
  <2>2. UNCHANGED <<auditVars, agentVars, providerVars, windows, outside>>
    BY <2>1 DEF accounts
  <2>3. QED
    BY <1>1, <2>1, <2>2
<1>6. CASE UNCHANGED vars \/ Done
  BY <1>1, <1>6 DEF Done, vars, rowVars
<1>7. QED
  BY <1>2, <1>3, <1>4, <1>5, <1>6 DEF Next

\* What is added where there is room, or was there already, fits.
LEMMA RoomForOne ==
    ASSUME NEW S, IsFiniteSet(S), NEW x, NEW n \in Nat, Cardinality(S) <= n, x \in S \/ ~(Cardinality(S) >= n)
    PROVE  IsFiniteSet(S \cup {x}) /\ Cardinality(S \cup {x}) <= n
<1>1. Cardinality(S) \in Nat
  BY FS_CardinalityType
<1>2. CASE x \in S
  <2>1. S \cup {x} = S
    BY <1>2
  <2>2. QED
    BY <2>1
<1>3. CASE x \notin S
  <2>1. IsFiniteSet(S \cup {x}) /\ Cardinality(S \cup {x}) = Cardinality(S) + 1
    BY <1>3, FS_AddElement
  <2>2. QED
    BY <1>1, <1>3, <2>1
<1>4. QED
  BY <1>2, <1>3

\* Tokens that were found to fit stay in the range of a counter.
LEMMA PlusFits ==
    ASSUME NEW w \in Windows, \A z \in Sides : w[z]["tokens"] <= MaxCount, NEW s \in Sides, NEW row \in Stream,
           ~Overflows(w, s, row)
    PROVE  /\ Plus(w, s, Worth(row)) \in Windows
           /\ \A z \in Sides : Plus(w, s, Worth(row))[z]["tokens"] <= MaxCount
<1>1. PICK d \in [Measures -> Nat] : d = Worth(row) /\ d["tokens"] = Tokens(row)
  BY WorthType
<1>2. PICK u \in Windows : /\ u = Plus(w, s, d)
                          /\ \A z \in Sides, m \in Measures : u[z][m] = w[z][m] + IF z = s THEN d[m] ELSE 0
  BY WindowGains
<1>3. "tokens" \in Measures /\ MaxCount \in Nat /\ d["tokens"] \in Nat /\ \A z \in Sides : w[z]["tokens"] \in Nat
  <2>1. "tokens" \in Measures
    BY DEF Measures
  <2>2. MaxCount \in Nat
    BY SpendRowsAssumption
  <2>3. QED
    BY <2>1, <2>2 DEF Windows
<1>4. w[s]["tokens"] + d["tokens"] <= MaxCount
  BY <1>1, <1>3 DEF Overflows
<1>5. ASSUME NEW z \in Sides PROVE u[z]["tokens"] <= MaxCount
  <2>1. u[z]["tokens"] = w[z]["tokens"] + IF z = s THEN d["tokens"] ELSE 0
    BY <1>2, <1>3
  <2>2. QED
    BY <1>3, <1>4, <2>1
<1>6. QED
  BY <1>1, <1>2, <1>5

\* The registers of the routing audit.
AuditRegisters ==
    /\ ids \in [Kinds -> Seq(Ids)]
    /\ \A kind \in Kinds : Len(ids[kind]) <= Limit[kind] /\ IsInjective(ids[kind])
    /\ IsFiniteSet(DOMAIN cohorts) /\ Cardinality(DOMAIN cohorts) <= MaxCohorts
    /\ IsFiniteSet(DOMAIN cells) /\ Cardinality(DOMAIN cells) <= MaxCells
    /\ totals \in Windows /\ \A s \in Sides : totals[s]["tokens"] <= MaxCount

\* Whatever is audited was found to fit.
LEMMA AuditRegistersKept ==
    ASSUME RowsOK, AuditRegisters, opts.command = "investigate", NEW row \in Stream, Counts(row)
    PROVE  AuditRegisters'
<1>1. PICK s \in Sides : s = SideOf(row.t)
  BY DEF Counts, SideOf, Sides
<1>2. CASE ~(opts.audit /\ Supported(row) /\ InScope(row))
  <2>1. UNCHANGED <<ids, totals, cohorts, cells>>
    BY <1>2 DEF Counts, Account, AuditAdd, AddRaw
  <2>2. QED
    BY <2>1 DEF AuditRegisters
<1>3. CASE opts.audit /\ Supported(row) /\ InScope(row)
  <2>1. /\ \A kind \in Kinds : ~Full(kind, IdOf(row, kind))
        /\ CohortOf(row) \in DOMAIN cohorts \/ ~(Cardinality(DOMAIN cohorts) >= MaxCohorts)
        /\ CellOf(row) \in DOMAIN cells \/ ~(Cardinality(DOMAIN cells) >= MaxCells)
        /\ ~Overflows(totals, s, row)
    BY <1>1, <1>3 DEF Counts, Refused, AuditRefuses
  <2>2. /\ ids' = [kind \in Kinds |-> IF Registered(kind, IdOf(row, kind)) THEN ids[kind]
                                      ELSE Append(ids[kind], IdOf(row, kind))]
        /\ totals' = Plus(totals, s, Worth(row))
        /\ DOMAIN cohorts' = DOMAIN cohorts \cup {CohortOf(row)}
        /\ DOMAIN cells' = DOMAIN cells \cup {CellOf(row)}
    BY <1>1, <1>3 DEF Counts, Account, AuditAdd, AddCell, Credit
  <2>3. ASSUME NEW kind \in Kinds
        PROVE  ids'[kind] \in Seq(Ids) /\ Len(ids'[kind]) <= Limit[kind] /\ IsInjective(ids'[kind])
    <3>1. PICK q \in Seq(Ids) : q = ids[kind] /\ Len(q) <= Limit[kind] /\ IsInjective(q)
      BY DEF AuditRegisters
    <3>2. CASE Registered(kind, IdOf(row, kind))
      BY <2>2, <3>1, <3>2
    <3>3. CASE ~Registered(kind, IdOf(row, kind))
      <4>1. PICK x \in Ids : x = IdOf(row, kind)
        BY <3>3, IdType DEF Registered
      <4>2. ids'[kind] = Append(q, x) /\ x \notin ToSet(q)
        BY <2>2, <3>1, <3>3, <4>1 DEF Registered, ToSet
      <4>3. ~(Len(q) >= Limit[kind])
        BY <2>1, <3>1, <3>3 DEF Full
      <4>4. Limit[kind] \in Nat /\ Len(q) \in Nat
        BY RoutingAssumption DEF Limit, Kinds
      <4>5. IsInjective(Append(q, x)) /\ Len(Append(q, x)) = Len(q) + 1
        BY <3>1, <4>2, ListAppend
      <4>6. QED
        BY <4>2, <4>3, <4>4, <4>5
    <3>4. QED
      BY <3>2, <3>3
  <2>5. MaxCohorts \in Nat /\ MaxCells \in Nat /\ MaxCount \in Nat
    BY RoutingAssumption, SpendRowsAssumption
  <2>6. IsFiniteSet(DOMAIN cohorts') /\ Cardinality(DOMAIN cohorts') <= MaxCohorts
    <3>1. PICK S : S = DOMAIN cohorts
      OBVIOUS
    <3>2. IsFiniteSet(S) /\ Cardinality(S) <= MaxCohorts /\ (CohortOf(row) \in S \/ ~(Cardinality(S) >= MaxCohorts))
      BY <2>1, <3>1 DEF AuditRegisters
    <3>3. PICK x : x = CohortOf(row)
      OBVIOUS
    <3>4. PICK n \in Nat : n = MaxCohorts
      BY <2>5
    <3>5. IsFiniteSet(S \cup {x}) /\ Cardinality(S \cup {x}) <= n
      BY <3>2, <3>3, <3>4, RoomForOne
    <3>6. QED
      BY <2>2, <3>1, <3>3, <3>4, <3>5
  <2>7. IsFiniteSet(DOMAIN cells') /\ Cardinality(DOMAIN cells') <= MaxCells
    <3>1. PICK S : S = DOMAIN cells
      OBVIOUS
    <3>2. IsFiniteSet(S) /\ Cardinality(S) <= MaxCells /\ (CellOf(row) \in S \/ ~(Cardinality(S) >= MaxCells))
      BY <2>1, <3>1 DEF AuditRegisters
    <3>3. PICK x : x = CellOf(row)
      OBVIOUS
    <3>4. PICK n \in Nat : n = MaxCells
      BY <2>5
    <3>5. IsFiniteSet(S \cup {x}) /\ Cardinality(S \cup {x}) <= n
      BY <3>2, <3>3, <3>4, RoomForOne
    <3>6. QED
      BY <2>2, <3>1, <3>3, <3>4, <3>5
  <2>8. totals' \in Windows /\ \A z \in Sides : totals'[z]["tokens"] <= MaxCount
    BY <2>1, <2>2, PlusFits DEF AuditRegisters
  <2>9. ids' \in [Kinds -> Seq(Ids)]
    BY <2>2, <2>3
  <2>10. QED
    BY <2>3, <2>6, <2>7, <2>8, <2>9 DEF AuditRegisters
<1>4. QED
  BY <1>2, <1>3

\* The register of agents.
AgentRegister == IsFiniteSet(DOMAIN agents) /\ Cardinality(DOMAIN agents) <= MaxAgents

\* An agent that is new was found to fit.
LEMMA AgentRegisterKept ==
    ASSUME AgentRegister, NEW row \in Stream, Counts(row)
    PROVE  AgentRegister'
<1>1. CASE agents' = agents
  BY <1>1 DEF AgentRegister
<1>2. CASE agents' # agents
  <2>1. /\ Attributing /\ Supported(row) /\ Resolve(row).state = "known"
        /\ agents' = Credit(agents, AgentId(row), Cardinality(DOMAIN agents), SideOf(row.t), Worth(row))
        /\ InScope(row)
    BY <1>2 DEF Counts, Account, AgentAdd, agentVars
  <2>2. AgentId(row) \in DOMAIN agents \/ Cardinality(DOMAIN agents) # MaxAgents
    BY <2>1 DEF Counts, Refused, AgentRefuses
  <2>3. DOMAIN agents' = DOMAIN agents \cup {AgentId(row)}
    BY <2>1 DEF Credit
  <2>4. PICK S : S = DOMAIN agents
    OBVIOUS
  <2>5. IsFiniteSet(S) /\ Cardinality(S) <= MaxAgents /\ Cardinality(S) \in Nat /\ MaxAgents \in Nat
    BY <2>4, AgentAssumption, FS_CardinalityType DEF AgentRegister
  <2>6. AgentId(row) \in S \/ ~(Cardinality(S) >= MaxAgents)
    BY <2>2, <2>4, <2>5
  <2>7. QED
    BY <2>3, <2>4, <2>5, <2>6, RoomForOne DEF AgentRegister
<1>3. QED
  BY <1>1, <1>2

\* The register of provider entries, and the order in which they were made.
EntryRegister ==
    /\ pc = "load" => opts.command = "investigate"
    /\ IsFiniteSet(DOMAIN entries) /\ Cardinality(DOMAIN entries) <= MaxProviderRows
    /\ order \in Seq(DOMAIN entries) /\ IsInjective(order) /\ ToSet(order) = DOMAIN entries

\* An entry that is new was found to fit.
LEMMA EntryRegisterKept ==
    ASSUME EntryRegister, pc' # "load", NEW row \in Stream, Counts(row)
    PROVE  EntryRegister'
<1>1. CountRow(row) /\ ~ProviderRefuses(row)
  BY DEF Counts, Account, Refused
<1>2. CASE ~Counting
  BY <1>1, <1>2 DEF CountRow, EntryRegister
<1>3. CASE Counting /\ KeyOf(row) \in DOMAIN entries
  <2>1. order' = order /\ DOMAIN entries' = DOMAIN entries
    BY <1>1, <1>3 DEF CountRow
  <2>2. QED
    BY <2>1 DEF EntryRegister
<1>4. CASE Counting /\ KeyOf(row) \notin DOMAIN entries
  <2>1. PICK k : k = KeyOf(row)
    OBVIOUS
  <2>2. PICK S : S = DOMAIN entries
    OBVIOUS
  <2>3. order' = Append(order, k) /\ DOMAIN entries' = S \cup {k} /\ k \notin S
    BY <1>1, <1>4, <2>1, <2>2 DEF CountRow
  <2>4. /\ IsFiniteSet(S) /\ Cardinality(S) <= MaxProviderRows /\ Cardinality(S) \in Nat /\ MaxProviderRows \in Nat
        /\ order \in Seq(S) /\ IsInjective(order) /\ ToSet(order) = S
    BY <2>2, ProviderAssumption, FS_CardinalityType DEF EntryRegister
  <2>5. Cardinality(S) # MaxProviderRows
    BY <1>1, <1>4, <2>1, <2>2 DEF ProviderRefuses
  <2>6. IsFiniteSet(S \cup {k}) /\ Cardinality(S \cup {k}) <= MaxProviderRows
    <3>1. k \in S \/ ~(Cardinality(S) >= MaxProviderRows)
      BY <2>4, <2>5
    <3>2. QED
      BY <2>4, <3>1, RoomForOne
  <2>7. Append(order, k) \in Seq(S \cup {k}) /\ IsInjective(Append(order, k)) /\ ToSet(Append(order, k)) = S \cup {k}
    BY <2>3, <2>4, ListAppend
  <2>8. QED
    BY <2>3, <2>6, <2>7 DEF EntryRegister
<1>5. QED
  BY <1>2, <1>3, <1>4

\* A counts file within the limit fills the register within the limit.
LEMMA EntryRegisterLoaded ==
    ASSUME RowsOK, EntryRegister, pc = "load", pc' # "load", LoadCounts, ~(Counting /\ ProviderRefused)
    PROVE  EntryRegister'
<1>1. CASE ~Counting
  BY <1>1 DEF LoadCounts, EntryRegister
<1>2. CASE Counting
  <2>1. Lines \in Seq(CountLines)
    BY <1>2, ProviderAssumption DEF RowsOK, EntryRegister, Counting, Lines
  <2>2. PICK n \in Nat : n = Len(Lines) /\ DOMAIN Lines = 1..n
    BY <2>1
  <2>3. order' = [i \in DOMAIN Lines |-> LineKey(i)] /\ DOMAIN entries' = {LineKey(i) : i \in DOMAIN Lines}
    BY <1>2 DEF LoadCounts, Lines, LineKey
  <2>4. PICK q : q = order'
    OBVIOUS
  <2>5. q = [i \in 1..n |-> LineKey(i)] /\ DOMAIN entries' = {q[i] : i \in 1..n}
    BY <2>2, <2>3, <2>4
  <2>6. \A i, j \in 1..n : q[i] = q[j] => i = j
    <3>1. \A i, j \in DOMAIN Lines : <<Lines[i].day, Lines[i].model>> = <<Lines[j].day, Lines[j].model>> => i = j
      BY <1>2 DEF ProviderRefused, Distinct, Lines
    <3>2. QED
      BY <2>2, <2>5, <3>1, LineKeys
  <2>7. IsInjective(q) /\ ToSet(q) = DOMAIN entries' /\ q \in Seq(DOMAIN entries')
    BY <2>5, <2>6 DEF IsInjective, ToSet
  <2>8. Len(q) = n
    BY <2>5
  <2>9. n <= MaxProviderRows
    <3>1. MaxProviderRows \in Nat
      BY ProviderAssumption
    <3>2. ~(n > MaxProviderRows)
      BY <1>2, <2>2 DEF ProviderRefused, Lines
    <3>3. QED
      BY <2>2, <3>1, <3>2
  <2>10. IsFiniteSet(DOMAIN entries') /\ Cardinality(DOMAIN entries') = n
    BY <2>7, <2>8, ListLength
  <2>11. QED
    BY <2>4, <2>7, <2>9, <2>10 DEF EntryRegister
<1>3. QED
  BY <1>1, <1>2

\* Windows and counters.
CountersOK ==
    /\ windows \in Windows /\ \A s \in Sides : windows[s]["tokens"] <= MaxCount
    /\ outside \in 0..Len(rows)
    /\ {"covered", "excluded", "moves"} \subseteq DOMAIN calc /\ calc.covered \in 0..Len(rows)
    /\ {"rows", "outside"} \subseteq DOMAIN source /\ source.rows \in 0..Len(rows)

\* A record raises each counter by at most one.
LEMMA CountersNext == RowsOK /\ CountersOK /\ [Next]_vars => CountersOK'
<1> SUFFICES ASSUME RowsOK, CountersOK, [Next]_vars PROVE CountersOK'
  OBVIOUS
<1>1. PICK n \in Nat : n = Len(rows)
  BY DEF RowsOK
<1>2. \A row : Len(Append(rows, row)) = n + 1
  BY <1>1 DEF RowsOK
<1>3. PICK k \in 0..n, m \in 0..n, o \in 0..n : k = calc.covered /\ m = source.rows /\ o = outside
  BY <1>1 DEF CountersOK
<1>4. ASSUME UNCHANGED <<calc, source, windows, outside>>, Len(rows') \in {n, n + 1} PROVE CountersOK'
  BY <1>1, <1>3, <1>4 DEF CountersOK
<1>5. CASE Load \/ Report \/ EndWhatIf \/ Done \/ UNCHANGED vars
  BY <1>1, <1>4, <1>5 DEF Load, Report, EndWhatIf, Done, vars, accounts, rowVars, whatIfVars
<1>6. ASSUME NEW row, Refuse(row) PROVE CountersOK'
  BY <1>1, <1>2, <1>4, <1>6 DEF Refuse, accounts, whatIfVars
<1>7. ASSUME NEW row \in opts.explored, Investigate(row), ~Refuse(row) PROVE CountersOK'
  <2>1. row \in Stream
    BY SpendRowsAssumption DEF RowsOK
  <2>2. Len(rows') = n + 1 /\ UNCHANGED <<calc, source>>
    BY <1>2, <1>7 DEF Investigate, Account, Visit, whatIfVars
  <2>3. CASE SideOf(row.t) = 0
    <3>1. windows' = windows /\ outside' = o + 1
      BY <1>3, <1>7, <2>3 DEF Investigate
    <3>2. QED
      BY <1>1, <1>3, <2>2, <3>1 DEF CountersOK
  <2>4. CASE SideOf(row.t) # 0
    <3>1. PICK s \in Sides : s = SideOf(row.t)
      BY <2>4 DEF SideOf, Sides
    <3>2. ~Refused(row, s) /\ Account(row, s)
      BY <1>7, <2>4, <3>1 DEF Investigate
    <3>3. outside' = outside
      BY <3>2 DEF Account
    <3>4. windows' = windows \/ (windows' = Plus(windows, s, Worth(row)) /\ ~Overflows(windows, s, row))
      BY <3>2 DEF Account, Refused
    <3>5. windows' \in Windows /\ \A z \in Sides : windows'[z]["tokens"] <= MaxCount
      BY <2>1, <3>4, PlusFits DEF CountersOK
    <3>6. QED
      BY <1>1, <1>3, <2>2, <3>3, <3>5 DEF CountersOK
  <2>5. QED
    BY <2>3, <2>4
<1>8. ASSUME NEW row \in opts.explored, WhatIfRow(row), ~Refuse(row) PROVE CountersOK'
  <2>1. Len(rows') = n + 1 /\ UNCHANGED <<windows, outside>>
    BY <1>2, <1>8 DEF WhatIfRow, Visit, accounts
  <2>2. CASE ~Inside(opts.period, row.t)
    <3>1. calc' = calc /\ source' = [source EXCEPT !.outside = @ + 1]
      BY <1>8, <2>2 DEF WhatIfRow
    <3>2. source'.rows = m /\ DOMAIN source' = DOMAIN source
      BY <1>3, <3>1 DEF CountersOK
    <3>3. QED
      BY <1>1, <1>3, <2>1, <3>1, <3>2 DEF CountersOK
  <2>3. CASE Inside(opts.period, row.t)
    <3>1. Price(row)
      BY <1>8, <2>3 DEF WhatIfRow
    <3>2. source'.rows = m + 1 /\ DOMAIN source' = DOMAIN source
      BY <1>3, <3>1 DEF CountersOK, Price
    <3>3. calc' = Added(calc, row)
      BY <3>1 DEF Price
    <3>4. calc'.covered \in {k, k + 1} /\ DOMAIN calc' = DOMAIN calc
      BY <1>3, <3>3 DEF CountersOK, Added
    <3>5. QED
      BY <1>1, <1>3, <2>1, <3>2, <3>4 DEF CountersOK
  <2>4. QED
    BY <2>2, <2>3
<1>9. QED
  BY <1>5, <1>6, <1>7, <1>8 DEF Next

\* What is held, in any state.
HeldOK == RowsOK /\ AuditRegisters /\ AgentRegister /\ EntryRegister /\ CountersOK

\* At first nothing is held, and no step holds too much.
LEMMA HeldInit == Init => HeldOK
<1> SUFFICES ASSUME Init PROVE HeldOK
  OBVIOUS
<1>1. IsFiniteSet({}) /\ Cardinality({}) = 0
  BY FS_EmptySet
<1>2. AuditRegisters
  <2>1. ids = [k \in Kinds |-> <<>>] /\ cohorts = Empty /\ cells = Empty /\ totals = Zero
    BY DEF Init, AuditInit
  <2>2. \A kind \in Kinds : Limit[kind] \in Nat
    BY RoutingAssumption DEF Limit, Kinds
  <2>3. <<>> \in Seq(Ids) /\ Len(<<>>) = 0 /\ IsInjective(<<>>)
    BY DEF IsInjective
  <2>4. DOMAIN cohorts = {} /\ DOMAIN cells = {}
    BY <2>1 DEF Empty
  <2>5. MaxCohorts \in Nat /\ MaxCells \in Nat /\ MaxCount \in Nat
    BY RoutingAssumption, SpendRowsAssumption
  <2>6. totals \in Windows /\ \A s \in Sides : totals[s]["tokens"] = 0
    BY <2>1, ZeroWindow DEF Measures
  <2>7. \A kind \in Kinds : Len(ids[kind]) <= Limit[kind] /\ IsInjective(ids[kind])
    <3>1. TAKE kind \in Kinds
    <3>2. ids[kind] = <<>>
      BY <2>1
    <3>3. QED
      BY <2>2, <2>3, <3>2
  <2>8. ids \in [Kinds -> Seq(Ids)]
    BY <2>1, <2>3
  <2>9. QED
    BY <1>1, <2>4, <2>5, <2>6, <2>7, <2>8 DEF AuditRegisters
<1>3. AgentRegister
  <2>1. DOMAIN agents = {} /\ MaxAgents \in Nat
    BY AgentAssumption DEF Init, AgentInit
  <2>2. QED
    BY <1>1, <2>1 DEF AgentRegister
<1>4. EntryRegister
  <2>1. DOMAIN entries = {} /\ order = <<>> /\ MaxProviderRows \in Nat
    BY ProviderAssumption DEF Init, ProviderInit
  <2>2. ToSet(order) = {} /\ IsInjective(order) /\ order \in Seq({})
    BY <2>1 DEF ToSet, IsInjective
  <2>3. pc = "load" => opts.command = "investigate"
    BY DEF Init, Investigating
  <2>4. QED
    BY <1>1, <2>1, <2>2, <2>3 DEF EntryRegister
<1>5. CountersOK
  <2>1. Len(rows) = 0 /\ outside = 0 /\ windows = Zero
    BY DEF Init
  <2>2. windows \in Windows /\ \A s \in Sides : windows[s]["tokens"] = 0
    BY <2>1, ZeroWindow DEF Measures
  <2>3. MaxCount \in Nat
    BY SpendRowsAssumption
  <2>4. \A n : {"covered", "excluded", "moves"} \subseteq DOMAIN NewCalculator(n) /\ NewCalculator(n).covered = 0
    BY DEF NewCalculator
  <2>5. {"covered", "excluded", "moves"} \subseteq DOMAIN calc /\ calc.covered = 0
    BY <2>4 DEF Init, WhatIfInit
  <2>6. {"rows", "outside"} \subseteq DOMAIN source /\ source.rows = 0
    BY DEF Init, WhatIfInit
  <2>7. QED
    BY <2>1, <2>2, <2>3, <2>5, <2>6 DEF CountersOK
<1>6. QED
  BY <1>2, <1>3, <1>4, <1>5, RowsNext DEF HeldOK

\* Every step keeps what is held within the limits.
LEMMA HeldNext == HeldOK /\ [Next]_vars => HeldOK'
<1> SUFFICES ASSUME HeldOK, [Next]_vars PROVE HeldOK'
  OBVIOUS
<1>1. RowsOK /\ RowsOK' /\ CountersOK'
  BY RowsNext, CountersNext DEF HeldOK
<1>2. pc' = "load" => opts'.command = "investigate"
  <2>1. pc' = "load" => pc = "load" /\ opts' = opts
    BY DEF Next, Load, Investigate, Refuse, Account, Visit, Report, WhatIfRow, EndWhatIf, Done, vars, rowVars
  <2>2. QED
    BY <2>1 DEF HeldOK, EntryRegister
<1>3. CASE UNCHANGED <<auditVars, agentVars, providerVars>>
  <2>1. AuditRegisters' /\ AgentRegister'
    BY <1>3 DEF HeldOK, AuditRegisters, AgentRegister, auditVars, agentVars
  <2>2. EntryRegister'
    BY <1>2, <1>3 DEF HeldOK, EntryRegister, providerVars
  <2>3. QED
    BY <1>1, <2>1, <2>2 DEF HeldOK
<1>4. CASE pc = "load" /\ LoadCounts /\ ~(Counting /\ ProviderRefused) /\ UNCHANGED <<auditVars, agentVars>>
  <2>1. AuditRegisters' /\ AgentRegister'
    BY <1>4 DEF HeldOK, AuditRegisters, AgentRegister, auditVars, agentVars
  <2>2. CASE pc' # "load"
    BY <1>1, <1>4, <2>1, <2>2, EntryRegisterLoaded DEF HeldOK
  <2>3. CASE pc' = "load"
    <3>1. UNCHANGED <<auditVars, agentVars, providerVars>>
      BY <1>4, <2>3 DEF Next, Load, Investigate, Report, WhatIfRow, EndWhatIf, Done, vars
    <3>2. QED
      BY <1>3, <3>1
  <2>4. QED
    BY <2>2, <2>3
<1>5. ASSUME opts.command = "investigate", NEW row \in Stream, Counts(row) PROVE HeldOK'
  <2>1. AuditRegisters' /\ AgentRegister'
    BY <1>1, <1>5, AuditRegistersKept, AgentRegisterKept DEF HeldOK
  <2>2. EntryRegister'
    <3>1. CASE pc' # "load"
      BY <1>5, <3>1, EntryRegisterKept DEF HeldOK
    <3>2. CASE pc' = "load"
      <4>1. Len(rows') = Len(rows) + 1 /\ Len(rows) \in Nat
        BY <1>1, <1>5 DEF Counts, Grows, RowsOK
      <4>2. rows' = rows
        BY <3>2 DEF Next, Load, Investigate, Report, WhatIfRow, EndWhatIf, Done, vars, rowVars, Refuse, Account, Visit
      <4>3. QED
        BY <4>1, <4>2
    <3>3. QED
      BY <3>1, <3>2
  <2>3. QED
    BY <1>1, <2>1, <2>2 DEF HeldOK
<1>6. QED
  BY <1>1, <1>3, <1>4, <1>5, AccountSteps DEF Passes

\* What is held is what the property allows.
LEMMA HeldFollows == HeldOK => TypeOK
<1> SUFFICES ASSUME HeldOK PROVE TypeOK
  OBVIOUS
<1>1. RowsOK /\ AuditRegisters /\ AgentRegister /\ EntryRegister /\ CountersOK
  BY DEF HeldOK
<1>2. PICK n \in Nat : n = Len(rows) /\ n <= MaxStream
  BY <1>1 DEF RowsOK
<1>3. MaxStream \in Nat
  BY SpendRowsAssumption
<1>4. outside \in 0..MaxStream /\ calc.covered \in 0..MaxStream /\ source.rows \in 0..MaxStream
  BY <1>1, <1>2, <1>3 DEF CountersOK
<1>5. QED
  BY <1>1, <1>4 DEF TypeOK, RowsOK, AuditRegisters, AgentRegister, EntryRegister, CountersOK
-----------------------------------------------------------------------------
(* Nothing counts towards a limit but what a record brought.                *)

AuditedIds(kind) == {IdOf(rows[i], kind) : i \in Audited}
AuditedCohorts == {CohortOf(rows[i]) : i \in Audited}
AuditedCells == {CellOf(rows[i]) : i \in Audited}
NamedRow(row) == SideOf(row.t) # 0 /\ InScope(row) /\ Supported(row) /\ Resolve(row).state = "known"
Named == {i \in DOMAIN rows : NamedRow(rows[i])}
NamedAgents == {AgentId(rows[i]) : i \in Named}
AllTokens == Recorded(rows, DOMAIN rows, "tokens")

\* What a record adds to these sets.
LEMMA ImagesMore ==
    ASSUME RowsOK, NEW row, Grows(row)
    PROVE  /\ \A kind : AuditedIds(kind)' = AuditedIds(kind) \cup IF AuditedRow(row) THEN {IdOf(row, kind)} ELSE {}
           /\ AuditedCohorts' = AuditedCohorts \cup IF AuditedRow(row) THEN {CohortOf(row)} ELSE {}
           /\ AuditedCells' = AuditedCells \cup IF AuditedRow(row) THEN {CellOf(row)} ELSE {}
           /\ NamedAgents' = NamedAgents \cup IF NamedRow(row) THEN {AgentId(row)} ELSE {}
<1>1. /\ DOMAIN rows' = DOMAIN rows \cup Newest /\ DOMAIN rows \cap Newest = {}
      /\ \A i \in DOMAIN rows : rows'[i] = rows[i]
      /\ rows'[Len(rows) + 1] = row
      /\ Audited' = Audited \cup IF AuditedRow(row) THEN Newest ELSE {}
  BY RowSets
<1>2. opts' = opts
  BY DEF Grows
<1>3. Audited \subseteq DOMAIN rows
  BY DEF Audited, InSide
<1>4. \A r : /\ \A kind : IdOf(r, kind)' = IdOf(r, kind)
             /\ CohortOf(r)' = CohortOf(r) /\ CellOf(r)' = CellOf(r)
  BY <1>2 DEF IdOf, CohortOf, CellOf
<1>5. \A r : (NamedRow(r)' <=> NamedRow(r)) /\ AgentId(r)' = AgentId(r)
  BY <1>2 DEF NamedRow, InScope, Observed, Match, SideOf, Inside, AgentId, Resolve
<1>6. \A kind : AuditedIds(kind)' = {IdOf(rows'[i], kind) : i \in Audited'}
  BY <1>2 DEF AuditedIds, IdOf
<1>7. AuditedCohorts' = {CohortOf(rows'[i]) : i \in Audited'} /\ AuditedCells' = {CellOf(rows'[i]) : i \in Audited'}
  BY <1>2 DEF AuditedCohorts, AuditedCells, CohortOf, CellOf, IdOf
<1>8. Named' = Named \cup IF NamedRow(row) THEN Newest ELSE {}
  <2>1. Named' = {i \in DOMAIN rows' : NamedRow(rows'[i])}
    BY <1>2 DEF Named, NamedRow, InScope, Observed, Match, SideOf, Inside, Resolve
  <2>2. QED
    BY <1>1, <2>1 DEF Named, Newest
<1>9. NamedAgents' = {AgentId(rows'[i]) : i \in Named'}
  BY <1>2 DEF NamedAgents, AgentId, Resolve
<1>10. \A i \in Audited \cup Named : rows'[i] = rows[i]
  BY <1>1, <1>3 DEF Named
<1>11. ASSUME NEW kind
       PROVE  AuditedIds(kind)' = AuditedIds(kind) \cup IF AuditedRow(row) THEN {IdOf(row, kind)} ELSE {}
  <2>1. AuditedIds(kind) = {IdOf(rows[i], kind) : i \in Audited}
    BY DEF AuditedIds
  <2>2. QED
    BY <1>1, <1>6, <1>10, <2>1 DEF Newest
<1>12. AuditedCohorts' = AuditedCohorts \cup IF AuditedRow(row) THEN {CohortOf(row)} ELSE {}
  BY <1>1, <1>7, <1>10 DEF AuditedCohorts, Newest
<1>13. AuditedCells' = AuditedCells \cup IF AuditedRow(row) THEN {CellOf(row)} ELSE {}
  BY <1>1, <1>7, <1>10 DEF AuditedCells, Newest
<1>14. NamedAgents' = NamedAgents \cup IF NamedRow(row) THEN {AgentId(row)} ELSE {}
  BY <1>1, <1>8, <1>9, <1>10 DEF NamedAgents, Newest
<1>15. QED
  BY <1>11, <1>12, <1>13, <1>14

\* A record that belongs to none of them adds nothing.
LEMMA ImagesKept ==
    ASSUME RowsOK, NEW row, Grows(row)
    PROVE  /\ ~AuditedRow(row) => /\ \A kind : AuditedIds(kind)' = AuditedIds(kind)
                                  /\ AuditedCohorts' = AuditedCohorts /\ AuditedCells' = AuditedCells
           /\ ~NamedRow(row) => NamedAgents' = NamedAgents
<1>1. ASSUME ~AuditedRow(row), NEW kind PROVE AuditedIds(kind)' = AuditedIds(kind)
  <2>1. AuditedIds(kind)' = AuditedIds(kind) \cup {}
    BY <1>1, ImagesMore
  <2>2. QED
    BY <2>1
<1>2. ASSUME ~AuditedRow(row) PROVE AuditedCohorts' = AuditedCohorts /\ AuditedCells' = AuditedCells
  BY <1>2, ImagesMore
<1>3. ASSUME ~NamedRow(row) PROVE NamedAgents' = NamedAgents
  BY <1>3, ImagesMore
<1>4. QED
  BY <1>1, <1>2, <1>3

\* Nothing is added while no record is read.
LEMMA ImagesSame ==
    ASSUME opts' = opts, rows' = rows
    PROVE  /\ \A kind : AuditedIds(kind)' = AuditedIds(kind)
           /\ AuditedCohorts' = AuditedCohorts /\ AuditedCells' = AuditedCells /\ NamedAgents' = NamedAgents
<1>1. Audited' = Audited
  BY DEF Audited, InSide, SideOf, Inside, Match
<1>2. Named' = Named
  BY DEF Named, NamedRow, InScope, Observed, Match, SideOf, Inside, Resolve
<1>3. \A kind : AuditedIds(kind)' = AuditedIds(kind)
  BY <1>1 DEF AuditedIds, IdOf
<1>4. AuditedCohorts' = AuditedCohorts /\ AuditedCells' = AuditedCells
  BY <1>1 DEF AuditedCohorts, AuditedCells, CohortOf, CellOf, IdOf
<1>5. NamedAgents' = NamedAgents
  BY <1>2 DEF NamedAgents, AgentId, Resolve
<1>6. QED
  BY <1>3, <1>4, <1>5

\* The registers hold the identities, cohorts and cells of the audited records,
\* and the agents of those with a known one; no window holds more tokens than
\* all records together.
ExactOK ==
    Investigated =>
      /\ opts.audit => /\ \A kind \in Kinds : ToSet(ids[kind]) = AuditedIds(kind) \ {NoId}
                       /\ DOMAIN cohorts = AuditedCohorts /\ DOMAIN cells = AuditedCells
      /\ Attributing => DOMAIN agents = NamedAgents
      /\ \A s \in Sides : windows[s]["tokens"] <= AllTokens

\* At first there are no records.
LEMMA ExactInit == Init => ExactOK
<1> SUFFICES ASSUME Init PROVE ExactOK
  OBVIOUS
<1>1. rows = <<>> /\ DOMAIN rows = {}
  BY DEF Init
<1>2. Audited = {} /\ Named = {}
  BY <1>1 DEF Audited, InSide, Named
<1>3. (\A kind : AuditedIds(kind) = {}) /\ AuditedCohorts = {} /\ AuditedCells = {} /\ NamedAgents = {}
  BY <1>2 DEF AuditedIds, AuditedCohorts, AuditedCells, NamedAgents
<1>4. (\A kind \in Kinds : ids[kind] = <<>>) /\ DOMAIN cohorts = {} /\ DOMAIN cells = {} /\ DOMAIN agents = {}
  BY DEF Init, AuditInit, AgentInit, Empty
<1>5. \A s \in Sides : windows[s]["tokens"] = 0
  BY ZeroWindow DEF Init, Measures
<1>6. AllTokens \in Nat
  <2>1. {} \in SUBSET DOMAIN rows /\ rows \in Seq(Stream) /\ "tokens" \in Measures /\ IsFiniteSet({})
    BY <1>1, FS_EmptySet DEF Measures
  <2>2. Recorded(rows, {}, "tokens") \in Nat
    BY <2>1, SumType DEF Recorded
  <2>3. QED
    BY <1>1, <2>2 DEF AllTokens
<1>7. ToSet(<<>>) = {}
  BY DEF ToSet
<1>8. \A kind \in Kinds : ToSet(ids[kind]) = AuditedIds(kind) \ {NoId}
  BY <1>3, <1>4, <1>7
<1>9. \A s \in Sides : windows[s]["tokens"] <= AllTokens
  BY <1>5, <1>6
<1>10. QED
  BY <1>3, <1>4, <1>8, <1>9 DEF ExactOK

\* All tokens together grow by those of a record.
LEMMA TokensMore ==
    ASSUME RowsOK, NEW row, Grows(row)
    PROVE  AllTokens \in Nat /\ Tokens(row) \in Nat /\ AllTokens' = AllTokens + Tokens(row)
<1>1. rows \in Seq(Stream) /\ row \in Stream /\ rows' = Append(rows, row)
  BY DEF RowsOK, Grows
<1>2. PICK I \in SUBSET DOMAIN rows : I = DOMAIN rows
  OBVIOUS
<1>3. DOMAIN Append(rows, row) = I \cup {Len(rows) + 1}
  BY <1>1, <1>2
<1>4. "tokens" \in Measures
  BY DEF Measures
<1>5. Recorded(rows, I, "tokens") \in Nat
      /\ Recorded(Append(rows, row), I \cup {Len(rows) + 1}, "tokens") = Recorded(rows, I, "tokens") + Worth(row)["tokens"]
  BY <1>1, <1>4, RecordedMore
<1>6. Worth(row)["tokens"] = Tokens(row) /\ Tokens(row) \in Nat
  BY <1>1, WorthType
<1>7. AllTokens = Recorded(rows, I, "tokens")
      /\ AllTokens' = Recorded(Append(rows, row), I \cup {Len(rows) + 1}, "tokens")
  BY <1>1, <1>2, <1>3 DEF AllTokens
<1>8. QED
  BY <1>5, <1>6, <1>7

\* A record of the audit brings its identities, its cohort and its cell.
LEMMA AuditExactly ==
    ASSUME HeldOK, ExactOK, Investigated, opts.audit, NEW row \in Stream, Counts(row)
    PROVE  /\ \A kind \in Kinds : ToSet(ids'[kind]) = AuditedIds(kind)' \ {NoId}
           /\ DOMAIN cohorts' = AuditedCohorts' /\ DOMAIN cells' = AuditedCells'
<1>1. RowsOK /\ AuditRegisters /\ Grows(row) /\ opts.command = "investigate"
  BY DEF HeldOK, Counts, Investigated
<1>2. /\ \A kind \in Kinds : ToSet(ids[kind]) = AuditedIds(kind) \ {NoId}
      /\ DOMAIN cohorts = AuditedCohorts /\ DOMAIN cells = AuditedCells
  BY DEF ExactOK
<1>3. CASE ~AuditedRow(row)
  <2>1. UNCHANGED <<ids, cohorts, cells>>
    BY <1>1, <1>3, AuditStep
  <2>2. (\A kind : AuditedIds(kind)' = AuditedIds(kind)) /\ AuditedCohorts' = AuditedCohorts /\ AuditedCells' = AuditedCells
    BY <1>1, <1>3, ImagesKept
  <2>3. QED
    BY <1>2, <2>1, <2>2
<1>4. CASE AuditedRow(row)
  <2>1. AddCell(row, SideOf(row.t))
    BY <1>1, <1>4, AuditStep
  <2>2. /\ \A kind : AuditedIds(kind)' = AuditedIds(kind) \cup {IdOf(row, kind)}
        /\ AuditedCohorts' = AuditedCohorts \cup {CohortOf(row)} /\ AuditedCells' = AuditedCells \cup {CellOf(row)}
    BY <1>1, <1>4, ImagesMore
  <2>3. /\ ids' = [kind \in Kinds |-> IF Registered(kind, IdOf(row, kind)) THEN ids[kind]
                                      ELSE Append(ids[kind], IdOf(row, kind))]
        /\ DOMAIN cohorts' = DOMAIN cohorts \cup {CohortOf(row)} /\ DOMAIN cells' = DOMAIN cells \cup {CellOf(row)}
    BY <2>1 DEF AddCell, Credit
  <2>4. ASSUME NEW kind \in Kinds PROVE ToSet(ids'[kind]) = AuditedIds(kind)' \ {NoId}
    <3>1. PICK q \in Seq(Ids) : q = ids[kind] /\ IsInjective(q)
      BY <1>1 DEF AuditRegisters
    <3>2. PICK x : x = IdOf(row, kind)
      OBVIOUS
    <3>3. Registered(kind, x) <=> x = NoId \/ x \in ToSet(q)
      BY <3>1 DEF Registered, ToSet
    <3>4. ToSet(q) = AuditedIds(kind) \ {NoId}
      BY <1>2, <3>1
    <3>5. CASE Registered(kind, x)
      BY <2>2, <2>3, <3>1, <3>2, <3>3, <3>4, <3>5
    <3>6. CASE ~Registered(kind, x)
      <4>1. ToSet(Append(q, x)) = ToSet(q) \cup {x} /\ x # NoId
        BY <3>1, <3>3, <3>6, ListAppend
      <4>2. ids'[kind] = Append(q, x)
        BY <2>3, <3>1, <3>2, <3>6
      <4>3. QED
        BY <2>2, <3>2, <3>4, <4>1, <4>2
    <3>7. QED
      BY <3>5, <3>6
  <2>5. QED
    BY <1>2, <2>2, <2>3, <2>4
<1>5. QED
  BY <1>3, <1>4

\* A record with a known agent brings that agent.
LEMMA AgentsExactly ==
    ASSUME HeldOK, ExactOK, Investigated, Attributing, NEW row \in Stream, Counts(row)
    PROVE  DOMAIN agents' = NamedAgents'
<1>1. RowsOK /\ Grows(row) /\ DOMAIN agents = NamedAgents
  BY DEF HeldOK, Counts, ExactOK
<1>2. NamedAgents' = NamedAgents \cup IF NamedRow(row) THEN {AgentId(row)} ELSE {}
  BY <1>1, ImagesMore
<1>3. CASE NamedRow(row)
  <2>1. agents' = Credit(agents, AgentId(row), Cardinality(DOMAIN agents), SideOf(row.t), Worth(row))
    BY <1>3 DEF NamedRow, Counts, Account, AgentAdd
  <2>2. DOMAIN agents' = DOMAIN agents \cup {AgentId(row)}
    BY <2>1 DEF Credit
  <2>3. QED
    BY <1>1, <1>2, <1>3, <2>2
<1>4. CASE ~NamedRow(row)
  <2>1. agents' = agents
    BY <1>4 DEF NamedRow, Counts, Account, AgentAdd, agentVars
  <2>2. QED
    BY <1>1, <1>2, <1>4, <2>1
<1>5. QED
  BY <1>3, <1>4

\* No window gains more tokens than the record has.
LEMMA TokensExactly ==
    ASSUME HeldOK, ExactOK, Investigated, NEW row \in Stream, Counts(row)
    PROVE  \A s \in Sides : windows'[s]["tokens"] <= AllTokens'
<1>1. RowsOK /\ Grows(row) /\ windows \in Windows /\ \A s \in Sides : windows[s]["tokens"] <= AllTokens
  BY DEF HeldOK, CountersOK, Counts, ExactOK
<1>2. PICK z \in Sides : z = SideOf(row.t)
  BY DEF Counts, SideOf, Sides
<1>3. windows' = windows \/ windows' = Plus(windows, z, Worth(row))
  BY <1>2 DEF Counts, Account
<1>4. PICK d \in [Measures -> Nat] : d = Worth(row) /\ d["tokens"] = Tokens(row)
  BY WorthType
<1>5. "tokens" \in Measures
  BY DEF Measures
<1>6. \A s \in Sides : Plus(windows, z, d)[s]["tokens"] = windows[s]["tokens"] + IF s = z THEN d["tokens"] ELSE 0
  BY <1>1, <1>5, WindowGains
<1>7. AllTokens \in Nat /\ Tokens(row) \in Nat /\ AllTokens' = AllTokens + Tokens(row)
  BY <1>1, TokensMore
<1>8. \A s \in Sides : windows[s]["tokens"] \in Nat
  BY <1>1, <1>5 DEF Windows
<1>9. ASSUME NEW s \in Sides PROVE windows'[s]["tokens"] <= AllTokens'
  <2>1. windows'[s]["tokens"] = windows[s]["tokens"]
        \/ windows'[s]["tokens"] = windows[s]["tokens"] + IF s = z THEN d["tokens"] ELSE 0
    BY <1>3, <1>4, <1>6
  <2>2. QED
    BY <1>1, <1>4, <1>7, <1>8, <2>1
<1>10. QED
  BY <1>9

\* Every step keeps the registers exact.
LEMMA ExactNext == HeldOK /\ ExactOK /\ [Next]_vars => ExactOK'
<1> SUFFICES ASSUME HeldOK, ExactOK, [Next]_vars, opts'.command = "investigate", pc' # "error"
             PROVE  ExactOK'
  BY DEF ExactOK, Investigated
<1>1. RowsOK /\ opts' = opts /\ opts.command = "investigate" /\ pc # "error" /\ Investigated
  BY RowsNext, InvestigationSteps DEF Investigated, HeldOK
<1>2. (Attributing' <=> Attributing)
  BY <1>1 DEF Attributing
<1>3. CASE UNCHANGED <<rows, auditVars, agentVars, windows>>
  <2>1. /\ \A kind : AuditedIds(kind)' = AuditedIds(kind)
        /\ AuditedCohorts' = AuditedCohorts /\ AuditedCells' = AuditedCells /\ NamedAgents' = NamedAgents
    BY <1>1, <1>3, ImagesSame
  <2>2. AllTokens' = AllTokens
    BY <1>3 DEF AllTokens
  <2>3. ids' = ids /\ cohorts' = cohorts /\ cells' = cells /\ agents' = agents /\ windows' = windows
    BY <1>3 DEF auditVars, agentVars
  <2>4. QED
    BY <1>1, <1>2, <2>1, <2>2, <2>3 DEF ExactOK
<1>4. ASSUME NEW row \in Stream, Passes(row) PROVE ExactOK'
  <2>1. Grows(row) /\ ids' = ids /\ cohorts' = cohorts /\ cells' = cells /\ agents' = agents /\ windows' = windows
        /\ ~AuditedRow(row) /\ ~NamedRow(row)
    BY <1>4 DEF Passes, auditVars, agentVars, AuditedRow, NamedRow
  <2>2. /\ \A kind : AuditedIds(kind)' = AuditedIds(kind)
        /\ AuditedCohorts' = AuditedCohorts /\ AuditedCells' = AuditedCells /\ NamedAgents' = NamedAgents
    BY <1>1, <2>1, ImagesKept
  <2>3. AllTokens \in Nat /\ Tokens(row) \in Nat /\ AllTokens' = AllTokens + Tokens(row)
    BY <1>1, <2>1, TokensMore
  <2>4. \A s \in Sides : windows[s]["tokens"] \in Nat /\ windows[s]["tokens"] <= AllTokens
    BY <1>1 DEF HeldOK, CountersOK, Windows, Measures, ExactOK
  <2>5. \A s \in Sides : windows'[s]["tokens"] <= AllTokens'
    BY <2>1, <2>3, <2>4
  <2>6. QED
    BY <1>1, <1>2, <2>1, <2>2, <2>5 DEF ExactOK
<1>5. ASSUME NEW row \in Stream, Counts(row) PROVE ExactOK'
  BY <1>1, <1>2, <1>5, AuditExactly, AgentsExactly, TokensExactly DEF ExactOK
<1>6. QED
  BY <1>1, <1>3, <1>4, <1>5, InvestigationSteps DEF Idle
-----------------------------------------------------------------------------
(* Refusals.                                                                *)

Visited == {i \in DOMAIN rows : SideOf(rows[i].t) # 0}
LoggedKeys == {KeyOf(rows[i]) : i \in Visited}

\* The records exceed a limit.
Over ==
    \/ opts.audit /\ \/ \E kind \in Kinds : Cardinality(AuditedIds(kind) \ {NoId}) > Limit[kind]
                     \/ Cardinality(AuditedCohorts) > MaxCohorts
                     \/ Cardinality(AuditedCells) > MaxCells
    \/ Attributing /\ Cardinality(NamedAgents) > MaxAgents
    \/ Counting /\ Cardinality(LoggedKeys \cup DOMAIN entries) > MaxProviderRows

\* That is what the property says.
LEMMA OverMeans ==
    ASSUME Investigating, pc # "load" /\ rows # <<>> /\ Sound /\ ~NothingToShow => (Over <=> pc = "error")
    PROVE  RefusedIffOverLimit
<1> DEFINE visited == {i \in DOMAIN rows : SideOf(rows[i].t) # 0}
           audited == IF opts.audit THEN {i \in visited : Match(rows[i]) = "matched" /\ Supported(rows[i])} ELSE {}
           named == IF Attributing THEN {i \in visited : /\ InScope(rows[i]) /\ Supported(rows[i])
                                                         /\ Resolve(rows[i]).state = "known"} ELSE {}
           keys == IF Counting THEN {KeyOf(rows[i]) : i \in visited} \cup DOMAIN entries ELSE {}
           over == \/ \E kind \in Kinds :
                        Cardinality({IdOf(rows[i], kind) : i \in audited} \ {NoId}) > Limit[kind]
                   \/ Cardinality({CohortOf(rows[i]) : i \in audited}) > MaxCohorts
                   \/ Cardinality({CellOf(rows[i]) : i \in audited}) > MaxCells
                   \/ Cardinality({AgentId(rows[i]) : i \in named}) > MaxAgents
                   \/ Cardinality(keys) > MaxProviderRows
<1>1. /\ \A kind \in Kinds : Limit[kind] \in Nat
      /\ MaxCohorts \in Nat /\ MaxCells \in Nat /\ MaxAgents \in Nat /\ MaxProviderRows \in Nat
  BY RoutingAssumption, AgentAssumption, ProviderAssumption DEF Limit, Kinds
<1>2. \A S : S = {} => \A n \in Nat : ~(Cardinality(S) > n)
  BY FS_EmptySet
<1>3. visited = Visited
  BY DEF Visited
<1>4. opts.audit => audited = Audited
  BY DEF Audited, InSide, SideOf
<1>5. Attributing => named = Named
  BY DEF Named, NamedRow
<1>6. Counting => keys = LoggedKeys \cup DOMAIN entries
  BY <1>3 DEF LoggedKeys
<1>7. (~opts.audit => audited = {}) /\ (~Attributing => named = {}) /\ (~Counting => keys = {})
  OBVIOUS
<1>8. RefusedIffOverLimit <=> (pc # "load" /\ rows # <<>> /\ Sound /\ ~NothingToShow => (over <=> pc = "error"))
  BY DEF RefusedIffOverLimit
<1> HIDE DEF visited, audited, named, keys
<1>9. (\E kind \in Kinds : Cardinality({IdOf(rows[i], kind) : i \in audited} \ {NoId}) > Limit[kind])
      <=> opts.audit /\ \E kind \in Kinds : Cardinality(AuditedIds(kind) \ {NoId}) > Limit[kind]
  <2>1. CASE opts.audit
    BY <1>4, <2>1 DEF AuditedIds
  <2>2. CASE ~opts.audit
    <3>1. ASSUME NEW kind \in Kinds PROVE ~(Cardinality({IdOf(rows[i], kind) : i \in audited} \ {NoId}) > Limit[kind])
      <4>1. PICK S : S = {IdOf(rows[i], kind) : i \in audited} \ {NoId}
        OBVIOUS
      <4>2. S = {}
        BY <1>7, <2>2, <4>1
      <4>3. ~(Cardinality(S) > Limit[kind])
        BY <1>1, <1>2, <4>2
      <4>4. QED
        BY <4>1, <4>3
    <3>2. QED
      BY <2>2, <3>1
  <2>3. QED
    BY <2>1, <2>2
<1>10. (Cardinality({CohortOf(rows[i]) : i \in audited}) > MaxCohorts)
       <=> opts.audit /\ Cardinality(AuditedCohorts) > MaxCohorts
  <2>1. CASE opts.audit
    BY <1>4, <2>1 DEF AuditedCohorts
  <2>2. CASE ~opts.audit
    <3>1. PICK S : S = {CohortOf(rows[i]) : i \in audited}
      OBVIOUS
    <3>2. S = {}
      BY <1>7, <2>2, <3>1
    <3>3. ~(Cardinality(S) > MaxCohorts)
      BY <1>1, <1>2, <3>2
    <3>4. QED
      BY <2>2, <3>1, <3>3
  <2>3. QED
    BY <2>1, <2>2
<1>11. (Cardinality({CellOf(rows[i]) : i \in audited}) > MaxCells)
       <=> opts.audit /\ Cardinality(AuditedCells) > MaxCells
  <2>1. CASE opts.audit
    BY <1>4, <2>1 DEF AuditedCells
  <2>2. CASE ~opts.audit
    <3>1. PICK S : S = {CellOf(rows[i]) : i \in audited}
      OBVIOUS
    <3>2. S = {}
      BY <1>7, <2>2, <3>1
    <3>3. ~(Cardinality(S) > MaxCells)
      BY <1>1, <1>2, <3>2
    <3>4. QED
      BY <2>2, <3>1, <3>3
  <2>3. QED
    BY <2>1, <2>2
<1>12. (Cardinality({AgentId(rows[i]) : i \in named}) > MaxAgents)
       <=> Attributing /\ Cardinality(NamedAgents) > MaxAgents
  <2>1. CASE Attributing
    BY <1>5, <2>1 DEF NamedAgents
  <2>2. CASE ~Attributing
    <3>1. PICK S : S = {AgentId(rows[i]) : i \in named}
      OBVIOUS
    <3>2. S = {}
      BY <1>7, <2>2, <3>1
    <3>3. ~(Cardinality(S) > MaxAgents)
      BY <1>1, <1>2, <3>2
    <3>4. QED
      BY <2>2, <3>1, <3>3
  <2>3. QED
    BY <2>1, <2>2
<1>13. (Cardinality(keys) > MaxProviderRows)
       <=> Counting /\ Cardinality(LoggedKeys \cup DOMAIN entries) > MaxProviderRows
  <2>1. CASE Counting
    <3>1. PICK S : S = keys
      OBVIOUS
    <3>2. S = LoggedKeys \cup DOMAIN entries
      BY <1>6, <2>1, <3>1
    <3>3. QED
      BY <2>1, <3>1, <3>2
  <2>2. CASE ~Counting
    <3>1. keys = {}
      BY <1>7, <2>2
    <3>2. ~(Cardinality(keys) > MaxProviderRows)
      BY <1>1, <1>2, <3>1
    <3>3. QED
      BY <2>2, <3>2
  <2>3. QED
    BY <2>1, <2>2
<1>14. over <=> Over
  BY <1>9, <1>10, <1>11, <1>12, <1>13 DEF Over
<1>15. QED
  BY <1>8, <1>14

\* A full set has no room for one more.
LEMMA OneTooMany ==
    ASSUME NEW S, IsFiniteSet(S), NEW x, x \notin S, NEW n \in Nat, Cardinality(S) >= n
    PROVE  Cardinality(S \cup {x}) > n
<1>1. Cardinality(S) \in Nat /\ Cardinality(S \cup {x}) = Cardinality(S) + 1
  BY FS_CardinalityType, FS_AddElement
<1>2. QED
  BY <1>1

\* The records with a key have no more tokens than all records together.
LEMMA UsedAtMost ==
    ASSUME RowsOK, NEW I \in SUBSET DOMAIN rows, NEW f \in {"input", "output"}
    PROVE  Used(rows, I, f) \in Nat /\ Used(rows, I, f) <= AllTokens
<1> DEFINE D == DOMAIN rows
           g == [i \in I |-> Usable(rows[i][f])]
           h == [i \in D |-> Usable(rows[i][f])]
           w == [i \in D |-> Worth(rows[i])["tokens"]]
<1>1. rows \in Seq(Stream) /\ I \in SUBSET D /\ D \in SUBSET D /\ \A i \in D : rows[i] \in Stream
  BY DEF RowsOK
<1>2. IsFiniteSet(D) /\ IsFiniteSet(I)
  <2>1. "tokens" \in Measures /\ \A r \in Stream : r \in Stream
    BY DEF Measures
  <2>2. D = 1..Len(rows) /\ Len(rows) \in Nat
    BY <1>1
  <2>3. IsFiniteSet(1..Len(rows))
    BY <2>2, FS_Interval
  <2>4. QED
    BY <1>1, <2>2, <2>3, FS_Subset
<1>3. ASSUME NEW i \in D
      PROVE  /\ h[i] \in Nat /\ w[i] \in Nat /\ h[i] <= w[i]
             /\ i \in I => g[i] = h[i]
  <2>1. rows[i] \in Stream /\ h[i] = Usable(rows[i][f]) /\ w[i] = Tokens(rows[i])
    BY <1>1, WorthType
  <2>2. PICK r : r = rows[i]
    OBVIOUS
  <2>3. r.input \in Nat \cup {-1} /\ r.output \in Nat \cup {-1}
    BY <2>1, <2>2, WorthType DEF RowFields
  <2>4. Usable(r.input) \in Nat /\ Usable(r.output) \in Nat
    BY <2>3 DEF Usable
  <2>5. Tokens(r) = Usable(r.input) + Usable(r.output)
    BY DEF Tokens
  <2>6. Usable(r[f]) \in Nat /\ Tokens(r) \in Nat /\ Usable(r[f]) <= Tokens(r)
    BY <2>4, <2>5
  <2>7. QED
    BY <2>1, <2>2, <2>6
<1>4. Used(rows, I, f) = SumFunctionOnSet(g, I) /\ AllTokens = SumFunctionOnSet(w, D)
  BY DEF Used, AllTokens, Recorded
<1> HIDE DEF g, h, w, D
<1>5. SumFunctionOnSet(g, I) = SumFunctionOnSet(h, I) /\ SumFunctionOnSet(g, I) \in Nat
  BY <1>1, <1>2, <1>3, SumSame, SumType
<1>6. SumFunctionOnSet(h, I) <= SumFunctionOnSet(h, D) /\ SumFunctionOnSet(h, D) \in Nat
  BY <1>1, <1>2, <1>3, SumPart, SumType
<1>7. SumFunctionOnSet(h, D) <= SumFunctionOnSet(w, D) /\ SumFunctionOnSet(w, D) \in Int
  <2>1. \A i \in D : h[i] \in Int /\ w[i] \in Int /\ h[i] <= w[i]
    BY <1>3
  <2>2. QED
    BY <1>2, <2>1, SumAtMost
<1>8. QED
  BY <1>4, <1>5, <1>6, <1>7

\* As long as nothing was refused, nothing exceeds a limit.
LEMMA Within ==
    ASSUME HeldOK, ExactOK, DaysOK, Investigated, pc # "load"
    PROVE  ~Over
<1>1. RowsOK /\ AuditRegisters /\ AgentRegister /\ EntryRegister
  BY DEF HeldOK
<1>2. /\ \A kind \in Kinds : Limit[kind] \in Nat
      /\ MaxCohorts \in Nat /\ MaxCells \in Nat /\ MaxAgents \in Nat /\ MaxProviderRows \in Nat
  BY RoutingAssumption, AgentAssumption, ProviderAssumption DEF Limit, Kinds
<1>3. \A S : \A n \in Nat : IsFiniteSet(S) /\ Cardinality(S) <= n => ~(Cardinality(S) > n)
  BY FS_CardinalityType
<1>4. ASSUME opts.audit, NEW kind \in Kinds PROVE ~(Cardinality(AuditedIds(kind) \ {NoId}) > Limit[kind])
  <2>1. PICK q \in Seq(Ids) : q = ids[kind] /\ Len(q) <= Limit[kind] /\ IsInjective(q)
    BY <1>1 DEF AuditRegisters
  <2>2. IsFiniteSet(ToSet(q)) /\ Cardinality(ToSet(q)) <= Limit[kind]
    BY <2>1, ListLength
  <2>3. ToSet(q) = AuditedIds(kind) \ {NoId}
    BY <1>4, <2>1 DEF ExactOK
  <2>4. QED
    BY <1>2, <1>3, <2>2, <2>3
<1>5. ASSUME opts.audit PROVE ~(Cardinality(AuditedCohorts) > MaxCohorts) /\ ~(Cardinality(AuditedCells) > MaxCells)
  <2>1. AuditedCohorts = DOMAIN cohorts /\ AuditedCells = DOMAIN cells
    BY <1>5 DEF ExactOK
  <2>2. QED
    BY <1>1, <1>2, <1>3, <2>1 DEF AuditRegisters
<1>6. ASSUME Attributing PROVE ~(Cardinality(NamedAgents) > MaxAgents)
  <2>1. NamedAgents = DOMAIN agents
    BY <1>6 DEF ExactOK
  <2>2. QED
    BY <1>1, <1>2, <1>3, <2>1 DEF AgentRegister
<1>7. ASSUME Counting PROVE ~(Cardinality(LoggedKeys \cup DOMAIN entries) > MaxProviderRows)
  <2>1. \A i \in DOMAIN rows : InPeriods(rows[i].t) => KeyOf(rows[i]) \in DOMAIN entries
    BY <1>7 DEF DaysOK
  <2>2. \A t : SideOf(t) # 0 => InPeriods(t)
    BY DEF SideOf, InPeriods, Sides
  <2>3. LoggedKeys \cup DOMAIN entries = DOMAIN entries
    BY <2>1, <2>2 DEF LoggedKeys, Visited
  <2>4. QED
    BY <1>1, <1>2, <1>3, <2>3 DEF EntryRegister
<1>8. QED
  BY <1>4, <1>5, <1>6, <1>7 DEF Over

\* A record is sound if all records up to it are.
LEMMA SoundRow ==
    ASSUME RowsOK, NEW row, Grows(row), Sound'
    PROVE  /\ row.end # "wrong" /\ ~AgentUnreadable(row)
           /\ AllTokens \in Nat /\ Tokens(row) \in Nat /\ AllTokens + Tokens(row) <= MaxCount
<1>1. rows' \in Seq(Stream) /\ Len(rows) + 1 \in DOMAIN rows' /\ rows'[Len(rows) + 1] = row /\ opts' = opts
  BY DEF RowsOK, Grows
<1>2. \A i \in DOMAIN rows' : rows'[i].end # "wrong" /\ ~AgentUnreadable(rows'[i])
  BY <1>1 DEF Sound, AgentUnreadable
<1>3. SumFunctionOnSet([i \in DOMAIN rows' |-> Tokens(rows'[i])], DOMAIN rows') <= MaxCount
  BY DEF Sound, Total
<1>4. AllTokens' = SumFunctionOnSet([i \in DOMAIN rows' |-> Worth(rows'[i])["tokens"]], DOMAIN rows')
  BY DEF AllTokens, Recorded
<1>5. \A i \in DOMAIN rows' : Worth(rows'[i])["tokens"] = Tokens(rows'[i])
  BY <1>1, WorthType
<1>6. [i \in DOMAIN rows' |-> Worth(rows'[i])["tokens"]] = [i \in DOMAIN rows' |-> Tokens(rows'[i])]
  BY <1>5
<1>7. AllTokens \in Nat /\ Tokens(row) \in Nat /\ AllTokens' = AllTokens + Tokens(row)
  BY TokensMore
<1>8. AllTokens' <= MaxCount
  BY <1>3, <1>4, <1>6
<1>9. row.end # "wrong" /\ ~AgentUnreadable(row)
  BY <1>1, <1>2
<1>10. QED
  BY <1>7, <1>8, <1>9

\* The record of a period that is refused is the last one.
Stops(row) == /\ Grows(row) /\ SideOf(row.t) # 0 /\ Refused(row, SideOf(row.t))
              /\ UNCHANGED <<auditVars, agentVars, providerVars, windows>>

\* The provider counts refuse a record only for want of room.
LEMMA KeysOver ==
    ASSUME HeldOK, DaysOK, Investigated, pc # "load", NEW row, Stops(row), Sound', ProviderRefuses(row)
    PROVE  Counting /\ Cardinality((LoggedKeys \cup DOMAIN entries)') > MaxProviderRows
<1>1. RowsOK /\ EntryRegister /\ Grows(row) /\ Counting /\ row \in Stream /\ opts' = opts
  BY DEF HeldOK, Stops, ProviderRefuses, Grows
<1>2. PICK k : k = KeyOf(row)
  OBVIOUS
<1>3. AllTokens \in Nat /\ Tokens(row) \in Nat /\ AllTokens + Tokens(row) <= MaxCount /\ MaxCount \in Nat
  BY <1>1, SoundRow, SpendRowsAssumption
<1>4. /\ Usable(row.input) \in Nat /\ Usable(row.output) \in Nat
      /\ Tokens(row) = Usable(row.input) + Usable(row.output)
  <2>1. row.input \in Nat \cup {-1} /\ row.output \in Nat \cup {-1}
    BY <1>1, WorthType DEF RowFields
  <2>2. QED
    BY <2>1 DEF Usable, Tokens
<1>5. /\ Entry(k).input \in Nat /\ Entry(k).input <= AllTokens
      /\ Entry(k).output \in Nat /\ Entry(k).output <= AllTokens
  <2>1. CASE k \in DOMAIN entries
    <3>1. EntryHolds(entries[k], k)
      BY <1>1, <2>1 DEF DaysOK
    <3>2. Mine(k) \in SUBSET DOMAIN rows
      BY DEF Mine, LoggedRows
    <3>3. /\ Used(rows, Mine(k), "input") \in Nat /\ Used(rows, Mine(k), "input") <= AllTokens
          /\ Used(rows, Mine(k), "output") \in Nat /\ Used(rows, Mine(k), "output") <= AllTokens
      BY <1>1, <3>2, UsedAtMost
    <3>4. Entry(k) = entries[k]
      BY <2>1 DEF Entry
    <3>5. QED
      BY <3>1, <3>3, <3>4 DEF EntryHolds
  <2>2. CASE k \notin DOMAIN entries
    BY <1>3, <2>2 DEF Entry, NoEntry
  <2>3. QED
    BY <2>1, <2>2
<1>6. k \notin DOMAIN entries /\ Cardinality(DOMAIN entries) = MaxProviderRows
  <2>1. Entry(k).input + Usable(row.input) <= MaxCount /\ Entry(k).output + Usable(row.output) <= MaxCount
    BY <1>3, <1>4, <1>5
  <2>2. ~(Entry(k).input + Usable(row.input) > MaxCount) /\ ~(Entry(k).output + Usable(row.output) > MaxCount)
    BY <1>3, <1>4, <1>5, <2>1
  <2>3. QED
    BY <1>2, <2>2 DEF ProviderRefuses
<1>7. entries' = entries /\ mapping' = mapping /\ targets' = targets
  BY DEF Stops, providerVars
<1>8. LoggedKeys' = LoggedKeys \cup {k}
  <2>1. Visited' = {i \in DOMAIN rows' : SideOf(rows'[i].t) # 0}
    BY <1>1 DEF Visited, SideOf, Inside
  <2>2. LoggedKeys' = {KeyOf(rows'[i]) : i \in Visited'}
    BY <1>7 DEF LoggedKeys, KeyOf
  <2>3. /\ DOMAIN rows' = DOMAIN rows \cup Newest /\ Len(rows) + 1 \in DOMAIN rows'
        /\ \A i \in DOMAIN rows : rows'[i] = rows[i]
        /\ rows'[Len(rows) + 1] = row /\ SideOf(row.t) # 0
    BY <1>1, RowSets DEF Newest, Stops
  <2>4. Visited' = Visited \cup Newest
    BY <2>1, <2>3 DEF Visited, Newest
  <2>5. \A i \in Visited : rows'[i] = rows[i]
    BY <2>3 DEF Visited
  <2>6. LoggedKeys = {KeyOf(rows[i]) : i \in Visited}
    BY DEF LoggedKeys
  <2>7. QED
    BY <1>2, <2>2, <2>3, <2>4, <2>5, <2>6 DEF Newest
<1>9. LoggedKeys \subseteq DOMAIN entries
  <2>1. \A i \in DOMAIN rows : InPeriods(rows[i].t) => KeyOf(rows[i]) \in DOMAIN entries
    BY <1>1 DEF DaysOK
  <2>2. \A t : SideOf(t) # 0 => InPeriods(t)
    BY DEF SideOf, InPeriods, Sides
  <2>3. QED
    BY <2>1, <2>2 DEF LoggedKeys, Visited
<1>11. PICK S : S = DOMAIN entries
  OBVIOUS
<1>12. (LoggedKeys \cup DOMAIN entries)' = S \cup {k}
  <2>1. (LoggedKeys \cup DOMAIN entries)' = LoggedKeys' \cup DOMAIN entries
    BY <1>7
  <2>2. QED
    BY <1>8, <1>9, <1>11, <2>1
<1>13. IsFiniteSet(S) /\ k \notin S /\ Cardinality(S) >= MaxProviderRows /\ MaxProviderRows \in Nat
  BY <1>1, <1>6, <1>11, ProviderAssumption DEF EntryRegister
<1>14. Cardinality(S \cup {k}) > MaxProviderRows
  BY <1>13, OneTooMany
<1>15. QED
  BY <1>1, <1>12, <1>14

\* No window would overflow.
LEMMA WindowsFit ==
    ASSUME HeldOK, ExactOK, Investigated, NEW row, Stops(row), Sound'
    PROVE  ~Overflows(windows, SideOf(row.t), row)
<1>1. RowsOK /\ Grows(row) /\ CountersOK
  BY DEF HeldOK, Stops
<1>2. PICK s \in Sides : s = SideOf(row.t)
  BY DEF Stops, SideOf, Sides
<1>3. AllTokens \in Nat /\ Tokens(row) \in Nat /\ AllTokens + Tokens(row) <= MaxCount /\ MaxCount \in Nat
  BY <1>1, SoundRow, SpendRowsAssumption
<1>4. windows[s]["tokens"] \in Nat /\ windows[s]["tokens"] <= AllTokens
  BY <1>1 DEF CountersOK, Windows, Measures, ExactOK
<1>5. ~(windows[s]["tokens"] + Tokens(row) > MaxCount)
  BY <1>3, <1>4
<1>6. QED
  BY <1>2, <1>5 DEF Overflows

\* The routing audit refuses a record only for want of room.
LEMMA AuditOver ==
    ASSUME HeldOK, ExactOK, RoutingOK, Investigated, NEW row, Stops(row), Sound',
           InScope(row), AuditRefuses(row, SideOf(row.t))
    PROVE  /\ opts.audit
           /\ \/ \E kind \in Kinds : Cardinality(AuditedIds(kind)' \ {NoId}) > Limit[kind]
              \/ Cardinality(AuditedCohorts') > MaxCohorts
              \/ Cardinality(AuditedCells') > MaxCells
<1>1. RowsOK /\ AuditRegisters /\ Grows(row) /\ opts.audit /\ AuditedRow(row)
  BY DEF HeldOK, Stops, AuditRefuses, InScope, Observed, AuditedRow
<1>2. /\ \A kind : AuditedIds(kind)' = AuditedIds(kind) \cup {IdOf(row, kind)}
      /\ AuditedCohorts' = AuditedCohorts \cup {CohortOf(row)} /\ AuditedCells' = AuditedCells \cup {CellOf(row)}
  BY <1>1, ImagesMore
<1>3. /\ \A kind \in Kinds : ToSet(ids[kind]) = AuditedIds(kind) \ {NoId}
      /\ DOMAIN cohorts = AuditedCohorts /\ DOMAIN cells = AuditedCells
  BY <1>1 DEF ExactOK
<1>4. ~Overflows(totals, SideOf(row.t), row)
  BY <1>1, WindowsFit DEF RoutingOK
<1>5. /\ \A kind \in Kinds : Limit[kind] \in Nat
      /\ MaxCohorts \in Nat /\ MaxCells \in Nat
  BY RoutingAssumption DEF Limit, Kinds
<1>6. ASSUME NEW kind \in Kinds, Full(kind, IdOf(row, kind))
      PROVE  Cardinality(AuditedIds(kind)' \ {NoId}) > Limit[kind]
  <2>1. PICK q \in Seq(Ids) : q = ids[kind] /\ IsInjective(q)
    BY <1>1 DEF AuditRegisters
  <2>2. PICK x : x = IdOf(row, kind)
    OBVIOUS
  <2>3. x # NoId /\ x \notin ToSet(q) /\ Len(q) >= Limit[kind]
    BY <1>6, <2>1, <2>2 DEF Full, Registered, ToSet
  <2>4. IsFiniteSet(ToSet(q)) /\ Cardinality(ToSet(q)) = Len(q)
    BY <2>1, ListLength
  <2>5. Cardinality(ToSet(q) \cup {x}) > Limit[kind]
    BY <1>5, <2>3, <2>4, OneTooMany
  <2>6. AuditedIds(kind)' \ {NoId} = ToSet(q) \cup {x}
    BY <1>2, <1>3, <2>1, <2>2, <2>3
  <2>7. QED
    BY <2>5, <2>6
<1>7. ASSUME CohortOf(row) \notin DOMAIN cohorts, Cardinality(DOMAIN cohorts) >= MaxCohorts
      PROVE  Cardinality(AuditedCohorts') > MaxCohorts
  <2>1. PICK S : S = DOMAIN cohorts
    OBVIOUS
  <2>2. IsFiniteSet(S) /\ CohortOf(row) \notin S /\ Cardinality(S) >= MaxCohorts
    BY <1>1, <1>7, <2>1 DEF AuditRegisters
  <2>3. Cardinality(S \cup {CohortOf(row)}) > MaxCohorts
    BY <1>5, <2>2, OneTooMany
  <2>4. QED
    BY <1>2, <1>3, <2>1, <2>3
<1>8. ASSUME CellOf(row) \notin DOMAIN cells, Cardinality(DOMAIN cells) >= MaxCells
      PROVE  Cardinality(AuditedCells') > MaxCells
  <2>1. PICK S : S = DOMAIN cells
    OBVIOUS
  <2>2. IsFiniteSet(S) /\ CellOf(row) \notin S /\ Cardinality(S) >= MaxCells
    BY <1>1, <1>8, <2>1 DEF AuditRegisters
  <2>3. Cardinality(S \cup {CellOf(row)}) > MaxCells
    BY <1>5, <2>2, OneTooMany
  <2>4. QED
    BY <1>2, <1>3, <2>1, <2>3
<1>9. QED
  BY <1>1, <1>4, <1>6, <1>7, <1>8 DEF AuditRefuses

\* So does the attribution to agents.
LEMMA AgentsOver ==
    ASSUME HeldOK, ExactOK, Investigated, NEW row, Stops(row), InScope(row), AgentRefuses(row)
    PROVE  Attributing /\ Cardinality(NamedAgents') > MaxAgents
<1>1. RowsOK /\ AgentRegister /\ Grows(row) /\ Attributing /\ NamedRow(row)
  BY DEF HeldOK, Stops, AgentRefuses, NamedRow
<1>2. NamedAgents' = NamedAgents \cup {AgentId(row)} /\ DOMAIN agents = NamedAgents
  BY <1>1, ImagesMore DEF ExactOK
<1>3. PICK S : S = DOMAIN agents
  OBVIOUS
<1>4. IsFiniteSet(S) /\ AgentId(row) \notin S /\ Cardinality(S) >= MaxAgents /\ MaxAgents \in Nat
  BY <1>1, <1>3, AgentAssumption DEF AgentRegister, AgentRefuses
<1>5. Cardinality(S \cup {AgentId(row)}) > MaxAgents
  BY <1>4, OneTooMany
<1>6. QED
  BY <1>1, <1>2, <1>3, <1>5

\* A sound export is refused only when it exceeds a limit.
LEMMA Refusal ==
    ASSUME HeldOK, ExactOK, DaysOK, RoutingOK, Investigated, pc = "rows",
           NEW row \in opts.explored, Investigate(row), Refuse(row), Sound'
    PROVE  Over'
<1>1. RowsOK /\ row \in Stream /\ Grows(row)
  BY SpendRowsAssumption DEF HeldOK, RowsOK, Refuse, Grows
<1>2. row.end # "wrong" /\ ~AgentUnreadable(row)
  BY <1>1, SoundRow
<1>3. SideOf(row.t) # 0 /\ Refused(row, SideOf(row.t))
  BY <1>2 DEF Investigate, Refuse, Visit, Account
<1>4. Stops(row)
  BY <1>1, <1>3 DEF Stops, Refuse, accounts
<1>5. opts' = opts
  BY <1>1 DEF Grows
<1>6. CASE ProviderRefuses(row)
  <2>1. Counting /\ Cardinality((LoggedKeys \cup DOMAIN entries)') > MaxProviderRows
    BY <1>4, <1>6, KeysOver
  <2>2. QED
    BY <1>5, <2>1 DEF Over, Counting
<1>7. CASE InScope(row) /\ AuditRefuses(row, SideOf(row.t))
  <2>1. /\ opts.audit
        /\ \/ \E kind \in Kinds : Cardinality(AuditedIds(kind)' \ {NoId}) > Limit[kind]
           \/ Cardinality(AuditedCohorts') > MaxCohorts
           \/ Cardinality(AuditedCells') > MaxCells
    BY <1>4, <1>7, AuditOver
  <2>2. QED
    BY <1>5, <2>1 DEF Over
<1>8. CASE InScope(row) /\ AgentRefuses(row)
  <2>1. Attributing /\ Cardinality(NamedAgents') > MaxAgents
    BY <1>4, <1>8, AgentsOver
  <2>2. QED
    BY <1>5, <2>1 DEF Over, Attributing
<1>9. ~Overflows(windows, SideOf(row.t), row)
  BY <1>4, WindowsFit
<1>10. QED
  BY <1>2, <1>3, <1>6, <1>7, <1>8, <1>9 DEF Refused

\* What a report is refused for depends on what it shows alone.
LEMMA SoundSame ==
    ASSUME opts' = opts, rows' = rows, UNCHANGED providerVars, windows' = windows
    PROVE  (Sound' <=> Sound) /\ (NothingToShow' <=> NothingToShow) /\ (Over' <=> Over)
<1>1. \A r : AgentUnreadable(r)' <=> AgentUnreadable(r)
  BY DEF AgentUnreadable
<1>2. (Counting' <=> Counting) /\ Days' = Days
  BY DEF Counting, Days, DaysOf
<1>3. entries' = entries /\ order' = order
  BY DEF providerVars
<1>4. ASSUME NEW d PROVE ProviderOverflows(d)' <=> ProviderOverflows(d)
  BY <1>3 DEF ProviderOverflows, Sent, Total
<1>5. Sound' <=> Sound
  BY <1>1, <1>2, <1>4 DEF Sound, Total
<1>6. NothingToShow' <=> NothingToShow
  BY <1>2 DEF NothingToShow, Observed
<1>7. /\ \A kind : AuditedIds(kind)' = AuditedIds(kind)
      /\ AuditedCohorts' = AuditedCohorts /\ AuditedCells' = AuditedCells /\ NamedAgents' = NamedAgents
  BY ImagesSame
<1>8. LoggedKeys' = LoggedKeys
  BY DEF LoggedKeys, Visited, KeyOf, SideOf, Inside, providerVars
<1>9. Over' <=> Over
  BY <1>2, <1>3, <1>7, <1>8 DEF Over, Attributing
<1>10. QED
  BY <1>5, <1>6, <1>9

\* What was refused exceeded a limit, unless it was the files.
RefusalOK == pc = "error" /\ Investigating /\ rows # <<>> => (Sound /\ ~NothingToShow => Over)

\* Every refusal keeps it.
LEMMA RefusalNext ==
    HeldOK /\ ExactOK /\ DaysOK /\ RoutingOK /\ RefusalOK /\ [Next]_vars => RefusalOK'
<1> SUFFICES ASSUME HeldOK, ExactOK, DaysOK, RoutingOK, RefusalOK, [Next]_vars,
                    pc' = "error", Investigating', rows' # <<>>, Sound', ~NothingToShow'
             PROVE  Over'
  BY DEF RefusalOK
<1>1. RowsOK /\ Investigating /\ opts' = opts
  <2>1. RowsOK
    BY DEF HeldOK
  <2>2. opts' = opts
    BY <2>1, RowsNext
  <2>3. QED
    BY <2>1, <2>2 DEF Investigating
<1>2. CASE Load
  <2>1. pc = "load" /\ rows' = rows
    BY <1>2 DEF Load
  <2>2. Investigated
    BY <1>1, <2>1 DEF Investigated, Investigating
  <2>3. rows = <<>>
    BY <2>1, <2>2 DEF DaysOK
  <2>4. QED
    BY <2>1, <2>3
<1>3. ASSUME NEW row \in opts.explored, Investigate(row) PROVE Over'
  <2>1. pc = "rows"
    BY <1>3 DEF Investigate
  <2>2. Investigated
    BY <1>1, <2>1 DEF Investigated, Investigating
  <2>3. Refuse(row)
    BY <1>3, <2>1 DEF Investigate, Visit, Account
  <2>4. QED
    BY <1>3, <2>1, <2>2, <2>3, Refusal
<1>4. CASE Report
  <2>1. rows' = rows /\ UNCHANGED providerVars /\ windows' = windows
    BY <1>4 DEF Report, accounts
  <2>2. Sound /\ ~NothingToShow
    BY <1>1, <2>1, SoundSame
  <2>3. (Counting /\ \E d \in Days : ProviderOverflows(d)) \/ NothingToShow
    BY <1>4 DEF Report
  <2>4. QED
    BY <2>2, <2>3 DEF Sound
<1>5. CASE Done \/ UNCHANGED vars
  <2>1. UNCHANGED vars
    BY <1>5 DEF Done
  <2>2. pc' = pc /\ rows' = rows /\ UNCHANGED providerVars /\ windows' = windows
    BY <2>1 DEF vars, rowVars
  <2>3. Sound /\ ~NothingToShow
    BY <1>1, <2>2, SoundSame
  <2>4. Over
    BY <1>1, <2>2, <2>3 DEF RefusalOK
  <2>5. QED
    BY <1>1, <2>2, <2>4, SoundSame
<1>6. QED
  BY <1>1, <1>2, <1>3, <1>4, <1>5 DEF Next, WhatIfRow, EndWhatIf

\* While nothing is refused nothing exceeds a limit, and what is refused does.
LEMMA RefusalFollows == HeldOK /\ ExactOK /\ DaysOK /\ RefusalOK => LimitsExact
<1> SUFFICES ASSUME HeldOK, ExactOK, DaysOK, RefusalOK PROVE LimitsExact
  OBVIOUS
<1>1. TypeOK
  BY HeldFollows
<1>2. RefusedIffOverLimit
  <2>1. CASE ~Investigating
    BY <2>1 DEF RefusedIffOverLimit
  <2>2. CASE Investigating
    <3>1. ASSUME pc # "load", rows # <<>>, Sound, ~NothingToShow PROVE Over <=> pc = "error"
      <4>1. CASE pc = "error"
        BY <2>2, <3>1, <4>1 DEF RefusalOK
      <4>2. CASE pc # "error"
        <5>1. Investigated
          BY <2>2, <4>2 DEF Investigating, Investigated
        <5>2. QED
          BY <3>1, <4>2, <5>1, Within
      <4>3. QED
        BY <4>1, <4>2
    <3>2. QED
      BY <2>2, <3>1, OverMeans
  <2>3. QED
    BY <2>1, <2>2
<1>3. QED
  BY <1>1, <1>2 DEF LimitsExact

\* For every export, all options, files and limits, in each state: no register
\* of the routing audit, of the agents and of the provider counts holds more
\* than its limit or anything twice, and no window more tokens than a counter
\* can; an export without a wrong record is refused while it is read if and
\* only if it holds more than one of these limits, in whatever order.
THEOREM LimitsAreExact == Spec => []LimitsExact
<1> DEFINE I == RowsOK /\ WindowsOK /\ RoutingOK /\ HeldOK /\ ExactOK /\ DaysOK /\ RefusalOK
<1>1. Init => I
  BY RowsNext, RoutingInit, HeldInit, ExactInit DEF Init, DaysOK, Investigated, Investigating, RefusalOK
<1>2. I /\ [Next]_vars => I'
  BY RowsNext, WindowsNext, RoutingNext, HeldNext, ExactNext, DaysNext, RefusalNext
<1>3. I => LimitsExact
  BY RefusalFollows
<1>4. QED
  BY <1>1, <1>2, <1>3, PTL DEF Spec
-----------------------------------------------------------------------------
-----------------------------------------------------------------------------
(* Prices of tokens.                                                        *)

\* Token counts whose cache parts fit into the input.
Fits(t) == /\ t["input"] \in Nat /\ t["output"] \in Nat /\ t["read"] \in Nat /\ t["write"] \in Nat
           /\ t["read"] + t["write"] <= t["input"]

\* Multiplication distributes over addition.
LEMMA Distributes ==
    ASSUME NEW a \in Int, NEW b \in Int, NEW k \in Int
    PROVE  (a + b) * k = a * k + b * k /\ a * k \in Int /\ b * k \in Int
  OBVIOUS

\* A product of counts is one.
LEMMA ProductNat == ASSUME NEW a \in Nat, NEW b \in Nat PROVE a * b \in Nat
  OBVIOUS

\* A product grows with its second factor.
LEMMA ProductGrows == ASSUME NEW a \in Nat, NEW b \in Nat, NEW c \in Nat, b <= c PROVE a * b <= a * c
<1>1. a * c = a * b + a * (c - b)
  OBVIOUS
<1>2. c - b \in Nat
  OBVIOUS
<1>3. a * (c - b) \in Nat /\ a * b \in Nat
  BY <1>2, ProductNat
<1>4. QED
  BY <1>1, <1>3

\* The price of the input and cache tokens, and of the output tokens.
Fresh(t, model) == (t.input - t.read - t.write) * Prices[model].input + t.read * Prices[model].read
                   + t.write * Prices[model].write

\* A cost has a part for the input and one for the output, with a factor each.
LEMMA CostParts ==
    ASSUME NEW t, Fits(t), NEW model \in DOMAIN Prices, NEW input \in Nat, NEW output \in Nat
    PROVE  /\ Fresh(t, model) \in Nat /\ t.output * Prices[model].output \in Nat
           /\ Cost(t, model, input, output) = Fresh(t, model) * input + (t.output * Prices[model].output) * output
           /\ Cost(t, model, input, output) \in Nat
<1>1. /\ Prices[model].input \in Nat /\ Prices[model].output \in Nat
      /\ Prices[model].read \in Nat /\ Prices[model].write \in Nat
  BY WhatIfAssumption
<1>2. t.input - t.read - t.write \in Nat /\ t.read \in Nat /\ t.write \in Nat /\ t.output \in Nat
  BY DEF Fits
<1>3. (t.input - t.read - t.write) * Prices[model].input \in Nat
  BY <1>1, <1>2, ProductNat
<1>4. t.read * Prices[model].read \in Nat
  BY <1>1, <1>2, ProductNat
<1>5. t.write * Prices[model].write \in Nat
  BY <1>1, <1>2, ProductNat
<1>6. t.output * Prices[model].output \in Nat
  BY <1>1, <1>2, ProductNat
<1>7. Fresh(t, model) \in Nat
  BY <1>3, <1>4, <1>5 DEF Fresh
<1>8. Cost(t, model, input, output) = Fresh(t, model) * input + (t.output * Prices[model].output) * output
  BY DEF Cost, Fresh
<1>9. Fresh(t, model) * input \in Nat
  BY <1>7, ProductNat
<1>10. (t.output * Prices[model].output) * output \in Nat
  BY <1>6, ProductNat
<1>11. Cost(t, model, input, output) \in Nat
  BY <1>8, <1>9, <1>10
<1>12. QED
  BY <1>6, <1>7, <1>8, <1>11

\* A cost grows with the output factor.
LEMMA CostGrows ==
    ASSUME NEW t, Fits(t), NEW model \in DOMAIN Prices, NEW input \in Nat, NEW a \in Nat, NEW b \in Nat, a <= b
    PROVE  Cost(t, model, input, a) <= Cost(t, model, input, b)
<1>1. PICK x \in Nat : x = Fresh(t, model) * input
  BY CostParts, ProductNat
<1>2. PICK y \in Nat : y = t.output * Prices[model].output
  BY CostParts
<1>3. Cost(t, model, input, a) = x + y * a /\ Cost(t, model, input, b) = x + y * b
  <2>1. Cost(t, model, input, a) = x + y * a
    BY <1>1, <1>2, CostParts
  <2>2. Cost(t, model, input, b) = x + y * b
    BY <1>1, <1>2, CostParts
  <2>3. QED
    BY <2>1, <2>2
<1>4. PICK l \in Nat : l = y * a
  BY ProductNat
<1>5. PICK r \in Nat : r = y * b
  BY ProductNat
<1>6. y * a <= y * b
  BY ProductGrows
<1>7. x + l <= x + r
  BY <1>4, <1>5, <1>6
<1>8. QED
  BY <1>3, <1>4, <1>5, <1>7

\* Prices are linear: counts together cost what they cost one by one.
LEMMA CostAdds ==
    ASSUME NEW t, Fits(t), NEW u, Fits(u), NEW v, \A f \in Parts4 : v[f] = t[f] + u[f],
           NEW model \in DOMAIN Prices, NEW input \in Nat, NEW output \in Nat
    PROVE  /\ Fits(v)
           /\ Cost(v, model, input, output) = Cost(t, model, input, output) + Cost(u, model, input, output)
<1>1. /\ v.input = t.input + u.input /\ v.output = t.output + u.output
      /\ v.read = t.read + u.read /\ v.write = t.write + u.write
  BY DEF Parts4
<1>2. Fits(v)
  BY <1>1 DEF Fits
<1>3. /\ Prices[model].input \in Nat /\ Prices[model].output \in Nat
      /\ Prices[model].read \in Nat /\ Prices[model].write \in Nat
  BY WhatIfAssumption
<1>4. PICK pi \in Nat : pi = Prices[model].input
  BY <1>3
<1>5. PICK pr \in Nat : pr = Prices[model].read
  BY <1>3
<1>6. PICK pw \in Nat : pw = Prices[model].write
  BY <1>3
<1>7. PICK po \in Nat : po = Prices[model].output
  BY <1>3
<1>8. PICK t1 \in Int : t1 = t.input - t.read - t.write
  BY DEF Fits
<1>9. PICK u1 \in Int : u1 = u.input - u.read - u.write
  BY DEF Fits
<1>10. /\ t.read \in Int /\ u.read \in Int /\ t.write \in Int /\ u.write \in Int /\ t.output \in Int /\ u.output \in Int
       /\ v.input - v.read - v.write = t1 + u1
  BY <1>1, <1>8, <1>9 DEF Fits
<1>11. (t1 + u1) * pi = t1 * pi + u1 * pi /\ t1 * pi \in Int /\ u1 * pi \in Int
  BY Distributes
<1>12. (t.read + u.read) * pr = t.read * pr + u.read * pr /\ t.read * pr \in Int /\ u.read * pr \in Int
  BY <1>10, Distributes
<1>13. (t.write + u.write) * pw = t.write * pw + u.write * pw /\ t.write * pw \in Int /\ u.write * pw \in Int
  BY <1>10, Distributes
<1>14. (t.output + u.output) * po = t.output * po + u.output * po /\ t.output * po \in Int /\ u.output * po \in Int
  BY <1>10, Distributes
<1>15. Fresh(t, model) = t1 * pi + t.read * pr + t.write * pw
  BY <1>4, <1>5, <1>6, <1>8 DEF Fresh
<1>16. Fresh(u, model) = u1 * pi + u.read * pr + u.write * pw
  BY <1>4, <1>5, <1>6, <1>9 DEF Fresh
<1>17. Fresh(v, model) = (t1 + u1) * pi + (t.read + u.read) * pr + (t.write + u.write) * pw
  BY <1>1, <1>4, <1>5, <1>6, <1>10 DEF Fresh
<1>18. PICK x \in Nat : x = Fresh(t, model)
  BY CostParts
<1>19. PICK y \in Nat : y = Fresh(u, model)
  BY CostParts
<1>20. Fresh(v, model) = x + y
  BY <1>11, <1>12, <1>13, <1>15, <1>16, <1>17, <1>18, <1>19
<1>21. (x + y) * input = x * input + y * input /\ x * input \in Int /\ y * input \in Int
  BY Distributes
<1>22. PICK k \in Int : k = t.output * po
  BY <1>14
<1>23. PICK l \in Int : l = u.output * po
  BY <1>14
<1>24. (k + l) * output = k * output + l * output /\ k * output \in Int /\ l * output \in Int
  BY Distributes
<1>25. Cost(v, model, input, output) = (x + y) * input + (k + l) * output
  BY <1>1, <1>2, <1>7, <1>14, <1>20, <1>22, <1>23, CostParts
<1>26. Cost(t, model, input, output) = x * input + k * output
  BY <1>7, <1>18, <1>22, CostParts
<1>27. Cost(u, model, input, output) = y * input + l * output
  BY <1>7, <1>19, <1>23, CostParts
<1>28. QED
  BY <1>2, <1>21, <1>24, <1>25, <1>26, <1>27

\* What bins of tokens cost, with an output factor for each bin.
Bins == Workloads \cup {""}
Rates == [Bins -> Nat]
BinsOK(b) == b \in Buckets /\ \A w \in DOMAIN b : Fits(b[w])
BinsCost(b, model, input, rate) == SumFunctionOnSet([w \in DOMAIN b |-> Cost(b[w], model, input, rate[w])], DOMAIN b)

\* Bins are those of some of the workloads.
LEMMA BinsFinite == ASSUME NEW b, BinsOK(b) PROVE DOMAIN b \subseteq Bins /\ IsFiniteSet(DOMAIN b) /\ IsFiniteSet(Bins)
<1>1. DOMAIN b \subseteq Bins
  BY DEF BinsOK, Buckets, Bins
<1>2. IsFiniteSet({"qa"}) /\ IsFiniteSet({"coding"}) /\ IsFiniteSet({""})
  BY FS_Singleton
<1>3. IsFiniteSet({"qa"} \cup {"coding"} \cup {""})
  BY <1>2, FS_Union
<1>4. Bins = {"qa"} \cup {"coding"} \cup {""}
  BY DEF Bins, Workloads
<1>5. QED
  BY <1>1, <1>3, <1>4, FS_Subset

\* Bins cost more with higher rates, and never less than nothing.
LEMMA BinsCostType ==
    ASSUME NEW b, BinsOK(b), NEW model \in DOMAIN Prices, NEW input \in Nat, NEW rate, \A w \in DOMAIN b : rate[w] \in Nat
    PROVE  /\ BinsCost(b, model, input, rate) \in Nat
           /\ DOMAIN b = {} => BinsCost(b, model, input, rate) = 0
<1> DEFINE g == [w \in DOMAIN b |-> Cost(b[w], model, input, rate[w])]
<1>1. \A w \in DOMAIN b : g[w] \in Nat
  BY CostParts DEF BinsOK
<1>2. IsFiniteSet(DOMAIN b)
  BY BinsFinite
<1>3. BinsCost(b, model, input, rate) = SumFunctionOnSet(g, DOMAIN b)
  BY DEF BinsCost
<1> HIDE DEF g
<1>4. SumFunctionOnSet(g, DOMAIN b) \in Nat
  BY <1>1, <1>2, SumType
<1>5. DOMAIN b = {} => SumFunctionOnSet(g, DOMAIN b) = 0
  BY <1>2, SumStep
<1>6. QED
  BY <1>3, <1>4, <1>5

\* Bins cost more with higher rates.
LEMMA BinsCostGrows ==
    ASSUME NEW b, BinsOK(b), NEW model \in DOMAIN Prices, NEW input \in Nat,
           NEW low, NEW high, \A w \in DOMAIN b : low[w] \in Nat /\ high[w] \in Nat /\ low[w] <= high[w]
    PROVE  BinsCost(b, model, input, low) <= BinsCost(b, model, input, high)
<1> DEFINE g == [w \in DOMAIN b |-> Cost(b[w], model, input, low[w])]
           h == [w \in DOMAIN b |-> Cost(b[w], model, input, high[w])]
<1>1. ASSUME NEW w \in DOMAIN b PROVE g[w] \in Int /\ h[w] \in Int /\ g[w] <= h[w]
  <2>1. Fits(b[w]) /\ low[w] \in Nat /\ high[w] \in Nat /\ low[w] <= high[w]
    BY DEF BinsOK
  <2>2. Cost(b[w], model, input, low[w]) \in Nat /\ Cost(b[w], model, input, high[w]) \in Nat
    BY <2>1, CostParts
  <2>3. Cost(b[w], model, input, low[w]) <= Cost(b[w], model, input, high[w])
    BY <2>1, CostGrows
  <2>4. QED
    BY <2>2, <2>3
<1>2. IsFiniteSet(DOMAIN b)
  BY BinsFinite
<1>3. /\ BinsCost(b, model, input, low) = SumFunctionOnSet(g, DOMAIN b)
      /\ BinsCost(b, model, input, high) = SumFunctionOnSet(h, DOMAIN b)
  BY DEF BinsCost
<1> HIDE DEF g, h
<1>4. SumFunctionOnSet(g, DOMAIN b) <= SumFunctionOnSet(h, DOMAIN b)
  BY <1>1, <1>2, SumAtMost
<1>5. QED
  BY <1>3, <1>4

\* The bins b and a bin w that tokens t join.
Joined(b, w, t, c) == /\ DOMAIN c = DOMAIN b \cup {w}
                      /\ \A x \in DOMAIN b \ {w} : c[x] = b[x]
                      /\ \A f \in Parts4 : c[w][f] = (IF w \in DOMAIN b THEN b[w][f] ELSE 0) + t[f]

\* Tokens that join a bin cost there what they cost alone.
LEMMA BinsGain ==
    ASSUME NEW b, BinsOK(b), NEW w \in Bins, NEW t, Fits(t), NEW c, BinsOK(c), Joined(b, w, t, c),
           NEW model \in DOMAIN Prices, NEW input \in Nat, NEW rate, \A x \in Bins : rate[x] \in Nat
    PROVE  BinsCost(c, model, input, rate) = BinsCost(b, model, input, rate) + Cost(t, model, input, rate[w])
<1> DEFINE g == [x \in DOMAIN b |-> Cost(b[x], model, input, rate[x])]
           h == [x \in DOMAIN c |-> Cost(c[x], model, input, rate[x])]
           d == Cost(t, model, input, rate[w])
<1>0. /\ DOMAIN c = DOMAIN b \cup {w} /\ \A x \in DOMAIN b \ {w} : c[x] = b[x]
      /\ \A f \in Parts4 : c[w][f] = (IF w \in DOMAIN b THEN b[w][f] ELSE 0) + t[f]
  BY DEF Joined
<1>1. DOMAIN b \subseteq Bins /\ IsFiniteSet(DOMAIN b)
  BY BinsFinite
<1>2. d \in Nat /\ \A x \in DOMAIN b : g[x] \in Nat
  BY <1>1, CostParts DEF BinsOK
<1>3. \A x \in DOMAIN b \ {w} : h[x] = g[x]
  BY <1>0
<1>4. h[w] = (IF w \in DOMAIN b THEN g[w] ELSE 0) + d
  <2>1. h[w] = Cost(c[w], model, input, rate[w])
    BY <1>0
  <2>2. CASE w \in DOMAIN b
    <3>1. Fits(b[w]) /\ \A f \in Parts4 : c[w][f] = b[w][f] + t[f]
      BY <1>0, <2>2 DEF BinsOK
    <3>2. Cost(c[w], model, input, rate[w]) = Cost(b[w], model, input, rate[w]) + d
      BY <3>1, CostAdds
    <3>3. QED
      BY <2>1, <2>2, <3>2
  <2>3. CASE w \notin DOMAIN b
    <3>1. /\ c[w].input = t.input /\ c[w].output = t.output
          /\ c[w].read = t.read /\ c[w].write = t.write
      BY <1>0, <2>3 DEF Parts4, Fits
    <3>2. Cost(c[w], model, input, rate[w]) = d
      BY <3>1 DEF Cost
    <3>3. QED
      BY <1>2, <2>1, <2>3, <3>2
  <2>4. QED
    BY <2>2, <2>3
<1>5. /\ BinsCost(b, model, input, rate) = SumFunctionOnSet(g, DOMAIN b)
      /\ BinsCost(c, model, input, rate) = SumFunctionOnSet(h, DOMAIN b \cup {w})
  BY <1>0 DEF BinsCost
<1> HIDE DEF g, h, d
<1>6. MovesUp(g, h, DOMAIN b, w, d)
  BY <1>2, <1>3, <1>4 DEF MovesUp
<1>7. SumFunctionOnSet(h, DOMAIN b \cup {w}) = SumFunctionOnSet(g, DOMAIN b) + d
  BY <1>1, <1>6, SumMove
<1>8. QED
  BY <1>5, <1>7 DEF d
-----------------------------------------------------------------------------
(* Records and moves.                                                       *)

Repricing == RowsOK /\ opts.command = "what-if"

\* The moves of a scenario that is repriced have prices, fractions and factors.
LEMMA MovesType ==
    ASSUME Repricing
    PROVE  /\ Moves \in Seq(MoveFields) /\ IsFiniteSet(DOMAIN Moves) /\ Parts \in Nat /\ Unit \in Nat
           /\ \A i \in DOMAIN Moves : /\ Moves[i] \in MoveFields
                                      /\ Moves[i].from \in DOMAIN Prices /\ Moves[i].to \in DOMAIN Prices
                                      /\ Moves[i].ratio \in Nat /\ Moves[i].factor \in Nat
<1>1. Moves \in Seq(MoveFields) /\ Parts \in Nat /\ Unit \in Nat
  BY WhatIfAssumption DEF Repricing, RowsOK, Moves
<1>2. DOMAIN Moves = 1..Len(Moves) /\ Len(Moves) \in Nat /\ \A i \in DOMAIN Moves : Moves[i] \in MoveFields
  BY <1>1
<1>3. IsFiniteSet(DOMAIN Moves)
  BY <1>2, FS_Interval
<1>4. \A m \in MoveFields : /\ m.from \in DOMAIN Prices /\ m.to \in DOMAIN Prices
                            /\ m.ratio \in Nat /\ m.factor \in Nat
  BY <1>1 DEF MoveFields
<1>5. QED
  BY <1>1, <1>2, <1>3, <1>4

\* The moves that select a record move its model.
LEMMA RowMoves ==
    ASSUME Repricing, NEW row
    PROVE  /\ Indices(row) \in SUBSET DOMAIN Moves /\ IsFiniteSet(Indices(row))
           /\ \A i \in Indices(row) : Moves[i].from = Record(row).model
           /\ Workload(row) \in Bins
<1>1. Indices(row) \in SUBSET DOMAIN Moves /\ \A i \in Indices(row) : Moves[i].from = Record(row).model
  BY DEF Indices
<1>2. IsFiniteSet(Indices(row))
  BY <1>1, MovesType, FS_Subset
<1>3. \A sel \in DOMAIN opts.mapping : opts.mapping[sel] \in Workloads
  BY WhatIfAssumption DEF Repricing, RowsOK
<1>4. MappedTo(row) \subseteq Workloads
  BY <1>3 DEF MappedTo
<1>5. Workload(row) \in Bins
  BY <1>4 DEF Workload, Bins
<1>6. QED
  BY <1>1, <1>2, <1>5

\* A record that is priced has whole and consistent token counts and a price;
\* every other record is excluded for one of the reasons.
LEMMA IssueType ==
    ASSUME NEW row \in Stream
    PROVE  /\ Issue(row) \in Issues \cup {""} /\ "" \notin Issues
           /\ Issue(row) = "" => /\ Fits(row) /\ Record(row).model \in DOMAIN Prices
                                 /\ ~UnknownScope(row) /\ (Routing => SelectedKnown(row))
<1>1. /\ row.input \in Nat \cup {-1} /\ row.output \in Nat \cup {-1}
      /\ row.read \in Nat \cup {-1} /\ row.write \in Nat \cup {-1}
      /\ row.issue \in {"", "invalid_usage", "unusable_usage"}
  BY SpendRowsAssumption DEF RowFields
<1> DEFINE usage == IF row.issue # "" THEN row.issue
                    ELSE IF row.status = "unknown" \/ row.end = "absent" THEN "unusable_usage" ELSE ""
           r0 == [model |-> IF row.public # "" THEN row.public ELSE row.model,
                  input |-> row.input, output |-> row.output, read |-> row.read, write |-> row.write,
                  issue |-> usage]
           r == Record(row)
           own == IF r.issue # "" THEN r.issue
                  ELSE IF Missing(r) THEN "missing_split"
                  ELSE IF Routing /\ ~SelectedKnown(row) THEN "unknown_served_identity" ELSE ""
<1>2. usage \in {"", "invalid_usage", "unusable_usage"}
  BY <1>1
<1>3. r = r0 \/ r.issue \in {"unsupported_call_type", "invalid_usage"}
  BY DEF Record
<1>4. r.issue \in {"", "invalid_usage", "unusable_usage", "unsupported_call_type"}
  <2>1. r0.issue = usage
    OBVIOUS
  <2> HIDE DEF usage, r0, r
  <2>2. QED
    BY <1>2, <1>3, <2>1
<1>5. own \in Issues \cup {""}
  BY <1>4 DEF Issues
<1>6. Issue(row) \in Issues \cup {""} /\ "" \notin Issues
  <2>1. Issue(row) \in {own} \cup Issues \cup {""}
    <3> HIDE DEF own
    <3>1. own \in Issues \cup {""} => Issue(row) \in {own} \cup Issues \cup {""}
      BY DEF Issue, own, Issues
    <3>2. QED
      BY <1>5, <3>1
  <2>2. "" \notin Issues
    BY DEF Issues
  <2>3. QED
    BY <1>5, <2>1, <2>2
<1>7. ASSUME Issue(row) = "" PROVE own = "" /\ r.model \in DOMAIN Prices /\ ~UnknownScope(row)
                                   /\ ~(r.read > r.input \/ r.write > r.input - r.read)
  BY <1>7 DEF Issue
<1>8. ASSUME own = "" PROVE r = r0 /\ ~Missing(r) /\ (Routing => SelectedKnown(row))
  <2>1. r.issue = ""
    BY <1>4, <1>8
  <2>2. QED
    BY <1>3, <1>8, <2>1
<1>9. ASSUME Issue(row) = "" PROVE Fits(row)
  <2>1. r = r0 /\ ~Missing(r) /\ ~(r.read > r.input \/ r.write > r.input - r.read)
    BY <1>7, <1>8, <1>9
  <2>2. r0.input = row.input /\ r0.output = row.output /\ r0.read = row.read /\ r0.write = row.write
    OBVIOUS
  <2>3. /\ row.input \in Nat /\ row.output \in Nat /\ row.read \in Nat /\ row.write \in Nat
        /\ ~(row.read > row.input \/ row.write > row.input - row.read)
    <3> HIDE DEF r0, r, own, usage
    <3>1. QED
      BY <1>1, <2>1, <2>2 DEF Missing
  <2>4. row.read + row.write <= row.input
    BY <2>3
  <2>5. QED
    BY <2>3, <2>4 DEF Fits
<1>10. QED
  BY <1>6, <1>7, <1>8, <1>9

-----------------------------------------------------------------------------
(* Calculators.                                                             *)

\* What the options make of a record: why it is not priced, its model, the
\* moves that select it and its workload.
Terms == [moves |-> Moves,
          issue |-> [row \in Stream |-> Issue(row)], model |-> [row \in Stream |-> Record(row).model],
          chosen |-> [row \in Stream |-> Indices(row)], workload |-> [row \in Stream |-> Workload(row)]]

\* No text. (The name keeps it from the SMT solver, which has no empty string.)
Blank == ""

TermsOK(x) ==
    /\ x.moves \in Seq(MoveFields) /\ IsFiniteSet(DOMAIN x.moves)
    /\ \A i \in DOMAIN x.moves : x.moves[i].ratio \in Nat
    /\ \A row \in Stream :
          /\ x.issue[row] \in Issues \cup {Blank} /\ Blank \notin Issues
          /\ x.chosen[row] \in SUBSET DOMAIN x.moves /\ IsFiniteSet(x.chosen[row])
          /\ x.workload[row] \in Bins
          /\ x.issue[row] = Blank => Fits(row) /\ x.model[row] \in DOMAIN Prices

\* The terms of a scenario that is repriced are what the proofs need of them.
LEMMA TermsHold == Repricing => TermsOK(Terms)
<1> SUFFICES ASSUME Repricing PROVE TermsOK(Terms)
  OBVIOUS
<1>1. Terms.moves = Moves /\ \A row \in Stream :
         /\ Terms.issue[row] = Issue(row) /\ Terms.model[row] = Record(row).model
         /\ Terms.chosen[row] = Indices(row) /\ Terms.workload[row] = Workload(row)
  BY DEF Terms
<1>2. /\ Moves \in Seq(MoveFields) /\ IsFiniteSet(DOMAIN Moves)
      /\ \A i \in DOMAIN Moves : Moves[i].ratio \in Nat
  BY MovesType
<1>3. ASSUME NEW row \in Stream
      PROVE  /\ Issue(row) \in Issues \cup {""} /\ "" \notin Issues
             /\ Indices(row) \in SUBSET DOMAIN Moves /\ IsFiniteSet(Indices(row))
             /\ Workload(row) \in Bins
             /\ Issue(row) = "" => Fits(row) /\ Record(row).model \in DOMAIN Prices
  BY IssueType, RowMoves
<1>4. QED
  BY <1>1, <1>2, <1>3 DEF TermsOK, Blank

\* The options do not change, and neither do the terms.
LEMMA SameIssue ==
    ASSUME opts' = opts
    PROVE  \A row : Issue(row)' = Issue(row) /\ Workload(row)' = Workload(row) /\ Indices(row)' = Indices(row)
<1>1. Moves' = Moves /\ Routing' = Routing /\ Kinds4' = Kinds4
  BY DEF Moves, Routing, Kinds4
<1>2. \A row : Indices(row)' = Indices(row) /\ UnknownScope(row)' = UnknownScope(row) /\ MappedTo(row)' = MappedTo(row)
  BY <1>1 DEF Indices, UnknownScope, MappedTo, ScopeUnknown, Selects
<1>3. ASSUME NEW row PROVE Issue(row)' = Issue(row) /\ Workload(row)' = Workload(row)
  <2>1. Routing' = Routing /\ UnknownScope(row)' = UnknownScope(row)
    BY <1>1, <1>2
  <2>2. Issue(row)' = Issue(row)
    BY <2>1, Zenon DEF Issue
  <2>3. Workload(row)' = Workload(row)
    <3>1. Indices(row)' = Indices(row) /\ MappedTo(row)' = MappedTo(row)
      BY <1>2
    <3> DEFINE AnyOf(S) == CHOOSE w \in S : TRUE
    <3>2. Workload(row) = IF Indices(row) = {} \/ MappedTo(row) = {} THEN Blank ELSE AnyOf(MappedTo(row))
      BY DEF Workload, Blank
    <3>3. Workload(row)' = IF Indices(row)' = {} \/ MappedTo(row)' = {} THEN Blank ELSE AnyOf(MappedTo(row)')
      BY DEF Workload, Blank
    <3> HIDE DEF AnyOf
    <3>4. QED
      BY <3>1, <3>2, <3>3
  <2>4. QED
    BY <2>2, <2>3
<1>4. QED
  BY <1>2, <1>3

\* Options that do not change set the same terms.
LEMMA SameTerms == opts' = opts => Terms' = Terms
<1> SUFFICES ASSUME opts' = opts PROVE Terms' = Terms
  OBVIOUS
<1>1. Moves' = Moves /\ \A row : Issue(row)' = Issue(row) /\ Workload(row)' = Workload(row) /\ Indices(row)' = Indices(row)
  BY SameIssue DEF Moves
<1>2. QED
  BY <1>1 DEF Terms

CalcOK(x, c) == /\ c \in Calculators /\ DOMAIN c.moves = DOMAIN x.moves
                /\ \A i \in DOMAIN x.moves : BinsOK(c.moves[i].buckets)

Own(x, row) == Cost(row, x.model[row], Unit, Unit)

\* The calculator d is c and a record.
GainsRow(x, c, row, d) ==
    /\ x.issue[row] # Blank =>
          /\ d.covered = c.covered /\ d.baseline = c.baseline
          /\ d.excluded = [c.excluded EXCEPT ![x.issue[row]] = @ + 1]
          /\ \A i \in DOMAIN x.moves :
                /\ d.moves[i].covered = c.moves[i].covered /\ d.moves[i].buckets = c.moves[i].buckets
                /\ d.moves[i].excluded = c.moves[i].excluded + IF i \in x.chosen[row] THEN 1 ELSE 0
    /\ x.issue[row] = Blank =>
          /\ d.covered = c.covered + 1 /\ d.baseline = c.baseline + Own(x, row) /\ d.excluded = c.excluded
          /\ \A i \in DOMAIN x.moves \ x.chosen[row] : d.moves[i] = c.moves[i]
          /\ \A i \in x.chosen[row] :
                /\ d.moves[i].covered = c.moves[i].covered + 1 /\ d.moves[i].excluded = c.moves[i].excluded
                /\ Joined(c.moves[i].buckets, x.workload[row], row, d.moves[i].buckets)

\* Filled adds the tokens of a record to the bin of its workload.
LEMMA FilledJoins ==
    ASSUME NEW m, BinsOK(m.buckets), NEW w \in Bins, NEW row, Fits(row)
    PROVE  Joined(m.buckets, w, row, Filled(m, w, row)) /\ BinsOK(Filled(m, w, row))
<1> DEFINE F == Filled(m, w, row)
           B == m.buckets
<1>1. F = [x \in DOMAIN B \cup {w} |-> IF x = w THEN [f \in Parts4 |-> Bucket(m, w)[f] + row[f]] ELSE B[x]]
  BY DEF Filled
<1>2. PICK W : W \in SUBSET Bins /\ B \in [W -> [Parts4 -> Nat]]
  BY DEF BinsOK, Buckets, Bins
<1>3. DOMAIN B = W /\ \A x \in W : B[x] \in [Parts4 -> Nat]
  BY <1>2
<1>4. \A f \in Parts4 : row[f] \in Nat
  BY DEF Fits, Parts4
<1>5. \A f \in Parts4 : /\ Bucket(m, w)[f] = (IF w \in DOMAIN B THEN B[w][f] ELSE 0)
                        /\ Bucket(m, w)[f] \in Nat
  BY <1>3 DEF Bucket
<1>6. DOMAIN F = W \cup {w} /\ F[w] = [f \in Parts4 |-> Bucket(m, w)[f] + row[f]] /\ \A x \in W \ {w} : F[x] = B[x]
  BY <1>1, <1>3
<1>7. Joined(B, w, row, F)
  BY <1>3, <1>5, <1>6 DEF Joined
<1>8. F \in Buckets
  <2>1. F[w] \in [Parts4 -> Nat]
    BY <1>4, <1>5, <1>6
  <2>2. \A x \in W \cup {w} : F[x] \in [Parts4 -> Nat]
    BY <1>3, <1>6, <2>1
  <2>3. F \in [W \cup {w} -> [Parts4 -> Nat]]
    BY <1>1, <1>3, <2>2
  <2>4. W \cup {w} \in SUBSET Bins
    BY <1>2
  <2>5. QED
    BY <2>3, <2>4 DEF Buckets, Bins
<1>9. ASSUME NEW x \in DOMAIN F PROVE Fits(F[x])
  <2>1. CASE x = w
    <3>1. /\ {"input", "output", "read", "write"} = Parts4
          /\ \A f \in Parts4 : F[w][f] = (IF w \in DOMAIN B THEN B[w][f] ELSE 0) + row[f]
      BY <1>7 DEF Joined, Parts4
    <3>2. CASE w \in DOMAIN B
      <4>1. Fits(B[w])
        BY <3>2 DEF BinsOK
      <4>2. /\ F[w].input = B[w].input + row.input /\ F[w].output = B[w].output + row.output
            /\ F[w].read = B[w].read + row.read /\ F[w].write = B[w].write + row.write
        BY <3>1, <3>2
      <4>3. QED
        BY <2>1, <4>1, <4>2 DEF Fits
    <3>3. CASE w \notin DOMAIN B
      <4>1. /\ F[w].input = row.input /\ F[w].output = row.output
            /\ F[w].read = row.read /\ F[w].write = row.write
        BY <3>1, <3>3 DEF Fits
      <4>2. QED
        BY <2>1, <4>1 DEF Fits
    <3>4. QED
      BY <3>2, <3>3
  <2>2. CASE x # w
    BY <1>3, <1>6, <2>2 DEF BinsOK
  <2>3. QED
    BY <2>1, <2>2
<1>10. QED
  BY <1>7, <1>8, <1>9 DEF BinsOK

\* What a calculator keeps of a move.
Kept == [covered: Nat, excluded: Nat, buckets: Buckets]

\* Add takes a record into a calculator: if the record is priced, it joins the
\* bin of its workload in each move that selects it.
LEMMA AddedGains ==
    ASSUME Repricing, NEW c, CalcOK(Terms, c), NEW row \in Stream
    PROVE  GainsRow(Terms, c, row, Added(c, row)) /\ CalcOK(Terms, Added(c, row))
<1> DEFINE x == Terms
           d == Added(c, row)
           S == Indices(row)
           w == Workload(row)
<1>1. /\ x.moves = Moves /\ x.issue[row] = Issue(row) /\ x.model[row] = Record(row).model
      /\ x.chosen[row] = S /\ x.workload[row] = w
  BY DEF Terms
<1>2. /\ Issue(row) \in Issues \cup {Blank} /\ S \subseteq DOMAIN Moves /\ w \in Bins
      /\ Issue(row) = Blank => Fits(row) /\ Record(row).model \in DOMAIN Prices
  BY <1>1, TermsHold DEF TermsOK
<1>3. /\ DOMAIN c.moves = DOMAIN Moves
      /\ \A i \in DOMAIN Moves : BinsOK(c.moves[i].buckets) /\ c.moves[i] \in Kept
      /\ c.covered \in Nat /\ c.unmapped \in Nat /\ c.baseline \in Nat /\ c.excluded \in [Issues -> Nat]
      /\ c = [covered |-> c.covered, unmapped |-> c.unmapped, excluded |-> c.excluded, baseline |-> c.baseline,
              moves |-> c.moves]
  <2>1. c \in Calculators /\ DOMAIN c.moves = DOMAIN Moves /\ \A i \in DOMAIN Moves : BinsOK(c.moves[i].buckets)
    BY <1>1 DEF CalcOK
  <2>2. /\ c.covered \in Nat /\ c.unmapped \in Nat /\ c.baseline \in Nat /\ c.excluded \in [Issues -> Nat]
        /\ c = [covered |-> c.covered, unmapped |-> c.unmapped, excluded |-> c.excluded, baseline |-> c.baseline,
                moves |-> c.moves]
        /\ c.moves \in Seq(Kept)
    BY <2>1 DEF Calculators, Kept
  <2>3. \A i \in DOMAIN c.moves : c.moves[i] \in Kept
    BY <2>2
  <2>4. QED
    BY <2>1, <2>2, <2>3
<1>4. DOMAIN Moves = 1..Len(Moves) /\ Len(Moves) \in Nat
  BY MovesType
<1>5. ASSUME NEW f, DOMAIN f = DOMAIN Moves, f = [i \in DOMAIN Moves |-> f[i]], \A i \in DOMAIN Moves : f[i] \in Kept
      PROVE  f \in Seq(Kept)
  <2>1. f \in [1..Len(Moves) -> Kept]
    BY <1>4, <1>5
  <2>2. QED
    BY <1>4, <2>1
<1>6. CASE Issue(row) # Blank
  <2> DEFINE f == [i \in DOMAIN c.moves |-> IF i \in S THEN Skips(c.moves[i]) ELSE c.moves[i]]
  <2>1. d = [c EXCEPT !.excluded[Issue(row)] = @ + 1, !.moves = f]
    BY <1>6, Zenon DEF Added, Blank
  <2>2. /\ d.covered = c.covered /\ d.baseline = c.baseline /\ d.unmapped = c.unmapped /\ d.moves = f
        /\ d.excluded = [c.excluded EXCEPT ![Issue(row)] = @ + 1]
        /\ d = [covered |-> d.covered, unmapped |-> d.unmapped, excluded |-> d.excluded, baseline |-> d.baseline,
                moves |-> d.moves]
    BY <1>3, <2>1
  <2>3. \A i \in DOMAIN Moves :
           /\ f[i] \in Kept /\ f[i].covered = c.moves[i].covered /\ f[i].buckets = c.moves[i].buckets
           /\ f[i].excluded = c.moves[i].excluded + IF i \in S THEN 1 ELSE 0
    BY <1>3 DEF Skips, Kept
  <2>4. d.excluded \in [Issues -> Nat]
    BY <1>2, <1>3, <1>6, <2>2
  <2>5. f \in Seq(Kept)
    BY <1>3, <1>5, <2>3
  <2>6. d \in Calculators
    BY <1>3, <2>2, <2>4, <2>5 DEF Calculators, Kept
  <2>7. GainsRow(x, c, row, d)
    BY <1>1, <1>6, <2>2, <2>3 DEF GainsRow
  <2>8. QED
    BY <1>1, <1>3, <2>2, <2>3, <2>6, <2>7 DEF CalcOK
<1>7. CASE Issue(row) = Blank
  <2> DEFINE f == [i \in DOMAIN c.moves |->
                     IF i \in S THEN Takes(c.moves[i], row) ELSE c.moves[i]]
             more == Cost(row, Record(row).model, Unit, Unit)
             un == One(S # {} /\ w = "")
  <2>1. d = [c EXCEPT !.covered = @ + 1, !.baseline = @ + more, !.unmapped = @ + un, !.moves = f]
    BY <1>7, Zenon DEF Added, Blank
  <2>2. un \in Nat /\ more \in Nat /\ more = Own(x, row)
    <3>1. un \in Nat
      BY DEF One
    <3>2. Unit \in Nat
      BY WhatIfAssumption
    <3>3. more \in Nat
      BY <1>2, <1>7, <3>2, CostParts
    <3>4. QED
      BY <1>1, <3>1, <3>3 DEF Own
  <2> HIDE DEF un, more
  <2>3. /\ d.covered = c.covered + 1 /\ d.baseline = c.baseline + more /\ d.unmapped = c.unmapped + un /\ d.moves = f
        /\ d.excluded = c.excluded
        /\ d = [covered |-> d.covered, unmapped |-> d.unmapped, excluded |-> d.excluded, baseline |-> d.baseline,
                moves |-> d.moves]
    BY <1>3, <2>1
  <2>4. ASSUME NEW i \in S
        PROVE  /\ f[i] \in Kept /\ f[i].covered = c.moves[i].covered + 1 /\ f[i].excluded = c.moves[i].excluded
               /\ BinsOK(f[i].buckets) /\ Joined(c.moves[i].buckets, w, row, f[i].buckets)
    <3>1. i \in DOMAIN c.moves /\ c.moves[i] \in Kept /\ BinsOK(c.moves[i].buckets)
      BY <1>2, <1>3
    <3>2. /\ f[i] = [c.moves[i] EXCEPT !.covered = @ + 1, !.buckets = Filled(c.moves[i], w, row)]
      BY <3>1 DEF Takes
    <3> HIDE DEF f
    <3>3. /\ f[i].covered = c.moves[i].covered + 1 /\ f[i].excluded = c.moves[i].excluded
          /\ f[i].buckets = Filled(c.moves[i], w, row)
          /\ f[i] = [covered |-> f[i].covered, excluded |-> f[i].excluded, buckets |-> f[i].buckets]
      BY <3>1, <3>2 DEF Kept
    <3>4. Joined(c.moves[i].buckets, w, row, f[i].buckets) /\ BinsOK(f[i].buckets)
      BY <1>2, <1>7, <3>1, <3>3, FilledJoins
    <3>5. f[i].buckets \in Buckets
      BY <3>4 DEF BinsOK
    <3>6. f[i] \in Kept
      BY <3>1, <3>3, <3>5 DEF Kept
    <3>7. QED
      BY <3>3, <3>4, <3>6
  <2>5. \A i \in DOMAIN Moves \ S : f[i] = c.moves[i] /\ f[i] \in Kept
    BY <1>3
  <2>6. DOMAIN f = DOMAIN Moves /\ f = [i \in DOMAIN Moves |-> f[i]]
    BY <1>3
  <2> HIDE DEF f
  <2>7. f \in Seq(Kept)
    BY <1>5, <2>4, <2>5, <2>6
  <2>8. d \in Calculators
    BY <1>3, <2>2, <2>3, <2>7 DEF Calculators, Kept
  <2>9. GainsRow(x, c, row, d)
    BY <1>1, <1>7, <2>2, <2>3, <2>4, <2>5 DEF GainsRow
  <2>10. \A i \in DOMAIN Moves : BinsOK(f[i].buckets)
    BY <1>2, <1>3, <2>4, <2>5
  <2>11. QED
    BY <1>1, <2>3, <2>6, <2>8, <2>9, <2>10 DEF CalcOK
<1>8. QED
  BY <1>6, <1>7

-----------------------------------------------------------------------------
(* What a calculator holds of the records with the numbers in D.            *)

\* A price list for the tokens of each move: a model, a factor for the input
\* and one for the output of each workload.
Tariffs(x) == [DOMAIN x.moves -> [model: DOMAIN Prices, input: Nat, rate: Rates]]

\* What the moves that select a record charge for their shares of it, and what
\* a calculator charges for the tokens that it holds.
Share(x, row, y, i) == Cost(row, y[i].model, y[i].input, y[i].rate[x.workload[row]]) * x.moves[i].ratio
Charge(x, row, y) == SumFunctionOnSet([i \in x.chosen[row] |-> Share(x, row, y, i)], x.chosen[row])
Held(x, c, y, i) == BinsCost(c.moves[i].buckets, y[i].model, y[i].input, y[i].rate) * x.moves[i].ratio
Charged(x, c, y) == SumFunctionOnSet([i \in DOMAIN x.moves |-> Held(x, c, y, i)], DOMAIN x.moves)
Shares(x, row) == SumFunctionOnSet([i \in x.chosen[row] |-> x.moves[i].ratio], x.chosen[row])

Costed(x, R, D) == {j \in D : x.issue[R[j]] = Blank}
Chosen(x, R, D, i) == {j \in D : i \in x.chosen[R[j]]}

\* Records are covered or excluded for a reason; a move answers for those that
\* it selects, and holds bins of the workloads of the priced ones.
CountsTook(x, R, c, D) ==
    /\ c.covered = Cardinality(Costed(x, R, D))
    /\ c.covered + SumFunctionOnSet(c.excluded, Issues) = Cardinality(D)
    /\ \A e \in Issues : c.excluded[e] # 0 => \E j \in D : x.issue[R[j]] = e
    /\ \A i \in DOMAIN x.moves :
          /\ c.moves[i].covered + c.moves[i].excluded = Cardinality(Chosen(x, R, D, i))
          /\ c.moves[i].covered = 0 => DOMAIN c.moves[i].buckets = {}
          /\ DOMAIN c.moves[i].buckets = {x.workload[R[j]] : j \in Costed(x, R, D) \cap Chosen(x, R, D, i)}

\* Whatever the price list, what is held costs as much as the records do.
CostsTook(x, R, c, D) ==
    /\ c.baseline = SumFunctionOnSet([j \in Costed(x, R, D) |-> Own(x, R[j])], Costed(x, R, D))
    /\ \A j \in Costed(x, R, D) : Shares(x, R[j]) <= Parts
    /\ \A y \in Tariffs(x) :
          Charged(x, c, y) = SumFunctionOnSet([j \in Costed(x, R, D) |-> Charge(x, R[j], y)], Costed(x, R, D))

Took(x, R, c, D) == /\ CalcOK(x, c) /\ CountsTook(x, R, c, D) /\ CostsTook(x, R, c, D)
                    /\ R \in Seq(Stream) /\ D \in SUBSET DOMAIN R

\* R, D and a record that is numbered next.
Numbered(R, D, row, S, n) == /\ R \in Seq(Stream) /\ D \in SUBSET DOMAIN R /\ row \in Stream
                          /\ S = Append(R, row) /\ n = Len(R) + 1

\* The next record is new, and those before it stay.
LEMMA NumberedNext ==
    ASSUME NEW R, NEW D, NEW row, NEW S, NEW n, Numbered(R, D, row, S, n)
    PROVE  S[n] = row /\ n \notin D /\ \A j \in D : S[j] = R[j] /\ R[j] \in Stream
<1>1. R \in Seq(Stream) /\ D \in SUBSET (1..Len(R)) /\ S = Append(R, row) /\ n = Len(R) + 1 /\ Len(R) \in Nat
  BY DEF Numbered
<1>2. QED
  BY <1>1

\* The next record has a number, as those before it.
LEMMA NumberedIn ==
    ASSUME NEW R, NEW D, NEW row, NEW S, NEW n, Numbered(R, D, row, S, n)
    PROVE  S \in Seq(Stream) /\ D \cup {n} \in SUBSET DOMAIN S
<1>1. /\ R \in Seq(Stream) /\ D \in SUBSET (1..Len(R)) /\ row \in Stream /\ S = Append(R, row)
      /\ n = Len(R) + 1 /\ Len(R) \in Nat
  BY DEF Numbered
<1>2. S \in Seq(Stream) /\ DOMAIN S = 1..n
  BY <1>1
<1>3. DOMAIN S = 1..Len(R) + 1
  BY <1>1, <1>2
<1>4. D \cup {n} \in SUBSET DOMAIN S
  <2>1. \A j \in 1..Len(R) : j \in 1..Len(R) + 1
    BY <1>1
  <2>2. Len(R) + 1 \in 1..Len(R) + 1
    BY <1>1
  <2>3. n \in DOMAIN S /\ \A j \in D : j \in DOMAIN S
    BY <1>1, <1>3, <2>1, <2>2
  <2>4. QED
    BY <2>3
<1>5. QED
  BY <1>2, <1>4

\* The next record adds one to the number of records.
LEMMA NumberedCount ==
    ASSUME NEW R, NEW D, NEW row, NEW S, NEW n, Numbered(R, D, row, S, n)
    PROVE  IsFiniteSet(D) /\ Cardinality(D) \in Nat /\ Cardinality(D \cup {n}) = Cardinality(D) + 1
<1>1. D \in SUBSET (1..Len(R)) /\ Len(R) \in Nat /\ n \notin D
  BY NumberedNext DEF Numbered
<1>2. IsFiniteSet(1..Len(R))
  BY <1>1, FS_Interval
<1>3. IsFiniteSet(D)
  BY <1>1, <1>2, FS_Subset
<1>4. QED
  BY <1>1, <1>3, FS_AddElement, FS_CardinalityType

\* T and S differ by n, when P says so.
Joins(T, S, n, P) == T = IF P THEN S \cup {n} ELSE S

\* The sets of records grow by the next one, if it belongs to them.
LEMMA SetsGrow ==
    ASSUME NEW x, NEW R, NEW D, NEW row, NEW S, NEW n, Numbered(R, D, row, S, n)
    PROVE  /\ Joins(Costed(x, S, D \cup {n}), Costed(x, R, D), n, x.issue[row] = Blank)
           /\ \A i : Joins(Chosen(x, S, D \cup {n}, i), Chosen(x, R, D, i), n, i \in x.chosen[row])
<1>1. S[n] = row /\ \A j \in D : S[j] = R[j]
  BY NumberedNext
<1>2. QED
  BY <1>1 DEF Costed, Chosen, Joins

\* The values g of the priced records are those of f, and one of the next.
Extend(x, R, D, row, n, f, g) == /\ \A j \in Costed(x, R, D) : f[j] \in Nat /\ g[j] = f[j]
                                 /\ x.issue[row] = Blank => g[n] \in Nat

\* A sum over the priced records gains what the next one adds, if it is priced.
LEMMA PricedGrow ==
    ASSUME NEW x, NEW R, NEW D, NEW row, NEW S, NEW n, Numbered(R, D, row, S, n), NEW f, NEW g,
           Extend(x, R, D, row, n, f, g), NEW P, P = Costed(x, R, D), NEW Q, Q = Costed(x, S, D \cup {n})
    PROVE  /\ SumFunctionOnSet(f, P) \in Nat
           /\ x.issue[row] = Blank => SumFunctionOnSet(g, Q) = SumFunctionOnSet(f, P) + g[n]
           /\ x.issue[row] # Blank => SumFunctionOnSet(g, Q) = SumFunctionOnSet(f, P)
<1>0. (\A j \in P : f[j] \in Nat /\ g[j] = f[j]) /\ (x.issue[row] = Blank => g[n] \in Nat)
  BY DEF Extend
<1>2. IsFiniteSet(D) /\ n \notin D
  BY NumberedNext, NumberedCount
<1>3. P \in SUBSET D /\ Joins(Q, P, n, x.issue[row] = Blank)
  <2>1. P \in SUBSET D
    BY DEF Costed
  <2>2. QED
    BY SetsGrow, <2>1
<1>4. IsFiniteSet(P) /\ n \notin P
  BY <1>2, <1>3, FS_Subset
<1>5. SumFunctionOnSet(f, P) \in Nat
  BY <1>0, <1>4, SumType
<1>6. CASE x.issue[row] = Blank
  <2>1. MovesUp(f, g, P, n, g[n])
    BY <1>0, <1>4, <1>6 DEF MovesUp
  <2>2. SumFunctionOnSet(g, P \cup {n}) = SumFunctionOnSet(f, P) + g[n]
    BY <1>4, <2>1, SumMove
  <2>3. QED
    BY <1>0, <1>3, <1>4, <1>5, <1>6, <2>2 DEF Joins
<1>7. CASE x.issue[row] # Blank
  <2>1. SumFunctionOnSet(g, P) = SumFunctionOnSet(f, P)
    BY <1>0, <1>4, SumSame
  <2>2. QED
    BY <1>0, <1>3, <1>4, <1>5, <1>7, <2>1 DEF Joins
<1>8. QED
  BY <1>6, <1>7

\* The prices of a list, by move and workload.
LEMMA TariffType ==
    ASSUME NEW x, TermsOK(x), NEW y \in Tariffs(x)
    PROVE  \A i \in DOMAIN x.moves : /\ y[i].model \in DOMAIN Prices /\ y[i].input \in Nat /\ x.moves[i].ratio \in Nat
                                     /\ \A w \in Bins : y[i].rate[w] \in Nat
<1>1. \A i \in DOMAIN x.moves : y[i] \in [model: DOMAIN Prices, input: Nat, rate: Rates] /\ x.moves[i].ratio \in Nat
  BY DEF Tariffs, TermsOK
<1>2. \A r \in Rates : \A w \in Bins : r[w] \in Nat
  BY DEF Rates
<1>3. QED
  BY <1>1, <1>2

\* What the terms say of a record.
LEMMA RowTerms ==
    ASSUME NEW x, TermsOK(x), NEW row \in Stream
    PROVE  /\ x.issue[row] \in Issues \cup {Blank} /\ x.chosen[row] \in SUBSET DOMAIN x.moves
           /\ IsFiniteSet(x.chosen[row]) /\ IsFiniteSet(DOMAIN x.moves) /\ x.workload[row] \in Bins
           /\ x.issue[row] = Blank => Fits(row) /\ x.model[row] \in DOMAIN Prices
  BY DEF TermsOK

\* What a priced record is charged, in each move and together.
LEMMA ShareType ==
    ASSUME NEW x, TermsOK(x), NEW y \in Tariffs(x), NEW row \in Stream, x.issue[row] = Blank
    PROVE  Charge(x, row, y) \in Nat /\ \A i \in x.chosen[row] : Share(x, row, y, i) \in Nat
<1> DEFINE e == [i \in x.chosen[row] |-> Share(x, row, y, i)]
<1>1. ASSUME NEW i \in x.chosen[row] PROVE Share(x, row, y, i) \in Nat
  <2>1. /\ y[i].model \in DOMAIN Prices /\ y[i].input \in Nat /\ x.moves[i].ratio \in Nat
        /\ y[i].rate[x.workload[row]] \in Nat /\ Fits(row)
    BY RowTerms, TariffType
  <2>2. Cost(row, y[i].model, y[i].input, y[i].rate[x.workload[row]]) \in Nat
    BY <2>1, CostParts
  <2>3. QED
    BY <2>1, <2>2, ProductNat DEF Share
<1>2. \A i \in x.chosen[row] : e[i] \in Nat
  BY <1>1
<1>3. Charge(x, row, y) = SumFunctionOnSet(e, x.chosen[row])
  BY DEF Charge
<1> HIDE DEF e
<1>4. SumFunctionOnSet(e, x.chosen[row]) \in Nat
  BY <1>2, RowTerms, SumType
<1>5. QED
  BY <1>1, <1>3, <1>4

\* With a record a calculator charges what it did, and what the record costs.
LEMMA ChargedGrows ==
    ASSUME NEW x, TermsOK(x), NEW c, CalcOK(x, c), NEW d, CalcOK(x, d), NEW row \in Stream, GainsRow(x, c, row, d),
           NEW y \in Tariffs(x)
    PROVE  Charged(x, d, y) = Charged(x, c, y) + IF x.issue[row] = Blank THEN Charge(x, row, y) ELSE 0
<1> DEFINE f == [i \in DOMAIN x.moves |-> Held(x, c, y, i)]
           g == [i \in DOMAIN x.moves |-> Held(x, d, y, i)]
           e == [i \in x.chosen[row] |-> Share(x, row, y, i)]
<1>1. /\ Charged(x, c, y) = SumFunctionOnSet(f, DOMAIN x.moves)
      /\ Charged(x, d, y) = SumFunctionOnSet(g, DOMAIN x.moves)
      /\ Charge(x, row, y) = SumFunctionOnSet(e, x.chosen[row])
  BY DEF Charged, Charge
<1>2. ASSUME NEW i \in DOMAIN x.moves
      PROVE  /\ BinsCost(c.moves[i].buckets, y[i].model, y[i].input, y[i].rate) \in Nat
             /\ BinsCost(d.moves[i].buckets, y[i].model, y[i].input, y[i].rate) \in Nat
             /\ Held(x, c, y, i) \in Nat /\ Held(x, d, y, i) \in Nat
  <2>1. /\ y[i].model \in DOMAIN Prices /\ y[i].input \in Nat /\ x.moves[i].ratio \in Nat
        /\ \A w \in Bins : y[i].rate[w] \in Nat
    BY TariffType
  <2>2. BinsOK(c.moves[i].buckets) /\ BinsOK(d.moves[i].buckets)
    BY DEF CalcOK
  <2>3. BinsCost(c.moves[i].buckets, y[i].model, y[i].input, y[i].rate) \in Nat
    BY <2>1, <2>2, BinsFinite, BinsCostType
  <2>4. BinsCost(d.moves[i].buckets, y[i].model, y[i].input, y[i].rate) \in Nat
    BY <2>1, <2>2, BinsFinite, BinsCostType
  <2>5. QED
    BY <2>1, <2>3, <2>4, ProductNat DEF Held
<1>3. x.chosen[row] \in SUBSET DOMAIN x.moves /\ IsFiniteSet(DOMAIN x.moves)
  BY RowTerms
<1>4. CASE x.issue[row] = Blank
  <2>1. ASSUME NEW i \in DOMAIN x.moves
        PROVE  /\ i \in x.chosen[row] => Held(x, d, y, i) = Held(x, c, y, i) + Share(x, row, y, i)
               /\ i \notin x.chosen[row] => Held(x, d, y, i) = Held(x, c, y, i)
    <3>1. CASE i \in x.chosen[row]
      <4>1. /\ y[i].model \in DOMAIN Prices /\ y[i].input \in Nat /\ x.moves[i].ratio \in Nat
            /\ \A w \in Bins : y[i].rate[w] \in Nat
        BY TariffType
      <4>2. /\ BinsOK(c.moves[i].buckets) /\ BinsOK(d.moves[i].buckets)
            /\ Joined(c.moves[i].buckets, x.workload[row], row, d.moves[i].buckets)
            /\ Fits(row) /\ x.workload[row] \in Bins
        BY <1>4, <3>1, RowTerms DEF CalcOK, GainsRow
      <4>3. PICK k : k = Cost(row, y[i].model, y[i].input, y[i].rate[x.workload[row]])
        OBVIOUS
      <4>4. k \in Nat
        BY <4>1, <4>2, <4>3, CostParts
      <4>5. PICK a, b : a = BinsCost(c.moves[i].buckets, y[i].model, y[i].input, y[i].rate)
                        /\ b = BinsCost(d.moves[i].buckets, y[i].model, y[i].input, y[i].rate)
        OBVIOUS
      <4>6. b = a + k
        <5>1. PICK rate : rate = y[i].rate
          OBVIOUS
        <5>2. \A w \in Bins : rate[w] \in Nat
          BY <4>1, <5>1
        <5>3. BinsCost(d.moves[i].buckets, y[i].model, y[i].input, rate)
              = BinsCost(c.moves[i].buckets, y[i].model, y[i].input, rate)
                + Cost(row, y[i].model, y[i].input, rate[x.workload[row]])
          BY <4>1, <4>2, <5>2, BinsGain
        <5>4. QED
          BY <4>3, <4>5, <5>1, <5>3
      <4>7. a \in Nat
        BY <1>2, <4>5
      <4>8. (a + k) * x.moves[i].ratio = a * x.moves[i].ratio + k * x.moves[i].ratio
        BY <4>1, <4>4, <4>7, Distributes
      <4>9. QED
        BY <3>1, <4>3, <4>5, <4>6, <4>8 DEF Held, Share
    <3>2. CASE i \notin x.chosen[row]
      <4>1. d.moves[i] = c.moves[i]
        BY <1>4, <3>2 DEF GainsRow
      <4>2. QED
        BY <3>2, <4>1 DEF Held
    <3>3. QED
      BY <3>1, <3>2
  <2>2. \A i \in x.chosen[row] : Share(x, row, y, i) \in Nat
    BY <1>4, ShareType
  <2>3. \A i \in DOMAIN x.moves :
           /\ f[i] \in Nat /\ (i \in x.chosen[row] => e[i] \in Nat /\ g[i] = f[i] + e[i])
           /\ (i \notin x.chosen[row] => g[i] = f[i])
    BY <1>2, <2>1, <2>2
  <2> HIDE DEF f, g, e
  <2>4. SumFunctionOnSet(g, DOMAIN x.moves) = SumFunctionOnSet(f, DOMAIN x.moves) + SumFunctionOnSet(e, x.chosen[row])
    BY <1>3, <2>3, SumSpread
  <2>5. QED
    BY <1>1, <1>4, <2>4
<1>5. CASE x.issue[row] # Blank
  <2>1. \A i \in DOMAIN x.moves : d.moves[i].buckets = c.moves[i].buckets
    BY <1>5 DEF GainsRow
  <2>2. \A i \in DOMAIN x.moves : g[i] = f[i] /\ f[i] \in Nat
    BY <1>2, <2>1 DEF Held
  <2> HIDE DEF f, g, e
  <2>3. SumFunctionOnSet(g, DOMAIN x.moves) = SumFunctionOnSet(f, DOMAIN x.moves)
    BY <1>3, <2>2, SumSame
  <2>4. SumFunctionOnSet(f, DOMAIN x.moves) \in Nat
    BY <1>3, <2>2, SumType
  <2>5. QED
    BY <1>1, <1>5, <2>3, <2>4
<1>6. QED
  BY <1>4, <1>5

\* A calculator that takes one more record.
TakesNext(x, R, c, D, row, S, n, d) ==
    /\ TermsOK(x) /\ Took(x, R, c, D) /\ Numbered(R, D, row, S, n)
    /\ GainsRow(x, c, row, d) /\ CalcOK(x, d) /\ (x.issue[row] = Blank => Shares(x, row) <= Parts)

\* A calculator that takes the next record still costs what its records do.
LEMMA CostsMore ==
    ASSUME NEW x, NEW R, NEW c, NEW D, NEW row, NEW S, NEW n, NEW d, TakesNext(x, R, c, D, row, S, n, d)
    PROVE  CostsTook(x, S, d, D \cup {n})
<1>1. /\ TermsOK(x) /\ Took(x, R, c, D) /\ Numbered(R, D, row, S, n) /\ row \in Stream
      /\ GainsRow(x, c, row, d) /\ CalcOK(x, c) /\ CalcOK(x, d) /\ (x.issue[row] = Blank => Shares(x, row) <= Parts)
  BY DEF TakesNext, Took, Numbered
<1>2. PICK P, Q : P = Costed(x, R, D) /\ Q = Costed(x, S, D \cup {n})
  OBVIOUS
<1>3. Joins(Q, P, n, x.issue[row] = Blank) /\ IsFiniteSet(D) /\ n \notin D /\ S[n] = row
      /\ \A j \in D : S[j] = R[j] /\ R[j] \in Stream
  <2>1. Joins(Q, P, n, x.issue[row] = Blank)
    BY <1>1, <1>2, SetsGrow
  <2>2. Numbered(R, D, row, S, n)
    BY <1>1
  <2>3. n \notin D /\ S[n] = row /\ \A j \in D : S[j] = R[j] /\ R[j] \in Stream
    BY <2>2, NumberedNext
  <2>4. IsFiniteSet(D)
    BY <2>2, NumberedCount
  <2>5. QED
    BY <2>1, <2>3, <2>4
<1>4. P \in SUBSET D /\ \A j \in P : R[j] \in Stream /\ x.issue[R[j]] = Blank /\ S[j] = R[j]
  BY <1>2, <1>3 DEF Costed
<1>5. /\ \A r \in Stream : x.issue[r] = Blank => Own(x, r) \in Nat
  <2>1. Unit \in Nat
    BY WhatIfAssumption
  <2>2. QED
    BY <1>1, <2>1, RowTerms, CostParts DEF Own
<1>6. d.baseline = SumFunctionOnSet([j \in Q |-> Own(x, S[j])], Q)
  <2> DEFINE f == [j \in P |-> Own(x, R[j])]
             g == [j \in Q |-> Own(x, S[j])]
  <2>1. \A j \in P : j \in Q /\ f[j] \in Nat /\ g[j] = f[j]
    BY <1>3, <1>4, <1>5 DEF Joins
  <2>2. x.issue[row] = Blank => n \in Q /\ g[n] = Own(x, row) /\ g[n] \in Nat
    BY <1>1, <1>3, <1>5 DEF Joins
  <2>3. c.baseline = SumFunctionOnSet(f, P)
    BY <1>1, <1>2 DEF Took, CostsTook
  <2> HIDE DEF f, g
  <2>4. /\ SumFunctionOnSet(f, P) \in Nat
        /\ x.issue[row] = Blank => SumFunctionOnSet(g, Q) = SumFunctionOnSet(f, P) + g[n]
        /\ x.issue[row] # Blank => SumFunctionOnSet(g, Q) = SumFunctionOnSet(f, P)
    <3>1. Extend(x, R, D, row, n, f, g)
      BY <1>2, <2>1, <2>2 DEF Extend
    <3>2. QED
      BY <1>1, <1>2, <3>1, PricedGrow
  <2>5. d.baseline = c.baseline + IF x.issue[row] = Blank THEN Own(x, row) ELSE 0
    <3>1. c.baseline \in Nat
      BY <2>3, <2>4
    <3>2. QED
      BY <1>1, <3>1 DEF GainsRow
  <2>6. SumFunctionOnSet(g, Q) = d.baseline
    BY <2>2, <2>3, <2>4, <2>5
  <2>7. QED
    BY <2>6 DEF g
<1>7. \A j \in Q : Shares(x, S[j]) <= Parts
  <2>1. \A j \in P : Shares(x, R[j]) <= Parts
    BY <1>1, <1>2 DEF Took, CostsTook
  <2>2. \A j \in Q : j \in P \/ (j = n /\ x.issue[row] = Blank)
    BY <1>3 DEF Joins
  <2>3. QED
    BY <1>1, <1>3, <1>4, <2>1, <2>2
<1>8. ASSUME NEW y \in Tariffs(x) PROVE Charged(x, d, y) = SumFunctionOnSet([j \in Q |-> Charge(x, S[j], y)], Q)
  <2> DEFINE f == [j \in P |-> Charge(x, R[j], y)]
             g == [j \in Q |-> Charge(x, S[j], y)]
  <2>0. \A r \in Stream : x.issue[r] = Blank => Charge(x, r, y) \in Nat
    BY <1>1, ShareType
  <2>1. \A j \in P : j \in Q /\ f[j] \in Nat /\ g[j] = f[j]
    BY <1>3, <1>4, <2>0 DEF Joins
  <2>2. x.issue[row] = Blank => n \in Q /\ g[n] = Charge(x, row, y) /\ g[n] \in Nat
    BY <1>1, <1>3, <2>0 DEF Joins
  <2>3. Charged(x, c, y) = SumFunctionOnSet(f, P)
    BY <1>1, <1>2 DEF Took, CostsTook
  <2> HIDE DEF f, g
  <2>4. /\ SumFunctionOnSet(f, P) \in Nat
        /\ x.issue[row] = Blank => SumFunctionOnSet(g, Q) = SumFunctionOnSet(f, P) + g[n]
        /\ x.issue[row] # Blank => SumFunctionOnSet(g, Q) = SumFunctionOnSet(f, P)
    <3>1. Extend(x, R, D, row, n, f, g)
      BY <1>2, <2>1, <2>2 DEF Extend
    <3>2. QED
      BY <1>1, <1>2, <3>1, PricedGrow
  <2>5. Charged(x, d, y) = Charged(x, c, y) + IF x.issue[row] = Blank THEN Charge(x, row, y) ELSE 0
    BY <1>1, ChargedGrows
  <2>6. SumFunctionOnSet(g, Q) = Charged(x, d, y)
    BY <2>2, <2>3, <2>4, <2>5
  <2>7. QED
    BY <2>6 DEF g
<1>9. QED
  BY <1>2, <1>6, <1>7, <1>8 DEF CostsTook

\* Three values are finitely many.
LEMMA FiniteTriple == ASSUME NEW a, NEW b, NEW c PROVE IsFiniteSet({a, b, c})
<1>1. IsFiniteSet({a}) /\ IsFiniteSet({b}) /\ IsFiniteSet({c})
  BY FS_Singleton
<1>2. IsFiniteSet({a} \cup {b})
  BY <1>1, FS_Union
<1>3. IsFiniteSet(({a} \cup {b}) \cup {c})
  BY <1>1, <1>2, FS_Union
<1>4. {a, b, c} = ({a} \cup {b}) \cup {c}
  OBVIOUS
<1>5. QED
  BY <1>3, <1>4

\* The reasons are finitely many texts.
LEMMA IssuesFinite == IsFiniteSet(Issues) /\ Blank \notin Issues
<1>1. PICK e1, e2, e3, e4, e5, e6, e7, e8, e9 : Issues = {e1, e2, e3, e4, e5, e6, e7, e8, e9}
  BY Zenon DEF Issues
<1>2. IsFiniteSet({e1, e2, e3})
  BY FiniteTriple
<1>3. IsFiniteSet({e4, e5, e6})
  BY FiniteTriple
<1>4. IsFiniteSet({e7, e8, e9})
  BY FiniteTriple
<1>5. Issues = ({e1, e2, e3} \cup {e4, e5, e6}) \cup {e7, e8, e9}
  BY <1>1
<1>6. IsFiniteSet(Issues)
  <2>1. IsFiniteSet({e1, e2, e3} \cup {e4, e5, e6})
    BY <1>2, <1>3, FS_Union
  <2>2. QED
    BY <1>4, <1>5, <2>1, FS_Union
<1>7. Blank \notin Issues
  BY Zenon DEF Blank, Issues
<1>8. QED
  BY <1>6, <1>7

\* A set that may gain n has as many more members.
LEMMA CountGrow ==
    ASSUME NEW T, NEW U, IsFiniteSet(T), NEW n, n \notin T, U = T \/ U = T \cup {n}
    PROVE  /\ Cardinality(T) \in Nat /\ (U = T => Cardinality(U) = Cardinality(T))
           /\ U = T \cup {n} => Cardinality(U) = Cardinality(T) + 1
<1>1. Cardinality(T) \in Nat /\ Cardinality(T \cup {n}) = Cardinality(T) + 1
  BY FS_AddElement, FS_CardinalityType
<1>2. QED
  BY <1>1

\* A calculator that takes the next record still counts its records.
LEMMA CountsMore ==
    ASSUME NEW x, NEW R, NEW c, NEW D, NEW row, NEW S, NEW n, NEW d, TakesNext(x, R, c, D, row, S, n, d)
    PROVE  CountsTook(x, S, d, D \cup {n})
<1>1. /\ TermsOK(x) /\ CountsTook(x, R, c, D) /\ Numbered(R, D, row, S, n) /\ row \in Stream
      /\ GainsRow(x, c, row, d) /\ c \in Calculators /\ DOMAIN c.moves = DOMAIN x.moves
  BY DEF TakesNext, Took, Numbered, CalcOK
<1>2. PICK P, Q, E : P = Costed(x, R, D) /\ Q = Costed(x, S, D \cup {n}) /\ E = D \cup {n}
  OBVIOUS
<1>3. /\ Joins(Q, P, n, x.issue[row] = Blank) /\ IsFiniteSet(D) /\ n \notin D /\ S[n] = row
      /\ \A j \in D : S[j] = R[j] /\ R[j] \in Stream
      /\ Cardinality(D) \in Nat /\ Cardinality(E) = Cardinality(D) + 1
  <2>1. Joins(Q, P, n, x.issue[row] = Blank)
    BY <1>1, <1>2, SetsGrow
  <2>2. /\ S[n] = row /\ \A j \in D : S[j] = R[j] /\ R[j] \in Stream
        /\ n \notin D
    BY <1>1, NumberedNext
  <2>3. IsFiniteSet(D) /\ Cardinality(D) \in Nat /\ Cardinality(E) = Cardinality(D) + 1
    BY <1>1, <1>2, NumberedCount
  <2>4. QED
    BY <2>1, <2>2, <2>3
<1>4. P \in SUBSET D /\ IsFiniteSet(P) /\ n \notin P
  <2>1. P \in SUBSET D
    BY <1>2 DEF Costed
  <2>2. QED
    BY <1>3, <2>1, FS_Subset
<1>5. /\ c.covered \in Nat /\ c.excluded \in [Issues -> Nat]
      /\ \A i \in DOMAIN x.moves : c.moves[i].covered \in Nat /\ c.moves[i].excluded \in Nat
  <2>1. c.covered \in Nat /\ c.excluded \in [Issues -> Nat] /\ c.moves \in Seq(Kept)
    BY <1>1 DEF Calculators, Kept
  <2>2. \A i \in DOMAIN x.moves : c.moves[i] \in Kept
    BY <1>1, <2>1
  <2>3. QED
    BY <2>1, <2>2 DEF Kept
<1>6. d.covered = Cardinality(Q)
  <2>1. Cardinality(Q) = Cardinality(P) + IF x.issue[row] = Blank THEN 1 ELSE 0
    BY <1>3, <1>4, CountGrow DEF Joins
  <2>2. c.covered = Cardinality(P)
    BY <1>1, <1>2 DEF CountsTook
  <2>3. d.covered = c.covered + IF x.issue[row] = Blank THEN 1 ELSE 0
    BY <1>1, <1>5 DEF GainsRow
  <2>4. QED
    BY <2>1, <2>2, <2>3
<1>7. d.covered + SumFunctionOnSet(d.excluded, Issues) = Cardinality(E)
  <2>1. PICK f, g : f = c.excluded /\ g = d.excluded
    OBVIOUS
  <2>2. IsFiniteSet(Issues)
    BY IssuesFinite
  <2>3. SumFunctionOnSet(f, Issues) \in Nat
    BY <1>5, <2>1, <2>2, SumType
  <2>4. c.covered + SumFunctionOnSet(f, Issues) = Cardinality(D)
    BY <1>1, <2>1 DEF CountsTook
  <2>5. CASE x.issue[row] = Blank
    <3>1. d.covered = c.covered + 1 /\ g = f
      BY <1>1, <2>1, <2>5 DEF GainsRow
    <3>2. QED
      BY <1>3, <1>5, <2>1, <2>3, <2>4, <3>1
  <2>6. CASE x.issue[row] # Blank
    <3>1. PICK e \in Issues : e = x.issue[row]
      BY <1>1, <2>6, RowTerms
    <3>2. d.covered = c.covered /\ g = [f EXCEPT ![e] = @ + 1]
      BY <1>1, <2>1, <2>6, <3>1 DEF GainsRow
    <3>3. MovesUp(f, g, Issues, e, 1)
      BY <1>5, <2>1, <3>1, <3>2 DEF MovesUp
    <3>4. Issues \cup {e} = Issues
      BY <3>1
    <3>5. SumFunctionOnSet(g, Issues) = SumFunctionOnSet(f, Issues) + 1
      BY <2>2, <3>3, <3>4, SumMove
    <3>6. QED
      BY <1>3, <1>5, <2>1, <2>3, <2>4, <3>2, <3>5
  <2>7. QED
    BY <2>5, <2>6
<1>8. ASSUME NEW e \in Issues, d.excluded[e] # 0 PROVE \E j \in E : x.issue[S[j]] = e
  <2>1. c.excluded[e] # 0 \/ x.issue[row] = e
    BY <1>1, <1>5, <1>8 DEF GainsRow
  <2>2. CASE c.excluded[e] # 0
    <3>1. PICK j \in D : x.issue[R[j]] = e
      BY <1>1, <2>2 DEF CountsTook
    <3>2. QED
      BY <1>2, <1>3, <3>1
  <2>3. CASE x.issue[row] = e
    BY <1>2, <1>3, <2>3
  <2>4. QED
    BY <2>1, <2>2, <2>3
<1>9. ASSUME NEW i \in DOMAIN x.moves
      PROVE  /\ d.moves[i].covered + d.moves[i].excluded = Cardinality(Chosen(x, S, E, i))
             /\ d.moves[i].covered = 0 => DOMAIN d.moves[i].buckets = {}
             /\ DOMAIN d.moves[i].buckets = {x.workload[S[j]] : j \in Q \cap Chosen(x, S, E, i)}
  <2>1. PICK T, U : T = Chosen(x, R, D, i) /\ U = Chosen(x, S, E, i)
    OBVIOUS
  <2>2. Joins(U, T, n, i \in x.chosen[row])
    BY <1>1, <1>2, <2>1, SetsGrow
  <2>3. T \in SUBSET D /\ IsFiniteSet(T) /\ n \notin T
    <3>1. T \in SUBSET D
      BY <2>1 DEF Chosen
    <3>2. QED
      BY <1>3, <3>1, FS_Subset
  <2>4. Cardinality(T) \in Nat /\ Cardinality(U) = Cardinality(T) + IF i \in x.chosen[row] THEN 1 ELSE 0
    <3>1. U = IF i \in x.chosen[row] THEN T \cup {n} ELSE T
      BY <2>2 DEF Joins
    <3>2. U = T \/ U = T \cup {n}
      BY <3>1
    <3>3. /\ Cardinality(T) \in Nat /\ (U = T => Cardinality(U) = Cardinality(T))
          /\ U = T \cup {n} => Cardinality(U) = Cardinality(T) + 1
      BY <2>3, <3>2, CountGrow
    <3>4. QED
      BY <3>1, <3>3
  <2>5. /\ c.moves[i].covered + c.moves[i].excluded = Cardinality(T)
        /\ c.moves[i].covered = 0 => DOMAIN c.moves[i].buckets = {}
        /\ DOMAIN c.moves[i].buckets = {x.workload[R[j]] : j \in P \cap T}
        /\ c.moves[i].covered \in Nat /\ c.moves[i].excluded \in Nat
    BY <1>1, <1>2, <1>5, <2>1 DEF CountsTook
  <2>6. {x.workload[R[j]] : j \in P \cap T} = {x.workload[S[j]] : j \in P \cap T}
    BY <1>3, <1>4
  <2>7. CASE x.issue[row] # Blank
    <3>1. /\ d.moves[i].covered = c.moves[i].covered /\ d.moves[i].buckets = c.moves[i].buckets
          /\ d.moves[i].excluded = c.moves[i].excluded + IF i \in x.chosen[row] THEN 1 ELSE 0
      BY <1>1, <2>7 DEF GainsRow
    <3>2. Q \cap U = P \cap T
      BY <1>3, <1>4, <2>2, <2>7 DEF Joins
    <3>3. d.moves[i].covered + d.moves[i].excluded = Cardinality(U)
      BY <2>4, <2>5, <3>1
    <3>4. QED
      BY <2>1, <2>5, <2>6, <3>1, <3>2, <3>3
  <2>8. CASE x.issue[row] = Blank /\ i \notin x.chosen[row]
    <3>1. d.moves[i] = c.moves[i]
      BY <1>1, <2>8 DEF GainsRow
    <3>2. Q \cap U = P \cap T
      BY <1>3, <1>4, <2>2, <2>3, <2>8 DEF Joins
    <3>3. d.moves[i].covered + d.moves[i].excluded = Cardinality(U)
      BY <2>4, <2>5, <2>8, <3>1
    <3>4. QED
      BY <2>1, <2>5, <2>6, <3>1, <3>2, <3>3
  <2>9. CASE x.issue[row] = Blank /\ i \in x.chosen[row]
    <3>1. /\ d.moves[i].covered = c.moves[i].covered + 1 /\ d.moves[i].excluded = c.moves[i].excluded
          /\ DOMAIN d.moves[i].buckets = DOMAIN c.moves[i].buckets \cup {x.workload[row]}
      BY <1>1, <2>9 DEF GainsRow, Joined
    <3>2. Q \cap U = (P \cap T) \cup {n}
      BY <1>3, <1>4, <2>2, <2>3, <2>9 DEF Joins
    <3>3. d.moves[i].covered + d.moves[i].excluded = Cardinality(U) /\ d.moves[i].covered # 0
      BY <2>4, <2>5, <2>9, <3>1
    <3>4. {x.workload[S[j]] : j \in (P \cap T) \cup {n}} = {x.workload[S[j]] : j \in P \cap T} \cup {x.workload[row]}
      BY <1>3
    <3>5. QED
      BY <2>1, <2>5, <2>6, <3>1, <3>2, <3>3, <3>4
  <2>10. QED
    BY <2>7, <2>8, <2>9
<1>10. QED
  BY <1>2, <1>6, <1>7, <1>8, <1>9 DEF CountsTook

\* A calculator keeps what it holds of the records when it takes another.
LEMMA TookMore ==
    ASSUME NEW x, NEW R, NEW c, NEW D, NEW row, NEW S, NEW n, NEW d, TakesNext(x, R, c, D, row, S, n, d)
    PROVE  Took(x, S, d, D \cup {n})
<1>1. S \in Seq(Stream) /\ D \cup {n} \in SUBSET DOMAIN S /\ CalcOK(x, d)
  BY NumberedIn DEF TakesNext
<1>2. QED
  BY <1>1, CountsMore, CostsMore DEF Took

\* A record that it does not take is not its concern.
LEMMA TookStays ==
    ASSUME NEW x, NEW R, NEW c, NEW D, Took(x, R, c, D), NEW row \in Stream
    PROVE  Took(x, Append(R, row), c, D)
<1>1. R \in Seq(Stream) /\ D \in SUBSET DOMAIN R
  BY DEF Took
<1>2. PICK S : S = Append(R, row)
  OBVIOUS
<1>3. S \in Seq(Stream) /\ D \in SUBSET DOMAIN S /\ \A j \in D : S[j] = R[j]
  BY <1>1, <1>2
<1>4. Costed(x, S, D) = Costed(x, R, D) /\ \A i : Chosen(x, S, D, i) = Chosen(x, R, D, i)
  BY <1>3 DEF Costed, Chosen
<1>5. \A j \in Costed(x, R, D) : S[j] = R[j]
  BY <1>3 DEF Costed
<1>6. CountsTook(x, S, c, D)
  <2>1. \A i : {x.workload[S[j]] : j \in Costed(x, S, D) \cap Chosen(x, S, D, i)}
               = {x.workload[R[j]] : j \in Costed(x, R, D) \cap Chosen(x, R, D, i)}
    BY <1>4, <1>5
  <2>2. \A e : (\E j \in D : x.issue[R[j]] = e) => \E j \in D : x.issue[S[j]] = e
    BY <1>3
  <2>3. CountsTook(x, R, c, D)
    BY DEF Took
  <2>4. QED
    BY <1>4, <2>1, <2>2, <2>3 DEF CountsTook
<1>7. CostsTook(x, S, c, D)
  <2>1. [j \in Costed(x, S, D) |-> Own(x, S[j])] = [j \in Costed(x, R, D) |-> Own(x, R[j])]
    BY <1>4, <1>5
  <2>2. \A y : [j \in Costed(x, S, D) |-> Charge(x, S[j], y)] = [j \in Costed(x, R, D) |-> Charge(x, R[j], y)]
    BY <1>4, <1>5
  <2>3. CostsTook(x, R, c, D)
    BY DEF Took
  <2>4. QED
    BY <1>4, <1>5, <2>1, <2>2, <2>3 DEF CostsTook
<1>8. QED
  BY <1>2, <1>3, <1>6, <1>7 DEF Took

\* A new calculator holds nothing, at no cost.
LEMMA NothingTook ==
    ASSUME Repricing, NEW R, R \in Seq(Stream)
    PROVE  Took(Terms, R, NewCalculator(Len(Moves)), {})
<1> DEFINE x == Terms
           c == NewCalculator(Len(Moves))
<1>1. TermsOK(x) /\ x.moves = Moves /\ DOMAIN Moves = 1..Len(Moves) /\ Len(Moves) \in Nat /\ IsFiniteSet(DOMAIN Moves)
  BY TermsHold, MovesType DEF Terms
<1>2. /\ c.covered = 0 /\ c.unmapped = 0 /\ c.excluded = [e \in Issues |-> 0] /\ c.baseline = 0
      /\ c.moves = [i \in 1..Len(Moves) |-> [covered |-> 0, excluded |-> 0, buckets |-> [w \in {} |-> w]]]
      /\ c = [covered |-> c.covered, unmapped |-> c.unmapped, excluded |-> c.excluded, baseline |-> c.baseline,
              moves |-> c.moves]
  BY DEF NewCalculator
<1>3. PICK none : none = [w \in {} |-> w]
  OBVIOUS
<1>4. DOMAIN none = {} /\ none \in Buckets
  <2>1. none \in [{} -> [Parts4 -> Nat]]
    BY <1>3
  <2>2. {} \in SUBSET (Workloads \cup {""})
    OBVIOUS
  <2>3. QED
    BY <1>3, <2>1, <2>2 DEF Buckets
<1>5. \A i \in DOMAIN Moves : /\ c.moves[i].covered = 0 /\ c.moves[i].excluded = 0 /\ c.moves[i].buckets = none
                              /\ c.moves[i] \in Kept
  <2>1. [covered |-> 0, excluded |-> 0, buckets |-> none] \in Kept
    BY <1>4 DEF Kept
  <2>2. QED
    BY <1>1, <1>2, <1>3, <2>1
<1>6. CalcOK(x, c)
  <2>1. c.moves \in Seq(Kept)
    <3>1. c.moves = [i \in 1..Len(Moves) |-> [covered |-> 0, excluded |-> 0, buckets |-> none]]
      BY <1>2, <1>3
    <3>2. [covered |-> 0, excluded |-> 0, buckets |-> none] \in Kept
      BY <1>4 DEF Kept
    <3>3. QED
      BY <1>1, <3>1, <3>2
  <2>2. c.excluded \in [Issues -> Nat]
    BY <1>2
  <2> HIDE DEF c
  <2>3. c \in Calculators
    <3>1. c.covered \in Nat /\ c.unmapped \in Nat /\ c.baseline \in Nat
      BY <1>2
    <3>2. c = [covered |-> c.covered, unmapped |-> c.unmapped, excluded |-> c.excluded, baseline |-> c.baseline,
               moves |-> c.moves]
      BY <1>2
    <3>3. QED
      BY <2>1, <2>2, <3>1, <3>2 DEF Calculators, Kept
  <2>4. BinsOK(none)
    BY <1>4 DEF BinsOK
  <2>5. QED
    BY <1>1, <1>2, <1>5, <2>3, <2>4 DEF CalcOK
<1> HIDE DEF c, x
<1>7. IsFiniteSet({}) /\ Cardinality({}) = 0 /\ \A g : SumFunctionOnSet(g, {}) = 0
  BY FS_EmptySet, SumStep
<1>8. Costed(x, R, {}) = {} /\ \A i : Chosen(x, R, {}, i) = {}
  BY DEF Costed, Chosen
<1>9. CountsTook(x, R, c, {})
  <2>1. \A e \in Issues : c.excluded[e] = 0
    BY <1>2
  <2>2. SumFunctionOnSet(c.excluded, Issues) = 0
    BY <2>1, IssuesFinite, SumZero
  <2>3. c.covered = Cardinality(Costed(x, R, {})) /\ c.covered + SumFunctionOnSet(c.excluded, Issues) = Cardinality({})
    <3>1. c.covered = 0
      BY <1>2
    <3>2. Cardinality(Costed(x, R, {})) = 0 /\ Cardinality({}) = 0
      BY <1>7, <1>8
    <3>3. QED
      BY <2>2, <3>1, <3>2
  <2>4. ASSUME NEW i \in DOMAIN x.moves
        PROVE  /\ c.moves[i].covered + c.moves[i].excluded = Cardinality(Chosen(x, R, {}, i))
               /\ DOMAIN c.moves[i].buckets = {}
               /\ {x.workload[R[j]] : j \in Costed(x, R, {}) \cap Chosen(x, R, {}, i)} = {}
    <3>1. Chosen(x, R, {}, i) = {} /\ Cardinality(Chosen(x, R, {}, i)) = 0
      BY <1>7, <1>8
    <3>2. i \in DOMAIN Moves
      BY <1>1
    <3>3. c.moves[i].covered = 0 /\ c.moves[i].excluded = 0 /\ DOMAIN c.moves[i].buckets = {}
      BY <1>4, <1>5, <3>2
    <3>4. {x.workload[R[j]] : j \in Costed(x, R, {}) \cap {}} = {}
      OBVIOUS
    <3>5. QED
      BY <3>1, <3>3, <3>4
  <2>5. QED
    BY <2>1, <2>3, <2>4 DEF CountsTook
<1>10. ASSUME NEW y \in Tariffs(x) PROVE Charged(x, c, y) = 0
  <2> DEFINE f == [i \in DOMAIN x.moves |-> Held(x, c, y, i)]
  <2>1. ASSUME NEW i \in DOMAIN x.moves PROVE Held(x, c, y, i) = 0
    <3>1. /\ y[i].model \in DOMAIN Prices /\ y[i].input \in Nat /\ x.moves[i].ratio \in Nat
          /\ \A w \in Bins : y[i].rate[w] \in Nat
      BY <1>1, TariffType
    <3>2. BinsOK(none) /\ c.moves[i].buckets = none
      BY <1>1, <1>4, <1>5, <1>6 DEF CalcOK
    <3>3. BinsCost(none, y[i].model, y[i].input, y[i].rate) = 0
      BY <1>4, <3>1, <3>2, BinsCostType
    <3>4. QED
      BY <3>1, <3>2, <3>3 DEF Held
  <2>2. \A i \in DOMAIN x.moves : f[i] = 0
    BY <2>1
  <2>3. Charged(x, c, y) = SumFunctionOnSet(f, DOMAIN x.moves)
    BY DEF Charged
  <2> HIDE DEF f
  <2>4. QED
    BY <1>1, <2>2, <2>3, SumZero
<1>11. CostsTook(x, R, c, {})
  BY <1>2, <1>7, <1>8, <1>10 DEF CostsTook
<1>12. QED
  BY <1>6, <1>9, <1>11 DEF Took, x, c
-----------------------------------------------------------------------------
(* Steps of what-if.                                                        *)

\* A record outside the period, and one that is priced.
PassesBy(row) == /\ Grows(row) /\ ~Inside(opts.period, row.t)
                 /\ source' = [source EXCEPT !.outside = @ + 1] /\ UNCHANGED <<calc, failures, served>>
PricesRow(row) == Grows(row) /\ Inside(opts.period, row.t) /\ ~PriceRefuses(row) /\ Price(row)

\* Every step of what-if leaves the accounts alone, passes a record outside the
\* period, or prices one.
LEMMA WhatIfSteps ==
    ASSUME RowsOK, opts.command = "what-if", pc # "load", [Next]_vars
    PROVE  /\ opts' = opts /\ pc' # "load"
           /\ pc' \in {"rows", "ok"} =>
                /\ Pricing
                /\ \/ UNCHANGED <<rows, calc, failures, source, served>>
                   \/ \E row \in Stream : PassesBy(row) \/ PricesRow(row)
<1>0. ~Investigating
  BY DEF Investigating
<1>1. CASE Load \/ Report
  BY <1>0, <1>1 DEF Load, Report
<1>2. ASSUME NEW row \in opts.explored, Investigate(row) PROVE FALSE
  BY <1>0, <1>2 DEF Investigate
<1>3. CASE EndWhatIf
  BY <1>3 DEF EndWhatIf, Pricing
<1>4. CASE Done \/ UNCHANGED vars
  BY <1>4 DEF Done, vars, rowVars, whatIfVars, Pricing
<1>5. ASSUME NEW row \in opts.explored, WhatIfRow(row)
      PROVE  /\ opts' = opts /\ pc = "rows" /\ pc' \in {"rows", "error"}
             /\ pc' # "error" => row \in Stream /\ (PassesBy(row) \/ PricesRow(row))
  <2>1. row \in Stream /\ pc = "rows"
    BY <1>5, SpendRowsAssumption DEF RowsOK, WhatIfRow
  <2>2. CASE Refuse(row)
    BY <2>1, <2>2 DEF Refuse
  <2>3. CASE ~Refuse(row)
    <3>1. Visit(row)
      BY <1>5, <2>3 DEF WhatIfRow
    <3>2. opts' = opts /\ pc' = pc /\ rows' = Append(rows, row)
      BY <3>1 DEF Visit
    <3>3. CASE ~Inside(opts.period, row.t)
      BY <1>5, <2>1, <3>2, <3>3 DEF WhatIfRow, PassesBy, Grows
    <3>4. CASE Inside(opts.period, row.t)
      BY <1>5, <2>1, <2>3, <3>2, <3>4 DEF WhatIfRow, PricesRow, Grows
    <3>5. QED
      BY <2>1, <3>2, <3>3, <3>4
  <2>4. QED
    BY <2>2, <2>3
<1>6. QED
  BY <1>1, <1>2, <1>3, <1>4, <1>5 DEF Next, Pricing

FailedIn == {i \in Covered : rows[i].status = "failure"}
Types == {"chat", "pass", "other"}

\* Where what-if prices, both calculators hold their records, the source
\* counts are those of the records, and so are the attributions.
WhatIfOK ==
    /\ opts.command = "what-if" => pc # "load"
    /\ Pricing =>
         /\ Took(Terms, rows, calc, Period)
         /\ (failures = NoId) = (FailedIn = {})
         /\ failures # NoId => Took(Terms, rows, failures, FailedIn)
         /\ source \in [rows: Nat, outside: Nat]
         /\ source.rows = Cardinality(Period) /\ source.rows + source.outside = Len(rows)
         /\ served \in [Types \cup {"all"} -> [Attributes -> Nat]]
         /\ Routing => /\ calc.covered <= served["all"]["identity"]
                       /\ SumFunctionOnSet([y \in Types |-> served[y]["rows"]], Types) = source.rows

\* The records of the period in terms of the options.
LEMMA CoveredIs ==
    ASSUME RowsOK
    PROVE  /\ Period \in SUBSET DOMAIN rows /\ Period \in SUBSET (1..Len(rows)) /\ rows \in Seq(Stream)
           /\ \A i \in DOMAIN rows : rows[i] \in Stream
           /\ Covered = Costed(Terms, rows, Period) /\ Covered \in SUBSET Period
           /\ FailedIn \in SUBSET Covered /\ IsFiniteSet(Period) /\ IsFiniteSet(Covered) /\ IsFiniteSet(FailedIn)
<1>1. rows \in Seq(Stream) /\ DOMAIN rows = 1..Len(rows) /\ Len(rows) \in Nat /\ \A i \in DOMAIN rows : rows[i] \in Stream
  BY DEF RowsOK
<1>2. Period \in SUBSET DOMAIN rows /\ Period \in SUBSET (1..Len(rows))
  BY <1>1 DEF Period
<1>3. Covered = Costed(Terms, rows, Period) /\ Covered \in SUBSET Period
  <2>1. \A i \in Period : Terms.issue[rows[i]] = Issue(rows[i])
    BY <1>1, <1>2 DEF Terms
  <2>2. QED
    BY <2>1 DEF Covered, Costed, Blank
<1>4. FailedIn \in SUBSET Covered
  BY DEF FailedIn
<1>5. IsFiniteSet(1..Len(rows))
  BY <1>1, FS_Interval
<1>6. IsFiniteSet(Period) /\ IsFiniteSet(Covered) /\ IsFiniteSet(FailedIn)
  <2>1. Covered \in SUBSET (1..Len(rows)) /\ FailedIn \in SUBSET (1..Len(rows))
    BY <1>2, <1>3, <1>4
  <2>2. QED
    BY <1>2, <1>5, <2>1, FS_Subset
<1>7. QED
  BY <1>1, <1>2, <1>3, <1>4, <1>6

\* The sets of records when one more is read.
LEMMA PeriodGrows ==
    ASSUME RowsOK, NEW row \in Stream, rows' = Append(rows, row), opts' = opts, NEW n, n = Len(rows) + 1
    PROVE  /\ n \notin DOMAIN rows
           /\ Period' = IF Inside(opts.period, row.t) THEN Period \cup {n} ELSE Period
           /\ Covered' = IF Inside(opts.period, row.t) /\ Issue(row) = Blank THEN Covered \cup {n} ELSE Covered
           /\ FailedIn' = IF Inside(opts.period, row.t) /\ Issue(row) = Blank /\ row.status = "failure"
                          THEN FailedIn \cup {n} ELSE FailedIn
<1>1. /\ rows \in Seq(Stream) /\ DOMAIN rows = 1..Len(rows) /\ Len(rows) \in Nat
      /\ DOMAIN rows' = DOMAIN rows \cup {n} /\ n \notin DOMAIN rows
      /\ rows'[n] = row /\ \A i \in DOMAIN rows : rows'[i] = rows[i]
  <2>1. rows \in Seq(Stream) /\ Len(rows) \in Nat /\ DOMAIN rows = 1..Len(rows)
    BY DEF RowsOK
  <2>2. Len(rows') = Len(rows) + 1 /\ DOMAIN rows' = 1..Len(rows')
    BY <2>1
  <2>3. rows'[n] = row /\ \A i \in DOMAIN rows : rows'[i] = rows[i]
    BY <2>1
  <2>4. QED
    BY <2>1, <2>2, <2>3
<1>2. PICK P, C, F : P = Period /\ C = Covered /\ F = FailedIn
  OBVIOUS
<1>3. Period' = IF Inside(opts.period, row.t) THEN P \cup {n} ELSE P
  BY <1>1, <1>2 DEF Period, Inside
<1>4. P \in SUBSET DOMAIN rows /\ C \in SUBSET P
  BY <1>2 DEF Period, Covered
<1>5. \A r : Issue(r)' = Issue(r)
  BY SameIssue
<1>6. Covered' = {i \in Period' : Issue(rows'[i]) = Blank}
  BY <1>5 DEF Covered, Blank
<1>7. C = {i \in P : Issue(rows[i]) = Blank}
  BY <1>2 DEF Covered, Blank
<1>8. Covered' = IF Inside(opts.period, row.t) /\ Issue(row) = Blank THEN C \cup {n} ELSE C
  BY <1>1, <1>3, <1>4, <1>6, <1>7
<1>9. /\ FailedIn' = {i \in Covered' : rows'[i].status = "failure"}
      /\ F = {i \in C : rows[i].status = "failure"}
  BY <1>2 DEF FailedIn
<1>10. FailedIn' = IF Inside(opts.period, row.t) /\ Issue(row) = Blank /\ row.status = "failure"
                   THEN F \cup {n} ELSE F
  BY <1>1, <1>4, <1>8, <1>9
<1>11. QED
  BY <1>1, <1>2, <1>3, <1>8, <1>10

\* At first there is nothing to price.
LEMMA WhatIfInitial == Init => WhatIfOK
<1> SUFFICES ASSUME Init PROVE WhatIfOK
  OBVIOUS
<1>0. RowsOK
  BY RowsNext
<1>1. opts.command = "what-if" => pc # "load"
  BY DEF Init, Investigating
<1>2. ASSUME Pricing
      PROVE  /\ Took(Terms, rows, calc, Period) /\ failures = NoId /\ FailedIn = {}
             /\ source = [rows |-> 0, outside |-> 0] /\ Period = {} /\ Len(rows) = 0
             /\ calc.covered = 0
  <2>1. rows = <<>> /\ calc = NewCalculator(Len(Moves)) /\ failures = NoId /\ source = [rows |-> 0, outside |-> 0]
    BY <1>2 DEF Init, WhatIfInit, Pricing
  <2>2. Period = {} /\ Covered = {} /\ FailedIn = {} /\ Len(rows) = 0
    BY <2>1 DEF Period, Covered, FailedIn
  <2>3. Repricing /\ rows \in Seq(Stream)
    BY <1>0, <1>2 DEF Repricing, RowsOK, Pricing
  <2>4. Took(Terms, rows, calc, Period)
    BY <2>1, <2>2, <2>3, NothingTook
  <2>5. calc.covered = 0
    BY <2>1 DEF NewCalculator
  <2>6. QED
    BY <2>1, <2>2, <2>4, <2>5
<1>3. /\ served \in [Types \cup {"all"} -> [Attributes -> Nat]]
      /\ SumFunctionOnSet([y \in Types |-> served[y]["rows"]], Types) = 0
      /\ served["all"]["identity"] \in Nat
  <2>1. Types \cup {"all"} = {"chat", "pass", "other", "all"}
    BY DEF Types
  <2>2. served = [y \in Types \cup {"all"} |-> [a \in Attributes |-> 0]]
    BY <2>1 DEF Init, WhatIfInit
  <2>3. served \in [Types \cup {"all"} -> [Attributes -> Nat]]
    BY <2>2
  <2>4. "rows" \in Attributes /\ "identity" \in Attributes
    BY DEF Attributes
  <2>5. PICK f : f = [y \in Types |-> served[y]["rows"]]
    OBVIOUS
  <2>6. \A y \in Types : f[y] = 0
    BY <2>2, <2>4, <2>5
  <2>7. IsFiniteSet(Types)
    BY FiniteTriple DEF Types
  <2>8. SumFunctionOnSet(f, Types) = 0
    BY <2>6, <2>7, SumZero
  <2>9. served["all"]["identity"] \in Nat
    BY <2>3, <2>4
  <2>10. QED
    BY <2>3, <2>5, <2>8, <2>9
<1>4. source \in [rows: Nat, outside: Nat] /\ source.rows = 0 /\ source.outside = 0
  BY DEF Init, WhatIfInit
<1>5. Cardinality({}) = 0
  BY FS_EmptySet
<1>6. ASSUME Pricing
      PROVE  /\ Took(Terms, rows, calc, Period) /\ (failures = NoId) = (FailedIn = {}) /\ failures = NoId
             /\ source.rows = Cardinality(Period) /\ source.rows + source.outside = Len(rows)
             /\ calc.covered <= served["all"]["identity"]
             /\ SumFunctionOnSet([y \in Types |-> served[y]["rows"]], Types) = source.rows
  <2>1. Took(Terms, rows, calc, Period) /\ failures = NoId /\ FailedIn = {}
    BY <1>2, <1>6
  <2>2. Period = {} /\ Len(rows) = 0 /\ calc.covered = 0
    BY <1>2, <1>6
  <2>3. source.rows = Cardinality(Period) /\ source.rows + source.outside = Len(rows)
    BY <1>4, <1>5, <2>2
  <2>4. calc.covered <= served["all"]["identity"]
    BY <1>3, <2>2
  <2>5. QED
    BY <1>3, <1>4, <2>1, <2>3, <2>4
<1>7. QED
  BY <1>1, <1>3, <1>4, <1>6 DEF WhatIfOK

\* A record outside the period changes no calculator.
LEMMA PassesNext ==
    ASSUME Repricing, Pricing, WhatIfOK, NEW row \in Stream, PassesBy(row)
    PROVE  WhatIfOK' \/ pc' \notin {"rows", "ok"}
<1>1. RowsOK /\ opts.command = "what-if" /\ opts' = opts /\ rows' = Append(rows, row) /\ ~Inside(opts.period, row.t)
      /\ calc' = calc /\ failures' = failures /\ served' = served /\ source' = [source EXCEPT !.outside = @ + 1]
  BY DEF Repricing, PassesBy, Grows
<1>2. /\ Took(Terms, rows, calc, Period)
      /\ (failures = NoId) = (FailedIn = {})
      /\ failures # NoId => Took(Terms, rows, failures, FailedIn)
      /\ source \in [rows: Nat, outside: Nat]
      /\ source.rows = Cardinality(Period) /\ source.rows + source.outside = Len(rows)
      /\ served \in [Types \cup {"all"} -> [Attributes -> Nat]]
      /\ Routing => /\ calc.covered <= served["all"]["identity"]
                    /\ SumFunctionOnSet([y \in Types |-> served[y]["rows"]], Types) = source.rows
  BY DEF WhatIfOK
<1>3. Period' = Period /\ FailedIn' = FailedIn
  BY <1>1, PeriodGrows
<1>4. Terms' = Terms /\ Routing' = Routing
  BY <1>1, SameTerms DEF Routing, Moves
<1>5. PICK x, R, c, D, F, f : x = Terms /\ R = rows /\ c = calc /\ D = Period /\ F = FailedIn /\ f = failures
  OBVIOUS
<1>6. Took(x, R, c, D) /\ (f # NoId => Took(x, R, f, F))
  BY <1>2, <1>5
<1>7. Took(x, Append(R, row), c, D) /\ (f # NoId => Took(x, Append(R, row), f, F))
  BY <1>6, TookStays
<1>8. /\ source' \in [rows: Nat, outside: Nat] /\ source'.rows = source.rows
      /\ source'.outside = source.outside + 1 /\ Len(rows') = Len(rows) + 1
  <2>1. Len(Append(rows, row)) = Len(rows) + 1
    BY <1>1 DEF RowsOK
  <2>2. QED
    BY <1>1, <1>2, <2>1
<1>9. source'.rows + source'.outside = Len(rows')
  <2>1. source.rows \in Nat /\ source.outside \in Nat /\ Len(rows) \in Nat
    BY <1>1, <1>2 DEF RowsOK
  <2>2. QED
    BY <1>2, <1>8, <2>1
<1>10. /\ Took(Terms', rows', calc', Period')
       /\ (failures' = NoId) = (FailedIn' = {})
       /\ failures' # NoId => Took(Terms', rows', failures', FailedIn')
  BY <1>1, <1>2, <1>3, <1>4, <1>5, <1>7
<1>11. CASE pc' \in {"rows", "ok"}
  <2>1. pc' # "load"
    BY <1>11
  <2>2. QED
    BY <1>1, <1>2, <1>3, <1>4, <1>8, <1>9, <1>10, <2>1 DEF WhatIfOK
<1>12. QED
  BY <1>11

\* A record that neither exceeds the cohort of its moves nor maps twice.
LEMMA SharesFit ==
    ASSUME Repricing, NEW row \in Stream, ~Overlaps(row), Issue(row) = Blank
    PROVE  Shares(Terms, row) <= Parts
<1>1. Terms.moves = Moves /\ Terms.chosen[row] = Indices(row)
  BY DEF Terms
<1>2. ~UnknownScope(row)
  BY IssueType DEF Blank
<1>3. PICK T : T = SumFunctionOnSet([i \in Indices(row) |-> Moves[i].ratio], Indices(row))
  OBVIOUS
<1>4. Shares(Terms, row) = T
  BY <1>1, <1>3 DEF Shares
<1>5. ~(T > Parts)
  BY <1>2, <1>3 DEF Overlaps, Total
<1>6. T \in Nat /\ Parts \in Nat
  <2> DEFINE f == [i \in Indices(row) |-> Moves[i].ratio]
  <2>1. \A i \in Indices(row) : f[i] \in Nat
    BY RowMoves, MovesType
  <2>2. IsFiniteSet(Indices(row))
    BY RowMoves
  <2> HIDE DEF f
  <2>3. SumFunctionOnSet(f, Indices(row)) \in Nat
    BY <2>1, <2>2, SumType
  <2>4. QED
    BY <1>3, <2>3, MovesType DEF f
<1>7. QED
  BY <1>4, <1>5, <1>6

\* The parent takes a record of the period.
LEMMA ParentTakes ==
    ASSUME Repricing, Pricing, WhatIfOK, NEW row \in Stream, PricesRow(row), NEW n, n = Len(rows) + 1
    PROVE  /\ Took(Terms, rows', calc', Period \cup {n})
           /\ Issue(row) # Blank => calc'.covered = calc.covered
           /\ Issue(row) = Blank => calc'.covered = calc.covered + 1
<1>1. /\ RowsOK /\ rows' = Append(rows, row) /\ calc' = Added(calc, row) /\ ~Overlaps(row)
      /\ rows \in Seq(Stream) /\ Period \in SUBSET DOMAIN rows /\ Terms.issue[row] = Issue(row)
  BY CoveredIs DEF Repricing, PricesRow, Grows, Price, PriceRefuses, Terms
<1>2. Took(Terms, rows, calc, Period) /\ TermsOK(Terms)
  BY TermsHold DEF WhatIfOK
<1>3. CalcOK(Terms, calc)
  BY <1>2 DEF Took
<1>4. GainsRow(Terms, calc, row, calc') /\ CalcOK(Terms, calc')
  BY <1>1, <1>3, AddedGains
<1>5. PICK x, R, S, c, d, D : x = Terms /\ R = rows /\ S = rows' /\ c = calc /\ d = calc' /\ D = Period
  OBVIOUS
<1>6. x.issue[row] = Blank => Shares(x, row) <= Parts
  BY <1>1, <1>5, SharesFit
<1>7. Numbered(R, D, row, S, n)
  BY <1>1, <1>5 DEF Numbered
<1>8. TakesNext(x, R, c, D, row, S, n, d)
  BY <1>2, <1>4, <1>5, <1>6, <1>7 DEF TakesNext
<1>9. Took(x, S, d, D \cup {n})
  BY <1>8, TookMore
<1>10. QED
  BY <1>1, <1>4, <1>5, <1>9 DEF GainsRow

\* The child takes it too, if it is priced and failed.
LEMMA ChildTakes ==
    ASSUME Repricing, Pricing, WhatIfOK, NEW row \in Stream, PricesRow(row), NEW n, n = Len(rows) + 1
    PROVE  /\ Issue(row) = Blank /\ row.status = "failure" =>
                failures' # NoId /\ Took(Terms, rows', failures', FailedIn \cup {n})
           /\ ~(Issue(row) = Blank /\ row.status = "failure") =>
                failures' = failures /\ (failures # NoId => Took(Terms, rows', failures, FailedIn))
<1>1. /\ RowsOK /\ rows' = Append(rows, row) /\ failures' = AddFailure(row) /\ ~Overlaps(row)
      /\ rows \in Seq(Stream) /\ FailedIn \in SUBSET DOMAIN rows /\ Terms.issue[row] = Issue(row)
  <2>1. RowsOK
    BY DEF Repricing
  <2>2. Period \in SUBSET DOMAIN rows /\ Covered \in SUBSET Period /\ FailedIn \in SUBSET Covered /\ rows \in Seq(Stream)
    BY <2>1, CoveredIs
  <2>3. QED
    BY <2>1, <2>2 DEF PricesRow, Grows, Price, PriceRefuses, Terms
<1>2. (failures = NoId) = (FailedIn = {}) /\ (failures # NoId => Took(Terms, rows, failures, FailedIn)) /\ TermsOK(Terms)
  BY TermsHold DEF WhatIfOK
<1>3. CASE Issue(row) = Blank /\ row.status = "failure"
  <2>1. PICK c : c = IF failures = NoId THEN NewCalculator(Len(Moves)) ELSE failures
    OBVIOUS
  <2>2. failures' = Added(c, row)
    BY <1>1, <1>3, <2>1 DEF AddFailure, Blank
  <2>3. Took(Terms, rows, c, FailedIn)
    BY <1>1, <1>2, <2>1, NothingTook
  <2>4. CalcOK(Terms, c)
    BY <2>3 DEF Took
  <2>5. GainsRow(Terms, c, row, failures') /\ CalcOK(Terms, failures')
    BY <2>2, <2>4, AddedGains
  <2>6. PICK x, R, S, d, D : x = Terms /\ R = rows /\ S = rows' /\ d = failures' /\ D = FailedIn
    OBVIOUS
  <2>7. x.issue[row] = Blank => Shares(x, row) <= Parts
    BY <1>1, <2>6, SharesFit
  <2>8. Numbered(R, D, row, S, n)
    BY <1>1, <2>6 DEF Numbered
  <2>9. TakesNext(x, R, c, D, row, S, n, d)
    BY <1>2, <2>3, <2>5, <2>6, <2>7, <2>8 DEF TakesNext
  <2>10. Took(x, S, d, D \cup {n})
    BY <2>9, TookMore
  <2>11. failures' \in Calculators /\ NoId \notin Calculators
    BY <2>5, WhatIfAssumption DEF CalcOK
  <2>12. QED
    BY <1>3, <2>6, <2>10, <2>11
<1>4. CASE ~(Issue(row) = Blank /\ row.status = "failure")
  <2>1. failures' = failures
    BY <1>1, <1>4 DEF AddFailure, Blank
  <2>2. PICK x, R, f, F : x = Terms /\ R = rows /\ f = failures /\ F = FailedIn
    OBVIOUS
  <2>3. f # NoId => Took(x, Append(R, row), f, F)
    BY <1>2, <2>2, TookStays
  <2>4. QED
    BY <1>1, <1>4, <2>1, <2>2, <2>3
<1>5. QED
  BY <1>3, <1>4

\* A record adds one to the rows, and to the identities if it has one.
LEMMA Attributed ==
    ASSUME NEW part \in [Attributes -> Nat], NEW row
    PROVE  /\ Attribute(part, row) \in [Attributes -> Nat]
           /\ Attribute(part, row)["rows"] = part["rows"] + 1
           /\ Attribute(part, row)["identity"] = part["identity"] + One(SelectedKnown(row))
<1> DEFINE more(a) == CASE a = "rows" -> 1
                        [] a = "identity" -> One(SelectedKnown(row))
                        [] OTHER -> One(TextState(row[a]) = "known")
<1>1. Attribute(part, row) = [a \in Attributes |-> part[a] + more(a)]
  BY DEF Attribute
<1>2. \A b : One(b) \in Nat
  BY DEF One
<1>3. more("rows") = 1 /\ more("identity") = One(SelectedKnown(row))
  OBVIOUS
<1>4. \A a : more(a) \in Nat
  BY <1>2
<1>5. "rows" \in Attributes /\ "identity" \in Attributes
  BY DEF Attributes
<1> HIDE DEF more
<1>6. QED
  BY <1>1, <1>3, <1>4, <1>5

\* A record is attributed once to its type, and to all.
LEMMA ServedNext ==
    ASSUME Routing, NEW row \in Stream, served \in [Types \cup {"all"} -> [Attributes -> Nat]],
           served' = [y \in DOMAIN served |-> IF y \in {row.type, "all"} THEN Attribute(served[y], row) ELSE served[y]]
    PROVE  /\ served' \in [Types \cup {"all"} -> [Attributes -> Nat]]
           /\ served["all"]["identity"] \in Nat /\ served'["all"]["identity"] = served["all"]["identity"] + One(SelectedKnown(row))
           /\ SumFunctionOnSet([y \in Types |-> served'[y]["rows"]], Types)
              = SumFunctionOnSet([y \in Types |-> served[y]["rows"]], Types) + 1
<1>1. row.type \in Types /\ "all" \notin Types
  BY SpendRowsAssumption DEF RowFields, Types
<1>2. PICK e \in Types : e = row.type
  BY <1>1
<1>3. \A y \in Types \cup {"all"} : served[y] \in [Attributes -> Nat]
  OBVIOUS
<1>4. /\ DOMAIN served' = Types \cup {"all"} /\ served' = [y \in Types \cup {"all"} |-> served'[y]]
      /\ \A y \in Types \cup {"all"} :
            served'[y] = IF y \in {e, "all"} THEN Attribute(served[y], row) ELSE served[y]
  BY <1>2
<1>5. \A y \in Types \cup {"all"} : served'[y] \in [Attributes -> Nat]
  BY <1>3, <1>4, Attributed
<1>6. served' \in [Types \cup {"all"} -> [Attributes -> Nat]]
  BY <1>4, <1>5
<1>7. served["all"]["identity"] \in Nat /\ served'["all"]["identity"] = served["all"]["identity"] + One(SelectedKnown(row))
  <2>1. "identity" \in Attributes /\ served["all"] \in [Attributes -> Nat]
    BY <1>3 DEF Attributes
  <2>2. served'["all"] = Attribute(served["all"], row)
    BY <1>4
  <2>3. QED
    BY <2>1, <2>2, Attributed
<1>8. ASSUME NEW y \in Types
      PROVE  /\ served[y]["rows"] \in Nat
             /\ y = e => served'[y]["rows"] = served[y]["rows"] + 1
             /\ y # e => served'[y]["rows"] = served[y]["rows"]
  <2>1. "rows" \in Attributes /\ served[y] \in [Attributes -> Nat] /\ y # "all"
    BY <1>1, <1>3 DEF Attributes
  <2>2. y = e => served'[y] = Attribute(served[y], row)
    BY <1>4
  <2>3. y # e => served'[y] = served[y]
    BY <1>4, <2>1
  <2>4. QED
    BY <2>1, <2>2, <2>3, Attributed
<1>9. SumFunctionOnSet([y \in Types |-> served'[y]["rows"]], Types)
      = SumFunctionOnSet([y \in Types |-> served[y]["rows"]], Types) + 1
  <2> DEFINE f == [y \in Types |-> served[y]["rows"]]
             g == [y \in Types |-> served'[y]["rows"]]
  <2>1. /\ \A y \in Types : f[y] \in Nat
        /\ \A y \in Types \ {e} : g[y] = f[y]
        /\ g[e] = f[e] + 1
    BY <1>8
  <2>2. IsFiniteSet(Types) /\ Types \cup {e} = Types
    BY FiniteTriple DEF Types
  <2> HIDE DEF f, g
  <2>3. MovesUp(f, g, Types, e, 1)
    BY <2>1 DEF MovesUp
  <2>4. SumFunctionOnSet(g, Types \cup {e}) = SumFunctionOnSet(f, Types) + 1
    BY <2>2, <2>3, SumMove
  <2>5. SumFunctionOnSet(g, Types) = SumFunctionOnSet(f, Types) + 1
    BY <2>2, <2>4
  <2>6. QED
    BY <2>5 DEF f, g
<1>10. QED
  BY <1>6, <1>7, <1>9

\* A record that is priced.
LEMMA PricesNext ==
    ASSUME Repricing, Pricing, WhatIfOK, NEW row \in Stream, PricesRow(row), pc' \in {"rows", "ok"}
    PROVE  WhatIfOK'
<1>1. /\ RowsOK /\ opts.command = "what-if" /\ opts' = opts /\ rows' = Append(rows, row) /\ Inside(opts.period, row.t)
      /\ source' = [source EXCEPT !.rows = @ + 1]
      /\ Routing => served' = [y \in DOMAIN served |-> IF y \in {row.type, "all"}
                                                         THEN Attribute(served[y], row) ELSE served[y]]
      /\ ~Routing => served' = served
  BY DEF Repricing, PricesRow, Grows, Price
<1>2. /\ source \in [rows: Nat, outside: Nat]
      /\ source.rows = Cardinality(Period) /\ source.rows + source.outside = Len(rows)
      /\ served \in [Types \cup {"all"} -> [Attributes -> Nat]]
      /\ (failures = NoId) = (FailedIn = {}) /\ CalcOK(Terms, calc)
      /\ Routing => /\ calc.covered <= served["all"]["identity"]
                    /\ SumFunctionOnSet([y \in Types |-> served[y]["rows"]], Types) = source.rows
  BY DEF WhatIfOK, Took
<1>3. PICK n : n = Len(rows) + 1
  OBVIOUS
<1>4. /\ n \notin DOMAIN rows /\ Period' = Period \cup {n}
      /\ FailedIn' = IF Issue(row) = Blank /\ row.status = "failure" THEN FailedIn \cup {n} ELSE FailedIn
  BY <1>1, <1>3, PeriodGrows
<1>5. Terms' = Terms /\ Routing' = Routing
  BY <1>1, SameTerms DEF Routing, Moves
<1>6. /\ Took(Terms', rows', calc', Period')
      /\ Issue(row) # Blank => calc'.covered = calc.covered
      /\ Issue(row) = Blank => calc'.covered = calc.covered + 1
  BY <1>3, <1>4, <1>5, ParentTakes
<1>7. /\ (failures' = NoId) = (FailedIn' = {})
      /\ failures' # NoId => Took(Terms', rows', failures', FailedIn')
  <2>1. CASE Issue(row) = Blank /\ row.status = "failure"
    <3>1. failures' # NoId /\ Took(Terms, rows', failures', FailedIn \cup {n})
      BY <1>3, <2>1, ChildTakes
    <3>2. FailedIn' = FailedIn \cup {n} /\ FailedIn' # {}
      BY <1>4, <2>1
    <3>3. QED
      BY <1>5, <3>1, <3>2
  <2>2. CASE ~(Issue(row) = Blank /\ row.status = "failure")
    <3>1. failures' = failures /\ (failures # NoId => Took(Terms, rows', failures, FailedIn))
      BY <1>3, <2>2, ChildTakes
    <3>2. FailedIn' = FailedIn
      BY <1>4, <2>2
    <3>3. QED
      BY <1>2, <1>5, <3>1, <3>2
  <2>3. QED
    BY <2>1, <2>2
<1>8. /\ source' \in [rows: Nat, outside: Nat] /\ source'.rows = Cardinality(Period')
      /\ source'.rows = source.rows + 1 /\ source'.rows + source'.outside = Len(rows')
  <2>1. Period \in SUBSET DOMAIN rows /\ IsFiniteSet(Period)
    BY <1>1, CoveredIs
  <2>2. n \notin Period
    BY <1>4, <2>1
  <2>3. Cardinality(Period \cup {n}) = Cardinality(Period) + 1
    BY <2>1, <2>2, FS_AddElement
  <2>4. Len(rows') = Len(rows) + 1 /\ Len(rows) \in Nat
    BY <1>1 DEF RowsOK
  <2>5. /\ source' \in [rows: Nat, outside: Nat] /\ source'.rows = source.rows + 1 /\ source'.outside = source.outside
        /\ source.rows \in Nat /\ source.outside \in Nat
    BY <1>1, <1>2
  <2>6. QED
    BY <1>2, <1>4, <2>3, <2>4, <2>5
<1>9. /\ served' \in [Types \cup {"all"} -> [Attributes -> Nat]]
      /\ Routing => /\ calc'.covered <= served'["all"]["identity"]
                    /\ SumFunctionOnSet([y \in Types |-> served'[y]["rows"]], Types) = source'.rows
  <2>1. CASE ~Routing
    BY <1>1, <1>2, <2>1
  <2>2. CASE Routing
    <3>1. /\ served' \in [Types \cup {"all"} -> [Attributes -> Nat]]
          /\ served["all"]["identity"] \in Nat
          /\ served'["all"]["identity"] = served["all"]["identity"] + One(SelectedKnown(row))
          /\ SumFunctionOnSet([y \in Types |-> served'[y]["rows"]], Types)
             = SumFunctionOnSet([y \in Types |-> served[y]["rows"]], Types) + 1
      BY <1>1, <1>2, <2>2, ServedNext
    <3>2. calc.covered \in Nat
      BY <1>2 DEF CalcOK, Calculators
    <3>3. calc'.covered <= served'["all"]["identity"]
      <4>1. CASE Issue(row) = Blank
        <5>1. SelectedKnown(row)
          BY <2>2, <4>1, IssueType DEF Blank
        <5>2. One(SelectedKnown(row)) = 1
          BY <5>1 DEF One
        <5>3. calc'.covered = calc.covered + 1 /\ calc.covered <= served["all"]["identity"]
          BY <1>2, <1>6, <2>2, <4>1
        <5>4. QED
          BY <3>1, <3>2, <5>2, <5>3
      <4>2. CASE Issue(row) # Blank
        <5>1. One(SelectedKnown(row)) \in Nat
          BY DEF One
        <5>2. calc'.covered = calc.covered /\ calc.covered <= served["all"]["identity"]
          BY <1>2, <1>6, <2>2, <4>2
        <5>3. QED
          BY <3>1, <3>2, <5>1, <5>2
      <4>3. QED
        BY <4>1, <4>2
    <3>4. QED
      BY <1>2, <1>8, <2>2, <3>1, <3>3
  <2>3. QED
    BY <2>1, <2>2
<1>10. pc' # "load"
  OBVIOUS
<1>11. QED
  BY <1>5, <1>6, <1>7, <1>8, <1>9, <1>10 DEF WhatIfOK

\* Every step of what-if keeps the calculators' accounts.
LEMMA WhatIfNext == RowsOK /\ WhatIfOK /\ [Next]_vars => WhatIfOK'
<1> SUFFICES ASSUME RowsOK, WhatIfOK, [Next]_vars PROVE WhatIfOK'
  OBVIOUS
<1>1. opts' = opts
  BY RowsNext
<1>2. CASE opts.command # "what-if"
  BY <1>1, <1>2 DEF WhatIfOK, Pricing
<1>3. CASE opts.command = "what-if"
  <2>1. pc # "load" /\ Repricing
    BY <1>3 DEF WhatIfOK, Repricing
  <2>2. /\ pc' # "load"
        /\ pc' \in {"rows", "ok"} =>
             /\ Pricing
             /\ \/ UNCHANGED <<rows, calc, failures, source, served>>
                \/ \E row \in Stream : PassesBy(row) \/ PricesRow(row)
    BY <1>3, <2>1, WhatIfSteps
  <2>3. CASE pc' \notin {"rows", "ok"}
    BY <2>2, <2>3 DEF WhatIfOK, Pricing
  <2>4. CASE pc' \in {"rows", "ok"} /\ UNCHANGED <<rows, calc, failures, source, served>>
    <3>1. Terms' = Terms /\ Routing' = Routing /\ \A r : Issue(r)' = Issue(r)
      BY <1>1, SameTerms, SameIssue DEF Routing, Moves
    <3>2. Period' = Period
      BY <1>1, <2>4 DEF Period, Inside
    <3>3. Covered' = Covered
      BY <2>4, <3>1, <3>2 DEF Covered
    <3>4. FailedIn' = FailedIn
      BY <2>4, <3>3 DEF FailedIn
    <3>5. Pricing
      BY <2>2, <2>4
    <3>6. QED
      BY <2>2, <2>4, <3>1, <3>2, <3>4, <3>5 DEF WhatIfOK
  <2>5. ASSUME NEW row \in Stream, PassesBy(row), pc' \in {"rows", "ok"} PROVE WhatIfOK'
    BY <2>1, <2>2, <2>5, PassesNext
  <2>6. ASSUME NEW row \in Stream, PricesRow(row), pc' \in {"rows", "ok"} PROVE WhatIfOK'
    BY <2>1, <2>2, <2>6, PricesNext
  <2>7. QED
    BY <2>2, <2>3, <2>4, <2>5, <2>6
<1>4. QED
  BY <1>2, <1>3

-----------------------------------------------------------------------------
(* Levels and records.                                                      *)

\* The prices of the tokens at their source, and at their target with output
\* factors of the moves by workload.
Flat == [w \in Bins |-> Unit]
AtSource(x) == [i \in DOMAIN x.moves |-> [model |-> x.moves[i].from, input |-> Unit, rate |-> Flat]]
AtTarget(x, rate) == [i \in DOMAIN x.moves |->
                      [model |-> x.moves[i].to, input |-> x.moves[i].factor, rate |-> rate[i]]]
RateSets(x) == [DOMAIN x.moves -> Rates]

\* The prices at the source and at the targets are price lists.
LEMMA TariffsAre ==
    ASSUME Repricing
    PROVE  /\ AtSource(Terms) \in Tariffs(Terms) /\ [i \in DOMAIN Moves |-> Flat] \in RateSets(Terms)
           /\ \A rate \in RateSets(Terms) : AtTarget(Terms, rate) \in Tariffs(Terms)
<1>1. Terms.moves = Moves /\ Unit \in Nat
  BY MovesType DEF Terms
<1>2. Flat \in Rates
  BY <1>1 DEF Flat, Rates
<1>3. \A i \in DOMAIN Moves : Moves[i].from \in DOMAIN Prices /\ Moves[i].to \in DOMAIN Prices /\ Moves[i].factor \in Nat
  BY MovesType
<1>4. AtSource(Terms) \in Tariffs(Terms)
  BY <1>1, <1>2, <1>3 DEF AtSource, Tariffs
<1>5. \A rate \in RateSets(Terms) : AtTarget(Terms, rate) \in Tariffs(Terms)
  BY <1>1, <1>3 DEF AtTarget, Tariffs, RateSets
<1>6. QED
  BY <1>1, <1>2, <1>4, <1>5 DEF RateSets

\* Summing over the part that is not nought is enough.
LEMMA SumRest ==
    ASSUME NEW f, NEW S, IsFiniteSet(S), NEW T \in SUBSET S, \A i \in S : f[i] \in Nat, \A i \in S \ T : f[i] = 0
    PROVE  SumFunctionOnSet(f, T) = SumFunctionOnSet(f, S)
<1>1. IsFiniteSet(T) /\ IsFiniteSet(S \ T) /\ T \cap (S \ T) = {} /\ T \cup (S \ T) = S
  <2>1. S \ T \in SUBSET S
    OBVIOUS
  <2>2. IsFiniteSet(T) /\ IsFiniteSet(S \ T)
    BY <2>1, FS_Subset
  <2>3. QED
    BY <2>2
<1>2. PICK U : U = S \ T
  OBVIOUS
<1>3. SumFunctionOnSet(f, T \cup U) = SumFunctionOnSet(f, T) + SumFunctionOnSet(f, U)
  BY <1>1, <1>2, SumUnion
<1>4. SumFunctionOnSet(f, U) = 0
  BY <1>1, <1>2, SumZero
<1>5. SumFunctionOnSet(f, T) \in Nat
  BY <1>1, SumType
<1>6. T \cup U = S
  BY <1>1, <1>2
<1>7. SumFunctionOnSet(f, S) = SumFunctionOnSet(f, T) + 0
  BY <1>3, <1>4, <1>6
<1>8. QED
  BY <1>5, <1>7

\* What is held costs a number, and nothing if it is empty.
LEMMA HeldType ==
    ASSUME NEW x, TermsOK(x), NEW c, CalcOK(x, c), NEW y \in Tariffs(x), NEW i \in DOMAIN x.moves
    PROVE  Held(x, c, y, i) \in Nat /\ (DOMAIN c.moves[i].buckets = {} => Held(x, c, y, i) = 0)
<1>1. /\ y[i].model \in DOMAIN Prices /\ y[i].input \in Nat /\ x.moves[i].ratio \in Nat
      /\ \A w \in Bins : y[i].rate[w] \in Nat
  BY TariffType
<1>2. BinsOK(c.moves[i].buckets) /\ DOMAIN c.moves[i].buckets \subseteq Bins
  BY BinsFinite DEF CalcOK
<1>3. PICK k : k = BinsCost(c.moves[i].buckets, y[i].model, y[i].input, y[i].rate)
  OBVIOUS
<1>4. k \in Nat /\ (DOMAIN c.moves[i].buckets = {} => k = 0)
  BY <1>1, <1>2, <1>3, BinsCostType
<1>5. k * x.moves[i].ratio \in Nat
  BY <1>1, <1>4, ProductNat
<1>6. Held(x, c, y, i) = k * x.moves[i].ratio
  BY <1>3 DEF Held
<1>7. QED
  BY <1>1, <1>4, <1>5, <1>6

\* What some moves of a calculator hold is all, if the others hold nothing.
LEMMA HeldSum ==
    ASSUME NEW x, TermsOK(x), NEW c, CalcOK(x, c), NEW y \in Tariffs(x), NEW T \in SUBSET DOMAIN x.moves,
           \A i \in DOMAIN x.moves \ T : DOMAIN c.moves[i].buckets = {}, NEW g, \A i \in T : g[i] = Held(x, c, y, i)
    PROVE  IsFiniteSet(T) /\ Charged(x, c, y) \in Nat /\ SumFunctionOnSet(g, T) = Charged(x, c, y)
<1> DEFINE f == [i \in DOMAIN x.moves |-> Held(x, c, y, i)]
<1>1. IsFiniteSet(DOMAIN x.moves) /\ IsFiniteSet(T)
  BY FS_Subset DEF TermsOK
<1>2. \A i \in DOMAIN x.moves : f[i] \in Nat
  BY HeldType
<1>3. \A i \in DOMAIN x.moves \ T : f[i] = 0
  BY HeldType
<1>4. \A i \in T : g[i] = f[i]
  OBVIOUS
<1>5. Charged(x, c, y) = SumFunctionOnSet(f, DOMAIN x.moves)
  BY DEF Charged
<1> HIDE DEF f
<1>6. SumFunctionOnSet(g, T) = SumFunctionOnSet(f, T)
  BY <1>1, <1>4, SumSame
<1>7. SumFunctionOnSet(f, T) = SumFunctionOnSet(f, DOMAIN x.moves)
  BY <1>1, <1>2, <1>3, SumRest
<1>8. SumFunctionOnSet(f, DOMAIN x.moves) \in Nat
  BY <1>1, <1>2, SumType
<1>9. QED
  BY <1>1, <1>5, <1>6, <1>7, <1>8

\* Before, After1 and After2 in these terms.
LEMMA LevelsAre ==
    ASSUME Repricing, NEW c, CalcOK(Terms, c), NEW i \in DOMAIN Moves
    PROVE  /\ Before(c, i) = Held(Terms, c, AtSource(Terms), i)
           /\ After1(c, i) = Held(Terms, c, AtTarget(Terms, [k \in DOMAIN Moves |-> Flat]), i)
           /\ \A v, b, rate : (\A w \in DOMAIN c.moves[i].buckets : rate[i][w] = Factors[FactorKey(i, w, v)][b])
                 => After2(c, i, v, b) = Held(Terms, c, AtTarget(Terms, rate), i)
<1>1. Terms.moves = Moves
  BY DEF Terms
<1>2. PICK B : B = c.moves[i].buckets
  OBVIOUS
<1>3. DOMAIN B \subseteq Bins /\ \A w \in DOMAIN B : Flat[w] = Unit
  BY <1>1, <1>2, BinsFinite DEF CalcOK, Flat
<1>4. Before(c, i) = Held(Terms, c, AtSource(Terms), i)
  <2>1. [w \in DOMAIN B |-> Cost(B[w], Moves[i].from, Unit, Unit)]
        = [w \in DOMAIN B |-> Cost(B[w], Moves[i].from, Unit, Flat[w])]
    BY <1>3
  <2>2. AtSource(Terms)[i] = [model |-> Moves[i].from, input |-> Unit, rate |-> Flat]
    BY <1>1 DEF AtSource
  <2>3. Held(Terms, c, AtSource(Terms), i) = BinsCost(B, Moves[i].from, Unit, Flat) * Moves[i].ratio
    BY <1>1, <1>2, <2>2 DEF Held
  <2>4. Before(c, i) = SumFunctionOnSet([w \in DOMAIN B |-> Cost(B[w], Moves[i].from, Unit, Unit)], DOMAIN B)
                       * Moves[i].ratio
    BY <1>2 DEF Before, Total
  <2>5. QED
    BY <2>1, <2>3, <2>4 DEF BinsCost
<1>5. ASSUME NEW rate
      PROVE  Held(Terms, c, AtTarget(Terms, rate), i) = BinsCost(B, Moves[i].to, Moves[i].factor, rate[i]) * Moves[i].ratio
  <2>1. AtTarget(Terms, rate)[i] = [model |-> Moves[i].to, input |-> Moves[i].factor, rate |-> rate[i]]
    BY <1>1 DEF AtTarget
  <2>2. QED
    BY <1>1, <1>2, <2>1 DEF Held
<1>6. After1(c, i) = Held(Terms, c, AtTarget(Terms, [k \in DOMAIN Moves |-> Flat]), i)
  <2>1. [w \in DOMAIN B |-> Cost(B[w], Moves[i].to, Moves[i].factor, Unit)]
        = [w \in DOMAIN B |-> Cost(B[w], Moves[i].to, Moves[i].factor, Flat[w])]
    BY <1>3
  <2>2. PICK rate : rate = [k \in DOMAIN Moves |-> Flat]
    OBVIOUS
  <2>3. rate[i] = Flat
    BY <2>2
  <2>4. After1(c, i) = SumFunctionOnSet([w \in DOMAIN B |-> Cost(B[w], Moves[i].to, Moves[i].factor, Unit)], DOMAIN B)
                       * Moves[i].ratio
    BY <1>2 DEF After1, Total
  <2>5. After1(c, i) = BinsCost(B, Moves[i].to, Moves[i].factor, Flat) * Moves[i].ratio
    BY <2>1, <2>4 DEF BinsCost
  <2>6. QED
    BY <1>5, <2>2, <2>3, <2>5
<1>7. ASSUME NEW v, NEW b, NEW rate, \A w \in DOMAIN B : rate[i][w] = Factors[FactorKey(i, w, v)][b]
      PROVE  After2(c, i, v, b) = Held(Terms, c, AtTarget(Terms, rate), i)
  <2>1. [w \in DOMAIN B |-> Cost(B[w], Moves[i].to, Moves[i].factor, Factors[FactorKey(i, w, v)][b])]
        = [w \in DOMAIN B |-> Cost(B[w], Moves[i].to, Moves[i].factor, rate[i][w])]
    BY <1>7
  <2>2. After2(c, i, v, b)
        = SumFunctionOnSet([w \in DOMAIN B |-> Cost(B[w], Moves[i].to, Moves[i].factor, Factors[FactorKey(i, w, v)][b])],
                           DOMAIN B) * Moves[i].ratio
    BY <1>2 DEF After2, Total
  <2>3. After2(c, i, v, b) = BinsCost(B, Moves[i].to, Moves[i].factor, rate[i]) * Moves[i].ratio
    BY <2>1, <2>2 DEF BinsCost
  <2>4. QED
    BY <1>5, <2>3
<1>8. QED
  BY <1>2, <1>4, <1>6, <1>7

\* Multiplication distributes over subtraction.
LEMMA Less ==
    ASSUME NEW a \in Int, NEW b \in Int, NEW k \in Int
    PROVE  k * (a - b) = a * k - b * k /\ a * k \in Int /\ b * k \in Int
  OBVIOUS

\* What a priced record costs when its moves take their shares.
LEMMA RepricedIs ==
    ASSUME Repricing, NEW row \in Stream, Issue(row) = Blank, NEW rate \in RateSets(Terms),
           NEW out, \A i \in Indices(row) : out[i] = rate[i][Workload(row)]
    PROVE  /\ Own(Terms, row) \in Nat /\ Own(Terms, row) * Parts \in Nat
           /\ Charge(Terms, row, AtSource(Terms)) \in Nat /\ Charge(Terms, row, AtTarget(Terms, rate)) \in Nat
           /\ Charge(Terms, row, AtSource(Terms)) = Own(Terms, row) * Shares(Terms, row) /\ Shares(Terms, row) \in Nat
           /\ Repriced(row, out) = Own(Terms, row) * Parts + Charge(Terms, row, AtTarget(Terms, rate))
                                   - Charge(Terms, row, AtSource(Terms))
<1>1. PICK x, y, z, S : x = Terms /\ y = AtTarget(Terms, rate) /\ z = AtSource(Terms) /\ S = Indices(row)
  OBVIOUS
<1>2. /\ x.moves = Moves /\ x.issue[row] = Blank /\ x.model[row] = Record(row).model
      /\ x.chosen[row] = S /\ x.workload[row] = Workload(row) /\ TermsOK(x)
      /\ y \in Tariffs(x) /\ z \in Tariffs(x)
  <2>1. y \in Tariffs(x) /\ z \in Tariffs(x) /\ TermsOK(x)
    BY <1>1, TariffsAre, TermsHold
  <2>2. QED
    BY <1>1, <2>1 DEF Terms
<1>3. /\ S \in SUBSET DOMAIN Moves /\ IsFiniteSet(S) /\ Workload(row) \in Bins
      /\ \A i \in S : Moves[i].from = Record(row).model
  BY <1>1, RowMoves
<1>4. \A i \in S : /\ y[i] = [model |-> Moves[i].to, input |-> Moves[i].factor, rate |-> rate[i]]
                   /\ z[i] = [model |-> Moves[i].from, input |-> Unit, rate |-> Flat]
  BY <1>1, <1>2, <1>3 DEF AtTarget, AtSource
<1>5. PICK from : from = Cost(row, Record(row).model, Unit, Unit)
  OBVIOUS
<1>6. Own(x, row) = from
  BY <1>2, <1>5 DEF Own
<1>7. from \in Nat /\ Parts \in Nat /\ Unit \in Nat
  <2>1. Fits(row) /\ Record(row).model \in DOMAIN Prices /\ Unit \in Nat /\ Parts \in Nat
    BY IssueType, MovesType DEF Blank
  <2>2. QED
    BY <1>5, <2>1, CostParts
<1>8. from * Parts \in Nat
  BY <1>7, ProductNat
<1> DEFINE to(i) == Cost(row, Moves[i].to, Moves[i].factor, out[i])
           f == [i \in S |-> Share(x, row, y, i)]
           g == [i \in S |-> Share(x, row, z, i)]
           h == [i \in S |-> Moves[i].ratio * (to(i) - from)]
           q == [i \in S |-> Moves[i].ratio]
<1>9. ASSUME NEW i \in S
      PROVE  /\ f[i] = to(i) * Moves[i].ratio /\ g[i] = from * Moves[i].ratio
             /\ Moves[i].ratio \in Nat /\ to(i) \in Nat
  <2>1. rate[i][Workload(row)] = out[i] /\ Flat[Workload(row)] = Unit
    BY <1>1, <1>3 DEF Flat
  <2>2. Share(x, row, y, i) = to(i) * Moves[i].ratio
    <3>1. y[i].model = Moves[i].to /\ y[i].input = Moves[i].factor /\ y[i].rate[x.workload[row]] = out[i]
      <4>1. PICK a, b : a = Moves[i] /\ b = rate[i]
        OBVIOUS
      <4>2. y[i] = [model |-> a.to, input |-> a.factor, rate |-> b]
        BY <1>4, <4>1
      <4>3. y[i].model = a.to /\ y[i].input = a.factor /\ y[i].rate = b
        BY <4>2
      <4>4. x.workload[row] = Workload(row)
        BY <1>2
      <4>5. y[i].rate[x.workload[row]] = b[Workload(row)]
        BY <4>3, <4>4
      <4>6. QED
        BY <2>1, <4>1, <4>3, <4>5
    <3>2. x.moves[i] = Moves[i]
      BY <1>2
    <3>3. Share(x, row, y, i)
          = Cost(row, y[i].model, y[i].input, y[i].rate[x.workload[row]]) * x.moves[i].ratio
      BY DEF Share
    <3> HIDE DEF f, g, h, q
    <3>4. QED
      BY <3>1, <3>2, <3>3
  <2>3. Share(x, row, z, i) = from * Moves[i].ratio
    <3>1. z[i].model = Moves[i].from /\ z[i].input = Unit /\ z[i].rate[x.workload[row]] = Unit
      <4>1. PICK a, b : a = Moves[i] /\ b = Flat
        OBVIOUS
      <4>2. z[i] = [model |-> a.from, input |-> Unit, rate |-> b]
        BY <1>4, <4>1
      <4>3. z[i].model = a.from /\ z[i].input = Unit /\ z[i].rate = b
        BY <4>2
      <4>4. x.workload[row] = Workload(row)
        BY <1>2
      <4>5. z[i].rate[x.workload[row]] = b[Workload(row)]
        BY <4>3, <4>4
      <4>6. QED
        BY <2>1, <4>1, <4>3, <4>5
    <3>2. x.moves[i] = Moves[i] /\ Moves[i].from = Record(row).model
      BY <1>2, <1>3
    <3>3. Share(x, row, z, i)
          = Cost(row, z[i].model, z[i].input, z[i].rate[x.workload[row]]) * x.moves[i].ratio
      BY DEF Share
    <3> HIDE DEF f, g, h, q, to
    <3>4. QED
      BY <1>5, <3>1, <3>2, <3>3
  <2>4. Moves[i].ratio \in Nat
    BY <1>3, MovesType
  <2>5. Fits(row)
    BY IssueType DEF Blank
  <2>6. rate[i] \in Rates
    BY <1>1, <1>2, <1>3 DEF RateSets
  <2>7. out[i] \in Nat
    BY <1>3, <2>1, <2>6 DEF Rates
  <2>8. to(i) \in Nat
    <3>1. Moves[i].to \in DOMAIN Prices /\ Moves[i].factor \in Nat
      BY <1>3, MovesType
    <3>2. QED
      BY <2>5, <2>7, <3>1, CostParts
  <2>9. QED
    BY <2>2, <2>3, <2>4, <2>8
<1>10. /\ Charge(x, row, y) = SumFunctionOnSet(f, S) /\ Charge(x, row, z) = SumFunctionOnSet(g, S)
       /\ Shares(x, row) = SumFunctionOnSet(q, S)
  BY <1>2 DEF Charge, Shares
<1>11. Repriced(row, out) = from * Parts + SumFunctionOnSet(h, S)
  BY <1>1, <1>5 DEF Repriced, Total
<1>12. Charge(x, row, y) \in Nat /\ Charge(x, row, z) \in Nat
  BY <1>2, ShareType
<1>13. \A i \in S : f[i] \in Int /\ g[i] \in Int /\ h[i] = f[i] - g[i]
  <2>1. TAKE i \in S
  <2>2. PICK a, k : a = to(i) /\ k = Moves[i].ratio
    OBVIOUS
  <2>3. a \in Nat /\ k \in Nat /\ f[i] = a * k /\ g[i] = from * k
    BY <1>9, <2>2
  <2>4. h[i] = k * (a - from)
    BY <2>2
  <2> HIDE DEF f, g, h
  <2>5. k * (a - from) = a * k - from * k /\ a * k \in Int /\ from * k \in Int
    BY <1>7, <2>3, Less
  <2>6. QED
    BY <2>3, <2>4, <2>5
<1>14. \A i \in S : q[i] \in Int /\ g[i] = q[i] * from /\ q[i] \in Nat
  <2>1. TAKE i \in S
  <2>2. PICK k : k = Moves[i].ratio
    OBVIOUS
  <2>3. k \in Nat /\ g[i] = from * k /\ q[i] = k
    BY <1>9, <2>2
  <2> HIDE DEF g, q
  <2>4. QED
    BY <1>7, <2>3
<1> HIDE DEF f, g, h, q
<1>15. SumFunctionOnSet(h, S) = SumFunctionOnSet(f, S) - SumFunctionOnSet(g, S)
  BY <1>3, <1>13, SumMinus
<1>16. SumFunctionOnSet(q, S) \in Nat
  BY <1>3, <1>14, SumType
<1>17. SumFunctionOnSet(g, S) = SumFunctionOnSet(q, S) * from
  BY <1>3, <1>7, <1>14, SumScale
<1>18. PICK k \in Nat : k = SumFunctionOnSet(q, S)
  BY <1>16
<1>19. k * from = from * k
  BY <1>7
<1>20. Charge(x, row, z) = from * Shares(x, row) /\ Shares(x, row) \in Nat
  BY <1>10, <1>17, <1>18, <1>19
<1>21. Repriced(row, out) = from * Parts + Charge(x, row, y) - Charge(x, row, z)
  <2>1. PICK a, b, e : a = SumFunctionOnSet(f, S) /\ b = SumFunctionOnSet(g, S) /\ e = from * Parts
    OBVIOUS
  <2>2. a \in Nat /\ b \in Nat /\ e \in Nat
    BY <1>8, <1>10, <1>12, <2>1
  <2>3. Repriced(row, out) = e + (a - b)
    BY <1>11, <1>15, <2>1
  <2>4. e + (a - b) = e + a - b
    BY <2>2
  <2>5. QED
    BY <1>10, <2>1, <2>3, <2>4
<1>22. QED
  BY <1>1, <1>6, <1>7, <1>8, <1>12, <1>20, <1>21

\* What a record costs when its moves take their shares at other prices.
MovedCost(x, row, y) == Own(x, row) * Parts + Charge(x, row, y) - Charge(x, row, AtSource(x))

\* It is never less than nothing: moves take at most all of it.
LEMMA MovedCostType ==
    ASSUME Repricing, NEW row \in Stream, Terms.issue[row] = Blank, Shares(Terms, row) <= Parts,
           NEW y \in Tariffs(Terms)
    PROVE  /\ Own(Terms, row) \in Nat /\ Own(Terms, row) * Parts \in Nat
           /\ Charge(Terms, row, AtSource(Terms)) \in Nat /\ Charge(Terms, row, y) \in Nat
           /\ Charge(Terms, row, AtSource(Terms)) <= Own(Terms, row) * Parts
           /\ MovedCost(Terms, row, y) \in Nat
<1>1. TermsOK(Terms) /\ Issue(row) = Blank
  BY TermsHold DEF Terms
<1>2. PICK rate \in RateSets(Terms) : rate = [i \in DOMAIN Moves |-> Flat]
  BY TariffsAre
<1>3. PICK out : out = [i \in Indices(row) |-> rate[i][Workload(row)]]
  OBVIOUS
<1>4. \A i \in Indices(row) : out[i] = rate[i][Workload(row)]
  BY <1>3
<1>5. /\ Own(Terms, row) \in Nat /\ Own(Terms, row) * Parts \in Nat
      /\ Charge(Terms, row, AtSource(Terms)) \in Nat /\ Shares(Terms, row) \in Nat
      /\ Charge(Terms, row, AtSource(Terms)) = Own(Terms, row) * Shares(Terms, row)
  BY <1>1, <1>4, RepricedIs
<1>6. PICK own \in Nat : own = Own(Terms, row)
  BY <1>5
<1>7. PICK k \in Nat : k = Shares(Terms, row)
  BY <1>5
<1>8. PICK p \in Nat : p = Parts
  BY MovesType
<1>9. own * k <= own * p
  BY <1>6, <1>7, <1>8, ProductGrows
<1>10. Charge(Terms, row, y) \in Nat
  BY <1>1, ShareType
<1>11. PICK a, s, o \in Nat : a = Charge(Terms, row, y) /\ s = Charge(Terms, row, AtSource(Terms)) /\ o = own * p
  BY <1>5, <1>6, <1>8, <1>10
<1>12. s <= o
  BY <1>5, <1>6, <1>7, <1>9, <1>11
<1>13. o + a - s \in Nat
  BY <1>12
<1>14. MovedCost(Terms, row, y) = o + a - s
  BY <1>6, <1>8, <1>11 DEF MovedCost
<1>15. QED
  BY <1>5, <1>6, <1>8, <1>10, <1>11, <1>12, <1>13, <1>14

\* What the records held cost together.
LEMMA RecordsCost ==
    ASSUME Repricing, NEW R, NEW c, NEW D, Took(Terms, R, c, D), NEW y \in Tariffs(Terms),
           NEW P, P = Costed(Terms, R, D), NEW h, \A j \in P : h[j] = MovedCost(Terms, R[j], y)
    PROVE  /\ IsFiniteSet(P) /\ (\A j \in P : h[j] \in Nat)
           /\ c.baseline \in Nat /\ c.baseline * Parts \in Nat
           /\ Charged(Terms, c, y) \in Nat /\ Charged(Terms, c, AtSource(Terms)) \in Nat
           /\ Charged(Terms, c, AtSource(Terms)) <= c.baseline * Parts
           /\ SumFunctionOnSet(h, P) = c.baseline * Parts + Charged(Terms, c, y) - Charged(Terms, c, AtSource(Terms))
<1>1. /\ R \in Seq(Stream) /\ D \in SUBSET DOMAIN R /\ c.baseline = SumFunctionOnSet([j \in P |-> Own(Terms, R[j])], P)
      /\ \A j \in P : Shares(Terms, R[j]) <= Parts
      /\ \A z \in Tariffs(Terms) :
            Charged(Terms, c, z) = SumFunctionOnSet([j \in P |-> Charge(Terms, R[j], z)], P)
  BY DEF Took, CostsTook
<1>2. \A j \in P : R[j] \in Stream /\ Terms.issue[R[j]] = Blank
  BY <1>1 DEF Costed
<1>3. IsFiniteSet(P)
  <2>1. D \in SUBSET (1..Len(R)) /\ Len(R) \in Nat
    BY <1>1
  <2>2. P \in SUBSET (1..Len(R))
    BY <2>1 DEF Costed
  <2>3. IsFiniteSet(1..Len(R))
    BY <2>1, FS_Interval
  <2>4. QED
    BY <2>2, <2>3, FS_Subset
<1>4. AtSource(Terms) \in Tariffs(Terms) /\ Parts \in Nat
  BY TariffsAre, MovesType
<1> DEFINE own == [j \in P |-> Own(Terms, R[j])]
           full == [j \in P |-> Own(Terms, R[j]) * Parts]
           to == [j \in P |-> Charge(Terms, R[j], y)]
           from == [j \in P |-> Charge(Terms, R[j], AtSource(Terms))]
           both == [j \in P |-> full[j] + to[j]]
<1>5. ASSUME NEW j \in P
      PROVE  /\ own[j] \in Nat /\ full[j] = own[j] * Parts /\ full[j] \in Nat /\ to[j] \in Nat /\ from[j] \in Nat
             /\ both[j] = full[j] + to[j] /\ both[j] \in Nat /\ from[j] <= full[j] /\ h[j] \in Nat
             /\ h[j] = both[j] - from[j]
  <2>1. PICK row \in Stream : row = R[j] /\ Terms.issue[row] = Blank /\ Shares(Terms, row) <= Parts
    BY <1>1, <1>2
  <2>2. /\ Own(Terms, row) \in Nat /\ Own(Terms, row) * Parts \in Nat
        /\ Charge(Terms, row, AtSource(Terms)) \in Nat /\ Charge(Terms, row, y) \in Nat
        /\ Charge(Terms, row, AtSource(Terms)) <= Own(Terms, row) * Parts
        /\ MovedCost(Terms, row, y) \in Nat
    BY <2>1, MovedCostType
  <2>3. h[j] = Own(Terms, row) * Parts + Charge(Terms, row, y) - Charge(Terms, row, AtSource(Terms))
    BY <2>1 DEF MovedCost
  <2>4. /\ own[j] = Own(Terms, row) /\ full[j] = Own(Terms, row) * Parts /\ to[j] = Charge(Terms, row, y)
        /\ from[j] = Charge(Terms, row, AtSource(Terms)) /\ both[j] = full[j] + to[j]
    BY <2>1
  <2>5. h[j] \in Nat
    BY <2>1, <2>2
  <2> HIDE DEF own, full, to, from, both
  <2>6. full[j] + to[j] \in Nat
    BY <2>2, <2>4
  <2>7. h[j] = both[j] - from[j]
    <3>1. PICK a, b, s \in Nat : /\ a = Own(Terms, row) * Parts /\ b = Charge(Terms, row, y)
                                 /\ s = Charge(Terms, row, AtSource(Terms))
      BY <2>2
    <3>2. h[j] = a + b - s
      BY <2>3, <3>1
    <3>3. both[j] = a + b /\ from[j] = s
      BY <2>4, <3>1
    <3>4. QED
      BY <3>2, <3>3
  <2>8. QED
    BY <2>2, <2>4, <2>5, <2>6, <2>7
<1>6. /\ c.baseline = SumFunctionOnSet(own, P) /\ Charged(Terms, c, y) = SumFunctionOnSet(to, P)
      /\ Charged(Terms, c, AtSource(Terms)) = SumFunctionOnSet(from, P)
  BY <1>1, <1>4
<1> HIDE DEF own, full, to, from, both
<1>7. SumFunctionOnSet(own, P) \in Nat /\ SumFunctionOnSet(to, P) \in Nat /\ SumFunctionOnSet(from, P) \in Nat
  BY <1>3, <1>5, SumType
<1>8. SumFunctionOnSet(full, P) = SumFunctionOnSet(own, P) * Parts
  <2>1. \A j \in P : own[j] \in Int /\ full[j] = own[j] * Parts
    BY <1>5
  <2>2. Parts \in Int
    BY <1>4
  <2>3. QED
    BY <1>3, <2>1, <2>2, SumScale
<1>9. SumFunctionOnSet(both, P) = SumFunctionOnSet(full, P) + SumFunctionOnSet(to, P)
  <2>1. \A j \in P : full[j] \in Int /\ to[j] \in Int /\ both[j] = full[j] + to[j]
    BY <1>5
  <2>2. QED
    BY <1>3, <2>1, SumPlus
<1>10. SumFunctionOnSet(h, P) = SumFunctionOnSet(both, P) - SumFunctionOnSet(from, P)
  <2>1. \A j \in P : both[j] \in Int /\ from[j] \in Int /\ h[j] = both[j] - from[j]
    BY <1>5
  <2>2. QED
    BY <1>3, <2>1, SumMinus
<1>11. SumFunctionOnSet(from, P) <= SumFunctionOnSet(full, P)
  <2>1. \A j \in P : from[j] \in Int /\ full[j] \in Int /\ from[j] <= full[j]
    BY <1>5
  <2>2. QED
    BY <1>3, <2>1, SumAtMost
<1>12. SumFunctionOnSet(full, P) \in Nat
  BY <1>3, <1>5, SumType
<1>13. \A j \in P : h[j] \in Nat
  BY <1>5
<1>14. QED
  BY <1>3, <1>6, <1>7, <1>8, <1>9, <1>10, <1>11, <1>12, <1>13

\* What moves gain and lose.
LEMMA GainIs ==
    ASSUME Repricing, NEW c, CalcOK(Terms, c), NEW y \in Tariffs(Terms), NEW T \in SUBSET DOMAIN Moves,
           \A i \in DOMAIN Moves \ T : DOMAIN c.moves[i].buckets = {},
           NEW g, \A i \in T : g[i] = Held(Terms, c, y, i) - Held(Terms, c, AtSource(Terms), i)
    PROVE  SumFunctionOnSet(g, T) = Charged(Terms, c, y) - Charged(Terms, c, AtSource(Terms))
<1>1. Terms.moves = Moves /\ TermsOK(Terms) /\ AtSource(Terms) \in Tariffs(Terms)
  BY TermsHold, TariffsAre DEF Terms
<1> DEFINE to == [i \in T |-> Held(Terms, c, y, i)]
           from == [i \in T |-> Held(Terms, c, AtSource(Terms), i)]
<1>2. ASSUME NEW i \in T PROVE to[i] \in Int /\ from[i] \in Int /\ g[i] = to[i] - from[i]
  <2>1. i \in DOMAIN Terms.moves
    BY <1>1
  <2>2. Held(Terms, c, y, i) \in Nat /\ Held(Terms, c, AtSource(Terms), i) \in Nat
    BY <1>1, <2>1, HeldType
  <2>3. QED
    BY <2>2
<1>3. (\A i \in T : to[i] = Held(Terms, c, y, i)) /\ \A i \in T : from[i] = Held(Terms, c, AtSource(Terms), i)
  OBVIOUS
<1> HIDE DEF to, from
<1>4. T \in SUBSET DOMAIN Terms.moves /\ \A i \in DOMAIN Terms.moves \ T : DOMAIN c.moves[i].buckets = {}
  BY <1>1
<1>5. IsFiniteSet(T) /\ SumFunctionOnSet(to, T) = Charged(Terms, c, y)
  BY <1>1, <1>3, <1>4, HeldSum
<1>6. SumFunctionOnSet(from, T) = Charged(Terms, c, AtSource(Terms))
  BY <1>1, <1>3, <1>4, HeldSum
<1>7. SumFunctionOnSet(g, T) = SumFunctionOnSet(to, T) - SumFunctionOnSet(from, T)
  BY <1>2, <1>5, SumMinus
<1>8. QED
  BY <1>5, <1>6, <1>7

\* The output factors of level 1, and of a bound of level 2 in a variant.
Rates1 == [i \in DOMAIN Moves |-> Flat]
Rates2(v, b) ==
    [i \in DOMAIN Moves |-> [w \in Bins |-> IF FactorKey(i, w, v) \in DOMAIN Factors
                                            THEN Factors[FactorKey(i, w, v)][b] ELSE 0]]
Bounds == {"low", "mean", "high"}

\* Factors are numbers, and their bounds are in order.
LEMMA FactorsAre ==
    ASSUME NEW k \in DOMAIN Factors
    PROVE  /\ \A b \in Bounds : Factors[k][b] \in Nat
           /\ Factors[k]["low"] <= Factors[k]["mean"] /\ Factors[k]["mean"] <= Factors[k]["high"]
<1>1. Factors[k] \in [low: Nat, mean: Nat, high: Nat]
      /\ Factors[k].low <= Factors[k].mean /\ Factors[k].mean <= Factors[k].high
  BY WhatIfAssumption
<1>2. PICK f : f = Factors[k]
  OBVIOUS
<1>3. f.low \in Nat /\ f.mean \in Nat /\ f.high \in Nat
  BY <1>1, <1>2
<1>4. QED
  BY <1>1, <1>2, <1>3 DEF Bounds

\* The output factors of both levels make price lists.
LEMMA RatesAre ==
    ASSUME Repricing
    PROVE  /\ Rates1 \in RateSets(Terms) /\ AtTarget(Terms, Rates1) \in Tariffs(Terms)
           /\ \A v, b : b \in Bounds => Rates2(v, b) \in RateSets(Terms) /\ AtTarget(Terms, Rates2(v, b)) \in Tariffs(Terms)
<1>1. Rates1 \in RateSets(Terms)
  BY TariffsAre DEF Rates1
<1>2. ASSUME NEW v, NEW b \in Bounds PROVE Rates2(v, b) \in RateSets(Terms)
  <2>1. \A i, w : FactorKey(i, w, v) \in DOMAIN Factors => Factors[FactorKey(i, w, v)][b] \in Nat
    BY FactorsAre
  <2>2. \A i \in DOMAIN Moves : [w \in Bins |-> IF FactorKey(i, w, v) \in DOMAIN Factors
                                                 THEN Factors[FactorKey(i, w, v)][b] ELSE 0] \in Rates
    BY <2>1 DEF Rates
  <2>3. Terms.moves = Moves
    BY DEF Terms
  <2>4. QED
    BY <2>2, <2>3 DEF Rates2, RateSets
<1>3. QED
  BY <1>1, <1>2, TariffsAre

\* Moves outside T hold nothing.
Unused(c, T) == \A i \in DOMAIN Moves \ T : DOMAIN c.moves[i].buckets = {}

\* The two levels, and what the moves take, in terms of the price lists.
LEMMA Level1Is ==
    ASSUME Repricing, NEW c, CalcOK(Terms, c), NEW T \in SUBSET DOMAIN Moves, Unused(c, T)
    PROVE  Level1(c, T) = c.baseline * Parts
                          + (Charged(Terms, c, AtTarget(Terms, Rates1)) - Charged(Terms, c, AtSource(Terms)))
<1> DEFINE g == [i \in T |-> After1(c, i) - Before(c, i)]
<1>1. PICK y \in Tariffs(Terms) : y = AtTarget(Terms, Rates1)
  BY RatesAre
<1>2. \A i \in T : g[i] = Held(Terms, c, y, i) - Held(Terms, c, AtSource(Terms), i)
  BY <1>1, LevelsAre DEF Rates1
<1>3. Level1(c, T) = c.baseline * Parts + SumFunctionOnSet(g, T)
  BY DEF Level1, Total
<1> HIDE DEF g
<1>4. SumFunctionOnSet(g, T) = Charged(Terms, c, y) - Charged(Terms, c, AtSource(Terms))
  BY <1>2, GainIs DEF Unused
<1>5. QED
  BY <1>1, <1>3, <1>4

\* Level 2 in terms of the price lists, where factors are available.
LEMMA Level2Is ==
    ASSUME Repricing, NEW c, CalcOK(Terms, c), NEW T \in SUBSET DOMAIN Moves, Unused(c, T), NEW v, NEW b \in Bounds,
           \A i \in T : Available(c, i, v)
    PROVE  Level2(c, T, v, b) = c.baseline * Parts
                                + (Charged(Terms, c, AtTarget(Terms, Rates2(v, b))) - Charged(Terms, c, AtSource(Terms)))
<1> DEFINE g == [i \in T |-> After2(c, i, v, b) - Before(c, i)]
<1>1. PICK rate \in RateSets(Terms) : rate = Rates2(v, b)
  BY RatesAre
<1>2. PICK y \in Tariffs(Terms) : y = AtTarget(Terms, rate)
  BY <1>1, TariffsAre
<1>3. ASSUME NEW i \in T PROVE g[i] = Held(Terms, c, y, i) - Held(Terms, c, AtSource(Terms), i)
  <2>1. DOMAIN c.moves[i].buckets \subseteq Bins
    BY BinsFinite DEF CalcOK, Terms
  <2>2. \A w \in DOMAIN c.moves[i].buckets : FactorKey(i, w, v) \in DOMAIN Factors
    BY DEF Available
  <2>3. rate[i] = [w \in Bins |-> IF FactorKey(i, w, v) \in DOMAIN Factors THEN Factors[FactorKey(i, w, v)][b] ELSE 0]
    BY <1>1 DEF Rates2
  <2>4. \A w \in DOMAIN c.moves[i].buckets : rate[i][w] = Factors[FactorKey(i, w, v)][b]
    BY <2>1, <2>2, <2>3
  <2>5. i \in DOMAIN Moves
    OBVIOUS
  <2>6. After2(c, i, v, b) = Held(Terms, c, y, i) /\ Before(c, i) = Held(Terms, c, AtSource(Terms), i)
    BY <1>2, <2>4, <2>5, LevelsAre
  <2>7. QED
    BY <2>6
<1>4. Level2(c, T, v, b) = c.baseline * Parts + SumFunctionOnSet(g, T)
  BY DEF Level2, Total
<1> HIDE DEF g
<1>5. SumFunctionOnSet(g, T) = Charged(Terms, c, y) - Charged(Terms, c, AtSource(Terms))
  BY <1>3, GainIs DEF Unused
<1>6. QED
  BY <1>1, <1>2, <1>4, <1>5

\* What moves costs at its source in these terms.
LEMMA BeforeIs ==
    ASSUME Repricing, NEW c, CalcOK(Terms, c)
    PROVE  SumFunctionOnSet([i \in DOMAIN Moves |-> Before(c, i)], DOMAIN Moves) = Charged(Terms, c, AtSource(Terms))
<1> DEFINE g == [i \in DOMAIN Moves |-> Before(c, i)]
<1>1. Terms.moves = Moves /\ TermsOK(Terms) /\ AtSource(Terms) \in Tariffs(Terms)
  BY TermsHold, TariffsAre DEF Terms
<1>2. \A i \in DOMAIN Moves : g[i] = Held(Terms, c, AtSource(Terms), i)
  BY LevelsAre
<1> HIDE DEF g
<1>3. PICK T : T = DOMAIN Moves
  OBVIOUS
<1>4. T \in SUBSET DOMAIN Terms.moves /\ \A i \in DOMAIN Terms.moves \ T : DOMAIN c.moves[i].buckets = {}
  BY <1>1, <1>3
<1>5. SumFunctionOnSet(g, T) = Charged(Terms, c, AtSource(Terms))
  BY <1>1, <1>2, <1>3, <1>4, HeldSum
<1>6. QED
  BY <1>3, <1>5 DEF g

\* What one record costs by itself, at the two levels.
LEMMA AloneIs ==
    ASSUME Repricing, NEW row \in Stream, Terms.issue[row] = Blank
    PROVE  Repriced(row, [m \in AllMoved |-> Unit]) = MovedCost(Terms, row, AtTarget(Terms, Rates1))
<1>1. Issue(row) = Blank /\ Rates1 \in RateSets(Terms)
  BY RatesAre DEF Terms
<1>2. PICK out : out = [m \in AllMoved |-> Unit]
  OBVIOUS
<1>3. ASSUME NEW i \in Indices(row) PROVE out[i] = Rates1[i][Workload(row)]
  <2>1. i \in DOMAIN Moves /\ Workload(row) \in Bins
    BY RowMoves
  <2>2. QED
    BY <1>2, <2>1 DEF AllMoved, Rates1, Flat
<1>4. Repriced(row, out) = Own(Terms, row) * Parts + Charge(Terms, row, AtTarget(Terms, Rates1))
                           - Charge(Terms, row, AtSource(Terms))
  BY <1>1, <1>3, RepricedIs
<1>5. QED
  BY <1>2, <1>4 DEF MovedCost

\* The same with the factors of its own workload.
LEMMA OwnFactorsAre ==
    ASSUME Repricing, NEW row \in Stream, Terms.issue[row] = Blank, NEW v, NEW b \in Bounds,
           \A i \in Indices(row) : FactorKey(i, Workload(row), v) \in DOMAIN Factors
    PROVE  Repriced(row, [m \in Indices(row) |-> Factors[FactorKey(m, Workload(row), v)][b]])
           = MovedCost(Terms, row, AtTarget(Terms, Rates2(v, b)))
<1>1. PICK rate \in RateSets(Terms) : rate = Rates2(v, b)
  BY RatesAre
<1>2. Issue(row) = Blank
  BY DEF Terms
<1>3. PICK out : out = [m \in Indices(row) |-> Factors[FactorKey(m, Workload(row), v)][b]]
  OBVIOUS
<1>4. ASSUME NEW i \in Indices(row) PROVE out[i] = rate[i][Workload(row)]
  <2>1. i \in DOMAIN Moves /\ Workload(row) \in Bins
    BY RowMoves
  <2>2. rate[i][Workload(row)] = Factors[FactorKey(i, Workload(row), v)][b]
    BY <1>1, <2>1 DEF Rates2
  <2>3. QED
    BY <1>3, <2>2
<1>5. Repriced(row, out) = Own(Terms, row) * Parts + Charge(Terms, row, AtTarget(Terms, rate))
                           - Charge(Terms, row, AtSource(Terms))
  BY <1>2, <1>4, RepricedIs
<1>6. QED
  BY <1>1, <1>3, <1>5 DEF MovedCost

\* A record that a calculator priced is in the bin of its workload, in each of
\* its moves: where factors are available for the bins, they are for it.
LEMMA FactorsServe ==
    ASSUME Repricing, NEW R, NEW c, NEW D, Took(Terms, R, c, D), NEW j \in Costed(Terms, R, D),
           NEW i \in Indices(R[j]), NEW v, Available(c, i, v) \/ DOMAIN c.moves[i].buckets = {}
    PROVE  FactorKey(i, Workload(R[j]), v) \in DOMAIN Factors
<1>1. R \in Seq(Stream) /\ D \in SUBSET DOMAIN R
      /\ \A k \in DOMAIN Terms.moves :
            DOMAIN c.moves[k].buckets = {Terms.workload[R[l]] : l \in Costed(Terms, R, D) \cap Chosen(Terms, R, D, k)}
  BY DEF Took, CountsTook
<1>2. j \in D /\ R[j] \in Stream
  BY <1>1 DEF Costed
<1>3. Terms.moves = Moves /\ Terms.chosen[R[j]] = Indices(R[j]) /\ Terms.workload[R[j]] = Workload(R[j])
  BY <1>2 DEF Terms
<1>4. i \in DOMAIN Moves
  BY <1>2, RowMoves
<1>5. j \in Chosen(Terms, R, D, i)
  BY <1>2, <1>3 DEF Chosen
<1>6. Workload(R[j]) \in DOMAIN c.moves[i].buckets
  BY <1>1, <1>3, <1>4, <1>5
<1>7. QED
  BY <1>6 DEF Available

\* A level is the sum of what its records cost by themselves.
LEMMA LevelOnePriced ==
    ASSUME Repricing, NEW R, NEW c, NEW D, Took(Terms, R, c, D), NEW T \in SUBSET DOMAIN Moves, Unused(c, T),
           NEW P, P = Costed(Terms, R, D)
    PROVE  Level1(c, T) = SumFunctionOnSet([j \in P |-> Repriced(R[j], [m \in AllMoved |-> Unit])], P)
<1> DEFINE h == [j \in P |-> Repriced(R[j], [m \in AllMoved |-> Unit])]
<1>1. PICK y \in Tariffs(Terms) : y = AtTarget(Terms, Rates1)
  BY RatesAre
<1>2. CalcOK(Terms, c) /\ R \in Seq(Stream) /\ D \in SUBSET DOMAIN R
  BY DEF Took
<1>3. ASSUME NEW j \in P PROVE h[j] = MovedCost(Terms, R[j], y)
  <2>1. R[j] \in Stream /\ Terms.issue[R[j]] = Blank
    BY <1>2 DEF Costed
  <2>2. PICK row \in Stream : row = R[j]
    BY <2>1
  <2>3. Repriced(row, [m \in AllMoved |-> Unit]) = MovedCost(Terms, row, AtTarget(Terms, Rates1))
    BY <2>1, <2>2, AloneIs
  <2>4. QED
    BY <1>1, <2>2, <2>3
<1> HIDE DEF h
<1>4. /\ c.baseline * Parts \in Nat /\ Charged(Terms, c, y) \in Nat /\ Charged(Terms, c, AtSource(Terms)) \in Nat
      /\ SumFunctionOnSet(h, P) = c.baseline * Parts + Charged(Terms, c, y) - Charged(Terms, c, AtSource(Terms))
  BY <1>3, RecordsCost
<1>5. Level1(c, T) = c.baseline * Parts + (Charged(Terms, c, y) - Charged(Terms, c, AtSource(Terms)))
  BY <1>1, <1>2, Level1Is
<1>6. PICK o, a, s \in Nat : o = c.baseline * Parts /\ a = Charged(Terms, c, y) /\ s = Charged(Terms, c, AtSource(Terms))
  BY <1>4
<1>7. o + (a - s) = o + a - s
  OBVIOUS
<1>8. Level1(c, T) = SumFunctionOnSet(h, P)
  BY <1>4, <1>5, <1>6, <1>7
<1>9. QED
  BY <1>8 DEF h

\* What each record costs with the factors of its own workload.
OwnCosts(R, P, v, b) ==
    [j \in P |-> Repriced(R[j], [m \in Indices(R[j]) |-> Factors[FactorKey(m, Workload(R[j]), v)][b]])]

\* Level 2 is the sum of what its records cost with the factors of their own
\* workloads, where factors are available for the bins.
LEMMA LevelTwoPriced ==
    ASSUME Repricing, NEW R, NEW c, NEW D, Took(Terms, R, c, D), NEW T \in SUBSET DOMAIN Moves, Unused(c, T),
           NEW P, P = Costed(Terms, R, D), NEW v, NEW b \in Bounds, \A i \in T : Available(c, i, v)
    PROVE  /\ Level2(c, T, v, b) = SumFunctionOnSet(OwnCosts(R, P, v, b), P)
           /\ \A j \in P : OwnCosts(R, P, v, b)[j] \in Nat
<1> DEFINE h == [j \in P |-> Repriced(R[j], [m \in Indices(R[j]) |-> Factors[FactorKey(m, Workload(R[j]), v)][b]])]
<1>1. PICK y \in Tariffs(Terms) : y = AtTarget(Terms, Rates2(v, b))
  BY RatesAre
<1>2. CalcOK(Terms, c) /\ R \in Seq(Stream) /\ D \in SUBSET DOMAIN R
  BY DEF Took
<1>3. ASSUME NEW j \in P PROVE h[j] = MovedCost(Terms, R[j], y)
  <2>1. R[j] \in Stream /\ Terms.issue[R[j]] = Blank /\ Indices(R[j]) \in SUBSET DOMAIN Moves
    BY <1>2, RowMoves DEF Costed
  <2>2. PICK row \in Stream : row = R[j]
    BY <2>1
  <2>3. \A i \in Indices(R[j]) : Available(c, i, v) \/ DOMAIN c.moves[i].buckets = {}
    BY <2>1 DEF Unused
  <2>4. \A i \in Indices(R[j]) : FactorKey(i, Workload(R[j]), v) \in DOMAIN Factors
    BY <2>3, FactorsServe
  <2>5. \A i \in Indices(row) : FactorKey(i, Workload(row), v) \in DOMAIN Factors
    BY <2>2, <2>4
  <2>6. Repriced(row, [m \in Indices(row) |-> Factors[FactorKey(m, Workload(row), v)][b]])
        = MovedCost(Terms, row, AtTarget(Terms, Rates2(v, b)))
    BY <2>1, <2>2, <2>5, OwnFactorsAre
  <2>7. h[j] = Repriced(row, [m \in Indices(row) |-> Factors[FactorKey(m, Workload(row), v)][b]])
    BY <2>2
  <2>8. QED
    BY <1>1, <2>2, <2>6, <2>7
<1>4. OwnCosts(R, P, v, b) = h
  BY DEF OwnCosts
<1> HIDE DEF h
<1>5. /\ c.baseline * Parts \in Nat /\ Charged(Terms, c, y) \in Nat /\ Charged(Terms, c, AtSource(Terms)) \in Nat
      /\ SumFunctionOnSet(h, P) = c.baseline * Parts + Charged(Terms, c, y) - Charged(Terms, c, AtSource(Terms))
      /\ \A j \in P : h[j] \in Nat
  BY <1>3, RecordsCost
<1>6. Level2(c, T, v, b) = c.baseline * Parts + (Charged(Terms, c, y) - Charged(Terms, c, AtSource(Terms)))
  BY <1>1, <1>2, Level2Is
<1>7. PICK o, a, s \in Nat : o = c.baseline * Parts /\ a = Charged(Terms, c, y) /\ s = Charged(Terms, c, AtSource(Terms))
  BY <1>5
<1>8. o + (a - s) = o + a - s
  OBVIOUS
<1>9. Level2(c, T, v, b) = SumFunctionOnSet(h, P)
  BY <1>5, <1>6, <1>7, <1>8
<1>10. QED
  BY <1>4, <1>5, <1>9

\* The parent prices every record as if it were alone.
LEMMA PerRecord == ASSUME RowsOK, WhatIfOK PROVE PricedPerRecord
<1> SUFFICES ASSUME Pricing PROVE PricedPerRecord
  BY DEF PricedPerRecord
<1>1. Repricing /\ Took(Terms, rows, calc, Period) /\ Covered = Costed(Terms, rows, Period)
  BY CoveredIs DEF WhatIfOK, Repricing, Pricing
<1>2. PICK T : T = DOMAIN Moves
  OBVIOUS
<1>3. T \in SUBSET DOMAIN Moves /\ Unused(calc, T) /\ AllMoved = T
  BY <1>2 DEF Unused, AllMoved
<1>4. Level1(calc, T) = SumFunctionOnSet([i \in Covered |-> Repriced(rows[i], [m \in AllMoved |-> Unit])], Covered)
  BY <1>1, <1>3, LevelOnePriced
<1>5. ASSUME Level2Reported(calc), NEW v \in Variants(calc), NEW b \in Bounds
      PROVE  Level2(calc, T, v, b) = SumFunctionOnSet(OwnCosts(rows, Covered, v, b), Covered)
  <2>1. \A i \in T : Available(calc, i, v)
    BY <1>3, <1>5 DEF Level2Reported
  <2>2. QED
    BY <1>1, <1>3, <2>1, LevelTwoPriced
<1>6. Level1(calc, AllMoved) = SumFunctionOnSet([i \in Covered |-> Repriced(rows[i], [m \in AllMoved |-> Unit])], Covered)
  BY <1>3, <1>4
<1>7. LET One1(i) == Repriced(rows[i], [m \in AllMoved |-> Unit])
      IN Level1(calc, AllMoved) = Total(One1, Covered)
  BY <1>6 DEF Total
<1>8. ASSUME Level2Reported(calc), NEW v \in Variants(calc), NEW b \in Bounds
      PROVE  LET Each(i) == Repriced(rows[i], [m \in Indices(rows[i]) |-> Factors[FactorKey(m, Workload(rows[i]), v)][b]])
             IN Level2(calc, AllMoved, v, b) = Total(Each, Covered)
  <2>1. Level2(calc, AllMoved, v, b) = SumFunctionOnSet(OwnCosts(rows, Covered, v, b), Covered)
    BY <1>3, <1>5, <1>8
  <2>2. QED
    BY <2>1 DEF Total, OwnCosts
<1>9. QED
  BY <1>7, <1>8 DEF PricedPerRecord, Bounds

\* Every row is priced or excluded, and counted by its moves.
LEMMA RowsPlaced == ASSUME RowsOK, WhatIfOK PROVE EveryRowPlaced
<1> SUFFICES ASSUME Pricing PROVE EveryRowPlaced
  BY DEF EveryRowPlaced
<1>1. /\ Repricing /\ Took(Terms, rows, calc, Period)
      /\ source.rows = Cardinality(Period) /\ source.rows + source.outside = Len(rows)
      /\ Routing => /\ calc.covered <= served["all"]["identity"]
                    /\ SumFunctionOnSet([y \in Types |-> served[y]["rows"]], Types) = source.rows
  BY DEF WhatIfOK, Repricing, Pricing
<1>2. /\ calc.covered + SumFunctionOnSet(calc.excluded, Issues) = Cardinality(Period)
      /\ \A i \in DOMAIN Terms.moves :
            calc.moves[i].covered + calc.moves[i].excluded = Cardinality(Chosen(Terms, rows, Period, i))
  BY <1>1 DEF Took, CountsTook
<1>3. SumFunctionOnSet([x \in Issues |-> calc.excluded[x]], Issues) = SumFunctionOnSet(calc.excluded, Issues)
  <2>1. PICK f : f = [x \in Issues |-> calc.excluded[x]]
    OBVIOUS
  <2>2. \A x \in Issues : f[x] = calc.excluded[x]
    BY <2>1
  <2>3. SumFunctionOnSet(f, Issues) = SumFunctionOnSet(calc.excluded, Issues)
    BY <2>2, IssuesFinite, SumSame
  <2>4. QED
    BY <2>1, <2>3
<1>4. ASSUME NEW i \in AllMoved
      PROVE  calc.moves[i].covered + calc.moves[i].excluded = Cardinality({j \in Period : i \in Indices(rows[j])})
  <2>1. Terms.moves = Moves /\ \A j \in Period : Terms.chosen[rows[j]] = Indices(rows[j])
    BY <1>1, CoveredIs DEF Terms, Repricing
  <2>2. Chosen(Terms, rows, Period, i) = {j \in Period : i \in Indices(rows[j])}
    BY <2>1 DEF Chosen
  <2>3. QED
    BY <1>2, <2>1, <2>2 DEF AllMoved
<1>5. calc.covered + SumFunctionOnSet([x \in Issues |-> calc.excluded[x]], Issues) = source.rows
  BY <1>1, <1>2, <1>3
<1>6. Routing => /\ calc.covered <= served["all"]["identity"]
                 /\ SumFunctionOnSet([y \in {"chat", "pass", "other"} |-> served[y]["rows"]], {"chat", "pass", "other"})
                    = source.rows
  BY <1>1 DEF Types
<1>7. QED
  BY <1>1, <1>4, <1>5, <1>6 DEF EveryRowPlaced, Total

\* Higher rates charge more.
LEMMA ChargedMore ==
    ASSUME NEW x, TermsOK(x), NEW c, CalcOK(x, c), NEW y \in Tariffs(x), NEW z \in Tariffs(x),
           \A i \in DOMAIN x.moves : /\ y[i].model = z[i].model /\ y[i].input = z[i].input
                                     /\ \A w \in Bins : y[i].rate[w] <= z[i].rate[w]
    PROVE  Charged(x, c, y) <= Charged(x, c, z)
<1> DEFINE f == [i \in DOMAIN x.moves |-> Held(x, c, y, i)]
           g == [i \in DOMAIN x.moves |-> Held(x, c, z, i)]
<1>1. ASSUME NEW i \in DOMAIN x.moves PROVE f[i] \in Int /\ g[i] \in Int /\ f[i] <= g[i]
  <2>1. Held(x, c, y, i) \in Nat /\ Held(x, c, z, i) \in Nat
    BY HeldType
  <2>2. /\ y[i].model \in DOMAIN Prices /\ y[i].input \in Nat /\ x.moves[i].ratio \in Nat
        /\ \A w \in Bins : y[i].rate[w] \in Nat /\ z[i].rate[w] \in Nat
    BY TariffType
  <2>3. PICK B : B = c.moves[i].buckets
    OBVIOUS
  <2>4. BinsOK(B) /\ DOMAIN B \subseteq Bins
    BY <2>3, BinsFinite DEF CalcOK
  <2>5. PICK model, input, low, high : /\ model = y[i].model /\ input = y[i].input
                                       /\ low = y[i].rate /\ high = z[i].rate
    OBVIOUS
  <2>6. model \in DOMAIN Prices /\ input \in Nat /\ z[i].model = model /\ z[i].input = input
    BY <2>2, <2>5
  <2>7. \A w \in DOMAIN B : low[w] \in Nat /\ high[w] \in Nat /\ low[w] <= high[w]
    BY <2>2, <2>4, <2>5
  <2>8. BinsCost(B, model, input, low) \in Nat /\ BinsCost(B, model, input, high) \in Nat
    BY <2>4, <2>6, <2>7, BinsCostType
  <2>9. BinsCost(B, model, input, low) <= BinsCost(B, model, input, high)
    BY <2>4, <2>6, <2>7, BinsCostGrows
  <2>10. PICK a, b, k \in Nat : /\ a = BinsCost(B, model, input, low) /\ b = BinsCost(B, model, input, high)
                                /\ k = x.moves[i].ratio
    BY <2>2, <2>8
  <2>11. k * a <= k * b
    BY <2>9, <2>10, ProductGrows
  <2>12. Held(x, c, y, i) = a * k /\ Held(x, c, z, i) = b * k
    BY <2>3, <2>5, <2>6, <2>10 DEF Held
  <2>13. a * k = k * a /\ b * k = k * b
    BY <2>10
  <2>14. Held(x, c, y, i) <= Held(x, c, z, i)
    BY <2>11, <2>12, <2>13
  <2>15. QED
    BY <2>1, <2>14
<1>2. IsFiniteSet(DOMAIN x.moves)
  BY DEF TermsOK
<1>3. Charged(x, c, y) = SumFunctionOnSet(f, DOMAIN x.moves) /\ Charged(x, c, z) = SumFunctionOnSet(g, DOMAIN x.moves)
  BY DEF Charged
<1> HIDE DEF f, g
<1>4. SumFunctionOnSet(f, DOMAIN x.moves) <= SumFunctionOnSet(g, DOMAIN x.moves)
  BY <1>1, <1>2, SumAtMost
<1>5. QED
  BY <1>3, <1>4

\* The bounds of level 2 are in order.
LEMMA BoundsInOrder ==
    ASSUME Repricing, NEW c, CalcOK(Terms, c), NEW v, NEW b \in Bounds, NEW d \in Bounds,
           \A k \in DOMAIN Factors : Factors[k][b] <= Factors[k][d]
    PROVE  Charged(Terms, c, AtTarget(Terms, Rates2(v, b))) <= Charged(Terms, c, AtTarget(Terms, Rates2(v, d)))
<1>1. TermsOK(Terms) /\ Terms.moves = Moves
  BY TermsHold DEF Terms
<1>2. PICK y, z \in Tariffs(Terms) : y = AtTarget(Terms, Rates2(v, b)) /\ z = AtTarget(Terms, Rates2(v, d))
  BY RatesAre
<1>3. ASSUME NEW i \in DOMAIN Terms.moves
      PROVE  /\ y[i].model = z[i].model /\ y[i].input = z[i].input
             /\ \A w \in Bins : y[i].rate[w] <= z[i].rate[w]
  <2>1. PICK low, high : low = Rates2(v, b)[i] /\ high = Rates2(v, d)[i]
    OBVIOUS
  <2>2. /\ y[i] = [model |-> Moves[i].to, input |-> Moves[i].factor, rate |-> low]
        /\ z[i] = [model |-> Moves[i].to, input |-> Moves[i].factor, rate |-> high]
    BY <1>1, <1>2, <2>1 DEF AtTarget
  <2>3. /\ low = [w \in Bins |-> IF FactorKey(i, w, v) \in DOMAIN Factors THEN Factors[FactorKey(i, w, v)][b] ELSE 0]
        /\ high = [w \in Bins |-> IF FactorKey(i, w, v) \in DOMAIN Factors THEN Factors[FactorKey(i, w, v)][d] ELSE 0]
    BY <1>1, <2>1 DEF Rates2
  <2>4. \A w \in Bins : low[w] <= high[w]
    <3>1. TAKE w \in Bins
    <3>2. CASE FactorKey(i, w, v) \in DOMAIN Factors
      <4>1. low[w] = Factors[FactorKey(i, w, v)][b] /\ high[w] = Factors[FactorKey(i, w, v)][d]
        BY <2>3, <3>2
      <4>2. QED
        BY <3>2, <4>1
    <3>3. CASE FactorKey(i, w, v) \notin DOMAIN Factors
      <4>1. low[w] = 0 /\ high[w] = 0
        BY <2>3, <3>3
      <4>2. QED
        BY <4>1
    <3>4. QED
      BY <3>2, <3>3
  <2>5. y[i].rate = low /\ z[i].rate = high /\ y[i].model = z[i].model /\ y[i].input = z[i].input
    BY <2>2
  <2>6. QED
    BY <2>4, <2>5
<1>4. Charged(Terms, c, y) <= Charged(Terms, c, z)
  BY <1>1, <1>3, ChargedMore
<1>5. QED
  BY <1>2, <1>4

\* A scenario never moves more than there is.
LEMMA MovedAtMost == ASSUME RowsOK, WhatIfOK PROVE NeverOvermoved
<1> SUFFICES ASSUME Pricing PROVE NeverOvermoved
  BY DEF NeverOvermoved
<1>1. Repricing /\ Took(Terms, rows, calc, Period)
  BY DEF WhatIfOK, Repricing, Pricing
<1>2. CalcOK(Terms, calc)
  BY <1>1 DEF Took
<1>3. PICK S : S = Charged(Terms, calc, AtSource(Terms))
  OBVIOUS
<1>4. PICK full : full = calc.baseline * Parts
  OBVIOUS
<1>5. ASSUME NEW y \in Tariffs(Terms)
      PROVE  full \in Nat /\ S \in Nat /\ S <= full /\ Charged(Terms, calc, y) \in Nat
  <2>1. PICK P : P = Costed(Terms, rows, Period)
    OBVIOUS
  <2>2. PICK h : h = [j \in P |-> MovedCost(Terms, rows[j], y)]
    OBVIOUS
  <2>3. \A j \in P : h[j] = MovedCost(Terms, rows[j], y)
    BY <2>2
  <2>4. /\ calc.baseline * Parts \in Nat /\ Charged(Terms, calc, y) \in Nat
        /\ Charged(Terms, calc, AtSource(Terms)) \in Nat
        /\ Charged(Terms, calc, AtSource(Terms)) <= calc.baseline * Parts
    BY <1>1, <2>1, <2>3, RecordsCost
  <2>5. QED
    BY <1>3, <1>4, <2>4
<1>6. SumFunctionOnSet([i \in AllMoved |-> Before(calc, i)], AllMoved) = S
  BY <1>1, <1>2, <1>3, BeforeIs DEF AllMoved
<1>7. full \in Nat /\ S \in Nat /\ S <= full
  BY <1>1, <1>5, TariffsAre
<1>8. ASSUME Level2Reported(calc), NEW v \in Variants(calc)
      PROVE  /\ Level2(calc, AllMoved, v, "low") >= full - S
             /\ Level2(calc, AllMoved, v, "low") <= Level2(calc, AllMoved, v, "mean")
             /\ Level2(calc, AllMoved, v, "mean") <= Level2(calc, AllMoved, v, "high")
  <2>1. PICK T : T = DOMAIN Moves
    OBVIOUS
  <2>2. T \in SUBSET DOMAIN Moves /\ Unused(calc, T) /\ AllMoved = T
    BY <2>1 DEF Unused, AllMoved
  <2>3. \A i \in T : Available(calc, i, v)
    BY <1>8, <2>2 DEF Level2Reported
  <2>4. ASSUME NEW b \in Bounds
        PROVE  /\ Level2(calc, AllMoved, v, b) = full + (Charged(Terms, calc, AtTarget(Terms, Rates2(v, b))) - S)
               /\ Charged(Terms, calc, AtTarget(Terms, Rates2(v, b))) \in Nat
    <3>1. Level2(calc, T, v, b) = calc.baseline * Parts
                                  + (Charged(Terms, calc, AtTarget(Terms, Rates2(v, b))) - Charged(Terms, calc, AtSource(Terms)))
      BY <1>1, <1>2, <2>2, <2>3, Level2Is
    <3>2. AtTarget(Terms, Rates2(v, b)) \in Tariffs(Terms)
      BY <1>1, RatesAre
    <3>3. QED
      BY <1>3, <1>4, <1>5, <2>2, <3>1, <3>2
  <2>5. "low" \in Bounds /\ "mean" \in Bounds /\ "high" \in Bounds
    BY DEF Bounds
  <2>6. \A k \in DOMAIN Factors : Factors[k]["low"] <= Factors[k]["mean"] /\ Factors[k]["mean"] <= Factors[k]["high"]
    BY FactorsAre
  <2>7. PICK l, m, h \in Nat : /\ l = Charged(Terms, calc, AtTarget(Terms, Rates2(v, "low")))
                               /\ m = Charged(Terms, calc, AtTarget(Terms, Rates2(v, "mean")))
                               /\ h = Charged(Terms, calc, AtTarget(Terms, Rates2(v, "high")))
    BY <2>4, <2>5
  <2>8. l <= m
    BY <1>1, <1>2, <2>5, <2>6, <2>7, BoundsInOrder
  <2>9. m <= h
    BY <1>1, <1>2, <2>5, <2>6, <2>7, BoundsInOrder
  <2>10. /\ Level2(calc, AllMoved, v, "low") = full + (l - S) /\ Level2(calc, AllMoved, v, "mean") = full + (m - S)
         /\ Level2(calc, AllMoved, v, "high") = full + (h - S)
    BY <2>4, <2>5, <2>7
  <2>11. QED
    BY <1>7, <2>8, <2>9, <2>10
<1>9. QED
  BY <1>4, <1>6, <1>7, <1>8 DEF NeverOvermoved, Total

\* The failed records that were priced are those that the child holds.
LEMMA FailedTook ==
    ASSUME RowsOK, WhatIfOK, Pricing, failures # NoId
    PROVE  /\ Took(Terms, rows, failures, FailedIn) /\ Costed(Terms, rows, FailedIn) = FailedIn
           /\ Took(Terms, rows, calc, Period) /\ Costed(Terms, rows, Period) = Covered
           /\ FailedIn \in SUBSET Covered /\ IsFiniteSet(Covered) /\ IsFiniteSet(FailedIn)
           /\ \A j \in Covered : rows[j] \in Stream /\ Terms.issue[rows[j]] = Blank
<1>1. Took(Terms, rows, failures, FailedIn) /\ Took(Terms, rows, calc, Period)
  BY DEF WhatIfOK
<1>2. /\ Costed(Terms, rows, Period) = Covered /\ Covered \in SUBSET Period /\ Period \in SUBSET DOMAIN rows
      /\ FailedIn \in SUBSET Covered /\ IsFiniteSet(Covered) /\ IsFiniteSet(FailedIn)
      /\ \A i \in DOMAIN rows : rows[i] \in Stream
  BY CoveredIs
<1>3. \A j \in Covered : rows[j] \in Stream /\ Terms.issue[rows[j]] = Blank
  BY <1>2 DEF Costed
<1>4. Costed(Terms, rows, FailedIn) = FailedIn
  BY <1>2, <1>3 DEF Costed
<1>5. QED
  BY <1>1, <1>2, <1>3, <1>4

\* The child counts them, excludes none, and costs no more than the parent.
LEMMA ChildCounts ==
    ASSUME RowsOK, WhatIfOK, Pricing, failures # NoId
    PROVE  /\ failures.covered = Cardinality(FailedIn) /\ failures.baseline <= calc.baseline
           /\ \A x \in Issues : failures.excluded[x] = 0
<1>1. /\ Took(Terms, rows, failures, FailedIn) /\ Costed(Terms, rows, FailedIn) = FailedIn
      /\ Took(Terms, rows, calc, Period) /\ Costed(Terms, rows, Period) = Covered
      /\ FailedIn \in SUBSET Covered /\ IsFiniteSet(Covered) /\ IsFiniteSet(FailedIn)
      /\ \A j \in Covered : rows[j] \in Stream /\ Terms.issue[rows[j]] = Blank
  BY FailedTook
<1>2. TermsOK(Terms)
  BY TermsHold DEF Repricing, Pricing
<1>3. failures.covered = Cardinality(FailedIn)
      /\ \A e \in Issues : failures.excluded[e] # 0 => \E j \in FailedIn : Terms.issue[rows[j]] = e
  BY <1>1 DEF Took, CountsTook
<1>4. \A x \in Issues : failures.excluded[x] = 0
  BY <1>1, <1>3, IssuesFinite
<1>5. failures.baseline <= calc.baseline
  <2> DEFINE f == [j \in FailedIn |-> Own(Terms, rows[j])]
             g == [j \in Covered |-> Own(Terms, rows[j])]
  <2>1. failures.baseline = SumFunctionOnSet(f, FailedIn) /\ calc.baseline = SumFunctionOnSet(g, Covered)
    BY <1>1 DEF Took, CostsTook
  <2>2. ASSUME NEW j \in Covered PROVE g[j] \in Nat
    <3>1. PICK row \in Stream : row = rows[j]
      BY <1>1
    <3>2. Terms.issue[row] = Blank
      BY <1>1, <3>1
    <3>3. Fits(row) /\ Terms.model[row] \in DOMAIN Prices /\ Unit \in Nat
      BY <1>2, <3>2, RowTerms, MovesType DEF Repricing, Pricing
    <3>4. Own(Terms, row) \in Nat
      BY <3>3, CostParts DEF Own
    <3>5. QED
      BY <3>1, <3>4
  <2>3. \A j \in FailedIn : f[j] = g[j]
    BY <1>1
  <2> HIDE DEF f, g
  <2>4. SumFunctionOnSet(f, FailedIn) = SumFunctionOnSet(g, FailedIn)
    BY <1>1, <2>3, SumSame
  <2>5. SumFunctionOnSet(g, FailedIn) <= SumFunctionOnSet(g, Covered)
    BY <1>1, <2>2, SumPart
  <2>6. QED
    BY <2>1, <2>4, <2>5
<1>6. QED
  BY <1>3, <1>4, <1>5

\* The moves of the child that have no records hold nothing.
LEMMA ChildMoves ==
    ASSUME RowsOK, WhatIfOK, Pricing, failures # NoId
    PROVE  FailedMoves \in SUBSET DOMAIN Moves /\ Unused(failures, FailedMoves)
           /\ \A i \in DOMAIN Moves : DOMAIN failures.moves[i].buckets \subseteq DOMAIN calc.moves[i].buckets
<1>1. /\ Took(Terms, rows, failures, FailedIn) /\ Costed(Terms, rows, FailedIn) = FailedIn
      /\ Took(Terms, rows, calc, Period) /\ Costed(Terms, rows, Period) = Covered
      /\ FailedIn \in SUBSET Covered
  BY FailedTook
<1>2. FailedIn \in SUBSET Period
  BY CoveredIs
<1>3. Terms.moves = Moves
  BY DEF Terms
<1>4. CalcOK(Terms, failures)
  BY <1>1 DEF Took
<1>5. \A i \in DOMAIN Moves : failures.moves[i].covered \in Nat
  <2>1. /\ failures.moves \in Seq([covered: Nat, excluded: Nat, buckets: Buckets])
        /\ DOMAIN failures.moves = DOMAIN Moves
    BY <1>3, <1>4 DEF CalcOK, Calculators
  <2>2. PICK U : U = [covered: Nat, excluded: Nat, buckets: Buckets]
    OBVIOUS
  <2>3. PICK q \in Seq(U) : q = failures.moves
    BY <2>1, <2>2
  <2>4. \A i \in DOMAIN q : q[i] \in U
    OBVIOUS
  <2>5. \A u \in U : u.covered \in Nat
    BY <2>2
  <2>6. QED
    BY <2>1, <2>3, <2>4, <2>5
<1>6. \A i \in DOMAIN Moves :
         /\ failures.moves[i].covered = 0 => DOMAIN failures.moves[i].buckets = {}
         /\ DOMAIN failures.moves[i].buckets
            = {Terms.workload[rows[j]] : j \in FailedIn \cap Chosen(Terms, rows, FailedIn, i)}
         /\ DOMAIN calc.moves[i].buckets
            = {Terms.workload[rows[j]] : j \in Covered \cap Chosen(Terms, rows, Period, i)}
  BY <1>1, <1>3 DEF Took, CountsTook
<1>7. Unused(failures, FailedMoves)
  BY <1>5, <1>6 DEF Unused, FailedMoves, AllMoved
<1>8. ASSUME NEW i \in DOMAIN Moves
      PROVE  DOMAIN failures.moves[i].buckets \subseteq DOMAIN calc.moves[i].buckets
  <2>1. FailedIn \cap Chosen(Terms, rows, FailedIn, i) \subseteq Covered \cap Chosen(Terms, rows, Period, i)
    BY <1>1, <1>2 DEF Chosen
  <2>2. QED
    BY <1>6, <2>1
<1>9. QED
  BY <1>7, <1>8 DEF FailedMoves, AllMoved

\* Priced failures are a part of the totals.
LEMMA FailuresWithin == ASSUME RowsOK, WhatIfOK PROVE FailuresArePart
<1> SUFFICES ASSUME Pricing PROVE FailuresArePart
  BY DEF FailuresArePart
<1>1. (failures = NoId) = (FailedIn = {}) /\ Repricing
  BY DEF WhatIfOK, Repricing, Pricing
<1>2. ASSUME failures # NoId
      PROVE  /\ failures.covered = Cardinality(FailedIn) /\ failures.baseline <= calc.baseline
             /\ \A x \in Issues : failures.excluded[x] = 0
             /\ Level1(failures, FailedMoves)
                = SumFunctionOnSet([i \in FailedIn |-> Repriced(rows[i], [m \in AllMoved |-> Unit])], FailedIn)
             /\ Level2Reported(calc) => \A v \in Variants(calc) :
                  /\ \A i \in FailedMoves : Available(failures, i, v)
                  /\ \A b \in Bounds : Level2(failures, FailedMoves, v, b) <= Level2(calc, AllMoved, v, b)
  <2>1. /\ Took(Terms, rows, failures, FailedIn) /\ Costed(Terms, rows, FailedIn) = FailedIn
        /\ Took(Terms, rows, calc, Period) /\ Costed(Terms, rows, Period) = Covered
        /\ FailedIn \in SUBSET Covered /\ IsFiniteSet(Covered) /\ IsFiniteSet(FailedIn)
    BY <1>2, FailedTook
  <2>2. /\ FailedMoves \in SUBSET DOMAIN Moves /\ Unused(failures, FailedMoves)
        /\ \A i \in DOMAIN Moves : DOMAIN failures.moves[i].buckets \subseteq DOMAIN calc.moves[i].buckets
    BY <1>2, ChildMoves
  <2>3. PICK T : T = DOMAIN Moves
    OBVIOUS
  <2>4. T \in SUBSET DOMAIN Moves /\ Unused(calc, T) /\ AllMoved = T
    BY <2>3 DEF Unused, AllMoved
  <2>5. Level1(failures, FailedMoves)
        = SumFunctionOnSet([i \in FailedIn |-> Repriced(rows[i], [m \in AllMoved |-> Unit])], FailedIn)
    BY <1>1, <2>1, <2>2, LevelOnePriced
  <2>6. ASSUME Level2Reported(calc), NEW v \in Variants(calc)
        PROVE  /\ \A i \in FailedMoves : Available(failures, i, v)
               /\ \A b \in Bounds : Level2(failures, FailedMoves, v, b) <= Level2(calc, AllMoved, v, b)
    <3>1. \A i \in T : Available(calc, i, v)
      BY <2>4, <2>6 DEF Level2Reported
    <3>2. \A i \in FailedMoves : Available(failures, i, v)
      BY <2>2, <2>3, <3>1 DEF Available
    <3>3. ASSUME NEW b \in Bounds
          PROVE  Level2(failures, FailedMoves, v, b) <= Level2(calc, AllMoved, v, b)
      <4> DEFINE f == OwnCosts(rows, FailedIn, v, b)
                 g == OwnCosts(rows, Covered, v, b)
      <4>1. Level2(failures, FailedMoves, v, b) = SumFunctionOnSet(f, FailedIn)
        BY <1>1, <2>1, <2>2, <3>2, LevelTwoPriced
      <4>2. Level2(calc, T, v, b) = SumFunctionOnSet(g, Covered)
        BY <1>1, <2>1, <2>4, <3>1, LevelTwoPriced
      <4>3. \A j \in Covered : g[j] \in Nat
        BY <1>1, <2>1, <2>4, <3>1, LevelTwoPriced
      <4>4. \A j \in FailedIn : f[j] = g[j]
        BY <2>1 DEF OwnCosts
      <4> HIDE DEF f, g
      <4>5. SumFunctionOnSet(f, FailedIn) = SumFunctionOnSet(g, FailedIn)
        BY <2>1, <4>4, SumSame
      <4>6. SumFunctionOnSet(g, FailedIn) <= SumFunctionOnSet(g, Covered)
        BY <2>1, <4>3, SumPart
      <4>7. QED
        BY <2>4, <4>1, <4>2, <4>5, <4>6
    <3>4. QED
      BY <3>2, <3>3
  <2>7. failures.covered = Cardinality(FailedIn) /\ failures.baseline <= calc.baseline
        /\ \A x \in Issues : failures.excluded[x] = 0
    BY <1>2, ChildCounts
  <2>8. QED
    BY <2>5, <2>6, <2>7
<1>3. FailedIn = {i \in Covered : rows[i].status = "failure"} /\ Bounds = {"low", "mean", "high"}
  BY DEF FailedIn, Bounds
<1>4. QED
  BY <1>1, <1>2, <1>3 DEF FailuresArePart, Total

\* Where what-if prices, WhatIfOK holds.
LEMMA WhatIfHolds ==
    /\ Init => RowsOK /\ WhatIfOK
    /\ RowsOK /\ WhatIfOK /\ [Next]_vars => (RowsOK /\ WhatIfOK)'
<1>1. Init => RowsOK /\ WhatIfOK
  BY RowsNext, WhatIfInitial
<1>2. RowsOK /\ WhatIfOK /\ [Next]_vars => (RowsOK /\ WhatIfOK)'
  BY RowsNext, WhatIfNext
<1>3. QED
  BY <1>1, <1>2

\* For every export, all prices, factors and moves, in each state: the totals
\* that are kept per move and workload are what the records cost by themselves,
\* at both levels, and each row of the period is priced or excluded once.
THEOREM EveryRowIsPriced == Spec => []EveryRowPriced
<1>1. RowsOK /\ WhatIfOK => EveryRowPriced
  BY PerRecord, RowsPlaced DEF EveryRowPriced
<1>2. QED
  BY <1>1, WhatIfHolds, PTL DEF Spec

\* For every export, all prices, factors and moves, in each state: what moves is
\* within the baseline, no repriced total falls below what stays, and the
\* bounds of level 2 are in order.
THEOREM NothingIsOvermoved == Spec => []NeverOvermoved
<1>1. RowsOK /\ WhatIfOK => NeverOvermoved
  BY MovedAtMost
<1>2. QED
  BY <1>1, WhatIfHolds, PTL DEF Spec

\* For every export, all prices, factors and moves, in each state: the second
\* calculator holds exactly the failed records that were priced, and whenever
\* the parent reports a level it reports it too, within the parent's.
THEOREM FailuresAreAPart == Spec => []FailuresArePart
<1>1. RowsOK /\ WhatIfOK => FailuresArePart
  BY FailuresWithin
<1>2. QED
  BY <1>1, WhatIfHolds, PTL DEF Spec
=============================================================================
