----------------------- MODULE SpendInvestigationProofs -----------------------
(***************************************************************************)
(* The safety of SpendInvestigation for every file, all options and        *)
(* limits, every purge of the sketches, and whatever other programs do to  *)
(* the file between and during the passes.                                 *)
(***************************************************************************)
EXTENDS SpendInvestigation, SumLemmas

(* What an analysis that reads a SpendFile may rely on: the record it visits *)
(* is a whole one, other programs keep a file a file, and a pass over a file *)
(* that nobody changes reads the file.                                       *)

\* Indices of records form finite sets.
LEMMA IndicesFinite ==
    ASSUME NEW rows \in Seq(Rows), NEW I \in SUBSET DOMAIN rows
    PROVE  IsFiniteSet(I)
<1>1. DOMAIN rows = 1..Len(rows) /\ Len(rows) \in Nat
  OBVIOUS
<1>2. IsFiniteSet(1..Len(rows))
  BY <1>1, FS_Interval
<1>3. QED
  BY <1>1, <1>2, FS_Subset

\* The record a pass visits is a whole one within the row limit.
LEMMA VisitedRow ==
    ASSUME FileTypeOK, HasRow, ~Unreadable
    PROVE  NextRow \in Rows /\ pos < MaxRows /\ pos \in Nat /\ pos + 1 \in 1..Len(Content)
<1>1. Content \in Seq(Rows \cup {Torn})
  BY DEF Content, FileTypeOK
<1>2. MaxRows \in Nat /\ pos \in Nat /\ pos <= MaxRows /\ pos # MaxRows /\ pos < Len(Content)
  BY SpendFileAssumption DEF FileTypeOK, HasRow, Unreadable
<1>3. pos + 1 \in 1..Len(Content)
  BY <1>1, <1>2
<1>4. QED
  BY <1>1, <1>2, <1>3 DEF NextRow, HasRow, Unreadable

\* Other programs keep a file a file, and move no pass.
LEMMA WriterKeepsFile ==
    ASSUME FileTypeOK, Writer
    PROVE  FileTypeOK' /\ pos' = pos /\ (fd' = "closed" <=> fd = "closed")
<1>1. WrittenRows \subseteq Rows /\ Changing \subseteq Seq(Rows \cup {Torn}) /\ MaxWrites \in Nat
  BY SpendFileAssumption
<1>2. file \in Seq(Rows \cup {Torn})
  BY DEF FileTypeOK
<1>3. file' \in Seq(Rows \cup {Torn}) /\ old' \in Seq(Rows \cup {Torn})
      /\ fd' \in {"closed", "path", "old"} /\ (fd' = "closed" <=> fd = "closed")
  <2>1. CASE Append1
    BY <1>1, <1>2, <2>1 DEF Append1, FileTypeOK
  <2>2. CASE Rewrite
    BY <1>1, <1>2, <2>2 DEF Rewrite, FileTypeOK
  <2>3. CASE Truncate
    BY <1>1, <1>2, <2>3 DEF Truncate, FileTypeOK
  <2>4. CASE Replace
    BY <1>1, <1>2, <2>4 DEF Replace, FileTypeOK
  <2>5. QED
    BY <2>1, <2>2, <2>3, <2>4 DEF Writer
<1>4. changes' \in 0..MaxWrites /\ pos' = pos
  BY <1>1 DEF Writer, FileTypeOK
<1>5. QED
  BY <1>3, <1>4 DEF FileTypeOK

\* Nor does opening, advancing or closing the file spoil it.
LEMMA FileSteps ==
    ASSUME FileTypeOK
    PROVE  /\ OpenFile => FileTypeOK' /\ fd' = "path" /\ pos' = 0
           /\ CloseFile => FileTypeOK' /\ fd' = "closed" /\ pos' = 0
           /\ HasRow /\ ~Unreadable /\ Advance => FileTypeOK' /\ pos' = pos + 1 /\ fd' = fd /\ fd # "closed"
<1>1. MaxRows \in Nat
  BY SpendFileAssumption
<1>2. OpenFile => FileTypeOK' /\ fd' = "path" /\ pos' = 0
  BY <1>1 DEF OpenFile, FileTypeOK
<1>3. CloseFile => FileTypeOK' /\ fd' = "closed" /\ pos' = 0
  BY <1>1 DEF CloseFile, FileTypeOK
<1>4. HasRow /\ ~Unreadable /\ Advance => FileTypeOK' /\ pos' = pos + 1 /\ fd' = fd /\ fd # "closed"
  BY <1>1, VisitedRow DEF Advance, FileTypeOK, HasRow
<1>5. QED
  BY <1>2, <1>3, <1>4

\* At the end of a file a pass has read all of it.
LEMMA AllRead ==
    ASSUME NEW rows \in Seq(Rows), file \in Seq(Rows \cup {Torn}), Begins(rows, file), Len(rows) = pos,
           fd # "old", AtEnd
    PROVE  rows = file
<1>1. Len(rows) = Len(file) /\ Len(rows) \in Nat
  BY DEF AtEnd, Content, Begins
<1>2. \A i \in 1..Len(rows) : rows[i] = file[i]
  BY DEF Begins
<1>3. DOMAIN rows = DOMAIN file
  BY <1>1
<1>4. rows = [i \in 1..Len(rows) |-> rows[i]] /\ file = [i \in 1..Len(rows) |-> file[i]]
  BY <1>1
<1>5. QED
  BY <1>2, <1>4

\* The next record of an unchanged file.
LEMMA NextOfFile ==
    ASSUME NEW rows \in Seq(Rows), file \in Seq(Rows \cup {Torn}), Begins(rows, file), Len(rows) = pos,
           fd # "old", HasRow
    PROVE  NextRow = file[pos + 1] /\ pos + 1 \in DOMAIN file /\ Begins(Append(rows, NextRow), file)
<1>1. PICK n : n = pos + 1
  OBVIOUS
<1>2. Content = file /\ NextRow = file[n] /\ pos < Len(file) /\ pos \in Nat /\ Len(file) \in Nat
  BY <1>1 DEF HasRow, Content, NextRow
<1>3. n \in DOMAIN file
  BY <1>1, <1>2
<1>4. PICK more : more = Append(rows, NextRow)
  OBVIOUS
<1>5. DOMAIN more = 1..n /\ Len(more) = n
  BY <1>1, <1>4
<1>6. \A i \in 1..n : more[i] = file[i]
  <2>1. TAKE i \in 1..n
  <2>2. CASE i = n
    BY <1>1, <1>2, <1>4, <2>2
  <2>3. CASE i # n
    BY <1>1, <1>2, <1>4, <2>3 DEF Begins
  <2>4. QED
    BY <2>2, <2>3
<1>7. QED
  BY <1>1, <1>2, <1>3, <1>4, <1>5, <1>6 DEF Begins
-----------------------------------------------------------------------------

-----------------------------------------------------------------------------
(* What the passes have read, and the periods.                              *)

\* The records of an export have the fields the investigation reads.
LEMMA RowTypes ==
    ASSUME NEW row \in Rows
    PROVE  /\ row.tokens \in Nat /\ row.uncached \in Nat \cup {-1} /\ row.uncached <= row.tokens
           /\ row.t \in {BadTime} \cup Nat /\ row.group \in Groups \cup {NoId} /\ row.model \in Models
           /\ row.type \in STRING /\ row.public \in {NoId} \cup STRING /\ row.whole \in BOOLEAN
  BY InvestigationAssumption DEF RowFields

\* So do their times.
LEMMA TimesFinite ==
    ASSUME NEW rows \in Seq(Rows), NEW I \in SUBSET DOMAIN rows
    PROVE  IsFiniteSet({rows[i].t : i \in I})
<1>1. PICK f : f = [i \in I |-> rows[i].t]
  OBVIOUS
<1>2. {rows[i].t : i \in I} = {f[i] : i \in I}
  BY <1>1
<1>3. IsFiniteSet({f[i] : i \in I})
  BY IndicesFinite, ImageFinite
<1>4. QED
  BY <1>2, <1>3

Timed(rows) == \A i \in DOMAIN rows : rows[i].t \in Nat
Pairs == [Sides -> [start: Nat, end: Nat]]

\* The first and the last time of records.
LEMMA SpanFound ==
    ASSUME NEW rows \in Seq(Rows), Timed(rows), rows # <<>>
    PROVE  /\ Earliest(rows) \in Nat /\ Latest(rows) \in Nat
           /\ \A i \in DOMAIN rows : Earliest(rows) <= rows[i].t /\ rows[i].t <= Latest(rows)
<1>1. PICK T : T = {rows[i].t : i \in DOMAIN rows}
  OBVIOUS
<1>2. DOMAIN rows # {} /\ DOMAIN rows \in SUBSET DOMAIN rows
  <2>1. DOMAIN rows = 1..Len(rows) /\ Len(rows) \in Nat /\ Len(rows) # 0
    OBVIOUS
  <2>2. 1 \in DOMAIN rows
    BY <2>1
  <2>3. QED
    BY <2>2
<1>3. T # {} /\ T \subseteq Nat
  BY <1>1, <1>2 DEF Timed
<1>4. IsFiniteSet(T)
  BY <1>1, <1>2, TimesFinite
<1>5. (\E m \in T : \A x \in T : m <= x) /\ (\E m \in T : \A x \in T : x <= m)
  BY <1>3, <1>4, Extremes
<1>6. /\ Earliest(rows) \in T /\ \A x \in T : Earliest(rows) <= x
      /\ Latest(rows) \in T /\ \A x \in T : x <= Latest(rows)
  <2>1. Earliest(rows) = Min(T) /\ Latest(rows) = Max(T)
    BY <1>1 DEF Earliest, Latest
  <2>2. Min(T) \in T /\ \A x \in T : Min(T) <= x
    BY <1>5 DEF Min
  <2>3. Max(T) \in T /\ \A x \in T : x <= Max(T)
    BY <1>3, <1>5 DEF Max
  <2>4. QED
    BY <2>1, <2>2, <2>3
<1>7. QED
  BY <1>1, <1>3, <1>6

\* Complete days begin and end at times.
LEMMA DaysAreTimes ==
    ASSUME NEW t \in Nat
    PROVE  FloorDay(t) \in Nat /\ CeilDay(t) \in Nat
<1>1. Day \in Nat /\ Day > 0
  BY InvestigationAssumption
<1>2. t \div Day \in Nat
  BY <1>1
<1>3. \A d \in Nat : d * Day \in Nat
  BY <1>1
<1>4. QED
  BY <1>1, <1>2, <1>3 DEF FloorDay, CeilDay

\* The two automatic periods of any records are times, one after the other.
LEMMA AutomaticType ==
    ASSUME NEW rows \in Seq(Rows), Timed(rows), rows # <<>>, NEW p, p = AutomaticPeriods(rows), p # NoId
    PROVE  p \in Pairs /\ p[1].end = p[2].start
<1>1. PICK first, last \in Nat : first = Earliest(rows) /\ last = Latest(rows)
  BY SpanFound
<1>2. CeilDay(first) \in Nat /\ FloorDay(last) \in Nat /\ FloorDay(Now) \in Nat
  BY DaysAreTimes, InvestigationAssumption
<1>3. PICK end \in Nat : end = Smaller(FloorDay(last), FloorDay(Now))
  BY <1>2 DEF Smaller
<1>4. PICK c \in Nat : c = CeilDay(first)
  BY <1>2
<1>5. Week \in Nat
  BY InvestigationAssumption
<1>6. /\ ~(end - c < 2 * Week)
      /\ p = [s \in Sides |-> IF s = 1 THEN [start |-> end - 2 * Week, end |-> end - Week]
                              ELSE [start |-> end - Week, end |-> end]]
  BY <1>1, <1>3, <1>4 DEF AutomaticPeriods
<1>7. end - 2 * Week \in Nat /\ end - Week \in Nat
  BY <1>5, <1>6
<1>8. p[1] = [start |-> end - 2 * Week, end |-> end - Week] /\ p[2] = [start |-> end - Week, end |-> end]
  BY <1>6 DEF Sides
<1>9. QED
  BY <1>6, <1>7, <1>8 DEF Pairs, Sides

\* The options are what the command line allows.
LEMMA OptionTypes ==
    ASSUME opts \in OptionSet
    PROVE  /\ opts.periods \in {NoId} \cup Pairs
           /\ opts.scope # NoId => opts.periods # NoId
           /\ opts.source \in BOOLEAN /\ opts.aliases \in BOOLEAN
  BY InvestigationAssumption DEF OptionFields, Pairs

\* Selected periods are two periods that do not overlap.
LEMMA PeriodType ==
    ASSUME NEW rows \in Seq(Rows), Timed(rows), opts \in OptionSet, NEW p, p = SelectPeriods(rows), p # NoId
    PROVE  p \in Pairs /\ p[1].end <= p[2].start
<1>1. CASE opts.periods # NoId
  BY <1>1, OptionTypes DEF SelectPeriods, ValidPeriods
<1>2. CASE opts.periods = NoId
  <2>1. rows # <<>> /\ p = AutomaticPeriods(rows)
    BY <1>2 DEF SelectPeriods
  <2>2. p \in Pairs /\ p[1].end = p[2].start
    BY <2>1, AutomaticType
  <2>3. p[2].start \in Nat
    BY <2>2 DEF Pairs, Sides
  <2>4. QED
    BY <2>2, <2>3
<1>3. QED
  BY <1>1, <1>2

\* One more record with a time.
LEMMA TimedMore ==
    ASSUME NEW rows \in Seq(Rows), Timed(rows), NEW row \in Rows, row.t # BadTime
    PROVE  /\ Append(rows, row) \in Seq(Rows) /\ Timed(Append(rows, row))
           /\ Len(Append(rows, row)) = Len(rows) + 1 /\ row.t \in Nat
<1>1. row.t \in Nat
  BY RowTypes
<1>2. \A i \in 1..(Len(rows) + 1) : Append(rows, row)[i].t \in Nat
  BY <1>1 DEF Timed
<1>3. QED
  BY <1>1, <1>2 DEF Timed

Chosen == pc \in {"main", "order", "ok", "gap"}
Closed == pc \in {"order", "ok", "gap"}

\* Every pass has encoded as many records as it has visited, and the periods
\* are those of the records that the main pass accumulates, as far as they
\* have been found equal.
ReadOK ==
    /\ FileTypeOK /\ opts \in OptionSet
    /\ pc \in {"span", "main", "order", "ok", "gap", "error"}
    /\ read0 \in Seq(Rows) /\ Len(read0) <= MaxRows /\ Timed(read0)
    /\ read1 \in Seq(Rows) /\ Len(read1) <= MaxRows /\ Timed(read1)
    /\ read2 \in Seq(Rows) /\ Len(read2) <= MaxRows /\ Timed(read2)
    /\ periods \in {NoId} \cup Pairs
    /\ fd = "closed" => pos = 0
    /\ pc = "span" => opts.periods = NoId /\ read1 = <<>> /\ read2 = <<>> /\ Len(read0) = pos
    /\ pc = "main" => read2 = <<>> /\ Len(read1) = pos
    /\ pc = "order" => Len(read2) = pos
    /\ Chosen => periods # NoId
    /\ pc = "main" /\ opts.periods = NoId => periods = SelectPeriods(read0)
    /\ pc = "main" /\ opts.periods # NoId => periods = opts.periods /\ (fd # "closed" => ValidPeriods(opts.periods))
    /\ Closed => periods = SelectPeriods(read1)

\* The first pass starts from nothing.
LEMMA ReadInit == Init => ReadOK
<1>1. SUFFICES ASSUME Init PROVE ReadOK
  OBVIOUS
<1>2. MaxRows \in Nat /\ MaxWrites \in Nat /\ StartFiles \subseteq Seq(Rows \cup {Torn})
  BY SpendFileAssumption
<1>3. <<>> \in Seq(Rows) /\ <<>> \in Seq(Rows \cup {Torn}) /\ Len(<<>>) = 0 /\ Timed(<<>>)
  BY DEF Timed
<1>4. opts \in OptionSet /\ periods = opts.periods /\ opts.periods \in {NoId} \cup Pairs
  BY <1>1, OptionTypes DEF Init
<1>5. QED
  BY <1>1, <1>2, <1>3, <1>4 DEF Init, FileInit, ReadOK, FileTypeOK, Chosen, Closed
\* A verdict keeps what was read.
LEMMA ReadStop == 
    ASSUME ReadOK, NEW v \in {"ok", "order", "gap", "error"}, Stop(v) \/ (pc' = v /\ CloseFile /\
                      UNCHANGED <<opts, read0, read1, read2, periods>>),
           v = "error" \/ (pc = "main" /\ SelectPeriods(read1) = periods /\ v # "error")
             \/ (pc = "order" /\ v = "ok")
    PROVE  ReadOK'
<1>1. /\ pc' = v /\ UNCHANGED <<opts, read0, read1, read2, periods>>
      /\ FileTypeOK' /\ fd' = "closed" /\ pos' = 0
  BY FileSteps DEF ReadOK, Stop
<1>2. SelectPeriods(read1)' = SelectPeriods(read1)
  BY <1>1 DEF SelectPeriods
<1>3. CASE v = "error"
  BY <1>1, <1>3 DEF ReadOK, Chosen, Closed, Timed
<1>4. CASE pc = "main" /\ SelectPeriods(read1) = periods /\ v # "error"
  <2>1. /\ opts' \in OptionSet /\ pc' \in {"ok", "order", "gap"}
        /\ read0' \in Seq(Rows) /\ Len(read0') <= MaxRows /\ Timed(read0')
        /\ read1' \in Seq(Rows) /\ Len(read1') <= MaxRows /\ Timed(read1')
        /\ read2' = <<>> /\ read2' \in Seq(Rows) /\ Len(read2') <= MaxRows /\ Timed(read2')
        /\ periods' \in {NoId} \cup Pairs /\ periods' # NoId /\ Len(read2') = pos'
    BY <1>1, <1>4 DEF ReadOK, Chosen, Timed
  <2>2. QED
    BY <1>1, <1>2, <1>4, <2>1 DEF ReadOK, Chosen, Closed
<1>5. CASE pc = "order" /\ v = "ok"
  BY <1>1, <1>2, <1>5 DEF ReadOK, Chosen, Closed, Timed
<1>6. QED
  BY <1>3, <1>4, <1>5

\* A step of the investigation or of another program keeps all of it.
LEMMA ReadNext == ReadOK /\ [Next]_vars => ReadOK'
<1>1. SUFFICES ASSUME ReadOK, [Next]_vars PROVE ReadOK'
  OBVIOUS
<1>2. FileTypeOK /\ MaxRows \in Nat
  BY <1>1, SpendFileAssumption DEF ReadOK
<1>3. ASSUME Stop("error") PROVE ReadOK'
  BY <1>1, <1>3, ReadStop
<1>4. CASE Open
  <2>1. CASE Stop("error")
    BY <1>3, <2>1
  <2>2. CASE ~Stop("error")
    <3>1. /\ OpenFile /\ UNCHANGED <<opts, pc, read0, read1, read2, periods>>
          /\ ~(pc = "main" /\ SelectPeriods(read0) = NoId)
      BY <1>4, <2>2 DEF Open
    <3>2. FileTypeOK' /\ fd' = "path" /\ pos' = 0 /\ pos = 0
      BY <1>1, <1>2, <3>1, FileSteps DEF OpenFile, ReadOK
    <3>3. SelectPeriods(read0)' = SelectPeriods(read0) /\ SelectPeriods(read1)' = SelectPeriods(read1)
      BY <3>1 DEF SelectPeriods
    <3>4. pc = "main" /\ opts.periods # NoId => ValidPeriods(opts.periods)
      BY <3>1 DEF SelectPeriods
    <3>5. QED
      BY <1>1, <3>1, <3>2, <3>3, <3>4 DEF ReadOK, Chosen, Closed, Timed
  <2>3. QED
    BY <2>1, <2>2
<1>5. CASE ReadFails
  BY <1>3, <1>5 DEF ReadFails
<1>6. CASE VisitSpan
  <2>1. CASE NextRow.t = BadTime
    BY <1>3, <1>6, <2>1 DEF VisitSpan
  <2>2. CASE NextRow.t # BadTime
    <3>1. PICK row : row = NextRow
      OBVIOUS
    <3>2. row \in Rows /\ pos < MaxRows /\ row.t # BadTime
      BY <1>2, <1>6, <2>2, <3>1, VisitedRow DEF VisitSpan, Visiting
    <3>3. /\ read0' = Append(read0, row) /\ Advance /\ pc = "span" /\ pc' = pc
          /\ UNCHANGED <<opts, read1, read2, periods>>
      BY <1>6, <2>2, <3>1 DEF VisitSpan, Visiting
    <3>4. FileTypeOK' /\ pos' = pos + 1 /\ fd' = fd /\ fd # "closed"
      BY <1>2, <1>6, <3>3, FileSteps DEF VisitSpan, Visiting
    <3>5. read0' \in Seq(Rows) /\ Timed(read0') /\ Len(read0') = pos'
      BY <1>1, <3>2, <3>3, <3>4, TimedMore DEF ReadOK
    <3>6. pos' <= MaxRows /\ pos' \in Nat
      BY <1>2, <3>2, <3>4 DEF FileTypeOK
    <3>7. QED
      BY <1>1, <3>3, <3>4, <3>5, <3>6 DEF ReadOK, Timed, Chosen, Closed
  <2>3. QED
    BY <2>1, <2>2
<1>7. CASE EndSpan
  <2>1. CASE SelectPeriods(read0) = NoId
    BY <1>3, <1>7, <2>1 DEF EndSpan
  <2>2. CASE SelectPeriods(read0) # NoId
    <3>1. /\ periods' = SelectPeriods(read0) /\ pc = "span" /\ pc' = "main" /\ CloseFile
          /\ UNCHANGED <<opts, read0, read1, read2>>
      BY <1>7, <2>2 DEF EndSpan
    <3>2. FileTypeOK' /\ fd' = "closed" /\ pos' = 0
      BY <1>2, <3>1, FileSteps
    <3>3. SelectPeriods(read0)' = SelectPeriods(read0)
      BY <3>1 DEF SelectPeriods
    <3>4. SelectPeriods(read0) \in Pairs
      BY <1>1, <2>2, PeriodType DEF ReadOK
    <3>5. QED
      BY <1>1, <2>2, <3>1, <3>2, <3>3, <3>4 DEF ReadOK, Timed, Chosen, Closed
  <2>3. QED
    BY <2>1, <2>2
<1>8. CASE VisitMain
  <2>1. CASE Refused(NextRow)
    BY <1>3, <1>8, <2>1 DEF VisitMain
  <2>2. CASE ~Refused(NextRow)
    <3>1. PICK row : row = NextRow
      OBVIOUS
    <3>2. /\ read1' = Append(read1, row) /\ Advance /\ pc = "main" /\ pc' = pc /\ ~Refused(row)
          /\ UNCHANGED <<opts, read0, read2, periods>>
      BY <1>8, <2>2, <3>1 DEF VisitMain, Visiting
    <3>3. row \in Rows /\ pos < MaxRows /\ row.t # BadTime
      BY <1>2, <1>8, <3>1, <3>2, VisitedRow DEF VisitMain, Visiting, Refused, Invalid
    <3>4. FileTypeOK' /\ pos' = pos + 1 /\ fd' = fd /\ fd # "closed"
      BY <1>2, <1>8, <3>2, FileSteps DEF VisitMain, Visiting
    <3>5. read1' \in Seq(Rows) /\ Timed(read1') /\ Len(read1') = pos'
      BY <1>1, <3>2, <3>3, <3>4, TimedMore DEF ReadOK
    <3>6. pos' <= MaxRows /\ pos' \in Nat
      BY <1>2, <3>3, <3>4 DEF FileTypeOK
    <3>7. SelectPeriods(read0)' = SelectPeriods(read0)
      BY <3>2 DEF SelectPeriods
    <3>8. QED
      BY <1>1, <3>2, <3>4, <3>5, <3>6, <3>7 DEF ReadOK, Timed, Chosen, Closed
  <2>3. QED
    BY <2>1, <2>2
<1>9. CASE EndMain
  <2>1. CASE Duplicated(read1) \/ SpanChanged
    BY <1>3, <1>9, <2>1 DEF EndMain
  <2>2. CASE ~(Duplicated(read1) \/ SpanChanged)
    <3>1. pc = "main" /\ fd # "closed"
      BY <1>9 DEF EndMain, AtEnd
    <3>2. SelectPeriods(read1) = periods
      <4>1. CASE opts.periods = NoId
        BY <1>1, <2>2, <3>1, <4>1 DEF ReadOK, SpanChanged
      <4>2. CASE opts.periods # NoId
        BY <1>1, <3>1, <4>2 DEF ReadOK, SelectPeriods
      <4>3. QED
        BY <4>1, <4>2
    <3>3. PICK v \in {"ok", "order", "gap", "error"} :
             Stop(v) \/ (pc' = v /\ CloseFile /\ UNCHANGED <<opts, read0, read1, read2, periods>>)
      BY <1>9, <2>2 DEF EndMain
    <3>4. QED
      BY <1>1, <3>1, <3>2, <3>3, ReadStop
  <2>3. QED
    BY <2>1, <2>2
<1>10. CASE VisitOrder
  <2>1. CASE NextRow.t = BadTime
    BY <1>3, <1>10, <2>1 DEF VisitOrder
  <2>2. CASE NextRow.t # BadTime
    <3>1. PICK row : row = NextRow
      OBVIOUS
    <3>2. row \in Rows /\ pos < MaxRows /\ row.t # BadTime
      BY <1>2, <1>10, <2>2, <3>1, VisitedRow DEF VisitOrder, Visiting
    <3>3. /\ read2' = Append(read2, row) /\ Advance /\ pc = "order" /\ pc' = pc
          /\ UNCHANGED <<opts, read0, read1, periods>>
      BY <1>10, <2>2, <3>1 DEF VisitOrder, Visiting
    <3>4. FileTypeOK' /\ pos' = pos + 1 /\ fd' = fd /\ fd # "closed"
      BY <1>2, <1>10, <3>3, FileSteps DEF VisitOrder, Visiting
    <3>5. read2' \in Seq(Rows) /\ Timed(read2') /\ Len(read2') = pos'
      BY <1>1, <3>2, <3>3, <3>4, TimedMore DEF ReadOK
    <3>6. pos' <= MaxRows /\ pos' \in Nat
      BY <1>2, <3>2, <3>4 DEF FileTypeOK
    <3>7. SelectPeriods(read1)' = SelectPeriods(read1)
      BY <3>3 DEF SelectPeriods
    <3>8. QED
      BY <1>1, <3>3, <3>4, <3>5, <3>6, <3>7 DEF ReadOK, Timed, Chosen, Closed
  <2>3. QED
    BY <2>1, <2>2
<1>11. CASE EndOrder
  <2>1. PICK v \in {"ok", "error"} : Stop(v) /\ pc = "order"
    BY <1>11 DEF EndOrder
  <2>2. QED
    BY <1>1, <2>1, ReadStop
<1>12. CASE Writer /\ UNCHANGED <<opts, pc, read0, read1, read2, periods>>
  <2>1. FileTypeOK' /\ pos' = pos /\ (fd' = "closed" <=> fd = "closed")
    BY <1>2, <1>12, WriterKeepsFile
  <2>2. SelectPeriods(read0)' = SelectPeriods(read0) /\ SelectPeriods(read1)' = SelectPeriods(read1)
    BY <1>12 DEF SelectPeriods
  <2>3. QED
    BY <1>1, <1>12, <2>1, <2>2 DEF ReadOK, Timed, Chosen, Closed
<1>13. CASE UNCHANGED vars
  <2>1. SelectPeriods(read0)' = SelectPeriods(read0) /\ SelectPeriods(read1)' = SelectPeriods(read1)
    BY <1>13 DEF SelectPeriods, vars
  <2>2. QED
    BY <1>1, <1>13, <2>1 DEF ReadOK, FileTypeOK, Timed, Chosen, Closed, vars, fileVars
<1>14. QED
  BY <1>1, <1>4, <1>5, <1>6, <1>7, <1>8, <1>9, <1>10, <1>11, <1>12, <1>13 DEF Next, Investigation

\* In every state the passes of the investigation have read one sequence of records.
THEOREM PassesAgree == Spec => []ReadOK
  BY ReadInit, ReadNext, PTL DEF Spec
-----------------------------------------------------------------------------
(* The sketches: whatever is purged, counter and error bound enclose the    *)
(* weight that was added.                                                  *)

Sketches == [count: [Groups -> Nat], offset: Nat]
Encloses(s, W) == \A g \in Groups : s.count[g] <= W[g] /\ W[g] <= s.count[g] + s.offset
Load(s) == SumFunctionOnSet(s.count, Groups) + s.offset
Heavier(W, g, w) == [W EXCEPT ![g] = @ + w]



\* AddHash adds, and purges only when there are too many.
LEMMA AddHashCases ==
    ASSUME NEW s \in Sketches, NEW g \in Groups, NEW w \in Nat, NEW t \in AddHash(s, g, w),
           NEW a, a = Added(s, g, w)
    PROVE  \/ t = a /\ Cardinality(Tracked(a)) <= SketchSize
           \/ \E h \in Tracked(a) : t = Purged(a, a.count[h])
<1>1. t \in IF Cardinality(Tracked(a)) <= SketchSize THEN {a}
            ELSE {Purged(a, c) : c \in {a.count[h] : h \in Tracked(a)}}
  BY DEF AddHash
<1>2. QED
  BY <1>1

\* Adding keeps the enclosure; the load grows by the weight.
LEMMA AddingKeeps ==
    ASSUME NEW s \in Sketches, NEW g \in Groups, NEW w \in Nat, NEW a, a = Added(s, g, w),
           NEW W \in [Groups -> Nat], Encloses(s, W), NEW V, V = Heavier(W, g, w)
    PROVE  /\ a \in Sketches /\ Encloses(a, V)
           /\ Load(s) \in Nat /\ Load(a) = Load(s) + w
           /\ Tracked(a) \subseteq Tracked(s) \cup {g}
<1>1. /\ s.count \in [Groups -> Nat] /\ s.offset \in Nat /\ a.offset = s.offset
      /\ a.count = [s.count EXCEPT ![g] = @ + w] /\ a.count \in [Groups -> Nat]
  BY DEF Sketches, Added
<1>2. \A h \in Groups : a.count[h] = IF h = g THEN s.count[h] + w ELSE s.count[h]
  BY <1>1
<1>3. a \in Sketches
  BY <1>1 DEF Sketches, Added
<1>4. Encloses(a, V)
  <2>1. SUFFICES ASSUME NEW h \in Groups
                 PROVE  a.count[h] <= V[h] /\ V[h] <= a.count[h] + a.offset
    BY DEF Encloses
  <2>2. s.count[h] <= W[h] /\ W[h] <= s.count[h] + s.offset /\ W[h] \in Nat /\ s.count[h] \in Nat
    BY <1>1 DEF Encloses
  <2>3. V[h] = IF h = g THEN W[h] + w ELSE W[h]
    BY DEF Heavier
  <2>4. QED
    BY <1>1, <1>2, <2>2, <2>3
<1>5. IsFiniteSet(Groups)
  BY InvestigationAssumption
<1>6. SumFunctionOnSet(s.count, Groups) \in Nat /\ SumFunctionOnSet(a.count, Groups) = SumFunctionOnSet(s.count, Groups) + w
  <2>1. MovesUp(s.count, a.count, Groups, g, w)
    BY <1>1, <1>2 DEF MovesUp
  <2>2. Groups \cup {g} = Groups
    OBVIOUS
  <2>3. QED
    BY <1>5, <2>1, <2>2, SumMove
<1>7. Load(s) \in Nat /\ Load(a) = Load(s) + w
  BY <1>1, <1>6 DEF Load
<1>8. Tracked(a) \subseteq Tracked(s) \cup {g}
  BY <1>2 DEF Tracked
<1>9. QED
  BY <1>3, <1>4, <1>7, <1>8

\* So does a purge by the amount of one of the counters; the load does not
\* grow, and that counter is dropped.
LEMMA PurgingKeeps ==
    ASSUME NEW a \in Sketches, NEW W \in [Groups -> Nat], Encloses(a, W), NEW h \in Tracked(a),
           NEW t, t = Purged(a, a.count[h])
    PROVE  /\ t \in Sketches /\ Encloses(t, W) /\ Load(t) \in Nat /\ Load(t) <= Load(a)
           /\ Tracked(t) \subseteq Tracked(a) \ {h}
<1>1. PICK c : c = a.count[h]
  OBVIOUS
<1>2. /\ a.count \in [Groups -> Nat] /\ a.offset \in Nat /\ h \in Groups /\ c \in Nat /\ c > 0
      /\ t.offset = a.offset + c
      /\ t.count = [x \in Groups |-> IF a.count[x] > c THEN a.count[x] - c ELSE 0]
  BY <1>1 DEF Sketches, Purged, Tracked
<1>3. \A x \in Groups : t.count[x] = IF a.count[x] > c THEN a.count[x] - c ELSE 0
  BY <1>2
<1>4. \A x \in Groups : t.count[x] \in Nat /\ a.count[x] \in Nat /\ t.count[x] <= a.count[x] /\ a.count[x] <= t.count[x] + c
  BY <1>2, <1>3
<1>5. t.count \in [Groups -> Nat] /\ t.offset \in Nat
  BY <1>2, <1>4
<1>6. t \in Sketches
  BY <1>1, <1>5 DEF Sketches, Purged
<1>7. Encloses(t, W)
  <2>1. SUFFICES ASSUME NEW x \in Groups PROVE t.count[x] <= W[x] /\ W[x] <= t.count[x] + t.offset
    BY DEF Encloses
  <2>2. a.count[x] <= W[x] /\ W[x] <= a.count[x] + a.offset /\ W[x] \in Nat
    BY DEF Encloses
  <2>3. QED
    BY <1>2, <1>4, <2>2
<1>8. Tracked(t) \subseteq Tracked(a) \ {h}
  BY <1>1, <1>2, <1>3 DEF Tracked
<1>9. Load(t) \in Nat /\ Load(t) <= Load(a)
  <2>1. PICK G : G = Groups \ {h}
    OBVIOUS
  <2>2. IsFiniteSet(Groups) /\ IsFiniteSet(G) /\ G \subseteq Groups
    BY <2>1, InvestigationAssumption, FS_RemoveElement
  <2>3. t.count[h] = 0
    BY <1>1, <1>2, <1>3
  <2>4. SumFunctionOnSet(t.count, Groups) = 0 + SumFunctionOnSet(t.count, G)
    BY <1>2, <1>4, <2>1, <2>2, <2>3, SumRemove
  <2>5. SumFunctionOnSet(a.count, Groups) = c + SumFunctionOnSet(a.count, G)
    BY <1>1, <1>2, <1>4, <2>1, <2>2, SumRemove
  <2>6. SumFunctionOnSet(t.count, G) \in Nat /\ SumFunctionOnSet(a.count, G) \in Nat
    BY <1>4, <2>2, SumType
  <2>7. SumFunctionOnSet(t.count, G) <= SumFunctionOnSet(a.count, G)
    BY <1>4, <2>2, SumAtMost
  <2>8. QED
    BY <1>2, <2>4, <2>5, <2>6, <2>7 DEF Load
<1>10. QED
  BY <1>6, <1>7, <1>8, <1>9

\* Together: a sketch that takes one more weight.
LEMMA AddHashKeeps ==
    ASSUME NEW s \in Sketches, NEW g \in Groups, NEW w \in Nat, NEW t \in AddHash(s, g, w),
           NEW W \in [Groups -> Nat], Encloses(s, W), Cardinality(Tracked(s)) <= SketchSize
    PROVE  /\ t \in Sketches /\ Encloses(t, Heavier(W, g, w))
           /\ Cardinality(Tracked(t)) <= SketchSize
           /\ Load(s) \in Nat /\ Load(t) \in Nat /\ Load(t) <= Load(s) + w
<1>1. PICK a, V : a = Added(s, g, w) /\ V = Heavier(W, g, w)
  OBVIOUS
<1>2. /\ a \in Sketches /\ Encloses(a, V) /\ Load(s) \in Nat /\ Load(a) = Load(s) + w
      /\ Tracked(a) \subseteq Tracked(s) \cup {g}
  BY <1>1, AddingKeeps
<1>3. V \in [Groups -> Nat]
  BY <1>1 DEF Heavier
<1>4. CASE t = a /\ Cardinality(Tracked(a)) <= SketchSize
  BY <1>1, <1>2, <1>4
<1>5. CASE \E h \in Tracked(a) : t = Purged(a, a.count[h])
  <2>1. PICK h \in Tracked(a) : t = Purged(a, a.count[h])
    BY <1>5
  <2>2. /\ t \in Sketches /\ Encloses(t, V) /\ Load(t) \in Nat /\ Load(t) <= Load(a)
        /\ Tracked(t) \subseteq Tracked(a) \ {h}
    BY <1>2, <1>3, <2>1, PurgingKeeps
  <2>3. IsFiniteSet(Tracked(s)) /\ IsFiniteSet(Tracked(a)) /\ IsFiniteSet(Tracked(t))
    BY InvestigationAssumption, FS_Subset DEF Tracked
  <2>4. Cardinality(Tracked(a)) <= Cardinality(Tracked(s)) + 1
    <3>1. IsFiniteSet(Tracked(s) \cup {g}) /\ Cardinality(Tracked(s) \cup {g}) <= Cardinality(Tracked(s)) + 1
      BY <2>3, CountAtMostMore
    <3>2. Cardinality(Tracked(a)) <= Cardinality(Tracked(s) \cup {g})
      BY <1>2, <3>1, FS_Subset
    <3>3. QED
      BY <2>3, <3>1, <3>2, FS_CardinalityType
  <2>5. Cardinality(Tracked(t)) <= Cardinality(Tracked(a)) - 1
    <3>1. IsFiniteSet(Tracked(a) \ {h}) /\ Cardinality(Tracked(a) \ {h}) = Cardinality(Tracked(a)) - 1
      BY <2>1, <2>3, FS_RemoveElement
    <3>2. Cardinality(Tracked(t)) <= Cardinality(Tracked(a) \ {h})
      BY <2>2, <3>1, FS_Subset
    <3>3. QED
      BY <3>1, <3>2
  <2>6. SketchSize \in Nat /\ Cardinality(Tracked(s)) \in Nat /\ Cardinality(Tracked(a)) \in Nat /\ Cardinality(Tracked(t)) \in Nat
    BY <2>3, InvestigationAssumption, FS_CardinalityType
  <2>7. QED
    BY <1>1, <1>2, <2>2, <2>4, <2>5, <2>6
<1>6. QED
  BY <1>1, <1>4, <1>5, AddHashCases
-----------------------------------------------------------------------------
(* The records that a side, a model, an identity and a ranking count.       *)

SideAt(p, row) == IF In(p[1], row.t) THEN 1 ELSE IF In(p[2], row.t) THEN 2 ELSE 0
MatchedAt(o, row) == o.scope = NoId \/ row.route = o.scope
AnalysedAt(o, p, row) == SideAt(p, row) # 0 /\ MatchedAt(o, row) /\ IsSupported(row)

SideRows(o, p, rows, s) == {i \in DOMAIN rows : AnalysedAt(o, p, rows[i]) /\ SideAt(p, rows[i]) = s}
ModelRows(o, p, rows, m) == {i \in DOMAIN rows : AnalysedAt(o, p, rows[i]) /\ rows[i].model = m}
ModelSideRows(o, p, rows, m, s) == {i \in ModelRows(o, p, rows, m) : SideAt(p, rows[i]) = s}
GroupRows(o, p, rows, g) == {i \in DOMAIN rows : AnalysedAt(o, p, rows[i]) /\ rows[i].group = g}
WeighedRows(o, p, rows, r, s, g) ==
    {i \in GroupRows(o, p, rows, g) : SideAt(p, rows[i]) = s /\ Weight(r, rows[i]) # NoId}
AttributedRows(o, p, rows, s) == {i \in SideRows(o, p, rows, s) : Weight("tokens", rows[i]) # NoId}

\* They are what the model calls by other names.
LEMMA SameRows ==
    ASSUME NEW row, NEW m, NEW g, NEW r, NEW s
    PROVE  /\ Side(row) = SideAt(periods, row) /\ Matched(row) = MatchedAt(opts, row)
           /\ Analysed(row) = AnalysedAt(opts, periods, row)
           /\ MineOf(m) = ModelRows(opts, periods, read1, m)
           /\ OnSide(MineOf(m), s) = ModelSideRows(opts, periods, read1, m, s)
           /\ OfGroup(g) = GroupRows(opts, periods, read1, g)
           /\ Weighed(r, s, g) = WeighedRows(opts, periods, read1, r, s, g)
<1>1. \A x : Side(x) = SideAt(periods, x)
  BY DEF Side, SideAt
<1>2. \A x : Matched(x) = MatchedAt(opts, x)
  BY DEF Matched, MatchedAt
<1>3. \A x : Analysed(x) = AnalysedAt(opts, periods, x)
  BY <1>1, <1>2 DEF Analysed, AnalysedAt
<1>4. MineOf(m) = ModelRows(opts, periods, read1, m)
  BY <1>3 DEF MineOf, ModelRows
<1>5. OnSide(MineOf(m), s) = ModelSideRows(opts, periods, read1, m, s)
  BY <1>1, <1>4 DEF OnSide, ModelSideRows
<1>6. OfGroup(g) = GroupRows(opts, periods, read1, g)
  BY <1>3 DEF OfGroup, GroupRows
<1>7. Weighed(r, s, g) = WeighedRows(opts, periods, read1, r, s, g)
  BY <1>1, <1>6 DEF Weighed, OnSide, WeighedRows
<1>8. QED
  BY <1>1, <1>2, <1>3, <1>4, <1>5, <1>6, <1>7

\* Each is a finite set of positions, empty before anything was read.
LEMMA RowsFinite ==
    ASSUME NEW o, NEW p, NEW rows \in Seq(Rows), NEW s, NEW m, NEW g, NEW r
    PROVE  \A I \in {SideRows(o, p, rows, s), ModelRows(o, p, rows, m), ModelSideRows(o, p, rows, m, s),
                     GroupRows(o, p, rows, g), WeighedRows(o, p, rows, r, s, g), AttributedRows(o, p, rows, s)} :
              I \in SUBSET DOMAIN rows /\ IsFiniteSet(I) /\ (rows = <<>> => I = {})
<1>1. \A I \in {SideRows(o, p, rows, s), ModelRows(o, p, rows, m), ModelSideRows(o, p, rows, m, s),
                GroupRows(o, p, rows, g), WeighedRows(o, p, rows, r, s, g), AttributedRows(o, p, rows, s)} :
          I \in SUBSET DOMAIN rows
  BY DEF SideRows, ModelRows, ModelSideRows, GroupRows, WeighedRows, AttributedRows
<1>2. \A I \in SUBSET DOMAIN rows : IsFiniteSet(I) /\ (rows = <<>> => I = {})
  <2>1. rows = <<>> => DOMAIN rows = {}
    OBVIOUS
  <2>2. QED
    BY <2>1, IndicesFinite
<1>3. QED
  BY <1>1, <1>2

\* more has one more record than rows, the n-th.
OneMore(rows, row, more, n) ==
    rows \in Seq(Rows) /\ row \in Rows /\ more = Append(rows, row) /\ n = Len(rows) + 1

\* S and T differ by n, when P says so.
Joins(T, S, n, P) == T = IF P THEN S \cup {n} ELSE S

\* One more record joins the sets that it belongs to.
LEMMA RowsGrow ==
    ASSUME NEW o, NEW p, NEW rows, NEW row, NEW more, NEW n, OneMore(rows, row, more, n),
           NEW s, NEW m, NEW g, NEW r
    PROVE  /\ Joins(SideRows(o, p, more, s), SideRows(o, p, rows, s), n,
                    AnalysedAt(o, p, row) /\ SideAt(p, row) = s)
           /\ Joins(ModelRows(o, p, more, m), ModelRows(o, p, rows, m), n,
                    AnalysedAt(o, p, row) /\ row.model = m)
           /\ Joins(ModelSideRows(o, p, more, m, s), ModelSideRows(o, p, rows, m, s), n,
                    AnalysedAt(o, p, row) /\ row.model = m /\ SideAt(p, row) = s)
           /\ Joins(GroupRows(o, p, more, g), GroupRows(o, p, rows, g), n,
                    AnalysedAt(o, p, row) /\ row.group = g)
           /\ Joins(WeighedRows(o, p, more, r, s, g), WeighedRows(o, p, rows, r, s, g), n,
                    AnalysedAt(o, p, row) /\ row.group = g /\ SideAt(p, row) = s /\ Weight(r, row) # NoId)
           /\ Joins(AttributedRows(o, p, more, s), AttributedRows(o, p, rows, s), n,
                    AnalysedAt(o, p, row) /\ SideAt(p, row) = s /\ Weight("tokens", row) # NoId)
<1>0. rows \in Seq(Rows) /\ row \in Rows /\ more = Append(rows, row) /\ n = Len(rows) + 1
  BY DEF OneMore
<1>1. /\ DOMAIN more = DOMAIN rows \cup {n} /\ n \notin DOMAIN rows
      /\ more[n] = row /\ \A i \in DOMAIN rows : more[i] = rows[i]
  <2>1. /\ DOMAIN rows = 1..Len(rows) /\ Len(rows) \in Nat /\ DOMAIN more = 1..(Len(rows) + 1)
    BY <1>0
  <2>2. \A i \in 1..Len(rows) : more[i] = rows[i]
    BY <1>0
  <2>3. more[n] = row
    BY <1>0
  <2>4. QED
    BY <1>0, <2>1, <2>2, <2>3
<1>2. Joins(SideRows(o, p, more, s), SideRows(o, p, rows, s), n, AnalysedAt(o, p, row) /\ SideAt(p, row) = s)
  BY <1>1 DEF Joins, SideRows
<1>3. Joins(ModelRows(o, p, more, m), ModelRows(o, p, rows, m), n, AnalysedAt(o, p, row) /\ row.model = m)
  BY <1>1 DEF Joins, ModelRows
<1>4. Joins(ModelSideRows(o, p, more, m, s), ModelSideRows(o, p, rows, m, s), n,
            AnalysedAt(o, p, row) /\ row.model = m /\ SideAt(p, row) = s)
  BY <1>1 DEF Joins, ModelRows, ModelSideRows
<1>5. Joins(GroupRows(o, p, more, g), GroupRows(o, p, rows, g), n, AnalysedAt(o, p, row) /\ row.group = g)
  BY <1>1 DEF Joins, GroupRows
<1>6. Joins(WeighedRows(o, p, more, r, s, g), WeighedRows(o, p, rows, r, s, g), n,
            AnalysedAt(o, p, row) /\ row.group = g /\ SideAt(p, row) = s /\ Weight(r, row) # NoId)
  BY <1>1 DEF Joins, GroupRows, WeighedRows
<1>7. Joins(AttributedRows(o, p, more, s), AttributedRows(o, p, rows, s), n,
            AnalysedAt(o, p, row) /\ SideAt(p, row) = s /\ Weight("tokens", row) # NoId)
  BY <1>1 DEF Joins, SideRows, AttributedRows
<1>8. QED
  BY <1>2, <1>3, <1>4, <1>5, <1>6, <1>7

\* A weight is at most the record's tokens, and that of an identity.
LEMMA WeightType ==
    ASSUME NEW row \in Rows, NEW r \in Rankings, Weight(r, row) # NoId
    PROVE  Weight(r, row) \in Nat /\ Weight(r, row) <= row.tokens /\ row.group \in Groups
  BY RowTypes DEF Weight, Rankings

\* Sums over positions are those of one more record's file, and grow by it.
LEMMA TokensGrow ==
    ASSUME NEW rows, NEW row, NEW more, NEW n, OneMore(rows, row, more, n),
           NEW I, I \in SUBSET DOMAIN rows
    PROVE  /\ TokensOf(rows, I) \in Nat /\ TokensOf(more, I) = TokensOf(rows, I)
           /\ TokensOf(more, I \cup {n}) = TokensOf(rows, I) + row.tokens
<1>0. rows \in Seq(Rows) /\ row \in Rows /\ more = Append(rows, row) /\ n = Len(rows) + 1
  BY DEF OneMore
<1>1. IsFiniteSet(I) /\ n \notin I
  BY <1>0, IndicesFinite
<1>2. PICK f, g, h : /\ f = [i \in I |-> rows[i].tokens] /\ g = [i \in I |-> more[i].tokens]
                     /\ h = [i \in I \cup {n} |-> more[i].tokens]
  OBVIOUS
<1>3. \A i \in I : rows[i] \in Rows /\ more[i] = rows[i]
  BY <1>0
<1>4. \A i \in I : f[i] \in Nat /\ g[i] = f[i] /\ h[i] = f[i]
  BY <1>2, <1>3, RowTypes
<1>5. h[n] = row.tokens /\ row.tokens \in Nat
  <2>1. more[n] = row
    BY <1>0
  <2>2. QED
    BY <1>0, <1>2, <2>1, RowTypes
<1>6. SumFunctionOnSet(f, I) \in Nat
  BY <1>1, <1>4, SumType
<1>7. SumFunctionOnSet(g, I) = SumFunctionOnSet(f, I) /\ SumFunctionOnSet(h, I) = SumFunctionOnSet(f, I)
  BY <1>1, <1>4, SumSame
<1>8. SumFunctionOnSet(h, I \cup {n}) = h[n] + SumFunctionOnSet(h, I)
  <2>1. \A i \in I \cup {n} : h[i] \in Nat
    BY <1>4, <1>5
  <2>2. QED
    BY <1>1, <2>1, SumAdd
<1>9. SumFunctionOnSet(h, I \cup {n}) = SumFunctionOnSet(f, I) + row.tokens
  BY <1>5, <1>6, <1>7, <1>8
<1>10. QED
  BY <1>2, <1>6, <1>7, <1>9 DEF TokensOf

\* So do the weights of a ranking.
LEMMA WeightsGrow ==
    ASSUME NEW rows, NEW row, NEW more, NEW n, OneMore(rows, row, more, n),
           NEW I, I \in SUBSET DOMAIN rows, NEW r \in Rankings,
           \A i \in I : Weight(r, rows[i]) # NoId
    PROVE  /\ WeightOf(r, rows, I) \in Nat /\ WeightOf(r, more, I) = WeightOf(r, rows, I)
           /\ Weight(r, row) # NoId => WeightOf(r, more, I \cup {n}) = WeightOf(r, rows, I) + Weight(r, row)
<1>0. rows \in Seq(Rows) /\ row \in Rows /\ more = Append(rows, row) /\ n = Len(rows) + 1
  BY DEF OneMore
<1>1. IsFiniteSet(I) /\ n \notin I
  BY <1>0, IndicesFinite
<1>2. PICK f, g, h : /\ f = [i \in I |-> Weight(r, rows[i])] /\ g = [i \in I |-> Weight(r, more[i])]
                     /\ h = [i \in I \cup {n} |-> Weight(r, more[i])]
  OBVIOUS
<1>3. \A i \in I : rows[i] \in Rows /\ more[i] = rows[i]
  BY <1>0
<1>4. \A i \in I : f[i] \in Nat /\ g[i] = f[i] /\ h[i] = f[i]
  BY <1>2, <1>3, WeightType
<1>5. h[n] = Weight(r, row) /\ (Weight(r, row) # NoId => Weight(r, row) \in Nat)
  <2>1. more[n] = row
    BY <1>0
  <2>2. QED
    BY <1>0, <1>2, <2>1, WeightType
<1>6. SumFunctionOnSet(f, I) \in Nat
  BY <1>1, <1>4, SumType
<1>7. SumFunctionOnSet(g, I) = SumFunctionOnSet(f, I) /\ SumFunctionOnSet(h, I) = SumFunctionOnSet(f, I)
  BY <1>1, <1>4, SumSame
<1>8. Weight(r, row) # NoId => SumFunctionOnSet(h, I \cup {n}) = SumFunctionOnSet(f, I) + Weight(r, row)
  <2>1. SUFFICES ASSUME Weight(r, row) # NoId
                 PROVE  SumFunctionOnSet(h, I \cup {n}) = SumFunctionOnSet(f, I) + Weight(r, row)
    OBVIOUS
  <2>2. \A i \in I \cup {n} : h[i] \in Nat
    BY <1>4, <1>5, <2>1
  <2>3. SumFunctionOnSet(h, I \cup {n}) = h[n] + SumFunctionOnSet(h, I)
    BY <1>1, <2>2, SumAdd
  <2>4. h[n] \in Nat
    BY <2>2
  <2>5. QED
    BY <1>5, <1>6, <1>7, <2>3, <2>4
<1>9. QED
  BY <1>2, <1>6, <1>7, <1>8 DEF WeightOf
-----------------------------------------------------------------------------
(* The steps, as the accounts see them.                                     *)

accounts == <<opts, read1, windows, sketch, models, owner, split>>

\* The steps that leave the accounts alone: the periods change only while
\* there is nothing to count.
Settled ==
    /\ UNCHANGED accounts /\ UNCHANGED <<tally, callTypes>>
    /\ periods' = periods \/ read1 = <<>>
    /\ incomplete' = incomplete \/ incomplete' = TRUE

\* The main pass takes one more record.
Taken(row) ==
    /\ pc = "main" /\ pc' = "main" /\ periods \in Pairs /\ periods' = periods /\ opts' = opts
    /\ ~Refused(row) /\ row.t \in Nat
    /\ read1' = Append(read1, row) /\ Len(read1) = pos /\ pos < MaxRows
    /\ UNCHANGED <<read0, read2, order, usedBy, file, old, fd, changes>> /\ fd # "closed"
    /\ tally' = [rows |-> tally.rows + 1,
                 outside |-> tally.outside + IF SideAt(periods, row) = 0 THEN 1 ELSE 0,
                 excluded |-> tally.excluded + IF IsSupported(row) THEN 0 ELSE 1,
                 unmatched |-> tally.unmatched
                               + IF SideAt(periods, row) # 0 /\ ~MatchedAt(opts, row) THEN 1 ELSE 0]
    /\ incomplete' = (incomplete \/ (SideAt(periods, row) # 0 /\ MatchedAt(opts, row) /\ ~IsSupported(row)))
    /\ callTypes' = IF SideAt(periods, row) # 0 /\ MatchedAt(opts, row) /\ row.type \notin Range(callTypes)
                    THEN Append(callTypes, row.type) ELSE callTypes
    /\ AnalysedAt(opts, periods, row) => Analyse(row)
    /\ ~AnalysedAt(opts, periods, row) => UNCHANGED <<windows, sketch, models, owner, split>>

\* What the main pass takes is a record of the file, described by Taken.
LEMMA MainTakes ==
    ASSUME ReadOK, VisitMain, ~Refused(NextRow)
    PROVE  \E row \in Rows : row = NextRow /\ Taken(row)
<1>1. PICK row : row = NextRow
  OBVIOUS
<1>2. row \in Rows /\ pos < MaxRows /\ pc = "main" /\ ~Refused(row) /\ fd # "closed"
  BY <1>1, VisitedRow DEF ReadOK, VisitMain, Visiting, HasRow
<1>3. row.t # BadTime /\ row.t \in Nat
  BY <1>2, RowTypes DEF Refused, Invalid
<1>4. Len(read1) = pos /\ periods \in Pairs
  BY <1>2 DEF ReadOK, Chosen
<1>5. /\ Side(row) = SideAt(periods, row) /\ Matched(row) = MatchedAt(opts, row)
      /\ Analysed(row) = AnalysedAt(opts, periods, row)
  BY SameRows
<1>6. /\ read1' = Append(read1, row) /\ Advance
      /\ UNCHANGED <<opts, pc, read0, read2, periods, order, usedBy>>
      /\ IF Analysed(row) THEN Analyse(row) ELSE UNCHANGED <<windows, sketch, models, owner, split>>
  BY <1>1, <1>2 DEF VisitMain
<1>7. /\ tally' = [rows |-> tally.rows + 1,
                   outside |-> tally.outside + (IF ~(Side(row) # 0) THEN 1 ELSE 0),
                   excluded |-> tally.excluded + (IF ~IsSupported(row) THEN 1 ELSE 0),
                   unmatched |-> tally.unmatched + (IF Side(row) # 0 /\ ~Matched(row) THEN 1 ELSE 0)]
      /\ incomplete' = (incomplete \/ ((Side(row) # 0 /\ Matched(row)) /\ ~IsSupported(row)))
      /\ callTypes' = IF (Side(row) # 0 /\ Matched(row)) /\ row.type \notin Range(callTypes)
                      THEN Append(callTypes, row.type) ELSE callTypes
  BY <1>1, <1>2 DEF VisitMain
<1>8. tally' = [rows |-> tally.rows + 1,
                outside |-> tally.outside + IF SideAt(periods, row) = 0 THEN 1 ELSE 0,
                excluded |-> tally.excluded + IF IsSupported(row) THEN 0 ELSE 1,
                unmatched |-> tally.unmatched
                              + IF SideAt(periods, row) # 0 /\ ~MatchedAt(opts, row) THEN 1 ELSE 0]
  BY <1>5, <1>7
<1>9. /\ incomplete' = (incomplete \/ (SideAt(periods, row) # 0 /\ MatchedAt(opts, row) /\ ~IsSupported(row)))
      /\ callTypes' = IF SideAt(periods, row) # 0 /\ MatchedAt(opts, row) /\ row.type \notin Range(callTypes)
                      THEN Append(callTypes, row.type) ELSE callTypes
  BY <1>5, <1>7
<1>10. /\ AnalysedAt(opts, periods, row) => Analyse(row)
       /\ ~AnalysedAt(opts, periods, row) => UNCHANGED <<windows, sketch, models, owner, split>>
  BY <1>5, <1>6
<1>11. UNCHANGED <<file, old, fd, changes>>
  BY <1>6 DEF Advance
<1>12. Taken(row)
  BY <1>2, <1>3, <1>4, <1>6, <1>8, <1>9, <1>10, <1>11 DEF Taken
<1>13. QED
  BY <1>1, <1>2, <1>12

\* Every step is of one of the two kinds.
LEMMA MainSteps ==
    ASSUME ReadOK, [Next]_vars
    PROVE  Settled \/ \E row \in Rows : Taken(row)
<1>1. ASSUME NEW v, Stop(v) PROVE Settled
  BY <1>1 DEF Stop, Settled, accounts, repVars
<1>2. CASE Open
  BY <1>1, <1>2 DEF Open, Settled, accounts, repVars
<1>3. CASE ReadFails
  BY <1>1, <1>3 DEF ReadFails
<1>4. CASE VisitSpan
  BY <1>1, <1>4 DEF VisitSpan, Settled, accounts, repVars
<1>5. CASE EndSpan
  <2>1. read1 = <<>>
    BY <1>5 DEF EndSpan, ReadOK
  <2>2. QED
    BY <1>1, <1>5, <2>1 DEF EndSpan, Settled, accounts, repVars
<1>6. CASE VisitMain
  <2>1. CASE Refused(NextRow)
    BY <1>1, <1>6, <2>1 DEF VisitMain
  <2>2. CASE ~Refused(NextRow)
    BY <1>6, <2>2, MainTakes
  <2>3. QED
    BY <2>1, <2>2
<1>7. CASE EndMain
  BY <1>1, <1>7 DEF EndMain, Settled, accounts
<1>8. CASE VisitOrder
  BY <1>1, <1>8 DEF VisitOrder, Settled, accounts, repVars
<1>9. CASE EndOrder
  BY <1>1, <1>9 DEF EndOrder
<1>10. CASE Writer /\ UNCHANGED <<opts, pc, read0, read1, read2, periods, repVars, order, usedBy>>
  BY <1>10 DEF Settled, accounts, repVars
<1>11. CASE UNCHANGED vars
  BY <1>11 DEF Settled, accounts, repVars, vars
<1>12. QED
  BY <1>2, <1>3, <1>4, <1>5, <1>6, <1>7, <1>8, <1>9, <1>10, <1>11 DEF Next, Investigation
-----------------------------------------------------------------------------
(* The windows are the sums of the analysed records, within the limit.      *)

WindowTypes == [requests: Nat, tokens: Nat, attributed: Nat]

WindowHolds(o, p, rows, w, s) ==
    /\ w \in WindowTypes
    /\ w.requests = Cardinality(SideRows(o, p, rows, s))
    /\ w.tokens = TokensOf(rows, SideRows(o, p, rows, s))
    /\ w.attributed = WeightOf("tokens", rows, AttributedRows(o, p, rows, s))
    /\ w.attributed <= w.tokens /\ w.tokens <= MaxCount

WindowsOK == /\ windows \in [Sides -> WindowTypes]
             /\ \A s \in Sides : WindowHolds(opts, periods, read1, windows[s], s)

\* The sums over no records.
LEMMA NothingRead ==
    ASSUME NEW o, NEW p, NEW s, NEW r, NEW g, NEW m
    PROVE  /\ SideRows(o, p, <<>>, s) = {} /\ ModelRows(o, p, <<>>, m) = {} /\ GroupRows(o, p, <<>>, g) = {}
           /\ WeighedRows(o, p, <<>>, r, s, g) = {} /\ AttributedRows(o, p, <<>>, s) = {}
           /\ TokensOf(<<>>, {}) = 0 /\ WeightOf(r, <<>>, {}) = 0 /\ Cardinality({}) = 0
<1>1. <<>> \in Seq(Rows)
  OBVIOUS
<1>2. /\ SideRows(o, p, <<>>, s) = {} /\ ModelRows(o, p, <<>>, m) = {} /\ GroupRows(o, p, <<>>, g) = {}
      /\ WeighedRows(o, p, <<>>, r, s, g) = {} /\ AttributedRows(o, p, <<>>, s) = {}
  BY <1>1, RowsFinite
<1>3. IsFiniteSet({}) /\ Cardinality({}) = 0
  BY FS_EmptySet
<1>4. \A f : SumFunctionOnSet(f, {}) = 0
  BY <1>3, SumStep
<1>5. TokensOf(<<>>, {}) = 0 /\ WeightOf(r, <<>>, {}) = 0
  BY <1>4 DEF TokensOf, WeightOf
<1>6. QED
  BY <1>2, <1>3, <1>5

\* A window of nothing.
LEMMA WindowEmpty ==
    ASSUME NEW o, NEW p, NEW s, NEW w, w = [requests |-> 0, tokens |-> 0, attributed |-> 0]
    PROVE  WindowHolds(o, p, <<>>, w, s)
<1>1. MaxCount \in Nat
  BY InvestigationAssumption
<1>2. w \in WindowTypes /\ w.requests = 0 /\ w.tokens = 0 /\ w.attributed = 0
  BY DEF WindowTypes
<1>3. /\ SideRows(o, p, <<>>, s) = {} /\ AttributedRows(o, p, <<>>, s) = {}
      /\ TokensOf(<<>>, {}) = 0 /\ WeightOf("tokens", <<>>, {}) = 0 /\ Cardinality({}) = 0
  BY NothingRead
<1>4. QED
  BY <1>1, <1>2, <1>3 DEF WindowHolds

\* What a record adds to the window of its side.
WindowAfter(w, row) ==
    [requests |-> w.requests + 1, tokens |-> w.tokens + row.tokens,
     attributed |-> w.attributed + IF Weight("tokens", row) = NoId THEN 0 ELSE Weight("tokens", row)]

\* A window takes a record of its side, and no other.
LEMMA WindowGrows ==
    ASSUME NEW o, NEW p, NEW rows, NEW row, NEW more, NEW n, OneMore(rows, row, more, n),
           NEW s, NEW w, WindowHolds(o, p, rows, w, s)
    PROVE  /\ ~(AnalysedAt(o, p, row) /\ SideAt(p, row) = s) => WindowHolds(o, p, more, w, s)
           /\ AnalysedAt(o, p, row) /\ SideAt(p, row) = s /\ w.tokens + row.tokens <= MaxCount
                => WindowHolds(o, p, more, WindowAfter(w, row), s)
<1>0. rows \in Seq(Rows) /\ row \in Rows /\ more = Append(rows, row) /\ n = Len(rows) + 1
  BY DEF OneMore
<1>1. PICK I, J, A, B :
         /\ I = SideRows(o, p, rows, s) /\ J = SideRows(o, p, more, s)
         /\ A = AttributedRows(o, p, rows, s) /\ B = AttributedRows(o, p, more, s)
  OBVIOUS
<1>2. /\ Joins(J, I, n, AnalysedAt(o, p, row) /\ SideAt(p, row) = s)
      /\ Joins(B, A, n, AnalysedAt(o, p, row) /\ SideAt(p, row) = s /\ Weight("tokens", row) # NoId)
  BY <1>1, RowsGrow
<1>3. /\ I \in SUBSET DOMAIN rows /\ A \in SUBSET DOMAIN rows /\ IsFiniteSet(I) /\ n \notin I
      /\ \A i \in A : Weight("tokens", rows[i]) # NoId
  <2>1. I \in SUBSET DOMAIN rows /\ A \in SUBSET DOMAIN rows /\ IsFiniteSet(I)
    BY <1>0, <1>1, RowsFinite
  <2>2. n \notin I
    BY <1>0, <2>1
  <2>3. \A i \in A : Weight("tokens", rows[i]) # NoId
    BY <1>1 DEF AttributedRows
  <2>4. QED
    BY <2>1, <2>2, <2>3
<1>4. "tokens" \in Rankings
  BY DEF Rankings
<1>5. /\ TokensOf(more, I) = TokensOf(rows, I) /\ TokensOf(more, I \cup {n}) = TokensOf(rows, I) + row.tokens
      /\ WeightOf("tokens", more, A) = WeightOf("tokens", rows, A)
      /\ Weight("tokens", row) # NoId
            => WeightOf("tokens", more, A \cup {n}) = WeightOf("tokens", rows, A) + Weight("tokens", row)
  <2>1. TokensOf(more, I) = TokensOf(rows, I) /\ TokensOf(more, I \cup {n}) = TokensOf(rows, I) + row.tokens
    BY <1>3, TokensGrow
  <2>2. /\ WeightOf("tokens", more, A) = WeightOf("tokens", rows, A)
        /\ Weight("tokens", row) # NoId
            => WeightOf("tokens", more, A \cup {n}) = WeightOf("tokens", rows, A) + Weight("tokens", row)
    BY <1>3, <1>4, WeightsGrow
  <2>3. QED
    BY <2>1, <2>2
<1>6. Cardinality(I \cup {n}) = Cardinality(I) + 1
  BY <1>3, CountMore
<1>7. /\ w \in WindowTypes /\ w.requests = Cardinality(I) /\ w.tokens = TokensOf(rows, I)
      /\ w.attributed = WeightOf("tokens", rows, A) /\ w.attributed <= w.tokens /\ w.tokens <= MaxCount
  BY <1>1 DEF WindowHolds
<1>8. ASSUME ~(AnalysedAt(o, p, row) /\ SideAt(p, row) = s) PROVE WindowHolds(o, p, more, w, s)
  <2>1. J = I /\ B = A
    BY <1>2, <1>8 DEF Joins
  <2>2. /\ w.requests = Cardinality(J) /\ w.tokens = TokensOf(more, J)
        /\ w.attributed = WeightOf("tokens", more, B)
    BY <1>5, <1>7, <2>1
  <2>3. QED
    BY <1>1, <1>7, <2>2 DEF WindowHolds
<1>9. ASSUME AnalysedAt(o, p, row), SideAt(p, row) = s, w.tokens + row.tokens <= MaxCount
      PROVE  WindowHolds(o, p, more, WindowAfter(w, row), s)
  <2>1. PICK v, d : v = WindowAfter(w, row) /\ d = IF Weight("tokens", row) = NoId THEN 0 ELSE Weight("tokens", row)
    OBVIOUS
  <2>2. J = I \cup {n} /\ B = IF Weight("tokens", row) # NoId THEN A \cup {n} ELSE A
    BY <1>2, <1>9 DEF Joins
  <2>3. d \in Nat /\ d <= row.tokens /\ row.tokens \in Nat
    <3>1. row.tokens \in Nat
      BY <1>0, RowTypes
    <3>2. Weight("tokens", row) # NoId => Weight("tokens", row) \in Nat /\ Weight("tokens", row) <= row.tokens
      BY <1>0, <1>4, WeightType
    <3>3. QED
      BY <2>1, <3>1, <3>2
  <2>4. WeightOf("tokens", more, B) = w.attributed + d
    <3>1. CASE Weight("tokens", row) # NoId
      BY <1>5, <1>7, <2>1, <2>2, <3>1
    <3>2. CASE Weight("tokens", row) = NoId
      <4>1. d = 0 /\ B = A /\ w.attributed \in Nat
        BY <1>7, <2>1, <2>2, <3>2 DEF WindowTypes
      <4>2. QED
        BY <1>5, <1>7, <4>1
    <3>3. QED
      BY <3>1, <3>2
  <2>5. TokensOf(more, J) = w.tokens + row.tokens /\ Cardinality(J) = w.requests + 1
    BY <1>5, <1>6, <1>7, <2>2
  <2>6. /\ v.requests = w.requests + 1 /\ v.tokens = w.tokens + row.tokens /\ v.attributed = w.attributed + d
        /\ w.requests \in Nat /\ w.tokens \in Nat /\ w.attributed \in Nat
    BY <1>7, <2>1 DEF WindowAfter, WindowTypes
  <2>7. v \in WindowTypes
    BY <2>1, <2>3, <2>6 DEF WindowAfter, WindowTypes
  <2>8. v.attributed <= v.tokens /\ v.tokens <= MaxCount
    BY <1>7, <1>9, <2>3, <2>6
  <2>9. WindowHolds(o, p, more, v, s)
    BY <1>1, <2>4, <2>5, <2>6, <2>7, <2>8 DEF WindowHolds
  <2>10. QED
    BY <2>1, <2>9
<1>10. QED
  BY <1>8, <1>9

\* The windows before the first record.
LEMMA WindowsInit == Init => WindowsOK
<1>1. SUFFICES ASSUME Init PROVE WindowsOK
  OBVIOUS
<1>2. read1 = <<>> /\ windows = [s \in Sides |-> [requests |-> 0, tokens |-> 0, attributed |-> 0]]
  BY <1>1 DEF Init
<1>3. [requests |-> 0, tokens |-> 0, attributed |-> 0] \in WindowTypes
  BY DEF WindowTypes
<1>4. windows \in [Sides -> WindowTypes]
  BY <1>2, <1>3
<1>5. \A s \in Sides : WindowHolds(opts, periods, <<>>, windows[s], s)
  BY <1>2, WindowEmpty
<1>6. QED
  BY <1>2, <1>4, <1>5 DEF WindowsOK

\* An analysed record changes the window of its side only.
LEMMA WindowsTake ==
    ASSUME NEW row \in Rows, Taken(row), WindowsOK, AnalysedAt(opts, periods, row), NEW d, d = SideAt(periods, row)
    PROVE  /\ d \in Sides /\ windows' = [windows EXCEPT ![d] = WindowAfter(windows[d], row)]
           /\ windows[d].tokens + row.tokens <= MaxCount
<1>1. d \in Sides
  BY DEF AnalysedAt, SideAt, Sides
<1>2. Side(row) = d /\ Analysed(row)
  BY SameRows
<1>3. windows' = [windows EXCEPT ![d] =
                     [requests |-> @.requests + 1, tokens |-> @.tokens + row.tokens,
                      attributed |-> @.attributed + IF Weight("tokens", row) = NoId THEN 0
                                                    ELSE Weight("tokens", row)]]
  BY <1>2 DEF Taken, Analyse
<1>4. windows' = [windows EXCEPT ![d] = WindowAfter(windows[d], row)]
  BY <1>3 DEF WindowAfter
<1>5. ~(windows[d].tokens + row.tokens > MaxCount)
  BY <1>2 DEF Taken, Refused, TooManyTokens
<1>6. windows[d].tokens \in Nat /\ row.tokens \in Nat /\ MaxCount \in Nat
  BY <1>1, RowTypes, InvestigationAssumption DEF WindowsOK, WindowTypes
<1>7. QED
  BY <1>1, <1>4, <1>5, <1>6

\* Every step keeps the windows right.
LEMMA WindowsNext == ReadOK /\ WindowsOK /\ [Next]_vars => WindowsOK'
<1>1. SUFFICES ASSUME ReadOK, WindowsOK, [Next]_vars PROVE WindowsOK'
  OBVIOUS
<1>2. CASE Settled
  <2>1. CASE periods' = periods
    BY <1>1, <1>2, <2>1 DEF Settled, accounts, WindowsOK
  <2>2. CASE read1 = <<>>
    <3>1. windows' = windows /\ read1' = <<>>
      BY <1>2, <2>2 DEF Settled, accounts
    <3>2. ASSUME NEW s \in Sides PROVE WindowHolds(opts', periods', <<>>, windows[s], s)
      <4>1. WindowHolds(opts, periods, <<>>, windows[s], s)
        BY <1>1, <2>2, <3>2 DEF WindowsOK
      <4>2. /\ SideRows(opts, periods, <<>>, s) = {} /\ AttributedRows(opts, periods, <<>>, s) = {}
            /\ SideRows(opts', periods', <<>>, s) = {} /\ AttributedRows(opts', periods', <<>>, s) = {}
        BY NothingRead
      <4>3. QED
        BY <4>1, <4>2 DEF WindowHolds
    <3>3. QED
      BY <1>1, <3>1, <3>2 DEF WindowsOK
  <2>3. QED
    BY <1>2, <2>1, <2>2 DEF Settled
<1>3. ASSUME NEW row \in Rows, Taken(row) PROVE WindowsOK'
  <2>1. PICK o, p, rows, more, n :
           o = opts /\ p = periods /\ rows = read1 /\ more = Append(rows, row) /\ n = Len(rows) + 1
    OBVIOUS
  <2>2. opts' = o /\ periods' = p /\ read1' = more /\ OneMore(rows, row, more, n)
    BY <1>1, <1>3, <2>1 DEF Taken, ReadOK, OneMore
  <2>3. ASSUME NEW s \in Sides, ~(AnalysedAt(o, p, row) /\ SideAt(p, row) = s)
        PROVE  WindowHolds(o, p, more, windows[s], s)
    <3>1. WindowHolds(o, p, rows, windows[s], s)
      BY <1>1, <2>1 DEF WindowsOK
    <3>2. QED
      BY <2>2, <2>3, <3>1, WindowGrows
  <2>4. CASE ~AnalysedAt(o, p, row)
    <3>1. windows' = windows
      BY <1>3, <2>1, <2>4 DEF Taken
    <3>2. QED
      BY <1>1, <2>2, <2>3, <2>4, <3>1 DEF WindowsOK
  <2>5. CASE AnalysedAt(o, p, row)
    <3>1. PICK d : d = SideAt(p, row)
      OBVIOUS
    <3>2. /\ d \in Sides /\ windows' = [windows EXCEPT ![d] = WindowAfter(windows[d], row)]
          /\ windows[d].tokens + row.tokens <= MaxCount
      BY <1>1, <1>3, <2>1, <2>5, <3>1, WindowsTake
    <3>3. /\ windows \in [Sides -> WindowTypes] /\ WindowHolds(o, p, rows, windows[d], d)
      BY <1>1, <2>1, <3>2 DEF WindowsOK
    <3>4. WindowHolds(o, p, more, WindowAfter(windows[d], row), d)
      BY <2>2, <2>5, <3>1, <3>2, <3>3, WindowGrows
    <3>5. WindowAfter(windows[d], row) \in WindowTypes
      BY <3>4 DEF WindowHolds
    <3>6. /\ windows' \in [Sides -> WindowTypes]
          /\ \A s \in Sides : windows'[s] = IF s = d THEN WindowAfter(windows[d], row) ELSE windows[s]
      BY <3>2, <3>3, <3>5
    <3>7. \A s \in Sides : WindowHolds(o, p, more, windows'[s], s)
      BY <2>3, <3>1, <3>4, <3>6
    <3>8. QED
      BY <2>2, <3>6, <3>7 DEF WindowsOK
  <2>6. QED
    BY <2>4, <2>5
<1>4. QED
  BY <1>1, <1>2, <1>3, MainSteps
-----------------------------------------------------------------------------
(* The sketches enclose the weights of the analysed records.                *)

Weights(o, p, rows, r, s) == [g \in Groups |-> WeightOf(r, rows, WeighedRows(o, p, rows, r, s, g))]

SketchHolds(o, p, rows, k, r, s, limit) ==
    /\ k \in Sketches /\ Encloses(k, Weights(o, p, rows, r, s))
    /\ Cardinality(Tracked(k)) <= SketchSize /\ Load(k) \in Nat /\ Load(k) <= limit

SketchOK == /\ sketch \in [Rankings -> [Sides -> Sketches]]
            /\ \A r \in Rankings, s \in Sides :
                  SketchHolds(opts, periods, read1, sketch[r][s], r, s, windows[s].tokens)

\* A sketch of nothing.
LEMMA SketchEmpty ==
    ASSUME NEW o, NEW p, NEW r, NEW s, NEW k, k = EmptySketch
    PROVE  SketchHolds(o, p, <<>>, k, r, s, 0)
<1>1. k.count = [g \in Groups |-> 0] /\ k.offset = 0 /\ k \in Sketches
  BY DEF EmptySketch, Sketches
<1>2. \A g \in Groups : Weights(o, p, <<>>, r, s)[g] = 0
  BY NothingRead DEF Weights
<1>3. Encloses(k, Weights(o, p, <<>>, r, s))
  BY <1>1, <1>2 DEF Encloses
<1>4. Tracked(k) = {}
  BY <1>1 DEF Tracked
<1>5. Cardinality(Tracked(k)) = 0 /\ SketchSize \in Nat
  BY <1>4, FS_EmptySet, InvestigationAssumption
<1>6. SumFunctionOnSet(k.count, Groups) = 0
  BY <1>1, InvestigationAssumption, SumZero
<1>7. Load(k) = 0
  BY <1>1, <1>6 DEF Load
<1>8. QED
  BY <1>1, <1>3, <1>5, <1>7 DEF SketchHolds

\* V is W with w more for g, when P says so.
Shifts(V, W, P, g, w) == V = IF P THEN Heavier(W, g, w) ELSE W

\* The weights after one more record.
LEMMA WeightsAfter ==
    ASSUME NEW o, NEW p, NEW rows, NEW row, NEW more, NEW n, OneMore(rows, row, more, n),
           NEW r \in Rankings, NEW s
    PROVE  /\ Weights(o, p, rows, r, s) \in [Groups -> Nat]
           /\ Shifts(Weights(o, p, more, r, s), Weights(o, p, rows, r, s),
                     AnalysedAt(o, p, row) /\ SideAt(p, row) = s /\ Weight(r, row) # NoId,
                     row.group, Weight(r, row))
<1> DEFINE W == Weights(o, p, rows, r, s)
<1> HIDE DEF W
<1>0. rows \in Seq(Rows) /\ row \in Rows
  BY DEF OneMore
<1>1. ASSUME NEW g \in Groups
      PROVE  /\ W[g] \in Nat
             /\ ~(AnalysedAt(o, p, row) /\ SideAt(p, row) = s /\ Weight(r, row) # NoId /\ row.group = g)
                   => Weights(o, p, more, r, s)[g] = W[g]
             /\ AnalysedAt(o, p, row) /\ SideAt(p, row) = s /\ Weight(r, row) # NoId /\ row.group = g
                   => Weights(o, p, more, r, s)[g] = W[g] + Weight(r, row)
  <2>1. PICK I, J : I = WeighedRows(o, p, rows, r, s, g) /\ J = WeighedRows(o, p, more, r, s, g)
    OBVIOUS
  <2>2. Joins(J, I, n, AnalysedAt(o, p, row) /\ row.group = g /\ SideAt(p, row) = s /\ Weight(r, row) # NoId)
    BY <2>1, RowsGrow
  <2>3. I \in SUBSET DOMAIN rows
    BY <1>0, <2>1, RowsFinite
  <2>4. \A i \in I : Weight(r, rows[i]) # NoId
    BY <2>1 DEF WeighedRows
  <2>5. /\ WeightOf(r, rows, I) \in Nat /\ WeightOf(r, more, I) = WeightOf(r, rows, I)
        /\ Weight(r, row) # NoId => WeightOf(r, more, I \cup {n}) = WeightOf(r, rows, I) + Weight(r, row)
    BY <2>3, <2>4, WeightsGrow
  <2>6. W[g] = WeightOf(r, rows, I) /\ Weights(o, p, more, r, s)[g] = WeightOf(r, more, J)
    BY <2>1 DEF Weights, W
  <2>7. CASE AnalysedAt(o, p, row) /\ SideAt(p, row) = s /\ Weight(r, row) # NoId /\ row.group = g
    <3>1. J = I \cup {n}
      BY <2>2, <2>7 DEF Joins
    <3>2. QED
      BY <2>5, <2>6, <2>7, <3>1
  <2>8. CASE ~(AnalysedAt(o, p, row) /\ SideAt(p, row) = s /\ Weight(r, row) # NoId /\ row.group = g)
    <3>1. J = I
      BY <2>2, <2>8 DEF Joins
    <3>2. QED
      BY <2>5, <2>6, <2>8, <3>1
  <2>9. QED
    BY <2>7, <2>8
<1>2. /\ W = [g \in Groups |-> W[g]]
      /\ Weights(o, p, more, r, s) = [g \in Groups |-> Weights(o, p, more, r, s)[g]]
  BY DEF Weights, W
<1>3. W \in [Groups -> Nat]
  BY <1>1, <1>2
<1>4. ASSUME ~(AnalysedAt(o, p, row) /\ SideAt(p, row) = s /\ Weight(r, row) # NoId)
      PROVE  Weights(o, p, more, r, s) = W
  <2>1. \A g \in Groups : Weights(o, p, more, r, s)[g] = W[g]
    BY <1>1, <1>4
  <2>2. QED
    BY <1>2, <2>1
<1>5. ASSUME AnalysedAt(o, p, row), SideAt(p, row) = s, Weight(r, row) # NoId
      PROVE  Weights(o, p, more, r, s) = Heavier(W, row.group, Weight(r, row))
  <2>1. PICK h, w : h = row.group /\ w = Weight(r, row)
    OBVIOUS
  <2>2. \A g \in Groups : Weights(o, p, more, r, s)[g] = IF g = h THEN W[g] + w ELSE W[g]
    BY <1>1, <1>5, <2>1
  <2>3. Heavier(W, h, w) = [g \in Groups |-> IF g = h THEN W[g] + w ELSE W[g]]
    BY <1>2, <1>3 DEF Heavier
  <2>4. QED
    BY <1>2, <2>1, <2>2, <2>3
<1>6. Shifts(Weights(o, p, more, r, s), W,
             AnalysedAt(o, p, row) /\ SideAt(p, row) = s /\ Weight(r, row) # NoId, row.group, Weight(r, row))
  BY <1>4, <1>5 DEF Shifts
<1>7. QED
  BY <1>3, <1>6 DEF W

\* A sketch takes the weight of a record of its side, and no other.
LEMMA SketchGrows ==
    ASSUME NEW o, NEW p, NEW rows, NEW row, NEW more, NEW n, OneMore(rows, row, more, n),
           NEW r \in Rankings, NEW s, NEW k, NEW limit \in Nat, SketchHolds(o, p, rows, k, r, s, limit)
    PROVE  /\ ~(AnalysedAt(o, p, row) /\ SideAt(p, row) = s /\ Weight(r, row) # NoId)
                => \A higher \in Nat : limit <= higher => SketchHolds(o, p, more, k, r, s, higher)
           /\ AnalysedAt(o, p, row) /\ SideAt(p, row) = s /\ Weight(r, row) # NoId
                => \A t \in AddHash(k, row.group, Weight(r, row)) :
                      SketchHolds(o, p, more, t, r, s, limit + row.tokens)
<1>0. row \in Rows
  BY DEF OneMore
<1>1. PICK W : W = Weights(o, p, rows, r, s)
  OBVIOUS
<1>2. /\ W \in [Groups -> Nat]
      /\ ~(AnalysedAt(o, p, row) /\ SideAt(p, row) = s /\ Weight(r, row) # NoId)
            => Weights(o, p, more, r, s) = W
      /\ AnalysedAt(o, p, row) /\ SideAt(p, row) = s /\ Weight(r, row) # NoId
            => Weights(o, p, more, r, s) = Heavier(W, row.group, Weight(r, row))
  <2>1. /\ Weights(o, p, rows, r, s) \in [Groups -> Nat]
        /\ Shifts(Weights(o, p, more, r, s), Weights(o, p, rows, r, s),
                  AnalysedAt(o, p, row) /\ SideAt(p, row) = s /\ Weight(r, row) # NoId,
                  row.group, Weight(r, row))
    BY WeightsAfter
  <2>2. QED
    BY <1>1, <2>1 DEF Shifts
<1>3. /\ k \in Sketches /\ Encloses(k, W) /\ Cardinality(Tracked(k)) <= SketchSize
      /\ Load(k) \in Nat /\ Load(k) <= limit
  BY <1>1 DEF SketchHolds
<1>4. ASSUME ~(AnalysedAt(o, p, row) /\ SideAt(p, row) = s /\ Weight(r, row) # NoId),
             NEW higher \in Nat, limit <= higher
      PROVE  SketchHolds(o, p, more, k, r, s, higher)
  <2>1. Load(k) <= higher
    BY <1>3, <1>4
  <2>2. Encloses(k, Weights(o, p, more, r, s))
    BY <1>2, <1>3, <1>4
  <2>3. QED
    BY <1>3, <2>1, <2>2 DEF SketchHolds
<1>5. ASSUME AnalysedAt(o, p, row), SideAt(p, row) = s, Weight(r, row) # NoId,
             NEW t \in AddHash(k, row.group, Weight(r, row))
      PROVE  SketchHolds(o, p, more, t, r, s, limit + row.tokens)
  <2>1. PICK g, w : g = row.group /\ w = Weight(r, row)
    OBVIOUS
  <2>2. g \in Groups /\ w \in Nat /\ w <= row.tokens /\ row.tokens \in Nat
    BY <1>0, <1>5, <2>1, WeightType, RowTypes
  <2>3. /\ t \in Sketches /\ Encloses(t, Heavier(W, g, w)) /\ Cardinality(Tracked(t)) <= SketchSize
        /\ Load(t) \in Nat /\ Load(t) <= Load(k) + w
    BY <1>2, <1>3, <1>5, <2>1, <2>2, AddHashKeeps
  <2>4. Load(t) <= limit + row.tokens
    BY <1>3, <2>2, <2>3
  <2>5. Encloses(t, Weights(o, p, more, r, s))
    BY <1>2, <1>5, <2>1, <2>3
  <2>6. QED
    BY <2>3, <2>4, <2>5 DEF SketchHolds
<1>6. QED
  BY <1>4, <1>5

\* The sketches before the first record.
LEMMA SketchInit == Init => SketchOK
<1>1. SUFFICES ASSUME Init PROVE SketchOK
  OBVIOUS
<1>2. /\ read1 = <<>> /\ sketch = [r \in Rankings |-> [s \in Sides |-> EmptySketch]]
      /\ \A s \in Sides : windows[s].tokens = 0
  BY <1>1 DEF Init
<1>3. EmptySketch \in Sketches
  BY DEF EmptySketch, Sketches
<1>4. sketch \in [Rankings -> [Sides -> Sketches]]
  BY <1>2, <1>3
<1>5. \A r \in Rankings, s \in Sides : SketchHolds(opts, periods, <<>>, sketch[r][s], r, s, 0)
  BY <1>2, SketchEmpty
<1>6. QED
  BY <1>2, <1>4, <1>5 DEF SketchOK

\* An analysed record changes the sketches of its side only.
LEMMA SketchTake ==
    ASSUME NEW row \in Rows, Taken(row), SketchOK, AnalysedAt(opts, periods, row), NEW d, d = SideAt(periods, row)
    PROVE  \A r \in Rankings, s \in Sides :
              /\ ~(d = s /\ Weight(r, row) # NoId) => sketch'[r][s] = sketch[r][s]
              /\ d = s /\ Weight(r, row) # NoId
                   => sketch'[r][s] \in AddHash(sketch[r][s], row.group, Weight(r, row))
<1>1. d \in Sides
  BY DEF AnalysedAt, SideAt, Sides
<1>2. Side(row) = d /\ Analysed(row)
  BY SameRows
<1>3. PICK next \in NextSketches(row) : sketch' = [r \in Rankings |-> [sketch[r] EXCEPT ![d] = next[r]]]
  BY <1>2 DEF Taken, Analyse
<1>4. \A r \in Rankings : next[r] \in IF Weight(r, row) = NoId THEN {sketch[r][d]}
                                      ELSE AddHash(sketch[r][d], row.group, Weight(r, row))
  BY <1>2, <1>3 DEF NextSketches
<1>5. SUFFICES ASSUME NEW r \in Rankings, NEW s \in Sides
               PROVE  /\ ~(d = s /\ Weight(r, row) # NoId) => sketch'[r][s] = sketch[r][s]
                      /\ d = s /\ Weight(r, row) # NoId
                           => sketch'[r][s] \in AddHash(sketch[r][s], row.group, Weight(r, row))
  OBVIOUS
<1>6. sketch[r] \in [Sides -> Sketches]
  BY DEF SketchOK
<1>7. sketch'[r][s] = IF s = d THEN next[r] ELSE sketch[r][s]
  BY <1>3, <1>6
<1>8. QED
  BY <1>4, <1>7

\* Every step keeps the sketches right.
LEMMA SketchNext == ReadOK /\ WindowsOK /\ SketchOK /\ [Next]_vars => SketchOK'
<1>1. SUFFICES ASSUME ReadOK, WindowsOK, SketchOK, [Next]_vars PROVE SketchOK'
  OBVIOUS
<1>2. CASE Settled
  <2>1. CASE periods' = periods
    BY <1>1, <1>2, <2>1 DEF Settled, accounts, SketchOK
  <2>2. CASE read1 = <<>>
    <3>1. sketch' = sketch /\ windows' = windows /\ read1' = <<>>
      BY <1>2, <2>2 DEF Settled, accounts
    <3>2. ASSUME NEW r \in Rankings, NEW s \in Sides
          PROVE  SketchHolds(opts', periods', <<>>, sketch[r][s], r, s, windows[s].tokens)
      <4>1. SketchHolds(opts, periods, <<>>, sketch[r][s], r, s, windows[s].tokens)
        BY <1>1, <2>2, <3>2 DEF SketchOK
      <4>2. \A g \in Groups : /\ WeighedRows(opts, periods, <<>>, r, s, g) = {}
                              /\ WeighedRows(opts', periods', <<>>, r, s, g) = {}
        BY NothingRead
      <4>3. Weights(opts, periods, <<>>, r, s) = Weights(opts', periods', <<>>, r, s)
        BY <4>2 DEF Weights
      <4>4. QED
        BY <4>1, <4>3 DEF SketchHolds
    <3>3. QED
      BY <1>1, <3>1, <3>2 DEF SketchOK
  <2>3. QED
    BY <1>2, <2>1, <2>2 DEF Settled
<1>3. ASSUME NEW row \in Rows, Taken(row) PROVE SketchOK'
  <2>1. PICK o, p, rows, more, n :
           o = opts /\ p = periods /\ rows = read1 /\ more = Append(rows, row) /\ n = Len(rows) + 1
    OBVIOUS
  <2>2. opts' = o /\ periods' = p /\ read1' = more /\ OneMore(rows, row, more, n)
    BY <1>1, <1>3, <2>1 DEF Taken, ReadOK, OneMore
  <2>3. /\ sketch \in [Rankings -> [Sides -> Sketches]]
        /\ \A r \in Rankings, s \in Sides : SketchHolds(o, p, rows, sketch[r][s], r, s, windows[s].tokens)
    BY <1>1, <2>1 DEF SketchOK
  <2>4. \A s \in Sides : windows[s].tokens \in Nat
    BY <1>1 DEF WindowsOK, WindowTypes
  <2>5. CASE ~AnalysedAt(o, p, row)
    <3>1. windows' = windows /\ sketch' = sketch
      BY <1>3, <2>1, <2>5 DEF Taken
    <3>2. \A r \in Rankings, s \in Sides : SketchHolds(o, p, more, sketch[r][s], r, s, windows[s].tokens)
      BY <2>2, <2>3, <2>4, <2>5, SketchGrows
    <3>3. QED
      BY <2>2, <2>3, <3>1, <3>2 DEF SketchOK
  <2>6. CASE AnalysedAt(o, p, row)
    <3>1. PICK d : d = SideAt(p, row)
      OBVIOUS
    <3>2. d \in Sides /\ windows' = [windows EXCEPT ![d] = WindowAfter(windows[d], row)]
      BY <1>1, <1>3, <2>1, <2>6, <3>1, WindowsTake
    <3>3. row.tokens \in Nat
      BY <1>3, RowTypes
    <3>4. \A s \in Sides : windows'[s].tokens = windows[s].tokens + IF s = d THEN row.tokens ELSE 0
      <4>1. windows \in [Sides -> WindowTypes]
        BY <1>1 DEF WindowsOK
      <4>2. WindowAfter(windows[d], row).tokens = windows[d].tokens + row.tokens
        BY DEF WindowAfter
      <4>3. QED
        BY <2>4, <3>2, <4>1, <4>2
    <3>5. \A r \in Rankings, s \in Sides :
             /\ ~(d = s /\ Weight(r, row) # NoId) => sketch'[r][s] = sketch[r][s]
             /\ d = s /\ Weight(r, row) # NoId
                   => sketch'[r][s] \in AddHash(sketch[r][s], row.group, Weight(r, row))
      BY <1>1, <1>3, <2>1, <2>6, <3>1, SketchTake
    <3>6. ASSUME NEW r \in Rankings, NEW s \in Sides
          PROVE  SketchHolds(o, p, more, sketch'[r][s], r, s, windows'[s].tokens)
      <4>1. SketchHolds(o, p, rows, sketch[r][s], r, s, windows[s].tokens)
        BY <2>3
      <4>2. CASE d = s /\ Weight(r, row) # NoId
        <5>1. sketch'[r][s] \in AddHash(sketch[r][s], row.group, Weight(r, row))
          BY <3>5, <4>2
        <5>2. windows'[s].tokens = windows[s].tokens + row.tokens
          BY <3>4, <4>2
        <5>3. windows[s].tokens \in Nat /\ OneMore(rows, row, more, n)
          BY <2>2, <2>4
        <5>4. \A t \in AddHash(sketch[r][s], row.group, Weight(r, row)) :
                 SketchHolds(o, p, more, t, r, s, windows[s].tokens + row.tokens)
          BY <2>6, <3>1, <4>1, <4>2, <5>3, SketchGrows
        <5>5. QED
          BY <5>1, <5>2, <5>4
      <4>3. CASE ~(d = s /\ Weight(r, row) # NoId)
        <5>1. sketch'[r][s] = sketch[r][s]
          BY <3>5, <4>3
        <5>2. windows'[s].tokens \in Nat /\ windows[s].tokens <= windows'[s].tokens
          BY <2>4, <3>3, <3>4
        <5>3. QED
          BY <2>2, <2>4, <3>1, <4>1, <4>3, <5>1, <5>2, SketchGrows
      <4>4. QED
        BY <4>2, <4>3
    <3>7. sketch' \in [Rankings -> [Sides -> Sketches]]
      <4>1. PICK next : sketch' = [r \in Rankings |-> [sketch[r] EXCEPT ![d] = next[r]]]
        <5>1. Side(row) = d /\ Analysed(row)
          BY <2>1, <2>6, <3>1, SameRows
        <5>2. AnalysedAt(opts, periods, row) /\ (AnalysedAt(opts, periods, row) => Analyse(row))
          BY <1>3, <2>1, <2>6 DEF Taken
        <5>3. Analyse(row)
          BY <5>2
        <5>4. \E next \in NextSketches(row) :
                 sketch' = [r \in Rankings |-> [sketch[r] EXCEPT ![Side(row)] = next[r]]]
          BY <5>3 DEF Analyse
        <5>5. QED
          BY <5>1, <5>4
      <4>2. \A r \in Rankings : sketch'[r] = [sketch[r] EXCEPT ![d] = next[r]] /\ sketch[r] \in [Sides -> Sketches]
        BY <2>3, <4>1
      <4>3. \A r \in Rankings, s \in Sides : sketch'[r][s] \in Sketches
        BY <3>6 DEF SketchHolds
      <4>4. \A r \in Rankings : sketch'[r] \in [Sides -> Sketches]
        BY <4>2, <4>3
      <4>5. QED
        BY <4>1, <4>4
    <3>8. QED
      BY <2>2, <3>6, <3>7 DEF SketchOK
  <2>7. QED
    BY <2>5, <2>6
<1>4. QED
  BY <1>1, <1>2, <1>3, MainSteps
-----------------------------------------------------------------------------
(* What is attributed to identities.                                        *)

AttributedTo(o, p, rows, s) == SumFunctionOnSet(Weights(o, p, rows, "tokens", s), Groups)

AttributedOK == \A s \in Sides : windows[s].attributed = AttributedTo(opts, periods, read1, s)

\* Nothing is attributed before the first record.
LEMMA NothingAttributed ==
    ASSUME NEW o, NEW p, NEW s
    PROVE  AttributedTo(o, p, <<>>, s) = 0
<1>1. \A g \in Groups : Weights(o, p, <<>>, "tokens", s)[g] = 0
  BY NothingRead DEF Weights
<1>2. QED
  BY <1>1, InvestigationAssumption, SumZero DEF AttributedTo

AttributedMoves(o, p, rows, row, more, s) ==
    /\ ~(AnalysedAt(o, p, row) /\ SideAt(p, row) = s /\ Weight("tokens", row) # NoId)
         => AttributedTo(o, p, more, s) = AttributedTo(o, p, rows, s)
    /\ AnalysedAt(o, p, row) /\ SideAt(p, row) = s /\ Weight("tokens", row) # NoId
         => AttributedTo(o, p, more, s) = AttributedTo(o, p, rows, s) + Weight("tokens", row)

\* One more record is attributed to its identity.
LEMMA AttributedGrows ==
    ASSUME NEW o, NEW p, NEW rows, NEW row, NEW more, NEW n, OneMore(rows, row, more, n), NEW s
    PROVE  AttributedMoves(o, p, rows, row, more, s)
<1>0. "tokens" \in Rankings /\ row \in Rows /\ IsFiniteSet(Groups)
  BY InvestigationAssumption DEF Rankings, OneMore
<1>1. PICK W, V, g, w : /\ W = Weights(o, p, rows, "tokens", s) /\ V = Weights(o, p, more, "tokens", s)
                        /\ g = row.group /\ w = Weight("tokens", row)
  OBVIOUS
<1>2. /\ Weights(o, p, rows, "tokens", s) \in [Groups -> Nat]
      /\ Shifts(Weights(o, p, more, "tokens", s), Weights(o, p, rows, "tokens", s),
                AnalysedAt(o, p, row) /\ SideAt(p, row) = s /\ Weight("tokens", row) # NoId,
                row.group, Weight("tokens", row))
  BY <1>0, WeightsAfter
<1>3. /\ W \in [Groups -> Nat]
      /\ V = IF AnalysedAt(o, p, row) /\ SideAt(p, row) = s /\ Weight("tokens", row) # NoId
             THEN Heavier(W, g, w) ELSE W
  BY <1>1, <1>2 DEF Shifts
<1>4. CASE ~(AnalysedAt(o, p, row) /\ SideAt(p, row) = s /\ Weight("tokens", row) # NoId)
  BY <1>1, <1>3, <1>4 DEF AttributedTo, AttributedMoves
<1>5. CASE AnalysedAt(o, p, row) /\ SideAt(p, row) = s /\ Weight("tokens", row) # NoId
  <2>1. g \in Groups /\ w \in Nat
    BY <1>0, <1>1, <1>5, WeightType
  <2>2. V = Heavier(W, g, w)
    BY <1>3, <1>5
  <2>3. MovesUp(W, V, Groups, g, w)
    BY <1>3, <2>1, <2>2 DEF MovesUp, Heavier
  <2>4. Groups \cup {g} = Groups
    BY <2>1
  <2>5. SumFunctionOnSet(V, Groups) = SumFunctionOnSet(W, Groups) + w
    BY <1>0, <2>3, <2>4, SumMove
  <2>6. QED
    BY <1>1, <1>5, <2>5 DEF AttributedTo, AttributedMoves
<1>6. QED
  BY <1>4, <1>5

\* Every step keeps what is attributed the sum over the identities.
LEMMA AttributedNext == ReadOK /\ WindowsOK /\ AttributedOK /\ [Next]_vars => AttributedOK'
<1>1. SUFFICES ASSUME ReadOK, WindowsOK, AttributedOK, [Next]_vars PROVE AttributedOK'
  OBVIOUS
<1>2. CASE Settled
  <2>1. CASE periods' = periods
    BY <1>1, <1>2, <2>1 DEF Settled, accounts, AttributedOK
  <2>2. CASE read1 = <<>>
    <3>1. windows' = windows /\ read1' = <<>>
      BY <1>2, <2>2 DEF Settled, accounts
    <3>2. \A s \in Sides : windows[s].attributed = 0
      BY <1>1, <2>2, NothingAttributed DEF AttributedOK
    <3>3. \A s \in Sides : AttributedTo(opts', periods', <<>>, s) = 0
      BY NothingAttributed
    <3>4. QED
      BY <3>1, <3>2, <3>3 DEF AttributedOK
  <2>3. QED
    BY <1>2, <2>1, <2>2 DEF Settled
<1>3. ASSUME NEW row \in Rows, Taken(row) PROVE AttributedOK'
  <2>1. PICK o, p, rows, more, n :
           o = opts /\ p = periods /\ rows = read1 /\ more = Append(rows, row) /\ n = Len(rows) + 1
    OBVIOUS
  <2>2. opts' = o /\ periods' = p /\ read1' = more /\ OneMore(rows, row, more, n)
    BY <1>1, <1>3, <2>1 DEF Taken, ReadOK, OneMore
  <2>3. \A s \in Sides : windows[s].attributed = AttributedTo(o, p, rows, s)
    BY <1>1, <2>1 DEF AttributedOK
  <2>4. SUFFICES ASSUME NEW s \in Sides
                 PROVE  windows'[s].attributed = AttributedTo(o, p, more, s)
    BY <2>2 DEF AttributedOK
  <2>5. PICK a, b : a = AttributedTo(o, p, rows, s) /\ b = AttributedTo(o, p, more, s)
    OBVIOUS
  <2>6. /\ ~(AnalysedAt(o, p, row) /\ SideAt(p, row) = s /\ Weight("tokens", row) # NoId) => b = a
        /\ AnalysedAt(o, p, row) /\ SideAt(p, row) = s /\ Weight("tokens", row) # NoId
             => b = a + Weight("tokens", row)
    <3>1. OneMore(rows, row, more, n)
      BY <2>2
    <3>2. AttributedMoves(o, p, rows, row, more, s)
      BY ONLY <3>1, AttributedGrows
    <3>3. QED
      BY <2>5, <3>2 DEF AttributedMoves
  <2>7. windows \in [Sides -> WindowTypes] /\ a = windows[s].attributed /\ a \in Nat
    BY <1>1, <2>3, <2>5 DEF WindowsOK, WindowTypes
  <2>8. CASE ~AnalysedAt(o, p, row)
    <3>1. windows' = windows
      BY <1>3, <2>1, <2>8 DEF Taken
    <3>2. QED
      BY <2>5, <2>6, <2>7, <2>8, <3>1
  <2>9. CASE AnalysedAt(o, p, row)
    <3>1. PICK d : d = SideAt(p, row)
      OBVIOUS
    <3>2. d \in Sides /\ windows' = [windows EXCEPT ![d] = WindowAfter(windows[d], row)]
      BY <1>1, <1>3, <2>1, <2>9, <3>1, WindowsTake
    <3>3. WindowAfter(windows[d], row).attributed
             = windows[d].attributed + IF Weight("tokens", row) = NoId THEN 0 ELSE Weight("tokens", row)
      BY DEF WindowAfter
    <3>4. CASE d = s
      <4>1. windows'[s].attributed = a + IF Weight("tokens", row) = NoId THEN 0 ELSE Weight("tokens", row)
        BY <2>7, <3>2, <3>3, <3>4
      <4>2. QED
        BY <2>5, <2>6, <2>7, <2>9, <3>1, <3>4, <4>1
    <3>5. CASE d # s
      <4>1. windows'[s].attributed = a
        BY <2>7, <3>2, <3>5
      <4>2. QED
        BY <2>5, <2>6, <3>1, <3>5, <4>1
    <3>6. QED
      BY <3>4, <3>5
  <2>10. QED
    BY <2>8, <2>9
<1>4. QED
  BY <1>1, <1>2, <1>3, MainSteps

\* Windows, sketches and what is attributed, together.
WeighedOK == ReadOK /\ WindowsOK /\ SketchOK /\ AttributedOK

\* They hold in every state.
THEOREM WeighedInvariant == Spec => []WeighedOK
<1>1. Init => AttributedOK
  <2>1. SUFFICES ASSUME Init PROVE AttributedOK
    OBVIOUS
  <2>2. read1 = <<>> /\ \A s \in Sides : windows[s].attributed = 0
    BY <2>1 DEF Init
  <2>3. QED
    BY <2>2, NothingAttributed DEF AttributedOK
<1>2. Init => WeighedOK
  BY <1>1, ReadInit, WindowsInit, SketchInit DEF WeighedOK
<1>3. WeighedOK /\ [Next]_vars => WeighedOK'
  BY ReadNext, WindowsNext, SketchNext, AttributedNext DEF WeighedOK
<1>4. QED
  BY <1>2, <1>3, PTL DEF Spec
-----------------------------------------------------------------------------
(* The reported intervals.                                                  *)

\* The real weights of an identity are between its bounds in both periods.
LEMMA Bounds ==
    ASSUME WeighedOK, NEW r \in Rankings, NEW g \in Groups, NEW s \in Sides
    PROVE  /\ TrueWeight(r, s, g) = Weights(opts, periods, read1, r, s)[g]
           /\ TrueWeight(r, s, g) \in Nat /\ LowerBound(r, s, g) \in Nat /\ sketch[r][s].offset \in Nat
           /\ UpperBound(r, s, g) = LowerBound(r, s, g) + sketch[r][s].offset
           /\ LowerBound(r, s, g) <= TrueWeight(r, s, g) /\ TrueWeight(r, s, g) <= UpperBound(r, s, g)
<1>1. PICK k : k = sketch[r][s]
  OBVIOUS
<1>2. k \in Sketches /\ Encloses(k, Weights(opts, periods, read1, r, s))
  BY <1>1 DEF WeighedOK, SketchOK, SketchHolds
<1>3. TrueWeight(r, s, g) = Weights(opts, periods, read1, r, s)[g]
  BY SameRows DEF TrueWeight, Weights
<1>4. TrueWeight(r, s, g) \in Nat
  <2>1. PICK I : I = WeighedRows(opts, periods, read1, r, s, g)
    OBVIOUS
  <2>2. read1 \in Seq(Rows) /\ IsFiniteSet(I) /\ I \in SUBSET DOMAIN read1
    BY <2>1, RowsFinite DEF WeighedOK, ReadOK
  <2>3. \A i \in I : [j \in I |-> Weight(r, read1[j])][i] \in Nat
    <3>1. \A i \in I : read1[i] \in Rows /\ Weight(r, read1[i]) # NoId
      BY <2>1, <2>2 DEF WeighedRows
    <3>2. QED
      BY <3>1, WeightType
  <2>4. SumFunctionOnSet([j \in I |-> Weight(r, read1[j])], I) \in Nat
    BY <2>2, <2>3, SumType
  <2>5. Weights(opts, periods, read1, r, s)[g] = WeightOf(r, read1, I)
    BY <2>1 DEF Weights
  <2>6. QED
    BY <1>3, <2>4, <2>5 DEF WeightOf
<1>5. /\ k.count[g] \in Nat /\ k.offset \in Nat
      /\ k.count[g] <= TrueWeight(r, s, g) /\ TrueWeight(r, s, g) <= k.count[g] + k.offset
  BY <1>2, <1>3 DEF Sketches, Encloses
<1>6. QED
  BY <1>1, <1>3, <1>4, <1>5 DEF LowerBound, UpperBound

\* So is the real change between the endpoints of a candidate's interval, and
\* that of everyone else between those of the untracked ones.
LEMMA ChangeHeld ==
    ASSUME WeighedOK, NEW r \in Rankings, NEW g \in Groups
    PROVE  /\ Holds(Delta(r, g), TrueDelta(r, g))
           /\ TrueDelta(r, g) \in Int /\ Delta(r, g).lower \in Int /\ Delta(r, g).upper \in Int
           /\ TrueDelta(r, g) <= TrueWeight(r, 2, g)
           /\ Ranked(r) /\ g \notin Candidates(r) => Holds(UntrackedDelta(r), TrueDelta(r, g))
<1>1. 1 \in Sides /\ 2 \in Sides
  BY DEF Sides
<1>2. PICK a, b, la, lb, oa, ob :
         /\ a = TrueWeight(r, 1, g) /\ b = TrueWeight(r, 2, g)
         /\ la = LowerBound(r, 1, g) /\ lb = LowerBound(r, 2, g)
         /\ oa = sketch[r][1].offset /\ ob = sketch[r][2].offset
  OBVIOUS
<1>3. /\ a \in Nat /\ la \in Nat /\ oa \in Nat /\ UpperBound(r, 1, g) = la + oa /\ la <= a /\ a <= la + oa
  BY <1>1, <1>2, Bounds
<1>4. /\ b \in Nat /\ lb \in Nat /\ ob \in Nat /\ UpperBound(r, 2, g) = lb + ob /\ lb <= b /\ b <= lb + ob
  BY <1>1, <1>2, Bounds
<1>5. /\ Delta(r, g).lower = lb - (la + oa) /\ Delta(r, g).upper = (lb + ob) - la
      /\ UntrackedDelta(r).lower = -oa /\ UntrackedDelta(r).upper = ob /\ TrueDelta(r, g) = b - a
  BY <1>2, <1>3, <1>4 DEF Delta, UntrackedDelta, TrueDelta
<1>6. Ranked(r) /\ g \notin Candidates(r) => la = 0 /\ lb = 0
  <2>1. SUFFICES ASSUME Ranked(r), g \notin Candidates(r) PROVE la = 0 /\ lb = 0
    OBVIOUS
  <2>2. g \notin Tracked(sketch[r][1]) /\ g \notin Tracked(sketch[r][2])
    BY <2>1 DEF Candidates
  <2>3. ~(la > 0) /\ ~(lb > 0)
    BY <1>2, <2>2 DEF Tracked, LowerBound
  <2>4. QED
    BY <1>3, <1>4, <2>3
<1>7. lb - (la + oa) <= b - a /\ b - a <= (lb + ob) - la /\ b - a <= b
  BY <1>3, <1>4
<1>8. la = 0 /\ lb = 0 => -oa <= b - a /\ b - a <= ob
  BY <1>3, <1>4
<1>9. Holds(Delta(r, g), TrueDelta(r, g))
  BY <1>5, <1>7 DEF Holds
<1>10. Ranked(r) /\ g \notin Candidates(r) => Holds(UntrackedDelta(r), TrueDelta(r, g))
  BY <1>5, <1>6, <1>8 DEF Holds
<1>11. TrueDelta(r, g) \in Int /\ Delta(r, g).lower \in Int /\ Delta(r, g).upper \in Int
  BY <1>3, <1>4, <1>5
<1>12. TrueDelta(r, g) <= TrueWeight(r, 2, g)
  BY <1>2, <1>5, <1>7
<1>13. QED
  BY <1>9, <1>10, <1>11, <1>12

\* The real increase of any set of identities is within the reported one.
LEMMA IncreaseHeld ==
    ASSUME WeighedOK, NEW S \in SUBSET Groups
    PROVE  Holds(IncreaseOf(S), SumFunctionOnSet([g \in S |-> TrueDelta("tokens", g)], S))
<1>0. "tokens" \in Rankings /\ IsFiniteSet(Groups) /\ IsFiniteSet(S) /\ 2 \in Sides
  BY InvestigationAssumption, FS_Subset DEF Rankings, Sides
<1>1. PICK l, u, x, w : /\ l = [g \in S |-> Delta("tokens", g).lower]
                        /\ u = [g \in S |-> Delta("tokens", g).upper]
                        /\ x = [g \in S |-> TrueDelta("tokens", g)]
                        /\ w = Weights(opts, periods, read1, "tokens", 2)
  OBVIOUS
<1>2. ASSUME NEW g \in S
      PROVE  l[g] \in Int /\ u[g] \in Int /\ x[g] \in Int /\ l[g] <= x[g] /\ x[g] <= u[g] /\ x[g] <= w[g]
  <2>1. g \in Groups
    OBVIOUS
  <2>2. /\ Holds(Delta("tokens", g), TrueDelta("tokens", g))
        /\ TrueDelta("tokens", g) \in Int /\ Delta("tokens", g).lower \in Int /\ Delta("tokens", g).upper \in Int
        /\ TrueDelta("tokens", g) <= TrueWeight("tokens", 2, g)
    BY <1>0, <2>1, ChangeHeld
  <2>3. TrueWeight("tokens", 2, g) = w[g]
    BY <1>0, <1>1, <2>1, Bounds
  <2>4. QED
    BY <1>1, <2>2, <2>3 DEF Holds
<1>3. \A g \in Groups : w[g] \in Nat
  <2>1. \A g \in Groups : TrueWeight("tokens", 2, g) = w[g] /\ TrueWeight("tokens", 2, g) \in Nat
    BY <1>0, <1>1, Bounds
  <2>2. QED
    BY <2>1
<1>4. SumFunctionOnSet(l, S) \in Int /\ SumFunctionOnSet(l, S) <= SumFunctionOnSet(x, S)
  BY <1>0, <1>2, SumAtMost
<1>5. /\ SumFunctionOnSet(u, S) \in Int /\ SumFunctionOnSet(x, S) \in Int
      /\ SumFunctionOnSet(x, S) <= SumFunctionOnSet(u, S)
  BY <1>0, <1>2, SumAtMost
<1>6. SumFunctionOnSet(w, S) \in Int /\ SumFunctionOnSet(x, S) <= SumFunctionOnSet(w, S)
  <2>1. \A g \in S : x[g] \in Int /\ w[g] \in Int /\ x[g] <= w[g]
    BY <1>2, <1>3
  <2>2. QED
    BY <1>0, <2>1, SumAtMost
<1>7. SumFunctionOnSet(w, S) <= SumFunctionOnSet(w, Groups) /\ SumFunctionOnSet(w, Groups) \in Nat
  BY <1>0, <1>3, SumPart, SumType
<1>8. SumFunctionOnSet(w, Groups) = windows[2].attributed
  BY <1>0, <1>1 DEF WeighedOK, AttributedOK, AttributedTo
<1>9. windows[2].attributed <= windows[2].tokens /\ windows[2].tokens \in Nat
  BY <1>0 DEF WeighedOK, WindowsOK, WindowHolds, WindowTypes
<1>10. SumFunctionOnSet(x, S) <= windows[2].tokens
  BY <1>5, <1>6, <1>7, <1>8, <1>9
<1>11. /\ IncreaseOf(S).lower = SumFunctionOnSet(l, S)
       /\ IncreaseOf(S).upper = Smaller(SumFunctionOnSet(u, S), windows[2].tokens)
  BY <1>1 DEF IncreaseOf
<1>12. SumFunctionOnSet(x, S) <= Smaller(SumFunctionOnSet(u, S), windows[2].tokens)
  BY <1>5, <1>10 DEF Smaller
<1>13. Holds(IncreaseOf(S), SumFunctionOnSet(x, S))
  BY <1>4, <1>11, <1>12 DEF Holds
<1>14. QED
  BY <1>1, <1>13

\* The reported intervals hold the truth whenever the sums and sketches are right.
LEMMA IntervalsFollow == WeighedOK => IntervalsHoldTruth
<1>1. SUFFICES ASSUME WeighedOK PROVE IntervalsHoldTruth
  OBVIOUS
<1>2. ASSUME NEW r \in Rankings, NEW g \in Groups, Ranked(r)
      PROVE  Holds(IF g \in Candidates(r) THEN Delta(r, g) ELSE UntrackedDelta(r), TrueDelta(r, g))
  <2>1. /\ Holds(Delta(r, g), TrueDelta(r, g))
        /\ g \notin Candidates(r) => Holds(UntrackedDelta(r), TrueDelta(r, g))
    BY <1>1, <1>2, ChangeHeld
  <2>2. QED
    BY <2>1
<1>3. Candidates("tokens") \subseteq Groups
  BY DEF Candidates, Tracked
<1>4. ASSUME NEW S \in Leaders
      PROVE  Holds(IncreaseOf(S), SumFunctionOnSet([g \in S |-> TrueDelta("tokens", g)], S))
  <2>1. S \in SUBSET Groups
    BY <1>3 DEF Leaders
  <2>2. QED
    BY <1>1, <2>1, IncreaseHeld
<1>5. QED
  BY <1>2, <1>4 DEF IntervalsHoldTruth

\* In every report the real change of every identity is within the interval
\* reported for it, and that of the leaders within the reported increase,
\* however the sketches were purged (investigate.go).
THEOREM IntervalsAreTrue == Spec => []IntervalsHoldTruth
<1>1. WeighedOK => IntervalsHoldTruth
  BY IntervalsFollow
<1>2. QED
  BY <1>1, WeighedInvariant, PTL
-----------------------------------------------------------------------------
(* The models are what the analysed records say of them.                    *)

Labels(rows, I) == {rows[i].public : i \in I}
LabelOf(L) == IF \E l \in L : L = {l} THEN CHOOSE l \in L : TRUE ELSE NoId

Described(o, p, rows, m) ==
    IF ModelRows(o, p, rows, m) = {} THEN NoId
    ELSE [sides |-> [s \in Sides |-> [requests |-> Cardinality(ModelSideRows(o, p, rows, m, s)),
                                      tokens |-> TokensOf(rows, ModelSideRows(o, p, rows, m, s))]],
          order |-> First(ModelRows(o, p, rows, m)),
          label |-> LabelOf(Labels(rows, ModelRows(o, p, rows, m)))]

\* It is the description the model's property gives.
LEMMA SameDescription ==
    ASSUME NEW m
    PROVE  DescribedModel(m) = Described(opts, periods, read1, m)
<1>1. MineOf(m) = ModelRows(opts, periods, read1, m)
  BY SameRows
<1>2. \A s : OnSide(MineOf(m), s) = ModelSideRows(opts, periods, read1, m, s)
  BY SameRows
<1>3. QED
  BY <1>1, <1>2 DEF DescribedModel, Described, LabelOf, Labels

\* A label that all agree on, after one more.
LEMMA LabelMore ==
    ASSUME NEW L, L # {}, NEW x
    PROVE  LabelOf(L \cup {x}) = IF LabelOf(L) = x THEN LabelOf(L) ELSE NoId
<1>1. CASE \E l \in L : L = {l}
  <2>1. PICK l \in L : L = {l}
    BY <1>1
  <2>2. LabelOf(L) = l
    BY <2>1 DEF LabelOf
  <2>3. CASE x = l
    <3>1. L \cup {x} = L
      BY <2>1, <2>3
    <3>2. QED
      BY <2>2, <2>3, <3>1
  <2>4. CASE x # l
    <3>1. ~\E k \in L \cup {x} : L \cup {x} = {k}
      BY <2>1, <2>4
    <3>2. LabelOf(L \cup {x}) = NoId
      BY <3>1 DEF LabelOf
    <3>3. QED
      BY <2>2, <2>4, <3>2
  <2>5. QED
    BY <2>3, <2>4
<1>2. CASE ~\E l \in L : L = {l}
  <2>1. ~\E k \in L \cup {x} : L \cup {x} = {k}
    <3>1. SUFFICES ASSUME NEW k \in L \cup {x}, L \cup {x} = {k} PROVE FALSE
      OBVIOUS
    <3>2. \A y \in L : y = k
      BY <3>1
    <3>3. L = {k}
      BY <3>2
    <3>4. QED
      BY <1>2, <3>3
  <2>2. LabelOf(L) = NoId /\ LabelOf(L \cup {x}) = NoId
    BY <1>2, <2>1 DEF LabelOf
  <2>3. QED
    BY <2>2
<1>3. QED
  BY <1>1, <1>2

\* The first position, after one more at the end.
LEMMA FirstMore ==
    ASSUME NEW n \in Nat \ {0}, NEW I, I \subseteq 1..(n - 1), IsFiniteSet(I)
    PROVE  /\ First({}) = 0 /\ First(I) \in 0..(n - 1) /\ (I # {} => First(I) \in I /\ \A i \in I : First(I) <= i)
           /\ First(I \cup {n}) = IF I = {} THEN n ELSE First(I)
<1>1. First({}) = 0
  BY DEF First
<1>2. CASE I = {}
  <2>1. I \cup {n} = {n}
    BY <1>2
  <2>2. First({n}) = CHOOSE x \in {n} : \A y \in {n} : x <= y
    BY DEF First, Min
  <2>3. First({n}) = n
    BY <2>2
  <2>4. First(I) = 0 /\ First(I \cup {n}) = n /\ 0 \in 0..(n - 1)
    BY <1>1, <1>2, <2>1, <2>3
  <2>5. QED
    BY <1>1, <1>2, <2>4
<1>3. CASE I # {}
  <2>1. I \subseteq Nat
    OBVIOUS
  <2>2. \E x \in I : \A y \in I : x <= y
    BY <1>3, <2>1, Extremes
  <2>3. PICK a, J, b : /\ a = First(I) /\ J = I \cup {n} /\ b = First(J)
    OBVIOUS
  <2>4. a = (CHOOSE x \in I : \A y \in I : x <= y) /\ b = (CHOOSE x \in J : \A y \in J : x <= y)
    BY <1>3, <2>3 DEF First, Min
  <2>5. a \in I /\ \A y \in I : a <= y
    BY <2>2, <2>4
  <2>6. a \in J /\ \A y \in J : a <= y
    BY <2>3, <2>5
  <2>7. b \in J /\ \A y \in J : b <= y
    BY <2>4, <2>6
  <2>8. b = a
    BY <2>1, <2>3, <2>6, <2>7
  <2>9. QED
    BY <1>1, <1>3, <2>3, <2>5, <2>8
<1>4. QED
  BY <1>2, <1>3

\* Nothing exceeds the limits of a description.
Describable(o, p, rows) ==
    /\ rows \in Seq(Rows) /\ Len(rows) <= MaxRows
    /\ \A s \in Sides : TokensOf(rows, SideRows(o, p, rows, s)) <= MaxCount

\* A part of the records has a part of the tokens.
LEMMA TokensPart ==
    ASSUME NEW rows \in Seq(Rows), NEW I, I \in SUBSET DOMAIN rows, NEW J, J \in SUBSET I
    PROVE  TokensOf(rows, J) \in Nat /\ TokensOf(rows, I) \in Nat /\ TokensOf(rows, J) <= TokensOf(rows, I)
<1>1. IsFiniteSet(I) /\ IsFiniteSet(J)
  BY IndicesFinite
<1>2. PICK f, g : f = [i \in I |-> rows[i].tokens] /\ g = [i \in J |-> rows[i].tokens]
  OBVIOUS
<1>3. \A i \in I : f[i] \in Nat
  <2>1. \A i \in I : rows[i] \in Rows
    OBVIOUS
  <2>2. QED
    BY <1>2, <2>1, RowTypes
<1>4. \A i \in J : f[i] = g[i]
  BY <1>2
<1>5. SumFunctionOnSet(g, J) = SumFunctionOnSet(f, J)
  BY <1>1, <1>4, SumSame
<1>6. /\ SumFunctionOnSet(f, I) \in Nat /\ SumFunctionOnSet(f, J) <= SumFunctionOnSet(f, I)
      /\ SumFunctionOnSet(f, J) \in Nat
  BY <1>1, <1>3, SumType, SumPart
<1>7. QED
  BY <1>2, <1>5, <1>6 DEF TokensOf

\* The label of some records of a file.
LEMMA LabelType ==
    ASSUME NEW rows \in Seq(Rows), NEW I, I \in SUBSET DOMAIN rows
    PROVE  LabelOf(Labels(rows, I)) \in {NoId} \cup STRING
<1>1. \A i \in I : rows[i] \in Rows
  OBVIOUS
<1>2. \A l \in Labels(rows, I) : l \in {NoId} \cup STRING
  BY <1>1, RowTypes DEF Labels
<1>3. PICK L : L = Labels(rows, I)
  OBVIOUS
<1>4. LabelOf(L) = NoId \/ LabelOf(L) \in L
  BY DEF LabelOf
<1>5. QED
  BY <1>2, <1>3, <1>4

\* A model with records has a description, which is not NoId.
LEMMA DescriptionType ==
    ASSUME NEW o, NEW p, NEW rows, Describable(o, p, rows), NEW m
    PROVE  /\ ModelRows(o, p, rows, m) # {} => Described(o, p, rows, m) \in ModelTypes
           /\ ModelRows(o, p, rows, m) = {} <=> Described(o, p, rows, m) = NoId
<1>1. rows \in Seq(Rows) /\ Len(rows) <= MaxRows /\ Len(rows) \in Nat /\ MaxRows \in Nat /\ MaxCount \in Nat
  BY SpendFileAssumption, InvestigationAssumption DEF Describable
<1>2. CASE ModelRows(o, p, rows, m) = {}
  BY <1>2 DEF Described
<1>3. CASE ModelRows(o, p, rows, m) # {}
  <2>1. PICK I : I = ModelRows(o, p, rows, m)
    OBVIOUS
  <2>2. I \in SUBSET DOMAIN rows /\ IsFiniteSet(I) /\ I # {}
    BY <1>1, <1>3, <2>1, RowsFinite
  <2>3. First(I) \in 1..MaxRows
    <3>1. PICK n \in Nat \ {0} : n = Len(rows) + 1
      BY <1>1
    <3>2. DOMAIN rows = 1..(n - 1)
      BY <1>1, <3>1
    <3>3. First(I) \in I
      BY <2>2, <3>2, FirstMore
    <3>4. QED
      BY <1>1, <2>2, <3>1, <3>2, <3>3
  <2>4. ASSUME NEW s \in Sides
        PROVE  /\ Cardinality(ModelSideRows(o, p, rows, m, s)) \in Nat
               /\ TokensOf(rows, ModelSideRows(o, p, rows, m, s)) \in 0..MaxCount
    <3>1. PICK J, K : J = ModelSideRows(o, p, rows, m, s) /\ K = SideRows(o, p, rows, s)
      OBVIOUS
    <3>2. K \in SUBSET DOMAIN rows /\ IsFiniteSet(J)
      BY <1>1, <3>1, RowsFinite
    <3>3. J \in SUBSET K
      BY <3>1 DEF ModelSideRows, ModelRows, SideRows
    <3>4. TokensOf(rows, J) \in Nat /\ TokensOf(rows, K) \in Nat /\ TokensOf(rows, J) <= TokensOf(rows, K)
      BY <1>1, <3>2, <3>3, TokensPart
    <3>5. TokensOf(rows, K) <= MaxCount
      BY <3>1 DEF Describable
    <3>6. Cardinality(J) \in Nat
      BY <3>2, FS_CardinalityType
    <3>7. QED
      BY <1>1, <3>1, <3>4, <3>5, <3>6
  <2>5. LabelOf(Labels(rows, I)) \in {NoId} \cup STRING
    BY <1>1, <2>2, LabelType
  <2>6. [s \in Sides |-> [requests |-> Cardinality(ModelSideRows(o, p, rows, m, s)),
                          tokens |-> TokensOf(rows, ModelSideRows(o, p, rows, m, s))]]
           \in [Sides -> [requests: Nat, tokens: 0..MaxCount]]
    BY <2>4
  <2>7. Described(o, p, rows, m) \in ModelTypes
    BY <1>3, <2>1, <2>3, <2>5, <2>6 DEF Described, ModelTypes
  <2>8. NoId \notin ModelTypes
    BY InvestigationAssumption
  <2>9. QED
    BY <1>3, <2>7, <2>8
<1>4. QED
  BY <1>2, <1>3

\* What a record of side d, the n-th, makes of a model.
ModelStep(k, row, d, n) ==
    IF k = NoId
    THEN [sides |-> [s \in Sides |-> IF s = d THEN [requests |-> 1, tokens |-> row.tokens] ELSE NoTokens],
          order |-> n, label |-> row.public]
    ELSE [sides |-> [s \in Sides |-> IF s = d THEN [requests |-> k.sides[s].requests + 1,
                                                    tokens |-> k.sides[s].tokens + row.tokens]
                                     ELSE k.sides[s]],
          order |-> k.order, label |-> LabelAfter(k.label, row)]

DescriptionMoves(o, p, rows, row, more, n, m) ==
    /\ ~(AnalysedAt(o, p, row) /\ row.model = m) => Described(o, p, more, m) = Described(o, p, rows, m)
    /\ AnalysedAt(o, p, row) /\ row.model = m
         => Described(o, p, more, m) = ModelStep(Described(o, p, rows, m), row, SideAt(p, row), n)

ModelSideMoves(o, p, rows, row, more, m, s) ==
    LET J == ModelSideRows(o, p, rows, m, s)
        K == ModelSideRows(o, p, more, m, s)
    IN /\ Cardinality(J) \in Nat /\ TokensOf(rows, J) \in Nat /\ J \in SUBSET ModelRows(o, p, rows, m)
       /\ J = {} => Cardinality(J) = 0 /\ TokensOf(rows, J) = 0
       /\ ~(AnalysedAt(o, p, row) /\ row.model = m /\ SideAt(p, row) = s)
            => Cardinality(K) = Cardinality(J) /\ TokensOf(more, K) = TokensOf(rows, J)
       /\ AnalysedAt(o, p, row) /\ row.model = m /\ SideAt(p, row) = s
            => Cardinality(K) = Cardinality(J) + 1 /\ TokensOf(more, K) = TokensOf(rows, J) + row.tokens

\* The counts of a model on one side, after one more record.
LEMMA ModelSideGrows ==
    ASSUME NEW o, NEW p, NEW rows, NEW row, NEW more, NEW n, OneMore(rows, row, more, n), NEW m, NEW s
    PROVE  ModelSideMoves(o, p, rows, row, more, m, s)
<1>0. rows \in Seq(Rows) /\ n = Len(rows) + 1
  BY DEF OneMore
<1> DEFINE J == ModelSideRows(o, p, rows, m, s)
           K == ModelSideRows(o, p, more, m, s)
<1> HIDE DEF J, K
<1>1. J \in SUBSET DOMAIN rows /\ IsFiniteSet(J) /\ J \in SUBSET ModelRows(o, p, rows, m)
  BY <1>0, RowsFinite DEF ModelSideRows, J
<1>2. n \notin J
  BY <1>0, <1>1
<1>3. Joins(K, J, n, AnalysedAt(o, p, row) /\ row.model = m /\ SideAt(p, row) = s)
  BY RowsGrow DEF J, K
<1>4. /\ TokensOf(rows, J) \in Nat /\ TokensOf(more, J) = TokensOf(rows, J)
      /\ TokensOf(more, J \cup {n}) = TokensOf(rows, J) + row.tokens
  BY <1>1, TokensGrow
<1>5. Cardinality(J) \in Nat /\ Cardinality(J \cup {n}) = Cardinality(J) + 1
  BY <1>1, <1>2, CountMore, FS_CardinalityType
<1>6. J = {} => Cardinality(J) = 0 /\ TokensOf(rows, J) = 0
  <2>1. SUFFICES ASSUME J = {} PROVE Cardinality(J) = 0 /\ TokensOf(rows, J) = 0
    OBVIOUS
  <2>2. Cardinality(J) = 0
    BY <2>1, FS_EmptySet
  <2>3. TokensOf(rows, J) = 0
    BY <1>1, <2>1, SumStep DEF TokensOf
  <2>4. QED
    BY <2>2, <2>3
<1>7. CASE AnalysedAt(o, p, row) /\ row.model = m /\ SideAt(p, row) = s
  <2>1. K = J \cup {n}
    BY <1>3, <1>7 DEF Joins
  <2>2. QED
    BY <1>1, <1>4, <1>5, <1>6, <1>7, <2>1 DEF ModelSideMoves, J, K
<1>8. CASE ~(AnalysedAt(o, p, row) /\ row.model = m /\ SideAt(p, row) = s)
  <2>1. K = J
    BY <1>3, <1>8 DEF Joins
  <2>2. QED
    BY <1>1, <1>4, <1>5, <1>6, <1>8, <2>1 DEF ModelSideMoves, J, K
<1>9. QED
  BY <1>7, <1>8

\* T is S and x.
Plus(T, S, x) == T = S \cup {x}

\* The labels of a model, after one more record.
LEMMA LabelsGrow ==
    ASSUME NEW rows, NEW row, NEW more, NEW n, OneMore(rows, row, more, n), NEW I, I \in SUBSET DOMAIN rows
    PROVE  Labels(more, I) = Labels(rows, I) /\ Plus(Labels(more, I \cup {n}), Labels(rows, I), row.public)
<1>0. rows \in Seq(Rows) /\ row \in Rows /\ more = Append(rows, row) /\ n = Len(rows) + 1
  BY DEF OneMore
<1>1. \A i \in I : more[i] = rows[i]
  BY <1>0
<1>2. more[n] = row
  BY <1>0
<1>3. Labels(more, I) = Labels(rows, I)
  BY <1>1 DEF Labels
<1>4. Labels(more, I \cup {n}) = Labels(rows, I) \cup {row.public}
  BY <1>1, <1>2 DEF Labels
<1>5. QED
  BY <1>3, <1>4 DEF Plus

\* The description of a model, after one more record.
LEMMA DescriptionGrows ==
    ASSUME NEW o, NEW p, NEW rows, NEW row, NEW more, NEW n, OneMore(rows, row, more, n),
           Describable(o, p, rows), NEW m
    PROVE  DescriptionMoves(o, p, rows, row, more, n, m)
<1>0. rows \in Seq(Rows) /\ row \in Rows /\ n = Len(rows) + 1 /\ n \in Nat \ {0} /\ row.tokens \in Nat
  BY RowTypes DEF OneMore
<1>1. PICK I, K, d, k, l : /\ I = ModelRows(o, p, rows, m) /\ K = ModelRows(o, p, more, m)
                           /\ d = SideAt(p, row) /\ k = Described(o, p, rows, m) /\ l = Described(o, p, more, m)
  OBVIOUS
<1>2. Joins(K, I, n, AnalysedAt(o, p, row) /\ row.model = m)
  BY <1>1, RowsGrow
<1>3. I \in SUBSET DOMAIN rows /\ IsFiniteSet(I) /\ I \subseteq 1..(n - 1)
  <2>1. I \in SUBSET DOMAIN rows /\ IsFiniteSet(I)
    BY <1>0, <1>1, RowsFinite
  <2>2. DOMAIN rows = 1..(n - 1)
    BY <1>0
  <2>3. QED
    BY <2>1, <2>2
<1>4. Labels(more, I) = Labels(rows, I) /\ Plus(Labels(more, I \cup {n}), Labels(rows, I), row.public)
  BY <1>3, LabelsGrow
<1>5. I = {} <=> k = NoId
  BY <1>1, DescriptionType
<1>6. PICK J, L, c, e, t, u :
         /\ J = [s \in Sides |-> ModelSideRows(o, p, rows, m, s)]
         /\ L = [s \in Sides |-> ModelSideRows(o, p, more, m, s)]
         /\ c = [s \in Sides |-> Cardinality(J[s])] /\ e = [s \in Sides |-> Cardinality(L[s])]
         /\ t = [s \in Sides |-> TokensOf(rows, J[s])] /\ u = [s \in Sides |-> TokensOf(more, L[s])]
  OBVIOUS
<1>7. ASSUME NEW s \in Sides
      PROVE  /\ c[s] \in Nat /\ t[s] \in Nat /\ (I = {} => c[s] = 0 /\ t[s] = 0)
             /\ ~(AnalysedAt(o, p, row) /\ row.model = m /\ d = s) => e[s] = c[s] /\ u[s] = t[s]
             /\ AnalysedAt(o, p, row) /\ row.model = m /\ d = s => e[s] = c[s] + 1 /\ u[s] = t[s] + row.tokens
  <2>1. PICK A, B : A = ModelSideRows(o, p, rows, m, s) /\ B = ModelSideRows(o, p, more, m, s)
    OBVIOUS
  <2>2. /\ Cardinality(A) \in Nat /\ TokensOf(rows, A) \in Nat /\ A \in SUBSET ModelRows(o, p, rows, m)
        /\ A = {} => Cardinality(A) = 0 /\ TokensOf(rows, A) = 0
        /\ ~(AnalysedAt(o, p, row) /\ row.model = m /\ SideAt(p, row) = s)
             => Cardinality(B) = Cardinality(A) /\ TokensOf(more, B) = TokensOf(rows, A)
        /\ AnalysedAt(o, p, row) /\ row.model = m /\ SideAt(p, row) = s
             => Cardinality(B) = Cardinality(A) + 1 /\ TokensOf(more, B) = TokensOf(rows, A) + row.tokens
    <3>1. ModelSideMoves(o, p, rows, row, more, m, s)
      BY ModelSideGrows
    <3>2. QED
      BY <2>1, <3>1 DEF ModelSideMoves
  <2>3. c[s] = Cardinality(A) /\ e[s] = Cardinality(B) /\ t[s] = TokensOf(rows, A) /\ u[s] = TokensOf(more, B)
    BY <1>6, <2>1
  <2>4. I = {} => A = {}
    BY <1>1, <2>2
  <2>5. QED
    BY <1>1, <2>2, <2>3, <2>4
<1>8. /\ I # {} => k = [sides |-> [s \in Sides |-> [requests |-> c[s], tokens |-> t[s]]],
                        order |-> First(I), label |-> LabelOf(Labels(rows, I))]
      /\ K # {} => l = [sides |-> [s \in Sides |-> [requests |-> e[s], tokens |-> u[s]]],
                        order |-> First(K), label |-> LabelOf(Labels(more, K))]
      /\ K = {} => l = NoId
  BY <1>1, <1>6 DEF Described
<1>9. CASE ~(AnalysedAt(o, p, row) /\ row.model = m)
  <2>1. K = I
    BY <1>2, <1>9 DEF Joins
  <2>2. \A s \in Sides : e[s] = c[s] /\ u[s] = t[s]
    BY <1>7, <1>9
  <2>3. CASE I = {}
    BY <1>1, <1>5, <1>8, <1>9, <2>1, <2>3 DEF DescriptionMoves
  <2>4. CASE I # {}
    <3>1. LabelOf(Labels(more, K)) = LabelOf(Labels(rows, I))
      BY <1>4, <2>1
    <3>2. [s \in Sides |-> [requests |-> e[s], tokens |-> u[s]]] = [s \in Sides |-> [requests |-> c[s], tokens |-> t[s]]]
      BY <2>2
    <3>3. l = k
      BY <1>8, <2>1, <2>4, <3>1, <3>2
    <3>4. QED
      BY <1>1, <1>9, <3>3 DEF DescriptionMoves
  <2>5. QED
    BY <2>3, <2>4
<1>10. CASE AnalysedAt(o, p, row) /\ row.model = m
  <2>1. K = I \cup {n} /\ K # {}
    BY <1>2, <1>10 DEF Joins
  <2>2. First(K) = IF I = {} THEN n ELSE First(I)
    BY <1>0, <1>3, <2>1, FirstMore
  <2>3. Labels(more, K) = Labels(rows, I) \cup {row.public}
    BY <1>4, <2>1 DEF Plus
  <2>4. \A s \in Sides : IF s = d THEN e[s] = c[s] + 1 /\ u[s] = t[s] + row.tokens ELSE e[s] = c[s] /\ u[s] = t[s]
    BY <1>7, <1>10
  <2>5. CASE I = {}
    <3>1. k = NoId
      BY <1>5, <2>5
    <3>2. \A s \in Sides : IF s = d THEN e[s] = 1 /\ u[s] = row.tokens ELSE e[s] = 0 /\ u[s] = 0
      BY <1>0, <1>7, <2>4, <2>5
    <3>3. [s \in Sides |-> [requests |-> e[s], tokens |-> u[s]]]
             = [s \in Sides |-> IF s = d THEN [requests |-> 1, tokens |-> row.tokens] ELSE NoTokens]
      BY <3>2 DEF NoTokens
    <3>4. LabelOf(Labels(more, K)) = row.public
      <4>1. Labels(more, K) = {row.public}
        BY <2>3, <2>5 DEF Labels
      <4>2. QED
        BY <4>1 DEF LabelOf
    <3>5. First(K) = n
      BY <2>2, <2>5
    <3>6. l = ModelStep(k, row, d, n)
      BY <1>8, <2>1, <3>1, <3>3, <3>4, <3>5 DEF ModelStep
    <3>7. QED
      BY <1>1, <1>10, <3>6 DEF DescriptionMoves
  <2>6. CASE I # {}
    <3>1. k # NoId
      BY <1>5, <2>6
    <3>2. PICK a, b : a = Labels(rows, I) /\ b = Labels(more, K)
      OBVIOUS
    <3>3. a # {} /\ b = a \cup {row.public}
      BY <2>3, <2>6, <3>2 DEF Labels
    <3>4. k = [sides |-> [s \in Sides |-> [requests |-> c[s], tokens |-> t[s]]],
               order |-> First(I), label |-> LabelOf(a)]
      BY <1>8, <2>6, <3>2
    <3>5. LabelOf(b) = LabelAfter(LabelOf(a), row)
      <4>1. LabelOf(a \cup {row.public}) = IF LabelOf(a) = row.public THEN LabelOf(a) ELSE NoId
        BY <3>3, LabelMore
      <4>2. QED
        BY <3>3, <4>1 DEF LabelAfter
    <3>6. \A s \in Sides : k.sides[s] = [requests |-> c[s], tokens |-> t[s]]
      BY <3>4
    <3>7. [s \in Sides |-> [requests |-> e[s], tokens |-> u[s]]]
             = [s \in Sides |-> IF s = d THEN [requests |-> k.sides[s].requests + 1,
                                               tokens |-> k.sides[s].tokens + row.tokens]
                                ELSE k.sides[s]]
      <4>1. SUFFICES ASSUME NEW s \in Sides
                     PROVE  [requests |-> e[s], tokens |-> u[s]]
                               = IF s = d THEN [requests |-> k.sides[s].requests + 1,
                                                tokens |-> k.sides[s].tokens + row.tokens]
                                 ELSE k.sides[s]
        OBVIOUS
      <4>2. k.sides[s] = [requests |-> c[s], tokens |-> t[s]]
        BY <3>6
      <4>3. CASE s = d
        BY <2>4, <4>2, <4>3
      <4>4. CASE s # d
        BY <2>4, <4>2, <4>4
      <4>5. QED
        BY <4>3, <4>4
    <3>8. First(K) = k.order /\ LabelOf(a) = k.label
      BY <2>2, <2>6, <3>4
    <3>9. l = ModelStep(k, row, d, n)
      BY <1>8, <2>1, <3>1, <3>2, <3>5, <3>7, <3>8 DEF ModelStep
    <3>10. QED
      BY <1>1, <1>10, <3>9 DEF DescriptionMoves
  <2>7. QED
    BY <2>5, <2>6
<1>11. QED
  BY <1>9, <1>10
-----------------------------------------------------------------------------
(* The models and the windows have the same totals.                         *)

KnownIn(ms) == {m \in Models : ms[m] # NoId}
TokenSum(ms, s) == SumFunctionOnSet([m \in KnownIn(ms) |-> ms[m].sides[s].tokens], KnownIn(ms))
RequestSum(ms, s) == SumFunctionOnSet([m \in KnownIn(ms) |-> ms[m].sides[s].requests], KnownIn(ms))

\* A model takes a record of side d, the n-th.
ModelTakes(ms, more, row, d, n) ==
    /\ ms \in [Models -> ModelTypes \cup {NoId}] /\ row \in Rows /\ d \in Sides
    /\ more = [ms EXCEPT ![row.model] = ModelStep(ms[row.model], row, d, n)]
    /\ more[row.model] # NoId

SumsMove(ms, more, row, d, s) ==
    /\ TokenSum(ms, s) \in Nat /\ RequestSum(ms, s) \in Nat
    /\ TokenSum(more, s) = TokenSum(ms, s) + IF s = d THEN row.tokens ELSE 0
    /\ RequestSum(more, s) = RequestSum(ms, s) + IF s = d THEN 1 ELSE 0

\* The totals of the models then grow by the record.
LEMMA SumsGrow ==
    ASSUME NEW ms, NEW more, NEW row, NEW d, NEW n, ModelTakes(ms, more, row, d, n), NEW s \in Sides
    PROVE  KnownIn(more) = KnownIn(ms) \cup {row.model} /\ SumsMove(ms, more, row, d, s)
<1>1. PICK e, K : e = row.model /\ K = KnownIn(ms)
  OBVIOUS
<1>2. /\ e \in Models /\ row.tokens \in Nat /\ d \in Sides /\ ms \in [Models -> ModelTypes \cup {NoId}]
      /\ more = [ms EXCEPT ![e] = ModelStep(ms[e], row, d, n)] /\ more[e] # NoId
  BY <1>1, RowTypes DEF ModelTakes
<1>3. more[e] = ModelStep(ms[e], row, d, n) /\ \A m \in Models \ {e} : more[m] = ms[m]
  BY <1>2
<1>4. KnownIn(more) = K \cup {e} /\ IsFiniteSet(K) /\ K \subseteq Models
  <2>1. KnownIn(more) = K \cup {e} /\ K \subseteq Models
    BY <1>1, <1>2, <1>3 DEF KnownIn
  <2>2. QED
    BY <2>1, InvestigationAssumption, FS_Subset
<1>5. \A m \in K : ms[m].sides[s].tokens \in Nat /\ ms[m].sides[s].requests \in Nat
  <2>1. \A m \in K : ms[m] \in ModelTypes
    BY <1>1, <1>2, <1>4 DEF KnownIn
  <2>2. MaxCount \in Nat
    BY InvestigationAssumption
  <2>3. QED
    BY <2>1, <2>2 DEF ModelTypes
<1>6. /\ more[e].sides[s].tokens
            = (IF e \in K THEN ms[e].sides[s].tokens ELSE 0) + (IF s = d THEN row.tokens ELSE 0)
      /\ more[e].sides[s].requests = (IF e \in K THEN ms[e].sides[s].requests ELSE 0) + (IF s = d THEN 1 ELSE 0)
  <2>1. e \in K <=> ms[e] # NoId
    BY <1>1, <1>2 DEF KnownIn
  <2>2. CASE e \in K
    <3>1. more[e].sides[s] = IF s = d THEN [requests |-> ms[e].sides[s].requests + 1,
                                            tokens |-> ms[e].sides[s].tokens + row.tokens]
                             ELSE ms[e].sides[s]
      BY <1>3, <2>1, <2>2 DEF ModelStep
    <3>2. QED
      BY <1>2, <1>5, <2>2, <3>1
  <2>3. CASE e \notin K
    <3>1. more[e].sides[s] = IF s = d THEN [requests |-> 1, tokens |-> row.tokens] ELSE NoTokens
      BY <1>3, <2>1, <2>3 DEF ModelStep
    <3>2. QED
      BY <1>2, <2>3, <3>1 DEF NoTokens
  <2>4. QED
    BY <2>2, <2>3
<1>7. PICK a, b : a = (IF s = d THEN row.tokens ELSE 0) /\ b = (IF s = d THEN 1 ELSE 0)
  OBVIOUS
<1>8. a \in Nat /\ b \in Nat
  BY <1>2, <1>7
<1>9. PICK f, g : /\ f = [m \in K |-> ms[m].sides[s].tokens]
                  /\ g = [m \in K \cup {e} |-> more[m].sides[s].tokens]
  OBVIOUS
<1>10. MovesUp(f, g, K, e, a)
  <2>1. \A x \in K : f[x] \in Nat
    BY <1>5, <1>9
  <2>2. \A x \in K \ {e} : g[x] = f[x]
    BY <1>3, <1>4, <1>9
  <2>3. g[e] = (IF e \in K THEN f[e] ELSE 0) + a
    BY <1>6, <1>7, <1>9
  <2>4. QED
    BY <1>8, <2>1, <2>2, <2>3 DEF MovesUp
<1>11. /\ SumFunctionOnSet(f, K) \in Nat
       /\ SumFunctionOnSet(g, K \cup {e}) = SumFunctionOnSet(f, K) + a
  BY <1>4, <1>10, SumMove
<1>12. PICK h, k : /\ h = [m \in K |-> ms[m].sides[s].requests]
                   /\ k = [m \in K \cup {e} |-> more[m].sides[s].requests]
  OBVIOUS
<1>13. MovesUp(h, k, K, e, b)
  <2>1. \A x \in K : h[x] \in Nat
    BY <1>5, <1>12
  <2>2. \A x \in K \ {e} : k[x] = h[x]
    BY <1>3, <1>4, <1>12
  <2>3. k[e] = (IF e \in K THEN h[e] ELSE 0) + b
    BY <1>6, <1>7, <1>12
  <2>4. QED
    BY <1>8, <2>1, <2>2, <2>3 DEF MovesUp
<1>14. /\ SumFunctionOnSet(h, K) \in Nat
       /\ SumFunctionOnSet(k, K \cup {e}) = SumFunctionOnSet(h, K) + b
  BY <1>4, <1>13, SumMove
<1>15. /\ TokenSum(ms, s) = SumFunctionOnSet(f, K) /\ TokenSum(more, s) = SumFunctionOnSet(g, K \cup {e})
       /\ RequestSum(ms, s) = SumFunctionOnSet(h, K) /\ RequestSum(more, s) = SumFunctionOnSet(k, K \cup {e})
  BY <1>1, <1>4, <1>9, <1>12 DEF TokenSum, RequestSum
<1>16. SumsMove(ms, more, row, d, s)
  BY <1>7, <1>11, <1>14, <1>15 DEF SumsMove
<1>17. QED
  BY <1>1, <1>4, <1>16

ModelsOK ==
    /\ models = [m \in Models |-> Described(opts, periods, read1, m)]
    /\ Cardinality(KnownIn(models)) <= MaxModels
    /\ \A s \in Sides : windows[s].tokens = TokenSum(models, s) /\ windows[s].requests = RequestSum(models, s)

\* What has been read can be described.
LEMMA ReadDescribable ==
    ASSUME ReadOK, WindowsOK
    PROVE  Describable(opts, periods, read1)
  BY DEF ReadOK, WindowsOK, WindowHolds, Describable

\* The models as the code keeps them are descriptions.
LEMMA ModelsTyped ==
    ASSUME ReadOK, WindowsOK, ModelsOK
    PROVE  models \in [Models -> ModelTypes \cup {NoId}]
<1>1. Describable(opts, periods, read1)
  BY ReadDescribable
<1>2. \A m \in Models : models[m] = Described(opts, periods, read1, m)
  BY DEF ModelsOK
<1>3. \A m \in Models : models[m] \in ModelTypes \cup {NoId}
  BY <1>1, <1>2, DescriptionType
<1>4. QED
  BY <1>3 DEF ModelsOK

\* An analysed record changes its model only, as described.
LEMMA ModelTake ==
    ASSUME NEW row \in Rows, Taken(row), ReadOK, WindowsOK, ModelsOK, AnalysedAt(opts, periods, row)
    PROVE  models' = [models EXCEPT ![row.model] =
                         ModelStep(models[row.model], row, SideAt(periods, row), Len(read1) + 1)]
<1>1. PICK d, k : d = SideAt(periods, row) /\ k = models[row.model]
  OBVIOUS
<1>2. Side(row) = d /\ Analysed(row) /\ d \in Sides
  BY <1>1, SameRows DEF AnalysedAt, SideAt, Sides
<1>3. models' = [models EXCEPT ![row.model] = ModelAfter(row)] /\ pos + 1 = Len(read1) + 1
  BY <1>2 DEF Taken, Analyse
<1>4. row.model \in Models /\ row.tokens \in Nat
  BY RowTypes
<1>5. k \in ModelTypes \cup {NoId}
  BY <1>1, <1>4, ModelsTyped
<1>6. ModelAfter(row) = ModelStep(k, row, d, pos + 1)
  <2>1. CASE k = NoId
    <3>1. PICK z, m : /\ z = [s \in Sides |-> NoTokens]
                      /\ m = [sides |-> z, order |-> pos + 1, label |-> row.public]
      OBVIOUS
    <3>2. ModelAfter(row) = [m EXCEPT !.sides[d] = [requests |-> @.requests + 1, tokens |-> @.tokens + row.tokens]]
      BY <1>1, <1>2, <2>1, <3>1 DEF ModelAfter
    <3>3. z[d] = NoTokens
      BY <1>2, <3>1
    <3>4. ModelAfter(row) = [sides |-> [z EXCEPT ![d] = [requests |-> 1, tokens |-> row.tokens]],
                             order |-> pos + 1, label |-> row.public]
      BY <1>4, <3>1, <3>2, <3>3 DEF NoTokens
    <3>5. [z EXCEPT ![d] = [requests |-> 1, tokens |-> row.tokens]]
             = [s \in Sides |-> IF s = d THEN [requests |-> 1, tokens |-> row.tokens] ELSE NoTokens]
      BY <3>1
    <3>6. QED
      BY <2>1, <3>4, <3>5 DEF ModelStep
  <2>2. CASE k # NoId
    <3>1. k \in ModelTypes
      BY <1>5, <2>2
    <3>2. PICK z : z = k.sides
      OBVIOUS
    <3>3. k = [sides |-> z, order |-> k.order, label |-> k.label] /\ z \in [Sides -> [requests: Nat, tokens: 0..MaxCount]]
      BY <3>1, <3>2 DEF ModelTypes
    <3>4. PICK m : m = [sides |-> z, order |-> k.order, label |-> LabelAfter(k.label, row)]
      OBVIOUS
    <3>5. [k EXCEPT !.label = LabelAfter(@, row)] = m
      BY <3>3, <3>4
    <3>6. ModelAfter(row) = [m EXCEPT !.sides[d] = [requests |-> @.requests + 1, tokens |-> @.tokens + row.tokens]]
      BY <1>1, <1>2, <2>2, <3>5 DEF ModelAfter
    <3>7. ModelAfter(row) = [sides |-> [z EXCEPT ![d] = [requests |-> z[d].requests + 1, tokens |-> z[d].tokens + row.tokens]],
                             order |-> k.order, label |-> LabelAfter(k.label, row)]
      BY <3>4, <3>6
    <3>8. [z EXCEPT ![d] = [requests |-> z[d].requests + 1, tokens |-> z[d].tokens + row.tokens]]
             = [s \in Sides |-> IF s = d THEN [requests |-> k.sides[s].requests + 1,
                                               tokens |-> k.sides[s].tokens + row.tokens]
                                ELSE k.sides[s]]
      BY <1>2, <3>2, <3>3
    <3>9. QED
      BY <2>2, <3>7, <3>8 DEF ModelStep
  <2>3. QED
    BY <2>1, <2>2
<1>7. QED
  BY <1>1, <1>3, <1>6

NoneKnown == [m \in Models |-> NoId]

\* No model is described before the first record.
LEMMA NothingDescribed ==
    ASSUME NEW o, NEW p
    PROVE  [m \in Models |-> Described(o, p, <<>>, m)] = NoneKnown
<1>1. \A m \in Models : Described(o, p, <<>>, m) = NoId
  BY NothingRead DEF Described
<1>2. QED
  BY <1>1 DEF NoneKnown

\* The descriptions start empty.
LEMMA ModelsInit == Init => ModelsOK
<1>1. SUFFICES ASSUME Init PROVE ModelsOK
  OBVIOUS
<1>2. /\ read1 = <<>> /\ models = NoneKnown /\ MaxModels \in Nat
      /\ \A s \in Sides : windows[s].tokens = 0 /\ windows[s].requests = 0
  BY <1>1, InvestigationAssumption DEF Init, NoneKnown
<1>3. models = [m \in Models |-> Described(opts, periods, read1, m)]
  BY <1>2, NothingDescribed
<1>4. KnownIn(models) = {}
  BY <1>2 DEF KnownIn, NoneKnown
<1>5. IsFiniteSet({}) /\ Cardinality({}) = 0
  BY FS_EmptySet
<1>6. \A f : SumFunctionOnSet(f, {}) = 0
  BY <1>5, SumStep
<1>7. \A s \in Sides : TokenSum(models, s) = 0 /\ RequestSum(models, s) = 0
  BY <1>4, <1>6 DEF TokenSum, RequestSum
<1>8. Cardinality(KnownIn(models)) <= MaxModels
  BY ONLY <1>2, <1>4, <1>5
<1>9. \A s \in Sides : windows[s].tokens = TokenSum(models, s) /\ windows[s].requests = RequestSum(models, s)
  BY ONLY <1>2, <1>7
<1>10. QED
  BY ONLY <1>3, <1>8, <1>9 DEF ModelsOK

\* A record that is taken leaves the descriptions right.
LEMMA ModelsTake ==
    ASSUME NEW row \in Rows, Taken(row), ReadOK, WindowsOK, ModelsOK, ReadOK', WindowsOK'
    PROVE  ModelsOK'
<1>1. PICK o, p, rows, more, n :
         o = opts /\ p = periods /\ rows = read1 /\ more = Append(rows, row) /\ n = Len(rows) + 1
  OBVIOUS
<1>2. opts' = o /\ periods' = p /\ read1' = more /\ OneMore(rows, row, more, n)
  BY <1>1 DEF Taken, ReadOK, OneMore
<1>3. Describable(o, p, rows) /\ Describable(o, p, more)
  <2>1. Describable(opts, periods, read1)
    BY ReadDescribable
  <2>2. Describable(opts', periods', read1')
    BY DEF ReadOK, WindowsOK, WindowHolds, Describable
  <2>3. QED
    BY <1>1, <1>2, <2>1, <2>2
<1>4. /\ models \in [Models -> ModelTypes \cup {NoId}]
      /\ \A m \in Models : models[m] = Described(o, p, rows, m)
  BY <1>1, ModelsTyped DEF ModelsOK
<1>5. row.model \in Models /\ row.tokens \in Nat
  BY RowTypes
<1>6. PICK d : d = SideAt(p, row)
  OBVIOUS
<1>7. \A m \in Models : DescriptionMoves(o, p, rows, row, more, n, m)
  <2>1. OneMore(rows, row, more, n)
    BY <1>2
  <2>2. TAKE m \in Models
  <2>3. QED
    BY ONLY <1>3, <2>1, DescriptionGrows
<1>8. CASE ~AnalysedAt(o, p, row)
  <2>1. models' = models /\ windows' = windows
    BY <1>1, <1>8 DEF Taken
  <2>2. \A m \in Models : Described(o, p, more, m) = Described(o, p, rows, m)
    BY <1>7, <1>8 DEF DescriptionMoves
  <2>3. models' = [m \in Models |-> Described(o, p, more, m)]
    BY <1>4, <2>1, <2>2
  <2>4. QED
    BY <1>2, <2>1, <2>3 DEF ModelsOK
<1>9. CASE AnalysedAt(o, p, row)
  <2>1. models' = [models EXCEPT ![row.model] = ModelStep(models[row.model], row, d, n)]
    BY <1>1, <1>6, <1>9, ModelTake
  <2>2. \A m \in Models : models'[m] = Described(o, p, more, m)
    <3>1. TAKE m \in Models
    <3>2. CASE m = row.model
      <4>1. Described(o, p, more, m) = ModelStep(Described(o, p, rows, m), row, d, n)
        BY <1>6, <1>7, <1>9, <3>2 DEF DescriptionMoves
      <4>2. QED
        BY <1>4, <2>1, <3>2, <4>1
    <3>3. CASE m # row.model
      <4>1. Described(o, p, more, m) = Described(o, p, rows, m)
        BY <1>7, <3>3 DEF DescriptionMoves
      <4>2. models'[m] = models[m]
        BY <1>4, <2>1, <3>3
      <4>3. QED
        BY <1>4, <4>1, <4>2
    <3>4. QED
      BY <3>2, <3>3
  <2>3. models' = [m \in Models |-> Described(o, p, more, m)]
    <3>1. models' = [m \in Models |-> models'[m]]
      BY <1>4, <2>1
    <3>2. QED
      BY <2>2, <3>1
  <2>4. models'[row.model] # NoId /\ d \in Sides
    <3>1. Joins(ModelRows(o, p, more, row.model), ModelRows(o, p, rows, row.model), n, TRUE)
      <4>1. Joins(ModelRows(o, p, more, row.model), ModelRows(o, p, rows, row.model), n,
                  AnalysedAt(o, p, row) /\ row.model = row.model)
        BY <1>2, RowsGrow
      <4>2. QED
        BY <1>9, <4>1 DEF Joins
    <3>2. ModelRows(o, p, more, row.model) # {}
      BY <3>1 DEF Joins
    <3>3. Described(o, p, more, row.model) # NoId
      BY <1>3, <3>2, DescriptionType
    <3>4. QED
      BY <1>5, <1>6, <1>9, <2>2, <3>3 DEF AnalysedAt, SideAt, Sides
  <2>5. ModelTakes(models, models', row, d, n)
    BY <1>4, <2>1, <2>4 DEF ModelTakes
  <2>6. /\ KnownIn(models') = KnownIn(models) \cup {row.model}
        /\ \A s \in Sides : SumsMove(models, models', row, d, s)
    <3>1. PICK ms, ns : ms = models /\ ns = models'
      OBVIOUS
    <3>2. ModelTakes(ms, ns, row, d, n)
      BY <2>5, <3>1
    <3>3. d \in Sides
      BY <2>4
    <3>4. \A s \in Sides : KnownIn(ns) = KnownIn(ms) \cup {row.model} /\ SumsMove(ms, ns, row, d, s)
      BY ONLY <3>2, SumsGrow
    <3>5. QED
      BY <3>1, <3>3, <3>4
  <2>7. Cardinality(KnownIn(models')) <= MaxModels
    <3>1. IsFiniteSet(KnownIn(models)) /\ Cardinality(KnownIn(models)) <= MaxModels /\ MaxModels \in Nat
      <4>1. KnownIn(models) \in SUBSET Models
        BY DEF KnownIn
      <4>2. QED
        BY <4>1, InvestigationAssumption, FS_Subset DEF ModelsOK
    <3>2. CASE models[row.model] = NoId
      <4>1. ~(Cardinality(KnownIn(models)) >= MaxModels)
        <5>1. Analysed(row)
          BY <1>1, <1>9, SameRows
        <5>2. Known = KnownIn(models)
          BY DEF Known, KnownIn
        <5>3. QED
          BY <3>2, <5>1, <5>2 DEF Taken, Refused, TooManyModels
      <4>2. PICK K : K = KnownIn(models)
        OBVIOUS
      <4>3. Cardinality(K) \in Nat /\ Cardinality(K \cup {row.model}) \in Nat
            /\ Cardinality(K \cup {row.model}) <= Cardinality(K) + 1
        BY <3>1, <4>2, CountAtMostMore
      <4>4. QED
        BY <2>6, <3>1, <4>1, <4>2, <4>3
    <3>3. CASE models[row.model] # NoId
      <4>1. row.model \in KnownIn(models)
        BY <1>5, <3>3 DEF KnownIn
      <4>2. KnownIn(models') = KnownIn(models)
        BY <2>6, <4>1
      <4>3. QED
        BY <3>1, <4>2
    <3>4. QED
      BY <3>2, <3>3
  <2>8. \A s \in Sides : windows'[s].tokens = TokenSum(models', s) /\ windows'[s].requests = RequestSum(models', s)
    <3>1. TAKE s \in Sides
    <3>2. PICK w : w = WindowAfter(windows[d], row)
      OBVIOUS
    <3>3. windows' = [windows EXCEPT ![d] = w]
      BY <1>1, <1>6, <1>9, <3>2, WindowsTake
    <3>4. /\ windows \in [Sides -> WindowTypes]
          /\ windows[s].tokens = TokenSum(models, s) /\ windows[s].requests = RequestSum(models, s)
      BY DEF WindowsOK, ModelsOK
    <3>5. w.tokens = windows[d].tokens + row.tokens /\ w.requests = windows[d].requests + 1
      BY <3>2 DEF WindowAfter
    <3>6. /\ windows'[s].tokens = windows[s].tokens + IF s = d THEN row.tokens ELSE 0
          /\ windows'[s].requests = windows[s].requests + IF s = d THEN 1 ELSE 0
      <4>1. windows[s].tokens \in Nat /\ windows[s].requests \in Nat
        BY <3>4 DEF WindowTypes
      <4>2. CASE s = d
        BY <2>4, <3>3, <3>4, <3>5, <4>2
      <4>3. CASE s # d
        BY <3>3, <3>4, <4>1, <4>3
      <4>4. QED
        BY <4>2, <4>3
    <3>7. QED
      BY <2>6, <3>4, <3>6 DEF SumsMove
  <2>9. QED
    BY <1>2, <2>3, <2>7, <2>8 DEF ModelsOK
<1>10. QED
  BY <1>8, <1>9

\* Every step keeps the models what the records say.
LEMMA ModelsNext == ReadOK /\ WindowsOK /\ ModelsOK /\ [Next]_vars => ModelsOK'
<1>1. SUFFICES ASSUME ReadOK, WindowsOK, ModelsOK, [Next]_vars PROVE ModelsOK'
  OBVIOUS
<1>2. CASE Settled
  <2>1. CASE periods' = periods
    BY <1>1, <1>2, <2>1 DEF Settled, accounts, ModelsOK
  <2>2. CASE read1 = <<>>
    <3>1. models' = models /\ windows' = windows /\ read1' = <<>>
      BY <1>2, <2>2 DEF Settled, accounts
    <3>2. [m \in Models |-> Described(opts', periods', <<>>, m)] = NoneKnown
      BY NothingDescribed
    <3>3. [m \in Models |-> Described(opts, periods, <<>>, m)] = NoneKnown
      BY NothingDescribed
    <3>4. models = [m \in Models |-> Described(opts, periods, <<>>, m)]
      BY <1>1, <2>2 DEF ModelsOK
    <3>5. models' = [m \in Models |-> Described(opts', periods', read1', m)]
      BY <3>1, <3>2, <3>3, <3>4
    <3>6. QED
      BY <1>1, <3>1, <3>5 DEF ModelsOK
  <2>3. QED
    BY <1>2, <2>1, <2>2 DEF Settled
<1>3. ASSUME NEW row \in Rows, Taken(row) PROVE ModelsOK'
  BY <1>1, <1>3, ReadNext, WindowsNext, ModelsTake
<1>4. QED
  BY <1>1, <1>2, <1>3, MainSteps
-----------------------------------------------------------------------------
(* The last pass places every candidate at its first record.                *)

\* The first analysed record of an identity.
FirstOf(o, p, rows, g) == First(GroupRows(o, p, rows, g))

OrderOK ==
    /\ order \in [Groups -> 0..MaxRows]
    /\ pc \in {"span", "main"} => \A g \in Groups : order[g] = 0
    /\ pc = "order" => \A g \in Groups :
          order[g] = IF g \in AllCandidates THEN FirstOf(opts, periods, read2, g) ELSE 0
    /\ pc = "ok" => \A g \in AllCandidates : order[g] = FirstOf(opts, periods, read1, g)

\* The candidates are those of the sketches, and change only with them.
LEMMA CandidatesStay ==
    /\ AllCandidates \subseteq Groups
    /\ UNCHANGED <<opts, periods, read1, sketch>> => AllCandidates' = AllCandidates
<1>1. AllCandidates \subseteq Groups
  BY DEF AllCandidates, Candidates, Tracked
<1>2. ASSUME UNCHANGED <<opts, periods, read1, sketch>> PROVE AllCandidates' = AllCandidates
  <2>1. \A s : Covered(s)' <=> Covered(s)
    BY <1>2 DEF Covered, Analysed, Side, Matched
  <2>2. \A r : Ranked(r)' <=> Ranked(r)
    BY <2>1 DEF Ranked
  <2>3. \A r : Candidates(r)' = Candidates(r)
    BY <1>2, <2>2 DEF Candidates
  <2>4. QED
    BY <2>3 DEF AllCandidates
<1>3. QED
  BY <1>1, <1>2

\* The first record of an identity, after one more record.
LEMMA FirstGrows ==
    ASSUME NEW o, NEW p, NEW rows, NEW row, NEW more, NEW n, OneMore(rows, row, more, n), NEW g
    PROVE  /\ FirstOf(o, p, rows, g) \in Nat /\ FirstOf(o, p, <<>>, g) = 0
           /\ FirstOf(o, p, more, g) =
                 IF AnalysedAt(o, p, row) /\ row.group = g /\ FirstOf(o, p, rows, g) = 0 THEN n
                 ELSE FirstOf(o, p, rows, g)
<1>0. rows \in Seq(Rows) /\ n = Len(rows) + 1 /\ n \in Nat \ {0}
  BY DEF OneMore
<1>1. PICK I, J : I = GroupRows(o, p, rows, g) /\ J = GroupRows(o, p, more, g)
  OBVIOUS
<1>2. Joins(J, I, n, AnalysedAt(o, p, row) /\ row.group = g)
  BY <1>1, RowsGrow
<1>3. I \subseteq 1..(n - 1) /\ IsFiniteSet(I)
  <2>1. I \in SUBSET DOMAIN rows /\ IsFiniteSet(I)
    BY <1>0, <1>1, RowsFinite
  <2>2. DOMAIN rows = 1..(n - 1)
    BY <1>0
  <2>3. QED
    BY <2>1, <2>2
<1>4. /\ First({}) = 0 /\ First(I) \in 0..(n - 1) /\ (I # {} => First(I) \in I)
      /\ First(I \cup {n}) = IF I = {} THEN n ELSE First(I)
  BY <1>0, <1>3, FirstMore
<1>5. First(I) = 0 <=> I = {}
  BY <1>3, <1>4
<1>6. FirstOf(o, p, <<>>, g) = 0
  BY <1>4, NothingRead DEF FirstOf
<1>7. First(J) = IF AnalysedAt(o, p, row) /\ row.group = g /\ First(I) = 0 THEN n ELSE First(I)
  BY <1>2, <1>4, <1>5 DEF Joins
<1>8. QED
  BY <1>1, <1>4, <1>6, <1>7 DEF FirstOf

\* No candidate has a place before the last pass.
LEMMA OrderInit == Init => OrderOK
<1>1. MaxRows \in Nat
  BY SpendFileAssumption
<1>2. QED
  BY <1>1 DEF Init, OrderOK

\* Every step keeps the candidates in their places.
LEMMA OrderNext == ReadOK /\ OrderOK /\ [Next]_vars => OrderOK'
<1>1. SUFFICES ASSUME ReadOK, OrderOK, [Next]_vars PROVE OrderOK'
  OBVIOUS
<1>2. FileTypeOK /\ MaxRows \in Nat
  BY <1>1, SpendFileAssumption DEF ReadOK
<1>3. ASSUME order' = order, pc' = "error" \/ pc' = "gap" PROVE OrderOK'
  BY <1>1, <1>3 DEF OrderOK
<1>4. ASSUME order' = order, pc' \in {"span", "main"}, pc \in {"span", "main"} PROVE OrderOK'
  BY <1>1, <1>4 DEF OrderOK
<1>5. ASSUME UNCHANGED <<order, pc, opts, periods, read1, read2, sketch>> PROVE OrderOK'
  <2>1. AllCandidates' = AllCandidates
    BY <1>5, CandidatesStay
  <2>2. QED
    BY <1>1, <1>5, <2>1 DEF OrderOK
<1>6. CASE Open
  BY <1>3, <1>5, <1>6 DEF Open, Stop, repVars
<1>7. CASE ReadFails
  BY <1>3, <1>7 DEF ReadFails, Stop
<1>8. CASE VisitSpan
  BY <1>3, <1>4, <1>8 DEF VisitSpan, Stop, Visiting
<1>9. CASE EndSpan
  BY <1>3, <1>4, <1>9 DEF EndSpan, Stop
<1>10. CASE VisitMain
  BY <1>3, <1>4, <1>10 DEF VisitMain, Stop, Visiting
<1>11. CASE EndMain
  <2>1. CASE pc' = "error" \/ pc' = "gap"
    BY <1>3, <1>11, <2>1 DEF EndMain, Stop
  <2>2. CASE ~(pc' = "error" \/ pc' = "gap")
    <3>1. /\ Stop(IF AllCandidates = {} THEN "ok" ELSE "order") /\ pc = "main"
      BY <1>11, <2>2 DEF EndMain, Stop
    <3>2. /\ pc' = (IF AllCandidates = {} THEN "ok" ELSE "order")
          /\ UNCHANGED <<order, opts, periods, read1, read2, sketch>>
      BY <3>1 DEF Stop, repVars
    <3>3. read2 = <<>> /\ \A g \in Groups : order[g] = 0
      BY <1>1, <3>1 DEF ReadOK, OrderOK
    <3>4. AllCandidates' = AllCandidates
      BY <3>2, CandidatesStay
    <3>5. \A g \in Groups : FirstOf(opts, periods, <<>>, g) = 0
      <4>1. First({}) = 0
        BY DEF First
      <4>2. QED
        BY <4>1, NothingRead DEF FirstOf
    <3>6. QED
      BY <1>1, <3>2, <3>3, <3>4, <3>5 DEF OrderOK
  <2>3. QED
    BY <2>1, <2>2
<1>12. CASE VisitOrder
  <2>1. CASE NextRow.t = BadTime
    BY <1>3, <1>12, <2>1 DEF VisitOrder, Stop
  <2>2. CASE NextRow.t # BadTime
    <3>1. PICK row, more, n : row = NextRow /\ more = Append(read2, row) /\ n = pos + 1
      OBVIOUS
    <3>2. /\ row \in Rows /\ pos < MaxRows /\ pos \in Nat /\ pc = "order" /\ row.t # BadTime
      BY <1>2, <1>12, <2>2, <3>1, VisitedRow DEF VisitOrder, Visiting
    <3>3. /\ read2' = more /\ pc' = pc /\ UNCHANGED <<opts, periods, read1, sketch>>
          /\ order' = IF Analysed(row) /\ row.group \in AllCandidates /\ order[row.group] = 0
                      THEN [order EXCEPT ![row.group] = n] ELSE order
      BY <1>12, <2>2, <3>1 DEF VisitOrder, Visiting, repVars
    <3>4. OneMore(read2, row, more, n) /\ n \in 1..MaxRows
      BY <1>1, <1>2, <3>1, <3>2 DEF OneMore, ReadOK
    <3>5. Analysed(row) = AnalysedAt(opts, periods, row)
      BY SameRows
    <3>6. PICK C : C = AllCandidates
      OBVIOUS
    <3>7. AllCandidates' = C /\ C \subseteq Groups
      BY <3>3, <3>6, CandidatesStay
    <3>8. \A g \in Groups : order[g] = IF g \in C THEN FirstOf(opts, periods, read2, g) ELSE 0
      BY <1>1, <3>2, <3>6 DEF OrderOK
    <3>9. order \in [Groups -> 0..MaxRows]
      BY <1>1 DEF OrderOK
    <3>10. order' \in [Groups -> 0..MaxRows]
      <4>1. n \in 0..MaxRows
        BY <1>2, <3>4
      <4>2. [order EXCEPT ![row.group] = n] \in [Groups -> 0..MaxRows]
        BY ONLY <3>9, <4>1
      <4>3. QED
        BY ONLY <3>3, <3>9, <4>2
    <3>11. \A g \in Groups : order'[g] = IF g \in C THEN FirstOf(opts, periods, more, g) ELSE 0
      <4>1. TAKE g \in Groups
      <4>2. FirstOf(opts, periods, more, g) =
               IF AnalysedAt(opts, periods, row) /\ row.group = g /\ FirstOf(opts, periods, read2, g) = 0 THEN n
               ELSE FirstOf(opts, periods, read2, g)
        BY <3>4, FirstGrows
      <4>3. order'[g] = IF AnalysedAt(opts, periods, row) /\ row.group = g /\ g \in C /\ order[g] = 0 THEN n
                        ELSE order[g]
        BY <3>3, <3>5, <3>6, <3>9
      <4>4. QED
        BY <3>8, <4>2, <4>3
    <3>12. QED
      BY <3>2, <3>3, <3>7, <3>10, <3>11 DEF OrderOK
  <2>3. QED
    BY <2>1, <2>2
<1>13. CASE EndOrder
  <2>1. CASE read2 = read1
    <3>1. /\ pc = "order" /\ pc' = "ok" /\ UNCHANGED <<order, opts, periods, read1, read2, sketch>>
      BY <1>13, <2>1 DEF EndOrder, SameAgain, Stop, repVars
    <3>2. AllCandidates' = AllCandidates /\ AllCandidates \subseteq Groups
      BY <3>1, CandidatesStay
    <3>3. QED
      BY <1>1, <2>1, <3>1, <3>2 DEF OrderOK
  <2>2. CASE read2 # read1
    BY <1>3, <1>13, <2>2 DEF EndOrder, SameAgain, Stop
  <2>3. QED
    BY <2>1, <2>2
<1>14. CASE Writer /\ UNCHANGED <<opts, pc, read0, read1, read2, periods, repVars, order, usedBy>>
  BY <1>5, <1>14 DEF repVars
<1>15. CASE UNCHANGED vars
  BY <1>5, <1>15 DEF vars, repVars
<1>16. QED
  BY <1>1, <1>6, <1>7, <1>8, <1>9, <1>10, <1>11, <1>12, <1>13, <1>14, <1>15 DEF Next, Investigation
-----------------------------------------------------------------------------
(* A report is of one file.                                                 *)

ReportOK == WeighedOK /\ ModelsOK /\ OrderOK

\* The accounts, the models and the places, in every state.
THEOREM ReportInvariant == Spec => []ReportOK
<1>1. Init /\ WeighedOK => ReportOK
  BY ModelsInit, OrderInit DEF ReportOK
<1>2. ReportOK /\ WeighedOK' /\ [Next]_vars => ReportOK'
  BY ModelsNext, OrderNext DEF ReportOK, WeighedOK
<1>3. QED
  BY <1>1, <1>2, WeighedInvariant, PTL DEF Spec

\* InvestigationOfOneFile: whatever other programs did to the file, a report has the
\* periods, the models and the places of one sequence of records.
THEOREM InvestigationIsOfOneFile == Spec => []InvestigationOfOneFile
<1>1. ReportOK => InvestigationOfOneFile
  <2>1. SUFFICES ASSUME ReportOK, pc \in {"ok", "gap"}
                 PROVE  /\ periods = SelectPeriods(read1)
                        /\ \A m \in Models : models[m] = DescribedModel(m)
                        /\ pc = "ok" => \A g \in AllCandidates : order[g] = First(OfGroup(g))
    BY DEF InvestigationOfOneFile
  <2>2. periods = SelectPeriods(read1)
    BY <2>1 DEF ReportOK, WeighedOK, ReadOK, Closed
  <2>3. \A m \in Models : models[m] = Described(opts, periods, read1, m)
    BY <2>1 DEF ReportOK, ModelsOK
  <2>4. \A m \in Models : models[m] = DescribedModel(m)
    BY <2>3, SameDescription
  <2>5. pc = "ok" => \A g \in AllCandidates : order[g] = FirstOf(opts, periods, read1, g)
    BY <2>1 DEF ReportOK, OrderOK
  <2>6. \A g : FirstOf(opts, periods, read1, g) = First(OfGroup(g))
    BY SameRows DEF FirstOf
  <2>7. QED
    BY <2>2, <2>4, <2>5, <2>6
<1>2. QED
  BY <1>1, ReportInvariant, PTL
-----------------------------------------------------------------------------
(* Every record is counted once.                                            *)

ExcludedAt(o, p, row) == SideAt(p, row) # 0 /\ MatchedAt(o, row) /\ ~IsSupported(row)
ExcludedRows(o, p, rows) == {i \in DOMAIN rows : ExcludedAt(o, p, rows[i])}

TallyTypes == [rows: Nat, outside: Nat, excluded: Nat, unmatched: Nat]

TallyOK ==
    /\ tally \in TallyTypes /\ incomplete \in BOOLEAN
    /\ tally.rows = tally.outside + tally.unmatched + Requests + Cardinality(ExcludedRows(opts, periods, read1))
    /\ ~incomplete => ExcludedRows(opts, periods, read1) = {}

\* The excluded records, after one more.
LEMMA ExcludedGrow ==
    ASSUME NEW o, NEW p, NEW rows, NEW row, NEW more, NEW n, OneMore(rows, row, more, n)
    PROVE  /\ Joins(ExcludedRows(o, p, more), ExcludedRows(o, p, rows), n, ExcludedAt(o, p, row))
           /\ IsFiniteSet(ExcludedRows(o, p, rows)) /\ n \notin ExcludedRows(o, p, rows)
           /\ ExcludedRows(o, p, <<>>) = {}
<1>0. rows \in Seq(Rows) /\ row \in Rows /\ more = Append(rows, row) /\ n = Len(rows) + 1
  BY DEF OneMore
<1>1. /\ DOMAIN more = DOMAIN rows \cup {n} /\ n \notin DOMAIN rows
      /\ more[n] = row /\ \A i \in DOMAIN rows : more[i] = rows[i]
  <2>1. DOMAIN rows = 1..Len(rows) /\ Len(rows) \in Nat /\ DOMAIN more = 1..(Len(rows) + 1)
    BY <1>0
  <2>2. \A i \in 1..Len(rows) : more[i] = rows[i]
    BY <1>0
  <2>3. more[n] = row
    BY <1>0
  <2>4. QED
    BY <1>0, <2>1, <2>2, <2>3
<1>2. Joins(ExcludedRows(o, p, more), ExcludedRows(o, p, rows), n, ExcludedAt(o, p, row))
  BY <1>1 DEF Joins, ExcludedRows
<1>3. ExcludedRows(o, p, rows) \in SUBSET DOMAIN rows
  BY DEF ExcludedRows
<1>4. IsFiniteSet(ExcludedRows(o, p, rows)) /\ n \notin ExcludedRows(o, p, rows)
  BY <1>0, <1>1, <1>3, IndicesFinite
<1>5. ExcludedRows(o, p, <<>>) = {}
  BY DEF ExcludedRows
<1>6. QED
  BY <1>2, <1>4, <1>5

\* Nothing is counted before the first record.
LEMMA TallyInit == Init => TallyOK
<1>1. SUFFICES ASSUME Init PROVE TallyOK
  OBVIOUS
<1>2. /\ tally = [rows |-> 0, outside |-> 0, excluded |-> 0, unmatched |-> 0] /\ incomplete = FALSE
      /\ read1 = <<>> /\ windows[1].requests = 0 /\ windows[2].requests = 0
  BY <1>1 DEF Init, Sides
<1>3. ExcludedRows(opts, periods, read1) = {}
  BY <1>2 DEF ExcludedRows
<1>4. Cardinality({}) = 0
  BY FS_EmptySet
<1>5. Requests = 0
  BY <1>2 DEF Requests
<1>6. tally \in TallyTypes /\ incomplete \in BOOLEAN
  BY <1>2 DEF TallyTypes
<1>7. tally.rows = tally.outside + tally.unmatched + Requests + Cardinality(ExcludedRows(opts, periods, read1))
  <2>1. tally.rows = 0 /\ tally.outside = 0 /\ tally.unmatched = 0
    BY <1>2
  <2>2. Cardinality(ExcludedRows(opts, periods, read1)) = 0
    BY <1>3, <1>4
  <2>3. QED
    BY ONLY <1>5, <2>1, <2>2
<1>8. QED
  BY <1>3, <1>6, <1>7 DEF TallyOK

\* The requests of the windows are one more for an analysed record.
LEMMA RequestsMove ==
    ASSUME NEW row \in Rows, Taken(row), WindowsOK
    PROVE  /\ Requests \in Nat
           /\ Requests' = Requests + IF AnalysedAt(opts, periods, row) THEN 1 ELSE 0
<1>1. /\ windows \in [Sides -> WindowTypes] /\ 1 \in Sides /\ 2 \in Sides
      /\ windows[1].requests \in Nat /\ windows[2].requests \in Nat
  BY DEF WindowsOK, WindowTypes, Sides
<1>2. Requests \in Nat /\ Requests = windows[1].requests + windows[2].requests
  BY <1>1 DEF Requests
<1>3. CASE ~AnalysedAt(opts, periods, row)
  <2>1. windows' = windows
    BY <1>3 DEF Taken
  <2>2. QED
    BY <1>2, <1>3, <2>1 DEF Requests
<1>4. CASE AnalysedAt(opts, periods, row)
  <2>1. PICK d, w : d = SideAt(periods, row) /\ w = WindowAfter(windows[d], row)
    OBVIOUS
  <2>2. d \in Sides /\ windows' = [windows EXCEPT ![d] = w]
    BY <1>4, <2>1, WindowsTake
  <2>3. w.requests = windows[d].requests + 1
    BY <2>1 DEF WindowAfter
  <2>4. d = 1 \/ d = 2
    BY <2>2 DEF Sides
  <2>5. Requests' = windows'[1].requests + windows'[2].requests
    BY DEF Requests
  <2>6. CASE d = 1
    <3>1. windows'[1].requests = windows[1].requests + 1 /\ windows'[2] = windows[2]
      BY <1>1, <2>2, <2>3, <2>6
    <3>2. QED
      BY <1>1, <1>2, <1>4, <2>5, <3>1
  <2>7. CASE d = 2
    <3>1. windows'[2].requests = windows[2].requests + 1 /\ windows'[1] = windows[1]
      BY <1>1, <2>2, <2>3, <2>7
    <3>2. QED
      BY <1>1, <1>2, <1>4, <2>5, <3>1
  <2>8. QED
    BY <2>4, <2>6, <2>7
<1>5. QED
  BY <1>2, <1>3, <1>4

\* A record that is taken is counted once.
LEMMA TallyTake ==
    ASSUME NEW row \in Rows, Taken(row), ReadOK, WindowsOK, TallyOK
    PROVE  TallyOK'
<1>1. PICK o, p, rows, more, n :
         o = opts /\ p = periods /\ rows = read1 /\ more = Append(rows, row) /\ n = Len(rows) + 1
  OBVIOUS
<1>2. opts' = o /\ periods' = p /\ read1' = more /\ OneMore(rows, row, more, n)
  BY <1>1 DEF Taken, ReadOK, OneMore
<1>3. PICK E, F : E = ExcludedRows(o, p, rows) /\ F = ExcludedRows(o, p, more)
  OBVIOUS
<1>4. F = (IF ExcludedAt(o, p, row) THEN E \cup {n} ELSE E) /\ IsFiniteSet(E) /\ n \notin E
  <2>1. OneMore(rows, row, more, n)
    BY <1>2
  <2>2. Joins(F, E, n, ExcludedAt(o, p, row)) /\ IsFiniteSet(E) /\ n \notin E
    BY <1>3, <2>1, ExcludedGrow
  <2>3. QED
    BY <2>2 DEF Joins
<1>5. PICK c, e : c = Cardinality(E) /\ e = Cardinality(F)
  OBVIOUS
<1>6. c \in Nat /\ e = c + IF ExcludedAt(o, p, row) THEN 1 ELSE 0
  <2>1. c \in Nat
    BY <1>4, <1>5, FS_CardinalityType
  <2>2. Cardinality(E \cup {n}) = Cardinality(E) + 1
    BY <1>4, CountMore
  <2>3. QED
    BY <1>4, <1>5, <2>1, <2>2
<1>7. PICK side, match, known : /\ side = (SideAt(p, row) # 0) /\ match = MatchedAt(o, row)
                                /\ known = IsSupported(row)
  OBVIOUS
<1>8. side \in BOOLEAN /\ match \in BOOLEAN /\ known \in BOOLEAN
  BY <1>7 DEF MatchedAt, IsSupported
<1>9. /\ AnalysedAt(o, p, row) <=> side /\ match /\ known
      /\ ExcludedAt(o, p, row) <=> side /\ match /\ ~known
  BY <1>7, <1>8 DEF AnalysedAt, ExcludedAt
<1>10. /\ tally' = [rows |-> tally.rows + 1, outside |-> tally.outside + IF side THEN 0 ELSE 1,
                    excluded |-> tally.excluded + IF known THEN 0 ELSE 1,
                    unmatched |-> tally.unmatched + IF side /\ ~match THEN 1 ELSE 0]
       /\ incomplete' = (incomplete \/ (side /\ match /\ ~known))
  <2>1. /\ tally' = [rows |-> tally.rows + 1, outside |-> tally.outside + IF SideAt(p, row) = 0 THEN 1 ELSE 0,
                     excluded |-> tally.excluded + IF IsSupported(row) THEN 0 ELSE 1,
                     unmatched |-> tally.unmatched + IF SideAt(p, row) # 0 /\ ~MatchedAt(o, row) THEN 1 ELSE 0]
        /\ incomplete' = (incomplete \/ (SideAt(p, row) # 0 /\ MatchedAt(o, row) /\ ~IsSupported(row)))
    BY <1>1 DEF Taken
  <2>2. SideAt(p, row) = 0 <=> ~side
    BY <1>7
  <2>3. QED
    BY <1>7, <1>8, <2>1, <2>2
<1>11. PICK r, rNew : r = Requests /\ rNew = Requests'
  OBVIOUS
<1>12. r \in Nat /\ rNew = r + IF side /\ match /\ known THEN 1 ELSE 0
  BY <1>1, <1>9, <1>11, RequestsMove
<1>13. /\ tally \in TallyTypes /\ tally.rows = tally.outside + tally.unmatched + r + c
       /\ (~incomplete => E = {}) /\ incomplete \in BOOLEAN
  BY <1>1, <1>3, <1>5, <1>11 DEF TallyOK
<1>14. /\ tally.rows \in Nat /\ tally.outside \in Nat /\ tally.excluded \in Nat /\ tally.unmatched \in Nat
  BY <1>13 DEF TallyTypes
<1>15. tally' \in TallyTypes
  BY <1>10, <1>14 DEF TallyTypes
<1>16. tally'.rows = tally'.outside + tally'.unmatched + rNew + e
  <2>1. /\ tally'.rows = tally.rows + 1 /\ tally'.outside = tally.outside + (IF side THEN 0 ELSE 1)
        /\ tally'.unmatched = tally.unmatched + IF side /\ ~match THEN 1 ELSE 0
    BY <1>10
  <2>2. e = c + IF side /\ match /\ ~known THEN 1 ELSE 0
    BY <1>6, <1>9
  <2>3. tally.rows = tally.outside + tally.unmatched + r + c
    BY <1>13
  <2>4. CASE ~side
    BY ONLY <1>6, <1>12, <1>14, <2>1, <2>2, <2>3, <2>4
  <2>5. CASE side /\ ~match
    BY ONLY <1>6, <1>12, <1>14, <2>1, <2>2, <2>3, <2>5
  <2>6. CASE side /\ match /\ ~known
    BY ONLY <1>6, <1>12, <1>14, <2>1, <2>2, <2>3, <2>6
  <2>7. CASE side /\ match /\ known
    BY ONLY <1>6, <1>12, <1>14, <2>1, <2>2, <2>3, <2>7
  <2>8. QED
    BY <1>8, <2>4, <2>5, <2>6, <2>7
<1>17. ~incomplete' => F = {}
  BY <1>4, <1>9, <1>10, <1>13
<1>18. incomplete' \in BOOLEAN
  BY <1>8, <1>10, <1>13
<1>19. QED
  BY <1>2, <1>3, <1>5, <1>11, <1>15, <1>16, <1>17, <1>18 DEF TallyOK

\* Every step keeps the count.
LEMMA TallyNext == ReadOK /\ WindowsOK /\ TallyOK /\ [Next]_vars => TallyOK'
<1>1. SUFFICES ASSUME ReadOK, WindowsOK, TallyOK, [Next]_vars PROVE TallyOK'
  OBVIOUS
<1>2. CASE Settled
  <2>1. /\ UNCHANGED <<opts, read1, windows, tally>> /\ Requests' = Requests
        /\ incomplete' = incomplete \/ incomplete' = TRUE
    BY <1>2 DEF Settled, accounts, Requests
  <2>2. ExcludedRows(opts, periods, read1)' = ExcludedRows(opts, periods, read1)
    <3>1. CASE periods' = periods
      BY <2>1, <3>1
    <3>2. CASE read1 = <<>>
      <4>1. \A o, p : ExcludedRows(o, p, <<>>) = {}
        BY DEF ExcludedRows
      <4>2. QED
        BY <2>1, <3>2, <4>1
    <3>3. QED
      BY <1>2, <3>1, <3>2 DEF Settled
  <2>3. QED
    BY <1>1, <2>1, <2>2 DEF TallyOK
<1>3. QED
  BY <1>1, <1>2, MainSteps, TallyTake
-----------------------------------------------------------------------------
(* The accounts close.                                                      *)

AccountsOK == ReportOK /\ TallyOK

\* The accounts, in every state.
THEOREM AccountsInvariant == Spec => []AccountsOK
<1>1. Init /\ ReportOK => AccountsOK
  BY TallyInit DEF AccountsOK
<1>2. AccountsOK /\ ReportOK' /\ [Next]_vars => AccountsOK'
  BY TallyNext DEF AccountsOK, ReportOK, WeighedOK
<1>3. QED
  BY <1>1, <1>2, ReportInvariant, PTL DEF Spec

\* What is attributed to identities is what their records weigh.
LEMMA TrueWeights ==
    ASSUME WeighedOK, NEW s \in Sides
    PROVE  SumFunctionOnSet([g \in Groups |-> TrueWeight("tokens", s, g)], Groups)
              = AttributedTo(opts, periods, read1, s)
<1>1. PICK f, h : /\ f = [g \in Groups |-> TrueWeight("tokens", s, g)]
                  /\ h = Weights(opts, periods, read1, "tokens", s)
  OBVIOUS
<1>2. "tokens" \in Rankings
  BY DEF Rankings
<1>3. \A g \in Groups : TrueWeight("tokens", s, g) = h[g]
  BY <1>1, <1>2, Bounds
<1>4. \A g \in Groups : f[g] = h[g]
  BY <1>1, <1>3
<1>5. SumFunctionOnSet(f, Groups) = SumFunctionOnSet(h, Groups)
  BY <1>4, InvestigationAssumption, SumSame
<1>6. QED
  BY <1>1, <1>5 DEF AttributedTo

\* Accounted: between the windows, the models, the identities and the excluded records no
\* record is lost or counted twice.
THEOREM InvestigationAccounts == Spec => []Accounted
<1>1. AccountsOK => Accounted
  <2>1. SUFFICES ASSUME AccountsOK PROVE Accounted
    OBVIOUS
  <2>2. ReadOK /\ WindowsOK /\ AttributedOK /\ WeighedOK /\ ModelsOK /\ TallyOK
    BY <2>1 DEF AccountsOK, ReportOK, WeighedOK
  <2>3. ASSUME NEW s \in Sides
        PROVE  /\ windows[s].tokens = SumFunctionOnSet([m \in Known |-> models[m].sides[s].tokens], Known)
               /\ windows[s].requests = SumFunctionOnSet([m \in Known |-> models[m].sides[s].requests], Known)
               /\ windows[s].attributed = SumFunctionOnSet([g \in Groups |-> TrueWeight("tokens", s, g)], Groups)
               /\ windows[s].attributed <= windows[s].tokens
    <3>1. KnownIn(models) = Known
      BY DEF Known, KnownIn
    <3>2. windows[s].tokens = TokenSum(models, s) /\ windows[s].requests = RequestSum(models, s)
      BY <2>2 DEF ModelsOK
    <3>3. windows[s].tokens = SumFunctionOnSet([m \in Known |-> models[m].sides[s].tokens], Known)
      BY <3>1, <3>2 DEF TokenSum
    <3>4. windows[s].requests = SumFunctionOnSet([m \in Known |-> models[m].sides[s].requests], Known)
      BY <3>1, <3>2 DEF RequestSum
    <3>5. windows[s].attributed = AttributedTo(opts, periods, read1, s)
      BY <2>2 DEF AttributedOK
    <3>6. windows[s].attributed = SumFunctionOnSet([g \in Groups |-> TrueWeight("tokens", s, g)], Groups)
      BY <2>2, <3>5, TrueWeights
    <3>7. windows[s].attributed <= windows[s].tokens
      BY <2>2 DEF WindowsOK, WindowHolds
    <3>8. QED
      BY <3>3, <3>4, <3>6, <3>7
  <2>4. \A i : Side(read1[i]) = SideAt(periods, read1[i]) /\ Matched(read1[i]) = MatchedAt(opts, read1[i])
    BY SameRows
  <2>5. Excluded = ExcludedRows(opts, periods, read1)
    BY <2>4 DEF Excluded, ExcludedRows, ExcludedAt
  <2>6. tally.rows = tally.outside + tally.unmatched + Requests + Cardinality(Excluded)
    BY <2>2, <2>5 DEF TallyOK
  <2>7. ~incomplete => \A i \in DOMAIN read1 :
           Side(read1[i]) # 0 /\ Matched(read1[i]) => IsSupported(read1[i])
    BY <2>2, <2>5 DEF TallyOK, Excluded
  <2>8. QED
    BY <2>3, <2>6, <2>7 DEF Accounted
<1>2. QED
  BY <1>1, AccountsInvariant, PTL
-----------------------------------------------------------------------------
(* The registers and their limits.                                          *)

CountedRows(o, p, rows) == {i \in DOMAIN rows : SideAt(p, rows[i]) # 0 /\ MatchedAt(o, rows[i])}
TypesAt(o, p, rows) == {rows[i].type : i \in CountedRows(o, p, rows)}

\* The call types are those of the counted records, each once.
TypesOK ==
    /\ callTypes \in Seq(STRING) /\ Len(callTypes) <= MaxCallTypes
    /\ Range(callTypes) = TypesAt(opts, periods, read1)
    /\ IsFiniteSet(Range(callTypes)) /\ Cardinality(Range(callTypes)) = Len(callTypes)

OwnersOK == owner \in [Models -> Groups \cup {NoId}] /\ split \subseteq Models

\* The candidates' models.
UsedOK == usedBy \in [Groups -> SUBSET Models]

\* One more call type in a list.
LEMMA RangeMore ==
    ASSUME NEW S, NEW c \in Seq(S), NEW t \in S
    PROVE  /\ Range(Append(c, t)) = Range(c) \cup {t}
           /\ Append(c, t) \in Seq(S) /\ Len(Append(c, t)) = Len(c) + 1 /\ Len(c) \in Nat
<1>1. PICK d, n : d = Append(c, t) /\ n = Len(c) + 1
  OBVIOUS
<1>2. /\ d \in Seq(S) /\ Len(d) = n /\ Len(c) \in Nat /\ DOMAIN d = DOMAIN c \cup {n} /\ d[n] = t
      /\ \A i \in DOMAIN c : d[i] = c[i]
  <2>1. DOMAIN c = 1..Len(c) /\ Len(c) \in Nat /\ DOMAIN d = 1..(Len(c) + 1)
    BY <1>1
  <2>2. \A i \in 1..Len(c) : d[i] = c[i]
    BY <1>1
  <2>3. d \in Seq(S) /\ Len(d) = n
    BY <1>1
  <2>4. d[n] = t
    BY <1>1
  <2>5. DOMAIN d = DOMAIN c \cup {n}
    BY <1>1, <2>1
  <2>6. QED
    BY <2>1, <2>2, <2>3, <2>4, <2>5
<1>3. Range(d) = Range(c) \cup {t}
  BY <1>2 DEF Range
<1>4. QED
  BY <1>1, <1>2, <1>3

\* One more record joins the counted ones when it is one of them.
LEMMA TypesGrow ==
    ASSUME NEW o, NEW p, NEW rows, NEW row, NEW more, NEW n, OneMore(rows, row, more, n)
    PROVE  /\ TypesAt(o, p, more) = TypesAt(o, p, rows) \cup
                  (IF SideAt(p, row) # 0 /\ MatchedAt(o, row) THEN {row.type} ELSE {})
           /\ TypesAt(o, p, <<>>) = {}
<1>0. rows \in Seq(Rows) /\ row \in Rows /\ more = Append(rows, row) /\ n = Len(rows) + 1
  BY DEF OneMore
<1>1. /\ DOMAIN more = DOMAIN rows \cup {n} /\ n \notin DOMAIN rows
      /\ more[n] = row /\ \A i \in DOMAIN rows : more[i] = rows[i]
  <2>1. DOMAIN rows = 1..Len(rows) /\ Len(rows) \in Nat /\ DOMAIN more = 1..(Len(rows) + 1)
    BY <1>0
  <2>2. \A i \in 1..Len(rows) : more[i] = rows[i]
    BY <1>0
  <2>3. more[n] = row
    BY <1>0
  <2>4. QED
    BY <1>0, <2>1, <2>2, <2>3
<1>2. PICK C, D : C = CountedRows(o, p, rows) /\ D = CountedRows(o, p, more)
  OBVIOUS
<1>3. D = (IF SideAt(p, row) # 0 /\ MatchedAt(o, row) THEN C \cup {n} ELSE C) /\ C \subseteq DOMAIN rows
  BY <1>1, <1>2 DEF CountedRows
<1>4. {more[i].type : i \in C} = {rows[i].type : i \in C}
  BY <1>1, <1>3
<1>5. TypesAt(o, p, more) = {more[i].type : i \in D} /\ TypesAt(o, p, rows) = {rows[i].type : i \in C}
  BY <1>2 DEF TypesAt
<1>6. {more[i].type : i \in C \cup {n}} = {more[i].type : i \in C} \cup {row.type}
  BY <1>1
<1>7. TypesAt(o, p, <<>>) = {}
  BY DEF TypesAt, CountedRows
<1>8. QED
  BY <1>3, <1>4, <1>5, <1>6, <1>7

\* The registers start empty.
LEMMA RegistersInit == Init => TypesOK /\ OwnersOK /\ UsedOK
<1>1. SUFFICES ASSUME Init PROVE TypesOK /\ OwnersOK /\ UsedOK
  OBVIOUS
<1>2. callTypes = <<>> /\ read1 = <<>> /\ MaxCallTypes \in Nat
  BY <1>1, InvestigationAssumption DEF Init
<1>3. Range(callTypes) = {} /\ TypesAt(opts, periods, read1) = {}
  BY <1>2 DEF Range, TypesAt, CountedRows
<1>4. IsFiniteSet({}) /\ Cardinality({}) = 0
  BY FS_EmptySet
<1>5. callTypes \in Seq(STRING) /\ Len(callTypes) = 0 /\ Len(callTypes) <= MaxCallTypes
  BY <1>2
<1>6. TypesOK
  BY <1>3, <1>4, <1>5 DEF TypesOK
<1>7. QED
  BY <1>1, <1>6 DEF Init, OwnersOK, UsedOK

\* A record that is taken keeps the registers within their limits.
LEMMA RegistersTake ==
    ASSUME NEW row \in Rows, Taken(row), ReadOK, TypesOK, OwnersOK
    PROVE  TypesOK' /\ OwnersOK'
<1>1. PICK o, p, rows, more, n :
         o = opts /\ p = periods /\ rows = read1 /\ more = Append(rows, row) /\ n = Len(rows) + 1
  OBVIOUS
<1>2. opts' = o /\ periods' = p /\ read1' = more /\ OneMore(rows, row, more, n)
  BY <1>1 DEF Taken, ReadOK, OneMore
<1>3. row.type \in STRING /\ row.model \in Models /\ row.group \in Groups \cup {NoId} /\ MaxCallTypes \in Nat
  BY RowTypes, InvestigationAssumption
<1>4. PICK c, R : c = callTypes /\ R = Range(callTypes)
  OBVIOUS
<1>5. /\ c \in Seq(STRING) /\ Len(c) <= MaxCallTypes /\ Len(c) \in Nat /\ R = Range(c)
      /\ R = TypesAt(o, p, rows) /\ IsFiniteSet(R) /\ Cardinality(R) = Len(c)
  BY <1>1, <1>4 DEF TypesOK
<1>6. TypesAt(o, p, more) = R \cup (IF SideAt(p, row) # 0 /\ MatchedAt(o, row) THEN {row.type} ELSE {})
  BY <1>2, <1>5, TypesGrow
<1>7. TypesOK'
  <2>1. CASE SideAt(p, row) # 0 /\ MatchedAt(o, row) /\ row.type \notin R
    <3>1. callTypes' = Append(c, row.type)
      BY <1>1, <1>4, <2>1 DEF Taken
    <3>2. Range(callTypes') = R \cup {row.type} /\ callTypes' \in Seq(STRING) /\ Len(callTypes') = Len(c) + 1
      <4>1. PICK t, S : t = row.type /\ S = STRING
        OBVIOUS
      <4>2. c \in Seq(S) /\ t \in S
        BY <1>3, <1>5, <4>1
      <4>3. Range(Append(c, t)) = Range(c) \cup {t} /\ Append(c, t) \in Seq(S) /\ Len(Append(c, t)) = Len(c) + 1
        BY ONLY <4>2, RangeMore
      <4>4. QED
        BY <1>5, <3>1, <4>1, <4>3
    <3>3. Len(c) # MaxCallTypes
      <4>1. ~TooManyTypes(row)
        BY DEF Taken, Refused
      <4>2. Side(row) = SideAt(p, row) /\ Matched(row) = MatchedAt(o, row)
        BY <1>1, SameRows
      <4>3. QED
        BY <1>4, <2>1, <4>1, <4>2 DEF TooManyTypes
    <3>4. IsFiniteSet(R \cup {row.type}) /\ Cardinality(R \cup {row.type}) = Cardinality(R) + 1
      BY <1>5, <2>1, FS_AddElement
    <3>5. Len(callTypes') <= MaxCallTypes
      BY <1>3, <1>5, <3>2, <3>3
    <3>6. TypesAt(o, p, more) = R \cup {row.type}
      BY <1>6, <2>1
    <3>7. Cardinality(Range(callTypes')) = Len(callTypes') /\ IsFiniteSet(Range(callTypes'))
      BY <1>5, <3>2, <3>4
    <3>8. QED
      BY <1>2, <3>2, <3>5, <3>6, <3>7 DEF TypesOK
  <2>2. CASE ~(SideAt(p, row) # 0 /\ MatchedAt(o, row) /\ row.type \notin R)
    <3>1. callTypes' = c
      BY <1>1, <1>4, <2>2 DEF Taken
    <3>2. TypesAt(o, p, more) = R
      BY <1>6, <2>2
    <3>3. QED
      BY <1>2, <1>5, <3>1, <3>2 DEF TypesOK
  <2>3. QED
    BY <2>1, <2>2
<1>8. OwnersOK'
  <2>1. CASE ~AnalysedAt(opts, periods, row)
    BY <2>1 DEF Taken, OwnersOK
  <2>2. CASE AnalysedAt(opts, periods, row)
    <3>1. \/ /\ split' = SplitAfter(row)
             /\ owner' = [owner EXCEPT ![row.model] = IF @ = NoId THEN row.group ELSE @]
          \/ UNCHANGED <<split, owner>>
      BY <2>2 DEF Taken, Analyse
    <3>2. QED
      BY <1>3, <3>1 DEF OwnersOK, SplitAfter
  <2>3. QED
    BY <2>1, <2>2
<1>9. QED
  BY <1>7, <1>8

\* Every step keeps the registers within their limits.
LEMMA RegistersNext == ReadOK /\ TypesOK /\ OwnersOK /\ [Next]_vars => TypesOK' /\ OwnersOK'
<1>1. SUFFICES ASSUME ReadOK, TypesOK, OwnersOK, [Next]_vars PROVE TypesOK' /\ OwnersOK'
  OBVIOUS
<1>2. CASE Settled
  <2>1. UNCHANGED <<opts, read1, callTypes, owner, split>>
    BY <1>2 DEF Settled, accounts
  <2>2. TypesAt(opts, periods, read1)' = TypesAt(opts, periods, read1)
    <3>1. CASE periods' = periods
      BY <2>1, <3>1
    <3>2. CASE read1 = <<>>
      <4>1. \A o, p : TypesAt(o, p, <<>>) = {}
        BY DEF TypesAt, CountedRows
      <4>2. QED
        BY <2>1, <3>2, <4>1
    <3>3. QED
      BY <1>2, <3>1, <3>2 DEF Settled
  <2>3. QED
    BY <1>1, <2>1, <2>2 DEF TypesOK, OwnersOK
<1>3. QED
  BY <1>1, <1>2, MainSteps, RegistersTake

\* Every step keeps the candidates' models models.
LEMMA UsedNext == ReadOK /\ UsedOK /\ [Next]_vars => UsedOK'
<1>1. SUFFICES ASSUME ReadOK, UsedOK, [Next]_vars PROVE UsedOK'
  OBVIOUS
<1>2. ASSUME usedBy' = usedBy PROVE UsedOK'
  BY <1>1, <1>2 DEF UsedOK
<1>3. CASE VisitOrder
  <2>1. CASE usedBy' = usedBy
    BY <1>2, <2>1
  <2>2. CASE usedBy' # usedBy
    <3>1. PICK row : row = NextRow
      OBVIOUS
    <3>2. row \in Rows
      BY <1>1, <1>3, <3>1, VisitedRow DEF VisitOrder, Visiting, ReadOK
    <3>3. usedBy' = [usedBy EXCEPT ![row.group] = @ \cup {row.model}]
      BY <1>3, <2>2, <3>1 DEF VisitOrder, Stop
    <3>4. row.model \in Models
      BY <3>2, RowTypes
    <3>5. QED
      BY <1>1, <3>3, <3>4 DEF UsedOK
  <2>3. QED
    BY <2>1, <2>2
<1>4. CASE ~VisitOrder
  <2>1. usedBy' = usedBy
    BY <1>1, <1>4 DEF Next, Investigation, Open, ReadFails, VisitSpan, EndSpan, VisitMain, EndMain, EndOrder, Stop,
                      vars
  <2>2. QED
    BY <1>2, <2>1
<1>5. QED
  BY <1>3, <1>4

RegistersOK == AccountsOK /\ TypesOK /\ OwnersOK /\ UsedOK

\* The registers, in every state.
THEOREM RegistersInvariant == Spec => []RegistersOK
<1>1. Init /\ AccountsOK => RegistersOK
  BY RegistersInit DEF RegistersOK
<1>2. RegistersOK /\ AccountsOK' /\ [Next]_vars => RegistersOK'
  BY RegistersNext, UsedNext DEF RegistersOK, AccountsOK, ReportOK, WeighedOK
<1>3. QED
  BY <1>1, <1>2, AccountsInvariant, PTL DEF Spec

\* No sketch outgrows its limits.
LEMMA SketchTypes ==
    ASSUME WindowsOK, SketchOK, NEW r \in Rankings, NEW s \in Sides
    PROVE  /\ sketch[r][s].count \in [Groups -> 0..MaxCount] /\ sketch[r][s].offset \in 0..MaxCount
           /\ Cardinality(Tracked(sketch[r][s])) <= SketchSize
<1>1. PICK k, S : k = sketch[r][s] /\ S = SumFunctionOnSet(k.count, Groups)
  OBVIOUS
<1>2. /\ k \in Sketches /\ Cardinality(Tracked(k)) <= SketchSize
      /\ S + k.offset \in Nat /\ S + k.offset <= windows[s].tokens
  BY <1>1 DEF SketchOK, SketchHolds, Load
<1>3. windows[s].tokens \in Nat /\ windows[s].tokens <= MaxCount /\ MaxCount \in Nat
  BY InvestigationAssumption DEF WindowsOK, WindowHolds, WindowTypes
<1>4. k.count \in [Groups -> Nat] /\ k.offset \in Nat
  BY <1>2 DEF Sketches
<1>5. S \in Nat
  BY <1>1, <1>4, InvestigationAssumption, SumType
<1>6. k.offset \in 0..MaxCount /\ S <= MaxCount
  BY <1>2, <1>3, <1>4, <1>5
<1>7. ASSUME NEW g \in Groups PROVE k.count[g] \in 0..MaxCount
  <2>1. S = k.count[g] + SumFunctionOnSet(k.count, Groups \ {g})
    BY <1>1, <1>4, InvestigationAssumption, SumRemove
  <2>2. IsFiniteSet(Groups \ {g}) /\ \A h \in Groups \ {g} : k.count[h] \in Nat
    BY <1>4, InvestigationAssumption, FS_RemoveElement
  <2>3. SumFunctionOnSet(k.count, Groups \ {g}) \in Nat
    BY <2>2, SumType
  <2>4. QED
    BY <1>3, <1>4, <1>6, <2>1, <2>3
<1>8. k.count \in [Groups -> 0..MaxCount]
  BY <1>4, <1>7
<1>9. QED
  BY <1>1, <1>2, <1>6, <1>8

\* TypeOK: the variables stay within the limits of the investigation.
THEOREM InvestigationTypes == Spec => []TypeOK
<1>1. RegistersOK => TypeOK
  <2>1. SUFFICES ASSUME RegistersOK PROVE TypeOK
    OBVIOUS
  <2>2. /\ ReadOK /\ WindowsOK /\ SketchOK /\ ModelsOK /\ OrderOK /\ TallyOK
        /\ TypesOK /\ OwnersOK /\ UsedOK
    BY <2>1 DEF RegistersOK, AccountsOK, ReportOK, WeighedOK
  <2>3. /\ FileTypeOK /\ opts \in OptionSet
        /\ pc \in {"span", "main", "order", "ok", "gap", "error"}
        /\ \A rows \in {read0, read1, read2} : rows \in Seq(Rows) /\ Len(rows) <= MaxRows
    BY <2>2 DEF ReadOK
  <2>4. periods \in {NoId} \cup [Sides -> [start: Nat, end: Nat]]
    BY <2>2 DEF ReadOK, Pairs
  <2>5. tally \in [rows: Nat, outside: Nat, excluded: Nat, unmatched: Nat] /\ incomplete \in BOOLEAN
    BY <2>2 DEF TallyOK, TallyTypes
  <2>6. callTypes \in Seq(STRING) /\ Len(callTypes) <= MaxCallTypes
    BY <2>2 DEF TypesOK
  <2>7. windows \in [Sides -> [requests: Nat, tokens: 0..MaxCount, attributed: 0..MaxCount]]
    <3>1. ASSUME NEW s \in Sides
          PROVE  windows[s] \in [requests: Nat, tokens: 0..MaxCount, attributed: 0..MaxCount]
      <4>1. PICK w : w = windows[s]
        OBVIOUS
      <4>2. w \in WindowTypes /\ w.attributed <= w.tokens /\ w.tokens <= MaxCount
        BY <2>2, <4>1 DEF WindowsOK, WindowHolds
      <4>3. MaxCount \in Nat
        BY InvestigationAssumption
      <4>4. /\ w = [requests |-> w.requests, tokens |-> w.tokens, attributed |-> w.attributed]
            /\ w.requests \in Nat /\ w.tokens \in Nat /\ w.attributed \in Nat
        BY <4>2 DEF WindowTypes
      <4>5. w.tokens \in 0..MaxCount /\ w.attributed \in 0..MaxCount
        BY <4>2, <4>3, <4>4
      <4>6. QED
        BY ONLY <4>1, <4>4, <4>5
    <3>2. windows = [s \in Sides |-> windows[s]]
      BY <2>2 DEF WindowsOK
    <3>3. QED
      BY <3>1, <3>2
  <2>8. \A r \in Rankings, s \in Sides :
          /\ sketch[r][s].count \in [Groups -> 0..MaxCount] /\ sketch[r][s].offset \in 0..MaxCount
          /\ Cardinality(Tracked(sketch[r][s])) <= SketchSize
    BY <2>2, SketchTypes
  <2>9. \A m \in Models : models[m] = NoId \/ models[m] \in ModelTypes
    BY <2>2, ModelsTyped
  <2>10. Cardinality(Known) <= MaxModels
    <3>1. Known = KnownIn(models)
      BY DEF Known, KnownIn
    <3>2. QED
      BY <2>2, <3>1 DEF ModelsOK
  <2>11. owner \in [Models -> Groups \cup {NoId}] /\ split \subseteq Models
    BY <2>2 DEF OwnersOK
  <2>12. order \in [Groups -> 0..MaxRows] /\ usedBy \in [Groups -> SUBSET Models]
    BY <2>2 DEF OrderOK, UsedOK
  <2>13. QED
    BY <2>3, <2>4, <2>5, <2>6, <2>7, <2>8, <2>9, <2>10, <2>11, <2>12 DEF TypeOK
<1>2. QED
  BY <1>1, RegistersInvariant, PTL
-----------------------------------------------------------------------------
(* An unchanged file within the limits is never refused.                    *)

ModelsAt(o, p, rows) == {rows[i].model : i \in {i \in DOMAIN rows : AnalysedAt(o, p, rows[i])}}

\* What the records must be for a report, in terms of the records counted.
LEMMA ReportableMeans ==
    ASSUME NEW rows, Reportable(rows), NEW p, p = SelectPeriods(rows)
    PROVE  /\ rows \in Seq(Rows) /\ Len(rows) <= MaxRows /\ ~Duplicated(rows) /\ p # NoId
           /\ \A i \in DOMAIN rows : rows[i].t # BadTime /\ rows[i].id # 0
           /\ \A i \in DOMAIN rows : SideAt(p, rows[i]) # 0 /\ IsSupported(rows[i]) => rows[i].end # "wrong"
           /\ (\E i \in DOMAIN rows : AnalysedAt(opts, p, rows[i])) \/ opts.scope # NoId \/ opts.source
           /\ Cardinality(TypesAt(opts, p, rows)) <= MaxCallTypes
           /\ Cardinality(ModelsAt(opts, p, rows)) <= MaxModels
           /\ \A s \in Sides : TokensOf(rows, SideRows(opts, p, rows, s)) <= MaxCount
<1>1. PICK inside, chosen, analysed :
         /\ inside = {rows[i] : i \in {i \in DOMAIN rows : \E s \in Sides : In(p[s], rows[i].t)}}
         /\ chosen = {r \in inside : Matched(r)} /\ analysed = {r \in chosen : IsSupported(r)}
  OBVIOUS
<1>2. /\ rows \in Seq(Rows) /\ Len(rows) <= MaxRows /\ ~Duplicated(rows) /\ p # NoId
      /\ \A i \in DOMAIN rows : rows[i].t # BadTime /\ rows[i].id # 0
  BY DEF Reportable
<1>3. /\ \A r \in inside : IsSupported(r) => r.end # "wrong"
      /\ analysed # {} \/ opts.scope # NoId \/ opts.source
      /\ Cardinality({r.type : r \in chosen}) <= MaxCallTypes
      /\ Cardinality({r.model : r \in analysed}) <= MaxModels
      /\ \A s \in Sides : TokensOf(rows, {i \in DOMAIN rows : rows[i] \in analysed /\ In(p[s], rows[i].t)}) <= MaxCount
  BY <1>1 DEF Reportable
<1>4. \A x : SideAt(p, x) # 0 <=> \E s \in Sides : In(p[s], x.t)
  BY DEF SideAt, Sides
<1>5. \A x : Matched(x) = MatchedAt(opts, x)
  BY SameRows
<1>6. \A i \in DOMAIN rows : SideAt(p, rows[i]) # 0 => rows[i] \in inside
  BY <1>1, <1>4
<1>7. \A r \in inside : SideAt(p, r) # 0 /\ \E i \in DOMAIN rows : r = rows[i]
  BY <1>1, <1>4
<1>8. /\ \A i \in DOMAIN rows : AnalysedAt(opts, p, rows[i]) => rows[i] \in analysed
      /\ \A r \in analysed : AnalysedAt(opts, p, r) /\ \E i \in DOMAIN rows : r = rows[i]
  BY <1>1, <1>5, <1>6, <1>7 DEF AnalysedAt
<1>9. TypesAt(opts, p, rows) = {r.type : r \in chosen}
  <2>1. /\ \A i \in CountedRows(opts, p, rows) : rows[i] \in chosen
        /\ \A r \in chosen : \E i \in CountedRows(opts, p, rows) : r = rows[i]
    BY <1>1, <1>5, <1>6, <1>7 DEF CountedRows
  <2>2. QED
    BY <2>1 DEF TypesAt
<1>10. ModelsAt(opts, p, rows) = {r.model : r \in analysed}
  BY <1>8 DEF ModelsAt
<1>11. ASSUME NEW s \in Sides PROVE TokensOf(rows, SideRows(opts, p, rows, s)) <= MaxCount
  <2>1. PICK I, J : /\ I = {i \in DOMAIN rows : rows[i] \in analysed /\ In(p[s], rows[i].t)}
                    /\ J = SideRows(opts, p, rows, s)
    OBVIOUS
  <2>2. J \in SUBSET I
    BY <1>8, <2>1 DEF SideRows, SideAt, Sides
  <2>3. I \in SUBSET DOMAIN rows
    BY <2>1
  <2>4. TokensOf(rows, J) \in Nat /\ TokensOf(rows, I) \in Nat /\ TokensOf(rows, J) <= TokensOf(rows, I)
    BY <1>2, <2>2, <2>3, TokensPart
  <2>5. TokensOf(rows, I) <= MaxCount /\ MaxCount \in Nat
    BY <1>3, <2>1, InvestigationAssumption
  <2>6. QED
    BY <2>1, <2>4, <2>5
<1>12. \A i \in DOMAIN rows : SideAt(p, rows[i]) # 0 /\ IsSupported(rows[i]) => rows[i].end # "wrong"
  BY <1>3, <1>6
<1>13. (\E i \in DOMAIN rows : AnalysedAt(opts, p, rows[i])) \/ opts.scope # NoId \/ opts.source
  BY <1>3, <1>8
<1>14. QED
  BY <1>2, <1>3, <1>9, <1>10, <1>11, <1>12, <1>13

\* The first records of a file are part of it.
LEMMA PartOfFile ==
    ASSUME NEW o, NEW p, NEW rows \in Seq(Rows), NEW whole \in Seq(Rows), Begins(rows, whole)
    PROVE  /\ DOMAIN rows \subseteq DOMAIN whole /\ \A i \in DOMAIN rows : rows[i] = whole[i]
           /\ \A s : /\ TokensOf(rows, SideRows(o, p, rows, s)) \in Nat
                     /\ TokensOf(whole, SideRows(o, p, whole, s)) \in Nat
                     /\ TokensOf(rows, SideRows(o, p, rows, s)) <= TokensOf(whole, SideRows(o, p, whole, s))
           /\ TypesAt(o, p, rows) \subseteq TypesAt(o, p, whole) /\ IsFiniteSet(TypesAt(o, p, whole))
           /\ ModelsAt(o, p, rows) \subseteq ModelsAt(o, p, whole) /\ IsFiniteSet(ModelsAt(o, p, whole))
<1>1. DOMAIN rows \subseteq DOMAIN whole /\ \A i \in DOMAIN rows : rows[i] = whole[i]
  <2>1. DOMAIN rows = 1..Len(rows) /\ DOMAIN whole = 1..Len(whole) /\ Len(rows) \in Nat /\ Len(whole) \in Nat
    OBVIOUS
  <2>2. QED
    BY <2>1 DEF Begins
<1>2. ASSUME NEW s
      PROVE  /\ TokensOf(rows, SideRows(o, p, rows, s)) \in Nat
             /\ TokensOf(whole, SideRows(o, p, whole, s)) \in Nat
             /\ TokensOf(rows, SideRows(o, p, rows, s)) <= TokensOf(whole, SideRows(o, p, whole, s))
  <2>1. PICK I, J : I = SideRows(o, p, rows, s) /\ J = SideRows(o, p, whole, s)
    OBVIOUS
  <2>2. I \in SUBSET DOMAIN rows /\ J \in SUBSET DOMAIN whole /\ IsFiniteSet(I)
    BY <2>1, RowsFinite
  <2>3. I \in SUBSET J
    BY <1>1, <2>1 DEF SideRows
  <2>4. TokensOf(whole, I) \in Nat /\ TokensOf(whole, J) \in Nat /\ TokensOf(whole, I) <= TokensOf(whole, J)
    BY <2>2, <2>3, TokensPart
  <2>5. TokensOf(rows, I) = TokensOf(whole, I)
    <3>1. PICK f, g : f = [i \in I |-> rows[i].tokens] /\ g = [i \in I |-> whole[i].tokens]
      OBVIOUS
    <3>2. \A i \in I : f[i] = g[i]
      BY <1>1, <2>2, <3>1
    <3>3. SumFunctionOnSet(f, I) = SumFunctionOnSet(g, I)
      BY <2>2, <3>2, SumSame
    <3>4. QED
      BY <3>1, <3>3 DEF TokensOf
  <2>6. QED
    BY <2>1, <2>4, <2>5
<1>3. TypesAt(o, p, rows) \subseteq TypesAt(o, p, whole)
  BY <1>1 DEF TypesAt, CountedRows
<1>4. ModelsAt(o, p, rows) \subseteq ModelsAt(o, p, whole)
  BY <1>1 DEF ModelsAt
<1>5. IsFiniteSet(TypesAt(o, p, whole))
  <2>1. PICK I, f : I = CountedRows(o, p, whole) /\ f = [i \in I |-> whole[i].type]
    OBVIOUS
  <2>2. I \in SUBSET DOMAIN whole
    BY <2>1 DEF CountedRows
  <2>3. TypesAt(o, p, whole) = {f[i] : i \in I}
    BY <2>1 DEF TypesAt
  <2>4. IsFiniteSet(I)
    BY <2>2, IndicesFinite
  <2>5. QED
    BY <2>3, <2>4, ImageFinite
<1>6. IsFiniteSet(ModelsAt(o, p, whole))
  <2>1. PICK I, f : I = {i \in DOMAIN whole : AnalysedAt(o, p, whole[i])} /\ f = [i \in I |-> whole[i].model]
    OBVIOUS
  <2>2. I \in SUBSET DOMAIN whole
    BY <2>1
  <2>3. ModelsAt(o, p, whole) = {f[i] : i \in I}
    BY <2>1 DEF ModelsAt
  <2>4. IsFiniteSet(I)
    BY <2>2, IndicesFinite
  <2>5. QED
    BY <2>3, <2>4, ImageFinite
<1>7. QED
  BY <1>1, <1>2, <1>3, <1>4, <1>5, <1>6

\* While nobody has changed the file, the passes hold its first records, a
\* finished pass holds all of them, and no file within the limits was refused.
StableOK ==
    changes = 0 =>
        /\ fd # "old"
        /\ Begins(read0, file) /\ Begins(read1, file) /\ Begins(read2, file)
        /\ Chosen /\ opts.periods = NoId => read0 = file
        /\ Closed => read1 = file
        /\ Reportable(file) => pc # "error"

\* The periods of the main pass are then those of the file.
LEMMA PeriodsOfFile ==
    ASSUME ReadOK, StableOK, changes = 0, pc = "main", fd # "closed"
    PROVE  periods = SelectPeriods(file)
<1>1. CASE opts.periods = NoId
  BY <1>1 DEF ReadOK, StableOK, Chosen
<1>2. CASE opts.periods # NoId
  BY <1>2 DEF ReadOK, SelectPeriods
<1>3. QED
  BY <1>1, <1>2

\* The main pass accepts the next record of a file within the limits: the
\* types, the models and the tokens so far and those of the record are all
\* part of what the file holds.
LEMMA RowAccepted ==
    ASSUME RegistersOK, StableOK, changes = 0, Reportable(file), pc = "main", HasRow
    PROVE  ~Refused(NextRow)
<1>1. PICK row, o, p, more, n : /\ row = NextRow /\ o = opts /\ p = periods
                                /\ more = Append(read1, row) /\ n = Len(read1) + 1
  OBVIOUS
<1>2. ReadOK /\ WindowsOK /\ ModelsOK /\ TypesOK
  BY DEF RegistersOK, AccountsOK, ReportOK, WeighedOK
<1>3. p = SelectPeriods(file)
  BY <1>1, <1>2, PeriodsOfFile DEF HasRow
<1>4. /\ file \in Seq(Rows)
      /\ \A i \in DOMAIN file : file[i].t # BadTime /\ file[i].id # 0
      /\ \A i \in DOMAIN file : SideAt(p, file[i]) # 0 /\ IsSupported(file[i]) => file[i].end # "wrong"
      /\ Cardinality(TypesAt(o, p, file)) <= MaxCallTypes
      /\ Cardinality(ModelsAt(o, p, file)) <= MaxModels
      /\ \A s \in Sides : TokensOf(file, SideRows(o, p, file, s)) <= MaxCount
  BY <1>1, <1>3, ReportableMeans
<1>5. /\ read1 \in Seq(Rows) /\ Begins(read1, file) /\ Len(read1) = pos /\ fd # "old"
      /\ file \in Seq(Rows \cup {Torn})
  BY <1>2 DEF ReadOK, StableOK, FileTypeOK
<1>6. row = file[pos + 1] /\ pos + 1 \in DOMAIN file /\ Begins(more, file)
  BY <1>1, <1>5, NextOfFile
<1>7. row \in Rows /\ row.t # BadTime /\ row.id # 0 /\ row.tokens \in Nat
      /\ (SideAt(p, row) # 0 /\ IsSupported(row) => row.end # "wrong")
  <2>1. row \in Rows /\ row.t # BadTime /\ row.id # 0
    BY <1>4, <1>6
  <2>2. SideAt(p, row) # 0 /\ IsSupported(row) => row.end # "wrong"
    BY <1>4, <1>6
  <2>3. QED
    BY <2>1, <2>2, RowTypes
<1>8. OneMore(read1, row, more, n) /\ more \in Seq(Rows)
  BY <1>1, <1>5, <1>7 DEF OneMore
<1>9. /\ \A s : /\ TokensOf(more, SideRows(o, p, more, s)) \in Nat
                /\ TokensOf(file, SideRows(o, p, file, s)) \in Nat
                /\ TokensOf(more, SideRows(o, p, more, s)) <= TokensOf(file, SideRows(o, p, file, s))
      /\ TypesAt(o, p, more) \subseteq TypesAt(o, p, file) /\ IsFiniteSet(TypesAt(o, p, file))
      /\ ModelsAt(o, p, more) \subseteq ModelsAt(o, p, file) /\ IsFiniteSet(ModelsAt(o, p, file))
  BY <1>4, <1>6, <1>8, PartOfFile
<1>10. /\ Side(row) = SideAt(p, row) /\ Matched(row) = MatchedAt(o, row) /\ Analysed(row) = AnalysedAt(o, p, row)
  BY <1>1, SameRows
<1>11. MaxCount \in Nat /\ MaxModels \in Nat /\ MaxCallTypes \in Nat
  BY InvestigationAssumption
<1>12. ~Invalid(row)
  BY <1>7, <1>10 DEF Invalid
<1>13. ~TooManyTypes(row)
  <2>1. SUFFICES ASSUME SideAt(p, row) # 0, MatchedAt(o, row), row.type \notin Range(callTypes),
                        Len(callTypes) = MaxCallTypes
                 PROVE  FALSE
    BY <1>10 DEF TooManyTypes
  <2>2. PICK R, T : R = Range(callTypes) /\ T = TypesAt(o, p, file)
    OBVIOUS
  <2>3. R = TypesAt(o, p, read1) /\ IsFiniteSet(R) /\ Cardinality(R) = MaxCallTypes
    BY <1>1, <1>2, <2>1, <2>2 DEF TypesOK
  <2>4. TypesAt(o, p, more) = R \cup {row.type}
    BY <1>8, <2>1, <2>3, TypesGrow
  <2>5. IsFiniteSet(R \cup {row.type}) /\ Cardinality(R \cup {row.type}) = MaxCallTypes + 1
    BY <2>1, <2>2, <2>3, FS_AddElement
  <2>6. R \cup {row.type} \in SUBSET T /\ IsFiniteSet(T)
    BY <1>9, <2>2, <2>4
  <2>7. Cardinality(R \cup {row.type}) <= Cardinality(T) /\ Cardinality(T) \in Nat
    BY <2>6, FS_Subset, FS_CardinalityType
  <2>8. Cardinality(T) <= MaxCallTypes
    BY <1>4, <2>2
  <2>9. QED
    BY ONLY <1>11, <2>5, <2>7, <2>8
<1>14. ~TooManyTokens(row)
  <2>1. SUFFICES ASSUME AnalysedAt(o, p, row) PROVE windows[SideAt(p, row)].tokens + row.tokens <= MaxCount
    <3>1. CASE ~AnalysedAt(o, p, row)
      BY <1>10, <3>1 DEF TooManyTokens
    <3>2. CASE AnalysedAt(o, p, row)
      <4>1. windows[SideAt(p, row)].tokens \in Nat
        BY <1>2, <3>2 DEF WindowsOK, WindowTypes, AnalysedAt, SideAt, Sides
      <4>2. windows[SideAt(p, row)].tokens + row.tokens <= MaxCount
        BY <2>1, <3>2
      <4>3. QED
        BY <1>7, <1>10, <1>11, <4>1, <4>2 DEF TooManyTokens
    <3>3. QED
      BY <3>1, <3>2
  <2>2. PICK s : s = SideAt(p, row)
    OBVIOUS
  <2>3. s \in Sides
    BY <2>1, <2>2 DEF AnalysedAt, SideAt, Sides
  <2>4. windows[s].tokens = TokensOf(read1, SideRows(o, p, read1, s)) /\ windows[s].tokens \in Nat
    BY <1>1, <1>2, <2>3 DEF WindowsOK, WindowHolds, WindowTypes
  <2>5. Joins(SideRows(o, p, more, s), SideRows(o, p, read1, s), n, AnalysedAt(o, p, row) /\ SideAt(p, row) = s)
    BY <1>8, RowsGrow
  <2>6. SideRows(o, p, more, s) = SideRows(o, p, read1, s) \cup {n}
    BY <2>1, <2>2, <2>5 DEF Joins
  <2>7. SideRows(o, p, read1, s) \in SUBSET DOMAIN read1
    BY DEF SideRows
  <2>8. TokensOf(more, SideRows(o, p, more, s)) = windows[s].tokens + row.tokens
    BY <1>8, <2>4, <2>6, <2>7, TokensGrow
  <2>9. TokensOf(file, SideRows(o, p, file, s)) <= MaxCount
    BY <1>4, <2>3
  <2>10. QED
    BY <1>7, <1>9, <1>11, <2>2, <2>4, <2>8, <2>9
<1>15. ~TooManyModels(row)
  <2>1. SUFFICES ASSUME AnalysedAt(o, p, row), models[row.model] = NoId, Cardinality(Known) >= MaxModels PROVE FALSE
    BY <1>10 DEF TooManyModels
  <2>2. PICK K, T : K = Known /\ T = ModelsAt(o, p, file)
    OBVIOUS
  <2>3. K \subseteq ModelsAt(o, p, read1)
    <3>1. SUFFICES ASSUME NEW m \in K PROVE m \in ModelsAt(o, p, read1)
      OBVIOUS
    <3>2. m \in Models /\ Described(o, p, read1, m) # NoId
      BY <1>1, <1>2, <2>2, <3>1 DEF Known, ModelsOK
    <3>3. ModelRows(o, p, read1, m) # {}
      BY <3>2 DEF Described
    <3>4. QED
      BY <3>3 DEF ModelRows, ModelsAt
  <2>4. ModelsAt(o, p, read1) \subseteq ModelsAt(o, p, more) /\ row.model \in ModelsAt(o, p, more)
    <3>1. /\ DOMAIN more = 1..n /\ DOMAIN read1 = 1..(n - 1) /\ n \in Nat \ {0}
      BY <1>1, <1>5
    <3>2. \A i \in 1..(n - 1) : more[i] = read1[i]
      BY <1>1, <1>5
    <3>3. more[n] = row
      BY <1>1, <1>5
    <3>4. QED
      BY <2>1, <3>1, <3>2, <3>3 DEF ModelsAt
  <2>5. K \cup {row.model} \in SUBSET T /\ IsFiniteSet(T) /\ Cardinality(T) <= MaxModels
    BY <1>4, <1>9, <2>2, <2>3, <2>4
  <2>6. IsFiniteSet(K) /\ row.model \notin K
    BY <2>1, <2>2, <2>5, FS_Subset DEF Known
  <2>7. Cardinality(K \cup {row.model}) = Cardinality(K) + 1 /\ Cardinality(K) \in Nat
    BY <2>6, CountMore, FS_CardinalityType
  <2>8. Cardinality(K \cup {row.model}) <= Cardinality(T) /\ Cardinality(T) \in Nat
    BY <2>5, FS_Subset, FS_CardinalityType
  <2>9. Cardinality(K) >= MaxModels
    BY <2>1, <2>2
  <2>10. QED
    BY ONLY <1>11, <2>5, <2>7, <2>8, <2>9
<1>16. QED
  BY <1>1, <1>12, <1>13, <1>14, <1>15 DEF Refused

\* No step of the investigation refuses an unchanged file within the limits.
LEMMA NotRefused ==
    ASSUME RegistersOK, StableOK, changes = 0, Reportable(file), Investigation
    PROVE  pc' # "error"
<1>1. PICK p : p = SelectPeriods(file)
  OBVIOUS
<1>2. /\ file \in Seq(Rows) /\ Len(file) <= MaxRows /\ ~Duplicated(file) /\ p # NoId
      /\ \A i \in DOMAIN file : file[i].t # BadTime
      /\ (\E i \in DOMAIN file : AnalysedAt(opts, p, file[i])) \/ opts.scope # NoId \/ opts.source
  BY <1>1, ReportableMeans
<1>3. ReadOK /\ WindowsOK
  BY DEF RegistersOK, AccountsOK, ReportOK, WeighedOK
<1>4. /\ fd # "old" /\ Begins(read0, file) /\ Begins(read1, file) /\ Begins(read2, file)
      /\ Chosen /\ opts.periods = NoId => read0 = file
      /\ Closed => read1 = file
      /\ pc # "error" /\ file \in Seq(Rows \cup {Torn})
  BY <1>3 DEF StableOK, ReadOK, FileTypeOK
<1>5. /\ read0 \in Seq(Rows) /\ read1 \in Seq(Rows) /\ read2 \in Seq(Rows)
      /\ pc = "span" => Len(read0) = pos
      /\ pc = "main" => Len(read1) = pos
      /\ pc = "order" => Len(read2) = pos
  BY <1>3 DEF ReadOK
<1>6. HasRow => NextRow = file[pos + 1] /\ pos + 1 \in DOMAIN file /\ pos < Len(file) /\ pos \in Nat
  BY <1>2, <1>3, <1>4 DEF HasRow, NextRow, Content, ReadOK, FileTypeOK
<1>7. CASE Open
  <2>1. ~(pc = "main" /\ SelectPeriods(read0) = NoId)
    <3>1. CASE opts.periods = NoId
      BY <1>1, <1>2, <1>4, <3>1 DEF Chosen
    <3>2. CASE opts.periods # NoId
      BY <1>1, <1>2, <3>2 DEF SelectPeriods
    <3>3. QED
      BY <3>1, <3>2
  <2>2. QED
    BY <1>4, <1>7, <2>1 DEF Open
<1>8. ~ReadFails
  <2>1. SUFFICES ASSUME HasRow, NextRow = Torn \/ pos = MaxRows PROVE FALSE
    BY DEF ReadFails, Unreadable
  <2>2. NextRow # Torn
    BY <1>2, <1>6, <2>1, SpendFileAssumption
  <2>3. pos # MaxRows
    BY <1>2, <1>6, <2>1, SpendFileAssumption
  <2>4. QED
    BY <2>1, <2>2, <2>3
<1>9. CASE VisitSpan
  BY <1>2, <1>4, <1>6, <1>9 DEF VisitSpan, Visiting
<1>10. CASE EndSpan
  <2>1. read0 = file
    BY <1>4, <1>5, <1>10, AllRead DEF EndSpan
  <2>2. QED
    BY <1>1, <1>2, <1>10, <2>1 DEF EndSpan
<1>11. CASE VisitMain
  <2>1. ~Refused(NextRow) /\ pc = "main"
    BY <1>11, RowAccepted DEF VisitMain, Visiting
  <2>2. QED
    BY <1>11, <2>1 DEF VisitMain
<1>12. CASE EndMain
  <2>1. read1 = file /\ pc = "main" /\ fd # "closed"
    BY <1>4, <1>5, <1>12, AllRead DEF EndMain, AtEnd
  <2>2. ~(Duplicated(read1) \/ SpanChanged)
    BY <1>2, <1>4, <2>1 DEF SpanChanged, Chosen
  <2>3. CASE Requests = 0 /\ ~(opts.scope # NoId \/ opts.source)
    <3>1. PICK i \in DOMAIN file : AnalysedAt(opts, p, file[i])
      BY <1>2, <2>3
    <3>2. p = periods
      BY <1>1, <1>3, <2>1, PeriodsOfFile
    <3>3. PICK s, I : s = SideAt(p, file[i]) /\ I = SideRows(opts, periods, read1, s)
      OBVIOUS
    <3>4. s \in Sides /\ i \in I
      BY <2>1, <3>1, <3>2, <3>3 DEF AnalysedAt, SideAt, Sides, SideRows
    <3>5. IsFiniteSet(I) /\ windows[s].requests = Cardinality(I)
      BY <1>3, <1>5, <3>3, <3>4, RowsFinite DEF WindowsOK, WindowHolds
    <3>6. Cardinality(I) # 0
      BY <3>4, <3>5, FS_EmptySet
    <3>7. windows[1].requests \in Nat /\ windows[2].requests \in Nat /\ (s = 1 \/ s = 2)
      BY <1>3, <3>4 DEF WindowsOK, WindowTypes, Sides
    <3>8. Requests # 0
      BY <3>5, <3>6, <3>7 DEF Requests
    <3>9. QED
      BY <2>3, <3>8
  <2>4. CASE ~(Requests = 0 /\ ~(opts.scope # NoId \/ opts.source))
    BY <1>12, <2>2, <2>4 DEF EndMain, Stop
  <2>5. QED
    BY <2>3, <2>4
<1>13. CASE VisitOrder
  BY <1>2, <1>4, <1>6, <1>13 DEF VisitOrder, Visiting
<1>14. CASE EndOrder
  <2>1. read2 = file /\ read1 = file
    BY <1>4, <1>5, <1>14, AllRead DEF EndOrder, Closed
  <2>2. QED
    BY <1>14, <2>1 DEF EndOrder, SameAgain, Stop
<1>15. QED
  BY <1>7, <1>8, <1>9, <1>10, <1>11, <1>12, <1>13, <1>14 DEF Investigation

\* Every start file is a file that nobody has changed yet.
LEMMA StableInit == Init => StableOK
<1>1. SUFFICES ASSUME Init PROVE StableOK
  OBVIOUS
<1>2. file \in Seq(Rows \cup {Torn})
  BY <1>1, SpendFileAssumption DEF Init, FileInit
<1>3. Begins(<<>>, file)
  BY <1>2 DEF Begins
<1>4. pc = (IF opts.periods = NoId THEN "span" ELSE "main") /\ fd = "closed"
      /\ read0 = <<>> /\ read1 = <<>> /\ read2 = <<>>
  BY <1>1 DEF Init, FileInit
<1>5. QED
  BY <1>3, <1>4 DEF StableOK, Chosen, Closed

\* Only another program moves the file of an investigation.
LEMMA StableNext == RegistersOK /\ RegistersOK' /\ StableOK /\ [Next]_vars => StableOK'
<1>1. SUFFICES ASSUME RegistersOK, RegistersOK', StableOK, [Next]_vars, changes' = 0 PROVE StableOK'
  BY DEF StableOK
<1>2. ReadOK /\ ReadOK'
  BY <1>1 DEF RegistersOK, AccountsOK, ReportOK, WeighedOK
<1>3. CASE UNCHANGED vars
  <2>1. Reportable(file)' <=> Reportable(file)
    BY <1>3 DEF vars, fileVars, Reportable, SelectPeriods, Matched
  <2>2. QED
    BY <1>1, <1>3, <2>1 DEF StableOK, vars, fileVars, Begins, Chosen, Closed
<1>4. ~Writer
  BY <1>1, <1>2 DEF Writer, ReadOK, FileTypeOK
<1>5. CASE Investigation
  <2>1. /\ changes' = changes /\ file' = file /\ opts' = opts /\ changes = 0
        /\ (fd' = fd \/ fd' = "path" \/ fd' = "closed")
    BY <1>1, <1>5 DEF Investigation, Open, OpenFile, ReadFails, Stop, CloseFile, VisitSpan, EndSpan, VisitMain,
         EndMain, VisitOrder, EndOrder, Advance
  <2>2. /\ fd # "old" /\ Begins(read0, file) /\ Begins(read1, file) /\ Begins(read2, file)
        /\ Chosen /\ opts.periods = NoId => read0 = file
        /\ Closed => read1 = file
        /\ file \in Seq(Rows \cup {Torn})
    BY <1>1, <1>2, <2>1 DEF StableOK, ReadOK, FileTypeOK
  <2>3. Reportable(file)' <=> Reportable(file)
    BY <2>1 DEF Reportable, SelectPeriods, Matched
  <2>4. Reportable(file) => pc' # "error"
    BY <1>1, <1>5, <2>1, NotRefused
  <2>5. /\ read0 \in Seq(Rows) /\ read1 \in Seq(Rows) /\ read2 \in Seq(Rows)
        /\ pc = "span" => Len(read0) = pos
        /\ pc = "main" => Len(read1) = pos
        /\ pc = "order" => Len(read2) = pos
    BY <1>2 DEF ReadOK
  <2>6. read0' = read0 \/ (pc = "span" /\ HasRow /\ read0' = Append(read0, NextRow))
    BY <1>5 DEF Investigation, Open, ReadFails, Stop, VisitSpan, Visiting, EndSpan, VisitMain, EndMain,
         VisitOrder, EndOrder
  <2>7. read1' = read1 \/ (pc = "main" /\ HasRow /\ read1' = Append(read1, NextRow))
    BY <1>5 DEF Investigation, Open, ReadFails, Stop, VisitSpan, Visiting, EndSpan, VisitMain, EndMain,
         VisitOrder, EndOrder
  <2>8. read2' = read2 \/ (pc = "order" /\ HasRow /\ read2' = Append(read2, NextRow))
    BY <1>5 DEF Investigation, Open, ReadFails, Stop, VisitSpan, Visiting, EndSpan, VisitMain, EndMain,
         VisitOrder, EndOrder
  <2>9. Begins(read0', file) /\ Begins(read1', file) /\ Begins(read2', file)
    <3>1. Begins(read0', file)
      BY <2>2, <2>5, <2>6, NextOfFile
    <3>2. Begins(read1', file)
      BY <2>2, <2>5, <2>7, NextOfFile
    <3>3. Begins(read2', file)
      BY <2>2, <2>5, <2>8, NextOfFile
    <3>4. QED
      BY <3>1, <3>2, <3>3
  <2>10. Chosen' /\ opts.periods = NoId => read0' = file
    <3>1. SUFFICES ASSUME Chosen', opts.periods = NoId PROVE read0' = file
      OBVIOUS
    <3>2. Chosen \/ (pc = "span" /\ AtEnd /\ read0' = read0)
      BY <1>5, <3>1 DEF Investigation, Open, ReadFails, Stop, VisitSpan, Visiting, EndSpan, VisitMain, EndMain,
           VisitOrder, EndOrder, Chosen
    <3>3. CASE Chosen
      <4>1. read0' = read0
        BY <2>6, <3>3 DEF Chosen
      <4>2. QED
        BY <2>2, <3>1, <3>3, <4>1
    <3>4. CASE pc = "span" /\ AtEnd /\ read0' = read0
      BY <2>2, <2>5, <3>4, AllRead
    <3>5. QED
      BY <3>2, <3>3, <3>4
  <2>11. Closed' => read1' = file
    <3>1. SUFFICES ASSUME Closed' PROVE read1' = file
      OBVIOUS
    <3>2. Closed \/ (pc = "main" /\ AtEnd /\ read1' = read1)
      BY <1>5, <3>1 DEF Investigation, Open, ReadFails, Stop, VisitSpan, Visiting, EndSpan, VisitMain, EndMain,
           VisitOrder, EndOrder, Closed
    <3>3. CASE Closed
      <4>1. read1' = read1
        BY <2>7, <3>3 DEF Closed
      <4>2. QED
        BY <2>2, <3>3, <4>1
    <3>4. CASE pc = "main" /\ AtEnd /\ read1' = read1
      BY <2>2, <2>5, <3>4, AllRead
    <3>5. QED
      BY <3>2, <3>3, <3>4
  <2>12. QED
    BY <2>1, <2>2, <2>3, <2>4, <2>9, <2>10, <2>11 DEF StableOK
<1>6. QED
  BY <1>1, <1>3, <1>4, <1>5 DEF Next

\* InvestigationLimitsExact: whatever the file becomes, no register, sketch or count exceeds its
\* limit, and no unchanged file that stays within all of them is refused.
THEOREM InvestigationWithinLimits == Spec => []InvestigationLimitsExact
<1>1. TypeOK /\ StableOK => InvestigationLimitsExact
  BY DEF StableOK, InvestigationLimitsExact, StableFileInvestigated
<1>2. Spec => []StableOK
  BY RegistersInvariant, StableInit, StableNext, PTL DEF Spec
<1>3. QED
  BY <1>1, <1>2, InvestigationTypes, PTL
-----------------------------------------------------------------------------
(* No two aliases of a report are the same.                                 *)

\* An analysed record of an identity, with the model it names.
Names(o, p, row, g, m) == AnalysedAt(o, p, row) /\ row.group = g /\ row.model = m

\* A model that is not split has been seen with its owner only, and the models of a
\* candidate are those of its records.
AliasOK ==
    /\ opts.aliases => \A i \in DOMAIN read1, g \in Groups, m \in Models :
          Names(opts, periods, read1[i], g, m) => m \in split \/ owner[m] = g
    /\ \A g \in Groups : \A m \in usedBy[g] :
          opts.aliases /\ \E i \in DOMAIN read2 : Names(opts, periods, read2[i], g, m)
    /\ pc = "ok" => AllCandidates = {} \/ read2 = read1

\* Nothing has been read.
LEMMA AliasInit == Init => AliasOK
<1>1. SUFFICES ASSUME Init PROVE AliasOK
  OBVIOUS
<1>2. DOMAIN read1 = {} /\ (\A g \in Groups : usedBy[g] = {}) /\ pc # "ok"
  BY <1>1 DEF Init
<1>3. QED
  BY <1>2 DEF AliasOK

\* A record that is taken owns its model, splits it, or finds it owned.
LEMMA OwnersTake ==
    ASSUME NEW row \in Rows, Taken(row), ReadOK, OwnersOK, AliasOK, opts'.aliases,
           NEW i \in DOMAIN read1', NEW g \in Groups, NEW m \in Models,
           Names(opts', periods', read1'[i], g, m)
    PROVE  m \in split' \/ owner'[m] = g
<1>1. /\ opts' = opts /\ periods' = periods /\ read1' = Append(read1, row)
      /\ read1 \in Seq(Rows) /\ owner \in [Models -> Groups \cup {NoId}] /\ NoId \notin Groups
  BY InvestigationAssumption DEF Taken, ReadOK, OwnersOK
<1>2. row.model \in Models /\ row.group \in Groups \cup {NoId}
  BY RowTypes
<1>3. \/ /\ AnalysedAt(opts, periods, row) /\ row.group \in Groups /\ split' = SplitAfter(row)
         /\ owner' = [owner EXCEPT ![row.model] = IF @ = NoId THEN row.group ELSE @]
      \/ ~(AnalysedAt(opts, periods, row) /\ row.group \in Groups) /\ UNCHANGED <<split, owner>>
  <2>1. CASE AnalysedAt(opts, periods, row) /\ row.group \in Groups
    <3>1. Analyse(row)
      BY <2>1 DEF Taken
    <3>2. row.group # NoId /\ opts.aliases
      BY <1>1, <2>1
    <3>3. QED
      BY <2>1, <3>1, <3>2 DEF Analyse
  <2>2. CASE AnalysedAt(opts, periods, row) /\ row.group \notin Groups
    <3>1. Analyse(row) /\ row.group = NoId
      BY <1>2, <2>2 DEF Taken
    <3>2. QED
      BY <2>2, <3>1 DEF Analyse
  <2>3. CASE ~AnalysedAt(opts, periods, row)
    BY <2>3 DEF Taken
  <2>4. QED
    BY <2>1, <2>2, <2>3
<1>4. split \subseteq split' /\ \A x \in Models : owner[x] # NoId => owner'[x] = owner[x]
  BY <1>1, <1>2, <1>3 DEF SplitAfter
<1>5. CASE i \in DOMAIN read1
  <2>1. read1'[i] = read1[i]
    BY <1>1, <1>5
  <2>2. m \in split \/ owner[m] = g
    BY <1>1, <1>5, <2>1 DEF AliasOK
  <2>3. QED
    BY <1>1, <1>4, <2>2
<1>6. CASE i \notin DOMAIN read1
  <2>1. read1'[i] = row
    BY <1>1, <1>6
  <2>2. AnalysedAt(opts, periods, row) /\ row.group = g /\ row.model = m
    BY <1>1, <2>1 DEF Names
  <2>3. split' = SplitAfter(row) /\ owner' = [owner EXCEPT ![row.model] = IF @ = NoId THEN row.group ELSE @]
    BY <1>3, <2>2
  <2>4. QED
    BY <1>1, <2>2, <2>3 DEF SplitAfter
<1>7. QED
  BY <1>5, <1>6

\* Every step keeps what the owners stand for.
LEMMA OwnersTrue ==
    ASSUME ReadOK, OwnersOK, AliasOK, [Next]_vars, opts'.aliases,
           NEW i \in DOMAIN read1', NEW g \in Groups, NEW m \in Models,
           Names(opts', periods', read1'[i], g, m)
    PROVE  m \in split' \/ owner'[m] = g
<1>1. CASE Settled
  <2>1. opts' = opts /\ read1' = read1 /\ split' = split /\ owner' = owner
    BY <1>1 DEF Settled, accounts
  <2>2. periods' = periods
    <3>1. read1 # <<>>
      BY <2>1
    <3>2. QED
      BY <1>1, <3>1 DEF Settled
  <2>3. QED
    BY <2>1, <2>2 DEF AliasOK
<1>2. ASSUME NEW row \in Rows, Taken(row) PROVE m \in split' \/ owner'[m] = g
  BY <1>2, OwnersTake
<1>3. QED
  BY <1>1, <1>2, MainSteps

\* Every step keeps what the candidates' models stand for.
LEMMA UsedTrue ==
    ASSUME ReadOK, UsedOK, AliasOK, [Next]_vars, NEW g \in Groups, NEW m \in usedBy'[g]
    PROVE  opts'.aliases /\ \E i \in DOMAIN read2' : Names(opts', periods', read2'[i], g, m)
<1>1. ASSUME UNCHANGED <<opts, periods, read2, usedBy>>
      PROVE  opts'.aliases /\ \E i \in DOMAIN read2' : Names(opts', periods', read2'[i], g, m)
  BY <1>1 DEF AliasOK
<1>2. CASE EndSpan
  <2>1. CASE Stop("error")
    BY <1>1, <2>1 DEF Stop
  <2>2. CASE ~Stop("error")
    <3>1. read2 = <<>> /\ usedBy' = usedBy
      BY <1>2, <2>2 DEF EndSpan, ReadOK
    <3>2. DOMAIN read2 = {}
      BY <3>1
    <3>3. QED
      BY <3>1, <3>2 DEF AliasOK
  <2>3. QED
    BY <2>1, <2>2
<1>3. CASE VisitOrder
  <2>1. CASE NextRow.t = BadTime
    BY <1>1, <1>3, <2>1 DEF VisitOrder, Stop
  <2>2. CASE NextRow.t # BadTime
    <3>1. PICK row : row = NextRow
      OBVIOUS
    <3>2. /\ read2' = Append(read2, row) /\ UNCHANGED <<opts, periods>>
          /\ usedBy' = IF Analysed(row) /\ row.group \in AllCandidates /\ opts.aliases
                       THEN [usedBy EXCEPT ![row.group] = @ \cup {row.model}] ELSE usedBy
      BY <1>3, <2>2, <3>1 DEF VisitOrder, Visiting
    <3>3. read2 \in Seq(Rows) /\ usedBy \in [Groups -> SUBSET Models]
      BY DEF ReadOK, UsedOK
    <3>4. /\ \A i \in DOMAIN read2 : i \in DOMAIN read2' /\ read2'[i] = read2[i]
          /\ Len(read2) + 1 \in DOMAIN read2' /\ read2'[Len(read2) + 1] = row
      BY <3>2, <3>3
    <3>5. CASE m \in usedBy[g]
      <4>1. opts.aliases /\ \E i \in DOMAIN read2 : Names(opts, periods, read2[i], g, m)
        BY <3>5 DEF AliasOK
      <4>2. QED
        BY <3>2, <3>4, <4>1
    <3>6. CASE m \notin usedBy[g]
      <4>1. Analysed(row) /\ opts.aliases /\ row.group = g /\ row.model = m
        BY <3>2, <3>3, <3>6
      <4>2. Names(opts, periods, row, g, m)
        BY <4>1, SameRows DEF Names
      <4>3. QED
        BY <3>2, <3>4, <4>1, <4>2
    <3>7. QED
      BY <3>5, <3>6
  <2>3. QED
    BY <2>1, <2>2
<1>4. CASE ~EndSpan /\ ~VisitOrder
  <2>1. UNCHANGED <<opts, periods, read2, usedBy>>
    BY <1>4 DEF Next, Investigation, Open, ReadFails, VisitSpan, VisitMain, EndMain, EndOrder, Stop, vars
  <2>2. QED
    BY <1>1, <2>1
<1>5. QED
  BY <1>2, <1>3, <1>4

\* The last pass has read what the main pass read.
LEMMA LastPass ==
    ASSUME ReadOK, AliasOK, [Next]_vars, pc' = "ok"
    PROVE  AllCandidates' = {} \/ read2' = read1'
<1>1. UNCHANGED <<opts, periods, read1, read2, sketch>>
  BY DEF Next, Investigation, Open, ReadFails, VisitSpan, EndSpan, VisitMain, EndMain, VisitOrder, EndOrder,
         Stop, Visiting, vars, repVars
<1>2. AllCandidates' = AllCandidates
  BY <1>1, CandidatesStay
<1>3. pc = "ok" \/ AllCandidates = {} \/ read2 = read1
  BY DEF Next, Investigation, Open, ReadFails, VisitSpan, EndSpan, VisitMain, EndMain, VisitOrder, EndOrder,
         Stop, Visiting, vars, SameAgain
<1>4. QED
  BY <1>1, <1>2, <1>3 DEF AliasOK

\* Every step keeps it.
LEMMA AliasNext == ReadOK /\ OwnersOK /\ UsedOK /\ AliasOK /\ [Next]_vars => AliasOK'
<1>1. SUFFICES ASSUME ReadOK, OwnersOK, UsedOK, AliasOK, [Next]_vars PROVE AliasOK'
  OBVIOUS
<1>2. opts'.aliases => \A i \in DOMAIN read1', g \in Groups, m \in Models :
         Names(opts', periods', read1'[i], g, m) => m \in split' \/ owner'[m] = g
  BY <1>1, OwnersTrue
<1>3. \A g \in Groups : \A m \in usedBy'[g] :
         opts'.aliases /\ \E i \in DOMAIN read2' : Names(opts', periods', read2'[i], g, m)
  BY <1>1, UsedTrue
<1>4. pc' = "ok" => AllCandidates' = {} \/ read2' = read1'
  BY <1>1, LastPass
<1>5. QED
  BY <1>2, <1>3, <1>4 DEF AliasOK

\* A candidate has a first record in a report, which is its own.
LEMMA CandidatePlaced ==
    ASSUME ReportOK, pc = "ok", NEW r \in Rankings, NEW g \in Candidates(r)
    PROVE  g \in Groups /\ order[g] \in DOMAIN read1 /\ read1[order[g]].group = g
<1>1. WeighedOK /\ ReadOK /\ read1 \in Seq(Rows)
  BY DEF ReportOK, WeighedOK, ReadOK
<1>2. PICK s \in Sides : g \in Groups /\ sketch[r][s].count[g] > 0
  BY DEF Candidates, Tracked, Sides
<1>3. TrueWeight(r, s, g) # 0
  BY <1>1, <1>2, Bounds DEF LowerBound
<1>4. PICK I, J : I = WeighedRows(opts, periods, read1, r, s, g) /\ J = GroupRows(opts, periods, read1, g)
  OBVIOUS
<1>5. I \subseteq J /\ J \in SUBSET DOMAIN read1 /\ IsFiniteSet(J)
  <2>1. J \in SUBSET DOMAIN read1 /\ IsFiniteSet(J)
    BY <1>1, <1>4, RowsFinite
  <2>2. QED
    BY <1>4, <2>1 DEF WeighedRows
<1>6. I # {}
  <2>1. WeightOf(r, read1, {}) = 0
    <3>1. SumFunctionOnSet([i \in {} |-> Weight(r, read1[i])], {}) = 0
      BY FS_EmptySet, SumZero
    <3>2. QED
      BY <3>1 DEF WeightOf
  <2>2. TrueWeight(r, s, g) = WeightOf(r, read1, I)
    BY <1>4, SameRows DEF TrueWeight
  <2>3. QED
    BY <1>3, <2>1, <2>2
<1>7. First(J) \in J
  <2>1. PICK n \in Nat \ {0} : n = Len(read1) + 1
    BY <1>1
  <2>2. J \subseteq 1..(n - 1) /\ J # {}
    BY <1>1, <1>5, <1>6, <2>1
  <2>3. QED
    BY <1>5, <2>2, FirstMore
<1>8. order[g] = First(J)
  <2>1. g \in AllCandidates
    BY DEF AllCandidates, Rankings
  <2>2. QED
    BY <1>4, <2>1 DEF ReportOK, OrderOK, FirstOf
<1>9. QED
  BY <1>2, <1>4, <1>5, <1>7, <1>8 DEF GroupRows

\* The strength of a candidate is a number.
LEMMA StrengthType ==
    ASSUME WeighedOK, NEW r \in Rankings, NEW g \in Groups
    PROVE  Strength(r, g) \in Int
<1>1. PICK l, u : l = Delta(r, g).lower /\ u = Delta(r, g).upper
  OBVIOUS
<1>2. l \in Int /\ u \in Int
  BY <1>1, ChangeHeld
<1>3. Max({u, -l}) \in Int
  <2>1. PICK z \in {u, -l} : \A y \in {u, -l} : z >= y
    BY <1>2
  <2>2. Max({u, -l}) = CHOOSE x \in {u, -l} : \A y \in {u, -l} : x >= y
    BY DEF Max
  <2>3. Max({u, -l}) \in {u, -l}
    BY <2>1, <2>2
  <2>4. QED
    BY <1>2, <2>3
<1>4. QED
  BY <1>1, <1>2, <1>3 DEF Strength

\* Candidates of a ranking are strictly and totally ordered.
LEMMA AheadOrders ==
    ASSUME ReportOK, pc = "ok", NEW r \in Rankings,
           NEW a \in Candidates(r), NEW b \in Candidates(r), NEW c \in Candidates(r)
    PROVE  /\ ~Ahead(r, a, a) /\ (a = b \/ Ahead(r, a, b) \/ Ahead(r, b, a))
           /\ Ahead(r, a, b) /\ Ahead(r, b, c) => Ahead(r, a, c)
<1>1. PICK sa, sb, sc, oa, ob, oc :
         /\ sa = Strength(r, a) /\ sb = Strength(r, b) /\ sc = Strength(r, c)
         /\ oa = order[a] /\ ob = order[b] /\ oc = order[c]
  OBVIOUS
<1>2. sa \in Int /\ sb \in Int /\ sc \in Int
  BY <1>1, CandidatePlaced, StrengthType DEF ReportOK
<1>3. oa \in Int /\ ob \in Int /\ oc \in Int /\ (oa = ob => a = b)
  <2>1. oa \in DOMAIN read1 /\ ob \in DOMAIN read1 /\ oc \in DOMAIN read1
        /\ read1[oa].group = a /\ read1[ob].group = b
    BY <1>1, CandidatePlaced
  <2>2. read1 \in Seq(Rows)
    BY DEF ReportOK, WeighedOK, ReadOK
  <2>3. QED
    BY <2>1, <2>2
<1>4. /\ Ahead(r, a, b) <=> (sa > sb \/ (sa = sb /\ oa < ob))
      /\ Ahead(r, b, a) <=> (sb > sa \/ (sb = sa /\ ob < oa))
      /\ Ahead(r, b, c) <=> (sb > sc \/ (sb = sc /\ ob < oc))
      /\ Ahead(r, a, c) <=> (sa > sc \/ (sa = sc /\ oa < oc))
      /\ Ahead(r, a, a) <=> (sa > sa \/ (sa = sa /\ oa < oa))
  BY <1>1 DEF Ahead
<1>5. ~Ahead(r, a, a) /\ (a = b \/ Ahead(r, a, b) \/ Ahead(r, b, a))
  BY <1>2, <1>3, <1>4
<1>6. Ahead(r, a, b) /\ Ahead(r, b, c) => Ahead(r, a, c)
  BY <1>2, <1>3, <1>4
<1>7. QED
  BY <1>5, <1>6

\* So are the known models.
LEMMA MovedMoreOrders ==
    ASSUME ReportOK, NEW a \in Known, NEW b \in Known, NEW c \in Known
    PROVE  /\ ~MovedMore(a, a) /\ (a = b \/ MovedMore(a, b) \/ MovedMore(b, a))
           /\ MovedMore(a, b) /\ MovedMore(b, c) => MovedMore(a, c)
<1>1. PICK sa, sb, sc, oa, ob, oc :
         /\ sa = Change(a) /\ sb = Change(b) /\ sc = Change(c)
         /\ oa = models[a].order /\ ob = models[b].order /\ oc = models[c].order
  OBVIOUS
<1>2. ReadOK /\ WindowsOK /\ ModelsOK /\ read1 \in Seq(Rows)
  BY DEF ReportOK, WeighedOK, ReadOK
<1>3. ASSUME NEW m \in Known
      PROVE  /\ Change(m) \in Int /\ models[m].order \in DOMAIN read1
             /\ read1[models[m].order].model = m
  <2>1. PICK d : d = models[m]
    OBVIOUS
  <2>2. m \in Models /\ d # NoId /\ d = Described(opts, periods, read1, m)
    BY <1>2, <1>3, <2>1 DEF Known, ModelsOK
  <2>3. d \in ModelTypes
    BY <1>2, <2>1, <2>2, ModelsTyped
  <2>4. d.sides[1].tokens \in Int /\ d.sides[2].tokens \in Int
    BY <2>3, InvestigationAssumption DEF ModelTypes, Sides
  <2>5. PICK J : J = ModelRows(opts, periods, read1, m)
    OBVIOUS
  <2>6. J # {} /\ d.order = First(J)
    BY <2>2, <2>5 DEF Described
  <2>7. J \in SUBSET DOMAIN read1 /\ IsFiniteSet(J)
    BY <1>2, <2>5, RowsFinite
  <2>8. First(J) \in J
    <3>1. PICK n \in Nat \ {0} : n = Len(read1) + 1
      BY <1>2
    <3>2. J \subseteq 1..(n - 1)
      BY <1>2, <2>7, <3>1
    <3>3. QED
      BY <2>6, <2>7, <3>2, FirstMore
  <2>9. d.order \in DOMAIN read1 /\ read1[d.order].model = m
    BY <2>5, <2>6, <2>7, <2>8 DEF ModelRows
  <2>10. Change(m) \in Int
    BY <2>1, <2>4 DEF Change
  <2>11. QED
    BY <2>1, <2>9, <2>10
<1>4. sa \in Int /\ sb \in Int /\ sc \in Int
  BY <1>1, <1>3
<1>5. oa \in Int /\ ob \in Int /\ oc \in Int /\ (oa = ob => a = b)
  BY <1>1, <1>2, <1>3
<1>6. /\ MovedMore(a, b) <=> (sa > sb \/ (sa = sb /\ oa < ob))
      /\ MovedMore(b, a) <=> (sb > sa \/ (sb = sa /\ ob < oa))
      /\ MovedMore(b, c) <=> (sb > sc \/ (sb = sc /\ ob < oc))
      /\ MovedMore(a, c) <=> (sa > sc \/ (sa = sc /\ oa < oc))
      /\ MovedMore(a, a) <=> (sa > sa \/ (sa = sa /\ oa < oa))
  BY <1>1 DEF MovedMore
<1>7. ~MovedMore(a, a) /\ (a = b \/ MovedMore(a, b) \/ MovedMore(b, a))
  BY <1>4, <1>5, <1>6
<1>8. MovedMore(a, b) /\ MovedMore(b, c) => MovedMore(a, c)
  BY <1>4, <1>5, <1>6
<1>9. QED
  BY <1>7, <1>8

\* Among some candidates each has a place of its own.
LEMMA PlacesOfOwn ==
    ASSUME ReportOK, pc = "ok", NEW r \in Rankings, NEW K, K \subseteq Candidates(r)
    PROVE  /\ \A a \in K : Place(r, K, a) \in 1..Cardinality(K)
           /\ \A a, b \in K : a # b => Place(r, K, a) # Place(r, K, b)
           /\ Cardinality(K) \in Nat
<1>1. IsFiniteSet(K) /\ Cardinality(K) \in Nat
  <2>1. K \subseteq Groups /\ IsFiniteSet(Groups)
    BY CandidatePlaced, InvestigationAssumption
  <2>2. QED
    BY <2>1, FS_Subset, FS_CardinalityType
<1>2. PICK below : below = [a \in K |-> {h \in K : Ahead(r, h, a)}]
  OBVIOUS
<1>3. \A a \in K : below[a] \subseteq K /\ a \notin below[a]
  BY <1>2, AheadOrders
<1>4. \A a \in K : \A b \in below[a] : below[b] \subseteq below[a]
  BY <1>2, AheadOrders
<1>5. \A a, b \in K : a = b \/ a \in below[b] \/ b \in below[a]
  BY <1>2, AheadOrders
<1>6. /\ \A a \in K : Cardinality(below[a]) \in Nat /\ Cardinality(below[a]) < Cardinality(K)
      /\ \A a, b \in K : a # b => Cardinality(below[a]) # Cardinality(below[b])
  BY <1>1, <1>3, <1>4, <1>5, PlacesDiffer
<1>7. \A a \in K : Place(r, K, a) = Cardinality(below[a]) + 1
  BY <1>2 DEF Place
<1>8. QED
  BY <1>1, <1>6, <1>7

\* Each model has a position of its own.
LEMMA PositionsOfOwn ==
    ASSUME ReportOK, NEW m \in Known, NEW x \in Known, m # x
    PROVE  Position(m) # Position(x)
<1>1. IsFiniteSet(Known)
  BY InvestigationAssumption, FS_Subset DEF Known
<1>2. PICK below : below = [a \in Known |-> {h \in Known : MovedMore(h, a)}]
  OBVIOUS
<1>3. \A a \in Known : below[a] \subseteq Known /\ a \notin below[a]
  BY <1>2, MovedMoreOrders
<1>4. \A a \in Known : \A b \in below[a] : below[b] \subseteq below[a]
  BY <1>2, MovedMoreOrders
<1>5. \A a, b \in Known : a = b \/ a \in below[b] \/ b \in below[a]
  BY <1>2, MovedMoreOrders
<1>6. /\ \A a \in Known : Cardinality(below[a]) \in Nat
      /\ \A a, b \in Known : a # b => Cardinality(below[a]) # Cardinality(below[b])
  BY <1>1, <1>3, <1>4, <1>5, PlacesDiffer
<1>7. \A a \in Known : Position(a) = Cardinality(below[a]) + 1
  BY <1>2 DEF Position
<1>8. QED
  BY <1>6, <1>7

\* Each model has an alias of its own.
LEMMA ItemsDiffer ==
    ASSUME ReportOK, NEW m \in Known, NEW x \in Known, m # x
    PROVE  Item(m) # Item(x)
<1>1. PICK l, k, i, j, tm, tx :
         /\ l = models[m].label /\ k = models[x].label /\ i = Position(m) /\ j = Position(x)
         /\ tm = (\E y \in Known \ {m} : models[y].label = l)
         /\ tx = (\E y \in Known \ {x} : models[y].label = k)
  OBVIOUS
<1>2. i # j
  BY <1>1, PositionsOfOwn
<1>3. /\ Item(m) = IF l = NoId THEN <<"model", i>> ELSE IF tm THEN <<"public", l, i>> ELSE <<"public", l>>
      /\ Item(x) = IF k = NoId THEN <<"model", j>> ELSE IF tx THEN <<"public", k, j>> ELSE <<"public", k>>
  BY <1>1 DEF Item
<1>4. l = k => tm /\ tx
  BY <1>1
<1>5. CASE l = NoId /\ k = NoId
  BY <1>2, <1>3, <1>5
<1>6. CASE l = NoId /\ k # NoId
  BY <1>3, <1>6
<1>7. CASE l # NoId /\ k = NoId
  BY <1>3, <1>7
<1>8. CASE l # NoId /\ l = k
  BY <1>2, <1>3, <1>4, <1>8
<1>9. CASE l # NoId /\ k # NoId /\ l # k
  BY <1>3, <1>9
<1>10. QED
  BY <1>5, <1>6, <1>7, <1>8, <1>9

\* Each shown identity has a number of its own.
LEMMA NumbersDiffer ==
    ASSUME ReportOK, pc = "ok", NEW g \in Shown, NEW h \in Shown, g # h
    PROVE  Number(g) # Number(h)
<1>1. PICK T, U : T = Movers("tokens") /\ U = Movers("uncached") \ T
  OBVIOUS
<1>2. T \subseteq Candidates("tokens") /\ U \subseteq Candidates("uncached")
  BY <1>1 DEF Movers, Kept
<1>3. "tokens" \in Rankings /\ "uncached" \in Rankings
  BY DEF Rankings
<1>4. PICK c : c = Cardinality(T)
  OBVIOUS
<1>5. PICK p, q : /\ p = [a \in T |-> Place("tokens", T, a)]
                  /\ q = [a \in U |-> Place("uncached", U, a)]
  OBVIOUS
<1>6. c \in Nat /\ (\A a \in T : p[a] \in 1..c) /\ \A a, b \in T : a # b => p[a] # p[b]
  BY <1>2, <1>3, <1>4, <1>5, PlacesOfOwn
<1>7. (\A a \in U : q[a] \in Nat /\ q[a] >= 1) /\ \A a, b \in U : a # b => q[a] # q[b]
  <2>1. /\ \A a \in U : Place("uncached", U, a) \in 1..Cardinality(U)
        /\ \A a, b \in U : a # b => Place("uncached", U, a) # Place("uncached", U, b)
        /\ Cardinality(U) \in Nat
    BY <1>2, <1>3, PlacesOfOwn
  <2>2. QED
    BY <1>5, <2>1
<1>8. \A a \in T \cup U : Number(a) = IF a \in T THEN p[a] ELSE c + q[a]
  BY <1>1, <1>4, <1>5 DEF Number
<1>9. g \in T \cup U /\ h \in T \cup U
  BY <1>1 DEF Shown
<1>10. CASE g \in T /\ h \in T
  BY <1>6, <1>8, <1>9, <1>10
<1>11. CASE g \in T /\ h \notin T
  <2>1. h \in U /\ Number(g) = p[g] /\ Number(h) = c + q[h]
    BY <1>8, <1>9, <1>11
  <2>2. QED
    BY <1>6, <1>7, <1>11, <2>1
<1>12. CASE g \notin T /\ h \in T
  <2>1. g \in U /\ Number(h) = p[h] /\ Number(g) = c + q[g]
    BY <1>8, <1>9, <1>12
  <2>2. QED
    BY <1>6, <1>7, <1>12, <2>1
<1>13. CASE g \notin T /\ h \notin T
  <2>1. g \in U /\ h \in U /\ Number(g) = c + q[g] /\ Number(h) = c + q[h]
    BY <1>8, <1>9, <1>13
  <2>2. q[g] # q[h] /\ q[g] \in Nat /\ q[h] \in Nat
    BY <1>7, <2>1
  <2>3. QED
    BY <1>6, <2>1, <2>2
<1>14. QED
  BY <1>10, <1>11, <1>12, <1>13

\* An identity that borrows the name of its one model: the model has records of that
\* identity, and unless it is split it is that identity's alone.
LEMMA Borrowed ==
    ASSUME RegistersOK, AliasOK, pc = "ok", NEW g \in Shown, NEW m, usedBy[g] = {m}
    PROVE  g \in Groups /\ m \in Known /\ (m \in split \/ owner[m] = g)
<1>1. ReadOK /\ WindowsOK /\ ModelsOK /\ ReportOK /\ UsedOK /\ read1 \in Seq(Rows)
  BY DEF RegistersOK, AccountsOK, ReportOK, WeighedOK, ReadOK
<1>2. PICK r \in Rankings : g \in Candidates(r)
  BY DEF Shown, Movers, Kept, Rankings
<1>3. g \in Groups /\ m \in Models
  BY <1>1, <1>2, CandidatePlaced DEF UsedOK
<1>4. read2 = read1
  BY <1>2 DEF AliasOK, AllCandidates, Rankings
<1>5. m \in usedBy[g]
  OBVIOUS
<1>6. PICK i \in DOMAIN read1 : opts.aliases /\ Names(opts, periods, read1[i], g, m)
  BY <1>3, <1>4, <1>5 DEF AliasOK
<1>7. m \in split \/ owner[m] = g
  BY <1>3, <1>6 DEF AliasOK
<1>8. ModelRows(opts, periods, read1, m) # {}
  BY <1>6 DEF Names, ModelRows
<1>9. Described(opts, periods, read1, m) # NoId
  BY <1>1, <1>8, ReadDescribable, DescriptionType
<1>10. m \in Known
  BY <1>1, <1>3, <1>9 DEF Known, ModelsOK
<1>11. QED
  BY <1>3, <1>7, <1>10

\* What an alias is made of.
LEMMA AliasKinds ==
    ASSUME RegistersOK, AliasOK, pc = "ok", NEW g \in Shown
    PROVE  \/ AliasOf(g) = <<"group", Number(g)>>
           \/ \E m \in Known : m \in split /\ AliasOf(g) = <<"item", Item(m), Number(g)>>
           \/ \E m \in Known : owner[m] = g /\ AliasOf(g) = <<"item", Item(m)>>
<1>1. CASE ~opts.aliases \/ Cardinality(usedBy[g]) # 1
  BY <1>1 DEF AliasOf
<1>2. CASE opts.aliases /\ Cardinality(usedBy[g]) = 1
  <2>1. PICK r \in Rankings : g \in Candidates(r)
    BY DEF Shown, Movers, Kept, Rankings
  <2>2. g \in Groups
    BY <2>1, CandidatePlaced DEF RegistersOK, AccountsOK
  <2>3. IsFiniteSet(usedBy[g])
    BY <2>2, InvestigationAssumption, FS_Subset DEF RegistersOK, UsedOK
  <2>4. PICK m : usedBy[g] = {m}
    BY <1>2, <2>3, FS_Singleton
  <2>5. PICK x : x = OnlyModel(g)
    OBVIOUS
  <2>6. m \in Known /\ (m \in split \/ owner[m] = g)
    BY <2>4, Borrowed
  <2>7. AliasOf(g) = IF x \in split THEN <<"item", Item(x), Number(g)>> ELSE <<"item", Item(x)>>
    BY <1>2, <2>5 DEF AliasOf
  <2>8. x = m
    BY <2>4, <2>5 DEF OnlyModel
  <2>9. QED
    BY <2>6, <2>7, <2>8
<1>3. QED
  BY <1>1, <1>2

\* AliasesDistinct: no two identities, and no two models, of a report go by the same alias.
THEOREM AliasesAreDistinct == Spec => []AliasesDistinct
<1>1. RegistersOK /\ AliasOK => AliasesDistinct
  <2>1. SUFFICES ASSUME RegistersOK, AliasOK, pc = "ok"
                 PROVE  /\ \A g, h \in Shown : g # h => AliasOf(g) # AliasOf(h)
                        /\ \A m, x \in Known : m # x => Item(m) # Item(x)
    BY DEF AliasesDistinct
  <2>2. ReportOK
    BY <2>1 DEF RegistersOK, AccountsOK
  <2>3. \A m, x \in Known : m # x => Item(m) # Item(x)
    BY <2>2, ItemsDiffer
  <2>4. ASSUME NEW g \in Shown, NEW h \in Shown, g # h PROVE AliasOf(g) # AliasOf(h)
    <3>1. Number(g) # Number(h)
      BY <2>1, <2>2, <2>4, NumbersDiffer
    <3>2. \/ AliasOf(g) = <<"group", Number(g)>>
          \/ \E m \in Known : m \in split /\ AliasOf(g) = <<"item", Item(m), Number(g)>>
          \/ \E m \in Known : owner[m] = g /\ AliasOf(g) = <<"item", Item(m)>>
      BY <2>1, AliasKinds
    <3>3. \/ AliasOf(h) = <<"group", Number(h)>>
          \/ \E m \in Known : m \in split /\ AliasOf(h) = <<"item", Item(m), Number(h)>>
          \/ \E m \in Known : owner[m] = h /\ AliasOf(h) = <<"item", Item(m)>>
      BY <2>1, AliasKinds
    <3>4. ASSUME NEW m \in Known, owner[m] = g, NEW x \in Known, owner[x] = h PROVE Item(m) # Item(x)
      <4>1. m # x
        BY <2>4, <3>4
      <4>2. QED
        BY <2>3, <4>1
    <3>5. QED
      BY <3>1, <3>2, <3>3, <3>4
  <2>5. QED
    BY <2>3, <2>4
<1>2. Init => AliasOK
  BY AliasInit
<1>3. RegistersOK /\ AliasOK /\ [Next]_vars => AliasOK'
  BY AliasNext DEF RegistersOK, AccountsOK, ReportOK, WeighedOK
<1>4. QED
  BY <1>1, <1>2, <1>3, RegistersInvariant, PTL DEF Spec
=============================================================================
