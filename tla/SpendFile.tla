------------------------------ MODULE SpendFile ------------------------------
(***************************************************************************)
(* A spend export on disk and the reader of internal/spend/reader.go. One  *)
(* command opens the same path several times (once per pass) and visits    *)
(* its rows one by one; meanwhile another program may append to the file,  *)
(* rewrite it in place, cut it, or rename a new file over it.              *)
(***************************************************************************)
EXTENDS Integers, Sequences

CONSTANTS
    Rows,      \* the records the file may hold
    Torn,      \* a record that is not (yet) a whole one
    MaxRows,   \* spend.MaxRows
    MaxFile,   \* bound: records in the file
    MaxWrites, \* bound: changes by other programs
    StartFiles,  \* the contents explored at the start
    Changing,    \* bound: those that other programs change, and put in its place
    WrittenRows  \* bound: the records they write

ASSUME SpendFileAssumption ==
    /\ Torn \notin Rows
    /\ MaxRows \in Nat /\ MaxFile \in Nat /\ MaxWrites \in Nat
    /\ StartFiles \subseteq Seq(Rows \cup {Torn})
    /\ Changing \subseteq StartFiles /\ WrittenRows \subseteq Rows

VARIABLES
    file,   \* the records of the file at the path
    old,    \* the records of the open file, once it was replaced
    fd,     \* the open descriptor: closed, path, or old
    pos,    \* records visited in this pass
    changes \* changes by other programs so far

fileVars == <<file, old, fd, pos, changes>>

FileInit == file \in StartFiles /\ old = <<>> /\ fd = "closed" /\ pos = 0 /\ changes = 0

\* What the descriptor reads: a rename over the path leaves the open file.
Content == IF fd = "old" THEN old ELSE file

\* readSpend opens the path anew for every pass.
OpenFile ==
    /\ fd = "closed"
    /\ fd' = "path" /\ pos' = 0
    /\ UNCHANGED <<file, old, changes>>

AtEnd == fd # "closed" /\ pos >= Len(Content)

\* The next record is visited.
Advance == /\ pos' = pos + 1
           /\ UNCHANGED <<file, old, fd, changes>>

HasRow == fd # "closed" /\ pos < Len(Content)
NextRow == Content[pos + 1]

\* A torn record or one row too many ends the pass with an error.
Unreadable == HasRow /\ (NextRow = Torn \/ pos = MaxRows)

CloseFile == /\ fd' = "closed" /\ pos' = 0 /\ old' = <<>>
             /\ UNCHANGED <<file, changes>>
-----------------------------------------------------------------------------
(* Other programs.                                                         *)

Append1 ==
    /\ Len(file) < MaxFile
    /\ \E row \in WrittenRows \cup {Torn} : file' = Append(file, row)
    /\ UNCHANGED <<old, fd>>

Rewrite ==
    /\ \E i \in DOMAIN file, row \in WrittenRows : file' = [file EXCEPT ![i] = row]
    /\ UNCHANGED <<old, fd>>

Truncate ==
    /\ file # <<>>
    /\ file' = SubSeq(file, 1, Len(file) - 1)
    /\ UNCHANGED <<old, fd>>

Replace ==
    /\ file' \in Changing
    /\ IF fd = "path" THEN fd' = "old" /\ old' = file ELSE UNCHANGED <<fd, old>>

Writer ==
    /\ changes < MaxWrites /\ (changes > 0 \/ file \in Changing)
    /\ Append1 \/ Rewrite \/ Truncate \/ Replace
    /\ changes' = changes + 1
    /\ UNCHANGED pos

FileTypeOK ==
    /\ file \in Seq(Rows \cup {Torn}) /\ old \in Seq(Rows \cup {Torn})
    /\ fd \in {"closed", "path", "old"} /\ pos \in 0..MaxRows
    /\ changes \in 0..MaxWrites
=============================================================================
