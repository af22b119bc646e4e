-------------------------- MODULE AtomicPublication --------------------------
(***************************************************************************)
(* What a native export promises, with no staging, database, signals or    *)
(* context: a destination name is absent until a COMPLETE export appears   *)
(* at it in one step, an occupied name is never taken over, an exporter    *)
(* publishes at most once, and its answer agrees with what it published.   *)
(* NativeExport is shown to implement this specification.                  *)
(***************************************************************************)
EXTENDS Integers

CONSTANTS
    Procs,    \* exporter processes
    Places,   \* parent directories, each holding one destination name
    None,     \* the destination name does not exist
    Foreign,  \* the destination name belongs to somebody else
    MaxRows   \* spend.MaxRows

VARIABLES
    shown,    \* shown[p]: what a reader of the destination in p sees
    answer    \* answer[e]: what Export has returned to its caller

absVars == <<shown, answer>>

\* A complete export: every row of one snapshot and, when daily counters
\* were asked for, the counters of that same snapshot.
CompleteExport == {x \in [by: Procs, rows: 0..MaxRows, daily: -1..MaxRows] :
                    x.daily \in {-1, x.rows}}

ShownBy(e) == {p \in Places : shown[p] \in CompleteExport /\ shown[p].by = e}

AbsInit ==
    /\ shown = [p \in Places |-> None]
    /\ answer = [e \in Procs |-> "pending"]

\* The commit point: one rename makes the whole export visible.
AbsPublish(x, p) ==
    /\ shown[p] = None
    /\ ShownBy(x.by) = {}
    /\ answer[x.by] = "pending"
    /\ shown' = [shown EXCEPT ![p] = x]
    /\ UNCHANGED answer

\* Export returns success only while its export stands, an error only when
\* it never published.
AbsAnswer(e) ==
    /\ answer[e] = "pending"
    /\ answer' = [answer EXCEPT ![e] = IF ShownBy(e) = {} THEN "error" ELSE "ok"]
    /\ UNCHANGED shown

\* Other processes create and remove entries of their own.
AbsOther(p) ==
    /\ shown[p] \in {None, Foreign}
    /\ shown' = [shown EXCEPT ![p] = IF shown[p] = None THEN Foreign ELSE None]
    /\ UNCHANGED answer

\* The caller of a temporary export removes it, after the answer.
AbsWithdraw(e, p) ==
    /\ p \in ShownBy(e)
    /\ answer[e] = "ok"
    /\ shown' = [shown EXCEPT ![p] = None]
    /\ UNCHANGED answer

\* A power loss may take back renames that never reached the disk.
AbsLose(lostPlaces) ==
    /\ lostPlaces # {}
    /\ \A p \in lostPlaces : shown[p] \in CompleteExport
    /\ shown' = [p \in Places |-> IF p \in lostPlaces THEN None ELSE shown[p]]
    /\ UNCHANGED answer

AbsNext ==
    \/ \E x \in CompleteExport, p \in Places : AbsPublish(x, p)
    \/ \E e \in Procs : AbsAnswer(e)
    \/ \E p \in Places : AbsOther(p)
    \/ \E e \in Procs, p \in Places : AbsWithdraw(e, p)
    \/ \E lostPlaces \in SUBSET Places : AbsLose(lostPlaces)

AbsSpec == AbsInit /\ [][AbsNext]_absVars
=============================================================================
