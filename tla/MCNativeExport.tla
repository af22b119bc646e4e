--------------------------- MODULE MCNativeExport ---------------------------
(* Instances of NativeExport for TLC. *)
EXTENDS NativeExport

CONSTANTS e1, e2, d1, d2

OneProc == {e1}
TwoProcs == {e1, e2}
OneParent == {d1}
TwoParents == {d1, d2}

Opt(m, f, d) == [mode |-> m, format |-> f, daily |-> d]

\* Every kind of command line.
AllOptions == {Opt("export", "csv", TRUE), Opt("export", "jsonl", FALSE),
               Opt("export", "jsonl", TRUE), Opt("keep", "csv", FALSE),
               Opt("temp", "csv", TRUE), Opt("temp", "csv", FALSE)}
\* Two commands that may aim at one destination.
RaceOptions == {Opt("export", "jsonl", FALSE)}
\* What each run lets happen.
StorageFaults == {"io", "power", "crash", "write", "stray", "replace"}
CancelFaults == {"io", "signal", "timeout", "foreign"}
RaceFaults == {"crash", "foreign", "rebind"}
=============================================================================
