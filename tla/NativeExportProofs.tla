-------------------------- MODULE NativeExportProofs --------------------------
(***************************************************************************)
(* The safety of NativeExport for any number of processes, destination     *)
(* directories, rows and kinds of interference.                            *)
(***************************************************************************)
EXTENDS NativeExport, TLAPS

\* The phases in which the spend file holds the whole snapshot.
Copied == {"sync", "createDaily", "copyDaily", "syncDaily", "commit", "validate", "verify",
           "check", "rename"}
Filled == {"commit", "validate", "verify", "check", "rename"}
Early == {"idle", "enter", "prepare", "openParent", "mkStage", "openStage", "connect", "begin",
          "create"}

\* What the phases of process e have established about its files.
FilesInv(e) ==
    /\ pc[e] \in Early \cup {"copy", "sync", "createDaily"} => file[e]["daily"] = NoFile
    /\ pc[e] \in {"create", "copy"} => snap[e] >= 0
    /\ pc[e] = "copy" => 0 <= file[e]["spend"] /\ file[e]["spend"] <= Limited(snap[e])
    /\ pc[e] \in Copied => snap[e] \in 0..MaxRows /\ file[e]["spend"] = snap[e]
    /\ pc[e] \in Copied \ {"sync"} => "spend" \in synced[e]
    /\ pc[e] \in {"createDaily", "copyDaily", "syncDaily"} => opts[e].daily
    /\ pc[e] = "syncDaily" => file[e]["daily"] = snap[e]
    /\ pc[e] \in Filled => /\ file[e]["daily"] = (IF opts[e].daily THEN snap[e] ELSE NoFile)
                           /\ opts[e].daily => "daily" \in synced[e]
    /\ pc[e] \in {"check", "rename"} => "dir" \in synced[e]

\* What they have established about names and answers.
NamesInv(e) ==
    /\ held[e] \in Procs => held[e] = e
    /\ pc[e] \in {"mkStage", "openStage"} \cup ExportSteps => held[e] \in Places
    /\ pc[e] \in Early \cup Copied \cup {"copy"} => ~complete[e] /\ err[e] = "none"
    /\ pc[e] \in Early \cup ExportSteps \cup {"closeFiles", "closeExport", "closeStage", "returned"}
          => result[e] = "pending"
    /\ pc[e] \in {"join", "report", "analyse"} => result[e] # "pending"
    /\ pc[e] \in Early \cup ExportSteps \cup {"closeFiles", "closeExport", "closeStage",
                  "returned", "join", "report", "analyse"} => code[e] = "none"
    /\ pc[e] \in {"removeAll", "rmParent"} => code[e] # "none"
    /\ lost => ~Running(e)
    /\ complete[e] => err[e] = "none" /\ held[e] \in Places
    /\ result[e] = "error" => ~complete[e]
    /\ result[e] = "ok" => complete[e]
    /\ pc[e] \in {"unwind", "closeFiles", "closeExport", "closeStage", "returned"} /\ err[e] = "none"
          => complete[e]
    /\ complete[e] /\ ~lost /\ Wanted(held[e]) => entry[held[e]] = e

\* A destination that shows an exporter's directory shows its finished,
\* synced export.
EntryInv(p) ==
    entry[p] \in Procs =>
        /\ complete[entry[p]] /\ held[entry[p]] = p
        /\ Wanted(p) => /\ Full(entry[p])
                        /\ {"spend", "dir"} \subseteq synced[entry[p]]
                        /\ opts[entry[p]].daily => "daily" \in synced[entry[p]]

\* The inductive invariant.
IInv ==
    /\ TypeOK
    /\ \A e \in Procs : FilesInv(e) /\ NamesInv(e)
    /\ \A p \in Places : EntryInv(p)
-----------------------------------------------------------------------------
(* Each action preserves IInv. Every lemma has the same four steps: the     *)
(* types, then the three parts of the invariant for an arbitrary process    *)
(* or directory.                                                            *)

\* Writing one file keeps the type of file.
LEMMA FilePut ==
    ASSUME NEW e \in Procs, NEW n \in FileNames, NEW v \in NoFile..(MaxRows + 1),
           file \in [Procs -> Files]
    PROVE  [file EXCEPT ![e][n] = v] \in [Procs -> Files]
  BY DEF Files

\* Removing both files keeps the type of file.
LEMMA FileClear ==
    ASSUME NEW e \in Procs, file \in [Procs -> Files]
    PROVE  [file EXCEPT ![e] = [n \in FileNames |-> NoFile]] \in [Procs -> Files]
<1>1. [n \in FileNames |-> NoFile] \in Files
  BY ConstantsAssumption DEF Files, NoFile
<1>2. QED
  BY <1>1

USE ConstantsAssumption
    DEF IInv, TypeOK, Goto, Pass, Fail, EarlyFail, DatabaseCall, DbErrors,
        ctlVars, sigVars, nameVars, diskVars, envVars, ExportSteps, Copied, Filled, Early, Running

\* A new temporary parent is nobody's destination yet.
LEMMA MakeTempStep == ASSUME NEW e \in Procs, IInv, MakeTemp(e) PROVE IInv'
<1> USE DEF MakeTemp
<1>1. CtlTypeOK' /\ SigTypeOK'
  BY DEF CtlTypeOK, SigTypeOK, PcValues, Kinds
<1>2. NameTypeOK' /\ EnvTypeOK'
  BY ZenonT(30) DEF NameTypeOK, EnvTypeOK, CtlTypeOK, Places, NoFile
<1>3. DiskTypeOK'
  BY DEF DiskTypeOK
<1>4. ASSUME NEW f \in Procs PROVE FilesInv(f)'
  BY DEF CtlTypeOK, DiskTypeOK, EnvTypeOK, FilesInv, Limited, Files, FileNames, NoFile
<1>5. ASSUME NEW f \in Procs PROVE NamesInv(f)'
  BY DEF CtlTypeOK, NameTypeOK, DiskTypeOK, EnvTypeOK, NamesInv, EntryInv, Wanted, Places
<1>6. ASSUME NEW p \in Places PROVE EntryInv(p)'
  BY DEF CtlTypeOK, NameTypeOK, DiskTypeOK, EnvTypeOK, EntryInv, NamesInv, FilesInv, Wanted,
         Full, FileNames, NoFile, Places
<1>7. QED
  BY <1>1, <1>2, <1>3, <1>4, <1>5, <1>6

\* Registering for signals touches neither files nor names.
LEMMA EnterStep == ASSUME NEW e \in Procs, IInv, Enter(e) PROVE IInv'
<1> USE DEF Enter
<1>1. CtlTypeOK' /\ SigTypeOK'
  BY DEF CtlTypeOK, SigTypeOK, PcValues, Kinds
<1>2. NameTypeOK' /\ EnvTypeOK'
  BY DEF NameTypeOK, EnvTypeOK, CtlTypeOK, Places, NoFile
<1>3. DiskTypeOK'
  BY DEF DiskTypeOK
<1>4. ASSUME NEW f \in Procs PROVE FilesInv(f)'
  BY DEF CtlTypeOK, DiskTypeOK, EnvTypeOK, FilesInv, Limited, Files, FileNames, NoFile
<1>5. ASSUME NEW f \in Procs PROVE NamesInv(f)'
  BY DEF CtlTypeOK, NameTypeOK, DiskTypeOK, EnvTypeOK, NamesInv, EntryInv, Wanted, Places
<1>6. ASSUME NEW p \in Places PROVE EntryInv(p)'
  BY DEF CtlTypeOK, NameTypeOK, DiskTypeOK, EnvTypeOK, EntryInv, NamesInv, FilesInv, Wanted,
         Full, FileNames, NoFile, Places
<1>7. QED
  BY <1>1, <1>2, <1>3, <1>4, <1>5, <1>6

\* A refused command line ends with an error and nothing published.
LEMMA PrepareStep == ASSUME NEW e \in Procs, IInv, Prepare(e) PROVE IInv'
<1> USE DEF Prepare
<1>1. CtlTypeOK' /\ SigTypeOK'
  BY DEF CtlTypeOK, SigTypeOK, PcValues, Kinds
<1>2. NameTypeOK' /\ EnvTypeOK'
  BY DEF NameTypeOK, EnvTypeOK, CtlTypeOK, Places, NoFile
<1>3. DiskTypeOK'
  BY DEF DiskTypeOK
<1>4. ASSUME NEW f \in Procs PROVE FilesInv(f)'
  BY DEF CtlTypeOK, DiskTypeOK, EnvTypeOK, FilesInv, Limited, Files, FileNames, NoFile
<1>5. ASSUME NEW f \in Procs PROVE NamesInv(f)'
  BY DEF CtlTypeOK, NameTypeOK, DiskTypeOK, EnvTypeOK, NamesInv, EntryInv, Wanted, Places
<1>6. ASSUME NEW p \in Places PROVE EntryInv(p)'
  BY DEF CtlTypeOK, NameTypeOK, DiskTypeOK, EnvTypeOK, EntryInv, NamesInv, FilesInv, Wanted,
         Full, FileNames, NoFile, Places
<1>7. QED
  BY <1>1, <1>2, <1>3, <1>4, <1>5, <1>6

\* The parent is held from here on; a temporary export holds its own.
LEMMA OpenParentStep == ASSUME NEW e \in Procs, IInv, OpenParent(e) PROVE IInv'
<1> USE DEF OpenParent, Resolve
<1>1. CtlTypeOK' /\ SigTypeOK'
  BY DEF CtlTypeOK, SigTypeOK, PcValues, Kinds
<1>2. NameTypeOK' /\ EnvTypeOK'
  BY DEF NameTypeOK, EnvTypeOK, CtlTypeOK, Places, NoFile
<1>3. DiskTypeOK'
  BY DEF DiskTypeOK
<1>4. ASSUME NEW f \in Procs PROVE FilesInv(f)'
  BY DEF CtlTypeOK, DiskTypeOK, EnvTypeOK, FilesInv, Limited, Files, FileNames, NoFile
<1>5. ASSUME NEW f \in Procs PROVE NamesInv(f)'
  BY DEF CtlTypeOK, NameTypeOK, DiskTypeOK, EnvTypeOK, NamesInv, EntryInv, Wanted, Places
<1>6. ASSUME NEW p \in Places PROVE EntryInv(p)'
  BY DEF CtlTypeOK, NameTypeOK, DiskTypeOK, EnvTypeOK, EntryInv, NamesInv, FilesInv, Wanted,
         Full, FileNames, NoFile, Places
<1>7. QED
  BY <1>1, <1>2, <1>3, <1>4, <1>5, <1>6

\* The stage is not a destination.
LEMMA MakeStageStep == ASSUME NEW e \in Procs, IInv, MakeStage(e) PROVE IInv'
<1> USE DEF MakeStage
<1>1. CtlTypeOK' /\ SigTypeOK'
  BY DEF CtlTypeOK, SigTypeOK, PcValues, Kinds
<1>2. NameTypeOK' /\ EnvTypeOK'
  BY DEF NameTypeOK, EnvTypeOK, CtlTypeOK, Places, NoFile
<1>3. DiskTypeOK'
  BY DEF DiskTypeOK
<1>4. ASSUME NEW f \in Procs PROVE FilesInv(f)'
  BY DEF CtlTypeOK, DiskTypeOK, EnvTypeOK, FilesInv, Limited, Files, FileNames, NoFile
<1>5. ASSUME NEW f \in Procs PROVE NamesInv(f)'
  BY DEF CtlTypeOK, NameTypeOK, DiskTypeOK, EnvTypeOK, NamesInv, EntryInv, Wanted, Places
<1>6. ASSUME NEW p \in Places PROVE EntryInv(p)'
  BY DEF CtlTypeOK, NameTypeOK, DiskTypeOK, EnvTypeOK, EntryInv, NamesInv, FilesInv, Wanted,
         Full, FileNames, NoFile, Places
<1>7. QED
  BY <1>1, <1>2, <1>3, <1>4, <1>5, <1>6

\* The directory "export" starts out empty and unpublished.
LEMMA OpenStageStep == ASSUME NEW e \in Procs, IInv, OpenStage(e) PROVE IInv'
<1> USE DEF OpenStage
<1>1. CtlTypeOK' /\ SigTypeOK'
  BY DEF CtlTypeOK, SigTypeOK, PcValues, Kinds
<1>2. NameTypeOK' /\ EnvTypeOK'
  BY DEF NameTypeOK, EnvTypeOK, CtlTypeOK, Places, NoFile
<1>3. DiskTypeOK'
  BY DEF DiskTypeOK
<1>4. ASSUME NEW f \in Procs PROVE FilesInv(f)'
  BY DEF CtlTypeOK, DiskTypeOK, EnvTypeOK, FilesInv, Limited, Files, FileNames, NoFile
<1>5. ASSUME NEW f \in Procs PROVE NamesInv(f)'
  BY DEF CtlTypeOK, NameTypeOK, DiskTypeOK, EnvTypeOK, NamesInv, EntryInv, Wanted, Places
<1>6. ASSUME NEW p \in Places PROVE EntryInv(p)'
  BY DEF CtlTypeOK, NameTypeOK, DiskTypeOK, EnvTypeOK, EntryInv, NamesInv, FilesInv, Wanted,
         Full, FileNames, NoFile, Places
<1>7. QED
  BY <1>1, <1>2, <1>3, <1>4, <1>5, <1>6

\* A failed connection sets err before anything was published.
LEMMA ConnectStep == ASSUME NEW e \in Procs, IInv, Connect(e) PROVE IInv'
<1> USE DEF Connect
<1>1. CtlTypeOK' /\ SigTypeOK'
  BY DEF CtlTypeOK, SigTypeOK, PcValues, Kinds
<1>2. NameTypeOK' /\ EnvTypeOK'
  BY DEF NameTypeOK, EnvTypeOK, CtlTypeOK, Places, NoFile
<1>3. DiskTypeOK'
  BY DEF DiskTypeOK
<1>4. ASSUME NEW f \in Procs PROVE FilesInv(f)'
  BY DEF CtlTypeOK, DiskTypeOK, EnvTypeOK, FilesInv, Limited, Files, FileNames, NoFile
<1>5. ASSUME NEW f \in Procs PROVE NamesInv(f)'
  BY DEF CtlTypeOK, NameTypeOK, DiskTypeOK, EnvTypeOK, NamesInv, EntryInv, Wanted, Places
<1>6. ASSUME NEW p \in Places PROVE EntryInv(p)'
  BY DEF CtlTypeOK, NameTypeOK, DiskTypeOK, EnvTypeOK, EntryInv, NamesInv, FilesInv, Wanted,
         Full, FileNames, NoFile, Places
<1>7. QED
  BY <1>1, <1>2, <1>3, <1>4, <1>5, <1>6

\* The snapshot is fixed once, from the database as it is.
LEMMA BeginTransactionStep == ASSUME NEW e \in Procs, IInv, BeginTransaction(e) PROVE IInv'
<1> USE DEF BeginTransaction
<1>1. CtlTypeOK' /\ SigTypeOK'
  BY DEF CtlTypeOK, SigTypeOK, PcValues, Kinds
<1>2. NameTypeOK' /\ EnvTypeOK'
  BY DEF NameTypeOK, EnvTypeOK, CtlTypeOK, Places, NoFile
<1>3. DiskTypeOK'
  BY DEF DiskTypeOK
<1>4. ASSUME NEW f \in Procs PROVE FilesInv(f)'
  BY DEF CtlTypeOK, DiskTypeOK, EnvTypeOK, FilesInv, Limited, Files, FileNames, NoFile
<1>5. ASSUME NEW f \in Procs PROVE NamesInv(f)'
  BY DEF CtlTypeOK, NameTypeOK, DiskTypeOK, EnvTypeOK, NamesInv, EntryInv, Wanted, Places
<1>6. ASSUME NEW p \in Places PROVE EntryInv(p)'
  BY DEF CtlTypeOK, NameTypeOK, DiskTypeOK, EnvTypeOK, EntryInv, NamesInv, FilesInv, Wanted,
         Full, FileNames, NoFile, Places
<1>7. QED
  BY <1>1, <1>2, <1>3, <1>4, <1>5, <1>6

\* The spend file starts with no rows of the snapshot.
LEMMA CreateSpendStep == ASSUME NEW e \in Procs, IInv, CreateSpend(e) PROVE IInv'
<1> USE DEF CreateSpend, Create
<1>1. CtlTypeOK' /\ SigTypeOK'
  BY DEF CtlTypeOK, SigTypeOK, PcValues, Kinds
<1>2. NameTypeOK' /\ EnvTypeOK'
  BY DEF NameTypeOK, EnvTypeOK, CtlTypeOK, Places, NoFile
<1>3. DiskTypeOK'
  <2>1. "spend" \in FileNames /\ 0 \in NoFile..(MaxRows + 1)
    BY DEF EnvTypeOK, DiskTypeOK, FilesInv, Files, FileNames, NoFile, Limited
  <2>2. file' \in [Procs -> Files]
    BY <2>1, FilePut DEF DiskTypeOK
  <2>3. QED
    BY <2>2 DEF DiskTypeOK
<1>4. ASSUME NEW f \in Procs PROVE FilesInv(f)'
  BY DEF CtlTypeOK, DiskTypeOK, EnvTypeOK, FilesInv, Limited, Files, FileNames, NoFile
<1>5. ASSUME NEW f \in Procs PROVE NamesInv(f)'
  BY DEF CtlTypeOK, NameTypeOK, DiskTypeOK, EnvTypeOK, NamesInv, EntryInv, Wanted, Places
<1>6. ASSUME NEW p \in Places PROVE EntryInv(p)'
  BY DEF CtlTypeOK, NameTypeOK, DiskTypeOK, EnvTypeOK, EntryInv, NamesInv, FilesInv, Wanted,
         Full, FileNames, NoFile, Places
<1>7. QED
  BY <1>1, <1>2, <1>3, <1>4, <1>5, <1>6

\* The daily file is created only when it was asked for.
LEMMA CreateDailyStep == ASSUME NEW e \in Procs, IInv, CreateDaily(e) PROVE IInv'
<1> USE DEF CreateDaily, Create
<1>1. CtlTypeOK' /\ SigTypeOK'
  BY DEF CtlTypeOK, SigTypeOK, PcValues, Kinds
<1>2. NameTypeOK' /\ EnvTypeOK'
  BY DEF NameTypeOK, EnvTypeOK, CtlTypeOK, Places, NoFile
<1>3. DiskTypeOK'
  <2>1. "daily" \in FileNames /\ 0 \in NoFile..(MaxRows + 1)
    BY DEF EnvTypeOK, DiskTypeOK, FilesInv, Files, FileNames, NoFile, Limited
  <2>2. file' \in [Procs -> Files]
    BY <2>1, FilePut DEF DiskTypeOK
  <2>3. QED
    BY <2>2 DEF DiskTypeOK
<1>4. ASSUME NEW f \in Procs PROVE FilesInv(f)'
  BY DEF CtlTypeOK, DiskTypeOK, EnvTypeOK, FilesInv, Limited, Files, FileNames, NoFile
<1>5. ASSUME NEW f \in Procs PROVE NamesInv(f)'
  BY DEF CtlTypeOK, NameTypeOK, DiskTypeOK, EnvTypeOK, NamesInv, EntryInv, Wanted, Places
<1>6. ASSUME NEW p \in Places PROVE EntryInv(p)'
  BY SMTT(30) DEF CtlTypeOK, NameTypeOK, DiskTypeOK, EnvTypeOK, EntryInv, NamesInv, FilesInv, Wanted,
         Full, FileNames, NoFile, Places
<1>7. QED
  BY <1>1, <1>2, <1>3, <1>4, <1>5, <1>6

\* A row more never exceeds what the limited query returns.
LEMMA CopyRowStep == ASSUME NEW e \in Procs, IInv, CopyRow(e) PROVE IInv'
<1> USE DEF CopyRow
<1>1. CtlTypeOK' /\ SigTypeOK'
  BY DEF CtlTypeOK, SigTypeOK, PcValues, Kinds
<1>2. NameTypeOK' /\ EnvTypeOK'
  BY DEF NameTypeOK, EnvTypeOK, CtlTypeOK, Places, NoFile
<1>3. DiskTypeOK'
  <2>1. "spend" \in FileNames /\ file[e]["spend"] \in Int
    BY DEF DiskTypeOK, Files, FileNames, NoFile
  <2>2. file[e]["spend"] + 1 \in NoFile..(MaxRows + 1)
    BY <2>1 DEF EnvTypeOK, FilesInv, NoFile, Limited
  <2>3. file' \in [Procs -> Files]
    BY <2>1, <2>2, FilePut DEF DiskTypeOK
  <2>4. QED
    BY <2>3 DEF DiskTypeOK
<1>4. ASSUME NEW f \in Procs PROVE FilesInv(f)'
  <2>1. CASE f = e
    BY <2>1 DEF CtlTypeOK, DiskTypeOK, EnvTypeOK, FilesInv, Limited, Files, FileNames, NoFile
  <2>2. CASE f # e
    BY <2>2 DEF CtlTypeOK, DiskTypeOK, FilesInv
  <2>3. QED
    BY <2>1, <2>2
<1>5. ASSUME NEW f \in Procs PROVE NamesInv(f)'
  BY DEF CtlTypeOK, NameTypeOK, DiskTypeOK, EnvTypeOK, NamesInv, EntryInv, Wanted, Places
<1>6. ASSUME NEW p \in Places PROVE EntryInv(p)'
  <2>1. ~complete[e]
    BY DEF NamesInv
  <2>2. entry' = entry /\ complete' = complete /\ held' = held /\ synced' = synced
        /\ snap' = snap /\ opts' = opts /\ code' = code
    BY DEF nameVars, ctlVars, Fail, Goto
  <2>3. ASSUME NEW f \in Procs, f # e PROVE file'[f] = file[f]
    BY <2>3 DEF DiskTypeOK
  <2>4. SUFFICES ASSUME entry[p] \in Procs PROVE EntryInv(p)'
    BY <2>2 DEF EntryInv
  <2>5. complete[entry[p]] /\ held[entry[p]] = p /\ entry[p] # e
    BY <2>1, <2>4 DEF EntryInv
  <2>6. file'[entry[p]] = file[entry[p]]
    BY <2>3, <2>4, <2>5
  <2>7. QED
    BY <2>2, <2>4, <2>5, <2>6 DEF EntryInv, Wanted, Full
<1>7. QED
  BY <1>1, <1>2, <1>3, <1>4, <1>5, <1>6

\* The copy ends with the whole snapshot or with an error: LIMIT MaxRows+1
\* makes a snapshot that does not fit visible.
LEMMA CopyEndStep == ASSUME NEW e \in Procs, IInv, CopyEnd(e) PROVE IInv'
<1> USE DEF CopyEnd
<1>1. CtlTypeOK' /\ SigTypeOK'
  BY DEF CtlTypeOK, SigTypeOK, PcValues, Kinds
<1>2. NameTypeOK' /\ EnvTypeOK'
  BY DEF NameTypeOK, EnvTypeOK, CtlTypeOK, Places, NoFile
<1>3. DiskTypeOK'
  BY DEF DiskTypeOK
<1>4. ASSUME NEW f \in Procs PROVE FilesInv(f)'
  BY DEF CtlTypeOK, DiskTypeOK, EnvTypeOK, FilesInv, Limited, Files, FileNames, NoFile
<1>5. ASSUME NEW f \in Procs PROVE NamesInv(f)'
  BY DEF CtlTypeOK, NameTypeOK, DiskTypeOK, EnvTypeOK, NamesInv, EntryInv, Wanted, Places
<1>6. ASSUME NEW p \in Places PROVE EntryInv(p)'
  BY DEF CtlTypeOK, NameTypeOK, DiskTypeOK, EnvTypeOK, EntryInv, NamesInv, FilesInv, Wanted,
         Full, FileNames, NoFile, Places
<1>7. QED
  BY <1>1, <1>2, <1>3, <1>4, <1>5, <1>6

\* The copied spend file is on the disk from here on.
LEMMA SyncSpendStep == ASSUME NEW e \in Procs, IInv, SyncSpend(e) PROVE IInv'
<1> USE DEF SyncSpend, SyncFile
<1>1. CtlTypeOK' /\ SigTypeOK'
  BY DEF CtlTypeOK, SigTypeOK, PcValues, Kinds
<1>2. NameTypeOK' /\ EnvTypeOK'
  BY DEF NameTypeOK, EnvTypeOK, CtlTypeOK, Places, NoFile
<1>3. DiskTypeOK'
  BY DEF DiskTypeOK
<1>4. ASSUME NEW f \in Procs PROVE FilesInv(f)'
  BY DEF CtlTypeOK, DiskTypeOK, EnvTypeOK, FilesInv, Limited, Files, FileNames, NoFile
<1>5. ASSUME NEW f \in Procs PROVE NamesInv(f)'
  BY DEF CtlTypeOK, NameTypeOK, DiskTypeOK, EnvTypeOK, NamesInv, EntryInv, Wanted, Places
<1>6. ASSUME NEW p \in Places PROVE EntryInv(p)'
  BY DEF CtlTypeOK, NameTypeOK, DiskTypeOK, EnvTypeOK, EntryInv, NamesInv, FilesInv, Wanted,
         Full, FileNames, NoFile, Places
<1>7. QED
  BY <1>1, <1>2, <1>3, <1>4, <1>5, <1>6

\* So is the daily file.
LEMMA SyncDailyStep == ASSUME NEW e \in Procs, IInv, SyncDaily(e) PROVE IInv'
<1> USE DEF SyncDaily, SyncFile
<1>1. CtlTypeOK' /\ SigTypeOK'
  BY DEF CtlTypeOK, SigTypeOK, PcValues, Kinds
<1>2. NameTypeOK' /\ EnvTypeOK'
  BY DEF NameTypeOK, EnvTypeOK, CtlTypeOK, Places, NoFile
<1>3. DiskTypeOK'
  BY DEF DiskTypeOK
<1>4. ASSUME NEW f \in Procs PROVE FilesInv(f)'
  BY DEF CtlTypeOK, DiskTypeOK, EnvTypeOK, FilesInv, Limited, Files, FileNames, NoFile
<1>5. ASSUME NEW f \in Procs PROVE NamesInv(f)'
  BY DEF CtlTypeOK, NameTypeOK, DiskTypeOK, EnvTypeOK, NamesInv, EntryInv, Wanted, Places
<1>6. ASSUME NEW p \in Places PROVE EntryInv(p)'
  BY DEF CtlTypeOK, NameTypeOK, DiskTypeOK, EnvTypeOK, EntryInv, NamesInv, FilesInv, Wanted,
         Full, FileNames, NoFile, Places
<1>7. QED
  BY <1>1, <1>2, <1>3, <1>4, <1>5, <1>6

\* The daily counters come from the same snapshot.
LEMMA CopyDailyStep == ASSUME NEW e \in Procs, IInv, CopyDaily(e) PROVE IInv'
<1> USE DEF CopyDaily
<1>1. CtlTypeOK' /\ SigTypeOK'
  BY DEF CtlTypeOK, SigTypeOK, PcValues, Kinds
<1>2. NameTypeOK' /\ EnvTypeOK'
  BY DEF NameTypeOK, EnvTypeOK, CtlTypeOK, Places, NoFile
<1>3. DiskTypeOK'
  <2>1. "daily" \in FileNames /\ snap[e] \in NoFile..(MaxRows + 1)
    BY DEF EnvTypeOK, DiskTypeOK, FilesInv, Files, FileNames, NoFile, Limited
  <2>2. file' \in [Procs -> Files]
    BY <2>1, FilePut DEF DiskTypeOK
  <2>3. QED
    BY <2>2 DEF DiskTypeOK
<1>4. ASSUME NEW f \in Procs PROVE FilesInv(f)'
  BY DEF CtlTypeOK, DiskTypeOK, EnvTypeOK, FilesInv, Limited, Files, FileNames, NoFile
<1>5. ASSUME NEW f \in Procs PROVE NamesInv(f)'
  BY DEF CtlTypeOK, NameTypeOK, DiskTypeOK, EnvTypeOK, NamesInv, EntryInv, Wanted, Places
<1>6. ASSUME NEW p \in Places PROVE EntryInv(p)'
  BY DEF CtlTypeOK, NameTypeOK, DiskTypeOK, EnvTypeOK, EntryInv, NamesInv, FilesInv, Wanted,
         Full, FileNames, NoFile, Places
<1>7. QED
  BY <1>1, <1>2, <1>3, <1>4, <1>5, <1>6

\* Ending the transaction leaves the files as they are.
LEMMA CommitStep == ASSUME NEW e \in Procs, IInv, Commit(e) PROVE IInv'
<1> USE DEF Commit
<1>1. CtlTypeOK' /\ SigTypeOK'
  BY DEF CtlTypeOK, SigTypeOK, PcValues, Kinds
<1>2. NameTypeOK' /\ EnvTypeOK'
  BY DEF NameTypeOK, EnvTypeOK, CtlTypeOK, Places, NoFile
<1>3. DiskTypeOK'
  BY DEF DiskTypeOK
<1>4. ASSUME NEW f \in Procs PROVE FilesInv(f)'
  BY DEF CtlTypeOK, DiskTypeOK, EnvTypeOK, FilesInv, Limited, Files, FileNames, NoFile
<1>5. ASSUME NEW f \in Procs PROVE NamesInv(f)'
  BY DEF CtlTypeOK, NameTypeOK, DiskTypeOK, EnvTypeOK, NamesInv, EntryInv, Wanted, Places
<1>6. ASSUME NEW p \in Places PROVE EntryInv(p)'
  BY DEF CtlTypeOK, NameTypeOK, DiskTypeOK, EnvTypeOK, EntryInv, NamesInv, FilesInv, Wanted,
         Full, FileNames, NoFile, Places
<1>7. QED
  BY <1>1, <1>2, <1>3, <1>4, <1>5, <1>6

\* Validation reads only.
LEMMA ValidateStep == ASSUME NEW e \in Procs, IInv, Validate(e) PROVE IInv'
<1> USE DEF Validate
<1>1. CtlTypeOK' /\ SigTypeOK'
  BY DEF CtlTypeOK, SigTypeOK, PcValues, Kinds
<1>2. NameTypeOK' /\ EnvTypeOK'
  BY DEF NameTypeOK, EnvTypeOK, CtlTypeOK, Places, NoFile
<1>3. DiskTypeOK'
  BY DEF DiskTypeOK
<1>4. ASSUME NEW f \in Procs PROVE FilesInv(f)'
  BY DEF CtlTypeOK, DiskTypeOK, EnvTypeOK, FilesInv, Limited, Files, FileNames, NoFile
<1>5. ASSUME NEW f \in Procs PROVE NamesInv(f)'
  BY DEF CtlTypeOK, NameTypeOK, DiskTypeOK, EnvTypeOK, NamesInv, EntryInv, Wanted, Places
<1>6. ASSUME NEW p \in Places PROVE EntryInv(p)'
  BY DEF CtlTypeOK, NameTypeOK, DiskTypeOK, EnvTypeOK, EntryInv, NamesInv, FilesInv, Wanted,
         Full, FileNames, NoFile, Places
<1>7. QED
  BY <1>1, <1>2, <1>3, <1>4, <1>5, <1>6

\* The directory is synced before the context is looked at.
LEMMA VerifyStep == ASSUME NEW e \in Procs, IInv, Verify(e) PROVE IInv'
<1> USE DEF Verify
<1>1. CtlTypeOK' /\ SigTypeOK'
  BY DEF CtlTypeOK, SigTypeOK, PcValues, Kinds
<1>2. NameTypeOK' /\ EnvTypeOK'
  BY DEF NameTypeOK, EnvTypeOK, CtlTypeOK, Places, NoFile
<1>3. DiskTypeOK'
  BY DEF DiskTypeOK
<1>4. ASSUME NEW f \in Procs PROVE FilesInv(f)'
  BY DEF CtlTypeOK, DiskTypeOK, EnvTypeOK, FilesInv, Limited, Files, FileNames, NoFile
<1>5. ASSUME NEW f \in Procs PROVE NamesInv(f)'
  BY DEF CtlTypeOK, NameTypeOK, DiskTypeOK, EnvTypeOK, NamesInv, EntryInv, Wanted, Places
<1>6. ASSUME NEW p \in Places PROVE EntryInv(p)'
  BY DEF CtlTypeOK, NameTypeOK, DiskTypeOK, EnvTypeOK, EntryInv, NamesInv, FilesInv, Wanted,
         Full, FileNames, NoFile, Places
<1>7. QED
  BY <1>1, <1>2, <1>3, <1>4, <1>5, <1>6

\* The last look at the context changes nothing on the disk.
LEMMA CheckContextStep == ASSUME NEW e \in Procs, IInv, CheckContext(e) PROVE IInv'
<1> USE DEF CheckContext
<1>1. CtlTypeOK' /\ SigTypeOK'
  BY DEF CtlTypeOK, SigTypeOK, PcValues, Kinds
<1>2. NameTypeOK' /\ EnvTypeOK'
  BY DEF NameTypeOK, EnvTypeOK, CtlTypeOK, Places, NoFile
<1>3. DiskTypeOK'
  BY DEF DiskTypeOK
<1>4. ASSUME NEW f \in Procs PROVE FilesInv(f)'
  BY DEF CtlTypeOK, DiskTypeOK, EnvTypeOK, FilesInv, Limited, Files, FileNames, NoFile
<1>5. ASSUME NEW f \in Procs PROVE NamesInv(f)'
  BY DEF CtlTypeOK, NameTypeOK, DiskTypeOK, EnvTypeOK, NamesInv, EntryInv, Wanted, Places
<1>6. ASSUME NEW p \in Places PROVE EntryInv(p)'
  BY DEF CtlTypeOK, NameTypeOK, DiskTypeOK, EnvTypeOK, EntryInv, NamesInv, FilesInv, Wanted,
         Full, FileNames, NoFile, Places
<1>7. QED
  BY <1>1, <1>2, <1>3, <1>4, <1>5, <1>6

\* The commit point: the destination was free and the files are whole and
\* synced, so the new entry satisfies EntryInv.
LEMMA RenameStep == ASSUME NEW e \in Procs, IInv, Rename(e) PROVE IInv'
<1> USE DEF Rename, MayTake
<1>1. CtlTypeOK' /\ SigTypeOK'
  BY DEF CtlTypeOK, SigTypeOK, PcValues, Kinds
<1>2. NameTypeOK' /\ EnvTypeOK'
  BY DEF NameTypeOK, EnvTypeOK, CtlTypeOK, Places, NoFile
<1>3. DiskTypeOK'
  BY DEF DiskTypeOK
<1>4. ASSUME NEW f \in Procs PROVE FilesInv(f)'
  BY DEF CtlTypeOK, DiskTypeOK, EnvTypeOK, FilesInv, Limited, Files, FileNames, NoFile
<1>5. ASSUME NEW f \in Procs PROVE NamesInv(f)'
  BY DEF CtlTypeOK, NameTypeOK, DiskTypeOK, EnvTypeOK, NamesInv, EntryInv, Wanted, Places
<1>6. ASSUME NEW p \in Places PROVE EntryInv(p)'
  BY SMTT(30) DEF CtlTypeOK, NameTypeOK, DiskTypeOK, EnvTypeOK, EntryInv, NamesInv, FilesInv, Wanted,
         Full, FileNames, NoFile, Places
<1>7. QED
  BY <1>1, <1>2, <1>3, <1>4, <1>5, <1>6

\* The rewrite of err keeps nil as nil, so a published export stays a success.
LEMMA UnwindStep == ASSUME NEW e \in Procs, IInv, Unwind(e) PROVE IInv'
<1> USE DEF Unwind, Rewritten
<1>1. CtlTypeOK' /\ SigTypeOK'
  BY DEF CtlTypeOK, SigTypeOK, PcValues, Kinds
<1>2. NameTypeOK' /\ EnvTypeOK'
  BY DEF NameTypeOK, EnvTypeOK, CtlTypeOK, Places, NoFile
<1>3. DiskTypeOK'
  BY DEF DiskTypeOK
<1>4. ASSUME NEW f \in Procs PROVE FilesInv(f)'
  BY DEF CtlTypeOK, DiskTypeOK, EnvTypeOK, FilesInv, Limited, Files, FileNames, NoFile
<1>5. ASSUME NEW f \in Procs PROVE NamesInv(f)'
  BY DEF CtlTypeOK, NameTypeOK, DiskTypeOK, EnvTypeOK, NamesInv, EntryInv, Wanted, Places
<1>6. ASSUME NEW p \in Places PROVE EntryInv(p)'
  BY DEF CtlTypeOK, NameTypeOK, DiskTypeOK, EnvTypeOK, EntryInv, NamesInv, FilesInv, Wanted,
         Full, FileNames, NoFile, Places
<1>7. QED
  BY <1>1, <1>2, <1>3, <1>4, <1>5, <1>6

\* Only an export that was not published loses its files.
LEMMA CloseFilesStep == ASSUME NEW e \in Procs, IInv, CloseFiles(e) PROVE IInv'
<1> USE DEF CloseFiles
<1>1. CtlTypeOK' /\ SigTypeOK'
  BY DEF CtlTypeOK, SigTypeOK, PcValues, Kinds
<1>2. NameTypeOK' /\ EnvTypeOK'
  BY DEF NameTypeOK, EnvTypeOK, CtlTypeOK, Places, NoFile
<1>3. DiskTypeOK'
  <2>1. file' \in [Procs -> Files]
    BY FileClear DEF DiskTypeOK
  <2>2. QED
    BY <2>1 DEF DiskTypeOK
<1>4. ASSUME NEW f \in Procs PROVE FilesInv(f)'
  BY DEF CtlTypeOK, DiskTypeOK, EnvTypeOK, FilesInv, Limited, Files, FileNames, NoFile
<1>5. ASSUME NEW f \in Procs PROVE NamesInv(f)'
  BY DEF CtlTypeOK, NameTypeOK, DiskTypeOK, EnvTypeOK, NamesInv, EntryInv, Wanted, Places
<1>6. ASSUME NEW p \in Places PROVE EntryInv(p)'
  BY DEF CtlTypeOK, NameTypeOK, DiskTypeOK, EnvTypeOK, EntryInv, NamesInv, FilesInv, Wanted,
         Full, FileNames, NoFile, Places
<1>7. QED
  BY <1>1, <1>2, <1>3, <1>4, <1>5, <1>6

\* The rmdir concerns an unpublished directory.
LEMMA CloseExportStep == ASSUME NEW e \in Procs, IInv, CloseExport(e) PROVE IInv'
<1> USE DEF CloseExport
<1>1. CtlTypeOK' /\ SigTypeOK'
  BY DEF CtlTypeOK, SigTypeOK, PcValues, Kinds
<1>2. NameTypeOK' /\ EnvTypeOK'
  BY ZenonT(30) DEF NameTypeOK, EnvTypeOK, CtlTypeOK, Places, NoFile
<1>3. DiskTypeOK'
  BY DEF DiskTypeOK
<1>4. ASSUME NEW f \in Procs PROVE FilesInv(f)'
  BY DEF CtlTypeOK, DiskTypeOK, EnvTypeOK, FilesInv, Limited, Files, FileNames, NoFile
<1>5. ASSUME NEW f \in Procs PROVE NamesInv(f)'
  BY DEF CtlTypeOK, NameTypeOK, DiskTypeOK, EnvTypeOK, NamesInv, EntryInv, Wanted, Places
<1>6. ASSUME NEW p \in Places PROVE EntryInv(p)'
  BY DEF CtlTypeOK, NameTypeOK, DiskTypeOK, EnvTypeOK, EntryInv, NamesInv, FilesInv, Wanted,
         Full, FileNames, NoFile, Places
<1>7. QED
  BY <1>1, <1>2, <1>3, <1>4, <1>5, <1>6

\* The stage is not a destination.
LEMMA CloseStageStep == ASSUME NEW e \in Procs, IInv, CloseStage(e) PROVE IInv'
<1> USE DEF CloseStage
<1>1. CtlTypeOK' /\ SigTypeOK'
  BY DEF CtlTypeOK, SigTypeOK, PcValues, Kinds
<1>2. NameTypeOK' /\ EnvTypeOK'
  BY DEF NameTypeOK, EnvTypeOK, CtlTypeOK, Places, NoFile
<1>3. DiskTypeOK'
  BY DEF DiskTypeOK
<1>4. ASSUME NEW f \in Procs PROVE FilesInv(f)'
  BY DEF CtlTypeOK, DiskTypeOK, EnvTypeOK, FilesInv, Limited, Files, FileNames, NoFile
<1>5. ASSUME NEW f \in Procs PROVE NamesInv(f)'
  BY DEF CtlTypeOK, NameTypeOK, DiskTypeOK, EnvTypeOK, NamesInv, EntryInv, Wanted, Places
<1>6. ASSUME NEW p \in Places PROVE EntryInv(p)'
  BY DEF CtlTypeOK, NameTypeOK, DiskTypeOK, EnvTypeOK, EntryInv, NamesInv, FilesInv, Wanted,
         Full, FileNames, NoFile, Places
<1>7. QED
  BY <1>1, <1>2, <1>3, <1>4, <1>5, <1>6

\* The answer is err, which is nil exactly when the export was published.
LEMMA ReturnStep == ASSUME NEW e \in Procs, IInv, Return(e) PROVE IInv'
<1> USE DEF Return
<1>1. CtlTypeOK' /\ SigTypeOK'
  BY DEF CtlTypeOK, SigTypeOK, PcValues, Kinds
<1>2. NameTypeOK' /\ EnvTypeOK'
  BY DEF NameTypeOK, EnvTypeOK, CtlTypeOK, Places, NoFile
<1>3. DiskTypeOK'
  BY DEF DiskTypeOK
<1>4. ASSUME NEW f \in Procs PROVE FilesInv(f)'
  BY DEF CtlTypeOK, DiskTypeOK, EnvTypeOK, FilesInv, Limited, Files, FileNames, NoFile
<1>5. ASSUME NEW f \in Procs PROVE NamesInv(f)'
  BY DEF CtlTypeOK, NameTypeOK, DiskTypeOK, EnvTypeOK, NamesInv, EntryInv, Wanted, Places
<1>6. ASSUME NEW p \in Places PROVE EntryInv(p)'
  BY DEF CtlTypeOK, NameTypeOK, DiskTypeOK, EnvTypeOK, EntryInv, NamesInv, FilesInv, Wanted,
         Full, FileNames, NoFile, Places
<1>7. QED
  BY <1>1, <1>2, <1>3, <1>4, <1>5, <1>6

\* Waiting for the goroutine changes nothing.
LEMMA JoinStep == ASSUME NEW e \in Procs, IInv, Join(e) PROVE IInv'
<1> USE DEF Join
<1>1. CtlTypeOK' /\ SigTypeOK'
  BY DEF CtlTypeOK, SigTypeOK, PcValues, Kinds
<1>2. NameTypeOK' /\ EnvTypeOK'
  BY DEF NameTypeOK, EnvTypeOK, CtlTypeOK, Places, NoFile
<1>3. DiskTypeOK'
  BY DEF DiskTypeOK
<1>4. ASSUME NEW f \in Procs PROVE FilesInv(f)'
  BY DEF CtlTypeOK, DiskTypeOK, EnvTypeOK, FilesInv, Limited, Files, FileNames, NoFile
<1>5. ASSUME NEW f \in Procs PROVE NamesInv(f)'
  BY DEF CtlTypeOK, NameTypeOK, DiskTypeOK, EnvTypeOK, NamesInv, EntryInv, Wanted, Places
<1>6. ASSUME NEW p \in Places PROVE EntryInv(p)'
  BY DEF CtlTypeOK, NameTypeOK, DiskTypeOK, EnvTypeOK, EntryInv, NamesInv, FilesInv, Wanted,
         Full, FileNames, NoFile, Places
<1>7. QED
  BY <1>1, <1>2, <1>3, <1>4, <1>5, <1>6

\* The exit code of a finished command ends the claim on a temporary export.
LEMMA ReportStep == ASSUME NEW e \in Procs, IInv, Report(e) PROVE IInv'
<1> USE DEF Report, AfterCommand
<1>1. CtlTypeOK' /\ SigTypeOK'
  BY DEF CtlTypeOK, SigTypeOK, PcValues, Kinds
<1>2. NameTypeOK' /\ EnvTypeOK'
  BY DEF NameTypeOK, EnvTypeOK, CtlTypeOK, Places, NoFile
<1>3. DiskTypeOK'
  BY DEF DiskTypeOK
<1>4. ASSUME NEW f \in Procs PROVE FilesInv(f)'
  BY DEF CtlTypeOK, DiskTypeOK, EnvTypeOK, FilesInv, Limited, Files, FileNames, NoFile
<1>5. ASSUME NEW f \in Procs PROVE NamesInv(f)'
  BY DEF CtlTypeOK, NameTypeOK, DiskTypeOK, EnvTypeOK, NamesInv, EntryInv, Wanted, Places
<1>6. ASSUME NEW p \in Places PROVE EntryInv(p)'
  BY DEF CtlTypeOK, NameTypeOK, DiskTypeOK, EnvTypeOK, EntryInv, NamesInv, FilesInv, Wanted,
         Full, FileNames, NoFile, Places
<1>7. QED
  BY <1>1, <1>2, <1>3, <1>4, <1>5, <1>6

\* So does the end of the analysis.
LEMMA AnalyseStep == ASSUME NEW e \in Procs, IInv, Analyse(e) PROVE IInv'
<1> USE DEF Analyse, AfterCommand
<1>1. CtlTypeOK' /\ SigTypeOK'
  BY DEF CtlTypeOK, SigTypeOK, PcValues, Kinds
<1>2. NameTypeOK' /\ EnvTypeOK'
  BY DEF NameTypeOK, EnvTypeOK, CtlTypeOK, Places, NoFile
<1>3. DiskTypeOK'
  BY DEF DiskTypeOK
<1>4. ASSUME NEW f \in Procs PROVE FilesInv(f)'
  BY DEF CtlTypeOK, DiskTypeOK, EnvTypeOK, FilesInv, Limited, Files, FileNames, NoFile
<1>5. ASSUME NEW f \in Procs PROVE NamesInv(f)'
  BY DEF CtlTypeOK, NameTypeOK, DiskTypeOK, EnvTypeOK, NamesInv, EntryInv, Wanted, Places
<1>6. ASSUME NEW p \in Places PROVE EntryInv(p)'
  BY DEF CtlTypeOK, NameTypeOK, DiskTypeOK, EnvTypeOK, EntryInv, NamesInv, FilesInv, Wanted,
         Full, FileNames, NoFile, Places
<1>7. QED
  BY <1>1, <1>2, <1>3, <1>4, <1>5, <1>6

\* Only a temporary export, no longer wanted, is removed.
LEMMA RemoveAllStep == ASSUME NEW e \in Procs, IInv, RemoveAll(e) PROVE IInv'
<1> USE DEF RemoveAll
<1>1. CtlTypeOK' /\ SigTypeOK'
  BY DEF CtlTypeOK, SigTypeOK, PcValues, Kinds
<1>2. NameTypeOK' /\ EnvTypeOK'
  BY DEF NameTypeOK, EnvTypeOK, CtlTypeOK, Places, NoFile
<1>3. DiskTypeOK'
  <2>1. file' \in [Procs -> Files]
    BY FileClear DEF DiskTypeOK
  <2>2. QED
    BY <2>1 DEF DiskTypeOK
<1>4. ASSUME NEW f \in Procs PROVE FilesInv(f)'
  BY DEF CtlTypeOK, DiskTypeOK, EnvTypeOK, FilesInv, Limited, Files, FileNames, NoFile
<1>5. ASSUME NEW f \in Procs PROVE NamesInv(f)'
  BY DEF CtlTypeOK, NameTypeOK, DiskTypeOK, EnvTypeOK, NamesInv, EntryInv, Wanted, Places
<1>6. ASSUME NEW p \in Places PROVE EntryInv(p)'
  BY SMTT(30) DEF CtlTypeOK, NameTypeOK, DiskTypeOK, EnvTypeOK, EntryInv, NamesInv, FilesInv, Wanted,
         Full, FileNames, NoFile, Places
<1>7. QED
  BY <1>1, <1>2, <1>3, <1>4, <1>5, <1>6

\* Removing the temporary parent happens after its export is unwanted.
LEMMA RmParentStep == ASSUME NEW e \in Procs, IInv, RmParent(e) PROVE IInv'
<1> USE DEF RmParent
<1>1. CtlTypeOK' /\ SigTypeOK'
  BY DEF CtlTypeOK, SigTypeOK, PcValues, Kinds
<1>2. NameTypeOK' /\ EnvTypeOK'
  BY DEF NameTypeOK, EnvTypeOK, CtlTypeOK, Places, NoFile
<1>3. DiskTypeOK'
  BY DEF DiskTypeOK
<1>4. ASSUME NEW f \in Procs PROVE FilesInv(f)'
  BY DEF CtlTypeOK, DiskTypeOK, EnvTypeOK, FilesInv, Limited, Files, FileNames, NoFile
<1>5. ASSUME NEW f \in Procs PROVE NamesInv(f)'
  BY DEF CtlTypeOK, NameTypeOK, DiskTypeOK, EnvTypeOK, NamesInv, EntryInv, Wanted, Places
<1>6. ASSUME NEW p \in Places PROVE EntryInv(p)'
  BY DEF CtlTypeOK, NameTypeOK, DiskTypeOK, EnvTypeOK, EntryInv, NamesInv, FilesInv, Wanted,
         Full, FileNames, NoFile, Places
<1>7. QED
  BY <1>1, <1>2, <1>3, <1>4, <1>5, <1>6

\* The goroutine only cancels the context.
LEMMA HandleSignalStep == ASSUME NEW e \in Procs, IInv, HandleSignal(e) PROVE IInv'
<1> USE DEF HandleSignal
<1>1. CtlTypeOK' /\ SigTypeOK'
  BY DEF CtlTypeOK, SigTypeOK, PcValues, Kinds
<1>2. NameTypeOK' /\ EnvTypeOK'
  BY DEF NameTypeOK, EnvTypeOK, CtlTypeOK, Places, NoFile
<1>3. DiskTypeOK'
  BY DEF DiskTypeOK
<1>4. ASSUME NEW f \in Procs PROVE FilesInv(f)'
  BY DEF CtlTypeOK, DiskTypeOK, EnvTypeOK, FilesInv, Limited, Files, FileNames, NoFile
<1>5. ASSUME NEW f \in Procs PROVE NamesInv(f)'
  BY DEF CtlTypeOK, NameTypeOK, DiskTypeOK, EnvTypeOK, NamesInv, EntryInv, Wanted, Places
<1>6. ASSUME NEW p \in Places PROVE EntryInv(p)'
  BY DEF CtlTypeOK, NameTypeOK, DiskTypeOK, EnvTypeOK, EntryInv, NamesInv, FilesInv, Wanted,
         Full, FileNames, NoFile, Places
<1>7. QED
  BY <1>1, <1>2, <1>3, <1>4, <1>5, <1>6

\* The goroutine stops.
LEMMA HandleDoneStep == ASSUME NEW e \in Procs, IInv, HandleDone(e) PROVE IInv'
<1> USE DEF HandleDone
<1>1. CtlTypeOK' /\ SigTypeOK'
  BY DEF CtlTypeOK, SigTypeOK, PcValues, Kinds
<1>2. NameTypeOK' /\ EnvTypeOK'
  BY DEF NameTypeOK, EnvTypeOK, CtlTypeOK, Places, NoFile
<1>3. DiskTypeOK'
  BY DEF DiskTypeOK
<1>4. ASSUME NEW f \in Procs PROVE FilesInv(f)'
  BY DEF CtlTypeOK, DiskTypeOK, EnvTypeOK, FilesInv, Limited, Files, FileNames, NoFile
<1>5. ASSUME NEW f \in Procs PROVE NamesInv(f)'
  BY DEF CtlTypeOK, NameTypeOK, DiskTypeOK, EnvTypeOK, NamesInv, EntryInv, Wanted, Places
<1>6. ASSUME NEW p \in Places PROVE EntryInv(p)'
  BY DEF CtlTypeOK, NameTypeOK, DiskTypeOK, EnvTypeOK, EntryInv, NamesInv, FilesInv, Wanted,
         Full, FileNames, NoFile, Places
<1>7. QED
  BY <1>1, <1>2, <1>3, <1>4, <1>5, <1>6

\* The deadline only ends the context.
LEMMA TimeoutStep == ASSUME NEW e \in Procs, IInv, Timeout(e) PROVE IInv'
<1> USE DEF Timeout
<1>1. CtlTypeOK' /\ SigTypeOK'
  BY DEF CtlTypeOK, SigTypeOK, PcValues, Kinds
<1>2. NameTypeOK' /\ EnvTypeOK'
  BY DEF NameTypeOK, EnvTypeOK, CtlTypeOK, Places, NoFile
<1>3. DiskTypeOK'
  BY DEF DiskTypeOK
<1>4. ASSUME NEW f \in Procs PROVE FilesInv(f)'
  BY DEF CtlTypeOK, DiskTypeOK, EnvTypeOK, FilesInv, Limited, Files, FileNames, NoFile
<1>5. ASSUME NEW f \in Procs PROVE NamesInv(f)'
  BY DEF CtlTypeOK, NameTypeOK, DiskTypeOK, EnvTypeOK, NamesInv, EntryInv, Wanted, Places
<1>6. ASSUME NEW p \in Places PROVE EntryInv(p)'
  BY DEF CtlTypeOK, NameTypeOK, DiskTypeOK, EnvTypeOK, EntryInv, NamesInv, FilesInv, Wanted,
         Full, FileNames, NoFile, Places
<1>7. QED
  BY <1>1, <1>2, <1>3, <1>4, <1>5, <1>6

\* A signal is buffered, or stops the process where it is.
LEMMA SignalStep == ASSUME NEW e \in Procs, IInv, Signal(e) PROVE IInv'
<1> USE DEF Signal
<1>1. CtlTypeOK' /\ SigTypeOK'
  BY ZenonT(30) DEF CtlTypeOK, SigTypeOK, PcValues, Kinds
<1>2. NameTypeOK' /\ EnvTypeOK'
  BY DEF NameTypeOK, EnvTypeOK, CtlTypeOK, Places, NoFile
<1>3. DiskTypeOK'
  BY DEF DiskTypeOK
<1>4. ASSUME NEW f \in Procs PROVE FilesInv(f)'
  BY DEF CtlTypeOK, DiskTypeOK, EnvTypeOK, FilesInv, Limited, Files, FileNames, NoFile
<1>5. ASSUME NEW f \in Procs PROVE NamesInv(f)'
  BY DEF CtlTypeOK, NameTypeOK, DiskTypeOK, EnvTypeOK, NamesInv, EntryInv, Wanted, Places
<1>6. ASSUME NEW p \in Places PROVE EntryInv(p)'
  BY DEF CtlTypeOK, NameTypeOK, DiskTypeOK, EnvTypeOK, EntryInv, NamesInv, FilesInv, Wanted,
         Full, FileNames, NoFile, Places
<1>7. QED
  BY <1>1, <1>2, <1>3, <1>4, <1>5, <1>6

\* A process that stops changes nothing on the disk.
LEMMA CrashStep == ASSUME NEW e \in Procs, IInv, Crash(e) PROVE IInv'
<1> USE DEF Crash
<1>1. CtlTypeOK' /\ SigTypeOK'
  BY DEF CtlTypeOK, SigTypeOK, PcValues, Kinds
<1>2. NameTypeOK' /\ EnvTypeOK'
  BY DEF NameTypeOK, EnvTypeOK, CtlTypeOK, Places, NoFile
<1>3. DiskTypeOK'
  BY DEF DiskTypeOK
<1>4. ASSUME NEW f \in Procs PROVE FilesInv(f)'
  BY DEF CtlTypeOK, DiskTypeOK, EnvTypeOK, FilesInv, Limited, Files, FileNames, NoFile
<1>5. ASSUME NEW f \in Procs PROVE NamesInv(f)'
  BY DEF CtlTypeOK, NameTypeOK, DiskTypeOK, EnvTypeOK, NamesInv, EntryInv, Wanted, Places
<1>6. ASSUME NEW p \in Places PROVE EntryInv(p)'
  BY DEF CtlTypeOK, NameTypeOK, DiskTypeOK, EnvTypeOK, EntryInv, NamesInv, FilesInv, Wanted,
         Full, FileNames, NoFile, Places
<1>7. QED
  BY <1>1, <1>2, <1>3, <1>4, <1>5, <1>6

\* The public name of the stage is not what is renamed.
LEMMA ReplaceStageStep == ASSUME NEW e \in Procs, IInv, ReplaceStage(e) PROVE IInv'
<1> USE DEF ReplaceStage
<1>1. CtlTypeOK' /\ SigTypeOK'
  BY DEF CtlTypeOK, SigTypeOK, PcValues, Kinds
<1>2. NameTypeOK' /\ EnvTypeOK'
  BY DEF NameTypeOK, EnvTypeOK, CtlTypeOK, Places, NoFile
<1>3. DiskTypeOK'
  BY DEF DiskTypeOK
<1>4. ASSUME NEW f \in Procs PROVE FilesInv(f)'
  BY DEF CtlTypeOK, DiskTypeOK, EnvTypeOK, FilesInv, Limited, Files, FileNames, NoFile
<1>5. ASSUME NEW f \in Procs PROVE NamesInv(f)'
  BY DEF CtlTypeOK, NameTypeOK, DiskTypeOK, EnvTypeOK, NamesInv, EntryInv, Wanted, Places
<1>6. ASSUME NEW p \in Places PROVE EntryInv(p)'
  BY DEF CtlTypeOK, NameTypeOK, DiskTypeOK, EnvTypeOK, EntryInv, NamesInv, FilesInv, Wanted,
         Full, FileNames, NoFile, Places
<1>7. QED
  BY <1>1, <1>2, <1>3, <1>4, <1>5, <1>6

\* A stray entry is not one of the exporter's files.
LEMMA StrayEntryStep == ASSUME NEW e \in Procs, IInv, StrayEntry(e) PROVE IInv'
<1> USE DEF StrayEntry
<1>1. CtlTypeOK' /\ SigTypeOK'
  BY DEF CtlTypeOK, SigTypeOK, PcValues, Kinds
<1>2. NameTypeOK' /\ EnvTypeOK'
  BY DEF NameTypeOK, EnvTypeOK, CtlTypeOK, Places, NoFile
<1>3. DiskTypeOK'
  BY DEF DiskTypeOK
<1>4. ASSUME NEW f \in Procs PROVE FilesInv(f)'
  BY DEF CtlTypeOK, DiskTypeOK, EnvTypeOK, FilesInv, Limited, Files, FileNames, NoFile
<1>5. ASSUME NEW f \in Procs PROVE NamesInv(f)'
  BY DEF CtlTypeOK, NameTypeOK, DiskTypeOK, EnvTypeOK, NamesInv, EntryInv, Wanted, Places
<1>6. ASSUME NEW p \in Places PROVE EntryInv(p)'
  BY DEF CtlTypeOK, NameTypeOK, DiskTypeOK, EnvTypeOK, EntryInv, NamesInv, FilesInv, Wanted,
         Full, FileNames, NoFile, Places
<1>7. QED
  BY <1>1, <1>2, <1>3, <1>4, <1>5, <1>6

\* The snapshot of a transaction does not see later writes.
LEMMA DatabaseWriteStep == ASSUME IInv, DatabaseWrite PROVE IInv'
<1> USE DEF DatabaseWrite
<1>1. TypeOK'
  BY DEF CtlTypeOK, SigTypeOK, NameTypeOK, DiskTypeOK, EnvTypeOK
<1>2. ASSUME NEW f \in Procs PROVE FilesInv(f)' /\ NamesInv(f)'
  BY DEF FilesInv, NamesInv, Wanted
<1>3. ASSUME NEW p \in Places PROVE EntryInv(p)'
  BY DEF EntryInv, Wanted, Full
<1>4. QED
  BY <1>1, <1>2, <1>3

\* The held parent does not follow the caller's path.
LEMMA RebindStep == ASSUME IInv, Rebind PROVE IInv'
<1> USE DEF Rebind
<1>1. TypeOK'
  BY DEF CtlTypeOK, SigTypeOK, NameTypeOK, DiskTypeOK, EnvTypeOK
<1>2. ASSUME NEW f \in Procs PROVE FilesInv(f)' /\ NamesInv(f)'
  BY DEF FilesInv, NamesInv, Wanted
<1>3. ASSUME NEW p \in Places PROVE EntryInv(p)'
  BY DEF EntryInv, Wanted, Full
<1>4. QED
  BY <1>1, <1>2, <1>3

\* Another program only takes free names and drops its own entries.
LEMMA ForeignEntryStep == ASSUME NEW q \in Parents, IInv, ForeignEntry(q) PROVE IInv'
<1> USE DEF ForeignEntry
<1>1. TypeOK'
  BY DEF CtlTypeOK, SigTypeOK, NameTypeOK, DiskTypeOK, EnvTypeOK, Places
<1>2. ASSUME NEW f \in Procs PROVE FilesInv(f)' /\ NamesInv(f)'
  BY DEF FilesInv, NamesInv, Wanted, NameTypeOK, Places
<1>3. ASSUME NEW p \in Places PROVE EntryInv(p)'
  BY DEF EntryInv, Wanted, Full, NameTypeOK, Places
<1>4. QED
  BY <1>1, <1>2, <1>3

\* Only files that were not synced change, and published files were.
LEMMA PowerLossStep == ASSUME IInv, PowerLoss PROVE IInv'
<1> USE DEF PowerLoss
<1>1. CtlTypeOK' /\ SigTypeOK'
  BY DEF CtlTypeOK, SigTypeOK, PcValues
<1>2. NameTypeOK' /\ EnvTypeOK'
  BY DEF NameTypeOK, EnvTypeOK
<1>3. DiskTypeOK'
  BY DEF DiskTypeOK, Files
<1>4. ASSUME NEW f \in Procs PROVE FilesInv(f)'
  BY DEF CtlTypeOK, FilesInv
<1>5. ASSUME NEW f \in Procs PROVE NamesInv(f)'
  BY DEF CtlTypeOK, NamesInv, Wanted
<1>6. ASSUME NEW p \in Places PROVE EntryInv(p)'
  <2>1. SUFFICES ASSUME entry'[p] \in Procs PROVE EntryInv(p)'
    BY DEF EntryInv
  <2>2. entry'[p] = entry[p]
    BY <2>1 DEF NameTypeOK, Places
  <2>3. PICK g \in Procs : g = entry[p]
    BY <2>1, <2>2
  <2>4. file'[g]["daily"] <= file[g]["daily"] /\ file'[g]["daily"] \in NoFile..(MaxRows + 1)
    BY DEF FileNames
  <2>5. EntryInv(p)
    OBVIOUS
  <2>6. Wanted(p) => Full(g)'
    BY <2>2, <2>3, <2>4, <2>5 DEF EntryInv, Full, FileNames, NoFile
  <2>7. QED
    BY <2>2, <2>3, <2>5, <2>6 DEF EntryInv, Wanted
<1>7. QED
  BY <1>1, <1>2, <1>3, <1>4, <1>5, <1>6
-----------------------------------------------------------------------------
\* The invariant holds at the start.
LEMMA InitIInv == Init => IInv
<1> SUFFICES ASSUME Init PROVE IInv
  OBVIOUS
<1> USE DEF Init
<1>1. TypeOK
  <2>1. CtlTypeOK /\ SigTypeOK
    BY DEF CtlTypeOK, SigTypeOK, PcValues, Kinds
  <2>2. NameTypeOK
    BY DEF NameTypeOK
  <2>3. EnvTypeOK
    <3>1. NoFile \in NoFile..MaxDb
      BY DEF NoFile
    <3>2. QED
      BY <3>1 DEF EnvTypeOK
  <2>4. DiskTypeOK
    BY DEF DiskTypeOK, Files, NoFile
  <2>5. QED
    BY <2>1, <2>2, <2>3, <2>4
<1>2. ASSUME NEW e \in Procs PROVE FilesInv(e) /\ NamesInv(e)
  BY DEF FilesInv, NamesInv, FileNames, Places
<1>3. ASSUME NEW p \in Places PROVE EntryInv(p)
  BY DEF EntryInv, Places
<1>4. QED
  BY <1>1, <1>2, <1>3

\* One lemma per action, put together.
LEMMA NextIInv == IInv /\ [Next]_vars => IInv'
<1> SUFFICES ASSUME IInv, [Next]_vars PROVE IInv'
  OBVIOUS
<1>1. CASE UNCHANGED vars
  <2>1. TypeOK'
    BY <1>1 DEF vars, CtlTypeOK, SigTypeOK, NameTypeOK, DiskTypeOK, EnvTypeOK
  <2>2. ASSUME NEW f \in Procs PROVE FilesInv(f)' /\ NamesInv(f)'
    BY <1>1 DEF vars, FilesInv, NamesInv, Wanted
  <2>3. ASSUME NEW p \in Places PROVE EntryInv(p)'
    BY <1>1 DEF vars, EntryInv, Wanted, Full
  <2>4. QED
    BY <2>1, <2>2, <2>3
<1>2. ASSUME NEW e \in Procs, ExporterStep(e) PROVE IInv'
  <2> HIDE DEF IInv
  <2>1. QED
    BY <1>2, MakeTempStep, EnterStep, PrepareStep, OpenParentStep, MakeStageStep,
       OpenStageStep, ConnectStep, BeginTransactionStep, CreateSpendStep,
       CreateDailyStep, CopyRowStep, CopyEndStep, SyncSpendStep, SyncDailyStep,
       CopyDailyStep, CommitStep, ValidateStep, VerifyStep, CheckContextStep,
       RenameStep, UnwindStep, CloseFilesStep, CloseExportStep, CloseStageStep,
       ReturnStep, JoinStep, ReportStep, AnalyseStep, RemoveAllStep, RmParentStep DEF ExporterStep
<1>3. ASSUME NEW e \in Procs, HandlerStep(e) PROVE IInv'
  BY <1>3, HandleSignalStep, HandleDoneStep DEF HandlerStep
<1>4. CASE Interference
  <2> HIDE DEF IInv
  <2>1. QED
    BY <1>4, TimeoutStep, SignalStep, CrashStep, ReplaceStageStep, StrayEntryStep,
       ForeignEntryStep, DatabaseWriteStep, RebindStep, PowerLossStep DEF Interference
<1>5. QED
  BY <1>1, <1>2, <1>3, <1>4 DEF Next

\* The invariant holds in every reachable state.
LEMMA Invariance == Spec => []IInv
<1>1. QED
  BY InitIInv, NextIInv, PTL DEF Spec
-----------------------------------------------------------------------------
\* Type correctness of the exporters' specification.
THEOREM TypeCorrect == Spec => []TypeOK
<1>1. QED
  BY Invariance, PTL

\* Whatever a destination shows of an exporter is a complete export of one
\* snapshot, for every number of processes and rows and every interference.
THEOREM PublicationComplete == Spec => []PublishedIsComplete
<1>1. IInv => PublishedIsComplete
  BY DEF PublishedIsComplete, EntryInv
<1>2. QED
  BY <1>1, Invariance, PTL

\* At most one exporter publishes in a directory.
THEOREM PublicationExclusive == Spec => []OneWinner
<1>1. IInv => OneWinner
  <2> SUFFICES ASSUME IInv, NEW e \in Procs, NEW f \in Procs, complete[e], complete[f],
                      held[e] = held[f], ~lost
               PROVE  e = f
    BY DEF OneWinner
  <2>1. CASE held[e] \in Procs
    BY <2>1 DEF NamesInv
  <2>2. CASE held[e] \in Parents
    BY <2>2 DEF NamesInv, Wanted
  <2>3. QED
    BY <2>1, <2>2 DEF NamesInv, Places
<1>2. QED
  BY <1>1, Invariance, PTL

\* What Export answers agrees with what stands at the destination.
THEOREM AnswersTruthful == Spec => []AnswerMatchesPublication
<1>1. IInv => AnswerMatchesPublication
  BY DEF AnswerMatchesPublication, NamesInv, EntryInv
<1>2. QED
  BY <1>1, Invariance, PTL

\* Only the program that made an entry removes or replaces it.
THEOREM ForeignSafe == Spec => ForeignUntouched
<1>1. IInv /\ [Next]_vars =>
        [\A p \in Places : entry[p] = Foreign /\ entry'[p] # Foreign => ForeignEntry(p)]_vars
  <2> SUFFICES ASSUME IInv, Next, NEW p \in Places, entry[p] = Foreign, entry'[p] # Foreign
               PROVE  ForeignEntry(p)
    OBVIOUS
  <2>0. entry \in [Places -> Procs \cup {None, Foreign}]
    BY DEF NameTypeOK
  <2>1. ASSUME NEW e \in Procs, ExporterStep(e) PROVE FALSE
    <3>1. entry' = entry \/ Rename(e) \/ RemoveAll(e)
      BY <2>1 DEF ExporterStep, MakeTemp, Enter, Prepare, OpenParent, MakeStage, OpenStage,
         Connect, BeginTransaction, CreateSpend, CopyRow, CopyEnd, SyncSpend, CreateDaily,
         CopyDaily, SyncDaily, Commit, Validate, Verify, CheckContext, Unwind, CloseFiles,
         CloseExport, CloseStage, Return, Join, Report, Analyse, RmParent, Create, SyncFile
    <3>2. CASE Rename(e)
      BY <2>0, <3>2 DEF Rename, MayTake
    <3>3. CASE RemoveAll(e)
      BY <2>0, <3>3 DEF RemoveAll, Places
    <3>4. QED
      BY <3>1, <3>2, <3>3
  <2>2. ASSUME NEW e \in Procs, HandlerStep(e) PROVE FALSE
    BY <2>2 DEF HandlerStep, HandleSignal, HandleDone
  <2>3. CASE Interference
    <3>1. entry' = entry \/ (\E q \in Parents : ForeignEntry(q)) \/ PowerLoss
      BY <2>3 DEF Interference, Timeout, Signal, Crash, ReplaceStage, StrayEntry, DatabaseWrite,
         Rebind
    <3>2. CASE \E q \in Parents : ForeignEntry(q)
      <4>1. PICK q \in Parents : ForeignEntry(q)
        BY <3>2
      <4>2. q = p
        BY <2>0, <4>1 DEF ForeignEntry
      <4>3. QED
        BY <4>1, <4>2
    <3>3. CASE PowerLoss
      BY <2>0, <3>3 DEF PowerLoss, Places
    <3>4. QED
      BY <3>1, <3>2, <3>3
  <2>4. QED
    BY <2>1, <2>2, <2>3 DEF Next
<1>2. QED
  BY <1>1, Invariance, PTL DEF Spec, ForeignUntouched
-----------------------------------------------------------------------------
(* What is left on the disk. The phases of the deferred calls each remove   *)
(* one thing, and each may be refused; the invariant says what is gone at   *)
(* each phase unless something was refused.                                 *)

\* Nothing of process e is on the disk in these phases.
Unstaged == {"idle", "enter", "prepare", "openParent", "mkStage"}

\* No staged file is left.
Emptied(e) == \A n \in FileNames : file[e][n] = NoFile

\* What the phases have established about the staging directory and about
\* the private temporary parent.
CleanInv(e) ==
    /\ entry[e] \in {None, e}
    /\ pc[e] \in Unstaged => stage[e] = "none"
    /\ ~lost =>
        /\ pc[e] \in Unstaged \cup {"openStage"} => inner[e] = "none" /\ Emptied(e)
        /\ complete[e] <=> inner[e] = "moved"
        /\ ~stuck[e] /\ ~complete[e] =>
              /\ pc[e] \in {"closeExport", "closeStage", "returned"} => Emptied(e)
              /\ pc[e] \in {"closeStage", "returned"} => inner[e] = "none"
        /\ ~stuck[e] /\ (pc[e] = "returned" \/ result[e] # "pending") => stage[e] # "own"
        /\ ~stuck[e] /\ result[e] = "error" => inner[e] = "none" /\ Emptied(e)
        /\ ~stuck[e] /\ pc[e] = "exit" /\ opts[e].mode = "temp" /\ stage[e] # "replaced"
              => ~tmp[e] /\ entry[e] = None

\* What CleanInv reads of process e.
cleanVars(e) == <<pc[e], stage[e], inner[e], file[e], stuck[e], complete[e], result[e],
                  opts[e], tmp[e], entry[e], lost>>

\* A step that leaves all of that alone keeps CleanInv.
LEMMA CleanFrame ==
    ASSUME NEW f \in Procs, CleanInv(f), UNCHANGED cleanVars(f)
    PROVE  CleanInv(f)'
  BY DEF CleanInv, cleanVars, Emptied

\* Export's own statements, from the connection to the checks, only add files
\* to a stage whose removal is still ahead.
LEMMA CleanExport ==
    ASSUME NEW e \in Procs, NEW f \in Procs, IInv, CleanInv(f),
           pc[e] \in ExportSteps, NEW x \in ExportSteps, pc' = [pc EXCEPT ![e] = x],
           \A g \in Procs \ {e} : file'[g] = file[g],
           UNCHANGED <<opts, result, nameVars, stage, inner, complete, lost, stuck>>
    PROVE  CleanInv(f)'
<1>1. CASE f # e
  <2>1. UNCHANGED cleanVars(f)
    BY <1>1 DEF cleanVars, CtlTypeOK
  <2>2. QED
    BY <2>1, CleanFrame
<1>2. CASE f = e
  BY <1>2 DEF CleanInv, NamesInv, CtlTypeOK, Unstaged, Emptied
<1>3. QED
  BY <1>1, <1>2

\* The actions of Export from the connection to the last look at the context.
ExportStatement(e) ==
    \/ Connect(e) \/ BeginTransaction(e) \/ CreateSpend(e) \/ CopyRow(e) \/ CopyEnd(e)
    \/ SyncSpend(e) \/ CreateDaily(e) \/ CopyDaily(e) \/ SyncDaily(e) \/ Commit(e)
    \/ Validate(e) \/ Verify(e) \/ CheckContext(e)

\* They are steps of that form.
LEMMA CleanStatement ==
    ASSUME NEW e \in Procs, NEW f \in Procs, IInv, CleanInv(f), ExportStatement(e)
    PROVE  CleanInv(f)'
<1>0. pc \in [Procs -> PcValues] /\ file \in [Procs -> Files]
  BY DEF CtlTypeOK, DiskTypeOK
<1>1. pc[e] \in ExportSteps /\ \E x \in ExportSteps : pc' = [pc EXCEPT ![e] = x]
  <2>1. CASE CopyRow(e)
    BY <2>1, <1>0 DEF CopyRow
  <2>2. CASE CopyEnd(e) \/ CopyDaily(e)
    BY <2>2 DEF CopyEnd, CopyDaily
  <2>3. CASE CreateSpend(e) \/ CreateDaily(e) \/ SyncSpend(e) \/ SyncDaily(e)
    BY <2>3 DEF CreateSpend, CreateDaily, SyncSpend, SyncDaily, Create, SyncFile
  <2>4. CASE Connect(e) \/ BeginTransaction(e) \/ Commit(e) \/ Validate(e) \/ Verify(e)
                \/ CheckContext(e)
    BY <2>4 DEF Connect, BeginTransaction, Commit, Validate, Verify, CheckContext
  <2>5. QED
    BY <2>1, <2>2, <2>3, <2>4 DEF ExportStatement
<1>2. \A g \in Procs \ {e} : file'[g] = file[g]
  BY <1>0 DEF ExportStatement, Connect, BeginTransaction, CreateSpend, CopyRow, CopyEnd, SyncSpend,
     CreateDaily, CopyDaily, SyncDaily, Commit, Validate, Verify, CheckContext, Create, SyncFile
<1>3. UNCHANGED <<opts, result, nameVars, stage, inner, complete, lost, stuck>>
  BY DEF ExportStatement, Connect, BeginTransaction, CreateSpend, CopyRow, CopyEnd, SyncSpend,
     CreateDaily, CopyDaily, SyncDaily, Commit, Validate, Verify, CheckContext, Create, SyncFile
<1>4. QED
  BY <1>1, <1>2, <1>3, CleanExport

\* The temporary parent that a failed MakeTemp leaves counts as refused.
LEMMA CleanMakeTemp ==
    ASSUME NEW e \in Procs, NEW f \in Procs, IInv, CleanInv(f), MakeTemp(e)
    PROVE  CleanInv(f)'
<1>1. f = e => entry[e] = None
  BY DEF MakeTemp, NamesInv, EntryInv, Places, CleanInv
<1>2. QED
  BY <1>1 DEF MakeTemp, CleanInv, NamesInv, CtlTypeOK, NameTypeOK, EnvTypeOK, Unstaged, Emptied

\* Up to newOutput nothing is staged, whether the step succeeds or returns.
LEMMA CleanBefore ==
    ASSUME NEW e \in Procs, NEW f \in Procs, IInv, CleanInv(f),
           Enter(e) \/ Prepare(e) \/ OpenParent(e)
    PROVE  CleanInv(f)'
  BY DEF Enter, Prepare, OpenParent, CleanInv, NamesInv, CtlTypeOK, Unstaged, Emptied

\* newOutput makes the stage and the directory in it, or closes what it made.
LEMMA CleanNewOutput ==
    ASSUME NEW e \in Procs, NEW f \in Procs, IInv, CleanInv(f), MakeStage(e) \/ OpenStage(e)
    PROVE  CleanInv(f)'
<1>1. CASE MakeStage(e)
  BY <1>1 DEF MakeStage, CleanInv, NamesInv, CtlTypeOK, DiskTypeOK, Unstaged, Emptied
<1>2. CASE OpenStage(e)
  BY <1>2 DEF OpenStage, CleanInv, NamesInv, CtlTypeOK, DiskTypeOK, EnvTypeOK, Unstaged, Emptied
<1>3. QED
  BY <1>1, <1>2

\* The rename moves "export" away in the same step that completes it.
LEMMA CleanRename ==
    ASSUME NEW e \in Procs, NEW f \in Procs, IInv, CleanInv(f), Rename(e)
    PROVE  CleanInv(f)'
<1>1. held[e] \in Procs => held[e] = e
  BY DEF NamesInv
<1>2. QED
  BY <1>1 DEF Rename, CleanInv, NamesInv, CtlTypeOK, NameTypeOK, DiskTypeOK, Unstaged, Emptied,
         Places

\* The deferred calls remove the files, then "export", then the stage; a
\* refused removal of one keeps the next from succeeding and is recorded.
LEMMA CleanClose ==
    ASSUME NEW e \in Procs, NEW f \in Procs, IInv, CleanInv(f),
           Unwind(e) \/ CloseFiles(e) \/ CloseExport(e) \/ CloseStage(e)
    PROVE  CleanInv(f)'
<1>1. CASE Unwind(e)
  BY <1>1 DEF Unwind, CleanInv, NamesInv, CtlTypeOK, Unstaged, Emptied
<1>2. CASE CloseFiles(e)
  BY <1>2 DEF CloseFiles, CleanInv, NamesInv, CtlTypeOK, DiskTypeOK, EnvTypeOK, Unstaged, Emptied
<1>3. CASE CloseExport(e)
  BY <1>3 DEF CloseExport, EmptyInner, CleanInv, NamesInv, CtlTypeOK, DiskTypeOK, EnvTypeOK,
         Unstaged, Emptied
<1>4. CASE CloseStage(e)
  BY <1>4 DEF CloseStage, CleanInv, NamesInv, CtlTypeOK, DiskTypeOK, EnvTypeOK, Unstaged, Emptied
<1>5. QED
  BY <1>1, <1>2, <1>3, <1>4

\* An error is answered only for an export that was not completed, so what
\* the deferred calls removed is all there was.
LEMMA CleanCommand ==
    ASSUME NEW e \in Procs, NEW f \in Procs, IInv, CleanInv(f),
           Return(e) \/ Join(e) \/ Report(e) \/ Analyse(e)
    PROVE  CleanInv(f)'
<1>1. CASE Return(e)
  BY <1>1 DEF Return, CleanInv, NamesInv, CtlTypeOK, Unstaged, Emptied
<1>2. CASE Join(e)
  BY <1>2 DEF Join, CleanInv, NamesInv, CtlTypeOK, Unstaged, Emptied
<1>3. CASE Report(e)
  BY <1>3 DEF Report, AfterCommand, CleanInv, NamesInv, CtlTypeOK, Unstaged, Emptied
<1>4. CASE Analyse(e)
  BY <1>4 DEF Analyse, AfterCommand, CleanInv, NamesInv, CtlTypeOK, Unstaged, Emptied
<1>5. QED
  BY <1>1, <1>2, <1>3, <1>4

\* cleanup ends with the parent removed, or records why it is not.
LEMMA CleanTemporary ==
    ASSUME NEW e \in Procs, NEW f \in Procs, IInv, CleanInv(f), RemoveAll(e) \/ RmParent(e)
    PROVE  CleanInv(f)'
<1>1. CASE RemoveAll(e)
  BY <1>1 DEF RemoveAll, CleanInv, NamesInv, CtlTypeOK, NameTypeOK, DiskTypeOK, EnvTypeOK,
         Unstaged, Emptied, Places
<1>2. CASE RmParent(e)
  BY <1>2 DEF RmParent, CleanInv, NamesInv, CtlTypeOK, NameTypeOK, DiskTypeOK, EnvTypeOK,
         Unstaged, Emptied, Places
<1>3. QED
  BY <1>1, <1>2

\* A crash ends the obligations of a process, except the answer it gave; the
\* other interference does not touch what it staged, or makes it another's.
LEMMA CleanInterference ==
    ASSUME NEW f \in Procs, IInv, CleanInv(f), Interference
    PROVE  CleanInv(f)'
<1>1. ASSUME NEW e \in Procs, Timeout(e) PROVE CleanInv(f)'
  BY <1>1, CleanFrame DEF Timeout, cleanVars
<1>2. ASSUME NEW e \in Procs, Signal(e) \/ Crash(e) PROVE CleanInv(f)'
  BY <1>2 DEF Signal, Crash, CleanInv, CtlTypeOK, Unstaged, Emptied
<1>3. ASSUME NEW e \in Procs, ReplaceStage(e) PROVE CleanInv(f)'
  BY <1>3 DEF ReplaceStage, CleanInv, DiskTypeOK, Unstaged, Emptied
<1>4. ASSUME NEW e \in Procs, StrayEntry(e) PROVE CleanInv(f)'
  BY <1>4, CleanFrame DEF StrayEntry, cleanVars
<1>5. ASSUME NEW q \in Parents, ForeignEntry(q) PROVE CleanInv(f)'
  <2>1. entry'[f] = entry[f]
    BY <1>5 DEF ForeignEntry, NameTypeOK, Places
  <2>2. QED
    BY <1>5, <2>1, CleanFrame DEF ForeignEntry, cleanVars
<1>6. CASE DatabaseWrite \/ Rebind
  BY <1>6, CleanFrame DEF DatabaseWrite, Rebind, cleanVars
<1>7. CASE PowerLoss
  <2>1. entry'[f] \in {None, f} /\ lost' /\ pc'[f] \notin Unstaged
    BY <1>7 DEF PowerLoss, CleanInv, Places, Unstaged
  <2>2. QED
    BY <2>1 DEF CleanInv
<1>8. QED
  BY <1>1, <1>2, <1>3, <1>4, <1>5, <1>6, <1>7 DEF Interference

\* Every process keeps the disk as clean as its phase says.
LEMMA Cleanliness == Spec => [](\A f \in Procs : CleanInv(f))
<1>1. Init => \A f \in Procs : CleanInv(f)
  BY DEF Init, CleanInv, Unstaged, Emptied, Places
<1>2. IInv /\ (\A f \in Procs : CleanInv(f)) /\ [Next]_vars => (\A f \in Procs : CleanInv(f))'
  <2> SUFFICES ASSUME IInv, NEW f \in Procs, CleanInv(f), [Next]_vars PROVE CleanInv(f)'
    OBVIOUS
  <2>1. CASE UNCHANGED vars
    BY <2>1, CleanFrame DEF vars, cleanVars
  <2>2. ASSUME NEW e \in Procs, ExporterStep(e) PROVE CleanInv(f)'
    <3> HIDE DEF IInv
    <3>1. QED
      BY <2>2, CleanMakeTemp, CleanBefore, CleanNewOutput, CleanStatement, CleanRename,
         CleanClose, CleanCommand, CleanTemporary DEF ExporterStep, ExportStatement
  <2>3. ASSUME NEW e \in Procs, HandlerStep(e) PROVE CleanInv(f)'
    BY <2>3, CleanFrame DEF HandlerStep, HandleSignal, HandleDone, cleanVars
  <2>4. CASE Interference
    BY <2>4, CleanInterference
  <2>5. QED
    BY <2>1, <2>2, <2>3, <2>4 DEF Next
<1>3. QED
  BY <1>1, <1>2, Invariance, PTL DEF Spec

\* Nothing private stays on the disk after a handled failure or a command
\* that ended by itself, unless a removal was refused (outputDir.close and
\* the cleanup of databaseTemporaryExport).
THEOREM NothingStays == Spec => []NothingLeftBehind
<1>1. (\A f \in Procs : CleanInv(f)) => NothingLeftBehind
  BY DEF CleanInv, Emptied, NothingLeftBehind, HandledFailureLeavesNothing, TemporaryRemoved
<1>2. QED
  BY <1>1, Cleanliness, PTL
-----------------------------------------------------------------------------
(* Cancellation. Once the context is done before publish has looked at it,  *)
(* the rename is out of reach.                                              *)

\* Process e can no longer publish: it is past its last look at the context
\* without having renamed, or that look is still ahead and will fail.
Barred(e) ==
    /\ ~complete[e]
    /\ pc[e] \in ExportSteps \ {"unwind"} => Done(e) /\ pc[e] # "rename"
    /\ pc[e] \notin {"idle", "enter", "prepare", "openParent", "mkStage", "openStage"}

\* That is for good: contexts never become undone, and CheckContext refuses.
LEMMA BarredForGood ==
    ASSUME NEW e \in Procs, IInv, Barred(e), [Next]_vars
    PROVE  Barred(e)'
<1>0. pc \in [Procs -> PcValues] /\ complete \in [Procs -> BOOLEAN]
      /\ cancelled \in [Procs -> BOOLEAN] /\ expired \in [Procs -> BOOLEAN]
  BY DEF CtlTypeOK, SigTypeOK, DiskTypeOK
<1>1. CASE UNCHANGED vars
  BY <1>1 DEF vars, Barred, Done
<1>2. ASSUME NEW g \in Procs, ExporterStep(g), g # e PROVE Barred(e)'
  <2>1. /\ pc'[e] = pc[e] /\ complete'[e] = complete[e] /\ cancelled'[e] = cancelled[e]
        /\ expired'[e] = expired[e]
    BY <1>0, <1>2 DEF ExporterStep, MakeTemp, Enter, Prepare, OpenParent, MakeStage, OpenStage,
       Connect, BeginTransaction, CreateSpend, CopyRow, CopyEnd, SyncSpend, CreateDaily,
       CopyDaily, SyncDaily, Commit, Validate, Verify, CheckContext, Rename, Unwind, CloseFiles,
       CloseExport, CloseStage, Return, Join, Report, Analyse, RemoveAll, RmParent, Create, SyncFile
  <2>2. QED
    BY <2>1 DEF Barred, Done
<1>3. CASE ExportStatement(e)
  BY <1>0, <1>3 DEF ExportStatement, Connect, BeginTransaction, CreateSpend, CopyRow, CopyEnd,
     SyncSpend, CreateDaily, CopyDaily, SyncDaily, Commit, Validate, Verify, CheckContext,
     Create, SyncFile, Barred, Done
<1>4. ASSUME MakeTemp(e) \/ Enter(e) \/ Prepare(e) \/ OpenParent(e) \/ MakeStage(e) \/ OpenStage(e)
             \/ Rename(e)
      PROVE FALSE
  BY <1>4 DEF MakeTemp, Enter, Prepare, OpenParent, MakeStage, OpenStage, Rename, Barred
<1>5. ASSUME Unwind(e) \/ CloseFiles(e) \/ CloseExport(e) \/ CloseStage(e) \/ Return(e) \/ Join(e)
             \/ Report(e) \/ Analyse(e) \/ RemoveAll(e) \/ RmParent(e)
      PROVE Barred(e)'
  BY <1>0, <1>5 DEF Unwind, CloseFiles, CloseExport, CloseStage, Return, Join, Report, AfterCommand,
     Analyse, RemoveAll, RmParent, Barred
<1>6. ASSUME NEW g \in Procs, HandlerStep(g) PROVE Barred(e)'
  BY <1>0, <1>6 DEF HandlerStep, HandleSignal, HandleDone, Barred, Done
<1>7. CASE Interference
  <2>1. complete' = complete /\ cancelled' = cancelled /\ pc'[e] \in {pc[e], "crashed", "exit"}
    BY <1>0, <1>7 DEF Interference, Timeout, Signal, Crash, ReplaceStage, StrayEntry,
       ForeignEntry, DatabaseWrite, Rebind, PowerLoss
  <2>2. expired'[e] = expired[e] \/ expired'[e]
    BY <1>0, <1>7 DEF Interference, Timeout, Signal, Crash, ReplaceStage, StrayEntry,
       ForeignEntry, DatabaseWrite, Rebind, PowerLoss
  <2>3. QED
    BY <2>1, <2>2 DEF Barred, Done
<1>8. QED
  BY <1>1, <1>2, <1>3, <1>4, <1>5, <1>6, <1>7 DEF Next, ExporterStep, ExportStatement

\* Cancellation or the deadline, seen before publish looks at the context,
\* stops publication for good (Export's context and publish's last check).
THEOREM CancellationFinal == Spec => CancellationStopsPublication
<1>1. SUFFICES ASSUME NEW e \in Procs
               PROVE  Spec => [](Done(e) /\ pc[e] \in ExportSteps \ {"rename", "unwind"}
                                 => []~complete[e])
  BY DEF CancellationStopsPublication
<1>2. IInv /\ Done(e) /\ pc[e] \in ExportSteps \ {"rename", "unwind"} => Barred(e)
  BY DEF Barred, NamesInv
<1>3. IInv /\ Barred(e) /\ [Next]_vars => Barred(e)'
  BY BarredForGood
<1>4. Barred(e) => ~complete[e]
  BY DEF Barred
<1>5. QED
  BY <1>2, <1>3, <1>4, Invariance, PTL DEF Spec
-----------------------------------------------------------------------------
(* NativeExport implements AtomicPublication, for every value of the       *)
(* constants. What a destination shows is determined by the snapshot and   *)
(* the options of the exporter that published it, so every step that keeps *)
(* the entries, the exit codes and the answers is a stuttering step.       *)

\* What a wanted destination of exporter e shows.
Content(e) == [by |-> e, rows |-> snap[e],
               daily |-> IF opts[e].daily THEN snap[e] ELSE NoFile]

\* What a destination shows when it holds a wanted export: the exporter and
\* the rows of its files.
LEMMA ShownValue ==
    ASSUME IInv, NEW p \in Places, entry[p] \in Procs, Wanted(p)
    PROVE  Shown[p] = Content(entry[p]) /\ Shown[p] \in Abs!CompleteExport
<1>1. Full(entry[p])
  BY DEF IInv, EntryInv
<1>2. Shown[p] = Content(entry[p])
  BY <1>1 DEF Shown, Full, Content
<1>3. Content(entry[p]) \in Abs!CompleteExport
  BY <1>1, ConstantsAssumption DEF Content, Full, NoFile, Abs!CompleteExport
<1>4. QED
  BY <1>2, <1>3

\* The same in the next state.
LEMMA ShownValueNext ==
    ASSUME IInv', NEW p \in Places, (entry[p])' \in Procs, Wanted(p)'
    PROVE  Shown'[p] = Content(entry[p])' /\ Shown'[p] \in Abs!CompleteExport
<1>1. Full(entry[p])'
  BY DEF IInv, EntryInv
<1>2. Shown'[p] = Content(entry[p])'
  BY <1>1 DEF Shown, Full, Content
<1>3. Content(entry[p])' \in Abs!CompleteExport
  BY <1>1, ConstantsAssumption DEF Content, Full, NoFile, Abs!CompleteExport
<1>4. QED
  BY <1>2, <1>3

\* Any other entry shows as itself, an unwanted export as nothing.
LEMMA ShownOther ==
    ASSUME IInv, NEW p \in Places, ~(entry[p] \in Procs /\ Wanted(p))
    PROVE  /\ Shown[p] = IF entry[p] = Foreign THEN Foreign ELSE None
           /\ Shown[p] \in {None, Foreign}
  BY ConstantsAssumption DEF Shown, IInv, TypeOK, NameTypeOK, Places

\* The set of destinations that show exporter e.
LEMMA ShownByValue ==
    ASSUME IInv, NEW e \in Procs
    PROVE  Abs!ShownBy(e) = {p \in Places : entry[p] = e /\ Wanted(p)}
<1>1. ASSUME NEW p \in Places, entry[p] \in Procs, Wanted(p)
      PROVE  Shown[p] \in Abs!CompleteExport /\ Shown[p].by = entry[p]
  <2>1. Shown[p] = Content(entry[p]) /\ Shown[p] \in Abs!CompleteExport
    BY <1>1, ShownValue
  <2>2. Content(entry[p]).by = entry[p]
    BY DEF Content
  <2>3. QED
    BY <2>1, <2>2
<1>2. ASSUME NEW p \in Places, ~(entry[p] \in Procs /\ Wanted(p))
      PROVE  Shown[p] \notin Abs!CompleteExport
  BY <1>2, ShownOther, ConstantsAssumption DEF Abs!CompleteExport
<1>3. QED
  BY <1>1, <1>2 DEF Abs!ShownBy

\* A step that keeps entries, answers, exit codes and the snapshots of
\* finished exporters shows nothing new.
LEMMA QuietStep ==
    ASSUME IInv, IInv', UNCHANGED <<entry, result, code, opts>>,
           \A f \in Procs : complete[f] => snap'[f] = snap[f]
    PROVE  UNCHANGED Abs!absVars
<1>1. ASSUME NEW p \in Places PROVE Shown'[p] = Shown[p]
  <2>1. Wanted(p)' = Wanted(p)
    BY DEF Wanted
  <2>2. CASE entry[p] \in Procs /\ Wanted(p)
    <3>1. Shown[p] = Content(entry[p])
      BY <2>2, ShownValue
    <3>2. entry'[p] \in Procs /\ Wanted(p)'
      BY <2>1, <2>2
    <3>3. Shown'[p] = Content(entry[p])'
      BY <3>2, <2>2, ShownValueNext
    <3>4. complete[entry[p]]
      BY <2>2 DEF IInv, EntryInv
    <3>5. QED
      BY <3>1, <3>3, <3>4, <2>2 DEF Content
  <2>3. CASE ~(entry[p] \in Procs /\ Wanted(p))
    BY <2>1, <2>3 DEF Shown
  <2>4. QED
    BY <2>2, <2>3
<1>2. Shown' = Shown
  BY <1>1 DEF Shown
<1>3. QED
  BY <1>2 DEF Abs!absVars
-----------------------------------------------------------------------------
(* The steps that are not quiet.                                           *)

\* What changes at one place only changes the picture there.
LEMMA OnePlace ==
    ASSUME NEW D, NEW f, NEW g, f = [x \in D |-> f[x]], g = [x \in D |-> g[x]], NEW p \in D,
           \A x \in D : x # p => g[x] = f[x]
    PROVE  g = [f EXCEPT ![p] = g[p]]
  OBVIOUS

\* Only one place shows something else.
LEMMA ShownChanges ==
    ASSUME NEW p \in Places, NEW v, Shown'[p] = v, \A x \in Places : x # p => Shown'[x] = Shown[x]
    PROVE  Shown' = [Shown EXCEPT ![p] = v]
<1>1. Shown = [x \in Places |-> Shown[x]]
  BY DEF Shown
<1>2. Shown' = [x \in Places |-> Shown'[x]]
  BY DEF Shown
<1>3. PICK f : f = Shown
  OBVIOUS
<1>4. PICK g : g = Shown'
  OBVIOUS
<1>5. f = [x \in Places |-> f[x]] /\ g = [x \in Places |-> g[x]] /\ \A x \in Places : x # p => g[x] = f[x]
  BY <1>1, <1>2, <1>3, <1>4
<1>6. g = [f EXCEPT ![p] = g[p]]
  BY <1>5, OnePlace
<1>7. QED
  BY <1>3, <1>4, <1>6

\* Every place shows what it did.
LEMMA ShownStays ==
    ASSUME \A x \in Places : Shown'[x] = Shown[x]
    PROVE  Shown' = Shown
<1>1. Shown = [x \in Places |-> Shown[x]]
  BY DEF Shown
<1>2. Shown' = [x \in Places |-> Shown'[x]]
  BY DEF Shown
<1>3. [x \in Places |-> Shown'[x]] = [x \in Places |-> Shown[x]]
  OBVIOUS
<1>4. QED
  BY <1>1, <1>2, <1>3

\* A successful rename is the publication of a complete export.
LEMMA RenameRefines ==
    ASSUME IInv, IInv', NEW e \in Procs, Rename(e)
    PROVE  [Abs!AbsNext]_(Abs!absVars)
<1>1. CASE entry' = entry
  <2>1. UNCHANGED <<entry, result, code, opts, snap>>
    BY <1>1 DEF Rename, Pass, Fail
  <2>2. QED
    BY <2>1, QuietStep
<1>2. CASE entry' # entry
  <2> DEFINE q == held[e]
  <2>1. /\ entry[q] = None /\ entry' = [entry EXCEPT ![q] = e]
        /\ UNCHANGED <<result, code, opts, snap>> /\ pc[e] = "rename"
    BY <1>2 DEF Rename, MayTake, Pass, Fail
  <2>2. q \in Places /\ result[e] = "pending" /\ ~complete[e] /\ code[e] = "none"
    BY <2>1 DEF IInv, NamesInv, ExportSteps, Copied, Early
  <2>3. Wanted(q)' /\ (entry[q])' = e
    <3>1. held'[e] = held[e]
      BY <2>1, <1>2 DEF Rename, MayTake, Pass, Fail
    <3>2. q \in Parents \/ q = e
      BY <2>1, <2>2, <3>1 DEF IInv, TypeOK, NameTypeOK, NamesInv, Places
    <3>3. (entry[q])' = e
      BY <2>1, <2>2, <3>1 DEF IInv, TypeOK, NameTypeOK
    <3>4. Wanted(q)'
      BY <2>1, <2>2, <3>1, <3>2 DEF Wanted
    <3>5. QED
      BY <3>3, <3>4
  <2>4. Shown'[q] = Content(e)' /\ Shown'[q] \in Abs!CompleteExport
    <3>1. held'[e] = held[e]
      BY <2>1, <1>2 DEF Rename, MayTake, Pass, Fail
    <3>2. PICK r \in Places : r = q /\ r = q'
      BY <2>2, <3>1
    <3>3. (entry[r])' = e /\ Wanted(r)'
      BY <2>3, <3>2, <3>1
    <3>4. (entry[r])' \in Procs
      BY <3>3
    <3>5. Shown'[r] = Content(entry[r])' /\ Shown'[r] \in Abs!CompleteExport
      BY <3>3, <3>4, ShownValueNext
    <3>6. QED
      BY <3>2, <3>3, <3>5 DEF Content
  <2>5. Shown[q] = None
    BY <2>1, <2>2, ShownOther, ConstantsAssumption DEF Places
  <2>6. ASSUME NEW p \in Places, p # q PROVE Shown'[p] = Shown[p]
    <3>1. entry'[p] = entry[p] /\ Wanted(p)' = Wanted(p)
      BY <2>1, <2>6 DEF Wanted, IInv, TypeOK, NameTypeOK
    <3>2. CASE entry[p] \in Procs /\ Wanted(p)
      BY <2>1, <3>1, <3>2, ShownValue, ShownValueNext, ZenonT(30) DEF Content
    <3>3. CASE ~(entry[p] \in Procs /\ Wanted(p))
      BY <3>1, <3>3 DEF Shown
    <3>4. QED
      BY <3>2, <3>3
  <2>7. Shown' = [Shown EXCEPT ![q] = Content(e)']
    <3>1. PICK r \in Places : r = q
      BY <2>2
    <3>2. Shown'[r] = Content(e)' /\ \A x \in Places : x # r => Shown'[x] = Shown[x]
      BY <2>4, <2>6, <3>1
    <3>3. Shown' = [Shown EXCEPT ![r] = Content(e)']
      BY <3>2, ShownChanges
    <3>4. QED
      BY <3>1, <3>3
  <2>8. Abs!ShownBy(e) = {}
    <3>1. ASSUME NEW p \in Places PROVE entry[p] # e
      BY <2>2 DEF IInv, EntryInv
    <3>2. QED
      BY <3>1, ShownByValue
  <2>9. Content(e)'.by = e
    BY DEF Content
  <2>10. Abs!AbsPublish(Content(e)', q)
    BY <2>1, <2>2, <2>5, <2>7, <2>8, <2>9 DEF Abs!AbsPublish
  <2>11. QED
    BY <2>2, <2>4, <2>10 DEF Abs!AbsNext
<1>3. QED
  BY <1>1, <1>2

\* Export's return is the answer.
LEMMA ReturnRefines ==
    ASSUME IInv, IInv', NEW e \in Procs, Return(e)
    PROVE  [Abs!AbsNext]_(Abs!absVars)
<1>1. /\ pc[e] = "returned" /\ UNCHANGED <<entry, code, opts, snap, file>>
      /\ result' = [result EXCEPT ![e] = IF err[e] = "none" THEN "ok" ELSE "error"]
  BY DEF Return, Goto, nameVars, diskVars
<1>2. Shown' = Shown
  BY <1>1 DEF Shown, Wanted
<1>3. result[e] = "pending" /\ code[e] = "none" /\ ~lost
  BY <1>1 DEF IInv, NamesInv, Running
<1>4. CASE err[e] = "none"
  <2>1. complete[e] /\ held[e] \in Places
    BY <1>1, <1>4 DEF IInv, NamesInv
  <2>2. Wanted(held[e])
    BY <2>1, <1>3 DEF IInv, NamesInv, Wanted, Places
  <2>3. entry[held[e]] = e
    BY <2>1, <2>2, <1>3 DEF IInv, NamesInv
  <2>4. Abs!ShownBy(e) # {}
    BY <2>1, <2>2, <2>3, ShownByValue
  <2>5. Abs!AbsAnswer(e)
    BY <1>1, <1>2, <1>3, <1>4, <2>4 DEF Abs!AbsAnswer
  <2>6. QED
    BY <2>5 DEF Abs!AbsNext
<1>5. CASE err[e] # "none"
  <2>1. ASSUME NEW p \in Places PROVE entry[p] # e
    BY <1>5 DEF IInv, NamesInv, EntryInv
  <2>2. Abs!ShownBy(e) = {}
    BY <2>1, ShownByValue
  <2>3. Abs!AbsAnswer(e)
    BY <1>1, <1>2, <1>3, <1>5, <2>2 DEF Abs!AbsAnswer
  <2>4. QED
    BY <2>3 DEF Abs!AbsNext
<1>6. QED
  BY <1>4, <1>5

\* The end of a command withdraws its temporary export, if it has one.
LEMMA FinishRefines ==
    ASSUME IInv, IInv', NEW e \in Procs, UNCHANGED <<entry, result, opts, file>>,
           \A f \in Procs : f # e => code'[f] = code[f],
           code'[e] # "none",
           complete[e] => result[e] = "ok" /\ code[e] = "none"
    PROVE  [Abs!AbsNext]_(Abs!absVars)
<1>0. e \in Places /\ Wanted(e)' = FALSE
  BY ConstantsAssumption DEF Wanted, Places
<1>1. ASSUME NEW p \in Places, p # e PROVE Shown'[p] = Shown[p]
  BY <1>1 DEF Shown, Wanted
<1>2. CASE entry[e] = e
  <2>1. complete[e]
    BY <1>0, <1>2 DEF IInv, EntryInv
  <2>2. Wanted(e)
    BY <2>1 DEF Wanted
  <2>3. e \in Abs!ShownBy(e)
    BY <1>0, <1>2, <2>2, ShownByValue
  <2>4. Shown'[e] = None
    BY <1>0, <1>2 DEF Shown
  <2>5. Shown' = [Shown EXCEPT ![e] = None]
    BY <1>0, <1>1, <2>4, ShownChanges
  <2>6. Abs!AbsWithdraw(e, e)
    BY <2>1, <2>3, <2>5 DEF Abs!AbsWithdraw
  <2>7. QED
    BY <1>0, <2>6 DEF Abs!AbsNext
<1>3. CASE entry[e] # e
  <2>1. entry[e] \notin Procs
    BY <1>0, <1>3 DEF IInv, EntryInv, NamesInv
  <2>2. Shown'[e] = Shown[e]
    BY <1>0, <2>1 DEF Shown
  <2>3. Shown' = Shown
    BY <1>1, <2>2 DEF Shown
  <2>4. QED
    BY <2>3 DEF Abs!absVars
<1>4. QED
  BY <1>2, <1>3

\* The cleanup of a temporary export happens after it was withdrawn.
LEMMA RemoveAllRefines ==
    ASSUME IInv, IInv', NEW e \in Procs, RemoveAll(e)
    PROVE  UNCHANGED Abs!absVars
<1>1. pc[e] = "removeAll" /\ UNCHANGED <<result, code, opts, snap>>
  BY DEF RemoveAll, Pass, Goto
<1>2. e \in Places /\ e \notin Parents /\ code[e] # "none"
  BY <1>1, ConstantsAssumption DEF IInv, NamesInv, Places
<1>3. ~Wanted(e) /\ ~Wanted(e)'
  BY <1>1, <1>2 DEF Wanted
<1>4. CASE entry[e] = e
  <2>1. /\ \A p \in Places : p # e => entry'[p] = entry[p]
        /\ entry'[e] \in {e, None}
        /\ \A f \in Procs : f # e => file'[f] = file[f]
    BY <1>2, <1>4 DEF RemoveAll, IInv, TypeOK, NameTypeOK, DiskTypeOK
  <2>2. ASSUME NEW p \in Places, p # e PROVE entry[p] # e
    BY <1>2, <1>4, <2>2 DEF IInv, EntryInv
  <2>3. ASSUME NEW p \in Places, p # e PROVE Shown'[p] = Shown[p]
    BY <1>1, <2>1, <2>2, <2>3 DEF Shown, Wanted
  <2>4. Shown[e] = None /\ Shown'[e] = None
    BY <1>2, <1>3, <1>4, <2>1 DEF Shown
  <2>5. Shown' = Shown
    BY <2>3, <2>4, ShownStays
  <2>6. QED
    BY <1>1, <2>5 DEF Abs!absVars
<1>5. CASE entry[e] # e
  <2>1. UNCHANGED entry
    BY <1>5 DEF RemoveAll
  <2>2. QED
    BY <1>1, <2>1, QuietStep
<1>6. QED
  BY <1>4, <1>5

\* Another program's entry comes and goes.
LEMMA ForeignRefines ==
    ASSUME IInv, IInv', NEW q \in Parents, ForeignEntry(q)
    PROVE  [Abs!AbsNext]_(Abs!absVars)
<1>1. /\ entry[q] \in {None, Foreign} /\ UNCHANGED <<result, code, opts, file>>
      /\ entry' = [entry EXCEPT ![q] = IF entry[q] = None THEN Foreign ELSE None]
      /\ q \in Places
  BY DEF ForeignEntry, ctlVars, diskVars, Places
<1>2. entry[q] \notin Procs /\ entry'[q] \notin Procs
  BY <1>1, ConstantsAssumption DEF IInv, TypeOK, NameTypeOK, Places
<1>3. Shown[q] = entry[q] /\ Shown'[q] = entry'[q]
  BY <1>1, <1>2 DEF Shown
<1>4. ASSUME NEW p \in Places, p # q PROVE Shown'[p] = Shown[p]
  BY <1>1, <1>4 DEF Shown, Wanted, IInv, TypeOK, NameTypeOK
<1>5. Shown' = [Shown EXCEPT ![q] = IF Shown[q] = None THEN Foreign ELSE None]
  <2>1. entry'[q] = IF Shown[q] = None THEN Foreign ELSE None
    BY <1>1, <1>3 DEF IInv, TypeOK, NameTypeOK
  <2>2. Shown'[q] = IF Shown[q] = None THEN Foreign ELSE None
    BY <1>3, <2>1
  <2>3. QED
    BY <1>1, <1>4, <2>2, ShownChanges
<1>6. Abs!AbsOther(q)
  BY <1>1, <1>3, <1>5 DEF Abs!AbsOther
<1>7. QED
  BY <1>1, <1>6 DEF Abs!AbsNext

\* A power loss takes back the renames that did not reach the disk, and the
\* synced files of the others stay whole.
LEMMA PowerLossRefines ==
    ASSUME IInv, IInv', PowerLoss
    PROVE  [Abs!AbsNext]_(Abs!absVars)
<1>1. UNCHANGED <<result, code, opts, snap>>
  BY DEF PowerLoss
<1>2. PICK undone \in SUBSET Procs :
        entry' = [p \in Places |-> IF entry[p] \in undone THEN None ELSE entry[p]]
  BY DEF PowerLoss
<1> DEFINE gone == {p \in Places : entry[p] \in undone /\ Wanted(p)}
<1>3. ASSUME NEW p \in Places PROVE Wanted(p)' = Wanted(p)
  BY <1>1 DEF Wanted
<1>4. ASSUME NEW p \in gone PROVE Shown[p] \in Abs!CompleteExport
  BY <1>2, ShownValue
<1>5. ASSUME NEW p \in Places
      PROVE  Shown'[p] = IF p \in gone THEN None ELSE Shown[p]
  <2>1. CASE entry[p] \in undone
    <3>1. entry'[p] = None /\ None \notin Procs /\ entry[p] \in Procs
      BY <1>2, <2>1, ConstantsAssumption DEF Places
    <3>2. Shown'[p] = None
      BY <3>1 DEF Shown
    <3>3. ~Wanted(p) => Shown[p] = None
      BY <3>1 DEF Shown
    <3>4. QED
      BY <2>1, <3>2, <3>3
  <2>2. CASE entry[p] \notin undone
    <3>1. (entry[p])' = entry[p] /\ p \notin gone
      BY <1>2, <2>2
    <3>2. CASE entry[p] \in Procs /\ Wanted(p)
      <4>1. Shown[p] = Content(entry[p])
        BY <3>2, ShownValue
      <4>2. (entry[p])' \in Procs /\ Wanted(p)'
        BY <1>3, <3>1, <3>2
      <4>3. Shown'[p] = Content(entry[p])'
        BY <4>2, ShownValueNext
      <4>4. QED
        BY <1>1, <3>1, <4>1, <4>3 DEF Content
    <3>3. CASE ~(entry[p] \in Procs /\ Wanted(p))
      BY <1>3, <3>1, <3>3 DEF Shown
    <3>4. QED
      BY <3>1, <3>2, <3>3
  <2>3. QED
    BY <2>1, <2>2
<1>6. Shown' = [p \in Places |-> IF p \in gone THEN None ELSE Shown[p]]
  BY <1>5 DEF Shown
<1>7. CASE gone = {}
  <2>1. Shown' = Shown
    BY <1>5, <1>7 DEF Shown
  <2>2. QED
    BY <1>1, <2>1 DEF Abs!absVars
<1>8. CASE gone # {}
  <2>1. Abs!AbsLose(gone)
    BY <1>1, <1>4, <1>6, <1>8 DEF Abs!AbsLose
  <2>2. gone \in SUBSET Places
    OBVIOUS
  <2>3. QED
    BY <2>1, <2>2 DEF Abs!AbsNext
<1>9. QED
  BY <1>7, <1>8

\* The commands' exits are the only steps that set the code.
LEMMA ExitRefines ==
    ASSUME IInv, IInv', NEW e \in Procs, MakeTemp(e) \/ Report(e) \/ Analyse(e)
    PROVE  [Abs!AbsNext]_(Abs!absVars)
<1>1. UNCHANGED <<entry, result, opts, file, snap>>
  BY DEF MakeTemp, Report, Analyse, Pass, nameVars, diskVars
<1>2. CASE UNCHANGED code
  BY <1>1, <1>2, QuietStep
<1>3. CASE code' # code
  <2>1. /\ pc[e] \in {"idle", "report", "analyse"}
        /\ \E c \in {"0", "1"} : code' = [code EXCEPT ![e] = c]
    BY <1>3 DEF MakeTemp, Report, Analyse, Pass, Goto
  <2>2. code'[e] # "none" /\ \A f \in Procs : f # e => code'[f] = code[f]
    BY <2>1 DEF IInv, TypeOK, CtlTypeOK
  <2>3. complete[e] => result[e] = "ok" /\ code[e] = "none"
    BY <2>1 DEF IInv, NamesInv, TypeOK, CtlTypeOK, Early
  <2>4. QED
    BY <1>1, <2>2, <2>3, FinishRefines
<1>4. QED
  BY <1>2, <1>3

\* The steps of a process that neither publish, answer nor exit.
LEMMA ProcessQuiet ==
    ASSUME IInv, IInv', NEW e \in Procs,
           \/ Enter(e) \/ Prepare(e) \/ OpenParent(e) \/ MakeStage(e) \/ OpenStage(e)
           \/ Connect(e) \/ BeginTransaction(e) \/ CreateSpend(e) \/ CopyRow(e) \/ CopyEnd(e)
           \/ SyncSpend(e) \/ CreateDaily(e) \/ CopyDaily(e) \/ SyncDaily(e) \/ Commit(e)
           \/ Validate(e) \/ Verify(e) \/ CheckContext(e)
           \/ Unwind(e) \/ CloseFiles(e) \/ CloseExport(e) \/ CloseStage(e)
           \/ Join(e) \/ RmParent(e) \/ HandlerStep(e)
           \/ Timeout(e) \/ Signal(e) \/ Crash(e) \/ ReplaceStage(e) \/ StrayEntry(e)
    PROVE  UNCHANGED Abs!absVars
<1>1. CASE BeginTransaction(e)
  <2>1. pc[e] = "begin" /\ UNCHANGED <<entry, result, code, opts>>
    BY <1>1 DEF BeginTransaction, DatabaseCall, Pass, Fail, Goto, nameVars
  <2>2. ~complete[e]
    BY <2>1 DEF IInv, NamesInv, Early
  <2>3. ASSUME NEW f \in Procs, complete[f] PROVE snap'[f] = snap[f]
    BY <1>1, <2>2, <2>3 DEF BeginTransaction, IInv, TypeOK, EnvTypeOK
  <2>4. QED
    BY <2>1, <2>3, QuietStep
<1>2. CASE ~BeginTransaction(e)
  <2>1. UNCHANGED <<entry, result, code, opts, snap>>
    <3>1. CASE Enter(e) \/ Prepare(e) \/ OpenParent(e) \/ MakeStage(e) \/ OpenStage(e) \/ Connect(e)
      BY <3>1 DEF Enter, Prepare, OpenParent, MakeStage, OpenStage, Connect, DatabaseCall, Pass,
                  Fail, EarlyFail, nameVars
    <3>2. CASE \/ CreateSpend(e) \/ CopyRow(e) \/ CopyEnd(e) \/ SyncSpend(e) \/ CreateDaily(e)
               \/ CopyDaily(e) \/ SyncDaily(e)
      BY <3>2 DEF CreateSpend, CopyRow, CopyEnd, SyncSpend, CreateDaily, CopyDaily, SyncDaily,
                  Create, SyncFile, Pass, Fail, nameVars, ctlVars
    <3>3. CASE Commit(e) \/ Validate(e) \/ Verify(e) \/ CheckContext(e) \/ Unwind(e)
      BY <3>3 DEF Commit, Validate, Verify, CheckContext, Unwind, DatabaseCall, Pass, Fail, nameVars
    <3>4. CASE CloseFiles(e) \/ CloseExport(e) \/ CloseStage(e) \/ Join(e) \/ RmParent(e)
      BY <3>4 DEF CloseFiles, CloseExport, CloseStage, Join, RmParent, Pass, nameVars
    <3>5. CASE \/ HandlerStep(e) \/ Timeout(e) \/ Signal(e) \/ Crash(e) \/ ReplaceStage(e)
               \/ StrayEntry(e)
      BY <3>5 DEF HandlerStep, HandleSignal, HandleDone, Timeout, Signal, Crash, ReplaceStage,
                  StrayEntry, nameVars, ctlVars
    <3>6. QED
      BY <1>2, <3>1, <3>2, <3>3, <3>4, <3>5
  <2>2. QED
    BY <2>1, QuietStep
<1>3. QED
  BY <1>1, <1>2

\* Every step of the exporters and of their environment is a step of the
\* abstract specification, or invisible in it.
LEMMA StepRefines ==
    ASSUME IInv, IInv', [Next]_vars
    PROVE  [Abs!AbsNext]_(Abs!absVars)
<1>1. CASE UNCHANGED vars
  <2>1. UNCHANGED <<entry, result, code, opts, snap>>
    BY <1>1 DEF vars, ctlVars, nameVars
  <2>2. QED
    BY <2>1, QuietStep
<1>2. ASSUME NEW e \in Procs, ExporterStep(e) \/ HandlerStep(e)
      PROVE  [Abs!AbsNext]_(Abs!absVars)
  BY <1>2, RenameRefines, ReturnRefines, ExitRefines, RemoveAllRefines, ProcessQuiet
     DEF ExporterStep
<1>3. CASE Interference
  <2>1. ASSUME NEW e \in Procs,
               Timeout(e) \/ Signal(e) \/ Crash(e) \/ ReplaceStage(e) \/ StrayEntry(e)
        PROVE  [Abs!AbsNext]_(Abs!absVars)
    BY <2>1, ProcessQuiet
  <2>2. ASSUME DatabaseWrite \/ Rebind PROVE [Abs!AbsNext]_(Abs!absVars)
    <3>1. UNCHANGED <<entry, result, code, opts, snap>>
      BY <2>2 DEF DatabaseWrite, Rebind, ctlVars, nameVars
    <3>2. QED
      BY <3>1, QuietStep
  <2>3. QED
    BY <1>3, <2>1, <2>2, ForeignRefines, PowerLossRefines DEF Interference
<1>4. QED
  BY <1>1, <1>2, <1>3 DEF Next

\* The exporters implement atomic, no-replace publication: whatever the
\* processes, directories, rows and failures, readers of the destinations
\* and callers of Export see only behaviours of AtomicPublication.
THEOREM Implements == Spec => Refinement
<1>1. Init => Abs!AbsInit
  BY ConstantsAssumption DEF Init, Abs!AbsInit, Shown, Places
<1>2. IInv /\ IInv' /\ [Next]_vars => [Abs!AbsNext]_(Abs!absVars)
  BY StepRefines
<1>3. QED
  BY <1>1, <1>2, Invariance, PTL DEF Spec, Refinement, Abs!AbsSpec
=============================================================================
