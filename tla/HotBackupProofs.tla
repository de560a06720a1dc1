-------------------------- MODULE HotBackupProofs ---------------------------
(***************************************************************************)
(* What HotBackup promises for every number of runs and of backups, every  *)
(* setting and every bound on what fails.  First the types: one lemma for  *)
(* each set of fields that a step writes in the record of a run, then the  *)
(* actions; then the invariant, and what it says.                          *)
(***************************************************************************)
EXTENDS HotBackupSteps

-----------------------------------------------------------------------------
(* Types. *)

Statuses == {"none", "running", "succeeded", "failed"}
Ids == 0 .. MaxBackups

\* None and every backup are values of the identifier in the row.
LEMMA IdsFit == None \in Ids /\ \A b \in Backups : b \in Ids
  BY HotBackupConstants DEF Ids, None, Backups

\* A write to pc of a record keeps its type.
LEMMA SetPc ==
    ASSUME run \in [Runs -> RunType], NEW r \in Runs, NEW p \in Steps
    PROVE  [run EXCEPT ![r].pc = p] \in [Runs -> RunType]
  <1> DEFINE y == [run[r] EXCEPT !.pc = p]
  <1>1. y \in RunType BY DEF RunType, Statuses, Ids
  <1>2. [run EXCEPT ![r].pc = p] = [run EXCEPT ![r] = y] OBVIOUS
  <1> HIDE DEF y
  <1> QED BY <1>1, <1>2

\* A write to then of a record keeps its type.
LEMMA SetThen ==
    ASSUME run \in [Runs -> RunType], NEW r \in Runs, NEW t \in Nexts
    PROVE  [run EXCEPT ![r].then = t] \in [Runs -> RunType]
  <1> DEFINE y == [run[r] EXCEPT !.then = t]
  <1>1. y \in RunType BY DEF RunType, Statuses, Ids
  <1>2. [run EXCEPT ![r].then = t] = [run EXCEPT ![r] = y] OBVIOUS
  <1> HIDE DEF y
  <1> QED BY <1>1, <1>2

\* A write to pc, then of a record keeps its type.
LEMMA SetPcThen ==
    ASSUME run \in [Runs -> RunType], NEW r \in Runs, NEW p \in Steps, NEW t \in Nexts
    PROVE  [run EXCEPT ![r].pc = p, ![r].then = t] \in [Runs -> RunType]
  <1> DEFINE y == [run[r] EXCEPT !.pc = p, !.then = t]
  <1>1. y \in RunType BY Zenon DEF RunType, Statuses, Ids
  <1>2. [run EXCEPT ![r].pc = p, ![r].then = t] = [run EXCEPT ![r] = y] BY Zenon
  <1> HIDE DEF y
  <1> QED BY <1>1, <1>2

\* A write to pc, then, status of a record keeps its type.
LEMMA SetPcThenStatus ==
    ASSUME run \in [Runs -> RunType], NEW r \in Runs, NEW p \in Steps, NEW t \in Nexts, NEW s \in Statuses
    PROVE  [run EXCEPT ![r].pc = p, ![r].then = t, ![r].status = s] \in [Runs -> RunType]
  <1> DEFINE y == [run[r] EXCEPT !.pc = p, !.then = t, !.status = s]
  <1>1. y \in RunType BY Zenon DEF RunType, Statuses, Ids
  <1>2. [run EXCEPT ![r].pc = p, ![r].then = t, ![r].status = s] = [run EXCEPT ![r] = y] BY Zenon
  <1> HIDE DEF y
  <1> QED BY Zenon, <1>1, <1>2

\* A write to pc, level of a record keeps its type.
LEMMA SetPcLevel ==
    ASSUME run \in [Runs -> RunType], NEW r \in Runs, NEW p \in Steps, NEW l \in Levels
    PROVE  [run EXCEPT ![r].pc = p, ![r].level = l] \in [Runs -> RunType]
  <1> DEFINE y == [run[r] EXCEPT !.pc = p, !.level = l]
  <1>1. y \in RunType BY Zenon DEF RunType, Statuses, Ids
  <1>2. [run EXCEPT ![r].pc = p, ![r].level = l] = [run EXCEPT ![r] = y] BY Zenon
  <1> HIDE DEF y
  <1> QED BY <1>1, <1>2

\* A write to pc, then, level of a record keeps its type.
LEMMA SetPcThenLevel ==
    ASSUME run \in [Runs -> RunType], NEW r \in Runs, NEW p \in Steps, NEW t \in Nexts, NEW l \in Levels
    PROVE  [run EXCEPT ![r].pc = p, ![r].then = t, ![r].level = l] \in [Runs -> RunType]
  <1> DEFINE y == [run[r] EXCEPT !.pc = p, !.then = t, !.level = l]
  <1>1. y \in RunType BY Zenon DEF RunType, Statuses, Ids
  <1>2. [run EXCEPT ![r].pc = p, ![r].then = t, ![r].level = l] = [run EXCEPT ![r] = y] BY Zenon
  <1> HIDE DEF y
  <1> QED BY Zenon, <1>1, <1>2

\* A write to level, pc, then of a record keeps its type.
LEMMA SetLevelPcThen ==
    ASSUME run \in [Runs -> RunType], NEW r \in Runs, NEW p \in Steps, NEW t \in Nexts, NEW l \in Levels
    PROVE  [run EXCEPT ![r].level = l, ![r].pc = p, ![r].then = t] \in [Runs -> RunType]
  <1> DEFINE y == [run[r] EXCEPT !.level = l, !.pc = p, !.then = t]
  <1>1. y \in RunType BY Zenon DEF RunType, Statuses, Ids
  <1>2. [run EXCEPT ![r].level = l, ![r].pc = p, ![r].then = t] = [run EXCEPT ![r] = y] BY Zenon
  <1> HIDE DEF y
  <1> QED BY Zenon, <1>1, <1>2

\* A write to pc, ask, level of a record keeps its type.
LEMMA SetPcAskLevel ==
    ASSUME run \in [Runs -> RunType], NEW r \in Runs, NEW p \in Steps, NEW a \in BOOLEAN, NEW l \in Levels
    PROVE  [run EXCEPT ![r].pc = p, ![r].ask = a, ![r].level = l] \in [Runs -> RunType]
  <1> DEFINE y == [run[r] EXCEPT !.pc = p, !.ask = a, !.level = l]
  <1>1. y \in RunType BY Zenon DEF RunType, Statuses, Ids
  <1>2. [run EXCEPT ![r].pc = p, ![r].ask = a, ![r].level = l] = [run EXCEPT ![r] = y] BY Zenon
  <1> HIDE DEF y
  <1> QED BY Zenon, <1>1, <1>2

\* A write to pc, backup of a record keeps its type.
LEMMA SetPcBackup ==
    ASSUME run \in [Runs -> RunType], NEW r \in Runs, NEW p \in Steps, NEW b \in Ids
    PROVE  [run EXCEPT ![r].pc = p, ![r].backup = b] \in [Runs -> RunType]
  <1> DEFINE y == [run[r] EXCEPT !.pc = p, !.backup = b]
  <1>1. y \in RunType BY Zenon DEF RunType, Statuses, Ids
  <1>2. [run EXCEPT ![r].pc = p, ![r].backup = b] = [run EXCEPT ![r] = y] BY Zenon
  <1> HIDE DEF y
  <1> QED BY <1>1, <1>2

\* A write to pc, then, backup of a record keeps its type.
LEMMA SetPcThenBackup ==
    ASSUME run \in [Runs -> RunType], NEW r \in Runs, NEW p \in Steps, NEW t \in Nexts, NEW b \in Ids
    PROVE  [run EXCEPT ![r].pc = p, ![r].then = t, ![r].backup = b] \in [Runs -> RunType]
  <1> DEFINE y == [run[r] EXCEPT !.pc = p, !.then = t, !.backup = b]
  <1>1. y \in RunType BY Zenon DEF RunType, Statuses, Ids
  <1>2. [run EXCEPT ![r].pc = p, ![r].then = t, ![r].backup = b] = [run EXCEPT ![r] = y] BY Zenon
  <1> HIDE DEF y
  <1> QED BY Zenon, <1>1, <1>2

\* A write to pc, backup, status of a record keeps its type.
LEMMA SetPcBackupStatus ==
    ASSUME run \in [Runs -> RunType], NEW r \in Runs, NEW p \in Steps, NEW b \in Ids, NEW s \in Statuses
    PROVE  [run EXCEPT ![r].pc = p, ![r].backup = b, ![r].status = s] \in [Runs -> RunType]
  <1> DEFINE y == [run[r] EXCEPT !.pc = p, !.backup = b, !.status = s]
  <1>1. y \in RunType BY Zenon DEF RunType, Statuses, Ids
  <1>2. [run EXCEPT ![r].pc = p, ![r].backup = b, ![r].status = s] = [run EXCEPT ![r] = y] BY Zenon
  <1> HIDE DEF y
  <1> QED BY Zenon, <1>1, <1>2

\* A write to pc, then, backup, status of a record keeps its type.
LEMMA SetPcThenBackupStatus ==
    ASSUME run \in [Runs -> RunType], NEW r \in Runs, NEW p \in Steps, NEW t \in Nexts, NEW b \in Ids, NEW s \in Statuses
    PROVE  [run EXCEPT ![r].pc = p, ![r].then = t, ![r].backup = b, ![r].status = s] \in [Runs -> RunType]
  <1> DEFINE y == [run[r] EXCEPT !.pc = p, !.then = t, !.backup = b, !.status = s]
  <1>1. y \in RunType BY Zenon DEF RunType, Statuses, Ids
  <1>2. [run EXCEPT ![r].pc = p, ![r].then = t, ![r].backup = b, ![r].status = s] = [run EXCEPT ![r] = y] BY Zenon
  <1> HIDE DEF y
  <1> QED BY Zenon, <1>1, <1>2

\* The record of a run that begins again with a full backup.
LEMMA SetDowngraded ==
    ASSUME run \in [Runs -> RunType], NEW r \in Runs
    PROVE  [run EXCEPT ![r].pc = "thaw", ![r].then = "quiesce", ![r].full = TRUE, ![r].ask = FALSE, ![r].backup = None, ![r].status = "running"] \in [Runs -> RunType]
  <1> DEFINE y == [run[r] EXCEPT !.pc = "thaw", !.then = "quiesce", !.full = TRUE, !.ask = FALSE, !.backup = None, !.status = "running"]
  <1>1. y \in RunType BY ZenonT(30), IdsFit DEF RunType, Ids, Steps, Nexts
  <1>2. [run EXCEPT ![r].pc = "thaw", ![r].then = "quiesce", ![r].full = TRUE, ![r].ask = FALSE, ![r].backup = None, ![r].status = "running"] = [run EXCEPT ![r] = y] BY Zenon
  <1> HIDE DEF y
  <1> QED BY <1>1, <1>2

\* A write to pc, pending of a record keeps its type.
LEMMA SetPcPending ==
    ASSUME run \in [Runs -> RunType], NEW r \in Runs, NEW p \in Steps, NEW a \in BOOLEAN
    PROVE  [run EXCEPT ![r].pc = p, ![r].pending = a] \in [Runs -> RunType]
  <1> DEFINE y == [run[r] EXCEPT !.pc = p, !.pending = a]
  <1>1. y \in RunType BY Zenon DEF RunType, Statuses, Ids
  <1>2. [run EXCEPT ![r].pc = p, ![r].pending = a] = [run EXCEPT ![r] = y] BY Zenon
  <1> HIDE DEF y
  <1> QED BY <1>1, <1>2

\* A write to pc, ask of a record keeps its type.
LEMMA SetPcAsk ==
    ASSUME run \in [Runs -> RunType], NEW r \in Runs, NEW p \in Steps, NEW a \in BOOLEAN
    PROVE  [run EXCEPT ![r].pc = p, ![r].ask = a] \in [Runs -> RunType]
  <1> DEFINE y == [run[r] EXCEPT !.pc = p, !.ask = a]
  <1>1. y \in RunType BY Zenon DEF RunType, Statuses, Ids
  <1>2. [run EXCEPT ![r].pc = p, ![r].ask = a] = [run EXCEPT ![r] = y] BY Zenon
  <1> HIDE DEF y
  <1> QED BY <1>1, <1>2

\* A write to pc, status of a record keeps its type.
LEMMA SetPcStatus ==
    ASSUME run \in [Runs -> RunType], NEW r \in Runs, NEW p \in Steps, NEW s \in Statuses
    PROVE  [run EXCEPT ![r].pc = p, ![r].status = s] \in [Runs -> RunType]
  <1> DEFINE y == [run[r] EXCEPT !.pc = p, !.status = s]
  <1>1. y \in RunType BY Zenon DEF RunType, Statuses, Ids
  <1>2. [run EXCEPT ![r].pc = p, ![r].status = s] = [run EXCEPT ![r] = y] BY Zenon
  <1> HIDE DEF y
  <1> QED BY <1>1, <1>2

\* ReleaseEngineLeftovers leaves records of runs.
LEMMA ReleaseEngineLeftoversRecord ==
    ASSUME Types, NEW r \in Runs, ReleaseEngineLeftovers(r)
    PROVE  run' \in [Runs -> RunType]
  <1> USE DEF Types
  <1>1. \/ run' = [run EXCEPT ![r].pc = "quiesce"]
        \/ run' = [run EXCEPT ![r].pc = "finalize", ![r].then = "fail"]
        \/ \E b \in Backups : run' = [run EXCEPT ![r].pc = "close", ![r].backup = b]
    BY DEF ReleaseEngineLeftovers, Move, Finalizing, Open
  <1>2. "close" \in Steps /\ "finalize" \in Steps /\ "quiesce" \in Steps /\ "fail" \in Nexts
    BY DEF Steps, Nexts
  <1>3. CASE run' = [run EXCEPT ![r].pc = "quiesce"]
    BY SetPc, <1>2, <1>3
  <1>4. CASE run' = [run EXCEPT ![r].pc = "finalize", ![r].then = "fail"]
    BY Zenon, SetPcThen, <1>2, <1>4
  <1>5. ASSUME NEW b \in Backups, run' = [run EXCEPT ![r].pc = "close", ![r].backup = b]
        PROVE  run' \in [Runs -> RunType]
    BY Zenon, SetPcBackup, <1>2, <1>5, IdsFit
  <1> QED BY Zenon, <1>1, <1>3, <1>4, <1>5

\* CloseLeftover leaves records of runs.
LEMMA CloseLeftoverRecord ==
    ASSUME Types, NEW r \in Runs, CloseLeftover(r)
    PROVE  run' \in [Runs -> RunType]
  <1> USE DEF Types
  <1>1. \/ run' = [run EXCEPT ![r].pc = "closing"]
        \/ run' = [run EXCEPT ![r].pc = "finalize", ![r].then = "fail", ![r].backup = None]
    BY DEF CloseLeftover, Move
  <1>2. "closing" \in Steps /\ "finalize" \in Steps /\ "fail" \in Nexts
    BY DEF Steps, Nexts
  <1>3. CASE run' = [run EXCEPT ![r].pc = "closing"]
    BY Zenon, SetPc, <1>2, <1>3
  <1>4. CASE run' = [run EXCEPT ![r].pc = "finalize", ![r].then = "fail", ![r].backup = None]
    BY Zenon, SetPcThenBackup, <1>2, <1>4, IdsFit
  <1> QED BY Zenon, <1>1, <1>3, <1>4

\* LeftoverClosed leaves records of runs.
LEMMA LeftoverClosedRecord ==
    ASSUME Types, NEW r \in Runs, LeftoverClosed(r)
    PROVE  run' \in [Runs -> RunType]
  <1> USE DEF Types
  <1>1. \/ run' = [run EXCEPT ![r].pc = "quiesce", ![r].backup = None]
        \/ run' = [run EXCEPT ![r].pc = "finalize", ![r].then = "fail", ![r].backup = None]
    BY DEF LeftoverClosed
  <1>2. "fail" \in Nexts /\ "finalize" \in Steps /\ "quiesce" \in Steps
    BY SMTT(30) DEF Nexts, Steps
  <1>3. CASE run' = [run EXCEPT ![r].pc = "quiesce", ![r].backup = None]
    BY Zenon, SetPcBackup, <1>2, <1>3, IdsFit
  <1>4. CASE run' = [run EXCEPT ![r].pc = "finalize", ![r].then = "fail", ![r].backup = None]
    BY Zenon, SetPcThenBackup, <1>2, <1>4, IdsFit
  <1> QED BY Zenon, <1>1, <1>3, <1>4

\* NoFreeze leaves records of runs.
LEMMA NoFreezeRecord ==
    ASSUME Types, NEW r \in Runs, NoFreeze(r)
    PROVE  run' \in [Runs -> RunType]
  <1> USE DEF Types
  <1>1. \/ run' = [run EXCEPT ![r].pc = "finalize", ![r].then = "fail"]
        \/ \E l \in Levels : run' = [run EXCEPT ![r].pc = "open", ![r].level = l]
    BY DEF NoFreeze, Finalizing, Levels
  <1>2. "fail" \in Nexts /\ "finalize" \in Steps /\ "open" \in Steps
    BY SMTT(30) DEF Nexts, Steps
  <1>3. CASE run' = [run EXCEPT ![r].pc = "finalize", ![r].then = "fail"]
    BY Zenon, SetPcThen, <1>2, <1>3
  <1>4. ASSUME NEW l \in Levels, run' = [run EXCEPT ![r].pc = "open", ![r].level = l]
        PROVE  run' \in [Runs -> RunType]
    BY Zenon, SetPcLevel, <1>2, <1>4
  <1> QED BY Zenon, <1>1, <1>3, <1>4

\* ThawAfterFailedFreeze leaves records of runs.
LEMMA ThawAfterFailedFreezeRecord ==
    ASSUME Types, NEW r \in Runs, ThawAfterFailedFreeze(r)
    PROVE  run' \in [Runs -> RunType]
  <1> USE DEF Types
  <1>1. \/ run' = [run EXCEPT ![r].pc = "open", ![r].ask = TRUE, ![r].level = "target"]
        \/ run' = [run EXCEPT ![r].pc = "finalize", ![r].then = "fail", ![r].level = "crash"]
        \/ run' = [run EXCEPT ![r].pc = "open", ![r].level = "crash"]
    BY Zenon, SMTT(30) DEF ThawAfterFailedFreeze, Unfrozen
  <1>2. "crash" \in Levels /\ "target" \in Levels /\ "fail" \in Nexts /\ "finalize" \in Steps /\ "open" \in Steps
    BY DEF Levels, Nexts, Steps
  <1>3. CASE run' = [run EXCEPT ![r].pc = "open", ![r].ask = TRUE, ![r].level = "target"]
    BY Zenon, SetPcAskLevel, <1>2, <1>3
  <1>4. CASE run' = [run EXCEPT ![r].pc = "finalize", ![r].then = "fail", ![r].level = "crash"]
    BY Zenon, SetPcThenLevel, <1>2, <1>4
  <1>5. CASE run' = [run EXCEPT ![r].pc = "open", ![r].level = "crash"]
    BY Zenon, SetPcLevel, <1>2, <1>5
  <1> QED BY Zenon, <1>1, <1>3, <1>4, <1>5

\* ThawGivenUp leaves records of runs.
LEMMA ThawGivenUpRecord ==
    ASSUME Types, NEW r \in Runs, ThawGivenUp(r)
    PROVE  run' \in [Runs -> RunType]
  <1> USE DEF Types
  <1>1. \/ run' = [run EXCEPT ![r].pc = "open", ![r].ask = TRUE, ![r].level = "target"]
        \/ run' = [run EXCEPT ![r].pc = "finalize", ![r].then = "fail", ![r].level = "crash"]
        \/ run' = [run EXCEPT ![r].pc = "open", ![r].level = "crash"]
    BY Zenon, SMTT(30) DEF ThawGivenUp, Unfrozen
  <1>2. "crash" \in Levels /\ "target" \in Levels /\ "fail" \in Nexts /\ "finalize" \in Steps /\ "open" \in Steps
    BY DEF Levels, Nexts, Steps
  <1>3. CASE run' = [run EXCEPT ![r].pc = "open", ![r].ask = TRUE, ![r].level = "target"]
    BY Zenon, SetPcAskLevel, <1>2, <1>3
  <1>4. CASE run' = [run EXCEPT ![r].pc = "finalize", ![r].then = "fail", ![r].level = "crash"]
    BY Zenon, SetPcThenLevel, <1>2, <1>4
  <1>5. CASE run' = [run EXCEPT ![r].pc = "open", ![r].level = "crash"]
    BY Zenon, SetPcLevel, <1>2, <1>5
  <1> QED BY Zenon, <1>1, <1>3, <1>4, <1>5

\* Thaw leaves records of runs.
LEMMA ThawRecord ==
    ASSUME Types, NEW r \in Runs, Fit(run[r], conf.req[r]), Thaw(r)
    PROVE  run' \in [Runs -> RunType]
  <1> USE DEF Types
  <1>0. run[r].then \in {"fail", "settle", "quiesce"}
    BY DEF Thaw, At, Fit
  <1>1. \/ run' = [run EXCEPT ![r].then = "fail"]
        \/ run' = [run EXCEPT ![r].pc = "finalize"]
        \/ run' = [run EXCEPT ![r].pc = run[r].then]
    BY Zenon DEF Thaw
  <1>2. "fail" \in Nexts /\ "finalize" \in Steps /\ run[r].then \in Steps
    BY Zenon, <1>0 DEF Nexts, Steps
  <1>3. CASE run' = [run EXCEPT ![r].then = "fail"]
    BY Zenon, SetThen, <1>2, <1>3
  <1>4. CASE run' = [run EXCEPT ![r].pc = "finalize"]
    BY Zenon, SetPc, <1>2, <1>4
  <1>5. CASE run' = [run EXCEPT ![r].pc = run[r].then]
    BY Zenon, SetPc, <1>2, <1>5
  <1> QED BY Zenon, <1>1, <1>3, <1>4, <1>5

\* StartBackup leaves records of runs.
LEMMA StartBackupRecord ==
    ASSUME Types, NEW r \in Runs, StartBackup(r)
    PROVE  run' \in [Runs -> RunType]
  <1> USE DEF Types
  <1>1. \/ \E b \in Backups : run' = [run EXCEPT ![r].pc = "wait", ![r].backup = b, ![r].status = "running"]
        \/ \E b \in Backups : run' = [run EXCEPT ![r].pc = "thaw", ![r].then = "fail", ![r].backup = b, ![r].status = "running"]
        \/ run' = [run EXCEPT ![r].pc = "thaw", ![r].then = "fail", ![r].backup = None]
    BY Zenon DEF StartBackup
  <1>2. "fail" \in Nexts /\ "running" \in Statuses /\ "thaw" \in Steps /\ "wait" \in Steps
    BY SMTT(30) DEF Nexts, Statuses, Steps
  <1>3. ASSUME NEW b \in Backups, run' = [run EXCEPT ![r].pc = "wait", ![r].backup = b, ![r].status = "running"]
        PROVE  run' \in [Runs -> RunType]
    BY Zenon, SetPcBackupStatus, <1>2, <1>3, IdsFit
  <1>4. ASSUME NEW b \in Backups, run' = [run EXCEPT ![r].pc = "thaw", ![r].then = "fail", ![r].backup = b, ![r].status = "running"]
        PROVE  run' \in [Runs -> RunType]
    BY Zenon, SetPcThenBackupStatus, <1>2, <1>4, IdsFit
  <1>5. CASE run' = [run EXCEPT ![r].pc = "thaw", ![r].then = "fail", ![r].backup = None]
    BY Zenon, SetPcThenBackup, <1>2, <1>5, IdsFit
  <1> QED BY Zenon, <1>1, <1>3, <1>4, <1>5

\* StartRefused leaves records of runs.
LEMMA StartRefusedRecord ==
    ASSUME Types, NEW r \in Runs, StartRefused(r)
    PROVE  run' \in [Runs -> RunType]
  <1> USE DEF Types
  <1>1. \/ run' = [run EXCEPT ![r].pc = "thaw", ![r].then = "fail", ![r].backup = None]
        \/ run' = [run EXCEPT ![r].pc = "thaw", ![r].then = "quiesce", ![r].full = TRUE, ![r].ask = FALSE, ![r].backup = None, ![r].status = "running"]
    BY DEF StartRefused
  <1>2. "fail" \in Nexts /\ "quiesce" \in Nexts /\ "running" \in Statuses /\ "thaw" \in Steps
    BY SMTT(30) DEF Nexts, Statuses, Steps
  <1>3. CASE run' = [run EXCEPT ![r].pc = "thaw", ![r].then = "fail", ![r].backup = None]
    BY Zenon, SetPcThenBackup, <1>2, <1>3, IdsFit
  <1>4. CASE run' = [run EXCEPT ![r].pc = "thaw", ![r].then = "quiesce", ![r].full = TRUE, ![r].ask = FALSE, ![r].backup = None, ![r].status = "running"]
    BY Zenon, SetDowngraded, <1>2, <1>4, IdsFit
  <1> QED BY Zenon, <1>1, <1>3, <1>4

\* BackupFailed leaves records of runs.
LEMMA BackupFailedRecord ==
    ASSUME Types, NEW r \in Runs, BackupFailed(r)
    PROVE  run' \in [Runs -> RunType]
  <1> USE DEF Types
  <1>0. run[r].level \in Levels BY DEF RunType
  <1>1. \/ run' = [run EXCEPT ![r].pc = "finalize", ![r].then = "plain", ![r].level = "crash"]
        \/ \E l \in Levels : run' = [run EXCEPT ![r].pc = "thaw", ![r].then = "fail", ![r].level = l]
    BY Zenon, <1>0 DEF BackupFailed, Levels
  <1>2. "crash" \in Levels /\ "fail" \in Nexts /\ "plain" \in Nexts /\ "finalize" \in Steps /\ "thaw" \in Steps
    BY SMTT(30) DEF Levels, Nexts, Steps
  <1>3. CASE run' = [run EXCEPT ![r].pc = "finalize", ![r].then = "plain", ![r].level = "crash"]
    BY Zenon, SetPcThenLevel, <1>2, <1>3
  <1>4. ASSUME NEW l \in Levels, run' = [run EXCEPT ![r].pc = "thaw", ![r].then = "fail", ![r].level = l]
        PROVE  run' \in [Runs -> RunType]
    BY Zenon, SetPcThenLevel, <1>2, <1>4
  <1> QED BY Zenon, <1>1, <1>3, <1>4

\* Settle leaves records of runs.
LEMMA SettleRecord ==
    ASSUME Types, NEW r \in Runs, Settle(r)
    PROVE  run' \in [Runs -> RunType]
  <1> USE DEF Types
  <1>1. \/ run' = [run EXCEPT ![r].pc = "copy"]
        \/ run' = [run EXCEPT ![r].pc = "finalize", ![r].then = "engine"]
        \/ \E p \in Steps : run' = [run EXCEPT ![r].level = "crash", ![r].pc = p, ![r].then = "fail"]
    BY Zenon DEF Settle, Move, Finalizing, Steps
  <1>2. "copy" \in Steps /\ "finalize" \in Steps /\ "crash" \in Levels /\ "engine" \in Nexts /\ "fail" \in Nexts
    BY DEF Steps, Levels, Nexts
  <1>3. CASE run' = [run EXCEPT ![r].pc = "copy"]
    BY SetPc, <1>2, <1>3
  <1>4. CASE run' = [run EXCEPT ![r].pc = "finalize", ![r].then = "engine"]
    BY Zenon, SetPcThen, <1>2, <1>4
  <1>5. ASSUME NEW p \in Steps, run' = [run EXCEPT ![r].level = "crash", ![r].pc = p, ![r].then = "fail"]
        PROVE  run' \in [Runs -> RunType]
    BY Zenon, SetLevelPcThen, <1>2, <1>5
  <1> QED BY Zenon, <1>1, <1>3, <1>4, <1>5

\* CopyDisks leaves records of runs.
LEMMA CopyDisksRecord ==
    ASSUME Types, NEW r \in Runs, CopyDisks(r)
    PROVE  run' \in [Runs -> RunType]
  <1> USE DEF Types
  <1>1. \/ run' = [run EXCEPT ![r].pc = "finalize", ![r].then = "finish"]
        \/ run' = [run EXCEPT ![r].pc = "finalize", ![r].then = "fail"]
    BY DEF CopyDisks, Finalizing
  <1>2. "fail" \in Nexts /\ "finish" \in Nexts /\ "finalize" \in Steps
    BY SMTT(30) DEF Nexts, Steps
  <1>3. CASE run' = [run EXCEPT ![r].pc = "finalize", ![r].then = "finish"]
    BY Zenon, SetPcThen, <1>2, <1>3
  <1>4. CASE run' = [run EXCEPT ![r].pc = "finalize", ![r].then = "fail"]
    BY Zenon, SetPcThen, <1>2, <1>4
  <1> QED BY Zenon, <1>1, <1>3, <1>4

\* Finalized leaves records of runs.
LEMMA FinalizedRecord ==
    ASSUME Types, NEW r \in Runs, Finalized(r)
    PROVE  run' \in [Runs -> RunType]
  <1> USE DEF Types
  <1>0. run[r].then \in Nexts BY DEF RunType
  <1>1. \/ run' = [run EXCEPT ![r].pc = "open", ![r].ask = TRUE, ![r].level = "target"]
        \/ run' = [run EXCEPT ![r].pc = "open", ![r].ask = FALSE]
        \/ \E p \in Steps : run' = [run EXCEPT ![r].pc = p]
    BY Zenon, <1>0 DEF Finalized, Nexts, Steps
  <1>2. "open" \in Steps /\ "target" \in Levels
    BY DEF Steps, Levels
  <1>3. CASE run' = [run EXCEPT ![r].pc = "open", ![r].ask = TRUE, ![r].level = "target"]
    BY Zenon, SetPcAskLevel, <1>2, <1>3
  <1>4. CASE run' = [run EXCEPT ![r].pc = "open", ![r].ask = FALSE]
    BY Zenon, SetPcAsk, <1>2, <1>4
  <1>5. ASSUME NEW p \in Steps, run' = [run EXCEPT ![r].pc = p]
        PROVE  run' \in [Runs -> RunType]
    BY SetPc, <1>2, <1>5
  <1> QED BY Zenon, <1>1, <1>3, <1>4, <1>5

\* FinishRun leaves records of runs.
LEMMA FinishRunRecord ==
    ASSUME Types, NEW r \in Runs, FinishRun(r)
    PROVE  run' \in [Runs -> RunType]
  <1> USE DEF Types
  <1>1. \/ run' = [run EXCEPT ![r].pc = "ended", ![r].status = "succeeded"]
        \/ run' = [run EXCEPT ![r].pc = "fail"]
        \/ run' = [run EXCEPT ![r].pc = "ended"]
    BY DEF FinishRun, Move
  <1>2. "ended" \in Steps /\ "fail" \in Steps /\ "succeeded" \in Statuses
    BY SMTT(30) DEF Steps, Statuses
  <1>3. CASE run' = [run EXCEPT ![r].pc = "ended", ![r].status = "succeeded"]
    BY Zenon, SetPcStatus, <1>2, <1>3
  <1>4. CASE run' = [run EXCEPT ![r].pc = "fail"]
    BY SetPc, <1>2, <1>4
  <1>5. CASE run' = [run EXCEPT ![r].pc = "ended"]
    BY SetPc, <1>2, <1>5
  <1> QED BY Zenon, <1>1, <1>3, <1>4, <1>5

\* FailRun leaves records of runs.
LEMMA FailRunRecord ==
    ASSUME Types, NEW r \in Runs, FailRun(r)
    PROVE  run' \in [Runs -> RunType]
  <1> USE DEF Types
  <1>1. \/ run' = [run EXCEPT ![r].pc = "ended", ![r].status = "failed"]
        \/ run' = [run EXCEPT ![r].pc = "ended"]
    BY DEF FailRun, Move
  <1>2. "ended" \in Steps /\ "failed" \in Statuses
    BY SMTT(30) DEF Steps, Statuses
  <1>3. CASE run' = [run EXCEPT ![r].pc = "ended", ![r].status = "failed"]
    BY Zenon, SetPcStatus, <1>2, <1>3
  <1>4. CASE run' = [run EXCEPT ![r].pc = "ended"]
    BY Zenon, SetPc, <1>2, <1>4
  <1> QED BY Zenon, <1>1, <1>3, <1>4

\* SpaceRefused leaves records of runs.
LEMMA SpaceRefusedRecord ==
    ASSUME Types, NEW r \in Runs, SpaceRefused(r)
    PROVE  run' \in [Runs -> RunType]
  BY Zenon, SetPcThen DEF Types, SpaceRefused, Finalizing, Steps, Nexts

\* EngineFreeze leaves records of runs.
LEMMA EngineFreezeRecord ==
    ASSUME Types, NEW r \in Runs, EngineFreeze(r)
    PROVE  run' \in [Runs -> RunType]
  BY Zenon, SetPcAskLevel DEF Types, EngineFreeze, Steps, Levels

\* FreezeFilesystems leaves records of runs.
LEMMA FreezeFilesystemsRecord ==
    ASSUME Types, NEW r \in Runs, FreezeFilesystems(r)
    PROVE  run' \in [Runs -> RunType]
  BY Zenon, SetPcLevel DEF Types, FreezeFilesystems, Steps, Levels

\* FreezeRefused leaves records of runs.
LEMMA FreezeRefusedRecord ==
    ASSUME Types, NEW r \in Runs, FreezeRefused(r)
    PROVE  run' \in [Runs -> RunType]
  BY Zenon, SetPcPending DEF Types, FreezeRefused, Steps

\* FreezeTimesOut leaves records of runs.
LEMMA FreezeTimesOutRecord ==
    ASSUME Types, NEW r \in Runs, FreezeTimesOut(r)
    PROVE  run' \in [Runs -> RunType]
  BY Zenon, SetPcPending DEF Types, FreezeTimesOut, Steps

\* BackupReady leaves records of runs.
LEMMA BackupReadyRecord ==
    ASSUME Types, NEW r \in Runs, BackupReady(r)
    PROVE  run' \in [Runs -> RunType]
  BY Zenon, SetPcThenStatus DEF Types, BackupReady, Steps, Nexts, Statuses

\* WaitFails leaves records of runs.
LEMMA WaitFailsRecord ==
    ASSUME Types, NEW r \in Runs, WaitFails(r)
    PROVE  run' \in [Runs -> RunType]
  BY Zenon, SetPcThen DEF Types, WaitFails, Steps, Nexts

\* FinalizeEngineBackup leaves records of runs.
LEMMA FinalizeEngineBackupRecord ==
    ASSUME Types, NEW r \in Runs, FinalizeEngineBackup(r)
    PROVE  run' \in [Runs -> RunType]
  BY Zenon, SetPc DEF Types, FinalizeEngineBackup, Move, Steps

\* Execute leaves records of runs.
LEMMA ExecuteRecord ==
    ASSUME Types, NEW r \in Runs, Execute(r)
    PROVE  run' \in [Runs -> RunType]
  <1> DEFINE y == [NoRun EXCEPT !.pc = "leftovers", !.status = "running", !.seen = guest.power]
  <1>1. y \in RunType
    BY Zenon, IdsFit DEF NoRun, RunType, Types, GuestType, Steps, Nexts, Levels, Ids
  <1>2. run' = [run EXCEPT ![r] = y]
    BY DEF Execute
  <1> HIDE DEF y
  <1> QED BY <1>1, <1>2 DEF Types

\* Crash leaves records of runs.
LEMMA CrashRecord ==
    ASSUME Types, Crash
    PROVE  run' \in [Runs -> RunType]
  <1>1. ASSUME NEW r \in Runs PROVE [run[r] EXCEPT !.pc = "dead"] \in RunType
    BY DEF Types, RunType, Steps
  <1> QED BY <1>1 DEF Types, Crash

\* Reconcile keeps the types.
LEMMA ReconcileTypes ==
    ASSUME Types, ReconcileStaleRuns
    PROVE  run' \in [Runs -> RunType] /\ backup' \in [Backups -> BackupType]
  <1>1. ASSUME NEW r \in Runs PROVE [run[r] EXCEPT !.status = "failed"] \in RunType
    BY DEF Types, RunType
  <1>2. ASSUME NEW b \in Backups PROVE [backup[b] EXCEPT !.phase = "finalizing"] \in BackupType
    BY DEF Types, BackupType
  <1> QED BY <1>1, <1>2 DEF Types, ReconcileStaleRuns

\* The phase of a backup moves.
LEMMA SetPhase ==
    ASSUME Types, NEW b \in Backups, NEW p \in {"ready", "failed", "finalizing", "closed"}
    PROVE  [backup EXCEPT ![b].phase = p] \in [Backups -> BackupType]
  <1> DEFINE y == [backup[b] EXCEPT !.phase = p]
  <1>1. y \in BackupType BY DEF Types, BackupType
  <1>2. [backup EXCEPT ![b].phase = p] = [backup EXCEPT ![b] = y] BY DEF Types
  <1> HIDE DEF y
  <1> QED BY <1>1, <1>2 DEF Types

\* A fixed backup is one.
LEMMA EngineFixesType ==
    ASSUME Types, NEW b \in Backups, EngineFixes(b)
    PROVE  backup' \in [Backups -> BackupType]
  BY DEF Types, BackupType, EngineFixes

\* A new backup is one.
LEMMA OpenedType ==
    ASSUME Types, NEW r \in Runs, StartBackup(r)
    PROVE  backup' \in [Backups -> BackupType]
  <1>1. Opened(r) \in BackupType
    BY HotBackupConstants DEF Opened, Types, RunType, BackupType, Runs
  <1>2. PICK b \in Backups : backup' = [backup EXCEPT ![b] = Opened(r)]
    BY Zenon DEF StartBackup
  <1> QED BY <1>1, <1>2 DEF Types

\* A counter that goes up stays a natural.
LEMMA CountType == ASSUME Types, NEW c \in Counters, Spend(c) \/ UNCHANGED count PROVE count' \in [Counters -> Nat]
  BY DEF Types, Spend

\* CloseLeftover keeps the types.
LEMMA CloseLeftoverTypes == ASSUME Types, NEW r \in Runs, CloseLeftover(r) PROVE Types'
  <1>1. run' \in [Runs -> RunType]
    BY CloseLeftoverRecord
  <1>2. count' \in [Counters -> Nat]
    BY Zenon, CountType DEF CloseLeftover, Counters
  <1>3. backup' \in [Backups -> BackupType]
    BY ZenonT(30), SetPhase DEF CloseLeftover, Types, Open
  <1> QED BY Zenon, <1>1, <1>2, <1>3 DEF Types, CloseLeftover

\* FreezeFilesystems keeps the types.
LEMMA FreezeFilesystemsTypes == ASSUME Types, NEW r \in Runs, FreezeFilesystems(r) PROVE Types'
  <1>1. run' \in [Runs -> RunType]
    BY FreezeFilesystemsRecord
  <1>2. window' \in [Runs -> WindowType]
    BY DEF FreezeFilesystems, Types, WindowType
  <1>3. guest' \in GuestType
    BY Zenon DEF FreezeFilesystems, Types, GuestType
  <1> QED BY Zenon, <1>1, <1>2, <1>3 DEF Types, FreezeFilesystems

\* FreezeTimesOut keeps the types.
LEMMA FreezeTimesOutTypes == ASSUME Types, NEW r \in Runs, FreezeTimesOut(r) PROVE Types'
  <1>1. run' \in [Runs -> RunType]
    BY FreezeTimesOutRecord
  <1>2. count' \in [Counters -> Nat]
    BY Zenon, CountType DEF FreezeTimesOut, Counters
  <1>3. guest' \in GuestType
    BY Zenon DEF FreezeTimesOut, Types, GuestType
  <1> QED BY Zenon, <1>1, <1>2, <1>3 DEF Types, FreezeTimesOut

\* ThawAfterFailedFreeze keeps the types.
LEMMA ThawAfterFailedFreezeTypes == ASSUME Types, NEW r \in Runs, ThawAfterFailedFreeze(r) PROVE Types'
  <1>1. run' \in [Runs -> RunType]
    BY ThawAfterFailedFreezeRecord
  <1>2. guest' \in GuestType
    BY Zenon DEF ThawAfterFailedFreeze, Types, GuestType
  <1> QED BY <1>1, <1>2 DEF Types, ThawAfterFailedFreeze

\* StartBackup keeps the types.
LEMMA StartBackupTypes == ASSUME Types, NEW r \in Runs, StartBackup(r) PROVE Types'
  <1>1. run' \in [Runs -> RunType]
    BY StartBackupRecord
  <1>2. count' \in [Counters -> Nat]
    BY Zenon, CountType DEF StartBackup, Counters
  <1>3. backup' \in [Backups -> BackupType]
    BY OpenedType
  <1> QED BY Zenon, <1>1, <1>2, <1>3 DEF Types, StartBackup

\* Settle keeps the types.
LEMMA SettleTypes == ASSUME Types, NEW r \in Runs, Settle(r) PROVE Types'
  <1>1. run' \in [Runs -> RunType]
    BY SettleRecord
  <1>2. window' \in [Runs -> WindowType]
    BY Zenon, StartTypes DEF Settle, Types
  <1> QED BY Zenon, <1>1, <1>2 DEF Types, Settle

\* FinalizeEngineBackup keeps the types.
LEMMA FinalizeEngineBackupTypes == ASSUME Types, NEW r \in Runs, FinalizeEngineBackup(r) PROVE Types'
  <1>1. run' \in [Runs -> RunType]
    BY FinalizeEngineBackupRecord
  <1>2. count' \in [Counters -> Nat]
    BY Zenon, CountType DEF FinalizeEngineBackup, Counters
  <1>3. backup' \in [Backups -> BackupType]
    BY ZenonT(30), SetPhase DEF FinalizeEngineBackup, Types, Open
  <1> QED BY Zenon, <1>1, <1>2, <1>3 DEF Types, FinalizeEngineBackup

\* TimerFires keeps the types.
LEMMA TimerFiresTypes == ASSUME Types, NEW r \in Runs, TimerFires(r) PROVE Types'
  <1>1. window' \in [Runs -> WindowType]
    BY DEF TimerFires, Types, WindowType
  <1> QED BY <1>1 DEF Types, TimerFires

\* WatchdogThaws keeps the types.
LEMMA WatchdogThawsTypes == ASSUME Types, NEW r \in Runs, WatchdogThaws(r) PROVE Types'
  <1> DEFINE win == [window[r] EXCEPT !.timer = "off", !.expired = TRUE]
  <1>1. win \in WindowType /\ win.held = window[r].held
    BY Zenon DEF Types, WindowType
  <1>2. ThawGuest(r, win)
    BY DEF WatchdogThaws
  <1> HIDE DEF win
  <1>3. window' \in [Runs -> WindowType] /\ guest' \in GuestType
    BY <1>1, <1>2, ThawEffect
  <1>4. thawFailed' \in BOOLEAN
    BY Zenon DEF Types, WatchdogThaws, ThawGuest
  <1>5. count' \in [Counters -> Nat]
    BY Zenon, CountType DEF WatchdogThaws, Counters, ThawGuest
  <1> QED BY <1>1, <1>2, <1>3, <1>4, <1>5 DEF Types, WatchdogThaws

\* Thaw keeps the types.
LEMMA ThawTypes == ASSUME Types, NEW r \in Runs, Fit(run[r], conf.req[r]), Thaw(r) PROVE Types'
  <1>1. run' \in [Runs -> RunType]
    BY ThawRecord
  <1> DEFINE win == [window[r] EXCEPT !.timer = IF @ = "armed" THEN "off" ELSE @]
  <1>2. win \in WindowType /\ win.held = window[r].held
    BY DEF Types, WindowType
  <1>3. ThawGuest(r, win)
    BY DEF Thaw
  <1> HIDE DEF win
  <1>4. window' \in [Runs -> WindowType] /\ guest' \in GuestType
    BY Zenon, <1>2, <1>3, ThawEffect
  <1>5. thawFailed' \in BOOLEAN
    BY Zenon DEF Types, Thaw, ThawGuest
  <1>6. count' \in [Counters -> Nat]
    BY Zenon, CountType DEF Thaw, Counters, ThawGuest
  <1> QED BY Zenon, <1>1, <1>2, <1>3, <1>4, <1>5, <1>6 DEF Types, Thaw

\* EngineFixes keeps the types.
LEMMA EngineFixesTypes == ASSUME Types, NEW b \in Backups, EngineFixes(b) PROVE Types'
  <1>1. backup' \in [Backups -> BackupType]
    BY EngineFixesType
  <1> QED BY Zenon, <1>1 DEF Types, EngineFixes

\* EngineFails keeps the types.
LEMMA EngineFailsTypes == ASSUME Types, NEW b \in Backups, EngineFails(b) PROVE Types'
  <1>1. count' \in [Counters -> Nat]
    BY Zenon, CountType DEF EngineFails, Counters
  <1>2. backup' \in [Backups -> BackupType]
    BY Zenon, SetPhase DEF EngineFails, Types
  <1> QED BY <1>1, <1>2 DEF Types, EngineFails

\* EngineCloses keeps the types.
LEMMA EngineClosesTypes == ASSUME Types, NEW b \in Backups, EngineCloses(b) PROVE Types'
  <1>1. backup' \in [Backups -> BackupType]
    BY Zenon, SetPhase DEF EngineCloses, Types
  <1> QED BY <1>1 DEF Types, EngineCloses

\* ForeignOpens keeps the types.
LEMMA ForeignOpensTypes == ASSUME Types, NEW b \in Backups, ForeignOpens(b) PROVE Types'
  <1>1. count' \in [Counters -> Nat]
    BY CountType DEF ForeignOpens, Counters
  <1>2. backup' \in [Backups -> BackupType]
    BY Zenon, SetPhase DEF ForeignOpens, Types
  <1> QED BY <1>1, <1>2 DEF Types, ForeignOpens

\* ForeignCloses keeps the types.
LEMMA ForeignClosesTypes == ASSUME Types, NEW b \in Backups, ForeignCloses(b) PROVE Types'
  <1>1. backup' \in [Backups -> BackupType]
    BY Zenon, SetPhase DEF ForeignCloses, Types
  <1> QED BY <1>1 DEF Types, ForeignCloses

\* AgentFreezes keeps the types.
LEMMA AgentFreezesTypes == ASSUME Types, AgentFreezes PROVE Types'
  <1>1. guest' \in GuestType
    BY Zenon DEF AgentFreezes, Types, GuestType
  <1> QED BY <1>1 DEF Types, AgentFreezes

\* PowerOn keeps the types.
LEMMA PowerOnTypes == ASSUME Types, PowerOn PROVE Types'
  <1>1. count' \in [Counters -> Nat]
    BY CountType DEF PowerOn, Counters
  <1>2. guest' \in GuestType
    BY Zenon DEF PowerOn, Types, GuestType
  <1> QED BY <1>1, <1>2 DEF Types, PowerOn

\* Crash keeps the types.
LEMMA CrashTypes == ASSUME Types, Crash PROVE Types'
  <1>1. count' \in [Counters -> Nat]
    BY CountType DEF Crash, Counters
  <1>2. window' \in [Runs -> WindowType]
    BY DEF Crash, Types, WindowType, NoWindow
  <1>3. run' \in [Runs -> RunType]
    BY CrashRecord
  <1> QED BY Zenon, <1>1, <1>2, <1>3 DEF Types, Crash

\* Restart keeps the types.
LEMMA RestartTypes == ASSUME Types, Restart PROVE Types'
  <1>1. run' \in [Runs -> RunType] /\ backup' \in [Backups -> BackupType]
    BY ReconcileTypes DEF Restart
  <1> QED BY <1>1 DEF Types, Restart

\* PeerStarts keeps the types.
LEMMA PeerStartsTypes == ASSUME Types, PeerStarts PROVE Types'
  <1>1. count' \in [Counters -> Nat]
    BY CountType DEF PeerStarts, Counters
  <1>2. run' \in [Runs -> RunType] /\ backup' \in [Backups -> BackupType]
    BY ReconcileTypes DEF PeerStarts
  <1> QED BY <1>1, <1>2 DEF Types, PeerStarts

\* Every step of Next keeps the types.
LEMMA TypesNext ==
    ASSUME Types, \A r \in Runs : Fit(run[r], conf.req[r]), [Next]_vars
    PROVE  Types'
  <1>1. ASSUME NEW r \in Runs, Execute(r) PROVE Types' BY Zenon, <1>1, ExecuteRecord DEF Types, Execute
  <1>2. ASSUME NEW r \in Runs, ReleaseEngineLeftovers(r) PROVE Types' BY Zenon, <1>2, ReleaseEngineLeftoversRecord, CountType DEF Types, ReleaseEngineLeftovers, Counters
  <1>3. ASSUME NEW r \in Runs, CloseLeftover(r) PROVE Types' BY <1>3, CloseLeftoverTypes
  <1>4. ASSUME NEW r \in Runs, LeftoverClosed(r) PROVE Types' BY Zenon, <1>4, LeftoverClosedRecord, CountType DEF Types, LeftoverClosed, Counters
  <1>5. ASSUME NEW r \in Runs, NoFreeze(r) PROVE Types' BY Zenon, <1>5, NoFreezeRecord DEF Types, NoFreeze
  <1>6. ASSUME NEW r \in Runs, SpaceRefused(r) PROVE Types' BY Zenon, <1>6, SpaceRefusedRecord, CountType DEF Types, SpaceRefused, Counters
  <1>7. ASSUME NEW r \in Runs, EngineFreeze(r) PROVE Types' BY Zenon, <1>7, EngineFreezeRecord DEF Types, EngineFreeze
  <1>8. ASSUME NEW r \in Runs, FreezeFilesystems(r) PROVE Types' BY <1>8, FreezeFilesystemsTypes
  <1>9. ASSUME NEW r \in Runs, FreezeRefused(r) PROVE Types' BY Zenon, <1>9, FreezeRefusedRecord, CountType DEF Types, FreezeRefused, Counters
  <1>10. ASSUME NEW r \in Runs, FreezeTimesOut(r) PROVE Types' BY <1>10, FreezeTimesOutTypes
  <1>11. ASSUME NEW r \in Runs, ThawAfterFailedFreeze(r) PROVE Types' BY <1>11, ThawAfterFailedFreezeTypes
  <1>12. ASSUME NEW r \in Runs, ThawGivenUp(r) PROVE Types' BY Zenon, <1>12, ThawGivenUpRecord, CountType DEF Types, ThawGivenUp, Counters
  <1>13. ASSUME NEW r \in Runs, StartBackup(r) PROVE Types' BY <1>13, StartBackupTypes
  <1>14. ASSUME NEW r \in Runs, StartRefused(r) PROVE Types' BY Zenon, <1>14, StartRefusedRecord, CountType DEF Types, StartRefused, Counters
  <1>15. ASSUME NEW r \in Runs, BackupReady(r) PROVE Types' BY Zenon, <1>15, BackupReadyRecord DEF Types, BackupReady
  <1>16. ASSUME NEW r \in Runs, BackupFailed(r) PROVE Types' BY Zenon, <1>16, BackupFailedRecord DEF Types, BackupFailed
  <1>17. ASSUME NEW r \in Runs, WaitFails(r) PROVE Types' BY Zenon, <1>17, WaitFailsRecord, CountType DEF Types, WaitFails, Counters
  <1>18. ASSUME NEW r \in Runs, Settle(r) PROVE Types' BY <1>18, SettleTypes
  <1>19. ASSUME NEW r \in Runs, CopyDisks(r) PROVE Types' BY Zenon, <1>19, CopyDisksRecord, CountType DEF Types, CopyDisks, Counters
  <1>20. ASSUME NEW r \in Runs, FinalizeEngineBackup(r) PROVE Types' BY <1>20, FinalizeEngineBackupTypes
  <1>21. ASSUME NEW r \in Runs, Finalized(r) PROVE Types' BY Zenon, <1>21, FinalizedRecord, CountType DEF Types, Finalized, Counters
  <1>22. ASSUME NEW r \in Runs, FinishRun(r) PROVE Types' BY Zenon, <1>22, FinishRunRecord, CountType DEF Types, FinishRun, Counters
  <1>23. ASSUME NEW r \in Runs, FailRun(r) PROVE Types' BY Zenon, <1>23, FailRunRecord, CountType DEF Types, FailRun, Counters
  <1>24. ASSUME NEW r \in Runs, TimerFires(r) PROVE Types' BY <1>24, TimerFiresTypes
  <1>25. ASSUME NEW r \in Runs, WatchdogThaws(r) PROVE Types' BY <1>25, WatchdogThawsTypes
  <1>26. ASSUME NEW r \in Runs, Thaw(r) PROVE Types' BY <1>26, ThawTypes
  <1>27. ASSUME NEW b \in Backups, EngineFixes(b) PROVE Types' BY <1>27, EngineFixesTypes
  <1>28. ASSUME NEW b \in Backups, EngineFails(b) PROVE Types' BY <1>28, EngineFailsTypes
  <1>29. ASSUME NEW b \in Backups, EngineCloses(b) PROVE Types' BY <1>29, EngineClosesTypes
  <1>30. ASSUME NEW b \in Backups, ForeignOpens(b) PROVE Types' BY <1>30, ForeignOpensTypes
  <1>31. ASSUME NEW b \in Backups, ForeignCloses(b) PROVE Types' BY <1>31, ForeignClosesTypes
  <1>32. CASE AgentFreezes BY <1>32, AgentFreezesTypes
  <1>33. CASE PowerOn BY <1>33, PowerOnTypes
  <1>34. CASE Crash BY <1>34, CrashTypes
  <1>35. CASE Restart BY <1>35, RestartTypes
  <1>36. CASE PeerStarts BY <1>36, PeerStartsTypes
  <1>37. CASE UNCHANGED vars
    BY <1>37 DEF Types, vars
  <1> QED BY <1>1, <1>2, <1>3, <1>4, <1>5, <1>6, <1>7, <1>8, <1>9, <1>10, <1>11, <1>12, <1>13, <1>14, <1>15, <1>16, <1>17, <1>18, <1>19, <1>20, <1>21, <1>22, <1>23, <1>24, <1>25, <1>26, <1>27, <1>28, <1>29, <1>30, <1>31, <1>32, <1>33, <1>34, <1>35, <1>36, <1>37, Zenon DEF Next, Quiescing, Releasing

-----------------------------------------------------------------------------
(* The invariant. *)

\* A VM nobody has backed up yet: no run, no backup, no window.
LEMMA InvInit == Init => Inv
  <1> SUFFICES ASSUME Init PROVE Inv
    OBVIOUS
  <1>1. Types
    BY Zenon, StartTypes DEF Init, Types, Counters, GuestType
  <1>2. \A r \in Runs : run[r] = NoRun /\ window[r] = NoWindow
    BY DEF Init
  <1>3. Begun /\ Guarded /\ InTurn
    BY Zenon DEF Init, Begun, Guarded, InTurn, NoBackup, NoRun
  <1>4. \A r \in Runs : RunInv(r, run[r])
    BY <1>2 DEF Init, RunInv, Fit, Owns, Lives, Leaves, Holds, Sees, Honest, Claims, Copied, Reading,
                NoRun, NoWindow, None, Finished
  <1> QED BY <1>1, <1>3, <1>4 DEF Inv

\* Every step of Next keeps the invariant.
LEMMA InvNext == ASSUME Inv, [Next]_vars PROVE Inv'
  <1>t. Types'
    BY TypesNext DEF Inv, RunInv
  <1>1. ASSUME NEW r \in Runs, Execute(r) PROVE Inv' BY <1>1, <1>t, ExecuteKeeps
  <1>2. ASSUME NEW r \in Runs, ReleaseEngineLeftovers(r) PROVE Inv' BY <1>2, <1>t, ReleaseEngineLeftoversKeeps
  <1>3. ASSUME NEW r \in Runs, CloseLeftover(r) PROVE Inv' BY <1>3, <1>t, CloseLeftoverKeeps
  <1>4. ASSUME NEW r \in Runs, LeftoverClosed(r) PROVE Inv' BY <1>4, <1>t, LeftoverClosedKeeps
  <1>5. ASSUME NEW r \in Runs, NoFreeze(r) PROVE Inv' BY <1>5, <1>t, NoFreezeKeeps
  <1>6. ASSUME NEW r \in Runs, SpaceRefused(r) PROVE Inv' BY <1>6, <1>t, SpaceRefusedKeeps
  <1>7. ASSUME NEW r \in Runs, EngineFreeze(r) PROVE Inv' BY <1>7, <1>t, EngineFreezeKeeps
  <1>8. ASSUME NEW r \in Runs, FreezeFilesystems(r) PROVE Inv' BY <1>8, <1>t, FreezeFilesystemsKeeps
  <1>9. ASSUME NEW r \in Runs, FreezeRefused(r) PROVE Inv' BY <1>9, <1>t, FreezeRefusedKeeps
  <1>10. ASSUME NEW r \in Runs, FreezeTimesOut(r) PROVE Inv' BY <1>10, <1>t, FreezeTimesOutKeeps
  <1>11. ASSUME NEW r \in Runs, ThawAfterFailedFreeze(r) PROVE Inv' BY <1>11, <1>t, ThawAfterFailedFreezeKeeps
  <1>12. ASSUME NEW r \in Runs, ThawGivenUp(r) PROVE Inv' BY <1>12, <1>t, ThawGivenUpKeeps
  <1>13. ASSUME NEW r \in Runs, StartBackup(r) PROVE Inv' BY <1>13, <1>t, StartBackupKeeps
  <1>14. ASSUME NEW r \in Runs, StartRefused(r) PROVE Inv' BY <1>14, <1>t, StartRefusedKeeps
  <1>15. ASSUME NEW r \in Runs, BackupReady(r) PROVE Inv' BY <1>15, <1>t, BackupReadyKeeps
  <1>16. ASSUME NEW r \in Runs, BackupFailed(r) PROVE Inv' BY <1>16, <1>t, BackupFailedKeeps
  <1>17. ASSUME NEW r \in Runs, WaitFails(r) PROVE Inv' BY <1>17, <1>t, WaitFailsKeeps
  <1>18. ASSUME NEW r \in Runs, Settle(r) PROVE Inv' BY <1>18, <1>t, SettleKeeps
  <1>19. ASSUME NEW r \in Runs, CopyDisks(r) PROVE Inv' BY <1>19, <1>t, CopyDisksKeeps
  <1>20. ASSUME NEW r \in Runs, FinalizeEngineBackup(r) PROVE Inv' BY <1>20, <1>t, FinalizeEngineBackupKeeps
  <1>21. ASSUME NEW r \in Runs, Finalized(r) PROVE Inv' BY <1>21, <1>t, FinalizedKeeps
  <1>22. ASSUME NEW r \in Runs, FinishRun(r) PROVE Inv' BY <1>22, <1>t, FinishRunKeeps
  <1>23. ASSUME NEW r \in Runs, FailRun(r) PROVE Inv' BY <1>23, <1>t, FailRunKeeps
  <1>24. ASSUME NEW r \in Runs, TimerFires(r) PROVE Inv' BY <1>24, <1>t, TimerFiresKeeps
  <1>25. ASSUME NEW r \in Runs, WatchdogThaws(r) PROVE Inv' BY <1>25, <1>t, WatchdogThawsKeeps
  <1>26. ASSUME NEW r \in Runs, Thaw(r) PROVE Inv' BY <1>26, <1>t, ThawKeeps
  <1>27. ASSUME NEW b \in Backups, EngineFixes(b) PROVE Inv' BY <1>27, <1>t, EngineFixesKeeps
  <1>28. ASSUME NEW b \in Backups, EngineFails(b) PROVE Inv' BY <1>28, <1>t, EngineFailsKeeps
  <1>29. ASSUME NEW b \in Backups, EngineCloses(b) PROVE Inv' BY <1>29, <1>t, EngineClosesKeeps
  <1>30. ASSUME NEW b \in Backups, ForeignOpens(b) PROVE Inv' BY <1>30, <1>t, ForeignOpensKeeps
  <1>31. ASSUME NEW b \in Backups, ForeignCloses(b) PROVE Inv' BY <1>31, <1>t, ForeignClosesKeeps
  <1>32. CASE AgentFreezes BY <1>32, <1>t, AgentFreezesKeeps
  <1>33. CASE PowerOn BY <1>33, <1>t, PowerOnKeeps
  <1>34. CASE Crash BY <1>34, <1>t, CrashKeeps
  <1>35. CASE Restart BY <1>35, <1>t, RestartKeeps
  <1>36. CASE PeerStarts BY <1>36, <1>t, PeerStartsKeeps
  <1>37. CASE UNCHANGED vars BY <1>37, StutterKeeps
  <1> QED BY <1>1, <1>2, <1>3, <1>4, <1>5, <1>6, <1>7, <1>8, <1>9, <1>10, <1>11, <1>12, <1>13, <1>14, <1>15, <1>16, <1>17, <1>18, <1>19, <1>20, <1>21, <1>22, <1>23, <1>24, <1>25, <1>26, <1>27, <1>28, <1>29, <1>30, <1>31, <1>32, <1>33, <1>34, <1>35, <1>36, <1>37, Zenon DEF Next, Quiescing, Releasing

\* What the invariant says of the states that the service shows.
LEMMA InvImplies == Inv => TypeOK /\ LevelHonest /\ StrictKept /\ CopiedIsOpen /\ FrozenIsReported
  <1> SUFFICES ASSUME Inv PROVE TypeOK /\ LevelHonest /\ StrictKept /\ CopiedIsOpen /\ FrozenIsReported
    OBVIOUS
  <1>1. TypeOK
    BY DEF Inv, Types, TypeOK, RunInv, Fit, Reading
  <1>2. LevelHonest
    BY DEF Inv, RunInv, Honest, Calm, Copied, Good, LevelHonest, Succeeded, Point
  <1>3. StrictKept
    BY DEF Inv, RunInv, Fit, Claims, Copied, StrictKept, Succeeded
  <1>4. CopiedIsOpen
    BY DEF Inv, RunInv, Lives, Alone, Reading, CopiedIsOpen, At
  <1>5. FrozenIsReported
    BY DEF Inv, RunInv, Holds, Guarded, FrozenIsReported, At, Over
  <1> QED BY <1>1, <1>2, <1>3, <1>4, <1>5

\* The marker of a backup stays (startEngineBackup writes it once).
LEMMA MarkerKept ==
    ASSUME Types, [Next]_vars, NEW b \in Backups, backup[b].phase # "none"
    PROVE  backup'[b].owner = backup[b].owner
  <1>1. ASSUME NEW r \in Runs, CloseLeftover(r) \/ FinalizeEngineBackup(r) PROVE backup'[b].owner = backup[b].owner
    BY Zenon, <1>1, Closes DEF CloseLeftover, FinalizeEngineBackup, Closing
  <1>2. ASSUME NEW r \in Runs, StartBackup(r) PROVE backup'[b].owner = backup[b].owner
    BY Zenon, <1>2 DEF StartBackup, NewBackup, Types
  <1>3. ASSUME NEW c \in Backups, EngineFixes(c) \/ EngineFails(c) \/ EngineCloses(c) \/ ForeignOpens(c) \/ ForeignCloses(c)
        PROVE  backup'[b].owner = backup[b].owner
    <2>1. CASE EngineFixes(c)
      BY <2>1 DEF EngineFixes, Types, BackupType
    <2>3. CASE EngineFails(c)
      BY <2>3 DEF EngineFails, Types, BackupType
    <2>4. CASE EngineCloses(c)
      BY <2>4 DEF EngineCloses, Types, BackupType
    <2>2. CASE ForeignOpens(c) \/ ForeignCloses(c)
      BY <2>2 DEF ForeignOpens, ForeignCloses, Types, BackupType
    <2> QED BY Zenon, <1>3, <2>1, <2>2, <2>3, <2>4
  <1>4. CASE ReconcileStaleRuns
    BY Zenon, <1>4, ReconcileEffect DEF Reconciled
  <1>5. ASSUME NEW r \in Runs, Execute(r) \/ ReleaseEngineLeftovers(r) \/ LeftoverClosed(r) \/ NoFreeze(r) \/ SpaceRefused(r) \/ EngineFreeze(r)
        PROVE  UNCHANGED backup
    BY Zenon, <1>5 DEF Execute, ReleaseEngineLeftovers, LeftoverClosed, NoFreeze, SpaceRefused, EngineFreeze
  <1>6. ASSUME NEW r \in Runs, FreezeFilesystems(r) \/ FreezeRefused(r) \/ FreezeTimesOut(r) \/ ThawAfterFailedFreeze(r) \/ ThawGivenUp(r)
        PROVE  UNCHANGED backup
    BY Zenon, <1>6 DEF FreezeFilesystems, FreezeRefused, FreezeTimesOut, ThawAfterFailedFreeze, ThawGivenUp
  <1>7. ASSUME NEW r \in Runs, TimerFires(r) \/ WatchdogThaws(r) \/ Thaw(r) \/ StartRefused(r) \/ BackupReady(r) \/ BackupFailed(r)
        PROVE  UNCHANGED backup
    BY Zenon, <1>7 DEF TimerFires, WatchdogThaws, Thaw, StartRefused, BackupReady, BackupFailed
  <1>8. ASSUME NEW r \in Runs, WaitFails(r) \/ Settle(r) \/ CopyDisks(r) \/ Finalized(r) \/ FinishRun(r) \/ FailRun(r)
        PROVE  UNCHANGED backup
    BY Zenon, <1>8 DEF WaitFails, Settle, CopyDisks, Finalized, FinishRun, FailRun
  <1>9. ASSUME AgentFreezes \/ PowerOn \/ Crash
        PROVE  UNCHANGED backup
    BY <1>9 DEF AgentFreezes, PowerOn, Crash
  <1> QED BY Zenon, <1>1, <1>2, <1>3, <1>4, <1>5, <1>6, <1>7, <1>8, <1>9 DEF Next, Quiescing, Releasing, Restart, PeerStarts, vars

\* The invariant holds of every state the service, the engine and the guest reach.
LEMMA Invariance == Spec => []Inv
  BY InvInit, InvNext, PTL DEF Spec

\* Every variable keeps its type, and a run that waits for a backup or reads one has one
\* (runCBT, startEngineBackup).
THEOREM TypeCorrect == Spec => []TypeOK
  BY Invariance, InvImplies, PTL

\* LevelHonest: a copy that is recorded with the level of its job (runner.go, settleFreeze)
\* was fixed while the guest was frozen, or off, whatever the watchdog, the engine and the
\* process did in between.
THEOREM LevelCorrect == Spec => []LevelHonest
  BY Invariance, InvImplies, PTL

\* StrictKept: no way through QuiesceGuest, ThawAfterFailedFreeze, a failed backup or
\* settleFreeze ends in a copy of a RequireConsistency job with a lower level.
THEOREM StrictCorrect == Spec => []StrictKept
  BY Invariance, InvImplies, PTL

\* CopiedIsOpen: as long as no other instance starts, copyDisks reads from a backup that
\* releaseEngineLeftovers of another run has not closed.
THEOREM CopyCorrect == Spec => []CopiedIsOpen
  BY Invariance, InvImplies, PTL

\* FrozenIsReported: when the runs are over and the process has not died, a guest that is
\* still frozen, or still being frozen, has its RunEventThawFailed.
THEOREM ReportCorrect == Spec => []FrozenIsReported
  BY Invariance, InvImplies, PTL

\* ForeignStays: what closes a backup (closeLeftover, finalizeEngineBackup,
\* ReconcileStaleRuns) closes one of this service.
THEOREM ForeignCorrect == Spec => ForeignStays
  <1> DEFINE A == \A b \in Backups : backup[b].phase # "none" /\ backup[b].owner = Foreign => backup'[b].phase # "finalizing"
  <1>1. ASSUME Inv, [Next]_vars PROVE A
    <2>1. Inv'
      BY <1>1, InvNext
    <2>2. ASSUME NEW b \in Backups, backup[b].phase # "none", backup[b].owner = Foreign PROVE backup'[b].owner = Foreign
      BY <1>1, <2>2, MarkerKept DEF Inv
    <2> QED BY Zenon, <2>1, <2>2 DEF Inv, Begun
  <1> QED BY <1>1, Invariance, PTL DEF Spec, ForeignStays
=============================================================================
