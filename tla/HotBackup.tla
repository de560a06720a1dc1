----------------------------- MODULE HotBackup -----------------------------
(***************************************************************************)
(* A backup of a working VM through the Backup API of the oVirt engine:    *)
(* runCBT of internal/backup/runner.go with the three ways of freezing the *)
(* guest, the watchdog of freeze_window.go, the release after a failed     *)
(* freeze (freeze_release.go) and the clearing of what earlier runs left   *)
(* open on the engine (engine_leftovers.go).                               *)
(*                                                                         *)
(* One VM.  The engine, the guest agent and the watchdog go on beside the  *)
(* run; any call may fail, be answered late, or be the last one before the *)
(* process dies.                                                           *)
(***************************************************************************)
EXTENDS Naturals, FiniteSets

CONSTANTS MaxRuns,      \* bound: calls of Execute
          MaxBackups,   \* bound: backups the engine opens
          Settings      \* the jobs that have this VM, and what happens around them

Runs     == 1 .. MaxRuns
Backups  == 1 .. MaxBackups
Counters == {"fault", "crash", "peer", "foreign", "power"}
Foreign  == 0
None     == 0

\* freezeBy: who freezes; freeze: the level of the job needs a freeze; strict:
\* RequireConsistency.
Request == [freezeBy : {"service", "engine", "mixed"}, freeze : BOOLEAN, strict : BOOLEAN]

\* overlap: two jobs have the VM, and their runs may overlap; agent: the inventory has an
\* agent; max: bounds on failing or late calls, deaths of the process, starts of another
\* instance, backups of another backup system and starts of the VM by its owner.
Setting == [req : [Runs -> Request], overlap : BOOLEAN, agent : BOOLEAN, max : [Counters -> 0 .. 2]]

ASSUME HotBackupConstants == MaxRuns \in Nat /\ MaxBackups \in Nat /\ Settings \subseteq Setting

VARIABLES conf,     \* the setting
          run,      \* Execute of each run, with its row
          window,   \* its FreezeWindow
          backup,   \* the backups of the VM on the engine
          guest,    \* the file systems of the guest: [frozen, busy, power]
          takeover, \* a RunEventEngineTakeover is in the history of the VM
          thawFailed, \* a RunEventThawFailed is in it
          up,       \* the process is up
          count     \* the bounded counters

vars == <<conf, run, window, backup, guest, takeover, thawFailed, up, count>>

Levels == {"crash", "target"}
Nexts  == {"quiesce", "settle", "engine", "plain", "fail", "finish"}
Steps  == {"none", "leftovers", "close", "closing", "quiesce", "unfreeze", "open", "wait",
           "thaw", "settle", "finalize", "finalizing", "copy", "finish", "fail", "ended", "dead"}

NoRun    == [pc |-> "none", then |-> "fail", seen |-> FALSE, pending |-> FALSE, ask |-> FALSE, full |-> FALSE,
             backup |-> None, level |-> "crash", status |-> "none"]
NoWindow == [held |-> FALSE, timer |-> "off", expired |-> FALSE]
NoBackup == [phase |-> "none", owner |-> Foreign, ask |-> FALSE, point |-> "none"]

RunType    == [pc : Steps, then : Nexts, seen : BOOLEAN, pending : BOOLEAN, ask : BOOLEAN, full : BOOLEAN,
               backup : 0 .. MaxBackups, level : Levels, status : {"none", "running", "succeeded", "failed"}]
WindowType == [held : BOOLEAN, timer : {"off", "armed", "firing"}, expired : BOOLEAN]
BackupType == [phase : {"none", "initializing", "ready", "failed", "finalizing", "closed"}, owner : 0 .. MaxRuns,
               ask : BOOLEAN, point : {"none", "frozen", "off", "crash"}]
GuestType  == [frozen : BOOLEAN, busy : BOOLEAN, power : BOOLEAN]

TypeOK ==
    /\ conf \in Settings /\ takeover \in BOOLEAN /\ thawFailed \in BOOLEAN /\ up \in BOOLEAN
    /\ run \in [Runs -> RunType] /\ window \in [Runs -> WindowType] /\ backup \in [Backups -> BackupType]
    /\ guest \in GuestType /\ count \in [Counters -> Nat]
    /\ \A r \in Runs : run[r].pc \in {"wait", "copy"} => run[r].backup # None

Init ==
    /\ conf \in Settings
    /\ run = [r \in Runs |-> NoRun]
    /\ window = [r \in Runs |-> NoWindow]
    /\ backup = [b \in Backups |-> NoBackup]
    /\ guest \in [frozen : {FALSE}, busy : {FALSE}, power : BOOLEAN]
    /\ takeover = FALSE /\ thawFailed = FALSE /\ up = TRUE
    /\ count = [c \in Counters |-> 0]

Spend(c) == count[c] < conf.max[c] /\ count' = [count EXCEPT ![c] = @ + 1]

At(r, pc) == run[r].pc = pc

Over(r) == run[r].pc \in {"ended", "dead"}

\* Backup.Open: the engine holds the disks of the VM.  It has one such backup at a time.
Open == {b \in Backups : backup[b].phase \in {"initializing", "ready", "finalizing"}}

\* Mutation: a run that goes on is not recognised.
LiveOwnerUnseen(b) == backup[b].owner # Foreign /\ run[backup[b].owner].status = "none"

\* ownerOf: the run of the marker is pending or running.
LiveOwner(b) == backup[b].owner # Foreign /\ run[backup[b].owner].status = "running"

Move(r, pc) == run' = [run EXCEPT ![r].pc = pc]

\* runCBT closes its backup before the outcome is recorded.
Finalizing(r, then) == run' = [run EXCEPT ![r].pc = "finalize", ![r].then = then]
-----------------------------------------------------------------------------
(* The run up to the freeze. *)

\* Execute: the VM as the inventory has it, the row of the run.
Execute(r) ==
    /\ At(r, "none") /\ up
    /\ \A q \in Runs : q < r => IF conf.overlap THEN ~At(q, "none") ELSE Over(q)
    /\ run' = [run EXCEPT ![r] = [NoRun EXCEPT !.pc = "leftovers", !.status = "running",
                                              !.seen = guest.power]]
    /\ UNCHANGED <<conf, window, backup, guest, takeover, thawFailed, up, count>>

\* Mutation: whatever is open and not of a live run is a leftover.
ReleaseAnyLeftover(r) ==
    /\ At(r, "leftovers")
    /\ \/ Open = {} /\ Move(r, "quiesce")
       \/ \E b \in Open : ~LiveOwner(b) /\ run' = [run EXCEPT ![r].pc = "close", ![r].backup = b]
    /\ UNCHANGED <<conf, window, backup, guest, takeover, thawFailed, up, count>>

\* releaseEngineLeftovers: nothing open, or the list cannot be read, and the run goes on;
\* a backup of a live run or of somebody else ends it; an own one is closed first.
ReleaseEngineLeftovers(r) ==
    /\ At(r, "leftovers")
    /\ \/ Open = {} /\ Move(r, "quiesce") /\ UNCHANGED count
       \/ Move(r, "quiesce") /\ Spend("fault")
       \/ \E b \in Open :
             /\ IF LiveOwner(b) \/ backup[b].owner = Foreign
                THEN Finalizing(r, "fail")
                ELSE run' = [run EXCEPT ![r].pc = "close", ![r].backup = b]
             /\ UNCHANGED count
    /\ UNCHANGED <<conf, window, backup, guest, takeover, thawFailed, up>>

\* closeLeftover: FinalizeBackup and WaitBackupFinalized.
CloseLeftover(r) ==
    LET b == run[r].backup
    IN  /\ At(r, "close")
        /\ \/ /\ backup' = IF b \in Open THEN [backup EXCEPT ![b].phase = "finalizing"] ELSE backup
              /\ Move(r, "closing") /\ UNCHANGED count
           \/ /\ run' = [run EXCEPT ![r].pc = "finalize", ![r].then = "fail", ![r].backup = None]
              /\ Spend("fault") /\ UNCHANGED backup
        /\ UNCHANGED <<conf, window, guest, takeover, thawFailed, up>>

LeftoverClosed(r) ==
    /\ At(r, "closing")
    /\ \/ /\ run[r].backup \notin Open
          /\ run' = [run EXCEPT ![r].pc = "quiesce", ![r].backup = None]
          /\ UNCHANGED count
       \/ /\ run' = [run EXCEPT ![r].pc = "finalize", ![r].then = "fail", ![r].backup = None]
          /\ Spend("fault")
    /\ UNCHANGED <<conf, window, backup, guest, takeover, thawFailed, up>>
-----------------------------------------------------------------------------
(* Freezing. *)

MustFreeze(r) == conf.req[r].freeze /\ run[r].seen /\ conf.agent

\* QuiesceGuest and EngineQuiesce before the freeze: none is asked for, the VM is off, or
\* there is no agent.
NoFreeze(r) ==
    LET reached == IF conf.req[r].freeze /\ ~run[r].seen THEN "target" ELSE "crash"
    IN  /\ At(r, "quiesce") /\ ~MustFreeze(r)
        /\ IF conf.req[r].freeze /\ run[r].seen /\ conf.req[r].strict
           THEN Finalizing(r, "fail")
           ELSE run' = [run EXCEPT ![r].pc = "open", ![r].level = reached]
        /\ UNCHANGED <<conf, window, backup, guest, takeover, thawFailed, up, count>>

\* checkDomainSpace refuses, or the run is cancelled.
SpaceRefused(r) ==
    /\ At(r, "quiesce") /\ Spend("fault")
    /\ Finalizing(r, "fail")
    /\ UNCHANGED <<conf, window, backup, guest, takeover, thawFailed, up>>

\* openBackupEngineFreeze; the mixed mode turns to it at once when the service was late on
\* this VM not long ago.
EngineFreeze(r) ==
    /\ At(r, "quiesce") /\ MustFreeze(r)
    /\ conf.req[r].freezeBy = "engine" \/ (conf.req[r].freezeBy = "mixed" /\ takeover)
    /\ run' = [run EXCEPT ![r].pc = "open", ![r].ask = TRUE, ![r].level = "target"]
    /\ UNCHANGED <<conf, window, backup, guest, takeover, thawFailed, up, count>>

ServiceFreezes(r) == At(r, "quiesce") /\ MustFreeze(r) /\ conf.req[r].freezeBy # "engine"

\* Mutation: no watchdog.
FreezeUnguarded(r) ==
    /\ ServiceFreezes(r)
    /\ guest.power /\ ~guest.frozen /\ ~guest.busy
    /\ guest' = [guest EXCEPT !.frozen = TRUE]
    /\ run' = [run EXCEPT ![r].pc = "open", ![r].level = "target"]
    /\ window' = [window EXCEPT ![r] = [held |-> TRUE, timer |-> "off", expired |-> FALSE]]
    /\ UNCHANGED <<conf, backup, takeover, thawFailed, up, count>>

\* quiesce and guardFreeze: the guest is frozen and the watchdog armed.
FreezeFilesystems(r) ==
    /\ ServiceFreezes(r)
    /\ guest.power /\ ~guest.frozen /\ ~guest.busy
    /\ guest' = [guest EXCEPT !.frozen = TRUE]
    /\ run' = [run EXCEPT ![r].pc = "open", ![r].level = "target"]
    /\ window' = [window EXCEPT ![r] = [held |-> TRUE, timer |-> "armed", expired |-> FALSE]]
    /\ UNCHANGED <<conf, backup, takeover, thawFailed, up, count>>

\* The agent refuses: a hook failed, or the guest is frozen already, or off.
FreezeRefused(r) ==
    /\ ServiceFreezes(r)
    /\ IF guest.frozen \/ ~guest.power THEN UNCHANGED count ELSE Spend("fault")
    /\ run' = [run EXCEPT ![r].pc = "unfreeze", ![r].pending = FALSE]
    /\ UNCHANGED <<conf, window, backup, guest, takeover, thawFailed, up>>

\* The call is given up while the agent is still at it (FreezeMayBePending).
FreezeTimesOut(r) ==
    /\ ServiceFreezes(r) /\ guest.power /\ ~guest.frozen
    /\ Spend("fault")
    /\ guest' = [guest EXCEPT !.busy = TRUE]
    /\ run' = [run EXCEPT ![r].pc = "unfreeze", ![r].pending = TRUE]
    /\ UNCHANGED <<conf, window, backup, takeover, thawFailed, up>>

\* Mutation: a strict job is not ended.
UnfrozenAnyway(r) ==
    IF conf.req[r].freezeBy = "mixed"
    THEN run' = [run EXCEPT ![r].pc = "open", ![r].ask = TRUE, ![r].level = "target"]
    ELSE run' = [run EXCEPT ![r].pc = "open", ![r].level = "crash"]

\* What follows a failed freeze: the engine's turn, the end of a strict run, or a copy
\* without a freeze.
Unfrozen(r) ==
    IF conf.req[r].freezeBy = "mixed"
    THEN run' = [run EXCEPT ![r].pc = "open", ![r].ask = TRUE, ![r].level = "target"]
    ELSE IF conf.req[r].strict THEN run' = [run EXCEPT ![r].pc = "finalize", ![r].then = "fail", ![r].level = "crash"]
    ELSE run' = [run EXCEPT ![r].pc = "open", ![r].level = "crash"]

\* ThawAfterFailedFreeze: a thaw gets through once the agent is free.
ThawAfterFailedFreeze(r) ==
    /\ At(r, "unfreeze") /\ ~guest.busy
    /\ guest' = [guest EXCEPT !.frozen = FALSE]
    /\ Unfrozen(r)
    /\ UNCHANGED <<conf, window, backup, takeover, thawFailed, up, count>>

\* One attempt fails and there is no second, or the three minutes are over.
ThawGivenUp(r) ==
    /\ At(r, "unfreeze")
    /\ IF guest.busy /\ ~run[r].pending THEN UNCHANGED count ELSE Spend("fault")
    /\ thawFailed' = TRUE
    /\ Unfrozen(r)
    /\ UNCHANGED <<conf, window, backup, guest, takeover, up>>

\* The watchdog of NewFreezeWindow: the timer runs out, and its function gets the lock.
TimerFires(r) ==
    /\ window[r].timer = "armed"
    /\ window' = [window EXCEPT ![r].timer = "firing"]
    /\ UNCHANGED <<conf, run, backup, guest, takeover, thawFailed, up, count>>

\* The thaw function of guardFreeze under the lock of the window.  The agent takes its
\* commands in turn: a thaw waits for a freeze it is still at, or fails.
ThawGuest(r, win) ==
    \/ /\ ~window[r].held
       /\ window' = [window EXCEPT ![r] = win] /\ UNCHANGED <<guest, thawFailed, count>>
    \/ /\ window[r].held /\ ~guest.busy
       /\ window' = [window EXCEPT ![r] = [win EXCEPT !.held = FALSE]]
       /\ guest' = [guest EXCEPT !.frozen = FALSE] /\ UNCHANGED <<thawFailed, count>>
    \/ /\ window[r].held /\ Spend("fault")
       /\ window' = [window EXCEPT ![r] = win] /\ thawFailed' = TRUE /\ UNCHANGED guest

WatchdogThaws(r) ==
    /\ window[r].timer = "firing"
    /\ ThawGuest(r, [window[r] EXCEPT !.timer = "off", !.expired = TRUE])
    /\ UNCHANGED <<conf, run, backup, takeover, up>>

\* FreezeWindow.Thaw: an error of it ends the run, and the deferred call tries once more.
Thaw(r) ==
    /\ At(r, "thaw")
    /\ ThawGuest(r, [window[r] EXCEPT !.timer = IF @ = "armed" THEN "off" ELSE @])
    /\ run' = IF run[r].then = "settle" /\ window'[r].held
              THEN [run EXCEPT ![r].then = "fail"]
              ELSE [run EXCEPT ![r].pc = CASE run[r].then = "fail" -> "finalize"
                                           [] OTHER -> run[r].then]
    /\ UNCHANGED <<conf, backup, takeover, up>>
-----------------------------------------------------------------------------
(* The backup on the engine. *)

Opened(r) == [phase |-> "initializing", owner |-> r, ask |-> run[r].ask, point |-> "none"]

NewBackup(b) == backup[b].phase = "none" /\ \A c \in Backups : c < b => backup[c].phase # "none"

\* startEngineBackup.  The identifier is saved with the whole row, its status included.
StartBackup(r) ==
    /\ At(r, "open") /\ Open = {}
    /\ \E b \in Backups :
          /\ NewBackup(b)
          /\ backup' = [backup EXCEPT ![b] = Opened(r)]
          /\ \/ /\ run' = [run EXCEPT ![r].pc = "wait", ![r].backup = b, ![r].status = "running"]
                /\ UNCHANGED count
             \/ /\ run' = [run EXCEPT ![r].pc = "thaw", ![r].then = "fail", ![r].backup = b, ![r].status = "running"]
                /\ Spend("fault")       \* the answer does not decode
             \/ /\ run' = [run EXCEPT ![r].pc = "thaw", ![r].then = "fail", ![r].backup = None]
                /\ Spend("fault")       \* the answer is lost
    /\ UNCHANGED <<conf, window, guest, takeover, thawFailed, up>>

\* Mutation: no deferred Thaw on this way out.
StartRefusedFrozen(r) ==
    /\ At(r, "open")
    /\ run' = [run EXCEPT ![r].pc = "finalize", ![r].then = "fail", ![r].backup = None]
    /\ IF Open # {} THEN UNCHANGED count ELSE Spend("fault")
    /\ UNCHANGED <<conf, window, backup, guest, takeover, thawFailed, up>>

\* The disks are held by another backup (409), or the engine refuses; a refusal of a mixed
\* backup is answered by a full one, from the freeze on (downgradeToFull).
StartRefused(r) ==
    /\ At(r, "open")
    /\ \/ /\ run' = [run EXCEPT ![r].pc = "thaw", ![r].then = "fail", ![r].backup = None]
          /\ IF Open # {} THEN UNCHANGED count ELSE Spend("fault")
       \/ /\ ~run[r].full /\ Open = {} /\ Spend("fault")
          /\ run' = [run EXCEPT ![r].pc = "thaw", ![r].then = "quiesce", ![r].full = TRUE,
                                ![r].ask = FALSE, ![r].backup = None, ![r].status = "running"]
    /\ UNCHANGED <<conf, window, backup, guest, takeover, thawFailed, up>>

\* WaitBackupReady; the row is saved with the checkpoint.
BackupReady(r) ==
    /\ At(r, "wait") /\ backup[run[r].backup].phase = "ready"
    /\ run' = [run EXCEPT ![r].pc = "thaw", ![r].then = "settle", ![r].status = "running"]
    /\ UNCHANGED <<conf, window, backup, guest, takeover, thawFailed, up, count>>

\* The engine failed the backup: most likely it could not freeze the guest, and a job that
\* is not strict tries again without.
BackupFailed(r) ==
    /\ At(r, "wait") /\ backup[run[r].backup].phase = "failed"
    /\ IF run[r].ask /\ ~conf.req[r].strict
       THEN run' = [run EXCEPT ![r].pc = "finalize", ![r].then = "plain", ![r].level = "crash"]
       ELSE run' = [run EXCEPT ![r].pc = "thaw", ![r].then = "fail",
                               ![r].level = IF run[r].ask THEN "crash" ELSE @]
    /\ UNCHANGED <<conf, window, backup, guest, takeover, thawFailed, up, count>>

\* The backup was closed by others; a time limit, a cancelled run, an unreadable answer.
\* Every way out of openBackup... passes the deferred Thaw of the window.
WaitFails(r) ==
    /\ At(r, "wait")
    /\ IF backup[run[r].backup].phase = "closed" THEN UNCHANGED count ELSE Spend("fault")
    /\ run' = [run EXCEPT ![r].pc = "thaw", ![r].then = "fail"]
    /\ UNCHANGED <<conf, window, backup, guest, takeover, thawFailed, up>>

\* Mutation: nobody asks whether the watchdog was first.
SettleUnasked(r) ==
    /\ At(r, "settle")
    /\ Move(r, "copy")
    /\ UNCHANGED <<conf, window, backup, guest, takeover, thawFailed, up, count>>

\* settleFreeze, or the end of openBackupMixedFreeze: the watchdog was first.
Settle(r) ==
    /\ At(r, "settle")
    /\ IF ~window[r].expired THEN Move(r, "copy") /\ UNCHANGED <<window, takeover>>
       ELSE IF conf.req[r].freezeBy = "mixed"
       THEN Finalizing(r, "engine") /\ takeover' = TRUE /\ window' = [window EXCEPT ![r] = NoWindow]
       ELSE /\ run' = [run EXCEPT ![r].level = "crash", ![r].pc = IF conf.req[r].strict THEN "finalize" ELSE "copy",
                                  ![r].then = "fail"]
            /\ UNCHANGED <<window, takeover>>
    /\ UNCHANGED <<conf, backup, guest, thawFailed, up, count>>

\* copyDisks reads the point of the backup, as long as it is open.
CopyDisks(r) ==
    /\ At(r, "copy")
    /\ \/ backup[run[r].backup].phase = "ready" /\ Finalizing(r, "finish") /\ UNCHANGED count
       \/ backup[run[r].backup].phase # "ready" /\ Finalizing(r, "fail") /\ UNCHANGED count
       \/ Finalizing(r, "fail") /\ Spend("fault")
    /\ UNCHANGED <<conf, window, backup, guest, takeover, thawFailed, up>>

\* finalizeEngineBackup: an error of it is only logged.
FinalizeEngineBackup(r) ==
    LET b == run[r].backup
    IN  /\ At(r, "finalize")
        /\ \/ /\ b \in Open
              /\ backup' = [backup EXCEPT ![b].phase = "finalizing"]
              /\ UNCHANGED count
           \/ b \notin Open /\ UNCHANGED <<backup, count>>
           \/ b \in Open /\ Spend("fault") /\ UNCHANGED backup
        /\ Move(r, "finalizing")
        /\ UNCHANGED <<conf, window, guest, takeover, thawFailed, up>>

\* The engine has let the disks go, or takes longer than usual: the run goes on.
Finalized(r) ==
    /\ At(r, "finalizing")
    /\ IF run[r].backup \in Open /\ backup[run[r].backup].phase = "finalizing" THEN Spend("fault") ELSE UNCHANGED count
    /\ run' = CASE run[r].then = "engine" -> [run EXCEPT ![r].pc = "open", ![r].ask = TRUE, ![r].level = "target"]
                [] run[r].then = "plain" -> [run EXCEPT ![r].pc = "open", ![r].ask = FALSE]
                [] OTHER -> [run EXCEPT ![r].pc = run[r].then]
    /\ UNCHANGED <<conf, window, backup, guest, takeover, thawFailed, up>>

\* writeRunManifest and the row; failRun.
FinishRun(r) ==
    /\ At(r, "finish")
    /\ \/ run' = [run EXCEPT ![r].pc = "ended", ![r].status = "succeeded"] /\ UNCHANGED count
       \/ Move(r, "fail") /\ Spend("fault")
       \/ Move(r, "ended") /\ Spend("fault")
    /\ UNCHANGED <<conf, window, backup, guest, takeover, thawFailed, up>>

FailRun(r) ==
    /\ At(r, "fail")
    /\ \/ run' = [run EXCEPT ![r].pc = "ended", ![r].status = "failed"] /\ UNCHANGED count
       \/ Move(r, "ended") /\ Spend("fault")
    /\ UNCHANGED <<conf, window, backup, guest, takeover, thawFailed, up>>
-----------------------------------------------------------------------------
(* The engine, the guest, the process. *)

\* The engine fixes the point.  With require_consistency it freezes the guest itself.
EngineFixes(b) ==
    /\ backup[b].phase = "initializing"
    /\ IF backup[b].ask /\ guest.power
       THEN /\ ~guest.frozen /\ ~guest.busy
            /\ backup' = [backup EXCEPT ![b].phase = "ready", ![b].point = "frozen"]
       ELSE backup' = [backup EXCEPT ![b].phase = "ready",
                                     ![b].point = IF ~guest.power THEN "off"
                                                  ELSE IF guest.frozen THEN "frozen" ELSE "crash"]
    /\ UNCHANGED <<conf, run, window, guest, takeover, thawFailed, up, count>>

EngineFails(b) ==
    /\ backup[b].phase = "initializing"
    /\ IF backup[b].ask /\ (guest.frozen \/ guest.busy) THEN UNCHANGED count ELSE Spend("fault")
    /\ backup' = [backup EXCEPT ![b].phase = "failed"]
    /\ UNCHANGED <<conf, run, window, guest, takeover, thawFailed, up>>

EngineCloses(b) ==
    /\ backup[b].phase = "finalizing"
    /\ backup' = [backup EXCEPT ![b].phase = "closed"]
    /\ UNCHANGED <<conf, run, window, guest, takeover, thawFailed, up, count>>

\* Another backup system has the VM for a while.
ForeignOpens(b) ==
    /\ NewBackup(b) /\ Open = {} /\ Spend("foreign")
    /\ backup' = [backup EXCEPT ![b].phase = "ready"]
    /\ UNCHANGED <<conf, run, window, guest, takeover, thawFailed, up>>

ForeignCloses(b) ==
    /\ backup[b].phase = "ready" /\ backup[b].owner = Foreign
    /\ backup' = [backup EXCEPT ![b].phase = "closed"]
    /\ UNCHANGED <<conf, run, window, guest, takeover, thawFailed, up, count>>

\* The agent ends the freeze nobody waits for any more.
AgentFreezes ==
    /\ guest.busy
    /\ guest' = [guest EXCEPT !.busy = FALSE, !.frozen = TRUE]
    /\ UNCHANGED <<conf, run, window, backup, takeover, thawFailed, up, count>>

PowerOn ==
    /\ ~guest.power /\ Spend("power")
    /\ guest' = [guest EXCEPT !.power = TRUE]
    /\ UNCHANGED <<conf, run, window, backup, takeover, thawFailed, up>>

Crash ==
    /\ up /\ Spend("crash")
    /\ up' = FALSE
    /\ run' = [r \in Runs |-> IF At(r, "none") \/ Over(r) THEN run[r] ELSE [run[r] EXCEPT !.pc = "dead"]]
    /\ window' = [r \in Runs |-> NoWindow]
    /\ UNCHANGED <<conf, backup, guest, takeover, thawFailed>>

\* ReconcileStaleRuns: every run whose row is not final is taken for one of a dead process.
\* Its backup is closed, unless that fails or the process died before the identifier was
\* saved, and the row fails.
ReconcileStaleRuns ==
    /\ \E closed \in SUBSET {b \in Open : LiveOwner(b) /\ run[backup[b].owner].backup = b} :
          backup' = [b \in Backups |-> IF b \in closed THEN [backup[b] EXCEPT !.phase = "finalizing"] ELSE backup[b]]
    /\ run' = [r \in Runs |-> IF run[r].status = "running" THEN [run[r] EXCEPT !.status = "failed"] ELSE run[r]]

Restart ==
    /\ ~up
    /\ up' = TRUE
    /\ ReconcileStaleRuns
    /\ UNCHANGED <<conf, window, guest, takeover, thawFailed, count>>

\* Another instance on the same database starts beside this one.
PeerStarts ==
    /\ up /\ Spend("peer")
    /\ ReconcileStaleRuns
    /\ UNCHANGED <<conf, window, guest, takeover, thawFailed, up>>

Quiescing(r) == NoFreeze(r) \/ SpaceRefused(r) \/ EngineFreeze(r) \/ FreezeFilesystems(r) \/ FreezeRefused(r) \/ FreezeTimesOut(r)

Releasing(r) == ThawAfterFailedFreeze(r) \/ ThawGivenUp(r)

Next ==
    \/ \E r \in Runs :
          \/ Execute(r) \/ ReleaseEngineLeftovers(r) \/ CloseLeftover(r) \/ LeftoverClosed(r)
          \/ Quiescing(r) \/ Releasing(r) \/ TimerFires(r) \/ WatchdogThaws(r) \/ Thaw(r)
          \/ StartBackup(r) \/ StartRefused(r) \/ BackupReady(r) \/ BackupFailed(r) \/ WaitFails(r)
          \/ Settle(r) \/ CopyDisks(r) \/ FinalizeEngineBackup(r) \/ Finalized(r)
          \/ FinishRun(r) \/ FailRun(r)
    \/ \E b \in Backups : EngineFixes(b) \/ EngineFails(b) \/ EngineCloses(b) \/ ForeignOpens(b) \/ ForeignCloses(b)
    \/ AgentFreezes \/ PowerOn \/ Crash \/ Restart \/ PeerStarts

Spec == Init /\ [][Next]_vars

\* The timer of the watchdog and the loop of ThawAfterFailedFreeze go on, and so does the
\* agent.  Nothing is asked of the engine or of the rest of the run.
Fairness ==
    /\ \A r \in Runs : WF_vars(TimerFires(r)) /\ WF_vars(WatchdogThaws(r)) /\ WF_vars(Releasing(r))
    /\ WF_vars(AgentFreezes)

FairSpec == Spec /\ Fairness
-----------------------------------------------------------------------------
Point(r) == backup[run[r].backup].point

Succeeded(r) == run[r].status = "succeeded"

\* The level a run records is one its point has (runner.go:1211): when the runs of the VM do
\* not overlap, the VM was not started behind its back and no thaw has failed, a copy that
\* claims the level of its job was fixed while the guest was frozen, or off.  After a failed
\* thaw the watchdog of an earlier run may still be at work, and thaw the guest of the next.
LevelHonest ==
    \A r \in Runs :
        (Succeeded(r) /\ conf.req[r].freeze /\ run[r].level = "target" /\ ~conf.overlap
            /\ count["power"] = 0 /\ ~thawFailed)
            => Point(r) \in {"frozen", "off"}

\* RequireConsistency: a strict job has no copy of a lower level.
StrictKept ==
    \A r \in Runs : Succeeded(r) /\ conf.req[r].freeze /\ conf.req[r].strict => run[r].level = "target"

\* A copy is read from a backup that is still open: no other run closes the backup of a run
\* that goes on (ownerOf, engine_leftovers.go:39).  An instance that starts does
\* (ReconcileStaleRuns).
CopiedIsOpen == count["peer"] = 0 => \A r \in Runs : At(r, "copy") => backup[run[r].backup].phase = "ready"

\* The service closes its own backups and no other.
ForeignStays ==
    [][\A b \in Backups : backup[b].phase # "none" /\ backup[b].owner = Foreign => backup'[b].phase # "finalizing"]_vars

\* A guest left frozen when the runs are over has been reported (RunEventThawFailed), unless
\* the process died.
FrozenIsReported ==
    (\A r \in Runs : At(r, "none") \/ Over(r)) /\ (guest.frozen \/ guest.busy) /\ count["crash"] = 0 => thawFailed

\* However long the engine takes, a frozen guest runs again, unless a thaw failed or the
\* process died (NewFreezeWindow, freeze_window.go:67).
FreezeEnds == guest.frozen ~> (~guest.frozen \/ thawFailed \/ count["crash"] > 0)
=============================================================================
