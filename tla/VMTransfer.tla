----------------------------- MODULE VMTransfer -----------------------------
(***************************************************************************)
(* The transfer of a virtual machine to another engine:                    *)
(* internal/vmtransfer/{service,execute,recovery}.go over the row of       *)
(* internal/store/vm_transfers.go and its session lock.                    *)
(*                                                                         *)
(* One transfer, seen by every process of the service.  A worker has its   *)
(* own copy of the row (wrk[i].t) and every write of the row checks the    *)
(* revision: synced says that the copy is the row as it is now.  The       *)
(* engines are modelled by what the service reads and asks of them: the    *)
(* power of both machines and the image on the disks of the target.        *)
(***************************************************************************)
EXTENDS Naturals

CONSTANTS
    Instances,  \* processes of the service on one database
    Settings,   \* the modes, policies and fault bounds to look at
    None

\* The process that owns a lock is one of Instances; a transfer is cold or warm.
ASSUME SettingsAssumption ==
    /\ None \notin Instances
    /\ \A c \in Settings : c.mode \in {"cold", "warm"} /\ c.was \in BOOLEAN /\ c.procs \subseteq Instances

VARIABLES
    conf,   \* one of Settings
    row,    \* the transfer in vm_transfers
    pause,  \* cancel_requested of the row
    lock,   \* the process whose session holds the lock of the transfer
    wrk,    \* the goroutine of startLocked in each process
    proc,   \* each process: up, closing, down
    tick,   \* Run has listed the transfer as a ready warm one
    power,  \* both machines
    image,  \* the disks of the target
    count   \* how often each bounded event has happened

vars == <<conf, row, pause, lock, wrk, proc, tick, power, image, count>>
engines == <<power, image>>
On(m) == power[m] \in {"up", "stopping"}

Counters == {"fault", "crash", "lost", "taken", "hand", "op"}
Once(kind) == count[kind] < conf.max[kind] /\ count' = [count EXCEPT ![kind] = @ + 1]

Undoing == {"cancel", "rollback", "rollback_keep", "hold"}
Actions == Undoing \cup
    {"prepare", "sync", "cutover", "start_target", "recover_target", "retry_prepare"}
Status == {"queued", "running", "ready", "recovering", "interrupted", "failed", "blocked", "held",
           "awaiting_confirmation", "completed", "canceled", "rolled_back", "rolled_back_retained",
           "forgotten"}
Phases == {"other", "starting", "final"}   \* what resumeAction tells apart

\* Create, with the WasRunning of the inventory.
NewRow(was) ==
    [status |-> "queued", phase |-> "other", pending |-> "prepare", active |-> "prepare",
     id |-> FALSE, restore |-> FALSE, applied |-> FALSE, stopped |-> FALSE, requested |-> FALSE,
     started |-> FALSE, was |-> was, manual |-> FALSE, next |-> "none", tries |-> 0, rollbacks |-> 0]

Idle == [pc |-> "none", action |-> "none", img |-> "none", synced |-> FALSE, t |-> NewRow(FALSE)]

\* The worker of process i waits for its turn with action a.
Waiting(a, t) == [Idle EXCEPT !.pc = "wait", !.action = a, !.synced = TRUE, !.t = t]

Init ==
    /\ conf \in Settings
    /\ row = NewRow(conf.was) /\ pause = FALSE /\ lock = None
    /\ proc = [i \in Instances |-> IF i \in conf.procs THEN "up" ELSE "off"]
    /\ tick = [i \in Instances |-> FALSE]
    /\ \E i \in conf.procs : wrk = [j \in Instances |-> IF j = i THEN Waiting("prepare", row) ELSE Idle]
    /\ power = [source |-> IF conf.was THEN "up" ELSE "down", target |-> "none"]
    /\ image = [disks |-> "none", ran |-> FALSE, mixed |-> FALSE, forked |-> FALSE]
    /\ count = [k \in Counters |-> 0]

-----------------------------------------------------------------------------
(* The row. *)

\* A write of the row by process i, whose worker becomes w; every other copy is out of date.
Write(i, t, w) ==
    /\ row' = t
    /\ wrk' = [j \in Instances |-> IF j = i THEN w ELSE [wrk[j] EXCEPT !.synced = FALSE]]

\* The goroutine returns: releaseSlot gives the lock back.
Return(i) ==
    /\ wrk' = [wrk EXCEPT ![i] = Idle] /\ UNCHANGED row
    /\ lock' = IF lock = i THEN None ELSE lock

\* save: UpdateVMTransfer by the worker, which goes on at pc; when the revision is
\* another one, actionFailed returns without a trace.
Save(i, t, pc) ==
    IF wrk[i].synced
    THEN Write(i, t, [wrk[i] EXCEPT !.t = t, !.pc = pc]) /\ UNCHANGED lock
    ELSE Return(i)

\* The last write of an action, with the end of performAction.
Finish(i, t) ==
    IF wrk[i].synced
    THEN /\ Write(i, [t EXCEPT !.next = "none"], Idle)
         /\ lock' = IF lock = i THEN None ELSE lock
    ELSE Return(i)

\* scheduleRecovery.
ScheduleRecovery(t, action, reason) ==
    LET p == conf.policy
        undo == action \in Undoing
        begun == t.started \/ t.requested
        retry == ~undo /\ reason # "budget" /\ t.tries < p.retries
        blocked == \/ reason = "unsafe"
                   \/ /\ ~retry
                      /\ \/ ~undo /\ ~p.rollback
                         \/ ~undo /\ begun /\ ~p.after
                         \/ t.rollbacks >= p.rollbacks
        again == IF begun THEN "recover_target"
                 ELSE IF action \in {"prepare", "retry_prepare"}
                 THEN IF t.id \/ t.restore THEN "retry_prepare" ELSE "prepare"
                 ELSE IF action \in {"sync", "cutover"} THEN action ELSE "rollback"
    IN  IF blocked THEN [t EXCEPT !.status = "blocked", !.next = "none"]
        ELSE [t EXCEPT !.status = "recovering",
                       !.next = IF retry THEN again
                                ELSE IF action = "cancel" THEN "cancel" ELSE "rollback"]

\* actionFailed.
Failed(t, action, reason) ==
    IF reason \in {"pause", "shutdown"}
    THEN [t EXCEPT !.status = "interrupted", !.manual = (reason = "pause"), !.next = "none"]
    ELSE IF action \in {"hold", "rollback_keep"}
    THEN [t EXCEPT !.status = "interrupted", !.manual = TRUE, !.next = "none"]
    ELSE IF conf.policy.on THEN ScheduleRecovery(t, action, reason)
    ELSE [t EXCEPT !.status = IF reason = "lost" THEN "interrupted" ELSE "failed"]

\* The worker gives up for a reason; when the service ends, that is the reason.
Fail(i, t, reason) ==
    IF wrk[i].synced
    THEN /\ Write(i, Failed(t, wrk[i].action, IF proc[i] = "closing" THEN "shutdown" ELSE reason), Idle)
         /\ lock' = IF lock = i THEN None ELSE lock
    ELSE Return(i)

-----------------------------------------------------------------------------
(* What may break off an action: an error, the watchdog of watchAction, a    *)
(* pause, the end of the service, the loss of the lock.                      *)

\* watchdogReason: the budgets of downtime and of the operation do not bind an undoing.
Budgeted(i) ==
    /\ conf.policy.on /\ wrk[i].action \notin Undoing
    /\ wrk[i].pc \notin {"wait", "find", "halt", "delete", "source", "undone"}

Breaks(i) ==
    \/ Once("fault") /\ Fail(i, wrk[i].t, "error")
    \/ Budgeted(i) /\ Once("fault") /\ Fail(i, wrk[i].t, "budget")
    \/ pause /\ Fail(i, wrk[i].t, "pause") /\ UNCHANGED count
    \/ proc[i] = "closing" /\ Fail(i, wrk[i].t, "shutdown") /\ UNCHANGED count
    \/ wrk[i].pc # "wait" /\ lock # i /\ Fail(i, wrk[i].t, "lost") /\ UNCHANGED count

\* Goes on at pc with the row at t, or the answer of the call is lost.
Goes(i, t, pc) == (Save(i, t, pc) /\ UNCHANGED count) \/ Breaks(i)

\* The call is refused, or what it found is an error of its own.
Refused(i, reason) == Fail(i, wrk[i].t, reason) /\ UNCHANGED <<engines, count>>

At(i, pc) == wrk[i].pc = pc /\ UNCHANGED <<conf, pause, proc, tick>>
Jump(i, pc) == wrk' = [wrk EXCEPT ![i].pc = pc] /\ UNCHANGED <<row, lock, count>>

\* A call that fails without an effect, or the wait for the turn ends.
BrokenOff(i) ==
    /\ wrk[i].pc # "none" /\ Breaks(i)
    /\ UNCHANGED <<conf, pause, proc, tick, power, image>>

\* performAction: where each action begins.
Entry(action) ==
    CASE action = "prepare" -> "plan"
      [] action = "sync" -> "sync"
      [] action = "cutover" -> "stop"
      [] action = "start_target" -> "start"
      [] action = "recover_target" -> "recover"
      [] OTHER -> "undo"

\* acquireSlot: the row as it is now, then the lock, then the claim.
Admit(i) ==
    /\ wrk[i].pc = "wait" /\ wrk[i].synced /\ ~pause /\ proc[i] = "up" /\ lock = None
    /\ LET t == [row EXCEPT !.status = "running", !.pending = "none"]
       IN  Write(i, t, [wrk[i] EXCEPT !.pc = Entry(wrk[i].action), !.t = t])
    /\ lock' = i
    /\ UNCHANGED <<conf, pause, proc, tick, engines, count>>

NotAdmitted(i) ==
    /\ wrk[i].pc = "wait" /\ ~wrk[i].synced /\ Return(i)
    /\ UNCHANGED <<conf, pause, proc, tick, engines, count>>

-----------------------------------------------------------------------------
(* prepare. *)

\* The plan, WasRunning, the shape of the source and the desired state.
Plan(i) ==
    /\ At(i, "plan")
    /\ IF power["source"] = "stopping" \/ power["target"] # "none"
       THEN Refused(i, "error")
       ELSE /\ Save(i, [wrk[i].t EXCEPT !.was = (power["source"] = "up")],
                    IF conf.mode = "cold" THEN "stop" ELSE "full")
            /\ UNCHANGED <<engines, count>>

\* A backup of a machine that stands still has all of it.
Backup == IF power["source"] = "down" THEN "current" ELSE "stale"

\* The full backup, and the id of the restore.
FullBackup(i) ==
    /\ At(i, "full")
    /\ IF wrk[i].synced
       THEN LET t == [wrk[i].t EXCEPT !.phase = "other", !.restore = TRUE]
            IN  Write(i, t, [wrk[i] EXCEPT !.t = t, !.pc = "create", !.img = Backup]) /\ UNCHANGED lock
       ELSE Return(i)
    /\ UNCHANGED <<engines, count>>

\* Mutation: the id of the source is passed to the call.
DeletesSource ==
    /\ power' = [power EXCEPT !["source"] = "none"]
    /\ image' = [image EXCEPT !.disks = "none", !.ran = FALSE]

\* The target and its disks are deleted.
NoTarget ==
    /\ power' = [power EXCEPT !["target"] = "none"]
    /\ image' = [image EXCEPT !.disks = "none", !.ran = FALSE]

\* RestoreVM creates the machine with the mark of the transfer ...
CreateTarget(i) ==
    /\ At(i, "create")
    /\ \/ power["target"] # "none" /\ Refused(i, "error")
       \/ /\ power["target"] = "none"
          /\ power' = [power EXCEPT !["target"] = "down"] /\ UNCHANGED image
          /\ (Jump(i, "created") \/ Breaks(i))

\* ... OnVMCreated saves its id ...
TargetCreated(i) ==
    /\ At(i, "created")
    /\ Save(i, [wrk[i].t EXCEPT !.id = TRUE], "fill")
    /\ UNCHANGED <<engines, count>>

\* ... and its disks are written; after an error RestoreVM deletes the machine, which may fail too.
FillTarget(i) ==
    /\ At(i, "fill")
    /\ IF power["target"] = "none" THEN Refused(i, "error")
       ELSE \/ /\ wrk[i].synced /\ image' = [image EXCEPT !.disks = wrk[i].img] /\ UNCHANGED <<power, count>>
               /\ Save(i, [wrk[i].t EXCEPT !.applied = TRUE], IF conf.mode = "warm" THEN "sync" ELSE "start")
            \/ /\ Breaks(i) \/ (~wrk[i].synced /\ Return(i) /\ UNCHANGED count)
               /\ \/ image' = [image EXCEPT !.disks = "partial"] /\ UNCHANGED power
                  \/ NoTarget

-----------------------------------------------------------------------------
(* stopSource. *)

\* prepare and cutover go on in their own ways.
AfterStop(i) == IF wrk[i].action = "cutover" THEN "sync" ELSE "full"

\* The phase is saved first ...
StopSource(i) ==
    /\ At(i, "stop")
    /\ Save(i, [wrk[i].t EXCEPT !.phase = "other"], "shutdown")
    /\ UNCHANGED <<engines, count>>

\* ... then a source that is up is asked to shut down ...
ShutdownSource(i) ==
    /\ At(i, "shutdown")
    /\ IF power["source"] = "down"
       THEN Save(i, [wrk[i].t EXCEPT !.stopped = TRUE], AfterStop(i)) /\ UNCHANGED <<engines, count>>
       ELSE IF power["source"] = "up" \/ (conf.policy.on /\ conf.policy.force)
       THEN /\ power' = [power EXCEPT !["source"] = "stopping"] /\ UNCHANGED image
            /\ (Jump(i, "stopping") \/ Breaks(i))
       ELSE Refused(i, "error")

\* ... and waited for.
SourceStopped(i) ==
    /\ At(i, "stopping") /\ power["source"] = "down"
    /\ Save(i, [wrk[i].t EXCEPT !.stopped = TRUE], AfterStop(i))
    /\ UNCHANGED <<engines, count>>

\* The wait is over: the policy may allow to cut the power, when the target is off.
SourceDoesNotStop(i) ==
    /\ At(i, "stopping") /\ power["source"] = "up"
    /\ IF ~conf.policy.on \/ ~conf.policy.force THEN Refused(i, "error")
       ELSE IF wrk[i].t.id /\ power["target"] = "none" THEN Refused(i, "error")
       ELSE IF wrk[i].t.id /\ power["target"] # "down" THEN Refused(i, "unsafe")
       ELSE IF ~wrk[i].synced THEN Return(i) /\ UNCHANGED <<engines, count>>
       ELSE /\ power' = [power EXCEPT !["source"] = "down"] /\ UNCHANGED image
            /\ Goes(i, [wrk[i].t EXCEPT !.stopped = TRUE], AfterStop(i))

-----------------------------------------------------------------------------
(* synchronize. *)

\* The target must be off; then the incremental backup.
Synchronize(i) ==
    /\ At(i, "sync")
    /\ IF power["target"] # "down" THEN Refused(i, "error")
       ELSE /\ IF wrk[i].synced
               THEN LET t == [wrk[i].t EXCEPT !.phase = "other"]
                    IN  Write(i, t, [wrk[i] EXCEPT !.t = t, !.pc = "delta", !.img = Backup]) /\ UNCHANGED lock
               ELSE Return(i)
            /\ UNCHANGED <<engines, count>>

\* What a delta leaves on disks: the machine may have written to them itself.
Applied(disks) == [image EXCEPT !.disks = IF image.ran THEN "partial" ELSE disks, !.mixed = @ \/ image.ran]

\* The changed chunks are written disk by disk; the last row of a cutover is another one.
ApplyDelta(i) ==
    /\ At(i, "delta") /\ UNCHANGED power
    /\ \/ power["target"] = "none" /\ Refused(i, "error")
       \/ /\ power["target"] # "none"
          /\ image' = Applied(wrk[i].img)
          /\ IF wrk[i].action = "cutover"
             THEN Goes(i, [wrk[i].t EXCEPT !.phase = "final"], "start")
             ELSE (Finish(i, [wrk[i].t EXCEPT !.status = "ready"]) /\ UNCHANGED count) \/ Breaks(i)
       \/ power["target"] # "none" /\ image' = Applied("partial") /\ Breaks(i)

-----------------------------------------------------------------------------
(* startTarget and recoverTarget. *)

\* The phase is saved first.
StartTarget(i) ==
    /\ At(i, "start")
    /\ Save(i, [wrk[i].t EXCEPT !.phase = "starting"], "check")
    /\ UNCHANGED <<engines, count>>

\* Mutation: the state of the source is not read.
StartUnchecked(i) ==
    /\ At(i, "check")
    /\ IF power["target"] = "none" THEN Refused(i, "error")
       ELSE Save(i, [wrk[i].t EXCEPT !.requested = TRUE], "request") /\ UNCHANGED <<engines, count>>

\* The source must be off; the request is noted before it is made.
CheckSource(i) ==
    /\ At(i, "check")
    /\ IF power["source"] # "down" \/ power["target"] = "none" THEN Refused(i, "error")
       ELSE Save(i, [wrk[i].t EXCEPT !.requested = TRUE], "request") /\ UNCHANGED <<engines, count>>

\* StartVMOnHost.
RequestStart(i) ==
    /\ At(i, "request")
    /\ IF power["target"] # "down" THEN Refused(i, "error")
       ELSE /\ power' = [power EXCEPT !["target"] = "up"]
            /\ image' = [image EXCEPT !.ran = TRUE]
            /\ Goes(i, [wrk[i].t EXCEPT !.started = TRUE], "guest")

\* The machine is up and its guest answers.
AwaitConfirmation(i) ==
    /\ At(i, "guest")
    /\ IF power["target"] # "up" THEN Refused(i, "error")
       ELSE /\ Finish(i, [wrk[i].t EXCEPT !.status = "awaiting_confirmation", !.phase = "starting",
                                          !.started = TRUE])
            /\ UNCHANGED <<engines, count>>

\* recoverTarget: with the source off, a target that is off is started, one that runs is watched.
RecoverTarget(i) ==
    /\ At(i, "recover")
    /\ IF power["source"] # "down" THEN Refused(i, "unsafe")
       ELSE IF power["target"] \in {"none", "stopping"} THEN Refused(i, "error")
       ELSE /\ (IF power["target"] = "down" THEN Jump(i, "start")
                ELSE Save(i, [wrk[i].t EXCEPT !.phase = "other"], "guest") /\ UNCHANGED count)
            /\ UNCHANGED engines

-----------------------------------------------------------------------------
(* rollback, for the actions Undoing and the first half of retry_prepare. *)

\* A target that may have run is not prepared again; every other rollback begins.
Undo(i) ==
    /\ At(i, "undo")
    /\ IF wrk[i].action = "retry_prepare" /\ (wrk[i].t.started \/ wrk[i].t.requested)
       THEN Refused(i, "unsafe")
       ELSE Save(i, [wrk[i].t EXCEPT !.phase = "other"], "find") /\ UNCHANGED <<engines, count>>

\* Mutation: a target whose id was never saved is not looked for.
FindById(i) ==
    /\ At(i, "find")
    /\ IF ~wrk[i].t.id \/ power["target"] = "none" THEN Jump(i, "source") /\ UNCHANGED engines
       ELSE IF power["target"] = "down" THEN Jump(i, "delete") /\ UNCHANGED engines
       ELSE /\ power' = [power EXCEPT !["target"] = "stopping"] /\ UNCHANGED image
            /\ (Jump(i, "halt") \/ Breaks(i))

\* The target by its id, or by the mark of the transfer when the id was never saved.
FindTarget(i) ==
    /\ At(i, "find")
    /\ IF power["target"] = "none" THEN Jump(i, "source") /\ UNCHANGED engines
       ELSE IF power["target"] = "down" THEN Jump(i, "delete") /\ UNCHANGED engines
       ELSE /\ power' = [power EXCEPT !["target"] = "stopping"] /\ UNCHANGED image
            /\ (Jump(i, "halt") \/ Breaks(i))

\* WaitVMStatus sees it down, or gone by another hand.
TargetHalted(i) ==
    /\ At(i, "halt") /\ power["target"] \in {"down", "none"}
    /\ IF power["target"] = "none" THEN Refused(i, "error") ELSE Jump(i, "delete") /\ UNCHANGED engines

\* The wait is over: the policy may allow to cut the power.
TargetDoesNotHalt(i) ==
    /\ At(i, "halt") /\ power["target"] = "up"
    /\ IF ~conf.policy.on \/ ~conf.policy.force THEN Refused(i, "error")
       ELSE IF ~wrk[i].synced THEN Return(i) /\ UNCHANGED <<engines, count>>
       ELSE /\ power' = [power EXCEPT !["target"] = "down"] /\ UNCHANGED image
            /\ Goes(i, wrk[i].t, "delete")

\* DeleteVM with WaitTransferVMDeleted, unless the copy is to be kept.
DeleteTarget(i) ==
    /\ At(i, "delete")
    /\ IF wrk[i].action \in {"hold", "rollback_keep"} THEN Jump(i, "source") /\ UNCHANGED engines
       ELSE IF power["target"] # "down" THEN Refused(i, "error")
       ELSE NoTarget /\ (Jump(i, "source") \/ Breaks(i))

\* The disks of the target are behind as soon as the source runs again; two machines go
\* their own ways when a target that is kept has run, or may have.
Behind(t) ==
    [image EXCEPT !.disks = IF @ = "current" THEN "stale" ELSE @,
                  !.forked = @ \/ (power["target"] # "none" /\ (image.ran \/ t.requested))]

\* The source: off for a hold, otherwise on if it was.
RestoreSource(i) ==
    /\ At(i, "source")
    /\ IF wrk[i].action = "hold"
       THEN IF power["source"] = "down" THEN Jump(i, "held") /\ UNCHANGED engines
            ELSE /\ power' = [power EXCEPT !["source"] = "stopping"] /\ UNCHANGED image
                 /\ (Jump(i, "held") \/ Breaks(i))
       ELSE IF wrk[i].t.was /\ power["source"] = "down"
       THEN /\ power' = [power EXCEPT !["source"] = "up"] /\ image' = Behind(wrk[i].t)
            /\ (Jump(i, "undone") \/ Breaks(i))
       ELSE Jump(i, "undone") /\ UNCHANGED engines

\* The source of a hold is waited for.
Held(i) ==
    /\ At(i, "held")
    /\ \/ /\ power["source"] = "down"
          /\ Finish(i, [wrk[i].t EXCEPT !.status = "held", !.phase = "other", !.stopped = TRUE,
                                        !.manual = TRUE])
          /\ UNCHANGED <<engines, count>>
       \/ power["source"] = "up" /\ Refused(i, "error")

\* SetVMDesiredState and the last row; retry_prepare forgets the target and prepares again.
Undone(i) ==
    /\ At(i, "undone")
    /\ LET t == [wrk[i].t EXCEPT !.stopped = ~wrk[i].t.was, !.started = FALSE, !.requested = FALSE,
                                 !.phase = "other"]
       IN  CASE wrk[i].action = "retry_prepare" ->
                  Save(i, [t EXCEPT !.id = FALSE, !.restore = FALSE, !.applied = FALSE,
                                       !.stopped = FALSE], "plan")
             [] wrk[i].action = "rollback_keep" ->
                  Finish(i, [t EXCEPT !.status = "rolled_back_retained"])
             [] OTHER ->
                  Finish(i, [t EXCEPT !.status = IF wrk[i].action = "cancel" THEN "canceled" ELSE "rolled_back"])
    /\ UNCHANGED <<engines, count>>

-----------------------------------------------------------------------------
(* Action and the loops of Run. *)

\* startLocked: the lock is tried, the row is claimed, the goroutine starts.
StartLocked(i, t, action) ==
    /\ proc[i] = "up" /\ lock = None /\ wrk[i].pc = "none"
    /\ LET t2 == [t EXCEPT !.status = "queued", !.phase = "other", !.pending = action, !.active = action]
       IN  Write(i, t2, Waiting(action, t2))
    /\ pause' = FALSE
    /\ UNCHANGED <<conf, lock, proc, engines>>

\* resumeAction.
ResumeAction(t) ==
    IF t.pending # "none" THEN t.pending
    ELSE IF t.active \in {"rollback", "cancel", "rollback_keep"} THEN t.active
    ELSE IF t.started \/ t.requested \/ t.phase = "starting" THEN "recover_target"
    ELSE IF t.phase = "final" THEN "start_target"
    ELSE IF conf.mode = "warm" /\ t.id /\ t.applied
    THEN IF t.active = "cutover" \/ t.stopped THEN "cutover" ELSE "sync"
    ELSE "retry_prepare"

\* The action of "recover".
RecoverAction(t) ==
    IF t.started \/ t.requested THEN "recover_target"
    ELSE IF t.active \in {"none", "prepare", "retry_prepare"} THEN "retry_prepare" ELSE t.active

\* Mutation: a request to start whose answer was never seen counts for nothing.
MayUpdateUnlessStarted(t) ==
    /\ conf.mode = "warm" /\ t.id /\ t.applied /\ ~t.started
    /\ t.status \in {"ready", "interrupted", "failed"}

\* What "sync" and "cutover" ask for.
MayUpdate(t) ==
    /\ conf.mode = "warm" /\ t.id /\ t.applied /\ ~t.started /\ ~t.requested
    /\ t.status \in {"ready", "interrupted", "failed"}

\* The action a call asks for becomes the one that is started.
Chosen(call) ==
    CASE call = "resume" -> IF row.status \in {"interrupted", "failed", "blocked", "held"}
                            THEN {ResumeAction(row)} ELSE {}
      [] call = "recover" -> IF conf.policy.on /\ row.status \in {"blocked", "failed", "interrupted"}
                             THEN {RecoverAction(row)} ELSE {}
      [] call \in {"sync", "cutover"} -> IF MayUpdate(row) THEN {call} ELSE {}
      [] OTHER -> IF row.status \notin {"canceled", "rolled_back", "forgotten"} THEN {call} ELSE {}

Calls == {"resume", "recover", "sync", "cutover"} \cup Undoing

\* Action, for the calls that start a worker: the counts begin anew.
Act(i, call) ==
    \E action \in Chosen(call) :
        StartLocked(i, [row EXCEPT !.manual = FALSE, !.tries = 0, !.rollbacks = 0, !.next = "none"], action)

\* A call of an operator that starts a worker.
Operate(i, call) ==
    /\ call \in conf.calls /\ Once("op") /\ Act(i, call) /\ UNCHANGED tick

\* Action "pause": the worker of any process is asked to stop, a waiting transfer is
\* taken out, a ready one is no longer kept up to date.
Pause(i) ==
    /\ "pause" \in conf.calls /\ proc[i] = "up" /\ Once("op")
    /\ wrk[i].pc # "none" \/ row.status \in {"running", "queued", "recovering", "ready"}
    /\ IF wrk[i].pc # "none" \/ row.status = "running"
       THEN pause' = TRUE /\ UNCHANGED <<row, wrk>>
       ELSE /\ pause' = (pause \/ row.status # "ready")
            /\ Write(i, [row EXCEPT !.status = "interrupted", !.manual = TRUE,
                                    !.next = IF row.status = "ready" THEN @ ELSE "none"], wrk[i])
    /\ UNCHANGED <<conf, lock, proc, tick, engines>>

\* Action "complete": the states are read, then the row is claimed.
Complete(i) ==
    /\ "complete" \in conf.calls /\ proc[i] = "up" /\ wrk[i].pc = "none" /\ Once("op")
    /\ row.status = "awaiting_confirmation" /\ power["source"] = "down" /\ power["target"] = "up"
    /\ Write(i, [row EXCEPT !.status = "completed", !.phase = "other"], wrk[i])
    /\ pause' = FALSE
    /\ UNCHANGED <<conf, lock, proc, tick, engines>>

\* Action "forget".
Forget(i) ==
    /\ "forget" \in conf.calls /\ proc[i] = "up" /\ wrk[i].pc = "none" /\ Once("op")
    /\ row.status \in {"canceled", "rolled_back"}
    /\ Write(i, [row EXCEPT !.status = "forgotten"], wrk[i])
    /\ UNCHANGED <<conf, pause, lock, proc, tick, engines>>

\* Run lists the transfers and keeps a ready warm one up to date ...
Tick(i) ==
    /\ proc[i] = "up" /\ ~tick[i] /\ row.status = "ready" /\ conf.mode = "warm"
    /\ tick' = [tick EXCEPT ![i] = TRUE]
    /\ UNCHANGED <<conf, row, pause, lock, wrk, proc, engines, count>>

\* ... by the same call as an operator: what Action refuses is dropped.
TickSync(i) ==
    /\ tick[i] /\ tick' = [tick EXCEPT ![i] = FALSE]
    /\ IF proc[i] = "up" /\ wrk[i].pc = "none" /\ lock = None /\ MayUpdate(row)
       THEN Act(i, "sync")
       ELSE UNCHANGED <<conf, row, pause, lock, wrk, proc, engines>>
    /\ UNCHANGED count

-----------------------------------------------------------------------------
(* ReconcileRecovery. *)

\* Mutation: a pause of the operator is not looked at.
AutomaticDespitePause(i) ==
    /\ conf.policy.on
    /\ proc[i] = "up" /\ wrk[i].pc = "none" /\ lock = None

\* Mutation: the lock is not tried.
AutomaticUnlocked(i) ==
    /\ conf.policy.on /\ ~row.manual /\ ~pause
    /\ proc[i] = "up" /\ wrk[i].pc = "none"

\* What ReconcileRecovery looks at: no pause, no worker of its own, nobody holds the lock.
Automatic(i) ==
    /\ conf.policy.on /\ ~row.manual /\ ~pause
    /\ proc[i] = "up" /\ wrk[i].pc = "none" /\ lock = None

\* A transfer nobody holds the lock of, found in the middle of an action; it may be one
\* that waits for its turn in another process.
Reschedule(i) ==
    /\ Automatic(i) /\ conf.policy.resume /\ row.status \in {"interrupted", "running", "queued"}
    /\ Write(i, IF row.pending # "none" /\ ~row.id /\ row.active = "prepare"
                THEN [row EXCEPT !.status = "recovering", !.next = row.pending]
                ELSE ScheduleRecovery(row, row.active, "error"), Idle)
    /\ IF \E j \in Instances : wrk[j].pc = "wait" /\ wrk[j].synced THEN Once("taken") ELSE UNCHANGED count
    /\ UNCHANGED <<conf, pause, lock, proc, tick, engines>>

\* Mutation: an attempt is not counted.
AttemptUncounted(i) ==
    /\ Automatic(i) /\ row.status = "recovering"
    /\ StartLocked(i, row, row.next)
    /\ UNCHANGED <<tick, count>>

\* Its time has come.
Attempt(i) ==
    /\ Automatic(i) /\ row.status = "recovering"
    /\ StartLocked(i, IF row.next \in {"rollback", "cancel"} THEN [row EXCEPT !.rollbacks = @ + 1]
                      ELSE [row EXCEPT !.tries = @ + 1], row.next)
    /\ UNCHANGED <<tick, count>>

-----------------------------------------------------------------------------
(* Processes, sessions and machines. *)

\* The context of the service ends.
Close(i) ==
    /\ proc[i] = "up" /\ Once("crash")
    /\ proc' = [proc EXCEPT ![i] = "closing"] /\ tick' = [tick EXCEPT ![i] = FALSE]
    /\ UNCHANGED <<conf, row, pause, lock, wrk, engines>>

\* The process exits once its worker has returned.
Closed(i) ==
    /\ proc[i] = "closing" /\ wrk[i].pc = "none"
    /\ proc' = [proc EXCEPT ![i] = "down"]
    /\ UNCHANGED <<conf, row, pause, lock, wrk, tick, engines, count>>

\* The process is gone at once; the database drops its session.
Crash(i) ==
    /\ proc[i] = "up" /\ Once("crash")
    /\ proc' = [proc EXCEPT ![i] = "down"] /\ tick' = [tick EXCEPT ![i] = FALSE]
    /\ wrk' = [wrk EXCEPT ![i] = Idle]
    /\ lock' = IF lock = i THEN None ELSE lock
    /\ UNCHANGED <<conf, row, pause, engines>>

\* Recover at the start: what nobody holds is marked.
Start(i) ==
    /\ proc[i] = "down" /\ proc' = [proc EXCEPT ![i] = "up"]
    /\ IF row.status \in {"running", "queued"} /\ lock = None
       THEN Write(i, [row EXCEPT !.status = "interrupted"], wrk[i])
       ELSE UNCHANGED <<row, wrk>>
    /\ UNCHANGED <<conf, pause, lock, tick, engines, count>>

\* The database drops the session of a worker.
LoseLock(i) ==
    /\ lock = i /\ Once("lost")
    /\ lock' = None
    /\ UNCHANGED <<conf, row, pause, wrk, proc, tick, engines>>

\* A machine that was asked to shut down does so, ...
GoesDown(m) ==
    /\ power[m] = "stopping" /\ power' = [power EXCEPT ![m] = "down"]
    /\ UNCHANGED <<conf, row, pause, lock, wrk, proc, tick, image, count>>

\* ... or its guest does not; and a target that was started does not stay up.
Misbehaves(m) ==
    /\ Once("fault")
    /\ \/ power[m] = "stopping" /\ power' = [power EXCEPT ![m] = "up"]
       \/ m = "target" /\ power[m] = "up" /\ power' = [power EXCEPT ![m] = "down"]
    /\ UNCHANGED <<conf, row, pause, lock, wrk, proc, tick, image>>

\* Somebody starts the source by hand, before the target was asked to start.
SourceStarted ==
    /\ Once("hand") /\ power["source"] = "down" /\ ~On("target") /\ ~row.requested
    /\ power' = [power EXCEPT !["source"] = "up"] /\ image' = Behind(row)
    /\ wrk' = [i \in Instances |-> [wrk[i] EXCEPT !.img = IF @ = "current" THEN "stale" ELSE @]]
    /\ UNCHANGED <<conf, row, pause, lock, proc, tick>>

-----------------------------------------------------------------------------

Work(i) ==
    \/ Admit(i) \/ NotAdmitted(i) \/ Plan(i) \/ FullBackup(i) \/ CreateTarget(i) \/ TargetCreated(i)
    \/ FillTarget(i) \/ StopSource(i) \/ ShutdownSource(i) \/ SourceStopped(i) \/ SourceDoesNotStop(i) \/ Synchronize(i)
    \/ ApplyDelta(i) \/ StartTarget(i) \/ CheckSource(i) \/ RequestStart(i) \/ AwaitConfirmation(i) \/ RecoverTarget(i)
    \/ Undo(i) \/ FindTarget(i) \/ TargetHalted(i) \/ TargetDoesNotHalt(i) \/ DeleteTarget(i) \/ RestoreSource(i)
    \/ Held(i) \/ Undone(i) \/ BrokenOff(i)

Next ==
    \/ \E i \in Instances :
          \/ Work(i)
          \/ \E call \in Calls : Operate(i, call)
          \/ Pause(i) \/ Complete(i) \/ Forget(i) \/ Tick(i) \/ TickSync(i)
          \/ Reschedule(i) \/ Attempt(i)
          \/ Close(i) \/ Closed(i) \/ Crash(i) \/ Start(i) \/ LoseLock(i)
    \/ SourceStarted \/ \E m \in {"source", "target"} : GoesDown(m) \/ Misbehaves(m)

Spec == Init /\ [][Next]_vars

\* Workers go on, the loop of Run comes round, processes are started again and a
\* machine that shuts down gets there.
Fairness ==
    /\ \A i \in Instances : /\ WF_vars(Work(i)) /\ WF_vars(Reschedule(i) \/ Attempt(i))
                            /\ WF_vars(Closed(i)) /\ WF_vars(Start(i))
    /\ \A m \in {"source", "target"} : WF_vars(GoesDown(m))

FairSpec == Spec /\ Fairness

-----------------------------------------------------------------------------
(* Properties. *)

TypeOK ==
    /\ conf \in Settings
    /\ row.status \in Status /\ row.phase \in Phases
    /\ row.pending \in Actions \cup {"none"} /\ row.active \in Actions /\ row.next \in Actions \cup {"none"}
    /\ row.tries \in Nat /\ row.rollbacks \in Nat
    /\ \A flag \in {row.id, row.restore, row.applied, row.stopped, row.requested, row.started, row.was,
                    row.manual, pause} : flag \in BOOLEAN
    /\ lock \in Instances \cup {None}
    /\ proc \in [Instances -> {"up", "closing", "down", "off"}] /\ tick \in [Instances -> BOOLEAN]
    /\ power["source"] \in {"up", "stopping", "down"} /\ power["target"] \in {"up", "stopping", "down", "none"}
    /\ image \in [disks : {"none", "partial", "stale", "current"}, ran : BOOLEAN, mixed : BOOLEAN, forked : BOOLEAN]
    /\ count \in [Counters -> Nat]

\* The two machines as one that is handed over.  Nothing is claimed any more once a
\* session lock was lost under a worker, the source was started beside a kept target
\* that has run, or a delta was written over one.
Forfeited == count["lost"] > 0 \/ image.mixed \/ image.forked
Owner == IF Forfeited THEN "unknown"
         ELSE IF On("source") /\ On("target") THEN "both"
         ELSE IF On("source") THEN "source"
         ELSE IF On("target") THEN "target" ELSE "nobody"
H == INSTANCE Handover WITH owner <- Owner, whole <- image.disks = "current" /\ ~Forfeited

\* The workflow of the transfer (stopSource, synchronize, startTarget, recoverTarget,
\* rollback, with every crash, retry and resume between them) implements the handover
\* of one machine: never two of them run, and the target is started only on the disks
\* of a source that has not run since they were written.
Implements == H!Spec

\* A transfer that was canceled, rolled back or removed from the history leaves no
\* target behind, also when the machine was created and its id was never saved
\* (rollback looks for the mark of the transfer).
ReleasedIsClean ==
    row.status \in {"canceled", "rolled_back", "forgotten"} /\ count["lost"] = 0 => power["target"] = "none"

\* A delta is never written to the disks of a target that has run, however the worker
\* that started it ended: TargetStartRequested is saved before the request.  Premise: no
\* operator rolls back and keeps the target, which drops that mark.
DeltaBeforeStart == image.mixed => "rollback_keep" \in conf.calls \/ count["lost"] > 0

\* ReconcileRecovery spends attempts only after something went wrong: a transfer that
\* its worker is busy with is left alone by the loops of every process.
LeftAlone ==
    row.tries + row.rollbacks > 0 =>
        count["fault"] + count["crash"] + count["lost"] + count["taken"] + count["hand"] + count["op"] > 0

\* A transfer an operator has paused or put on hold stays as it is until an operator
\* acts, whatever the loops, the other processes and late workers do; the exception is
\* a synchronisation that Run had already decided on.
PausedStays ==
    [][row.manual /\ row.status \in {"interrupted", "held"} /\ row' # row =>
          count'["op"] > count["op"] \/ \E i \in Instances : tick[i]]_vars

\* Somebody or something is still to act on the transfer by itself.
Busy ==
    \/ row.status \in {"queued", "running"}
    \/ /\ row.status \in {"recovering", "interrupted"}
       /\ conf.policy.on /\ conf.policy.resume /\ ~row.manual /\ ~pause

\* Every action ends and automatic recovery ends: the attempts of scheduleRecovery are
\* bounded, and no crash, lost answer or other process leaves a transfer busy for ever.
Settles == Busy ~> ~Busy
=============================================================================
