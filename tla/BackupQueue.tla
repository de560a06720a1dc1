---------------------------- MODULE BackupQueue ----------------------------
(***************************************************************************)
(* The persistent queue of backup tasks and the scheduler around it:       *)
(* internal/scheduler/scheduler.go over internal/store/backup_tasks.go and *)
(* the job-run rows of internal/store/backup_quality.go.                   *)
(*                                                                         *)
(* TriggerJob turns a job into one job run and one task per VM.  Workers   *)
(* of the leading instance claim tasks under a lease, wait for a slot of   *)
(* the job, execute the backup, close the task, and the one that closes    *)
(* the last task of a run aggregates the run.  The tasks, the job runs and *)
(* the backup rows live in PostgreSQL and survive a crash; the set of      *)
(* active jobs, the slots and the workers live in the process.             *)
(*                                                                         *)
(* A lease is abstracted to whether it is still in force: time passes in   *)
(* LeaseExpires.  A worker id is the lease owner uuid: a fresh one each    *)
(* time the workers start.                                                 *)
(***************************************************************************)
EXTENDS Integers, FiniteSets, FiniteSetsExt

CONSTANTS
    Instances,      \* processes of the service on one database
    Workers,        \* lease owner uuids
    Callers,        \* goroutines inside TriggerJob: cron ticks and API calls
    Jobs, VMs,      \* backup jobs, and the VMs each of them resolves to
    Priority,       \* backup_jobs.priority
    MaxRuns,        \* bound: rows in backup_job_runs
    MaxRestarts,    \* bound: process deaths and scheduler stops
    MaxLapses,      \* bound: leases that run out under a worker that still has the task
    MaxFaults,      \* bound: statements of the scheduler the database refuses
    Outcomes,       \* how an Execute that has its backup_runs row may end
    PoolSize,       \* backup.workers
    Concurrency,    \* backup_jobs.concurrency
    Cluster,        \* cluster.leader_election: the scheduler may be restarted in place
    Heartbeats,     \* the database answers every heartbeat within the lease
    Garbled,        \* a stored payload may not decode, as after a change of its format
    None

ASSUME QueueAssumption ==
    /\ MaxRuns \in Nat /\ MaxRestarts \in Nat /\ MaxLapses \in Nat /\ MaxFaults \in Nat
    /\ PoolSize \in Nat \ {0} /\ Concurrency \in Nat \ {0}
    /\ Priority \in [Jobs -> Int]
    /\ Outcomes \subseteq {"succeeded", "partial", "failed"}
    /\ Cluster \in BOOLEAN /\ Heartbeats \in BOOLEAN /\ Garbled \in BOOLEAN
    /\ IsFiniteSet(VMs) /\ IsFiniteSet(Workers) /\ VMs # {}
    /\ None \notin Workers \cup Instances \cup Jobs \cup (1..MaxRuns) \cup ((1..MaxRuns) \X VMs)

VARIABLES
    proc,       \* what each process is doing with its background parts
    active,     \* Scheduler.active of each process
    trig,       \* TriggerJob calls in flight
    wrk,        \* task workers
    jobRun,     \* backup_job_runs
    task,       \* backup_tasks
    rows,       \* backup_runs of each task: how many ended with each status
    restarts,   \* process deaths and scheduler stops so far
    lapses,     \* leases that ran out under their worker so far
    faults      \* statements refused so far

vars == <<proc, active, trig, wrk, jobRun, task, rows, restarts, lapses, faults>>

Runs == 1..MaxRuns
Tasks == Runs \X VMs
TasksOf(r) == {r} \X VMs

RowStatus == {"succeeded", "partial", "failed"}
RunStatus == {"none", "running", "waiting_copies", "succeeded", "partial", "failed", "missed"}
TaskStatus == {"none", "queued", "running", "succeeded", "failed"}

\* RunStatus.Terminal
Terminal(s) == s \in {"succeeded", "partial", "failed", "missed"}

IdleWorker == [pc |-> "unused", inst |-> None, task |-> None, slot |-> FALSE,
               late |-> FALSE, ok |-> FALSE, stop |-> FALSE]
IdleCaller == [pc |-> "idle", inst |-> None, job |-> None, run |-> None,
               open |-> FALSE, sched |-> FALSE]

Init ==
    /\ proc = [i \in Instances |-> "down"]
    /\ active = [i \in Instances |-> {}]
    /\ trig = [c \in Callers |-> IdleCaller]
    /\ wrk = [w \in Workers |-> IdleWorker]
    /\ jobRun = [r \in Runs |-> [status |-> "none", job |-> None]]
    /\ task = [t \in Tasks |-> [status |-> "none", owner |-> None, live |-> FALSE]]
    /\ rows = [t \in Tasks |-> [s \in RowStatus |-> 0]]
    /\ restarts = 0 /\ lapses = 0 /\ faults = 0

-----------------------------------------------------------------------------
(* What the queries of the store see. *)

JobOf(t) == jobRun[t[1]].job

Open(t) == task[t].status \in {"queued", "running"}

\* HasOpenBackupTasks by job_run_id, and by job_id.
HasOpenInRun(r) == \E t \in TasksOf(r) : Open(t)
HasOpenOfJob(j) == \E r \in Runs : jobRun[r].job = j /\ HasOpenInRun(r)

\* Mutation: the lease is not looked at.
ClaimableWithoutLease(t) == task[t].status \in {"queued", "running"}

\* Mutation: the lease decides alone, whatever the status.
ClaimableUnleased(t) == task[t].status # "none" /\ ~task[t].live

\* ClaimBackupTasks' WHERE: queued, or running under a lease that ran out.
Claimable(t) == \/ task[t].status = "queued"
                \/ task[t].status = "running" /\ ~task[t].live

\* ClaimBackupTasks' ORDER BY priority DESC, created_at; the rows of one run
\* are inserted with one created_at.
Before(t, u) == \/ Priority[JobOf(t)] > Priority[JobOf(u)]
                \/ Priority[JobOf(t)] = Priority[JobOf(u)] /\ t[1] < u[1]

\* Inside executeOne.
Executing == {"exec", "copy", "post"}

\* The holders of the job's semaphore in a process: acquireTaskSlot takes a
\* place and the deferred release returns it when executeBackupTask returns.
SlotHolders(i, j) ==
    {w \in Workers : wrk[w].slot /\ wrk[w].inst = i /\ JobOf(wrk[w].task) = j}

\* The next free job-run row; rows are created in time order.
IsNextRun(r) == jobRun[r].status = "none" /\ \A q \in 1..(r - 1) : jobRun[q].status # "none"

\* finishJob over the backup_runs rows of the run, for a job that writes every
\* replica itself. Rows of any other status, the ones still being written included,
\* and replicas without any row are failures. (No backup_runs row is ever canceled.)
Copying(r) == {w \in Workers : wrk[w].pc = "copy" /\ wrk[w].task \in TasksOf(r)}

RowCount(r, s) == MapThenSumSet(LAMBDA t : rows[t][s], TasksOf(r))
SucceededCount(r) == RowCount(r, "succeeded")
PartialCount(r) == RowCount(r, "partial")
FailedRows(r) == RowCount(r, "failed") + Cardinality(Copying(r))
ReplicaCount == Cardinality(VMs)

\* Mutation: replicas without a row are forgotten.
FailedCountOfRows(r) == FailedRows(r)

FailedCount(r) ==
    LET accounted == SucceededCount(r) + PartialCount(r) + FailedRows(r)
    IN  FailedRows(r) + IF accounted < ReplicaCount THEN ReplicaCount - accounted ELSE 0

finishJobStatus(r) ==
    IF FailedCount(r) > 0 /\ SucceededCount(r) = 0 /\ PartialCount(r) = 0 THEN "failed"
    ELSE IF FailedCount(r) > 0 \/ PartialCount(r) > 0 THEN "partial"
    ELSE "succeeded"

-----------------------------------------------------------------------------
(* TriggerJob. *)

\* The API answers while the process is up; with leader election off it is
\* started after the scheduler. Cron ticks come only from a running scheduler.
MayTrigger(i, sched) == \/ proc[i] \in {"leading", "deposed"}
                        \/ Cluster /\ proc[i] = "standby" /\ ~sched

\* Bound: every call in flight keeps a free job-run row for itself.
RoomForCall == Cardinality({c \in Callers : trig[c].pc \in {"checked", "claimed"}})
                 < Cardinality({r \in Runs : jobRun[r].status = "none"})

\* The call has resolved its VMs and asks HasOpenBackupTasks.
TriggerCheck(c, i, j, sched) ==
    /\ trig[c].pc = "idle" /\ MayTrigger(i, sched)
    /\ RoomForCall
    /\ trig' = [trig EXCEPT ![c] = [pc |-> "checked", inst |-> i, job |-> j, run |-> None,
                                    open |-> HasOpenOfJob(j), sched |-> sched]]
    /\ UNCHANGED <<proc, active, wrk, jobRun, task, rows, restarts, lapses, faults>>

\* Mutation: only the queue is asked, not Scheduler.active.
BusyInQueue(c) == trig[c].open

Busy(c) == trig[c].open \/ trig[c].job \in active[trig[c].inst]

\* Mutation: the record is created without a status.
TriggerBusyPending(c) ==
    /\ trig[c].pc = "checked" /\ Busy(c)
    /\ \E r \in Runs :
        /\ IsNextRun(r)
        /\ jobRun' = [jobRun EXCEPT ![r] = [status |-> "pending", job |-> trig[c].job]]
    /\ trig' = [trig EXCEPT ![c] = IdleCaller]
    /\ UNCHANGED <<proc, active, wrk, task, rows, restarts, lapses, faults>>

\* ErrJobBusy: a finished record says the point was missed (or the click failed).
TriggerBusy(c) ==
    /\ trig[c].pc = "checked" /\ Busy(c)
    /\ \E r \in Runs :
        /\ IsNextRun(r)
        /\ jobRun' = [jobRun EXCEPT ![r] =
              [status |-> IF trig[c].sched THEN "missed" ELSE "failed", job |-> trig[c].job]]
    /\ trig' = [trig EXCEPT ![c] = IdleCaller]
    /\ UNCHANGED <<proc, active, wrk, task, rows, restarts, lapses, faults>>

\* claimJob.
TriggerClaim(c) ==
    /\ trig[c].pc = "checked" /\ ~Busy(c)
    /\ active' = [active EXCEPT ![trig[c].inst] = @ \cup {trig[c].job}]
    /\ trig' = [trig EXCEPT ![c].pc = "claimed"]
    /\ UNCHANGED <<proc, wrk, jobRun, task, rows, restarts, lapses, faults>>

\* CreateBackupJobRun of the run that will be executed.
TriggerCreate(c) ==
    /\ trig[c].pc = "claimed"
    /\ \E r \in Runs :
        /\ IsNextRun(r)
        /\ jobRun' = [jobRun EXCEPT ![r] = [status |-> "running", job |-> trig[c].job]]
        /\ trig' = [trig EXCEPT ![c].pc = "created", ![c].run = r]
    /\ UNCHANGED <<proc, active, wrk, task, rows, restarts, lapses, faults>>

\* CreateBackupJobRun returned an error: the job is released.
TriggerCreateFails(c) ==
    /\ trig[c].pc = "claimed"
    /\ active' = [active EXCEPT ![trig[c].inst] = @ \ {trig[c].job}]
    /\ trig' = [trig EXCEPT ![c] = IdleCaller]
    /\ UNCHANGED <<proc, wrk, jobRun, task, rows, restarts, lapses, faults>>

\* EnqueueBackupTasks inserts every task of the run in one transaction.
TriggerEnqueue(c) ==
    /\ trig[c].pc = "created"
    /\ task' = [t \in Tasks |->
                  IF t \in TasksOf(trig[c].run)
                  THEN [status |-> "queued", owner |-> None, live |-> FALSE]
                  ELSE task[t]]
    /\ trig' = [trig EXCEPT ![c] = IdleCaller]
    /\ UNCHANGED <<proc, active, wrk, jobRun, rows, restarts, lapses, faults>>

\* Mutation: the job is not released.
TriggerEnqueueFailsHolding(c) ==
    /\ trig[c].pc = "created"
    /\ jobRun' = [jobRun EXCEPT ![trig[c].run].status = "failed"]
    /\ trig' = [trig EXCEPT ![c] = IdleCaller]
    /\ UNCHANGED <<proc, active, wrk, task, rows, restarts, lapses, faults>>

\* The transaction was rolled back: the job is released and the run has
\* failed; the error of that last update is ignored.
TriggerEnqueueFails(c) ==
    /\ trig[c].pc = "created"
    /\ active' = [active EXCEPT ![trig[c].inst] = @ \ {trig[c].job}]
    /\ \/ jobRun' = [jobRun EXCEPT ![trig[c].run].status = "failed"] /\ UNCHANGED faults
       \/ faults < MaxFaults /\ faults' = faults + 1 /\ UNCHANGED jobRun
    /\ trig' = [trig EXCEPT ![c] = IdleCaller]
    /\ UNCHANGED <<proc, wrk, task, rows, restarts, lapses>>

-----------------------------------------------------------------------------
(* taskWorker and executeBackupTask. *)

\* The worker leaves executeBackupTask: it goes back to the queue, or exits
\* when its context is cancelled.
Returned(w) == IF wrk[w].stop THEN IdleWorker
               ELSE [IdleWorker EXCEPT !.pc = "idle", !.inst = wrk[w].inst]

ClaimBackupTasks(w, t) ==
    /\ wrk[w].pc = "idle" /\ ~wrk[w].stop
    /\ Claimable(t) /\ \A u \in Tasks : Claimable(u) => ~Before(u, t)
    /\ task' = [task EXCEPT ![t] = [status |-> "running", owner |-> w, live |-> TRUE]]
    /\ wrk' = [wrk EXCEPT ![w].pc = "claimed", ![w].task = t]
    /\ UNCHANGED <<proc, active, trig, jobRun, rows, restarts, lapses, faults>>

\* The worker notes that its job is active and queues for a slot.
MarkActive(w) ==
    /\ wrk[w].pc = "claimed"
    /\ active' = [active EXCEPT ![wrk[w].inst] = @ \cup {JobOf(wrk[w].task)}]
    /\ wrk' = [wrk EXCEPT ![w].pc = "slot"]
    /\ UNCHANGED <<proc, trig, jobRun, task, rows, restarts, lapses, faults>>

\* The payload of the task does not decode: the task fails at once.
BadPayload(w) ==
    /\ Garbled /\ wrk[w].pc = "claimed"
    /\ task' = [task EXCEPT ![wrk[w].task] =
                  IF @.owner = w THEN [status |-> "failed", owner |-> None, live |-> FALSE] ELSE @]
    /\ wrk' = [wrk EXCEPT ![w].pc = "check"]
    /\ UNCHANGED <<proc, active, trig, jobRun, rows, restarts, lapses, faults>>

SlotFree(w) == Cardinality(SlotHolders(wrk[w].inst, JobOf(wrk[w].task))) < Concurrency

\* acquireTaskSlot.
AcquireTaskSlot(w) ==
    /\ wrk[w].pc = "slot" /\ SlotFree(w)
    /\ wrk' = [wrk EXCEPT ![w].pc = "exec", ![w].slot = TRUE]
    /\ UNCHANGED <<proc, active, trig, jobRun, task, rows, restarts, lapses, faults>>

\* The other tasks of the job take as long as a backup takes: most of the lease,
\* or all of it, passes in the queue for a slot, where nothing renews it.
WaitForSlot(w) ==
    /\ wrk[w].pc = "slot" /\ ~SlotFree(w) /\ ~wrk[w].late
    /\ \A h \in SlotHolders(wrk[w].inst, JobOf(wrk[w].task)) : wrk[h].pc \in Executing
    /\ wrk' = [wrk EXCEPT ![w].late = TRUE]
    /\ UNCHANGED <<proc, active, trig, jobRun, task, rows, restarts, lapses, faults>>

\* The context was cancelled in the queue for a slot: "the lease expires and
\* another leader can resume the work".
GiveUpSlot(w) ==
    /\ wrk[w].pc = "slot" /\ wrk[w].stop
    /\ wrk' = [wrk EXCEPT ![w] = IdleWorker]
    /\ UNCHANGED <<proc, active, trig, jobRun, task, rows, restarts, lapses, faults>>

\* Execute stores its backup_runs row.
ExecuteCreatesRow(w) ==
    /\ wrk[w].pc = "exec" /\ ~wrk[w].stop
    /\ wrk' = [wrk EXCEPT ![w].pc = "copy"]
    /\ UNCHANGED <<proc, active, trig, jobRun, task, rows, restarts, lapses, faults>>

\* Execute fails before it has a row (no server, no disks, a cancelled wait).
ExecuteFailsEarly(w) ==
    /\ wrk[w].pc = "exec"
    /\ wrk' = [wrk EXCEPT ![w].pc = "finish", ![w].ok = FALSE]
    /\ UNCHANGED <<proc, active, trig, jobRun, task, rows, restarts, lapses, faults>>

\* Execute ends its row: a usable point goes on to replication, verification and
\* retention; failRun returns the error.
ExecuteEnds(w) ==
    /\ wrk[w].pc = "copy"
    /\ \E s \in Outcomes :
        /\ rows' = [rows EXCEPT ![wrk[w].task][s] = @ + 1]
        /\ wrk' = [wrk EXCEPT ![w].pc = IF s = "failed" THEN "finish" ELSE "post",
                              ![w].ok = FALSE]
    /\ UNCHANGED <<proc, active, trig, jobRun, task, restarts, lapses, faults>>

\* "The backup is done, but its record is not updated": the row stays unfinished.
ExecuteUnsaved(w) ==
    /\ wrk[w].pc = "copy" /\ faults < MaxFaults
    /\ faults' = faults + 1
    /\ rows' = [rows EXCEPT ![wrk[w].task]["failed"] = @ + 1]
    /\ wrk' = [wrk EXCEPT ![w].pc = "post"]
    /\ UNCHANGED <<proc, active, trig, jobRun, task, restarts, lapses>>

\* QueueRun, VerifyCopy and ApplyRetention after the backup: what they fail is
\* logged and does not fail the task.
PostProcess(w) ==
    /\ wrk[w].pc = "post"
    /\ wrk' = [wrk EXCEPT ![w].pc = "finish", ![w].ok = TRUE]
    /\ UNCHANGED <<proc, active, trig, jobRun, task, rows, restarts, lapses, faults>>

\* FinishBackupTask, under the worker's own lease.
FinishBackupTask(w) ==
    /\ wrk[w].pc = "finish" /\ task[wrk[w].task].owner = w
    /\ task' = [task EXCEPT ![wrk[w].task] =
                  [status |-> IF wrk[w].ok THEN "succeeded" ELSE "failed",
                   owner |-> None, live |-> FALSE]]
    /\ wrk' = [wrk EXCEPT ![w].pc = "check"]
    /\ UNCHANGED <<proc, active, trig, jobRun, rows, restarts, lapses, faults>>

\* ErrNotFound: the worker leaves the run to whoever holds the task now.
LoseTask(w) ==
    /\ wrk[w].pc = "finish" /\ task[wrk[w].task].owner # w
    /\ wrk' = [wrk EXCEPT ![w] = Returned(w)]
    /\ UNCHANGED <<proc, active, trig, jobRun, task, rows, restarts, lapses, faults>>

\* Mutation: the group is not asked whether it is done.
LastOfRunningRun(w) == jobRun[wrk[w].task[1]].status = "running"

\* Mutation: the marker is set whatever the status of the run.
LastOfAnyRun(w) == ~HasOpenInRun(wrk[w].task[1])

\* What HasOpenBackupTasks and the WHERE of ClaimBackupJobRunFinalization require.
\* A run without an open task has none ever after, so that the two are one step.
LastOfRun(w) == ~HasOpenInRun(wrk[w].task[1]) /\ jobRun[wrk[w].task[1]].status = "running"

\* maybeFinalizeBackupTaskGroup: the worker moves the run to waiting_copies...
ClaimFinalization(w) ==
    /\ wrk[w].pc = "check" /\ LastOfRun(w)
    /\ jobRun' = [jobRun EXCEPT ![wrk[w].task[1]].status = "waiting_copies"]
    /\ wrk' = [wrk EXCEPT ![w].pc = "release"]
    /\ UNCHANGED <<proc, active, trig, task, rows, restarts, lapses, faults>>

\* ... or leaves it to another.
LeaveRun(w) ==
    /\ wrk[w].pc = "check" /\ ~LastOfRun(w)
    /\ wrk' = [wrk EXCEPT ![w] = Returned(w)]
    /\ UNCHANGED <<proc, active, trig, jobRun, task, rows, restarts, lapses, faults>>

\* FinishBackupTask, HasOpenBackupTasks, the claim or a read of finishJob returned
\* an error: it is logged and the worker leaves the task, or the run, as it is.
DatabaseFault(w) ==
    /\ wrk[w].pc \in {"finish", "check", "aggregate"} /\ faults < MaxFaults
    /\ faults' = faults + 1
    /\ wrk' = [wrk EXCEPT ![w] = Returned(w)]
    /\ UNCHANGED <<proc, active, trig, jobRun, task, rows, restarts, lapses>>

\* releaseJob of the elected finalizer.
ReleaseJob(w) ==
    /\ wrk[w].pc = "release"
    /\ active' = [active EXCEPT ![wrk[w].inst] = @ \ {JobOf(wrk[w].task)}]
    /\ wrk' = [wrk EXCEPT ![w].pc = "aggregate"]
    /\ UNCHANGED <<proc, trig, jobRun, task, rows, restarts, lapses, faults>>

\* finishJob of the elected finalizer.
FinishJob(w) ==
    /\ wrk[w].pc = "aggregate"
    /\ jobRun' = [jobRun EXCEPT ![wrk[w].task[1]].status = finishJobStatus(wrk[w].task[1])]
    /\ wrk' = [wrk EXCEPT ![w] = Returned(w)]
    /\ UNCHANGED <<proc, active, trig, task, rows, restarts, lapses, faults>>

-----------------------------------------------------------------------------
(* Time, processes and crashes. *)

\* The lease of a task outlives its worker's current step as long as it is fresh
\* or renewed: it ran down in the queue for a slot and no heartbeat came since, or
\* a cancelled context stopped the heartbeat, or the database did not answer it.
Covered(t) == \E w \in Workers :
    /\ task[t].owner = w /\ wrk[w].task = t
    /\ ~wrk[w].late /\ ~wrk[w].stop /\ Heartbeats

Held(t) == \E w \in Workers : task[t].owner = w /\ wrk[w].task = t

LeaseExpires(t) ==
    /\ task[t].status = "running" /\ task[t].live /\ ~Covered(t)
    /\ IF Held(t) THEN lapses < MaxLapses /\ lapses' = lapses + 1 ELSE UNCHANGED lapses
    /\ task' = [task EXCEPT ![t].live = FALSE]
    /\ UNCHANGED <<proc, active, trig, wrk, jobRun, rows, restarts, faults>>

\* A tick of the heartbeat goroutine, which runs from the moment the slot is taken
\* until the backup is over: RenewBackupTaskLease renews the lease if the task is
\* still this worker's, and does nothing otherwise; its answer is ignored.
RenewLease(w) ==
    /\ wrk[w].pc \in Executing /\ ~wrk[w].stop
    /\ task[wrk[w].task].status = "running" /\ task[wrk[w].task].owner = w
    /\ task' = [task EXCEPT ![wrk[w].task].live = TRUE]
    /\ wrk' = [wrk EXCEPT ![w].late = FALSE]
    /\ UNCHANGED <<proc, active, trig, jobRun, rows, restarts, lapses, faults>>

\* A process starts: ReconcileStaleRuns closes every backup_runs row that is not
\* finished. A row of a dead process counts as failed since Down; the row of a
\* backup that another process still executes is written again when that one ends.
Boot(i) ==
    /\ proc[i] = "down"
    /\ proc' = [proc EXCEPT ![i] = "standby"]
    /\ UNCHANGED <<active, trig, wrk, jobRun, task, rows, restarts, lapses, faults>>

\* Mutation: the durable marker is not looked for.
RecoverableRunning == {r \in Runs : jobRun[r].status = "running" /\ ~HasOpenInRun(r)}

\* recoverTaskFinalizations: runs left open without an open task.
Recoverable == {r \in Runs : jobRun[r].status \in {"running", "waiting_copies"}
                              /\ ~HasOpenInRun(r)}
HasTask(r) == \E t \in TasksOf(r) : task[t].status # "none"

\* Scheduler.Start: recoverTaskFinalizations, then the task workers. A run that
\* has no task at all is marked and left.
Start(i, pool) ==
    /\ proc[i] = "standby" /\ \A k \in Instances : proc[k] # "leading"
    /\ proc' = [proc EXCEPT ![i] = "leading"]
    /\ Cardinality(pool) = PoolSize
    /\ \A w \in pool : wrk[w].pc = "unused" /\ \A t \in Tasks : task[t].owner # w
    /\ wrk' = [w \in Workers |->
                 IF w \in pool THEN [IdleWorker EXCEPT !.pc = "idle", !.inst = i] ELSE wrk[w]]
    /\ jobRun' = [r \in Runs |->
                    IF r \in Recoverable
                    THEN [jobRun[r] EXCEPT !.status =
                            IF HasTask(r) THEN finishJobStatus(r) ELSE "waiting_copies"]
                    ELSE jobRun[r]]
    /\ active' = [active EXCEPT ![i] = @ \ {jobRun[r].job : r \in {q \in Recoverable : HasTask(q)}}]
    /\ UNCHANGED <<trig, task, rows, restarts, lapses, faults>>

\* The leader's connection breaks: the lock is free, and the background parts run
\* on until superviseLeadership looks.
LoseLock(i) ==
    /\ Cluster /\ proc[i] = "leading" /\ restarts < MaxRestarts
    /\ restarts' = restarts + 1
    /\ proc' = [proc EXCEPT ![i] = "deposed"]
    /\ UNCHANGED <<active, trig, wrk, jobRun, task, rows, lapses, faults>>

\* Scheduler.Stop and the cancelled context, on a lost lock or on shutdown: cron
\* ticks finish first; workers without a task exit, the others are told to.
Stop(i) ==
    /\ IF Cluster THEN proc[i] = "deposed" /\ UNCHANGED restarts
       ELSE proc[i] = "leading" /\ restarts < MaxRestarts /\ restarts' = restarts + 1
    /\ \A c \in Callers : ~(trig[c].inst = i /\ trig[c].sched)
    /\ proc' = [proc EXCEPT ![i] = IF Cluster THEN "standby" ELSE "stopped"]
    /\ wrk' = [w \in Workers |->
                 IF wrk[w].inst # i THEN wrk[w]
                 ELSE IF wrk[w].pc = "idle" THEN IdleWorker
                 ELSE [wrk[w] EXCEPT !.stop = TRUE]]
    /\ UNCHANGED <<active, trig, jobRun, task, rows, lapses, faults>>

\* The process is gone: so is its memory, and a row it was writing stays
\* unfinished for good.
Down(i) ==
    /\ proc' = [proc EXCEPT ![i] = "down"]
    /\ active' = [active EXCEPT ![i] = {}]
    /\ trig' = [c \in Callers |-> IF trig[c].inst = i THEN IdleCaller ELSE trig[c]]
    /\ wrk' = [w \in Workers |-> IF wrk[w].inst = i THEN IdleWorker ELSE wrk[w]]
    /\ rows' = [t \in Tasks |->
                  [rows[t] EXCEPT !["failed"] = @ + Cardinality(
                     {w \in Workers : wrk[w].inst = i /\ wrk[w].pc = "copy" /\ wrk[w].task = t})]]
    /\ UNCHANGED <<jobRun, task, lapses, faults>>

\* It dies at any point.
Crash(i) ==
    /\ proc[i] \notin {"down", "stopped"} /\ restarts < MaxRestarts
    /\ restarts' = restarts + 1
    /\ Down(i)

\* run() returns after Stop and does not wait for the workers.
Exit(i) ==
    /\ proc[i] = "stopped"
    /\ UNCHANGED restarts
    /\ Down(i)

-----------------------------------------------------------------------------
TriggerStep(c) ==
    \/ \E i \in Instances, j \in Jobs, sched \in BOOLEAN : TriggerCheck(c, i, j, sched)
    \/ TriggerBusy(c) \/ TriggerClaim(c)
    \/ TriggerCreate(c) \/ TriggerCreateFails(c)
    \/ TriggerEnqueue(c) \/ TriggerEnqueueFails(c)

\* What a worker does with the task it holds.
TaskStep(w) ==
    \/ MarkActive(w) \/ BadPayload(w) \/ AcquireTaskSlot(w) \/ GiveUpSlot(w)
    \/ ExecuteCreatesRow(w) \/ ExecuteFailsEarly(w) \/ ExecuteEnds(w)
    \/ PostProcess(w) \/ FinishBackupTask(w) \/ LoseTask(w)
    \/ ClaimFinalization(w) \/ LeaveRun(w) \/ ReleaseJob(w) \/ FinishJob(w)

ProcessStep(i) ==
    \/ Boot(i) \/ LoseLock(i) \/ Stop(i) \/ Crash(i) \/ Exit(i)
    \/ \E pool \in SUBSET Workers : Start(i, pool)

Next ==
    \/ \E c \in Callers : TriggerStep(c)
    \/ \E w \in Workers : TaskStep(w) \/ WaitForSlot(w) \/ RenewLease(w)
                          \/ ExecuteUnsaved(w) \/ DatabaseFault(w)
                          \/ \E t \in Tasks : ClaimBackupTasks(w, t)
    \/ \E t \in Tasks : LeaseExpires(t)
    \/ \E i \in Instances : ProcessStep(i)

Spec == Init /\ [][Next]_vars

\* Goroutines and started processes are scheduled, leases run out, and an
\* operator starts a process that is down. Nothing obliges anyone to trigger a
\* job, to stop or to crash.
Fairness ==
    /\ \A c \in Callers : WF_vars(TriggerBusy(c) \/ TriggerClaim(c) \/ TriggerCreate(c)
                                    \/ TriggerEnqueue(c))
    /\ \A w \in Workers : WF_vars(TaskStep(w)) /\ WF_vars(\E t \in Tasks : ClaimBackupTasks(w, t))
    /\ \A t \in Tasks : WF_vars(LeaseExpires(t))
    /\ \A i \in Instances : WF_vars(Boot(i) \/ Exit(i) \/ (Cluster /\ Stop(i)) \/ \E pool \in SUBSET Workers : Start(i, pool))

FairSpec == Spec /\ Fairness

-----------------------------------------------------------------------------
(* Properties. *)

CallerType ==
    [pc : {"idle", "checked", "claimed", "created"}, inst : Instances \cup {None},
     job : Jobs \cup {None}, run : Runs \cup {None}, open : BOOLEAN, sched : BOOLEAN]
WorkerPC ==
    {"unused", "idle", "claimed", "slot", "exec", "copy", "post", "finish", "check", "release", "aggregate"}
WorkerType ==
    [pc : WorkerPC, inst : Instances \cup {None}, task : Tasks \cup {None}, slot : BOOLEAN,
     late : BOOLEAN, ok : BOOLEAN, stop : BOOLEAN]
JobRunType == [status : RunStatus, job : Jobs \cup {None}]
TaskType == [status : TaskStatus, owner : Workers \cup {None}, live : BOOLEAN]

\* Every variable keeps the shape its Go type and its column give it.
TypeOK ==
    /\ proc \in [Instances -> {"down", "standby", "leading", "deposed", "stopped"}]
    /\ active \in [Instances -> SUBSET Jobs]
    /\ trig \in [Callers -> CallerType]
    /\ wrk \in [Workers -> WorkerType]
    /\ jobRun \in [Runs -> JobRunType]
    /\ task \in [Tasks -> TaskType]
    /\ rows \in [Tasks -> [RowStatus -> Nat]]
    /\ restarts \in 0..MaxRestarts /\ lapses \in 0..MaxLapses /\ faults \in 0..MaxFaults

\* A job run is marked for finalization, and given its result, only when none of
\* its tasks is queued or running: maybeFinalizeBackupTaskGroup and
\* recoverTaskFinalizations never summarise a group that is still at work.
DrainedWhenFinalized ==
    \A r \in Runs : jobRun[r].status \notin {"none", "running"} => ~HasOpenInRun(r)

\* One task is never executed by two workers at once, so that one VM is not
\* backed up twice at the same time: the lease with its heartbeat.
SingleExecution ==
    \A v, w \in Workers :
        wrk[v].pc \in Executing /\ wrk[w].pc \in Executing /\ wrk[v].task = wrk[w].task => v = w

\* TriggerJob does not start a second run over one whose tasks are not all done, as
\* long as every payload decodes: a worker that cannot decode its task after a restart
\* never noted the job in Scheduler.active, and yet releases it, maybe under the feet
\* of a call that has claimed it in the meantime.
OneRunPerJob ==
    \A q, r \in Runs :
        HasOpenInRun(q) /\ HasOpenInRun(r) /\ jobRun[q].job = jobRun[r].job => q = r

\* A job is held in Scheduler.active only as long as something in the process
\* will release it: a call that has just claimed it, an unfinished run, or a
\* finalizer on its way to releaseJob. Otherwise every later TriggerJob would
\* answer ErrJobBusy until the process is restarted.
ActiveIsReleased ==
    \A i \in Instances : \A j \in active[i] :
        \/ \E c \in Callers : trig[c].inst = i /\ trig[c].job = j /\ trig[c].pc = "claimed"
        \/ \E r \in Runs : jobRun[r].job = j /\ jobRun[r].status = "running"
        \/ \E w \in Workers : wrk[w].inst = i /\ wrk[w].pc = "release" /\ JobOf(wrk[w].task) = j

\* A job run that reports success has a successful backup of every VM, as long as
\* no VM was backed up twice: finishJob counts a VM without a backup row as failed.
SuccessCoversEveryVM ==
    \A r \in Runs :
        /\ jobRun[r].status = "succeeded"
        /\ \A t \in TasksOf(r) : rows[t]["succeeded"] + rows[t]["partial"] + rows[t]["failed"] <= 1
        => \A t \in TasksOf(r) : rows[t]["succeeded"] > 0

\* A closed task is never reopened and its result never changes: FinishBackupTask
\* clears the owner, and ClaimBackupTasks takes only queued and running tasks.
ClosedTaskStaysClosed ==
    [][\A t \in Tasks : task[t].status \in {"succeeded", "failed"} => task'[t] = task[t]]_vars

\* ClaimBackupJobRunFinalization elects exactly one worker to aggregate a run,
\* whichever process it is in.
OneFinalizer ==
    \A v, w \in Workers :
        /\ wrk[v].pc \in {"release", "aggregate"} /\ wrk[w].pc \in {"release", "aggregate"}
        /\ wrk[v].task[1] = wrk[w].task[1]
        => v = w

\* A run whose tasks are in the queue is given its result in the end, whatever
\* process dies on the way, unless the database refuses a statement: only a start
\* looks for a run whose finalization was missed.
QueuedRunEnds ==
    [](faults = 0) => \A r \in Runs : HasTask(r) ~> Terminal(jobRun[r].status)
=============================================================================
