------------------------- MODULE BackupQueueProofs -------------------------
(***************************************************************************)
(* What holds of the queue for any number of processes, workers, callers,  *)
(* jobs, VMs, crashes, lapsed leases and database errors.                  *)
(***************************************************************************)
EXTENDS BackupQueue, FiniteSetTheorems, TLAPS

\* Every reference leads somewhere: a run that exists has a job, a task that
\* exists has a run, and a call or a worker that is under way has its process, its
\* job, its run and its task.
LinkedRuns == \A r \in Runs : jobRun[r].status # "none" => jobRun[r].job \in Jobs
LinkedTasks == \A t \in Tasks : task[t].status # "none" => jobRun[t[1]].status # "none"
LinkedCallers == \A c \in Callers :
    /\ trig[c].pc # "idle" => trig[c].inst \in Instances /\ trig[c].job \in Jobs
    /\ trig[c].pc = "created" => trig[c].run \in Runs /\ jobRun[trig[c].run].status # "none"
LinkedWorkers == \A w \in Workers :
    /\ wrk[w].pc # "unused" => wrk[w].inst \in Instances
    /\ wrk[w].pc \notin {"unused", "idle"} => wrk[w].task \in Tasks /\ task[wrk[w].task].status # "none"
Linked == LinkedRuns /\ LinkedTasks /\ LinkedCallers /\ LinkedWorkers

\* Only a running task has an owner; the tasks of a run that is not enqueued yet do
\* not exist, and one call enqueues them.
Owned ==
    /\ \A t \in Tasks : task[t].status # "running" => task[t].owner = None
    /\ \A c \in Callers : trig[c].pc = "created"
         => \A t \in Tasks : t[1] = trig[c].run => task[t].status = "none"
    /\ \A c, d \in Callers :
         trig[c].pc = "created" /\ trig[d].pc = "created" /\ trig[c].run = trig[d].run => c = d

\* A run that a worker is finalizing has left the status "running".
Marked ==
    \A w \in Workers : wrk[w].pc \in {"release", "aggregate"}
        => jobRun[wrk[w].task[1]].status \notin {"none", "running"}

QueueInv == TypeOK /\ Linked /\ Owned /\ Marked /\ OneFinalizer

-----------------------------------------------------------------------------
LEMMA TaskParts == \A t \in Tasks : t[1] \in Runs /\ t[2] \in VMs /\ t = <<t[1], t[2]>>
BY DEF Tasks

LEMMA TasksOfRun == \A r \in Runs, t \in Tasks : t \in TasksOf(r) <=> t[1] = r
BY DEF Tasks, TasksOf

LEMMA TasksOfRunExist == \A r \in Runs : \A t \in TasksOf(r) : t \in Tasks
BY DEF Tasks, TasksOf

LEMMA finishJobStatusType == \A r : finishJobStatus(r) \in {"failed", "partial", "succeeded"}
BY DEF finishJobStatus

LEMMA NoneFresh == None \notin Workers /\ None \notin Instances /\ None \notin Jobs
                   /\ None \notin Runs /\ None \notin Tasks
BY Zenon, QueueAssumption DEF Runs, Tasks

LEMMA InitInv == Init => QueueInv
<1> SUFFICES ASSUME Init PROVE QueueInv
    OBVIOUS
<1>1. TypeOK
    BY QueueAssumption DEF Init, TypeOK, IdleWorker, IdleCaller, RunStatus, TaskStatus, RowStatus, CallerType, WorkerType, JobRunType, TaskType, WorkerPC
<1>2. Linked /\ Owned /\ Marked /\ OneFinalizer
    BY DEF Init, Linked, LinkedRuns, LinkedTasks, LinkedCallers, LinkedWorkers, Owned, Marked, OneFinalizer, IdleWorker, IdleCaller
<1> QED
    BY <1>1, <1>2 DEF QueueInv

-----------------------------------------------------------------------------
(* The shape of the records. *)

LEMMA IdleTypes == IdleWorker \in WorkerType /\ IdleCaller \in CallerType
BY DEF IdleWorker, WorkerType, WorkerPC, IdleCaller, CallerType

LEMMA ReturnedType == 
    ASSUME NEW w \in Workers, wrk[w] \in WorkerType
    PROVE Returned(w) \in WorkerType
BY Zenon DEF IdleWorker, WorkerType, WorkerPC, Returned

LEMMA WorkerUpdates == ASSUME NEW x \in WorkerType PROVE
   /\ \A p \in WorkerPC : [x EXCEPT !.pc = p] \in WorkerType
   /\ \A p \in WorkerPC, t \in Tasks : [x EXCEPT !.pc = p, !.task = t] \in WorkerType
   /\ \A p \in WorkerPC, b \in BOOLEAN : [x EXCEPT !.pc = p, !.slot = b] \in WorkerType
   /\ \A p \in WorkerPC, b \in BOOLEAN : [x EXCEPT !.pc = p, !.ok = b] \in WorkerType
   /\ \A b \in BOOLEAN : [x EXCEPT !.late = b] \in WorkerType
   /\ [x EXCEPT !.stop = TRUE] \in WorkerType
BY Zenon DEF WorkerType

LEMMA StartedType == \A i \in Instances : [IdleWorker EXCEPT !.pc = "idle", !.inst = i] \in WorkerType
BY Zenon DEF IdleWorker, WorkerType, WorkerPC

LEMMA CallerUpdates == ASSUME NEW x \in CallerType PROVE
   /\ [x EXCEPT !.pc = "claimed"] \in CallerType
   /\ \A r \in Runs : [x EXCEPT !.pc = "created", !.run = r] \in CallerType
BY Zenon DEF CallerType

LEMMA JobRunTypes ==
   /\ \A s \in RunStatus, j \in Jobs : [status |-> s, job |-> j] \in JobRunType
   /\ \A x \in JobRunType : \A s \in RunStatus : [x EXCEPT !.status = s] \in JobRunType
BY DEF JobRunType

LEMMA TaskTypes ==
   /\ \A s \in TaskStatus, o \in Workers \cup {None}, b \in BOOLEAN :
         [status |-> s, owner |-> o, live |-> b] \in TaskType
   /\ \A x \in TaskType : \A b \in BOOLEAN : [x EXCEPT !.live = b] \in TaskType
BY DEF TaskType

LEMMA ClosedTaskType ==
    /\ [status |-> "failed", owner |-> None, live |-> FALSE] \in TaskType
    /\ \A b \in BOOLEAN : [status |-> IF b THEN "succeeded" ELSE "failed", owner |-> None, live |-> FALSE] \in TaskType
BY DEF TaskType, TaskStatus

-----------------------------------------------------------------------------
(* Each step keeps the types. *)

LEMMA TypeTriggerCheck == 
    ASSUME TypeOK, Linked, NEW c \in Callers, NEW i \in Instances, NEW j \in Jobs, NEW sched \in BOOLEAN, TriggerCheck(c, i, j, sched)
    PROVE TypeOK'
BY DEF TriggerCheck, TypeOK, CallerType, HasOpenOfJob

LEMMA TypeTriggerBusy == ASSUME TypeOK, Linked, NEW c \in Callers, TriggerBusy(c) PROVE TypeOK'
<1> PICK r \in Runs : jobRun' = [jobRun EXCEPT ![r] =
        [status |-> IF trig[c].sched THEN "missed" ELSE "failed", job |-> trig[c].job]]
    BY Zenon DEF TriggerBusy
<1>1. [status |-> IF trig[c].sched THEN "missed" ELSE "failed", job |-> trig[c].job] \in JobRunType
    BY DEF TriggerBusy, TypeOK, JobRunType, RunStatus, Linked, LinkedRuns, LinkedTasks, LinkedCallers, LinkedWorkers
<1> QED
    BY Zenon, <1>1, IdleTypes DEF TriggerBusy, TypeOK

LEMMA TypeTriggerClaim == ASSUME TypeOK, Linked, NEW c \in Callers, TriggerClaim(c) PROVE TypeOK'
BY Zenon, CallerUpdates DEF TriggerClaim, TypeOK, Linked, LinkedRuns, LinkedTasks, LinkedCallers, LinkedWorkers

LEMMA TypeTriggerCreate == ASSUME TypeOK, Linked, NEW c \in Callers, TriggerCreate(c) PROVE TypeOK'
<1> PICK r \in Runs : /\ jobRun' = [jobRun EXCEPT ![r] = [status |-> "running", job |-> trig[c].job]]
                      /\ trig' = [trig EXCEPT ![c].pc = "created", ![c].run = r]
    BY Zenon DEF TriggerCreate
<1>1. [status |-> "running", job |-> trig[c].job] \in JobRunType
    BY DEF TriggerCreate, TypeOK, JobRunType, RunStatus, Linked, LinkedRuns, LinkedTasks, LinkedCallers, LinkedWorkers
<1> QED
    BY Zenon, <1>1, CallerUpdates DEF TriggerCreate, TypeOK

LEMMA TypeTriggerCreateFails == 
    ASSUME TypeOK, Linked, NEW c \in Callers, TriggerCreateFails(c)
    PROVE TypeOK'
BY Zenon, IdleTypes DEF TriggerCreateFails, TypeOK

LEMMA TypeTriggerEnqueue == 
    ASSUME TypeOK, Linked, NEW c \in Callers, TriggerEnqueue(c)
    PROVE TypeOK'
<1>1. [status |-> "queued", owner |-> None, live |-> FALSE] \in TaskType
    BY DEF TaskType, TaskStatus
<1> QED
    BY Zenon, <1>1, IdleTypes DEF TriggerEnqueue, TypeOK

LEMMA TypeTriggerEnqueueFails == 
    ASSUME TypeOK, Linked, NEW c \in Callers, TriggerEnqueueFails(c)
    PROVE TypeOK'
<1>1. faults' \in 0..MaxFaults
    BY QueueAssumption DEF TriggerEnqueueFails, TypeOK
<1> trig[c].run \in Runs
    BY DEF TriggerEnqueueFails, Linked, LinkedRuns, LinkedTasks, LinkedCallers, LinkedWorkers
<1>2. jobRun' \in [Runs -> JobRunType]
  <2>1. [jobRun[trig[c].run] EXCEPT !.status = "failed"] \in JobRunType
    BY DEF TypeOK, JobRunType, RunStatus
  <2> QED
    BY Zenon, <2>1 DEF TriggerEnqueueFails, TypeOK
<1> QED
    BY Zenon, <1>1, <1>2, IdleTypes DEF TriggerEnqueueFails, TypeOK

LEMMA TypeClaimBackupTasks == 
    ASSUME TypeOK, Linked, NEW w \in Workers, NEW t \in Tasks, ClaimBackupTasks(w, t)
    PROVE TypeOK'
BY Zenon, WorkerUpdates, TaskTypes DEF ClaimBackupTasks, TypeOK, TaskStatus, WorkerPC

LEMMA TypeMarkActive == ASSUME TypeOK, Linked, NEW w \in Workers, MarkActive(w) PROVE TypeOK'
<1> JobOf(wrk[w].task) \in Jobs
  BY Zenon, TaskParts DEF Linked, LinkedRuns, LinkedTasks, LinkedCallers, LinkedWorkers, MarkActive, JobOf, TypeOK
<1> QED
    BY Zenon, WorkerUpdates DEF MarkActive, TypeOK, WorkerPC

LEMMA TypeBadPayload == ASSUME TypeOK, Linked, NEW w \in Workers, BadPayload(w) PROVE TypeOK'
<1> wrk[w].task \in Tasks /\ wrk[w].task[1] \in Runs
    BY Zenon, TaskParts DEF BadPayload, Linked, LinkedRuns, LinkedTasks, LinkedCallers, LinkedWorkers
<1>1. task' \in [Tasks -> TaskType]
    BY Zenon, ClosedTaskType DEF BadPayload, TypeOK
<1> QED
    BY Zenon, <1>1, WorkerUpdates DEF BadPayload, TypeOK, WorkerPC

LEMMA TypeAcquireTaskSlot == 
    ASSUME TypeOK, Linked, NEW w \in Workers, AcquireTaskSlot(w)
    PROVE TypeOK'
BY Zenon, WorkerUpdates DEF AcquireTaskSlot, TypeOK, WorkerPC

LEMMA TypeWaitForSlot == ASSUME TypeOK, Linked, NEW w \in Workers, WaitForSlot(w) PROVE TypeOK'
BY Zenon, WorkerUpdates DEF WaitForSlot, TypeOK, WorkerPC

LEMMA TypeGiveUpSlot == ASSUME TypeOK, Linked, NEW w \in Workers, GiveUpSlot(w) PROVE TypeOK'
BY Zenon, IdleTypes DEF GiveUpSlot, TypeOK

LEMMA TypeExecuteCreatesRow == 
    ASSUME TypeOK, Linked, NEW w \in Workers, ExecuteCreatesRow(w)
    PROVE TypeOK'
BY Zenon, WorkerUpdates DEF ExecuteCreatesRow, TypeOK, WorkerPC

LEMMA TypeExecuteFailsEarly == 
    ASSUME TypeOK, Linked, NEW w \in Workers, ExecuteFailsEarly(w)
    PROVE TypeOK'
BY Zenon, WorkerUpdates DEF ExecuteFailsEarly, TypeOK, WorkerPC

LEMMA TypeExecuteEnds == ASSUME TypeOK, Linked, NEW w \in Workers, ExecuteEnds(w) PROVE TypeOK'
<1> wrk[w].task \in Tasks /\ wrk[w].task[1] \in Runs
    BY Zenon, TaskParts DEF ExecuteEnds, Linked, LinkedRuns, LinkedTasks, LinkedCallers, LinkedWorkers
<1>1. PICK s \in Outcomes : /\ rows' = [rows EXCEPT ![wrk[w].task][s] = @ + 1]
                         /\ wrk' = [wrk EXCEPT ![w].pc = IF s = "failed" THEN "finish" ELSE "post",
                              ![w].ok = FALSE]
    BY Zenon DEF ExecuteEnds
<1>2. rows' \in [Tasks -> [RowStatus -> Nat]]
    BY <1>1, QueueAssumption DEF TypeOK, RowStatus
<1>3. wrk' \in [Workers -> WorkerType]
    BY Zenon, <1>1, WorkerUpdates DEF TypeOK, WorkerPC
<1> QED
    BY Zenon, <1>2, <1>3 DEF ExecuteEnds, TypeOK

LEMMA TypeExecuteUnsaved == 
    ASSUME TypeOK, Linked, NEW w \in Workers, ExecuteUnsaved(w)
    PROVE TypeOK'
<1> wrk[w].task \in Tasks /\ wrk[w].task[1] \in Runs
    BY Zenon, TaskParts DEF ExecuteUnsaved, Linked, LinkedRuns, LinkedTasks, LinkedCallers, LinkedWorkers
<1>1. faults' \in 0..MaxFaults
    BY QueueAssumption DEF ExecuteUnsaved, TypeOK
<1>2. rows' \in [Tasks -> [RowStatus -> Nat]]
    BY DEF TypeOK, RowStatus, ExecuteUnsaved
<1> QED
    BY Zenon, <1>1, <1>2, WorkerUpdates DEF ExecuteUnsaved, TypeOK, WorkerPC

LEMMA TypePostProcess == ASSUME TypeOK, Linked, NEW w \in Workers, PostProcess(w) PROVE TypeOK'
BY Zenon, WorkerUpdates DEF PostProcess, TypeOK, WorkerPC

LEMMA TypeFinishBackupTask == 
    ASSUME TypeOK, Linked, NEW w \in Workers, FinishBackupTask(w)
    PROVE TypeOK'
<1> wrk[w].task \in Tasks
    BY DEF FinishBackupTask, Linked, LinkedRuns, LinkedTasks, LinkedCallers, LinkedWorkers
<1> wrk[w].ok \in BOOLEAN
    BY DEF TypeOK, WorkerType
<1>1. task' \in [Tasks -> TaskType]
    BY Zenon, ClosedTaskType DEF FinishBackupTask, TypeOK
<1> QED
    BY Zenon, <1>1, WorkerUpdates DEF FinishBackupTask, TypeOK, WorkerPC

LEMMA TypeLoseTask == ASSUME TypeOK, Linked, NEW w \in Workers, LoseTask(w) PROVE TypeOK'
BY Zenon, ReturnedType DEF LoseTask, TypeOK

LEMMA TypeClaimFinalization == 
    ASSUME TypeOK, Linked, NEW w \in Workers, ClaimFinalization(w)
    PROVE TypeOK'
<1> wrk[w].task \in Tasks /\ wrk[w].task[1] \in Runs
    BY Zenon, TaskParts DEF ClaimFinalization, Linked, LinkedRuns, LinkedTasks, LinkedCallers, LinkedWorkers
<1>1. [jobRun[wrk[w].task[1]] EXCEPT !.status = "waiting_copies"] \in JobRunType
    BY DEF TypeOK, JobRunType, RunStatus
<1> QED
    BY Zenon, <1>1, WorkerUpdates DEF ClaimFinalization, TypeOK, WorkerPC

LEMMA TypeLeaveRun == ASSUME TypeOK, Linked, NEW w \in Workers, LeaveRun(w) PROVE TypeOK'
BY Zenon, ReturnedType DEF LeaveRun, TypeOK

LEMMA TypeDatabaseFault == ASSUME TypeOK, Linked, NEW w \in Workers, DatabaseFault(w) PROVE TypeOK'
<1>1. faults' \in 0..MaxFaults
    BY QueueAssumption DEF DatabaseFault, TypeOK
<1> QED
    BY Zenon, <1>1, ReturnedType DEF DatabaseFault, TypeOK

LEMMA TypeReleaseJob == ASSUME TypeOK, Linked, NEW w \in Workers, ReleaseJob(w) PROVE TypeOK'
BY Zenon, WorkerUpdates DEF ReleaseJob, TypeOK, WorkerPC

LEMMA TypeFinishJob == ASSUME TypeOK, Linked, NEW w \in Workers, FinishJob(w) PROVE TypeOK'
BY Zenon, ReturnedType, JobRunTypes, finishJobStatusType DEF FinishJob, TypeOK, RunStatus

LEMMA TypeRenewLease == ASSUME TypeOK, Linked, NEW w \in Workers, RenewLease(w) PROVE TypeOK'
<1> wrk[w].task \in Tasks
    BY DEF RenewLease, Linked, LinkedRuns, LinkedTasks, LinkedCallers, LinkedWorkers, Executing
<1>1. [task[wrk[w].task] EXCEPT !.live = TRUE] \in TaskType
    BY Zenon DEF TypeOK, TaskType
<1> QED
    BY Zenon, <1>1, WorkerUpdates DEF RenewLease, TypeOK

LEMMA TypeLeaseExpires == ASSUME TypeOK, Linked, NEW t \in Tasks, LeaseExpires(t) PROVE TypeOK'
<1>1. lapses' \in 0..MaxLapses
    BY QueueAssumption DEF LeaseExpires, TypeOK
<1>2. [task[t] EXCEPT !.live = FALSE] \in TaskType
    BY ZenonT(40) DEF TypeOK, TaskType
<1> QED
    BY Zenon, <1>1, <1>2 DEF LeaseExpires, TypeOK

LEMMA TypeBoot == ASSUME TypeOK, Linked, NEW i \in Instances, Boot(i) PROVE TypeOK'
BY Zenon, WorkerUpdates DEF Boot, TypeOK

LEMMA TypeStart == 
    ASSUME TypeOK, Linked, NEW i \in Instances, NEW pool \in SUBSET Workers, Start(i, pool)
    PROVE TypeOK'
BY Zenon, StartedType, JobRunTypes, finishJobStatusType DEF Start, TypeOK, RunStatus, Linked, LinkedRuns, LinkedTasks, LinkedCallers, LinkedWorkers, Recoverable

LEMMA TypeLoseLock == ASSUME TypeOK, Linked, NEW i \in Instances, LoseLock(i) PROVE TypeOK'
BY QueueAssumption DEF LoseLock, TypeOK

LEMMA TypeStop == ASSUME TypeOK, Linked, NEW i \in Instances, Stop(i) PROVE TypeOK'
<1>1. restarts' \in 0..MaxRestarts
  BY QueueAssumption DEF Stop, TypeOK
<1>2. wrk' \in [Workers -> WorkerType]
  BY Zenon, WorkerUpdates, IdleTypes DEF Stop, TypeOK
<1>3. proc' \in [Instances -> {"down", "standby", "leading", "deposed", "stopped"}]
  BY DEF Stop, TypeOK
<1> QED
    BY Zenon, <1>1, <1>2, <1>3 DEF Stop, TypeOK

LEMMA TypeDown == ASSUME TypeOK, NEW i \in Instances, Down(i)
                  PROVE  proc' \in [Instances -> {"down", "standby", "leading", "deposed", "stopped"}]
                         /\ active' \in [Instances -> SUBSET Jobs] /\ trig' \in [Callers -> CallerType]
                         /\ wrk' \in [Workers -> WorkerType] /\ rows' \in [Tasks -> [RowStatus -> Nat]]
                         /\ UNCHANGED <<jobRun, task, lapses, faults>>
<1>1. \A t \in Tasks :
        Cardinality({w \in Workers : wrk[w].inst = i /\ wrk[w].pc = "copy" /\ wrk[w].task = t}) \in Nat
    BY Zenon, QueueAssumption, FS_Subset, FS_CardinalityType
<1>2. rows' \in [Tasks -> [RowStatus -> Nat]]
    BY <1>1 DEF Down, TypeOK, RowStatus
<1> QED
    BY Zenon, <1>2, IdleTypes DEF Down, TypeOK

LEMMA TypeCrash == ASSUME TypeOK, Linked, NEW i \in Instances, Crash(i) PROVE TypeOK'
<1>1. restarts' \in 0..MaxRestarts
    BY QueueAssumption DEF Crash, TypeOK
<1> QED
    BY <1>1, TypeDown DEF Crash, TypeOK

LEMMA TypeExit == ASSUME TypeOK, Linked, NEW i \in Instances, Exit(i) PROVE TypeOK'
BY Zenon, TypeDown DEF Exit, TypeOK

LEMMA TypeNext == ASSUME TypeOK, Linked, [Next]_vars PROVE TypeOK'
<1>1. CASE UNCHANGED vars
    BY Zenon, <1>1 DEF vars, TypeOK
<1> QED
    BY Zenon, <1>1,
       TypeTriggerCheck, TypeTriggerBusy, TypeTriggerClaim, TypeTriggerCreate,
       TypeTriggerCreateFails, TypeTriggerEnqueue, TypeTriggerEnqueueFails,
       TypeClaimBackupTasks, TypeMarkActive, TypeBadPayload, TypeAcquireTaskSlot,
       TypeWaitForSlot, TypeGiveUpSlot, TypeExecuteCreatesRow, TypeExecuteFailsEarly,
       TypeExecuteEnds, TypeExecuteUnsaved, TypePostProcess, TypeFinishBackupTask, TypeLoseTask,
       TypeClaimFinalization, TypeLeaveRun, TypeDatabaseFault, TypeReleaseJob, TypeFinishJob,
       TypeRenewLease, TypeLeaseExpires, TypeBoot, TypeStart, TypeLoseLock, TypeStop,
       TypeCrash, TypeExit
    DEF Next, TriggerStep, TaskStep, ProcessStep

-----------------------------------------------------------------------------
(* Each step keeps the references, the owners and the finalizers. *)

\* A run that exists keeps its job and its existence, and never runs again once it
\* has left the status "running".
RunsPersist == \A r \in Runs :
    /\ jobRun[r].status # "none" => jobRun'[r].status # "none" /\ jobRun'[r].job = jobRun[r].job
    /\ jobRun[r].status \notin {"none", "running"} => jobRun'[r].status \notin {"none", "running"}

\* A task that exists is not deleted.
TasksPersist == \A t \in Tasks : task[t].status # "none" => task'[t].status # "none"

\* No worker becomes a finalizer.
NoNewFinalizer == \A w \in Workers : wrk'[w].pc \in {"release", "aggregate"}
    => wrk[w].pc \in {"release", "aggregate"} /\ wrk'[w].task = wrk[w].task

LEMMA RunsPersistNext == ASSUME TypeOK, Linked, [Next]_vars PROVE RunsPersist
<1>1. CASE UNCHANGED <<jobRun>>
    BY Zenon, <1>1, TaskParts DEF RunsPersist
<1>2. ASSUME NEW c \in Callers, TriggerBusy(c) PROVE RunsPersist
    BY <1>2, finishJobStatusType DEF TriggerBusy, IsNextRun, IdleCaller, TypeOK, JobRunType, RunsPersist
<1>3. ASSUME NEW c \in Callers, TriggerCreate(c) PROVE RunsPersist
    BY Zenon, <1>3, finishJobStatusType DEF TriggerCreate, IsNextRun, TypeOK, JobRunType, RunsPersist
<1>4. ASSUME NEW c \in Callers, TriggerEnqueueFails(c) PROVE RunsPersist
    BY <1>4, finishJobStatusType DEF TriggerEnqueueFails, IdleCaller, TypeOK, JobRunType, RunsPersist
<1>5. ASSUME NEW w \in Workers, ClaimFinalization(w) PROVE RunsPersist
    BY <1>5, finishJobStatusType DEF ClaimFinalization, TypeOK, JobRunType, RunsPersist
<1>6. ASSUME NEW w \in Workers, FinishJob(w) PROVE RunsPersist
    BY Zenon, <1>6, finishJobStatusType DEF FinishJob, Returned, IdleWorker, TypeOK, JobRunType, RunsPersist
<1>7. ASSUME NEW i \in Instances, NEW pool \in SUBSET Workers, Start(i, pool) PROVE RunsPersist
    BY <1>7, finishJobStatusType DEF Start, IdleWorker, Recoverable, TypeOK, JobRunType, RunsPersist
<1>8. ASSUME NEW c \in Callers, NEW i \in Instances, NEW j \in Jobs, NEW sched \in BOOLEAN, TriggerCheck(c, i, j, sched)
      PROVE UNCHANGED <<jobRun>>
    BY Zenon, <1>8 DEF TriggerCheck
<1>9. ASSUME NEW c \in Callers,
      \/ TriggerClaim(c) \/ TriggerCreateFails(c) \/ TriggerEnqueue(c)
    PROVE  UNCHANGED <<jobRun>>
    BY Zenon, <1>9 DEF TriggerClaim, TriggerCreateFails, TriggerEnqueue
<1>10. ASSUME NEW w \in Workers, NEW t \in Tasks, ClaimBackupTasks(w, t) PROVE UNCHANGED <<jobRun>>
    BY Zenon, <1>10 DEF ClaimBackupTasks
<1>11. ASSUME NEW w \in Workers,
      \/ MarkActive(w) \/ BadPayload(w) \/ AcquireTaskSlot(w) \/ WaitForSlot(w)
      \/ GiveUpSlot(w) \/ ExecuteCreatesRow(w) \/ ExecuteFailsEarly(w) \/ ExecuteEnds(w)
      \/ ExecuteUnsaved(w) \/ PostProcess(w) \/ FinishBackupTask(w) \/ LoseTask(w)
      \/ LeaveRun(w) \/ DatabaseFault(w) \/ ReleaseJob(w) \/ RenewLease(w)
    PROVE  UNCHANGED <<jobRun>>
    BY Zenon, <1>11 DEF MarkActive, BadPayload, AcquireTaskSlot, WaitForSlot, GiveUpSlot,
        ExecuteCreatesRow, ExecuteFailsEarly, ExecuteEnds, ExecuteUnsaved,
        PostProcess, FinishBackupTask, LoseTask, LeaveRun, DatabaseFault, ReleaseJob,
        RenewLease
<1>12. ASSUME NEW t \in Tasks, LeaseExpires(t) PROVE UNCHANGED <<jobRun>>
    BY <1>12 DEF LeaseExpires
<1>13. ASSUME NEW i \in Instances,
      \/ Boot(i) \/ LoseLock(i) \/ Stop(i) \/ Crash(i) \/ Exit(i)
    PROVE  UNCHANGED <<jobRun>>
    BY Zenon, <1>13 DEF Boot, LoseLock, Stop, Crash, Down, Exit
<1> QED
    BY <1>1, <1>2, <1>3, <1>4, <1>5, <1>6, <1>7, <1>8, <1>9, <1>10, <1>11, <1>12,
       <1>13
    DEF Next, TriggerStep, TaskStep, ProcessStep, vars

LEMMA TasksPersistNext == ASSUME TypeOK, Linked, [Next]_vars PROVE TasksPersist
<1>1. CASE UNCHANGED <<task>>
    BY <1>1, TaskParts DEF TasksPersist
<1>2. ASSUME NEW c \in Callers, TriggerEnqueue(c) PROVE TasksPersist
    BY Zenon, <1>2 DEF TriggerEnqueue, IdleCaller, TypeOK, TaskType, TasksPersist
<1>3. ASSUME NEW w \in Workers, NEW t \in Tasks, ClaimBackupTasks(w, t) PROVE TasksPersist
    BY Zenon, <1>3 DEF ClaimBackupTasks, Claimable, TypeOK, TaskType, TasksPersist
<1>4. ASSUME NEW w \in Workers, BadPayload(w) PROVE TasksPersist
    BY Zenon, <1>4 DEF BadPayload, TypeOK, TaskType, TasksPersist
<1>5. ASSUME NEW w \in Workers, FinishBackupTask(w) PROVE TasksPersist
    BY Zenon, <1>5 DEF FinishBackupTask, TypeOK, TaskType, TasksPersist
<1>6. ASSUME NEW w \in Workers, RenewLease(w) PROVE TasksPersist
    BY <1>6 DEF RenewLease, Executing, TypeOK, TaskType, TasksPersist
<1>7. ASSUME NEW t \in Tasks, LeaseExpires(t) PROVE TasksPersist
    BY Zenon, <1>7 DEF LeaseExpires, TypeOK, TaskType, TasksPersist
<1>8. ASSUME NEW c \in Callers, NEW i \in Instances, NEW j \in Jobs, NEW sched \in BOOLEAN, TriggerCheck(c, i, j, sched)
      PROVE UNCHANGED <<task>>
    BY Zenon, <1>8 DEF TriggerCheck
<1>9. ASSUME NEW c \in Callers,
      \/ TriggerBusy(c) \/ TriggerClaim(c) \/ TriggerCreate(c) \/ TriggerCreateFails(c)
      \/ TriggerEnqueueFails(c)
    PROVE  UNCHANGED <<task>>
    BY Zenon, <1>9 DEF TriggerBusy, TriggerClaim, TriggerCreate, TriggerCreateFails,
        TriggerEnqueueFails
<1>10. ASSUME NEW w \in Workers,
      \/ MarkActive(w) \/ AcquireTaskSlot(w) \/ WaitForSlot(w) \/ GiveUpSlot(w)
      \/ ExecuteCreatesRow(w) \/ ExecuteFailsEarly(w) \/ ExecuteEnds(w)
      \/ ExecuteUnsaved(w) \/ PostProcess(w) \/ LoseTask(w) \/ ClaimFinalization(w)
      \/ LeaveRun(w) \/ DatabaseFault(w) \/ ReleaseJob(w) \/ FinishJob(w)
    PROVE  UNCHANGED <<task>>
    BY Zenon, <1>10 DEF MarkActive, AcquireTaskSlot, WaitForSlot, GiveUpSlot, ExecuteCreatesRow,
        ExecuteFailsEarly, ExecuteEnds, ExecuteUnsaved, PostProcess, LoseTask,
        ClaimFinalization, LeaveRun, DatabaseFault, ReleaseJob, FinishJob
<1>11. ASSUME NEW i \in Instances,
      \/ Boot(i) \/ LoseLock(i) \/ Stop(i) \/ Crash(i) \/ Exit(i)
    PROVE  UNCHANGED <<task>>
    BY Zenon, <1>11 DEF Boot, LoseLock, Stop, Crash, Down, Exit
<1>12. ASSUME NEW i \in Instances, NEW pool \in SUBSET Workers, Start(i, pool) PROVE UNCHANGED <<task>>
    BY Zenon, <1>12 DEF Start
<1> QED
    BY <1>1, <1>2, <1>3, <1>4, <1>5, <1>6, <1>7, <1>8, <1>9, <1>10, <1>11, <1>12
    DEF Next, TriggerStep, TaskStep, ProcessStep, vars

LEMMA LinkedRunsNext == ASSUME TypeOK, Linked, [Next]_vars PROVE LinkedRuns'
<1>1. CASE UNCHANGED <<jobRun>>
    BY Zenon, <1>1, TaskParts DEF LinkedRuns, Linked
<1>2. ASSUME NEW c \in Callers, TriggerBusy(c) PROVE LinkedRuns'
    BY <1>2, finishJobStatusType DEF TriggerBusy, IsNextRun, IdleCaller, TypeOK, JobRunType, LinkedRuns, LinkedCallers, Linked
<1>3. ASSUME NEW c \in Callers, TriggerCreate(c) PROVE LinkedRuns'
    BY <1>3, finishJobStatusType DEF TriggerCreate, IsNextRun, TypeOK, JobRunType, LinkedRuns, LinkedCallers, Linked
<1>4. ASSUME NEW c \in Callers, TriggerEnqueueFails(c) PROVE LinkedRuns'
    BY ZenonT(40), <1>4, finishJobStatusType DEF TriggerEnqueueFails, IdleCaller, TypeOK, JobRunType, LinkedRuns, LinkedCallers, Linked
<1>5. ASSUME NEW w \in Workers, ClaimFinalization(w) PROVE LinkedRuns'
  <2>1. wrk[w].task \in Tasks /\ wrk[w].task[1] \in Runs /\ jobRun[wrk[w].task[1]].status # "none"
    BY Zenon, <1>5, TaskParts DEF ClaimFinalization, Linked, LinkedTasks, LinkedWorkers
  <2> QED
    BY Zenon, <1>5, <2>1 DEF ClaimFinalization, TypeOK, JobRunType, LinkedRuns, Linked
<1>6. ASSUME NEW w \in Workers, FinishJob(w) PROVE LinkedRuns'
  <2>1. wrk[w].task \in Tasks /\ wrk[w].task[1] \in Runs /\ jobRun[wrk[w].task[1]].status # "none"
    BY Zenon, <1>6, TaskParts DEF FinishJob, Linked, LinkedTasks, LinkedWorkers
  <2> QED
    BY <1>6, <2>1 DEF FinishJob, TypeOK, JobRunType, LinkedRuns, Linked
<1>7. ASSUME NEW i \in Instances, NEW pool \in SUBSET Workers, Start(i, pool) PROVE LinkedRuns'
    BY <1>7, finishJobStatusType DEF Start, IdleWorker, Recoverable, TypeOK, JobRunType, LinkedRuns, LinkedCallers, Linked
<1>8. ASSUME NEW c \in Callers, NEW i \in Instances, NEW j \in Jobs, NEW sched \in BOOLEAN, TriggerCheck(c, i, j, sched)
      PROVE UNCHANGED <<jobRun>>
    BY Zenon, <1>8 DEF TriggerCheck
<1>9. ASSUME NEW c \in Callers,
      \/ TriggerClaim(c) \/ TriggerCreateFails(c) \/ TriggerEnqueue(c)
    PROVE  UNCHANGED <<jobRun>>
    BY Zenon, <1>9 DEF TriggerClaim, TriggerCreateFails, TriggerEnqueue
<1>10. ASSUME NEW w \in Workers, NEW t \in Tasks, ClaimBackupTasks(w, t) PROVE UNCHANGED <<jobRun>>
    BY Zenon, <1>10 DEF ClaimBackupTasks
<1>11. ASSUME NEW w \in Workers,
      \/ MarkActive(w) \/ BadPayload(w) \/ AcquireTaskSlot(w) \/ WaitForSlot(w)
      \/ GiveUpSlot(w) \/ ExecuteCreatesRow(w) \/ ExecuteFailsEarly(w) \/ ExecuteEnds(w)
      \/ ExecuteUnsaved(w) \/ PostProcess(w) \/ FinishBackupTask(w) \/ LoseTask(w)
      \/ LeaveRun(w) \/ DatabaseFault(w) \/ ReleaseJob(w) \/ RenewLease(w)
    PROVE  UNCHANGED <<jobRun>>
    BY Zenon, <1>11 DEF MarkActive, BadPayload, AcquireTaskSlot, WaitForSlot, GiveUpSlot,
        ExecuteCreatesRow, ExecuteFailsEarly, ExecuteEnds, ExecuteUnsaved,
        PostProcess, FinishBackupTask, LoseTask, LeaveRun, DatabaseFault, ReleaseJob,
        RenewLease
<1>12. ASSUME NEW t \in Tasks, LeaseExpires(t) PROVE UNCHANGED <<jobRun>>
    BY <1>12 DEF LeaseExpires
<1>13. ASSUME NEW i \in Instances,
      \/ Boot(i) \/ LoseLock(i) \/ Stop(i) \/ Crash(i) \/ Exit(i)
    PROVE  UNCHANGED <<jobRun>>
    BY Zenon, <1>13 DEF Boot, LoseLock, Stop, Crash, Down, Exit
<1> QED
    BY <1>1, <1>2, <1>3, <1>4, <1>5, <1>6, <1>7, <1>8, <1>9, <1>10, <1>11, <1>12,
       <1>13
    DEF Next, TriggerStep, TaskStep, ProcessStep, vars

LEMMA LinkedTasksNext == ASSUME TypeOK, Linked, RunsPersist, [Next]_vars PROVE LinkedTasks'
<1>1. CASE UNCHANGED <<task>>
    BY Zenon, <1>1, TaskParts DEF LinkedTasks, Linked, RunsPersist
<1>2. ASSUME NEW c \in Callers, TriggerEnqueue(c) PROVE LinkedTasks'
    BY <1>2, TasksOfRun, TaskParts DEF TriggerEnqueue, IdleCaller, TypeOK, TaskType, RunsPersist, LinkedTasks, LinkedCallers, Linked
<1>3. ASSUME NEW w \in Workers, NEW t \in Tasks, ClaimBackupTasks(w, t) PROVE LinkedTasks'
    BY <1>3, TasksOfRun, TaskParts DEF ClaimBackupTasks, Claimable, TypeOK, TaskType, RunsPersist, LinkedTasks, LinkedCallers, Linked
<1>4. ASSUME NEW w \in Workers, BadPayload(w) PROVE LinkedTasks'
  <2>1. wrk[w].task \in Tasks /\ task[wrk[w].task].status # "none"
    BY Zenon, <1>4 DEF BadPayload, Linked, LinkedWorkers
  <2> QED
    BY <1>4, <2>1, TaskParts DEF BadPayload, TypeOK, TaskType, RunsPersist, LinkedTasks, Linked
<1>5. ASSUME NEW w \in Workers, FinishBackupTask(w) PROVE LinkedTasks'
  <2>1. wrk[w].task \in Tasks /\ task[wrk[w].task].status # "none"
    BY Zenon, <1>5 DEF FinishBackupTask, Linked, LinkedWorkers
  <2> QED
    BY <1>5, <2>1, TaskParts DEF FinishBackupTask, TypeOK, TaskType, RunsPersist, LinkedTasks, Linked
<1>6. ASSUME NEW w \in Workers, RenewLease(w) PROVE LinkedTasks'
    BY <1>6, TasksOfRun, TaskParts DEF RenewLease, Executing, TypeOK, TaskType, RunsPersist, LinkedTasks, LinkedCallers, Linked
<1>7. ASSUME NEW t \in Tasks, LeaseExpires(t) PROVE LinkedTasks'
    BY <1>7, TasksOfRun, TaskParts DEF LeaseExpires, TypeOK, TaskType, RunsPersist, LinkedTasks, LinkedCallers, Linked
<1>8. ASSUME NEW c \in Callers, NEW i \in Instances, NEW j \in Jobs, NEW sched \in BOOLEAN, TriggerCheck(c, i, j, sched)
      PROVE UNCHANGED <<task>>
    BY Zenon, <1>8 DEF TriggerCheck
<1>9. ASSUME NEW c \in Callers,
      \/ TriggerBusy(c) \/ TriggerClaim(c) \/ TriggerCreate(c) \/ TriggerCreateFails(c)
      \/ TriggerEnqueueFails(c)
    PROVE  UNCHANGED <<task>>
    BY Zenon, <1>9 DEF TriggerBusy, TriggerClaim, TriggerCreate, TriggerCreateFails,
        TriggerEnqueueFails
<1>10. ASSUME NEW w \in Workers,
      \/ MarkActive(w) \/ AcquireTaskSlot(w) \/ WaitForSlot(w) \/ GiveUpSlot(w)
      \/ ExecuteCreatesRow(w) \/ ExecuteFailsEarly(w) \/ ExecuteEnds(w)
      \/ ExecuteUnsaved(w) \/ PostProcess(w) \/ LoseTask(w) \/ ClaimFinalization(w)
      \/ LeaveRun(w) \/ DatabaseFault(w) \/ ReleaseJob(w) \/ FinishJob(w)
    PROVE  UNCHANGED <<task>>
    BY Zenon, <1>10 DEF MarkActive, AcquireTaskSlot, WaitForSlot, GiveUpSlot, ExecuteCreatesRow,
        ExecuteFailsEarly, ExecuteEnds, ExecuteUnsaved, PostProcess, LoseTask,
        ClaimFinalization, LeaveRun, DatabaseFault, ReleaseJob, FinishJob
<1>11. ASSUME NEW i \in Instances,
      \/ Boot(i) \/ LoseLock(i) \/ Stop(i) \/ Crash(i) \/ Exit(i)
    PROVE  UNCHANGED <<task>>
    BY Zenon, <1>11 DEF Boot, LoseLock, Stop, Crash, Down, Exit
<1>12. ASSUME NEW i \in Instances, NEW pool \in SUBSET Workers, Start(i, pool) PROVE UNCHANGED <<task>>
    BY Zenon, <1>12 DEF Start
<1> QED
    BY <1>1, <1>2, <1>3, <1>4, <1>5, <1>6, <1>7, <1>8, <1>9, <1>10, <1>11, <1>12
    DEF Next, TriggerStep, TaskStep, ProcessStep, vars

LEMMA LinkedCallersNext == ASSUME TypeOK, Linked, RunsPersist, [Next]_vars PROVE LinkedCallers'
<1>1. CASE UNCHANGED <<trig>>
    BY Zenon, <1>1, TaskParts DEF LinkedCallers, Linked, RunsPersist
<1>2. ASSUME NEW c \in Callers, NEW i \in Instances, NEW j \in Jobs, NEW sched \in BOOLEAN, TriggerCheck(c, i, j, sched)
      PROVE LinkedCallers'
    BY Zenon, <1>2 DEF TriggerCheck, TypeOK, CallerType, JobRunType, RunsPersist, LinkedCallers, Linked
<1>3. ASSUME NEW c \in Callers, TriggerBusy(c) PROVE LinkedCallers'
    BY Zenon, <1>3 DEF TriggerBusy, IsNextRun, IdleCaller, TypeOK, CallerType, JobRunType, RunsPersist, LinkedCallers, Linked
<1>4. ASSUME NEW c \in Callers, TriggerClaim(c) PROVE LinkedCallers'
    BY <1>4 DEF TriggerClaim, TypeOK, CallerType, JobRunType, RunsPersist, LinkedCallers, Linked
<1>5. ASSUME NEW c \in Callers, TriggerCreate(c) PROVE LinkedCallers'
    BY <1>5 DEF TriggerCreate, IsNextRun, TypeOK, CallerType, JobRunType, RunsPersist, LinkedCallers, Linked
<1>6. ASSUME NEW c \in Callers, TriggerCreateFails(c) PROVE LinkedCallers'
    BY <1>6 DEF TriggerCreateFails, IdleCaller, TypeOK, CallerType, JobRunType, RunsPersist, LinkedCallers, Linked
<1>7. ASSUME NEW c \in Callers, TriggerEnqueue(c) PROVE LinkedCallers'
    BY <1>7 DEF TriggerEnqueue, IdleCaller, TypeOK, CallerType, JobRunType, RunsPersist, LinkedCallers, Linked
<1>8. ASSUME NEW c \in Callers, TriggerEnqueueFails(c) PROVE LinkedCallers'
    BY <1>8 DEF TriggerEnqueueFails, IdleCaller, TypeOK, CallerType, JobRunType, RunsPersist, LinkedCallers, Linked
<1>9. ASSUME NEW i \in Instances, Crash(i) PROVE LinkedCallers'
    BY <1>9 DEF Crash, Down, IdleWorker, IdleCaller, TypeOK, CallerType, JobRunType, RunsPersist, LinkedCallers, Linked
<1>10. ASSUME NEW i \in Instances, Exit(i) PROVE LinkedCallers'
    BY <1>10 DEF Exit, Down, IdleWorker, IdleCaller, TypeOK, CallerType, JobRunType, RunsPersist, LinkedCallers, Linked
<1>11. ASSUME NEW w \in Workers, NEW t \in Tasks, ClaimBackupTasks(w, t) PROVE UNCHANGED <<trig>>
    BY Zenon, <1>11 DEF ClaimBackupTasks
<1>12. ASSUME NEW w \in Workers,
      \/ MarkActive(w) \/ BadPayload(w) \/ AcquireTaskSlot(w) \/ WaitForSlot(w)
      \/ GiveUpSlot(w) \/ ExecuteCreatesRow(w) \/ ExecuteFailsEarly(w) \/ ExecuteEnds(w)
      \/ ExecuteUnsaved(w) \/ PostProcess(w) \/ FinishBackupTask(w) \/ LoseTask(w)
      \/ ClaimFinalization(w) \/ LeaveRun(w) \/ DatabaseFault(w) \/ ReleaseJob(w)
      \/ FinishJob(w) \/ RenewLease(w)
    PROVE  UNCHANGED <<trig>>
    BY Zenon, <1>12 DEF MarkActive, BadPayload, AcquireTaskSlot, WaitForSlot, GiveUpSlot,
        ExecuteCreatesRow, ExecuteFailsEarly, ExecuteEnds, ExecuteUnsaved,
        PostProcess, FinishBackupTask, LoseTask, ClaimFinalization, LeaveRun,
        DatabaseFault, ReleaseJob, FinishJob, RenewLease
<1>13. ASSUME NEW t \in Tasks, LeaseExpires(t) PROVE UNCHANGED <<trig>>
    BY <1>13 DEF LeaseExpires
<1>14. ASSUME NEW i \in Instances,
      \/ Boot(i) \/ LoseLock(i) \/ Stop(i)
    PROVE  UNCHANGED <<trig>>
    BY Zenon, <1>14 DEF Boot, LoseLock, Stop
<1>15. ASSUME NEW i \in Instances, NEW pool \in SUBSET Workers, Start(i, pool) PROVE UNCHANGED <<trig>>
    BY Zenon, <1>15 DEF Start
<1> QED
    BY <1>1, <1>2, <1>3, <1>4, <1>5, <1>6, <1>7, <1>8, <1>9, <1>10, <1>11, <1>12,
       <1>13, <1>14, <1>15
    DEF Next, TriggerStep, TaskStep, ProcessStep, vars

LEMMA LinkedWorkersNext == ASSUME TypeOK, Linked, TasksPersist, [Next]_vars PROVE LinkedWorkers'
<1>1. CASE UNCHANGED <<wrk>>
    BY Zenon, <1>1, TaskParts DEF LinkedWorkers, Linked, TasksPersist
<1>2. ASSUME NEW w \in Workers, NEW t \in Tasks, ClaimBackupTasks(w, t) PROVE LinkedWorkers'
    BY <1>2 DEF ClaimBackupTasks, Claimable, TypeOK, WorkerType, TaskType, TasksPersist, LinkedWorkers, Linked
<1>3. ASSUME NEW w \in Workers, MarkActive(w) PROVE LinkedWorkers'
    BY <1>3 DEF MarkActive, TypeOK, WorkerType, TaskType, TasksPersist, LinkedWorkers, Linked
<1>4. ASSUME NEW w \in Workers, BadPayload(w) PROVE LinkedWorkers'
    BY <1>4 DEF BadPayload, TypeOK, WorkerType, TaskType, TasksPersist, LinkedWorkers, Linked
<1>5. ASSUME NEW w \in Workers, AcquireTaskSlot(w) PROVE LinkedWorkers'
    BY <1>5 DEF AcquireTaskSlot, TypeOK, WorkerType, TaskType, TasksPersist, LinkedWorkers, Linked
<1>6. ASSUME NEW w \in Workers, WaitForSlot(w) PROVE LinkedWorkers'
    BY <1>6 DEF WaitForSlot, TypeOK, WorkerType, TaskType, TasksPersist, LinkedWorkers, Linked
<1>7. ASSUME NEW w \in Workers, GiveUpSlot(w) PROVE LinkedWorkers'
    BY <1>7 DEF GiveUpSlot, IdleWorker, TypeOK, WorkerType, TaskType, TasksPersist, LinkedWorkers, Linked
<1>8. ASSUME NEW w \in Workers, ExecuteCreatesRow(w) PROVE LinkedWorkers'
    BY <1>8 DEF ExecuteCreatesRow, TypeOK, WorkerType, TaskType, TasksPersist, LinkedWorkers, Linked
<1>9. ASSUME NEW w \in Workers, ExecuteFailsEarly(w) PROVE LinkedWorkers'
    BY <1>9 DEF ExecuteFailsEarly, TypeOK, WorkerType, TaskType, TasksPersist, LinkedWorkers, Linked
<1>10. ASSUME NEW w \in Workers, ExecuteEnds(w) PROVE LinkedWorkers'
    BY <1>10 DEF ExecuteEnds, TypeOK, WorkerType, TaskType, TasksPersist, LinkedWorkers, Linked
<1>11. ASSUME NEW w \in Workers, ExecuteUnsaved(w) PROVE LinkedWorkers'
    BY <1>11 DEF ExecuteUnsaved, TypeOK, WorkerType, TaskType, TasksPersist, LinkedWorkers, Linked
<1>12. ASSUME NEW w \in Workers, PostProcess(w) PROVE LinkedWorkers'
    BY <1>12 DEF PostProcess, TypeOK, WorkerType, TaskType, TasksPersist, LinkedWorkers, Linked
<1>13. ASSUME NEW w \in Workers, FinishBackupTask(w) PROVE LinkedWorkers'
    BY <1>13 DEF FinishBackupTask, TypeOK, WorkerType, TaskType, TasksPersist, LinkedWorkers, Linked
<1>14. ASSUME NEW w \in Workers, LoseTask(w) PROVE LinkedWorkers'
    BY <1>14 DEF LoseTask, Returned, IdleWorker, TypeOK, WorkerType, TaskType, TasksPersist, LinkedWorkers, Linked
<1>15. ASSUME NEW w \in Workers, ClaimFinalization(w) PROVE LinkedWorkers'
    BY <1>15 DEF ClaimFinalization, TypeOK, WorkerType, TaskType, TasksPersist, LinkedWorkers, Linked
<1>16. ASSUME NEW w \in Workers, LeaveRun(w) PROVE LinkedWorkers'
    BY <1>16 DEF LeaveRun, Returned, IdleWorker, TypeOK, WorkerType, TaskType, TasksPersist, LinkedWorkers, Linked
<1>17. ASSUME NEW w \in Workers, DatabaseFault(w) PROVE LinkedWorkers'
    BY <1>17 DEF DatabaseFault, Returned, IdleWorker, TypeOK, WorkerType, TaskType, TasksPersist, LinkedWorkers, Linked
<1>18. ASSUME NEW w \in Workers, ReleaseJob(w) PROVE LinkedWorkers'
    BY <1>18 DEF ReleaseJob, TypeOK, WorkerType, TaskType, TasksPersist, LinkedWorkers, Linked
<1>19. ASSUME NEW w \in Workers, FinishJob(w) PROVE LinkedWorkers'
    BY <1>19 DEF FinishJob, Returned, IdleWorker, TypeOK, WorkerType, TaskType, TasksPersist, LinkedWorkers, Linked
<1>20. ASSUME NEW w \in Workers, RenewLease(w) PROVE LinkedWorkers'
    BY <1>20 DEF RenewLease, Executing, TypeOK, WorkerType, TaskType, TasksPersist, LinkedWorkers, Linked
<1>21. ASSUME NEW i \in Instances, Boot(i) PROVE LinkedWorkers'
    BY <1>21 DEF Boot, TypeOK, WorkerType, TaskType, TasksPersist, LinkedWorkers, Linked
<1>22. ASSUME NEW i \in Instances, NEW pool \in SUBSET Workers, Start(i, pool) PROVE LinkedWorkers'
    BY <1>22 DEF Start, IdleWorker, Recoverable, TypeOK, WorkerType, TaskType, TasksPersist, LinkedWorkers, Linked
<1>23. ASSUME NEW i \in Instances, Stop(i) PROVE LinkedWorkers'
    BY <1>23 DEF Stop, IdleWorker, TypeOK, WorkerType, TaskType, TasksPersist, LinkedWorkers, Linked
<1>24. ASSUME NEW i \in Instances, Crash(i) PROVE LinkedWorkers'
    BY <1>24 DEF Crash, Down, IdleWorker, IdleCaller, TypeOK, WorkerType, TaskType, TasksPersist, LinkedWorkers, Linked
<1>25. ASSUME NEW i \in Instances, Exit(i) PROVE LinkedWorkers'
    BY <1>25 DEF Exit, Down, IdleWorker, IdleCaller, TypeOK, WorkerType, TaskType, TasksPersist, LinkedWorkers, Linked
<1>26. ASSUME NEW c \in Callers, NEW i \in Instances, NEW j \in Jobs, NEW sched \in BOOLEAN, TriggerCheck(c, i, j, sched)
      PROVE UNCHANGED <<wrk>>
    BY Zenon, <1>26 DEF TriggerCheck
<1>27. ASSUME NEW c \in Callers,
      \/ TriggerBusy(c) \/ TriggerClaim(c) \/ TriggerCreate(c) \/ TriggerCreateFails(c)
      \/ TriggerEnqueue(c) \/ TriggerEnqueueFails(c)
    PROVE  UNCHANGED <<wrk>>
    BY Zenon, <1>27 DEF TriggerBusy, TriggerClaim, TriggerCreate, TriggerCreateFails, TriggerEnqueue,
        TriggerEnqueueFails
<1>28. ASSUME NEW t \in Tasks, LeaseExpires(t) PROVE UNCHANGED <<wrk>>
    BY <1>28 DEF LeaseExpires
<1>29. ASSUME NEW i \in Instances, LoseLock(i) PROVE UNCHANGED <<wrk>>
    BY <1>29 DEF LoseLock
<1> QED
    BY <1>1, <1>2, <1>3, <1>4, <1>5, <1>6, <1>7, <1>8, <1>9, <1>10, <1>11, <1>12,
       <1>13, <1>14, <1>15, <1>16, <1>17, <1>18, <1>19, <1>20, <1>21, <1>22, <1>23,
       <1>24, <1>25, <1>26, <1>27, <1>28, <1>29
    DEF Next, TriggerStep, TaskStep, ProcessStep, vars

LEMMA OwnedNext == ASSUME TypeOK, Linked, Owned, [Next]_vars PROVE Owned'
<1>1. CASE UNCHANGED <<task, trig>>
    BY Zenon, <1>1, TaskParts DEF Owned
<1>2. ASSUME NEW c \in Callers, NEW i \in Instances, NEW j \in Jobs, NEW sched \in BOOLEAN, TriggerCheck(c, i, j, sched)
      PROVE Owned'
    BY <1>2, TaskParts, TasksOfRun, NoneFresh DEF TriggerCheck, TypeOK, TaskType, CallerType, LinkedTasks, LinkedCallers, Linked, Owned
<1>3. ASSUME NEW c \in Callers, TriggerBusy(c) PROVE Owned'
    BY <1>3, TaskParts, TasksOfRun, NoneFresh DEF TriggerBusy, IsNextRun, IdleCaller, TypeOK, TaskType, CallerType, LinkedTasks, LinkedCallers, Linked, Owned
<1>4. ASSUME NEW c \in Callers, TriggerClaim(c) PROVE Owned'
    BY <1>4, TaskParts, TasksOfRun, NoneFresh DEF TriggerClaim, TypeOK, TaskType, CallerType, LinkedTasks, LinkedCallers, Linked, Owned
<1>5. ASSUME NEW c \in Callers, TriggerCreate(c) PROVE Owned'
    BY <1>5, TaskParts, TasksOfRun, NoneFresh DEF TriggerCreate, IsNextRun, TypeOK, TaskType, CallerType, LinkedTasks, LinkedCallers, Linked, Owned
<1>6. ASSUME NEW c \in Callers, TriggerCreateFails(c) PROVE Owned'
    BY <1>6, TaskParts, TasksOfRun, NoneFresh DEF TriggerCreateFails, IdleCaller, TypeOK, TaskType, CallerType, LinkedTasks, LinkedCallers, Linked, Owned
<1>7. ASSUME NEW c \in Callers, TriggerEnqueue(c) PROVE Owned'
    BY <1>7, TaskParts, TasksOfRun, NoneFresh DEF TriggerEnqueue, IdleCaller, TypeOK, TaskType, CallerType, LinkedTasks, LinkedCallers, Linked, Owned
<1>8. ASSUME NEW c \in Callers, TriggerEnqueueFails(c) PROVE Owned'
    BY <1>8, TaskParts, TasksOfRun, NoneFresh DEF TriggerEnqueueFails, IdleCaller, TypeOK, TaskType, CallerType, LinkedTasks, LinkedCallers, Linked, Owned
<1>9. ASSUME NEW w \in Workers, NEW t \in Tasks, ClaimBackupTasks(w, t) PROVE Owned'
    BY <1>9, TaskParts, TasksOfRun, NoneFresh DEF ClaimBackupTasks, Claimable, TypeOK, TaskType, CallerType, LinkedTasks, LinkedCallers, Linked, Owned
<1>10. ASSUME NEW w \in Workers, BadPayload(w) PROVE Owned'
    BY <1>10, TaskParts, TasksOfRun, NoneFresh DEF BadPayload, TypeOK, TaskType, CallerType, LinkedTasks, LinkedCallers, Linked, Owned
<1>11. ASSUME NEW w \in Workers, FinishBackupTask(w) PROVE Owned'
    BY <1>11, TaskParts, TasksOfRun, NoneFresh DEF FinishBackupTask, TypeOK, TaskType, CallerType, LinkedTasks, LinkedCallers, Linked, Owned
<1>12. ASSUME NEW w \in Workers, RenewLease(w) PROVE Owned'
    BY <1>12, TaskParts, TasksOfRun, NoneFresh DEF RenewLease, Executing, TypeOK, TaskType, CallerType, LinkedTasks, LinkedCallers, Linked, Owned
<1>13. ASSUME NEW t \in Tasks, LeaseExpires(t) PROVE Owned'
    BY <1>13, TaskParts, TasksOfRun, NoneFresh DEF LeaseExpires, TypeOK, TaskType, CallerType, LinkedTasks, LinkedCallers, Linked, Owned
<1>14. ASSUME NEW i \in Instances, Crash(i) PROVE Owned'
    BY <1>14, TaskParts, TasksOfRun, NoneFresh DEF Crash, Down, IdleWorker, IdleCaller, TypeOK, TaskType, CallerType, LinkedTasks, LinkedCallers, Linked, Owned
<1>15. ASSUME NEW i \in Instances, Exit(i) PROVE Owned'
    BY <1>15, TaskParts, TasksOfRun, NoneFresh DEF Exit, Down, IdleWorker, IdleCaller, TypeOK, TaskType, CallerType, LinkedTasks, LinkedCallers, Linked, Owned
<1>16. ASSUME NEW w \in Workers,
      \/ MarkActive(w) \/ AcquireTaskSlot(w) \/ WaitForSlot(w) \/ GiveUpSlot(w)
      \/ ExecuteCreatesRow(w) \/ ExecuteFailsEarly(w) \/ ExecuteEnds(w)
      \/ ExecuteUnsaved(w) \/ PostProcess(w) \/ LoseTask(w) \/ ClaimFinalization(w)
      \/ LeaveRun(w) \/ DatabaseFault(w) \/ ReleaseJob(w) \/ FinishJob(w)
    PROVE  UNCHANGED <<task, trig>>
    BY Zenon, <1>16 DEF MarkActive, AcquireTaskSlot, WaitForSlot, GiveUpSlot, ExecuteCreatesRow,
        ExecuteFailsEarly, ExecuteEnds, ExecuteUnsaved, PostProcess, LoseTask,
        ClaimFinalization, LeaveRun, DatabaseFault, ReleaseJob, FinishJob
<1>17. ASSUME NEW i \in Instances,
      \/ Boot(i) \/ LoseLock(i) \/ Stop(i)
    PROVE  UNCHANGED <<task, trig>>
    BY Zenon, <1>17 DEF Boot, LoseLock, Stop
<1>18. ASSUME NEW i \in Instances, NEW pool \in SUBSET Workers, Start(i, pool)
      PROVE UNCHANGED <<task, trig>>
    BY Zenon, <1>18 DEF Start
<1> QED
    BY <1>1, <1>2, <1>3, <1>4, <1>5, <1>6, <1>7, <1>8, <1>9, <1>10, <1>11, <1>12,
       <1>13, <1>14, <1>15, <1>16, <1>17, <1>18
    DEF Next, TriggerStep, TaskStep, ProcessStep, vars

LEMMA NoNewFinalizerNext == 
    ASSUME TypeOK, \A w \in Workers : ~ClaimFinalization(w), [Next]_vars
    PROVE NoNewFinalizer
<1>1. CASE UNCHANGED <<wrk>>
    BY Zenon, <1>1, TaskParts DEF NoNewFinalizer
<1>2. ASSUME NEW w \in Workers, NEW t \in Tasks, ClaimBackupTasks(w, t) PROVE NoNewFinalizer
    BY <1>2 DEF ClaimBackupTasks, Claimable, TypeOK, WorkerType, NoNewFinalizer
<1>3. ASSUME NEW w \in Workers, MarkActive(w) PROVE NoNewFinalizer
    BY <1>3 DEF MarkActive, TypeOK, WorkerType, NoNewFinalizer
<1>4. ASSUME NEW w \in Workers, BadPayload(w) PROVE NoNewFinalizer
    BY Zenon, <1>4 DEF BadPayload, TypeOK, WorkerType, NoNewFinalizer
<1>5. ASSUME NEW w \in Workers, AcquireTaskSlot(w) PROVE NoNewFinalizer
    BY <1>5 DEF AcquireTaskSlot, TypeOK, WorkerType, NoNewFinalizer
<1>6. ASSUME NEW w \in Workers, WaitForSlot(w) PROVE NoNewFinalizer
    BY <1>6 DEF WaitForSlot, TypeOK, WorkerType, NoNewFinalizer
<1>7. ASSUME NEW w \in Workers, GiveUpSlot(w) PROVE NoNewFinalizer
    BY Zenon, <1>7 DEF GiveUpSlot, IdleWorker, TypeOK, WorkerType, NoNewFinalizer
<1>8. ASSUME NEW w \in Workers, ExecuteCreatesRow(w) PROVE NoNewFinalizer
    BY Zenon, <1>8 DEF ExecuteCreatesRow, TypeOK, WorkerType, NoNewFinalizer
<1>9. ASSUME NEW w \in Workers, ExecuteFailsEarly(w) PROVE NoNewFinalizer
    BY <1>9 DEF ExecuteFailsEarly, TypeOK, WorkerType, NoNewFinalizer
<1>10. ASSUME NEW w \in Workers, ExecuteEnds(w) PROVE NoNewFinalizer
    BY <1>10 DEF ExecuteEnds, TypeOK, WorkerType, NoNewFinalizer
<1>11. ASSUME NEW w \in Workers, ExecuteUnsaved(w) PROVE NoNewFinalizer
    BY Zenon, <1>11 DEF ExecuteUnsaved, TypeOK, WorkerType, NoNewFinalizer
<1>12. ASSUME NEW w \in Workers, PostProcess(w) PROVE NoNewFinalizer
    BY <1>12 DEF PostProcess, TypeOK, WorkerType, NoNewFinalizer
<1>13. ASSUME NEW w \in Workers, FinishBackupTask(w) PROVE NoNewFinalizer
    BY <1>13 DEF FinishBackupTask, TypeOK, WorkerType, NoNewFinalizer
<1>14. ASSUME NEW w \in Workers, LoseTask(w) PROVE NoNewFinalizer
    BY Zenon, <1>14 DEF LoseTask, Returned, IdleWorker, TypeOK, WorkerType, NoNewFinalizer
<1>15. ASSUME NEW w \in Workers, LeaveRun(w) PROVE NoNewFinalizer
    BY Zenon, <1>15 DEF LeaveRun, Returned, IdleWorker, TypeOK, WorkerType, NoNewFinalizer
<1>16. ASSUME NEW w \in Workers, DatabaseFault(w) PROVE NoNewFinalizer
    BY Zenon, <1>16 DEF DatabaseFault, Returned, IdleWorker, TypeOK, WorkerType, NoNewFinalizer
<1>17. ASSUME NEW w \in Workers, ReleaseJob(w) PROVE NoNewFinalizer
    BY Zenon, <1>17 DEF ReleaseJob, TypeOK, WorkerType, NoNewFinalizer
<1>18. ASSUME NEW w \in Workers, FinishJob(w) PROVE NoNewFinalizer
    BY Zenon, <1>18 DEF FinishJob, Returned, IdleWorker, TypeOK, WorkerType, NoNewFinalizer
<1>19. ASSUME NEW w \in Workers, RenewLease(w) PROVE NoNewFinalizer
    BY <1>19 DEF RenewLease, Executing, TypeOK, WorkerType, NoNewFinalizer
<1>20. ASSUME NEW i \in Instances, Boot(i) PROVE NoNewFinalizer
    BY Zenon, <1>20 DEF Boot, TypeOK, WorkerType, NoNewFinalizer
<1>21. ASSUME NEW i \in Instances, NEW pool \in SUBSET Workers, Start(i, pool) PROVE NoNewFinalizer
    BY Zenon, <1>21 DEF Start, IdleWorker, Recoverable, TypeOK, WorkerType, NoNewFinalizer
<1>22. ASSUME NEW i \in Instances, Stop(i) PROVE NoNewFinalizer
    BY <1>22 DEF Stop, IdleWorker, TypeOK, WorkerType, NoNewFinalizer
<1>23. ASSUME NEW i \in Instances, Crash(i) PROVE NoNewFinalizer
    BY Zenon, <1>23 DEF Crash, Down, IdleWorker, IdleCaller, TypeOK, WorkerType, NoNewFinalizer
<1>24. ASSUME NEW i \in Instances, Exit(i) PROVE NoNewFinalizer
    BY Zenon, <1>24 DEF Exit, Down, IdleWorker, IdleCaller, TypeOK, WorkerType, NoNewFinalizer
<1>25. ASSUME NEW c \in Callers, NEW i \in Instances, NEW j \in Jobs, NEW sched \in BOOLEAN, TriggerCheck(c, i, j, sched)
      PROVE UNCHANGED <<wrk>>
    BY Zenon, <1>25 DEF TriggerCheck
<1>26. ASSUME NEW c \in Callers,
      \/ TriggerBusy(c) \/ TriggerClaim(c) \/ TriggerCreate(c) \/ TriggerCreateFails(c)
      \/ TriggerEnqueue(c) \/ TriggerEnqueueFails(c)
    PROVE  UNCHANGED <<wrk>>
    BY Zenon, <1>26 DEF TriggerBusy, TriggerClaim, TriggerCreate, TriggerCreateFails, TriggerEnqueue,
        TriggerEnqueueFails
<1>27. ASSUME NEW t \in Tasks, LeaseExpires(t) PROVE UNCHANGED <<wrk>>
    BY <1>27 DEF LeaseExpires
<1>28. ASSUME NEW i \in Instances, LoseLock(i) PROVE UNCHANGED <<wrk>>
    BY <1>28 DEF LoseLock
<1> QED
    BY <1>1, <1>2, <1>3, <1>4, <1>5, <1>6, <1>7, <1>8, <1>9, <1>10, <1>11, <1>12,
       <1>13, <1>14, <1>15, <1>16, <1>17, <1>18, <1>19, <1>20, <1>21, <1>22, <1>23,
       <1>24, <1>25, <1>26, <1>27, <1>28
    DEF Next, TriggerStep, TaskStep, ProcessStep, vars


LEMMA MarkedNext == ASSUME TypeOK, Linked, Marked, RunsPersist, [Next]_vars PROVE Marked'
<1>1. ASSUME NEW w \in Workers, ClaimFinalization(w) PROVE Marked'
  <2>1. wrk[w].task \in Tasks /\ wrk[w].task[1] \in Runs
    BY Zenon, <1>1, TaskParts DEF ClaimFinalization, Linked, LinkedWorkers
  <2>2. jobRun'[wrk[w].task[1]].status = "waiting_copies"
    BY Zenon, <1>1, <2>1 DEF ClaimFinalization, TypeOK, JobRunType
  <2>3. ASSUME NEW v \in Workers, wrk'[v].pc \in {"release", "aggregate"}
        PROVE  jobRun'[wrk'[v].task[1]].status \notin {"none", "running"}
    <3>1. CASE v = w
        BY <1>1, <2>2, <3>1 DEF ClaimFinalization, TypeOK, WorkerType
    <3>2. CASE v # w
      <4>1. wrk'[v] = wrk[v]
        BY Zenon, <1>1, <3>2 DEF ClaimFinalization, TypeOK
      <4>2. wrk[v].task[1] \in Runs
        BY Zenon, <2>3, <4>1, TaskParts DEF Linked, LinkedWorkers
      <4> QED
        BY Zenon, <2>3, <4>1, <4>2 DEF Marked, RunsPersist
    <3> QED
        BY Zenon, <3>1, <3>2
  <2> QED
    BY Zenon, <2>3 DEF Marked
<1>2. CASE \A w \in Workers : ~ClaimFinalization(w)
  <2>1. NoNewFinalizer
    BY <1>2, NoNewFinalizerNext
  <2>2. ASSUME NEW v \in Workers, wrk[v].pc \in {"release", "aggregate"} PROVE wrk[v].task[1] \in Runs
    BY Zenon, <2>2, TaskParts DEF Linked, LinkedWorkers
  <2> QED
    BY Zenon, <2>1, <2>2 DEF NoNewFinalizer, Marked, RunsPersist
<1> QED
    BY <1>1, <1>2

LEMMA OneFinalizerNext == 
    ASSUME TypeOK, Linked, Marked, OneFinalizer, [Next]_vars
    PROVE OneFinalizer'
<1>1. ASSUME NEW w \in Workers, ClaimFinalization(w) PROVE OneFinalizer'
  <2>1. ASSUME NEW v \in Workers, v # w PROVE wrk'[v] = wrk[v]
    BY <1>1, <2>1 DEF ClaimFinalization, TypeOK
  <2>2. wrk'[w].task = wrk[w].task
    BY <1>1 DEF ClaimFinalization, TypeOK, WorkerType
  <2>3. ASSUME NEW v \in Workers, v # w, wrk'[v].pc \in {"release", "aggregate"}
        PROVE  wrk'[v].task[1] # wrk'[w].task[1]
    BY <1>1, <2>1, <2>2, <2>3 DEF ClaimFinalization, LastOfRun, Marked
  <2> QED
    BY <2>1, <2>3 DEF OneFinalizer
<1>2. CASE \A w \in Workers : ~ClaimFinalization(w)
    BY Zenon, <1>2, NoNewFinalizerNext DEF NoNewFinalizer, OneFinalizer
<1> QED
    BY <1>1, <1>2

LEMMA QueueInvNext == QueueInv /\ [Next]_vars => QueueInv'
<1> SUFFICES ASSUME QueueInv, [Next]_vars PROVE QueueInv'
    OBVIOUS
<1> TypeOK /\ Linked /\ Owned /\ Marked /\ OneFinalizer
    BY DEF QueueInv
<1>1. TypeOK'
    BY TypeNext
<1>2. RunsPersist /\ TasksPersist
    BY RunsPersistNext, TasksPersistNext
<1>3. Linked'
    BY Zenon, <1>2, LinkedRunsNext, LinkedTasksNext, LinkedCallersNext, LinkedWorkersNext DEF Linked
<1>4. Owned'
    BY OwnedNext
<1>5. Marked' /\ OneFinalizer'
    BY <1>2, MarkedNext, OneFinalizerNext
<1> QED
    BY <1>1, <1>3, <1>4, <1>5 DEF QueueInv

-----------------------------------------------------------------------------
\* The invariant the results below rest on.
THEOREM QueueInvariant == Spec => []QueueInv
<1>1. QueueInv /\ [Next]_vars => QueueInv'
    BY QueueInvNext
<1> QED
    BY InitInv, <1>1, PTL DEF Spec

\* Every variable of the queue keeps its type.
THEOREM TypeCorrect == Spec => []TypeOK
<1>1. QueueInv => TypeOK
    BY DEF QueueInv
<1> QED
    BY QueueInvariant, <1>1, PTL

\* ClaimBackupJobRunFinalization elects at most one worker per run, across any
\* number of processes, crashes and lapsed leases.
THEOREM OneFinalizerElected == Spec => []OneFinalizer
<1>1. QueueInv => OneFinalizer
    BY DEF QueueInv
<1> QED
    BY QueueInvariant, <1>1, PTL

\* A task that FinishBackupTask closed is never written again: only a running task
\* has an owner, and EnqueueBackupTasks inserts only tasks that do not exist.
THEOREM ClosedForever == Spec => ClosedTaskStaysClosed
<1>1. QueueInv /\ [Next]_vars
        => [\A t \in Tasks : task[t].status \in {"succeeded", "failed"} => task'[t] = task[t]]_vars
  <2> DEFINE Kept == \A t \in Tasks : task[t].status \in {"succeeded", "failed"} => task'[t] = task[t]
  <2> SUFFICES ASSUME QueueInv, [Next]_vars PROVE Kept
    OBVIOUS
  <2> TypeOK /\ Linked /\ Owned
    BY DEF QueueInv
  <2>1. CASE UNCHANGED <<task>>
      BY <2>1
  <2>2. ASSUME NEW c \in Callers, TriggerEnqueue(c) PROVE Kept
    <3>1. trig[c].run \in Runs /\ \A t \in Tasks : t[1] = trig[c].run => task[t].status = "none"
      BY Zenon, <2>2 DEF TriggerEnqueue, Linked, LinkedCallers, Owned
    <3> QED
      BY <2>2, <3>1, TasksOfRun DEF TriggerEnqueue
  <2>3. ASSUME NEW w \in Workers, NEW t \in Tasks, ClaimBackupTasks(w, t) PROVE Kept
      BY <2>3, TasksOfRun, NoneFresh DEF ClaimBackupTasks, Claimable, TypeOK, LinkedCallers, Linked, Owned
  <2>4. ASSUME NEW w \in Workers, BadPayload(w) PROVE Kept
      BY <2>4, TasksOfRun, NoneFresh DEF BadPayload, TypeOK, LinkedCallers, Linked, Owned
  <2>5. ASSUME NEW w \in Workers, FinishBackupTask(w) PROVE Kept
      BY <2>5, TasksOfRun, NoneFresh DEF FinishBackupTask, TypeOK, LinkedCallers, Linked, Owned
  <2>6. ASSUME NEW w \in Workers, RenewLease(w) PROVE Kept
      BY <2>6, TasksOfRun, NoneFresh DEF RenewLease, Executing, TypeOK, LinkedCallers, Linked, Owned
  <2>7. ASSUME NEW t \in Tasks, LeaseExpires(t) PROVE Kept
      BY <2>7, TasksOfRun, NoneFresh DEF LeaseExpires, TypeOK, LinkedCallers, Linked, Owned
  <2>8. ASSUME NEW c \in Callers, NEW i \in Instances, NEW j \in Jobs, NEW sched \in BOOLEAN, TriggerCheck(c, i, j, sched)
      PROVE UNCHANGED <<task>>
      BY Zenon, <2>8 DEF TriggerCheck
  <2>9. ASSUME NEW c \in Callers,
        \/ TriggerBusy(c) \/ TriggerClaim(c) \/ TriggerCreate(c) \/ TriggerCreateFails(c)
        \/ TriggerEnqueueFails(c)
      PROVE  UNCHANGED <<task>>
      BY Zenon, <2>9 DEF TriggerBusy, TriggerClaim, TriggerCreate, TriggerCreateFails,
          TriggerEnqueueFails
  <2>10. ASSUME NEW w \in Workers,
        \/ MarkActive(w) \/ AcquireTaskSlot(w) \/ WaitForSlot(w) \/ GiveUpSlot(w)
        \/ ExecuteCreatesRow(w) \/ ExecuteFailsEarly(w) \/ ExecuteEnds(w)
        \/ ExecuteUnsaved(w) \/ PostProcess(w) \/ LoseTask(w) \/ ClaimFinalization(w)
        \/ LeaveRun(w) \/ DatabaseFault(w) \/ ReleaseJob(w) \/ FinishJob(w)
      PROVE  UNCHANGED <<task>>
      BY Zenon, <2>10 DEF MarkActive, AcquireTaskSlot, WaitForSlot, GiveUpSlot, ExecuteCreatesRow,
          ExecuteFailsEarly, ExecuteEnds, ExecuteUnsaved, PostProcess, LoseTask,
          ClaimFinalization, LeaveRun, DatabaseFault, ReleaseJob, FinishJob
  <2>11. ASSUME NEW i \in Instances,
        \/ Boot(i) \/ LoseLock(i) \/ Stop(i) \/ Crash(i) \/ Exit(i)
      PROVE  UNCHANGED <<task>>
      BY Zenon, <2>11 DEF Boot, LoseLock, Stop, Crash, Down, Exit
  <2>12. ASSUME NEW i \in Instances, NEW pool \in SUBSET Workers, Start(i, pool) PROVE UNCHANGED <<task>>
      BY Zenon, <2>12 DEF Start
  <2> QED
      BY Zenon, <2>1, <2>2, <2>3, <2>4, <2>5, <2>6, <2>7, <2>8, <2>9, <2>10, <2>11, <2>12
      DEF Next, TriggerStep, TaskStep, ProcessStep, vars
<1> QED
    BY QueueInvariant, <1>1, PTL DEF ClosedTaskStaysClosed, Spec

-----------------------------------------------------------------------------
\* One process, and no election to move the scheduler.
SingleProcess == ~Cluster /\ \A i, k \in Instances : i = k

\* A call is under way only while the scheduler of its process runs, and the run it
\* created is one of its job and waits for its tasks.
CallsUnderWay == \A c \in Callers :
    /\ trig[c].pc # "idle" => proc[trig[c].inst] \notin {"down", "standby"}
    /\ trig[c].pc = "created" => jobRun[trig[c].run].status = "running" /\ jobRun[trig[c].run].job = trig[c].job

LEMMA DrainedNext == 
    ASSUME SingleProcess, QueueInv, CallsUnderWay, DrainedWhenFinalized, [Next]_vars
    PROVE DrainedWhenFinalized'
<1>1. CASE UNCHANGED <<jobRun, task>>
    BY Zenon, <1>1, TaskParts DEF DrainedWhenFinalized, HasOpenInRun, Open
<1>2. ASSUME NEW c \in Callers, TriggerBusy(c) PROVE DrainedWhenFinalized'
    BY <1>2, TaskParts, TasksOfRun, TasksOfRunExist DEF TriggerBusy, IsNextRun, IdleCaller, QueueInv, TypeOK, JobRunType, TaskType, LinkedTasks, LinkedCallers, Linked, Owned, CallsUnderWay, DrainedWhenFinalized, HasOpenInRun, Open
<1>3. ASSUME NEW c \in Callers, TriggerCreate(c) PROVE DrainedWhenFinalized'
    BY <1>3, TaskParts, TasksOfRun, TasksOfRunExist DEF TriggerCreate, IsNextRun, QueueInv, TypeOK, JobRunType, TaskType, LinkedTasks, LinkedCallers, Linked, Owned, CallsUnderWay, DrainedWhenFinalized, HasOpenInRun, Open
<1>4. ASSUME NEW c \in Callers, TriggerEnqueue(c) PROVE DrainedWhenFinalized'
    BY <1>4, TaskParts, TasksOfRun, TasksOfRunExist DEF TriggerEnqueue, IdleCaller, QueueInv, TypeOK, JobRunType, TaskType, LinkedTasks, LinkedCallers, Linked, Owned, CallsUnderWay, DrainedWhenFinalized, HasOpenInRun, Open
<1>5. ASSUME NEW c \in Callers, TriggerEnqueueFails(c) PROVE DrainedWhenFinalized'
    BY <1>5, TaskParts, TasksOfRun, TasksOfRunExist DEF TriggerEnqueueFails, IdleCaller, QueueInv, TypeOK, JobRunType, TaskType, LinkedTasks, LinkedCallers, Linked, Owned, CallsUnderWay, DrainedWhenFinalized, HasOpenInRun, Open
<1>6. ASSUME NEW w \in Workers, NEW t \in Tasks, ClaimBackupTasks(w, t) PROVE DrainedWhenFinalized'
    BY <1>6, TaskParts, TasksOfRun, TasksOfRunExist DEF ClaimBackupTasks, Claimable, QueueInv, TypeOK, JobRunType, TaskType, LinkedTasks, LinkedCallers, Linked, Owned, CallsUnderWay, DrainedWhenFinalized, HasOpenInRun, Open
<1>7. ASSUME NEW w \in Workers, BadPayload(w) PROVE DrainedWhenFinalized'
    BY <1>7, TaskParts, TasksOfRun, TasksOfRunExist DEF BadPayload, QueueInv, TypeOK, JobRunType, TaskType, LinkedTasks, LinkedCallers, Linked, Owned, CallsUnderWay, DrainedWhenFinalized, HasOpenInRun, Open
<1>8. ASSUME NEW w \in Workers, FinishBackupTask(w) PROVE DrainedWhenFinalized'
    BY <1>8, TaskParts, TasksOfRun, TasksOfRunExist DEF FinishBackupTask, QueueInv, TypeOK, JobRunType, TaskType, LinkedTasks, LinkedCallers, Linked, Owned, CallsUnderWay, DrainedWhenFinalized, HasOpenInRun, Open
<1>9. ASSUME NEW w \in Workers, ClaimFinalization(w) PROVE DrainedWhenFinalized'
    BY <1>9, TaskParts, TasksOfRun, TasksOfRunExist DEF ClaimFinalization, LastOfRun, QueueInv, TypeOK, JobRunType, TaskType, LinkedTasks, LinkedCallers, Linked, Owned, CallsUnderWay, DrainedWhenFinalized, HasOpenInRun, Open
<1>10. ASSUME NEW w \in Workers, FinishJob(w) PROVE DrainedWhenFinalized'
  <2>1. wrk[w].task[1] \in Runs /\ jobRun[wrk[w].task[1]].status \notin {"none", "running"}
    BY Zenon, <1>10, TaskParts DEF FinishJob, QueueInv, Linked, LinkedWorkers, Marked
  <2>2. \A r \in Runs : HasOpenInRun(r)' = HasOpenInRun(r)
    BY Zenon, <1>10 DEF FinishJob, HasOpenInRun, Open
  <2>3. \A r \in Runs : jobRun'[r].status \notin {"none", "running"}
                          => jobRun[r].status \notin {"none", "running"}
    BY <1>10, <2>1 DEF FinishJob, QueueInv, TypeOK
  <2> QED
    BY Zenon, <2>2, <2>3 DEF DrainedWhenFinalized
<1>11. ASSUME NEW w \in Workers, RenewLease(w) PROVE DrainedWhenFinalized'
    BY <1>11, TaskParts, TasksOfRun, TasksOfRunExist DEF RenewLease, Executing, QueueInv, TypeOK, JobRunType, TaskType, LinkedTasks, LinkedCallers, Linked, Owned, CallsUnderWay, DrainedWhenFinalized, HasOpenInRun, Open
<1>12. ASSUME NEW t \in Tasks, LeaseExpires(t) PROVE DrainedWhenFinalized'
    BY <1>12, TaskParts, TasksOfRun, TasksOfRunExist DEF LeaseExpires, QueueInv, TypeOK, JobRunType, TaskType, LinkedTasks, LinkedCallers, Linked, Owned, CallsUnderWay, DrainedWhenFinalized, HasOpenInRun, Open
<1>13. ASSUME NEW i \in Instances, NEW pool \in SUBSET Workers, Start(i, pool)
      PROVE DrainedWhenFinalized'
    BY <1>13, TaskParts, TasksOfRun, TasksOfRunExist DEF Start, IdleWorker, Recoverable, QueueInv, TypeOK, JobRunType, TaskType, LinkedTasks, LinkedCallers, Linked, Owned, CallsUnderWay, DrainedWhenFinalized, HasOpenInRun, Open
<1>14. ASSUME NEW c \in Callers, NEW i \in Instances, NEW j \in Jobs, NEW sched \in BOOLEAN, TriggerCheck(c, i, j, sched)
      PROVE UNCHANGED <<jobRun, task>>
    BY Zenon, <1>14 DEF TriggerCheck
<1>15. ASSUME NEW c \in Callers,
      \/ TriggerClaim(c) \/ TriggerCreateFails(c)
    PROVE  UNCHANGED <<jobRun, task>>
    BY Zenon, <1>15 DEF TriggerClaim, TriggerCreateFails
<1>16. ASSUME NEW w \in Workers,
      \/ MarkActive(w) \/ AcquireTaskSlot(w) \/ WaitForSlot(w) \/ GiveUpSlot(w)
      \/ ExecuteCreatesRow(w) \/ ExecuteFailsEarly(w) \/ ExecuteEnds(w)
      \/ ExecuteUnsaved(w) \/ PostProcess(w) \/ LoseTask(w) \/ LeaveRun(w)
      \/ DatabaseFault(w) \/ ReleaseJob(w)
    PROVE  UNCHANGED <<jobRun, task>>
    BY Zenon, <1>16 DEF MarkActive, AcquireTaskSlot, WaitForSlot, GiveUpSlot, ExecuteCreatesRow,
        ExecuteFailsEarly, ExecuteEnds, ExecuteUnsaved, PostProcess, LoseTask,
        LeaveRun, DatabaseFault, ReleaseJob
<1>17. ASSUME NEW i \in Instances,
      \/ Boot(i) \/ LoseLock(i) \/ Stop(i) \/ Crash(i) \/ Exit(i)
    PROVE  UNCHANGED <<jobRun, task>>
    BY Zenon, <1>17 DEF Boot, LoseLock, Stop, Crash, Down, Exit
<1> QED
    BY <1>1, <1>2, <1>3, <1>4, <1>5, <1>6, <1>7, <1>8, <1>9, <1>10, <1>11, <1>12,
       <1>13, <1>14, <1>15, <1>16, <1>17
    DEF Next, TriggerStep, TaskStep, ProcessStep, vars

LEMMA CallsUnderWayNext == 
    ASSUME SingleProcess, QueueInv, CallsUnderWay, [Next]_vars
    PROVE CallsUnderWay'
<1>1. CASE UNCHANGED <<trig, jobRun, proc>>
    BY Zenon, <1>1, TaskParts DEF CallsUnderWay
<1>2. ASSUME NEW c \in Callers, NEW i \in Instances, NEW j \in Jobs, NEW sched \in BOOLEAN, TriggerCheck(c, i, j, sched)
      PROVE CallsUnderWay'
    BY <1>2, TaskParts DEF TriggerCheck, MayTrigger, SingleProcess, QueueInv, TypeOK, CallerType, JobRunType, LinkedCallers, LinkedWorkers, Linked, Owned, Marked, CallsUnderWay
<1>3. ASSUME NEW c \in Callers, TriggerBusy(c) PROVE CallsUnderWay'
    BY <1>3, TaskParts DEF TriggerBusy, IsNextRun, IdleCaller, SingleProcess, QueueInv, TypeOK, CallerType, JobRunType, LinkedCallers, LinkedWorkers, Linked, Owned, Marked, CallsUnderWay
<1>4. ASSUME NEW c \in Callers, TriggerClaim(c) PROVE CallsUnderWay'
    BY <1>4, TaskParts DEF TriggerClaim, SingleProcess, QueueInv, TypeOK, CallerType, JobRunType, LinkedCallers, LinkedWorkers, Linked, Owned, Marked, CallsUnderWay
<1>5. ASSUME NEW c \in Callers, TriggerCreate(c) PROVE CallsUnderWay'
    BY <1>5, TaskParts DEF TriggerCreate, IsNextRun, SingleProcess, QueueInv, TypeOK, CallerType, JobRunType, LinkedCallers, LinkedWorkers, Linked, Owned, Marked, CallsUnderWay
<1>6. ASSUME NEW c \in Callers, TriggerCreateFails(c) PROVE CallsUnderWay'
    BY <1>6, TaskParts DEF TriggerCreateFails, IdleCaller, SingleProcess, QueueInv, TypeOK, CallerType, JobRunType, LinkedCallers, LinkedWorkers, Linked, Owned, Marked, CallsUnderWay
<1>7. ASSUME NEW c \in Callers, TriggerEnqueue(c) PROVE CallsUnderWay'
    BY <1>7, TaskParts DEF TriggerEnqueue, IdleCaller, SingleProcess, QueueInv, TypeOK, CallerType, JobRunType, LinkedCallers, LinkedWorkers, Linked, Owned, Marked, CallsUnderWay
<1>8. ASSUME NEW c \in Callers, TriggerEnqueueFails(c) PROVE CallsUnderWay'
    BY <1>8, TaskParts DEF TriggerEnqueueFails, IdleCaller, SingleProcess, QueueInv, TypeOK, CallerType, JobRunType, LinkedCallers, LinkedWorkers, Linked, Owned, Marked, CallsUnderWay
<1>9. ASSUME NEW w \in Workers, ClaimFinalization(w) PROVE CallsUnderWay'
  <2>1. wrk[w].task \in Tasks /\ wrk[w].task[1] \in Runs /\ task[wrk[w].task].status # "none"
    BY Zenon, <1>9, TaskParts DEF ClaimFinalization, QueueInv, Linked, LinkedWorkers
  <2>2. \A c \in Callers : trig[c].pc = "created" => trig[c].run # wrk[w].task[1]
    BY Zenon, <2>1 DEF QueueInv, Owned
  <2> QED
    BY <1>9, <2>1, <2>2 DEF ClaimFinalization, QueueInv, TypeOK, Linked, LinkedCallers, CallsUnderWay
<1>10. ASSUME NEW w \in Workers, FinishJob(w) PROVE CallsUnderWay'
    BY <1>10, TaskParts DEF FinishJob, Returned, IdleWorker, SingleProcess, QueueInv, TypeOK, CallerType, JobRunType, LinkedCallers, LinkedWorkers, Linked, Owned, Marked, CallsUnderWay
<1>11. ASSUME NEW i \in Instances, Boot(i) PROVE CallsUnderWay'
    BY <1>11, TaskParts DEF Boot, SingleProcess, QueueInv, TypeOK, CallerType, JobRunType, LinkedCallers, LinkedWorkers, Linked, Owned, Marked, CallsUnderWay
<1>12. ASSUME NEW i \in Instances, NEW pool \in SUBSET Workers, Start(i, pool) PROVE CallsUnderWay'
    BY <1>12, TaskParts DEF Start, IdleWorker, Recoverable, SingleProcess, QueueInv, TypeOK, CallerType, JobRunType, LinkedCallers, LinkedWorkers, Linked, Owned, Marked, CallsUnderWay
<1>13. ASSUME NEW i \in Instances, LoseLock(i) PROVE CallsUnderWay'
    BY <1>13, TaskParts DEF LoseLock, SingleProcess, QueueInv, TypeOK, CallerType, JobRunType, LinkedCallers, LinkedWorkers, Linked, Owned, Marked, CallsUnderWay
<1>14. ASSUME NEW i \in Instances, Stop(i) PROVE CallsUnderWay'
    BY <1>14, TaskParts DEF Stop, IdleWorker, SingleProcess, QueueInv, TypeOK, CallerType, JobRunType, LinkedCallers, LinkedWorkers, Linked, Owned, Marked, CallsUnderWay
<1>15. ASSUME NEW i \in Instances, Crash(i) PROVE CallsUnderWay'
    BY <1>15, TaskParts DEF Crash, Down, IdleWorker, IdleCaller, SingleProcess, QueueInv, TypeOK, CallerType, JobRunType, LinkedCallers, LinkedWorkers, Linked, Owned, Marked, CallsUnderWay
<1>16. ASSUME NEW i \in Instances, Exit(i) PROVE CallsUnderWay'
    BY <1>16, TaskParts DEF Exit, Down, IdleWorker, IdleCaller, SingleProcess, QueueInv, TypeOK, CallerType, JobRunType, LinkedCallers, LinkedWorkers, Linked, Owned, Marked, CallsUnderWay
<1>17. ASSUME NEW w \in Workers, NEW t \in Tasks, ClaimBackupTasks(w, t)
      PROVE UNCHANGED <<trig, jobRun, proc>>
    BY Zenon, <1>17 DEF ClaimBackupTasks
<1>18. ASSUME NEW w \in Workers,
      \/ MarkActive(w) \/ BadPayload(w) \/ AcquireTaskSlot(w) \/ WaitForSlot(w)
      \/ GiveUpSlot(w) \/ ExecuteCreatesRow(w) \/ ExecuteFailsEarly(w) \/ ExecuteEnds(w)
      \/ ExecuteUnsaved(w) \/ PostProcess(w) \/ FinishBackupTask(w) \/ LoseTask(w)
      \/ LeaveRun(w) \/ DatabaseFault(w) \/ ReleaseJob(w) \/ RenewLease(w)
    PROVE  UNCHANGED <<trig, jobRun, proc>>
    BY Zenon, <1>18 DEF MarkActive, BadPayload, AcquireTaskSlot, WaitForSlot, GiveUpSlot,
        ExecuteCreatesRow, ExecuteFailsEarly, ExecuteEnds, ExecuteUnsaved,
        PostProcess, FinishBackupTask, LoseTask, LeaveRun, DatabaseFault, ReleaseJob,
        RenewLease
<1>19. ASSUME NEW t \in Tasks, LeaseExpires(t) PROVE UNCHANGED <<trig, jobRun, proc>>
    BY <1>19 DEF LeaseExpires
<1> QED
    BY <1>1, <1>2, <1>3, <1>4, <1>5, <1>6, <1>7, <1>8, <1>9, <1>10, <1>11, <1>12,
       <1>13, <1>14, <1>15, <1>16, <1>17, <1>18, <1>19
    DEF Next, TriggerStep, TaskStep, ProcessStep, vars

\* Of a service that is one process: a run is marked for finalization, and given its
\* result, only when none of its tasks is open, whatever crashes, lapses and database
\* errors come between.
THEOREM FinalizedRunsAreDrained == ASSUME SingleProcess PROVE Spec => []DrainedWhenFinalized
<1>1. Init => CallsUnderWay /\ DrainedWhenFinalized
    BY DEF Init, IdleCaller, CallsUnderWay, DrainedWhenFinalized
<1>2. QueueInv /\ CallsUnderWay /\ DrainedWhenFinalized /\ [Next]_vars
        => (CallsUnderWay /\ DrainedWhenFinalized)'
    BY DrainedNext, CallsUnderWayNext
<1> QED
    BY QueueInvariant, <1>1, <1>2, PTL DEF Spec

=============================================================================
