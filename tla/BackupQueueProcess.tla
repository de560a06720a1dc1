------------------------- MODULE BackupQueueProcess -------------------------
(***************************************************************************)
(* What holds of the queue of a single process, for any number of workers, *)
(* callers, jobs, VMs, crashes and restarts: a job is not run twice at a   *)
(* time, a task is not executed twice, and a job that is held is released. *)
(***************************************************************************)
EXTENDS BackupQueueProofs

-----------------------------------------------------------------------------
(* The steps of a worker with its task. *)

\* The worker goes on with its task, or leaves it.
Moves(w) ==
    \/ MarkActive(w) \/ BadPayload(w) \/ AcquireTaskSlot(w) \/ WaitForSlot(w) \/ ExecuteCreatesRow(w)
    \/ ExecuteFailsEarly(w) \/ ExecuteEnds(w) \/ ExecuteUnsaved(w) \/ PostProcess(w) \/ FinishBackupTask(w)
    \/ ClaimFinalization(w) \/ ReleaseJob(w) \/ RenewLease(w)
Leaves(w) == LoseTask(w) \/ LeaveRun(w) \/ DatabaseFault(w) \/ FinishJob(w) \/ GiveUpSlot(w)

\* The worker keeps its process, its task and whether it was told to stop.
GoesOn(w) ==
    /\ UNCHANGED proc
    /\ \A v \in Workers \ {w} : wrk'[v] = wrk[v]
    /\ wrk[w].pc \notin {"unused", "idle"} /\ wrk'[w].pc \notin {"unused", "idle", "claimed"}
    /\ wrk'[w].inst = wrk[w].inst /\ wrk'[w].stop = wrk[w].stop /\ wrk'[w].task = wrk[w].task

\* A worker that goes on is the only one to move, and stays with its task.
LEMMA Moving == ASSUME TypeOK, NEW w \in Workers, Moves(w) PROVE GoesOn(w)
<1> wrk \in [Workers -> WorkerType]
    BY Zenon DEF TypeOK
<1>1. CASE MarkActive(w)
    BY Zenon, <1>1 DEF MarkActive, WorkerType, GoesOn
<1>2. CASE BadPayload(w)
    BY Zenon, <1>2 DEF BadPayload, WorkerType, GoesOn
<1>3. CASE AcquireTaskSlot(w)
    BY <1>3 DEF AcquireTaskSlot, WorkerType, GoesOn
<1>4. CASE WaitForSlot(w)
    BY Zenon, <1>4 DEF WaitForSlot, WorkerType, GoesOn
<1>5. CASE ExecuteCreatesRow(w)
    BY <1>5 DEF ExecuteCreatesRow, WorkerType, GoesOn
<1>6. CASE ExecuteFailsEarly(w)
    BY <1>6 DEF ExecuteFailsEarly, WorkerType, GoesOn
<1>7. CASE ExecuteEnds(w)
    BY <1>7 DEF ExecuteEnds, WorkerType, GoesOn
<1>8. CASE ExecuteUnsaved(w)
    BY Zenon, <1>8 DEF ExecuteUnsaved, WorkerType, GoesOn
<1>9. CASE PostProcess(w)
    BY Zenon, <1>9 DEF PostProcess, WorkerType, GoesOn
<1>10. CASE FinishBackupTask(w)
    BY Zenon, <1>10 DEF FinishBackupTask, WorkerType, GoesOn
<1>11. CASE ClaimFinalization(w)
    BY Zenon, <1>11 DEF ClaimFinalization, WorkerType, GoesOn
<1>12. CASE ReleaseJob(w)
    BY Zenon, <1>12 DEF ReleaseJob, WorkerType, GoesOn
<1>13. CASE RenewLease(w)
    BY Zenon, <1>13 DEF RenewLease, Executing, WorkerType, GoesOn
<1> QED
    BY Zenon, <1>1, <1>2, <1>3, <1>4, <1>5, <1>6, <1>7, <1>8, <1>9, <1>10, <1>11, <1>12, <1>13 DEF Moves

\* What a worker that leaves its task comes back as.
LEMMA ReturnedIs ==
    ASSUME NEW w \in Workers, NEW x, x = Returned(w) \/ (x = IdleWorker /\ wrk[w].stop)
    PROVE  /\ x.pc = (IF wrk[w].stop THEN "unused" ELSE "idle") /\ ~x.late /\ ~x.slot /\ ~x.stop
           /\ x.pc = "idle" => x.inst = wrk[w].inst
<1>1. CASE wrk[w].stop
    BY <1>1 DEF Returned, IdleWorker
<1>2. CASE ~wrk[w].stop
    BY <1>2 DEF Returned, IdleWorker
<1> QED BY Zenon, <1>1, <1>2

\* The worker is free again, or gone when it was told to stop.
Freed(w) ==
    /\ UNCHANGED <<proc, active, trig, task>>
    /\ \A v \in Workers \ {w} : wrk'[v] = wrk[v]
    /\ wrk[w].pc \notin {"unused", "idle", "claimed", "release"}
    /\ wrk'[w].pc = (IF wrk[w].stop THEN "unused" ELSE "idle")
    /\ ~wrk'[w].late /\ ~wrk'[w].slot /\ ~wrk'[w].stop
    /\ wrk'[w].pc = "idle" => wrk'[w].inst = wrk[w].inst

\* A worker that leaves its task is the only one to move.
LEMMA Leaving == ASSUME TypeOK, NEW w \in Workers, Leaves(w) PROVE Freed(w)
<1>1. /\ UNCHANGED <<proc, active, trig, task>> /\ wrk[w].pc \notin {"unused", "idle", "claimed", "release"}
      /\ \/ wrk' = [wrk EXCEPT ![w] = Returned(w)]
         \/ wrk' = [wrk EXCEPT ![w] = IdleWorker] /\ wrk[w].stop
    BY Zenon DEF Leaves, LoseTask, LeaveRun, DatabaseFault, FinishJob, GiveUpSlot
<1>2. \A v \in Workers : IF v = w THEN wrk'[v] = Returned(w) \/ (wrk'[v] = IdleWorker /\ wrk[w].stop)
                          ELSE wrk'[v] = wrk[v]
    BY Zenon, <1>1 DEF TypeOK
<1> QED BY Zenon, <1>1, <1>2, ReturnedIs DEF Freed

-----------------------------------------------------------------------------
(* The phases of the scheduler. *)

\* Workers exist and jobs are held only in a process whose scheduler was started; the
\* workers are told to stop exactly when the scheduler is.
Phases ==
    /\ \A i \in Instances : proc[i] # "deposed" /\ (proc[i] \in {"down", "standby"} => active[i] = {})
    /\ \A w \in Workers : wrk[w].pc # "unused" =>
         /\ proc[wrk[w].inst] \in {"leading", "stopped"}
         /\ wrk[w].stop <=> proc[wrk[w].inst] = "stopped"

\* Every step keeps the phases.
LEMMA PhasesNext ==
    ASSUME SingleProcess, QueueInv, CallsUnderWay, Phases, [Next]_vars
    PROVE Phases'
<1> USE DEF Phases
<1> TypeOK /\ LinkedCallers /\ LinkedWorkers
    BY DEF QueueInv, Linked
<1>1. CASE UNCHANGED <<proc, active, wrk>>
    BY Zenon, <1>1
<1>2. ASSUME NEW c \in Callers, TriggerClaim(c) PROVE Phases'
    BY Zenon, <1>2 DEF TriggerClaim, TypeOK, LinkedCallers, CallsUnderWay
<1>3. ASSUME NEW c \in Callers, TriggerCreateFails(c) PROVE Phases'
    BY <1>3 DEF TriggerCreateFails, TypeOK, LinkedCallers, CallsUnderWay
<1>4. ASSUME NEW c \in Callers, TriggerEnqueueFails(c) PROVE Phases'
    BY Zenon, <1>4 DEF TriggerEnqueueFails, TypeOK, LinkedCallers, CallsUnderWay
<1>5. ASSUME NEW w \in Workers, NEW t \in Tasks, ClaimBackupTasks(w, t) PROVE Phases'
    BY <1>5 DEF ClaimBackupTasks, TypeOK, WorkerType
<1>6. ASSUME NEW w \in Workers, Moves(w) PROVE Phases'
  <2>1. GoesOn(w)
    BY Zenon, <1>6, Moving
  <2>2. \A i \in Instances : proc'[i] # "deposed" /\ (proc'[i] \in {"down", "standby"} => active'[i] = {})
    <3>1. \A i \in Instances : active'[i] = active[i] \/ proc[i] \in {"leading", "stopped"}
      <4>1. CASE MarkActive(w)
        BY Zenon, <4>1 DEF MarkActive, TypeOK
      <4>2. CASE ReleaseJob(w)
        BY Zenon, <4>2 DEF ReleaseJob, TypeOK
      <4>3. CASE UNCHANGED active
        BY Zenon, <4>3
      <4> QED
        BY Zenon, <1>6, <4>1, <4>2, <4>3 DEF Moves, BadPayload, AcquireTaskSlot, WaitForSlot, ExecuteCreatesRow,
           ExecuteFailsEarly, ExecuteEnds, ExecuteUnsaved, PostProcess, FinishBackupTask, ClaimFinalization, RenewLease
    <3> QED BY Zenon, <2>1, <3>1 DEF GoesOn
  <2> QED BY SMT, <2>1, <2>2 DEF GoesOn
<1>10. ASSUME NEW w \in Workers, Leaves(w) PROVE Phases'
    BY SMT, <1>10, Leaving DEF Freed
<1>11. ASSUME NEW i \in Instances, Boot(i) PROVE Phases'
    BY Zenon, <1>11 DEF Boot, TypeOK, LinkedWorkers, SingleProcess
<1>12. ASSUME NEW i \in Instances, NEW pool \in SUBSET Workers, Start(i, pool) PROVE Phases'
  <2>1. \A w \in Workers : wrk[w].pc = "unused"
    BY <1>12 DEF Start, LinkedWorkers, SingleProcess
  <2> QED
    BY <1>12, <2>1 DEF Start, IdleWorker, TypeOK, SingleProcess
<1>13. ASSUME NEW i \in Instances, Stop(i) PROVE Phases'
    BY <1>13 DEF Stop, IdleWorker, TypeOK, WorkerType, LinkedWorkers, SingleProcess
<1>14. ASSUME NEW i \in Instances, Crash(i) \/ Exit(i) PROVE Phases'
    BY <1>14 DEF Crash, Exit, Down, IdleWorker, TypeOK, LinkedWorkers, SingleProcess
<1>15. ASSUME NEW i \in Instances, LoseLock(i) PROVE FALSE
    BY Zenon, <1>15 DEF LoseLock, SingleProcess
<1>16. ASSUME NEW c \in Callers, NEW i \in Instances, NEW j \in Jobs, NEW sched \in BOOLEAN, TriggerCheck(c, i, j, sched)
      PROVE UNCHANGED <<proc, active, wrk>>
    BY Zenon, <1>16 DEF TriggerCheck
<1>17. ASSUME NEW c \in Callers, TriggerBusy(c) \/ TriggerCreate(c) \/ TriggerEnqueue(c)
      PROVE UNCHANGED <<proc, active, wrk>>
    BY Zenon, <1>17 DEF TriggerBusy, TriggerCreate, TriggerEnqueue
<1>18. ASSUME NEW t \in Tasks, LeaseExpires(t) PROVE UNCHANGED <<proc, active, wrk>>
    BY Zenon, <1>18 DEF LeaseExpires
<1> HIDE DEF Phases
<1> QED
    BY Zenon, <1>1, <1>2, <1>3, <1>4, <1>5, <1>6, <1>10, <1>11, <1>12,
       <1>13, <1>14, <1>15, <1>16, <1>17, <1>18
    DEF Next, TriggerStep, TaskStep, ProcessStep, Moves, Leaves, vars

\* What holds of one process on every way: the invariant of the queue, no run
\* summarised over open tasks, and the phases.
ProcessInv == QueueInv /\ CallsUnderWay /\ DrainedWhenFinalized /\ Phases

\* The invariant of one process.
THEOREM ProcessInvariant == ASSUME SingleProcess PROVE Spec => []ProcessInv
<1>1. Init => CallsUnderWay /\ DrainedWhenFinalized /\ Phases
    BY DEF Init, IdleCaller, IdleWorker, CallsUnderWay, DrainedWhenFinalized, Phases
<1>2. ProcessInv /\ [Next]_vars => (CallsUnderWay /\ DrainedWhenFinalized /\ Phases)'
    BY DrainedNext, CallsUnderWayNext, PhasesNext DEF ProcessInv
<1> QED
    BY QueueInvariant, <1>1, <1>2, PTL DEF Spec, ProcessInv

-----------------------------------------------------------------------------
(* One process: who holds a job. *)

\* The call has claimed the job and has not enqueued its tasks.
Claiming(c) == trig[c].pc \in {"claimed", "created"}

\* The run is at work, or its finalizer is about to release the job.
AtWork(r) == jobRun[r].status = "running" /\ HasTask(r)
Releasing(r) == \E w \in Workers : wrk[w].pc = "release" /\ wrk[w].task[1] = r
Engaged(r) == AtWork(r) \/ Releasing(r)

\* What holds a job holds it alone: a call that has claimed it, or a run.
Alone ==
    /\ \A c, d \in Callers : Claiming(c) /\ Claiming(d) /\ trig[c].job = trig[d].job => c = d
    /\ \A c \in Callers, r \in Runs : Claiming(c) /\ Engaged(r) => trig[c].job # jobRun[r].job
    /\ \A q, r \in Runs : Engaged(q) /\ Engaged(r) /\ jobRun[q].job = jobRun[r].job => q = r

\* Scheduler.active shows every holder of a job but a run whose tasks are still in the
\* queue, which a call has seen there: the calls, the workers from MarkActive on, ...
CallsShown == \A c \in Callers : Claiming(c) => trig[c].job \in active[trig[c].inst]
OnTask == {"slot", "exec", "copy", "post", "finish"}
WorkersShown == \A w \in Workers :
    /\ wrk[w].pc \in OnTask /\ jobRun[wrk[w].task[1]].status = "running"
         => JobOf(wrk[w].task) \in active[wrk[w].inst]
    /\ wrk[w].pc = "release" => JobOf(wrk[w].task) \in active[wrk[w].inst]

\* ... a run whose tasks are all closed, and a run enqueued since a call has looked.
DrainedShown == \A i \in Instances, r \in Runs :
    proc[i] \in {"leading", "stopped"} /\ AtWork(r) /\ ~HasOpenInRun(r) => jobRun[r].job \in active[i]
ChecksShown == \A c \in Callers, r \in Runs :
    trig[c].pc = "checked" /\ ~trig[c].open /\ HasOpenInRun(r) /\ jobRun[r].job = trig[c].job
      => trig[c].job \in active[trig[c].inst]

JobsHeld == Alone /\ CallsShown /\ WorkersShown /\ DrainedShown /\ ChecksShown

\* A run has tasks, and open ones, as before when no task is created or closed.
LEMMA SameTasks ==
    ASSUME \A t \in Tasks : task'[t].status = task[t].status
                              \/ {task[t].status, task'[t].status} \subseteq {"queued", "running"}
    PROVE  \A r \in Runs : (HasTask(r)' <=> HasTask(r)) /\ (HasOpenInRun(r)' <=> HasOpenInRun(r))
BY Zenon, TasksOfRunExist DEF HasTask, HasOpenInRun, Open

\* A run is finalized as before when no worker becomes its finalizer.
LEMMA SameFinalizers ==
    ASSUME \A w \in Workers : wrk'[w].pc = "release" => wrk[w].pc = "release" /\ wrk'[w].task = wrk[w].task
    PROVE  \A r \in Runs : Releasing(r)' => Releasing(r)
BY DEF Releasing

\* No job gets a holder: it is still held alone.
LEMMA StillAlone ==
    ASSUME Alone,
           \A c \in Callers : Claiming(c)' => Claiming(c) /\ trig'[c].job = trig[c].job,
           \A r \in Runs : Engaged(r)' => Engaged(r) /\ jobRun'[r].job = jobRun[r].job
    PROVE  Alone'
BY Zenon DEF Alone

\* A run without a row has no task and no finalizer.
LEMMA UnbornIsFree ==
    ASSUME QueueInv, NEW r \in Runs, jobRun[r].status = "none"
    PROVE  ~HasTask(r) /\ ~HasOpenInRun(r) /\ ~Releasing(r)
<1>1. ~HasTask(r) /\ ~HasOpenInRun(r)
    BY TasksOfRun, TasksOfRunExist DEF QueueInv, Linked, LinkedTasks, HasTask, HasOpenInRun, Open
<1>2. ~Releasing(r)
    BY DEF QueueInv, Marked, Releasing
<1> QED BY <1>1, <1>2

\* Only workers move, and none of them to a later part of its task than it was in.
Idling ==
    /\ \A i \in Instances : proc'[i] \in {"leading", "stopped"} => proc[i] \in {"leading", "stopped"}
    /\ UNCHANGED <<active, trig, jobRun>>
    /\ \A t \in Tasks : task'[t].status = task[t].status
                          \/ {task[t].status, task'[t].status} \subseteq {"queued", "running"}
    /\ \A w \in Workers :
         /\ wrk'[w].pc = "release"
              => wrk[w].pc = "release" /\ wrk'[w].task = wrk[w].task /\ wrk'[w].inst = wrk[w].inst
         /\ wrk'[w].pc \in OnTask
              => wrk[w].pc \in OnTask /\ wrk'[w].task = wrk[w].task /\ wrk'[w].inst = wrk[w].inst

\* Such a step keeps the holders of the jobs.
LEMMA IdlingKeepsJobs == ASSUME JobsHeld, Idling PROVE JobsHeld'
<1>1. \A r \in Runs : (HasTask(r)' <=> HasTask(r)) /\ (HasOpenInRun(r)' <=> HasOpenInRun(r))
    BY Zenon, SameTasks DEF Idling
<1>2. \A r \in Runs : Releasing(r)' => Releasing(r)
    BY Zenon, SameFinalizers DEF Idling
<1>3. \A r \in Runs : AtWork(r)' <=> AtWork(r)
    BY Zenon, <1>1 DEF Idling, AtWork
<1>4. Alone'
  <2>1. \A c \in Callers : Claiming(c)' => Claiming(c) /\ trig'[c].job = trig[c].job
    BY DEF Idling, Claiming
  <2>2. \A r \in Runs : Engaged(r)' => Engaged(r) /\ jobRun'[r].job = jobRun[r].job
    BY Zenon, <1>2, <1>3 DEF Idling, Engaged
  <2> QED BY Zenon, <2>1, <2>2, StillAlone DEF JobsHeld
<1>5. CallsShown' /\ WorkersShown'
    BY DEF JobsHeld, Idling, CallsShown, WorkersShown, Claiming, JobOf
<1>6. DrainedShown' /\ ChecksShown'
    BY Zenon, <1>1, <1>3 DEF JobsHeld, Idling, DrainedShown, ChecksShown
<1> QED BY <1>4, <1>5, <1>6 DEF JobsHeld

\* A call that looks at the queue holds nothing yet.
LEMMA CheckKeepsJobs ==
    ASSUME ProcessInv, JobsHeld, NEW c \in Callers, NEW i \in Instances, NEW j \in Jobs,
           NEW sched \in BOOLEAN, TriggerCheck(c, i, j, sched)
    PROVE  JobsHeld'
<1> TypeOK
    BY DEF ProcessInv, QueueInv
<1>1. \A r \in Runs : (AtWork(r)' <=> AtWork(r)) /\ (HasOpenInRun(r)' <=> HasOpenInRun(r))
                      /\ (Releasing(r)' <=> Releasing(r))
    BY DEF TriggerCheck, AtWork, HasTask, HasOpenInRun, Open, Releasing
<1>2. \A d \in Callers : trig'[d] = trig[d] \/ (d = c /\ trig'[d].pc = "checked")
    BY DEF TriggerCheck, TypeOK
<1>3. Alone'
  <2>1. \A d \in Callers : Claiming(d)' => Claiming(d) /\ trig'[d].job = trig[d].job
    BY Zenon, <1>2 DEF Claiming
  <2>2. \A r \in Runs : Engaged(r)' => Engaged(r) /\ jobRun'[r].job = jobRun[r].job
    BY Zenon, <1>1 DEF TriggerCheck, Engaged
  <2> QED BY Zenon, <2>1, <2>2, StillAlone DEF JobsHeld
<1>4. CallsShown'
    BY Zenon, <1>2 DEF JobsHeld, TriggerCheck, CallsShown, Claiming
<1>5. WorkersShown' /\ DrainedShown'
    BY Zenon, <1>1 DEF JobsHeld, TriggerCheck, WorkersShown, DrainedShown, JobOf
<1>6. ChecksShown'
  <2>1. trig'[c].open = HasOpenOfJob(j) /\ trig'[c].job = j
    BY DEF TriggerCheck, TypeOK
  <2>2. \A d \in Callers \ {c} : trig'[d] = trig[d]
    BY DEF TriggerCheck, TypeOK
  <2> QED BY <1>1, <2>1, <2>2 DEF JobsHeld, TriggerCheck, ChecksShown, HasOpenOfJob
<1> QED BY <1>3, <1>4, <1>5, <1>6 DEF JobsHeld

\* A record of a finished run, or a run without tasks, is not at work.
LEMMA NewRunKeepsJobs ==
    ASSUME ProcessInv, JobsHeld, NEW c \in Callers, trig[c].pc # "idle", NEW r \in Runs,
           jobRun[r].status = "none", \A q \in Runs : q # r => jobRun'[q] = jobRun[q],
           \A d \in Callers : d # c => trig'[d] = trig[d],
           \/ trig'[c].pc = "idle"
           \/ /\ trig[c].pc = "claimed" /\ trig'[c].pc = "created"
              /\ trig'[c].job = trig[c].job /\ trig'[c].inst = trig[c].inst,
           UNCHANGED <<proc, active, wrk, task>>
    PROVE  JobsHeld'
<1> TypeOK
    BY DEF ProcessInv, QueueInv
<1>1. ~HasTask(r) /\ ~HasOpenInRun(r) /\ ~Releasing(r)
    BY Zenon, UnbornIsFree DEF ProcessInv
<1>2. \A q \in Runs : (HasTask(q)' <=> HasTask(q)) /\ (HasOpenInRun(q)' <=> HasOpenInRun(q))
                      /\ (Releasing(q)' <=> Releasing(q))
    BY DEF HasTask, HasOpenInRun, Open, Releasing
<1>3. \A q \in Runs : q # r => jobRun'[q] = jobRun[q]
    OBVIOUS
<1>4. \A d \in Callers : d # c => trig'[d] = trig[d]
    OBVIOUS
<1>5. \A q \in Runs : (AtWork(q)' <=> AtWork(q))
    BY Zenon, <1>1, <1>2, <1>3 DEF AtWork
<1>6. Alone'
  <2>1. \A d \in Callers : Claiming(d)' => Claiming(d) /\ trig'[d].job = trig[d].job
    BY Zenon, <1>4 DEF Claiming
  <2>2. \A q \in Runs : Engaged(q)' => Engaged(q) /\ jobRun'[q].job = jobRun[q].job
    BY Zenon, <1>1, <1>2, <1>3, <1>5 DEF Engaged, AtWork
  <2> QED BY Zenon, <2>1, <2>2, StillAlone DEF JobsHeld
<1>7. CallsShown'
    BY Zenon, <1>4 DEF JobsHeld, CallsShown, Claiming
<1>8. WorkersShown'
  <2>1. \A w \in Workers : wrk[w].pc \notin {"unused", "idle"} => wrk[w].task[1] \in Runs /\ wrk[w].task[1] # r
    BY Zenon, TaskParts DEF ProcessInv, QueueInv, Linked, LinkedWorkers, LinkedTasks
  <2> QED BY <1>3, <2>1 DEF JobsHeld, WorkersShown, OnTask, JobOf
<1>9. DrainedShown'
    BY Zenon, <1>1, <1>2, <1>3, <1>5 DEF JobsHeld, DrainedShown, AtWork
<1>10. ChecksShown'
    BY <1>1, <1>2, <1>3, <1>4 DEF JobsHeld, ChecksShown
<1> QED BY Zenon, <1>6, <1>7, <1>8, <1>9, <1>10 DEF JobsHeld

\* TriggerBusy and TriggerCreate.
LEMMA CreatesKeepJobs ==
    ASSUME ProcessInv, JobsHeld, NEW c \in Callers, TriggerBusy(c) \/ TriggerCreate(c)
    PROVE  JobsHeld'
<1> TypeOK
    BY Zenon DEF ProcessInv, QueueInv
<1>1. CASE TriggerBusy(c)
  <2>1. PICK r \in Runs : jobRun[r].status = "none" /\ \A q \in Runs : q # r => jobRun'[q] = jobRun[q]
    BY Zenon, <1>1 DEF TriggerBusy, IsNextRun, TypeOK
  <2>2. trig'[c].pc = "idle" /\ trig[c].pc # "idle" /\ \A d \in Callers : d # c => trig'[d] = trig[d]
    BY Zenon, <1>1 DEF TriggerBusy, IdleCaller, TypeOK
  <2>3. UNCHANGED <<proc, active, wrk, task>>
    BY Zenon, <1>1 DEF TriggerBusy
  <2> QED BY Zenon, <2>1, <2>2, <2>3, NewRunKeepsJobs
<1>2. CASE TriggerCreate(c)
  <2>1. PICK r \in Runs : jobRun[r].status = "none" /\ \A q \in Runs : q # r => jobRun'[q] = jobRun[q]
    BY Zenon, <1>2 DEF TriggerCreate, IsNextRun, TypeOK
  <2>2. PICK run : trig' = [trig EXCEPT ![c].pc = "created", ![c].run = run]
    BY Zenon, <1>2 DEF TriggerCreate
  <2>3. \A d \in Callers : d # c => trig'[d] = trig[d]
    BY Zenon, <2>2 DEF TypeOK
  <2>4. trig'[c].pc = "created" /\ trig'[c].job = trig[c].job /\ trig'[c].inst = trig[c].inst
    BY <2>2 DEF TypeOK, CallerType
  <2>5. UNCHANGED <<proc, active, wrk, task>> /\ trig[c].pc = "claimed"
    BY Zenon, <1>2 DEF TriggerCreate
  <2> QED BY Zenon, <2>1, <2>3, <2>4, <2>5, NewRunKeepsJobs
<1> QED BY Zenon, <1>1, <1>2

\* A call claims a job that neither the queue nor Scheduler.active shows: nobody has it.
LEMMA ClaimKeepsJobs ==
    ASSUME SingleProcess, ProcessInv, JobsHeld, NEW c \in Callers, TriggerClaim(c)
    PROVE  JobsHeld'
<1> TypeOK /\ LinkedCallers /\ LinkedWorkers
    BY DEF ProcessInv, QueueInv, Linked
<1> DEFINE i == trig[c].inst
           j == trig[c].job
<1>1. i \in Instances /\ j \in Jobs /\ trig[c].pc = "checked" /\ ~trig[c].open /\ j \notin active[i]
    BY DEF TriggerClaim, Busy, LinkedCallers
<1>2. proc[i] \in {"leading", "stopped"}
    BY Zenon, <1>1 DEF ProcessInv, CallsUnderWay, Phases, TypeOK
<1>3. \A k \in Instances : k = i
    BY Zenon, <1>1 DEF SingleProcess
<1>4. \A r \in Runs : (AtWork(r)' <=> AtWork(r)) /\ (HasOpenInRun(r)' <=> HasOpenInRun(r))
                      /\ (Releasing(r)' <=> Releasing(r))
    BY DEF TriggerClaim, AtWork, HasTask, HasOpenInRun, Open, Releasing
<1>5. /\ active'[i] = active[i] \cup {j}
      /\ \A d \in Callers \ {c} : trig'[d] = trig[d]
      /\ trig'[c].pc = "claimed" /\ trig'[c].job = j /\ trig'[c].inst = i
    BY Zenon, <1>1 DEF TriggerClaim, TypeOK, CallerType
<1>6. \A d \in Callers : Claiming(d) => trig[d].job # j
    BY Zenon, <1>1, <1>3 DEF JobsHeld, CallsShown, LinkedCallers, Claiming
<1>7. \A r \in Runs : Engaged(r) => jobRun[r].job # j
  <2> SUFFICES ASSUME NEW r \in Runs, Engaged(r), jobRun[r].job = j PROVE FALSE
    OBVIOUS
  <2>1. CASE Releasing(r)
    BY Zenon, <2>1, <1>1, <1>3 DEF Releasing, JobsHeld, WorkersShown, JobOf, LinkedWorkers
  <2>2. CASE AtWork(r) /\ HasOpenInRun(r)
    BY Zenon, <2>2, <1>1 DEF JobsHeld, ChecksShown
  <2>3. CASE AtWork(r) /\ ~HasOpenInRun(r)
    BY Zenon, <2>3, <1>1, <1>2 DEF JobsHeld, DrainedShown
  <2> QED BY <2>1, <2>2, <2>3 DEF Engaged
<1> HIDE DEF i, j
<1>8. Alone'
  <2>1. \A d \in Callers : Claiming(d)' => d = c \/ (Claiming(d) /\ trig'[d].job = trig[d].job)
    BY Zenon, <1>5 DEF Claiming
  <2>2. \A r \in Runs : Engaged(r)' => Engaged(r) /\ jobRun'[r].job = jobRun[r].job
    BY Zenon, <1>4 DEF TriggerClaim, Engaged
  <2> QED BY SMT, <1>5, <1>6, <1>7, <2>1, <2>2 DEF JobsHeld, Alone
<1>9. CallsShown'
    BY <1>3, <1>5 DEF JobsHeld, CallsShown, Claiming, TriggerClaim, LinkedCallers
<1>10. WorkersShown' /\ DrainedShown' /\ ChecksShown'
  <2>1. \A k \in Instances : active[k] \subseteq active'[k]
    BY Zenon, <1>3, <1>5
  <2>2. WorkersShown'
    BY Zenon, <2>1 DEF JobsHeld, WorkersShown, OnTask, TriggerClaim, JobOf, LinkedWorkers
  <2>3. DrainedShown'
    BY Zenon, <1>4, <2>1 DEF JobsHeld, DrainedShown, TriggerClaim
  <2>4. ChecksShown'
    BY <1>4, <1>5, <2>1 DEF JobsHeld, ChecksShown, TriggerClaim, LinkedCallers
  <2> QED BY <2>2, <2>3, <2>4
<1> QED BY <1>8, <1>9, <1>10 DEF JobsHeld

\* A run with an open task is at work.
LEMMA OpenIsAtWork == ASSUME ProcessInv, NEW r \in Runs, HasOpenInRun(r) PROVE AtWork(r)
<1>1. HasTask(r) /\ jobRun[r].status # "none"
    BY Zenon, UnbornIsFree DEF ProcessInv, HasOpenInRun, HasTask, Open
<1> QED
    BY <1>1 DEF ProcessInv, DrainedWhenFinalized, AtWork

\* A job that nothing holds any more is taken out of Scheduler.active.
LEMMA DropKeepsJobs ==
    ASSUME SingleProcess, ProcessInv, JobsHeld, NEW i \in Instances, NEW j,
           active' = [active EXCEPT ![i] = @ \ {j}], UNCHANGED <<proc, task>>,
           \A r \in Runs : jobRun'[r].job = jobRun[r].job
                           /\ (jobRun'[r].status = "running" => jobRun[r].status = "running"),
           \A d \in Callers : trig'[d] = trig[d] \/ trig'[d].pc = "idle",
           \A w \in Workers : wrk'[w] = wrk[w] \/ wrk'[w].pc = "aggregate",
           \A d \in Callers : Claiming(d)' => trig[d].job # j,
           \A r \in Runs : Engaged(r)' \/ HasOpenInRun(r) => jobRun[r].job # j
    PROVE  JobsHeld'
<1> TypeOK /\ LinkedCallers /\ LinkedWorkers
    BY DEF ProcessInv, QueueInv, Linked
<1>1. \A r \in Runs : (HasTask(r)' <=> HasTask(r)) /\ (HasOpenInRun(r)' <=> HasOpenInRun(r))
    BY DEF HasTask, HasOpenInRun, Open
<1>2. \A r \in Runs : (AtWork(r)' => AtWork(r)) /\ (Releasing(r)' => Releasing(r))
  <2>1. \A r \in Runs : AtWork(r)' => AtWork(r)
    BY Zenon, <1>1 DEF AtWork
  <2>2. \A r \in Runs : Releasing(r)' => Releasing(r)
    BY DEF Releasing
  <2> QED BY Zenon, <2>1, <2>2
<1>3. \A k \in Instances : active[k] \ {j} \subseteq active'[k]
    BY DEF TypeOK
<1>4. Alone'
  <2>1. \A d \in Callers : Claiming(d)' => Claiming(d) /\ trig'[d].job = trig[d].job
    BY DEF Claiming
  <2>2. \A r \in Runs : Engaged(r)' => Engaged(r) /\ jobRun'[r].job = jobRun[r].job
    BY Zenon, <1>2 DEF Engaged
  <2> QED BY Zenon, <2>1, <2>2, StillAlone DEF JobsHeld
<1>5. CallsShown'
    BY Zenon, <1>3 DEF JobsHeld, CallsShown, Claiming, LinkedCallers
<1>6. WorkersShown'
  <2> SUFFICES ASSUME NEW w \in Workers
               PROVE  /\ wrk'[w].pc \in OnTask /\ jobRun'[wrk'[w].task[1]].status = "running"
                           => JobOf(wrk[w].task)' \in active'[wrk'[w].inst]
                      /\ wrk'[w].pc = "release" => JobOf(wrk[w].task)' \in active'[wrk'[w].inst]
    BY DEF WorkersShown
  <2> SUFFICES ASSUME wrk'[w].pc \in OnTask \cup {"release"},
                      wrk'[w].pc \in OnTask => jobRun'[wrk'[w].task[1]].status = "running"
               PROVE  JobOf(wrk[w].task)' \in active'[wrk'[w].inst]
    BY Zenon DEF OnTask
  <2>1. wrk'[w] = wrk[w] /\ wrk[w].pc \in OnTask \cup {"release"}
    BY DEF OnTask
  <2>2. wrk[w].inst \in Instances /\ wrk[w].task \in Tasks /\ task[wrk[w].task].status # "none"
    BY Zenon, <2>1 DEF LinkedWorkers, OnTask
  <2> DEFINE r == wrk[w].task[1]
  <2>3. r \in Runs /\ HasTask(r)
    BY Zenon, <2>2, TaskParts, TasksOfRun DEF HasTask
  <2>4. JobOf(wrk[w].task) \in active[wrk[w].inst] /\ JobOf(wrk[w].task) = jobRun[r].job
    BY Zenon, <2>1, <2>3 DEF JobsHeld, WorkersShown, JobOf
  <2>5. Engaged(r)'
    BY Zenon, <2>1, <2>3, <1>1 DEF Engaged, AtWork, Releasing, OnTask
  <2>6. JobOf(wrk[w].task)' = jobRun'[r].job
    BY Zenon, <2>1 DEF JobOf
  <2> QED BY <2>1, <2>2, <2>3, <2>4, <2>5, <2>6, <1>3
<1>7. DrainedShown'
    BY Zenon, <1>1, <1>2, <1>3 DEF JobsHeld, DrainedShown, Engaged
<1>8. ChecksShown'
    BY Zenon, <1>1, <1>3 DEF JobsHeld, ChecksShown, LinkedCallers
<1> QED BY Zenon, <1>4, <1>5, <1>6, <1>7, <1>8 DEF JobsHeld

\* A call that could not create its run, or not enqueue its tasks, gives the job back.
LEMMA FailedCallKeepsJobs ==
    ASSUME SingleProcess, ProcessInv, JobsHeld, NEW c \in Callers,
           TriggerCreateFails(c) \/ TriggerEnqueueFails(c)
    PROVE  JobsHeld'
<1> TypeOK /\ LinkedCallers
    BY DEF ProcessInv, QueueInv, Linked
<1>1. Claiming(c) /\ trig[c].inst \in Instances
    BY DEF TriggerCreateFails, TriggerEnqueueFails, Claiming, LinkedCallers
<1>2. /\ active' = [active EXCEPT ![trig[c].inst] = @ \ {trig[c].job}]
      /\ UNCHANGED <<proc, task, wrk>>
      /\ trig' = [trig EXCEPT ![c] = IdleCaller]
    BY DEF TriggerCreateFails, TriggerEnqueueFails
<1>3. \A r \in Runs : jobRun'[r].job = jobRun[r].job
                      /\ (jobRun'[r].status = "running" => jobRun[r].status = "running")
    BY DEF TriggerCreateFails, TriggerEnqueueFails, LinkedCallers, TypeOK, JobRunType
<1>4. \A d \in Callers : IF d = c THEN trig'[d].pc = "idle" ELSE trig'[d] = trig[d]
    BY Zenon, <1>2 DEF TypeOK, IdleCaller
<1>5. \A d \in Callers : Claiming(d)' => trig[d].job # trig[c].job
    BY Zenon, <1>1, <1>4 DEF Claiming, JobsHeld, Alone
<1>6. \A r \in Runs : Engaged(r)' \/ HasOpenInRun(r) => jobRun[r].job # trig[c].job
  <2>1. \A r \in Runs : Engaged(r)' \/ HasOpenInRun(r) => Engaged(r)
    BY Zenon, <1>2, <1>3, OpenIsAtWork DEF Engaged, AtWork, Releasing, HasTask
  <2> QED BY Zenon, <2>1, <1>1 DEF JobsHeld, Alone
<1>7. \A d \in Callers : trig'[d] = trig[d] \/ trig'[d].pc = "idle"
    BY <1>4
<1>8. \A w \in Workers : wrk'[w] = wrk[w] \/ wrk'[w].pc = "aggregate"
    BY Zenon, <1>2
<1>9. UNCHANGED <<proc, task>>
    BY Zenon, <1>2
<1> QED BY Zenon, <1>1, <1>2, <1>3, <1>5, <1>6, <1>7, <1>8, <1>9, DropKeepsJobs

\* releaseJob of the finalizer: it was the one that held the job.
LEMMA ReleaseKeepsJobs ==
    ASSUME SingleProcess, ProcessInv, JobsHeld, NEW w \in Workers, ReleaseJob(w)
    PROVE  JobsHeld'
<1> TypeOK /\ LinkedWorkers /\ OneFinalizer /\ Marked
    BY DEF ProcessInv, QueueInv, Linked
<1>0. PICK r \in Runs : r = wrk[w].task[1]
    BY Zenon, TaskParts DEF ReleaseJob, LinkedWorkers
<1>1. wrk[w].pc = "release" /\ wrk[w].inst \in Instances /\ wrk[w].task \in Tasks
    BY Zenon DEF ReleaseJob, LinkedWorkers
<1>2. Releasing(r) /\ Engaged(r) /\ jobRun[r].status \notin {"none", "running"} /\ JobOf(wrk[w].task) = jobRun[r].job
    BY Zenon, <1>0, <1>1 DEF Releasing, Engaged, Marked, JobOf
<1>3. /\ active' = [active EXCEPT ![wrk[w].inst] = @ \ {jobRun[r].job}]
      /\ UNCHANGED <<proc, task, trig, jobRun>>
    BY Zenon, <1>2 DEF ReleaseJob
<1>4. \A v \in Workers : IF v = w THEN wrk'[v].pc = "aggregate" ELSE wrk'[v] = wrk[v]
    BY DEF ReleaseJob, TypeOK, WorkerType
<1>5. ~Engaged(r)' /\ ~HasOpenInRun(r)
  <2>1. \A v \in Workers : wrk'[v].pc = "release" => wrk[v].pc = "release" /\ wrk'[v] = wrk[v] /\ v # w
    BY <1>4
  <2>2. ~Releasing(r)'
    BY Zenon, <2>1, <1>0, <1>1 DEF Releasing, OneFinalizer
  <2>3. ~AtWork(r)'
    BY Zenon, <1>2, <1>3 DEF AtWork
  <2>4. ~HasOpenInRun(r)
    BY Zenon, <1>1, <1>2, OpenIsAtWork DEF AtWork
  <2> QED BY Zenon, <2>2, <2>3, <2>4 DEF Engaged
<1>6. \A q \in Runs : Engaged(q)' \/ HasOpenInRun(q) => Engaged(q) /\ q # r
  <2>1. \A q \in Runs : Releasing(q)' => Releasing(q)
    BY Zenon, <1>4 DEF Releasing
  <2>2. \A q \in Runs : AtWork(q)' => AtWork(q)
    BY Zenon, <1>3 DEF AtWork, HasTask
  <2> QED BY Zenon, <2>1, <2>2, <1>5, OpenIsAtWork DEF Engaged
<1>7. \A q \in Runs : Engaged(q)' \/ HasOpenInRun(q) => jobRun[q].job # jobRun[r].job
    BY Zenon, <1>1, <1>2, <1>6 DEF JobsHeld, Alone
<1>8. \A d \in Callers : Claiming(d)' => trig[d].job # jobRun[r].job
    BY Zenon, <1>1, <1>2, <1>3 DEF JobsHeld, Alone, Claiming
<1>9. \A q \in Runs : jobRun'[q].job = jobRun[q].job
                      /\ (jobRun'[q].status = "running" => jobRun[q].status = "running")
    BY Zenon, <1>3
<1>10. \A d \in Callers : trig'[d] = trig[d] \/ trig'[d].pc = "idle"
    BY Zenon, <1>3
<1>11. \A v \in Workers : wrk'[v] = wrk[v] \/ wrk'[v].pc = "aggregate"
    BY <1>4
<1>12. UNCHANGED <<proc, task>>
    BY Zenon, <1>3
<1> QED BY Zenon, <1>1, <1>3, <1>7, <1>8, <1>9, <1>10, <1>11, <1>12, DropKeepsJobs

\* The tasks of the run are in the queue: the run takes over the job from the call.
LEMMA EnqueueKeepsJobs ==
    ASSUME SingleProcess, ProcessInv, JobsHeld, NEW c \in Callers, TriggerEnqueue(c)
    PROVE  JobsHeld'
<1> TypeOK /\ LinkedCallers /\ LinkedWorkers /\ Owned
    BY DEF ProcessInv, QueueInv, Linked
<1>0. PICK r \in Runs : r = trig[c].run
    BY Zenon DEF TriggerEnqueue, LinkedCallers
<1>1. /\ Claiming(c) /\ trig[c].inst \in Instances
      /\ jobRun[r].job = trig[c].job /\ trig[c].job \in active[trig[c].inst]
    BY Zenon, <1>0 DEF TriggerEnqueue, Claiming, LinkedCallers, JobsHeld, CallsShown, ProcessInv, CallsUnderWay
<1>2. UNCHANGED <<proc, active, wrk, jobRun>> /\ trig' = [trig EXCEPT ![c] = IdleCaller]
    BY DEF TriggerEnqueue
<1>3. \A d \in Callers : IF d = c THEN trig'[d].pc = "idle" ELSE trig'[d] = trig[d]
    BY Zenon, <1>2 DEF TypeOK, IdleCaller
<1>4. HasOpenInRun(r)'
  <2>1. PICK v \in VMs : TRUE
    BY Zenon, QueueAssumption
  <2>2. <<r, v>> \in TasksOf(r) /\ <<r, v>> \in Tasks
    BY Zenon, <1>1 DEF TasksOf, Tasks
  <2>3. task'[<<r, v>>].status = "queued"
    BY Zenon, <2>2, <1>0 DEF TriggerEnqueue
  <2> QED BY Zenon, <2>2, <2>3 DEF HasOpenInRun, Open
<1>5. \A q \in Runs : q # r => (HasTask(q)' <=> HasTask(q)) /\ (HasOpenInRun(q)' <=> HasOpenInRun(q))
  <2>1. \A q \in Runs : q # r => \A t \in TasksOf(q) : task'[t] = task[t]
    BY <1>0, TasksOfRun, TasksOfRunExist DEF TriggerEnqueue
  <2> QED BY Zenon, <2>1 DEF HasTask, HasOpenInRun, Open
<1>6. \A q \in Runs : Releasing(q)' <=> Releasing(q)
    BY <1>2 DEF Releasing
<1>7. \A q \in Runs : q # r => (AtWork(q)' <=> AtWork(q)) /\ (Engaged(q)' <=> Engaged(q))
    BY Zenon, <1>2, <1>5, <1>6 DEF AtWork, Engaged
<1>8. \A q \in Runs : Engaged(q) => jobRun[q].job # jobRun[r].job
    BY Zenon, <1>1 DEF JobsHeld, Alone
<1>9. Alone'
  <2>1. \A d \in Callers : Claiming(d)' => d # c /\ Claiming(d) /\ trig'[d].job = trig[d].job
    BY <1>3 DEF Claiming
  <2>2. \A q \in Runs : Engaged(q)' => q = r \/ Engaged(q)
    BY <1>7
  <2>3. \A d \in Callers : Claiming(d)' => trig'[d].job # jobRun[r].job
    BY Zenon, <1>1, <2>1 DEF JobsHeld, Alone
  <2> QED BY SMT, <1>2, <1>8, <2>1, <2>2, <2>3 DEF JobsHeld, Alone
<1>10. CallsShown' /\ WorkersShown'
    BY Zenon, <1>2, <1>3 DEF JobsHeld, CallsShown, WorkersShown, Claiming, JobOf
<1>11. DrainedShown'
    BY Zenon, <1>2, <1>4, <1>5, <1>7 DEF JobsHeld, DrainedShown
<1>12. ChecksShown'
    BY <1>1, <1>2, <1>3, <1>5 DEF JobsHeld, ChecksShown, LinkedCallers, SingleProcess
<1> QED BY <1>9, <1>10, <1>11, <1>12 DEF JobsHeld

\* A worker notes its job.
LEMMA MarkActiveKeepsJobs ==
    ASSUME ProcessInv, JobsHeld, NEW w \in Workers, MarkActive(w)
    PROVE  JobsHeld'
<1> TypeOK /\ LinkedCallers /\ LinkedWorkers
    BY DEF ProcessInv, QueueInv, Linked
<1>1. wrk[w].inst \in Instances /\ UNCHANGED <<proc, trig, jobRun, task>>
    BY DEF MarkActive, LinkedWorkers
<1>2. /\ \A k \in Instances : active[k] \subseteq active'[k]
      /\ JobOf(wrk[w].task) \in active'[wrk[w].inst]
    BY Zenon, <1>1 DEF MarkActive, TypeOK
<1>3. \A v \in Workers : IF v = w THEN /\ wrk'[v].pc = "slot" /\ wrk'[v].task = wrk[v].task
                                       /\ wrk'[v].inst = wrk[v].inst
                                  ELSE wrk'[v] = wrk[v]
    BY DEF MarkActive, TypeOK, WorkerType
<1>4. \A r \in Runs : (AtWork(r)' <=> AtWork(r)) /\ (HasOpenInRun(r)' <=> HasOpenInRun(r))
    BY <1>1 DEF AtWork, HasTask, HasOpenInRun, Open
<1>5. \A r \in Runs : Releasing(r)' => Releasing(r)
    BY Zenon, <1>3 DEF Releasing
<1>6. Alone'
  <2>1. \A d \in Callers : Claiming(d)' => Claiming(d) /\ trig'[d].job = trig[d].job
    BY <1>1 DEF Claiming
  <2>2. \A r \in Runs : Engaged(r)' => Engaged(r) /\ jobRun'[r].job = jobRun[r].job
    BY Zenon, <1>1, <1>4, <1>5 DEF Engaged
  <2> QED BY Zenon, <2>1, <2>2, StillAlone DEF JobsHeld
<1>7. CallsShown'
    BY Zenon, <1>1, <1>2 DEF JobsHeld, CallsShown, Claiming, LinkedCallers
<1>8. WorkersShown'
  <2> SUFFICES ASSUME NEW v \in Workers
               PROVE  /\ wrk'[v].pc \in OnTask /\ jobRun'[wrk'[v].task[1]].status = "running"
                           => JobOf(wrk[v].task)' \in active'[wrk'[v].inst]
                      /\ wrk'[v].pc = "release" => JobOf(wrk[v].task)' \in active'[wrk'[v].inst]
    BY DEF WorkersShown
  <2>1. JobOf(wrk[v].task)' = JobOf(wrk[v].task)
    BY Zenon, <1>1, <1>3 DEF JobOf
  <2>2. CASE v = w
    BY Zenon, <2>1, <2>2, <1>2, <1>3
  <2>3. CASE v # w
    BY <2>1, <2>3, <1>1, <1>2, <1>3 DEF JobsHeld, WorkersShown, OnTask, LinkedWorkers
  <2> QED BY Zenon, <2>2, <2>3
<1>9. DrainedShown' /\ ChecksShown'
    BY Zenon, <1>1, <1>2, <1>4 DEF JobsHeld, DrainedShown, ChecksShown, LinkedCallers
<1> QED BY <1>6, <1>7, <1>8, <1>9 DEF JobsHeld

\* A worker closes its task, maybe the last one of the run.
LEMMA FinishTaskKeepsJobs ==
    ASSUME SingleProcess, ProcessInv, JobsHeld, NEW w \in Workers, FinishBackupTask(w)
    PROVE  JobsHeld'
<1> TypeOK /\ LinkedCallers /\ LinkedWorkers
    BY DEF ProcessInv, QueueInv, Linked
<1> DEFINE u == wrk[w].task
<1>1. /\ wrk[w].inst \in Instances /\ u \in Tasks /\ u[1] \in Runs /\ task[u].status # "none"
      /\ wrk[w].pc = "finish" /\ UNCHANGED <<proc, active, trig, jobRun>>
    BY Zenon, TaskParts DEF FinishBackupTask, LinkedWorkers
<1>2. /\ \A t \in Tasks : t # u => task'[t] = task[t]
      /\ task'[u].status \in {"succeeded", "failed"}
    BY Zenon, <1>1 DEF FinishBackupTask, TypeOK
<1>3. \A v \in Workers : IF v = w THEN wrk'[v].pc = "check" ELSE wrk'[v] = wrk[v]
    BY DEF FinishBackupTask, TypeOK, WorkerType
<1> HIDE DEF u
<1>4. \A r \in Runs : HasTask(r)' <=> HasTask(r)
    BY Zenon, <1>1, <1>2, TasksOfRunExist DEF HasTask
<1>5. \A r \in Runs : /\ HasOpenInRun(r)' => HasOpenInRun(r)
                      /\ r # u[1] => (HasOpenInRun(r)' <=> HasOpenInRun(r))
    BY <1>1, <1>2, TasksOfRun, TasksOfRunExist DEF HasOpenInRun, Open
<1>6. \A r \in Runs : (AtWork(r)' <=> AtWork(r)) /\ (Releasing(r)' => Releasing(r))
    BY Zenon, <1>1, <1>3, <1>4 DEF AtWork, Releasing
<1>7. Alone'
  <2>1. \A d \in Callers : Claiming(d)' => Claiming(d) /\ trig'[d].job = trig[d].job
    BY Zenon, <1>1 DEF Claiming
  <2>2. \A r \in Runs : Engaged(r)' => Engaged(r) /\ jobRun'[r].job = jobRun[r].job
    BY Zenon, <1>1, <1>6 DEF Engaged
  <2> QED BY Zenon, <2>1, <2>2, StillAlone DEF JobsHeld
<1>8. CallsShown' /\ WorkersShown'
    BY <1>1, <1>3 DEF JobsHeld, CallsShown, WorkersShown, Claiming, JobOf, OnTask
<1>9. DrainedShown'
  <2>1. jobRun[u[1]].status = "running" => jobRun[u[1]].job \in active[wrk[w].inst]
    BY Zenon, <1>1 DEF JobsHeld, WorkersShown, OnTask, JobOf, u
  <2> QED BY Zenon, <2>1, <1>1, <1>5, <1>6 DEF JobsHeld, DrainedShown, AtWork, SingleProcess
<1>10. ChecksShown'
    BY Zenon, <1>1, <1>5 DEF JobsHeld, ChecksShown
<1> QED BY <1>7, <1>8, <1>9, <1>10 DEF JobsHeld

\* The finalizer of a run at work takes the job over from it.
LEMMA FinalizationKeepsJobs ==
    ASSUME ProcessInv, JobsHeld, NEW w \in Workers, ClaimFinalization(w)
    PROVE  JobsHeld'
<1> TypeOK /\ LinkedCallers /\ LinkedWorkers
    BY DEF ProcessInv, QueueInv, Linked
<1> DEFINE r == wrk[w].task[1]
<1>1. /\ wrk[w].inst \in Instances /\ wrk[w].task \in Tasks /\ r \in Runs
      /\ task[wrk[w].task].status # "none" /\ wrk[w].pc = "check"
      /\ jobRun[r].status = "running" /\ ~HasOpenInRun(r)
      /\ UNCHANGED <<proc, active, trig, task>>
    BY Zenon, TaskParts DEF ClaimFinalization, LinkedWorkers, LastOfRun
<1>2. AtWork(r) /\ proc[wrk[w].inst] \in {"leading", "stopped"}
    BY Zenon, <1>1, TasksOfRun DEF AtWork, HasTask, ProcessInv, Phases
<1>3. jobRun[r].job \in active[wrk[w].inst]
    BY Zenon, <1>1, <1>2 DEF JobsHeld, DrainedShown
<1>4. \A v \in Workers : IF v = w THEN /\ wrk'[v].pc = "release" /\ wrk'[v].task = wrk[v].task
                                       /\ wrk'[v].inst = wrk[v].inst
                                  ELSE wrk'[v] = wrk[v]
    BY DEF ClaimFinalization, TypeOK, WorkerType
<1>5. \A q \in Runs : /\ jobRun'[q].job = jobRun[q].job
                      /\ jobRun'[q].status = "running" <=> q # r /\ jobRun[q].status = "running"
    BY Zenon, <1>1 DEF ClaimFinalization, TypeOK, JobRunType
<1> HIDE DEF r
<1>6. \A q \in Runs : (HasTask(q)' <=> HasTask(q)) /\ (HasOpenInRun(q)' <=> HasOpenInRun(q))
    BY Zenon, <1>1 DEF HasTask, HasOpenInRun, Open
<1>7. \A q \in Runs : (AtWork(q)' => AtWork(q)) /\ (Releasing(q)' => Releasing(q) \/ q = r)
    BY Zenon, <1>4, <1>5, <1>6 DEF AtWork, Releasing, r
<1>8. Alone'
  <2>1. \A d \in Callers : Claiming(d)' => Claiming(d) /\ trig'[d].job = trig[d].job
    BY Zenon, <1>1 DEF Claiming
  <2>2. \A q \in Runs : Engaged(q)' => Engaged(q) /\ jobRun'[q].job = jobRun[q].job
    BY Zenon, <1>2, <1>5, <1>7 DEF Engaged
  <2> QED BY Zenon, <2>1, <2>2, StillAlone DEF JobsHeld
<1>9. CallsShown'
    BY Zenon, <1>1, <1>5 DEF JobsHeld, CallsShown, Claiming, LinkedCallers
<1>10. WorkersShown'
  <2> SUFFICES ASSUME NEW v \in Workers
               PROVE  /\ wrk'[v].pc \in OnTask /\ jobRun'[wrk'[v].task[1]].status = "running"
                           => JobOf(wrk[v].task)' \in active'[wrk'[v].inst]
                      /\ wrk'[v].pc = "release" => JobOf(wrk[v].task)' \in active'[wrk'[v].inst]
    BY DEF WorkersShown
  <2>1. CASE v = w
    BY Zenon, <2>1, <1>1, <1>3, <1>4, <1>5 DEF JobOf, OnTask, r
  <2>2. CASE v # w /\ wrk[v].pc \in OnTask \cup {"release"}
    <3>1. wrk[v].task[1] \in Runs
      BY Zenon, <2>2, TaskParts DEF LinkedWorkers, OnTask
    <3> QED BY Zenon, <2>2, <3>1, <1>1, <1>4, <1>5 DEF JobsHeld, WorkersShown, JobOf
  <2> QED BY Zenon, <2>1, <2>2, <1>4
<1>11. DrainedShown'
    BY Zenon, <1>1, <1>5, <1>6, <1>7 DEF JobsHeld, DrainedShown
<1>12. ChecksShown'
    BY Zenon, <1>1, <1>5, <1>6 DEF JobsHeld, ChecksShown
<1> QED BY <1>8, <1>9, <1>10, <1>11, <1>12 DEF JobsHeld

\* finishJob gives a run its result that was marked before.
LEMMA FinishJobKeepsJobs ==
    ASSUME ProcessInv, JobsHeld, NEW w \in Workers, FinishJob(w)
    PROVE  JobsHeld'
<1> TypeOK /\ LinkedCallers /\ LinkedWorkers /\ Marked
    BY DEF ProcessInv, QueueInv, Linked
<1> DEFINE r == wrk[w].task[1]
<1>1. /\ r \in Runs /\ jobRun[r].status \notin {"none", "running"}
      /\ UNCHANGED <<proc, active, trig, task>>
    BY Zenon, TaskParts DEF FinishJob, LinkedWorkers, Marked
<1>2. \A q \in Runs : /\ jobRun'[q].job = jobRun[q].job
                      /\ jobRun'[q].status = "running" <=> jobRun[q].status = "running"
    BY <1>1, finishJobStatusType DEF FinishJob, TypeOK, JobRunType
<1> HIDE DEF r
<1>3. \A v \in Workers : wrk'[v] = wrk[v] \/ wrk'[v].pc \in {"unused", "idle"}
    BY DEF FinishJob, Returned, IdleWorker, TypeOK
<1>4. \A q \in Runs : (HasTask(q)' <=> HasTask(q)) /\ (HasOpenInRun(q)' <=> HasOpenInRun(q))
    BY <1>1 DEF HasTask, HasOpenInRun, Open
<1>5. \A q \in Runs : (AtWork(q)' <=> AtWork(q)) /\ (Releasing(q)' => Releasing(q))
    BY Zenon, <1>2, <1>3, <1>4 DEF AtWork, Releasing
<1>6. Alone'
  <2>1. \A d \in Callers : Claiming(d)' => Claiming(d) /\ trig'[d].job = trig[d].job
    BY <1>1 DEF Claiming
  <2>2. \A q \in Runs : Engaged(q)' => Engaged(q) /\ jobRun'[q].job = jobRun[q].job
    BY Zenon, <1>2, <1>5 DEF Engaged
  <2> QED BY Zenon, <2>1, <2>2, StillAlone DEF JobsHeld
<1>7. CallsShown'
    BY Zenon, <1>1, <1>2 DEF JobsHeld, CallsShown, Claiming, LinkedCallers
<1>8. WorkersShown'
  <2> SUFFICES ASSUME NEW v \in Workers
               PROVE  /\ wrk'[v].pc \in OnTask /\ jobRun'[wrk'[v].task[1]].status = "running"
                           => JobOf(wrk[v].task)' \in active'[wrk'[v].inst]
                      /\ wrk'[v].pc = "release" => JobOf(wrk[v].task)' \in active'[wrk'[v].inst]
    BY DEF WorkersShown
  <2>1. CASE wrk'[v] = wrk[v] /\ wrk[v].pc \in OnTask \cup {"release"}
    <3>1. wrk[v].task[1] \in Runs
      BY Zenon, <2>1, TaskParts DEF LinkedWorkers, OnTask
    <3> QED BY Zenon, <2>1, <3>1, <1>1, <1>2 DEF JobsHeld, WorkersShown, JobOf
  <2> QED BY Zenon, <2>1, <1>3 DEF OnTask
<1>9. DrainedShown' /\ ChecksShown'
    BY Zenon, <1>1, <1>2, <1>4, <1>5 DEF JobsHeld, DrainedShown, ChecksShown
<1> QED BY <1>6, <1>7, <1>8, <1>9 DEF JobsHeld

\* A scheduler that starts finds no call and no worker, and finishes the runs whose
\* tasks are all closed.
LEMMA StartKeepsJobs ==
    ASSUME SingleProcess, ProcessInv, JobsHeld, NEW i \in Instances, NEW pool \in SUBSET Workers, Start(i, pool)
    PROVE  JobsHeld'
<1> TypeOK /\ LinkedCallers /\ LinkedWorkers
    BY DEF ProcessInv, QueueInv, Linked
<1>1. proc[i] = "standby" /\ UNCHANGED <<trig, task>>
    BY DEF Start
<1>2. \A c \in Callers : trig[c].pc = "idle"
    BY Zenon, <1>1 DEF ProcessInv, CallsUnderWay, LinkedCallers, SingleProcess
<1>3. \A w \in Workers : wrk[w].pc = "unused"
    BY Zenon, <1>1 DEF ProcessInv, Phases, LinkedWorkers, SingleProcess
<1>4. \A w \in Workers : wrk'[w].pc \in {"unused", "idle"}
    BY Zenon, <1>3 DEF Start, IdleWorker
<1>5. \A r \in Runs : (HasTask(r)' <=> HasTask(r)) /\ (HasOpenInRun(r)' <=> HasOpenInRun(r))
    BY <1>1 DEF HasTask, HasOpenInRun, Open
<1>6. \A r \in Runs : /\ jobRun'[r].job = jobRun[r].job
                      /\ jobRun'[r].status = "running" => jobRun[r].status = "running"
                      /\ jobRun'[r].status = "running" => HasOpenInRun(r)
    BY finishJobStatusType DEF Start, Recoverable, TypeOK, JobRunType
<1>7. \A r \in Runs : Engaged(r)' => Engaged(r) /\ AtWork(r)' /\ HasOpenInRun(r)'
    BY Zenon, <1>4, <1>5, <1>6 DEF Engaged, AtWork, Releasing
<1>8. Alone'
  <2>1. \A d \in Callers : Claiming(d)' => Claiming(d) /\ trig'[d].job = trig[d].job
    BY <1>1 DEF Claiming
  <2> QED BY Zenon, <2>1, <1>6, <1>7, StillAlone DEF JobsHeld
<1>9. CallsShown' /\ WorkersShown' /\ ChecksShown'
    BY Zenon, <1>1, <1>2, <1>4 DEF CallsShown, WorkersShown, ChecksShown, Claiming, OnTask
<1>10. DrainedShown'
    BY Zenon, <1>7 DEF DrainedShown, Engaged
<1> QED BY <1>8, <1>9, <1>10 DEF JobsHeld

\* With the process everything that held a job in its memory is gone.
LEMMA DownKeepsJobs ==
    ASSUME SingleProcess, ProcessInv, JobsHeld, NEW i \in Instances, Down(i)
    PROVE  JobsHeld'
<1> TypeOK /\ LinkedCallers /\ LinkedWorkers
    BY DEF ProcessInv, QueueInv, Linked
<1>1. UNCHANGED <<jobRun, task>> /\ \A k \in Instances : proc'[k] = "down"
    BY DEF Down, TypeOK, SingleProcess
<1>2. \A c \in Callers : trig'[c].pc = "idle"
    BY DEF Down, TypeOK, LinkedCallers, SingleProcess, IdleCaller
<1>3. \A w \in Workers : wrk'[w].pc = "unused"
    BY DEF Down, TypeOK, LinkedWorkers, SingleProcess, IdleWorker
<1>4. \A r \in Runs : Engaged(r)' => Engaged(r) /\ jobRun'[r].job = jobRun[r].job
    BY Zenon, <1>1, <1>3 DEF Engaged, AtWork, HasTask, Releasing
<1>5. Alone'
    BY Zenon, <1>2, <1>4, StillAlone DEF JobsHeld, Claiming
<1> QED BY Zenon, <1>1, <1>2, <1>3, <1>5 DEF JobsHeld, CallsShown, WorkersShown, DrainedShown, ChecksShown, Claiming, OnTask

\* Every step keeps the jobs held, where every payload decodes.
LEMMA JobsHeldNext ==
    ASSUME SingleProcess, ~Garbled, ProcessInv, JobsHeld, [Next]_vars
    PROVE  JobsHeld'
<1> TypeOK /\ LinkedWorkers
    BY DEF ProcessInv, QueueInv, Linked
<1>1. CASE UNCHANGED vars
    BY Zenon, <1>1, IdlingKeepsJobs DEF vars, Idling
<1>2. ASSUME NEW w \in Workers, NEW t \in Tasks, ClaimBackupTasks(w, t) PROVE Idling
    BY <1>2 DEF ClaimBackupTasks, Claimable, Idling, OnTask, TypeOK, WorkerType
<1>3. ASSUME NEW w \in Workers,
        \/ AcquireTaskSlot(w) \/ WaitForSlot(w) \/ ExecuteCreatesRow(w) \/ ExecuteFailsEarly(w)
        \/ ExecuteEnds(w) \/ ExecuteUnsaved(w) \/ PostProcess(w)
      PROVE Idling
  <2>1. GoesOn(w)
    BY Zenon, <1>3, Moving DEF Moves
  <2>2. UNCHANGED <<active, trig, jobRun, task>> /\ wrk[w].pc \in OnTask
    BY Zenon, <1>3 DEF AcquireTaskSlot, WaitForSlot, ExecuteCreatesRow, ExecuteFailsEarly, ExecuteEnds,
       ExecuteUnsaved, PostProcess, OnTask
  <2>3. wrk'[w].pc # "release"
    <3> wrk \in [Workers -> WorkerType]
      BY Zenon DEF TypeOK
    <3>1. CASE AcquireTaskSlot(w) \/ WaitForSlot(w)
      BY <3>1 DEF AcquireTaskSlot, WaitForSlot, WorkerType
    <3>2. CASE ExecuteCreatesRow(w) \/ ExecuteFailsEarly(w) \/ PostProcess(w)
      BY <3>2 DEF ExecuteCreatesRow, ExecuteFailsEarly, PostProcess, WorkerType
    <3>3. CASE ExecuteEnds(w) \/ ExecuteUnsaved(w)
      BY <3>3 DEF ExecuteEnds, ExecuteUnsaved, WorkerType
    <3> QED BY Zenon, <1>3, <3>1, <3>2, <3>3
  <2> QED BY Zenon, <2>1, <2>2, <2>3 DEF GoesOn, Idling
<1>4. ASSUME NEW w \in Workers, LoseTask(w) \/ LeaveRun(w) \/ DatabaseFault(w) \/ GiveUpSlot(w)
      PROVE Idling
  <2>1. Freed(w)
    BY Zenon, <1>4, Leaving DEF Leaves
  <2>2. UNCHANGED jobRun
    BY Zenon, <1>4 DEF LoseTask, LeaveRun, DatabaseFault, GiveUpSlot
  <2> QED BY Zenon, <2>1, <2>2 DEF Freed, Idling, OnTask
<1>5. ASSUME NEW w \in Workers, RenewLease(w) PROVE Idling
    BY <1>5 DEF RenewLease, Executing, Idling, OnTask, TypeOK, WorkerType, TaskType
<1>6. ASSUME NEW t \in Tasks, LeaseExpires(t) PROVE Idling
    BY Zenon, <1>6 DEF LeaseExpires, Idling, TypeOK, TaskType
<1>7. ASSUME NEW i \in Instances, Boot(i) PROVE Idling
    BY Zenon, <1>7 DEF Boot, Idling, TypeOK
<1>8. ASSUME NEW i \in Instances, Stop(i) PROVE Idling
    BY <1>8 DEF Stop, SingleProcess, IdleWorker, Idling, OnTask, TypeOK, WorkerType
<1>9. ASSUME NEW i \in Instances, LoseLock(i) PROVE FALSE
    BY <1>9 DEF LoseLock, SingleProcess
<1>10. ASSUME NEW w \in Workers, BadPayload(w) PROVE FALSE
    BY Zenon, <1>10 DEF BadPayload
<1>11. ASSUME NEW c \in Callers, TriggerStep(c) PROVE JobsHeld'
    BY <1>11, CheckKeepsJobs, CreatesKeepJobs, ClaimKeepsJobs, FailedCallKeepsJobs, EnqueueKeepsJobs DEF TriggerStep
<1>12. ASSUME NEW w \in Workers, TaskStep(w) PROVE JobsHeld'
    BY Zenon, <1>12, <1>3, <1>4, <1>10, IdlingKeepsJobs, MarkActiveKeepsJobs, FinishTaskKeepsJobs,
       FinalizationKeepsJobs, ReleaseKeepsJobs, FinishJobKeepsJobs DEF TaskStep
<1>13. ASSUME NEW i \in Instances, ProcessStep(i) PROVE JobsHeld'
    BY <1>13, <1>7, <1>8, <1>9, IdlingKeepsJobs, StartKeepsJobs, DownKeepsJobs DEF ProcessStep, Crash, Exit
<1> QED
    BY <1>1, <1>2, <1>3, <1>4, <1>5, <1>6, <1>11, <1>12, <1>13, IdlingKeepsJobs DEF Next

\* On one process whose payloads decode, TriggerJob never starts a second run of a job
\* over one whose tasks are not all done: whatever calls, crashes, lapsed leases and
\* database errors come between, what holds a job holds it alone.
THEOREM JobsRunOnce == ASSUME SingleProcess, ~Garbled PROVE Spec => []OneRunPerJob
<1>1. Init => JobsHeld
    BY DEF Init, IdleCaller, IdleWorker, JobsHeld, Alone, CallsShown, WorkersShown, DrainedShown, ChecksShown,
       Claiming, Engaged, AtWork, Releasing, HasTask, OnTask, HasOpenInRun, Open
<1>2. ProcessInv /\ JobsHeld /\ [Next]_vars => JobsHeld'
    BY JobsHeldNext
<1>3. ProcessInv /\ JobsHeld => OneRunPerJob
    BY Zenon, OpenIsAtWork DEF JobsHeld, Alone, Engaged, OneRunPerJob
<1> QED
    BY ProcessInvariant, <1>1, <1>2, <1>3, PTL DEF Spec

-----------------------------------------------------------------------------
(* One process: who holds a lease. *)

\* No more workers are in use than the pool has.
InUse == {w \in Workers : wrk[w].pc # "unused"}
PoolFits == Cardinality(InUse) <= PoolSize

\* A worker between two tasks is not late, and has no slot before it has taken one.
Unencumbered == \A w \in Workers :
    /\ wrk[w].pc \in {"unused", "idle", "claimed"} => ~wrk[w].late
    /\ wrk[w].pc \in {"unused", "idle", "claimed", "slot"} => ~wrk[w].slot

\* The lease is in force for the worker that has the task up to the queue for a slot,
\* and to the end of the backup where no worker has to wait for a slot. A worker that
\* was told to stop renews it no more, but then nobody is left to take the task.
Keeping == IF PoolSize <= Concurrency THEN {"claimed", "slot", "exec", "copy", "post"} ELSE {"claimed"}
HasLease(w) ==
    /\ task[wrk[w].task].owner = w /\ task[wrk[w].task].status = "running"
    /\ ~wrk[w].late /\ (~wrk[w].stop => task[wrk[w].task].live)
LeaseKept == \A w \in Workers : wrk[w].pc \in Keeping => HasLease(w)

LeaseInv == PoolFits /\ Unencumbered /\ LeaseKept

\* They can be counted.
LEMMA InUseFinite == IsFiniteSet(InUse) /\ Cardinality(InUse) \in Nat
BY Zenon, QueueAssumption, FS_Subset, FS_CardinalityType DEF InUse

\* Workers that are not in use stay so, but for a start, which finds none in use.
LEMMA PoolFitsNext ==
    ASSUME SingleProcess, ProcessInv, PoolFits, [Next]_vars
    PROVE  PoolFits'
<1> TypeOK /\ LinkedWorkers
    BY DEF ProcessInv, QueueInv, Linked
<1>1. ASSUME \A w \in Workers : wrk[w].pc = "unused" => wrk'[w].pc = "unused" PROVE PoolFits'
  <2>1. InUse' \subseteq InUse
    BY <1>1 DEF InUse
  <2>2. Cardinality(InUse') <= Cardinality(InUse) /\ Cardinality(InUse') \in Nat
    BY <2>1, InUseFinite, FS_Subset, FS_CardinalityType
  <2> QED BY <2>2, InUseFinite, QueueAssumption DEF PoolFits
<1>2. ASSUME NEW i \in Instances, NEW pool \in SUBSET Workers, Start(i, pool) PROVE PoolFits'
  <2>1. \A w \in Workers : wrk[w].pc = "unused"
    BY <1>2 DEF Start, ProcessInv, Phases, LinkedWorkers, SingleProcess
  <2>2. InUse' = pool
    BY Zenon, <1>2, <2>1 DEF Start, InUse, IdleWorker
  <2> QED BY <1>2, <2>2, QueueAssumption DEF Start, PoolFits
<1> DEFINE Stay == \A w \in Workers : wrk[w].pc = "unused" => wrk'[w].pc = "unused"
<1>3. ASSUME NEW c \in Callers, TriggerStep(c) PROVE Stay
    BY Zenon, <1>3 DEF TriggerStep, TriggerCheck, TriggerBusy, TriggerClaim, TriggerCreate, TriggerCreateFails,
       TriggerEnqueue, TriggerEnqueueFails
<1>4. ASSUME NEW w \in Workers, NEW t \in Tasks, ClaimBackupTasks(w, t) PROVE Stay
    BY Zenon, <1>4 DEF ClaimBackupTasks, TypeOK
<1>5. ASSUME NEW w \in Workers, Moves(w) PROVE Stay
    BY Zenon, <1>5, Moving DEF GoesOn
<1>7. ASSUME NEW w \in Workers, Leaves(w) PROVE Stay
    BY Zenon, <1>7, Leaving DEF Freed
<1>8. ASSUME NEW i \in Instances, Boot(i) \/ LoseLock(i) \/ Stop(i) \/ Crash(i) \/ Exit(i) PROVE Stay
    BY <1>8 DEF Boot, LoseLock, Stop, Crash, Exit, Down, IdleWorker, TypeOK, WorkerType
<1>9. ASSUME NEW t \in Tasks, LeaseExpires(t) PROVE Stay
    BY <1>9 DEF LeaseExpires
<1>10. CASE UNCHANGED vars
    BY <1>10, <1>1 DEF vars
<1> HIDE DEF Stay
<1>11. Stay => PoolFits'
    BY <1>1 DEF Stay
<1> QED
    BY Zenon, <1>2, <1>3, <1>4, <1>5, <1>7, <1>8, <1>9, <1>10, <1>11 DEF Next, TaskStep, ProcessStep, Moves, Leaves

\* A pool that is not larger than the slots of the job leaves one for everybody.
LEMMA NobodyWaits ==
    ASSUME ProcessInv, PoolFits, Unencumbered, PoolSize <= Concurrency,
           NEW w \in Workers, wrk[w].pc = "slot"
    PROVE  SlotFree(w)
<1> DEFINE S == SlotHolders(wrk[w].inst, JobOf(wrk[w].task))
<1>1. w \in InUse /\ S \subseteq InUse \ {w}
    BY DEF SlotHolders, InUse, Unencumbered
<1>2. IsFiniteSet(InUse \ {w}) /\ Cardinality(InUse \ {w}) = Cardinality(InUse) - 1
    BY Zenon, <1>1, InUseFinite, FS_RemoveElement
<1>3. IsFiniteSet(S) /\ Cardinality(S) <= Cardinality(InUse \ {w}) /\ Cardinality(S) \in Nat
    BY Zenon, <1>1, <1>2, FS_Subset, FS_CardinalityType
<1> HIDE DEF S
<1>4. Cardinality(S) < Concurrency
    BY <1>2, <1>3, InUseFinite, QueueAssumption DEF PoolFits
<1> QED BY <1>4 DEF SlotFree, S

\* Every step keeps the leases, where the database answers the heartbeats.
LEMMA LeaseNext ==
    ASSUME SingleProcess, Heartbeats, ProcessInv, LeaseInv, [Next]_vars
    PROVE  LeaseKept' /\ Unencumbered'
<1> TypeOK /\ LinkedCallers /\ LinkedWorkers /\ Owned /\ LeaseKept /\ Unencumbered
    BY DEF ProcessInv, QueueInv, Linked, LeaseInv
<1> DEFINE Goal == LeaseKept' /\ Unencumbered'
<1>1. CASE UNCHANGED <<wrk, task>>
    BY Zenon, <1>1 DEF Unencumbered, LeaseKept, HasLease
<1>2. ASSUME NEW c \in Callers, TriggerEnqueue(c) PROVE Goal
  <2>1. \A t \in Tasks : task[t].status # "none" => task'[t] = task[t]
    BY <1>2, TasksOfRun DEF TriggerEnqueue, LinkedCallers, Owned
  <2>2. \A w \in Workers : wrk[w].pc \in Keeping => task'[wrk[w].task] = task[wrk[w].task]
    BY Zenon, <2>1 DEF LinkedWorkers, Keeping
  <2> QED BY <1>2, <2>2 DEF TriggerEnqueue, Unencumbered, LeaseKept, HasLease
<1>3. ASSUME NEW w \in Workers, NEW t \in Tasks, ClaimBackupTasks(w, t) PROVE Goal
  <2>1. \A v \in Workers : IF v = w THEN /\ wrk'[v].pc = "claimed" /\ wrk'[v].task = t
                                         /\ wrk'[v].late = wrk[v].late /\ wrk'[v].slot = wrk[v].slot
                                    ELSE wrk'[v] = wrk[v]
    BY <1>3 DEF ClaimBackupTasks, TypeOK, WorkerType
  <2>2. /\ task'[t].owner = w /\ task'[t].status = "running" /\ task'[t].live
        /\ \A u \in Tasks : u # t => task'[u] = task[u]
    BY Zenon, <1>3 DEF ClaimBackupTasks, TypeOK
  <2>3. \A v \in Workers : wrk[v].pc \in Keeping => ~wrk[v].stop
    BY <1>3 DEF ClaimBackupTasks, ProcessInv, Phases, LinkedWorkers, SingleProcess, Keeping
  <2>4. \A v \in Workers : wrk[v].pc \in Keeping => wrk[v].task # t
    BY Zenon, <1>3, <2>3 DEF ClaimBackupTasks, Claimable, LeaseKept, HasLease
  <2>5. Unencumbered'
    BY Zenon, <1>3, <2>1 DEF ClaimBackupTasks, Unencumbered
  <2>6. \A v \in Workers : wrk[v].pc \in Keeping => wrk[v].task \in Tasks
    BY DEF LinkedWorkers, Keeping
  <2>7. LeaseKept'
    <3>1. ASSUME NEW v \in Workers, v # w, wrk'[v].pc \in Keeping PROVE HasLease(v)'
      <4>1. wrk'[v] = wrk[v] /\ task'[wrk[v].task] = task[wrk[v].task]
        BY Zenon, <3>1, <2>1, <2>2, <2>4, <2>6
      <4> QED BY SMT, <3>1, <4>1 DEF LeaseKept, HasLease
    <3>2. HasLease(w)'
      BY Zenon, <1>3, <2>1, <2>2 DEF ClaimBackupTasks, HasLease, Unencumbered
    <3> QED BY Zenon, <3>1, <3>2 DEF LeaseKept
  <2> QED BY <2>5, <2>7
<1>4. ASSUME NEW w \in Workers,
        MarkActive(w) \/ AcquireTaskSlot(w) \/ ExecuteCreatesRow(w)
      PROVE Goal
  <2>1. UNCHANGED task
    BY Zenon, <1>4 DEF MarkActive, AcquireTaskSlot, ExecuteCreatesRow
  <2>2. \A v \in Workers : IF v = w THEN /\ wrk'[v].pc \in Keeping => wrk[v].pc \in Keeping
                                         /\ wrk'[v].task = wrk[v].task /\ wrk'[v].late = wrk[v].late
                                         /\ wrk'[v].stop = wrk[v].stop
                                    ELSE wrk'[v] = wrk[v]
    BY <1>4 DEF MarkActive, AcquireTaskSlot, ExecuteCreatesRow, Keeping, TypeOK, WorkerType
  <2>3. Unencumbered'
    <3>1. \A v \in Workers \ {w} : wrk'[v] = wrk[v]
      BY Zenon, <2>2
    <3>2. /\ wrk'[w].pc \notin {"unused", "idle", "claimed"}
          /\ wrk'[w].pc = "slot" => ~wrk'[w].slot
      <4>1. CASE MarkActive(w)
        BY <4>1 DEF MarkActive, Unencumbered, TypeOK, WorkerType
      <4>2. CASE AcquireTaskSlot(w)
        BY Zenon, <4>2 DEF AcquireTaskSlot, TypeOK, WorkerType
      <4>3. CASE ExecuteCreatesRow(w)
        BY Zenon, <4>3 DEF ExecuteCreatesRow, TypeOK, WorkerType
      <4> QED BY Zenon, <1>4, <4>1, <4>2, <4>3
    <3> QED BY Zenon, <3>1, <3>2 DEF Unencumbered
  <2> QED BY <2>1, <2>2, <2>3 DEF LeaseKept, HasLease
<1>5. ASSUME NEW w \in Workers, WaitForSlot(w) PROVE Goal
  <2>1. ~(PoolSize <= Concurrency)
    BY Zenon, <1>5, NobodyWaits DEF WaitForSlot, LeaseInv
  <2> QED BY <1>5, <2>1 DEF WaitForSlot, Keeping, Unencumbered, LeaseKept, HasLease, TypeOK, WorkerType
<1>6. ASSUME NEW w \in Workers,
        \/ ExecuteFailsEarly(w) \/ ExecuteEnds(w) \/ ExecuteUnsaved(w) \/ PostProcess(w)
        \/ ClaimFinalization(w) \/ ReleaseJob(w)
      PROVE Goal
  <2>1. UNCHANGED task
    BY Zenon, <1>6 DEF ExecuteFailsEarly, ExecuteEnds, ExecuteUnsaved, PostProcess, ClaimFinalization, ReleaseJob
  <2>2. GoesOn(w)
    BY Zenon, <1>6, Moving DEF Moves
  <2>3. /\ wrk'[w].pc \in {"finish", "post", "release", "aggregate"}
        /\ wrk'[w].pc = "post" => wrk[w].pc = "copy"
        /\ wrk'[w].late = wrk[w].late
    <3> wrk \in [Workers -> WorkerType]
      BY Zenon DEF TypeOK
    <3>1. CASE ExecuteFailsEarly(w) \/ PostProcess(w)
      BY <3>1 DEF ExecuteFailsEarly, PostProcess, WorkerType
    <3>2. CASE ExecuteEnds(w)
      BY <3>2 DEF ExecuteEnds, WorkerType
    <3>3. CASE ExecuteUnsaved(w)
      BY <3>3 DEF ExecuteUnsaved, WorkerType
    <3>4. CASE ClaimFinalization(w) \/ ReleaseJob(w)
      BY <3>4 DEF ClaimFinalization, ReleaseJob, WorkerType
    <3> QED BY Zenon, <1>6, <3>1, <3>2, <3>3, <3>4
  <2>5. Unencumbered'
    BY Zenon, <2>2, <2>3 DEF GoesOn, Unencumbered
  <2>6. \A v \in Workers : wrk'[v].pc \in Keeping => wrk[v].pc \in Keeping
    BY Zenon, <2>2, <2>3 DEF GoesOn, Keeping
  <2> QED BY SMT, <2>1, <2>2, <2>3, <2>5, <2>6 DEF GoesOn, LeaseKept, HasLease
<1>7. ASSUME NEW w \in Workers, BadPayload(w) \/ FinishBackupTask(w) PROVE Goal
  <2>1. \A v \in Workers : IF v = w THEN wrk'[v].pc = "check" ELSE wrk'[v] = wrk[v]
    BY <1>7 DEF BadPayload, FinishBackupTask, TypeOK, WorkerType
  <2>2. \A u \in Tasks : task'[u] = task[u] \/ task[u].owner = w
    BY Zenon, <1>7 DEF BadPayload, FinishBackupTask, TypeOK
  <2>3. \A v \in Workers : v # w /\ wrk[v].pc \in Keeping => task'[wrk[v].task] = task[wrk[v].task]
    BY <2>2 DEF LeaseKept, HasLease, LinkedWorkers, Keeping
  <2> QED BY <2>1, <2>3 DEF Keeping, Unencumbered, LeaseKept, HasLease
<1>8. ASSUME NEW w \in Workers,
        LoseTask(w) \/ LeaveRun(w) \/ DatabaseFault(w) \/ FinishJob(w) \/ GiveUpSlot(w)
      PROVE Goal
  <2>1. UNCHANGED task
    BY Zenon, <1>8 DEF LoseTask, LeaveRun, DatabaseFault, FinishJob, GiveUpSlot
  <2>2. \A v \in Workers : IF v = w THEN wrk'[v].pc \in {"unused", "idle"} /\ ~wrk'[v].late /\ ~wrk'[v].slot
                                    ELSE wrk'[v] = wrk[v]
    BY Zenon, <1>8, Leaving DEF Leaves, Freed
  <2> QED BY <2>1, <2>2 DEF Keeping, Unencumbered, LeaseKept, HasLease
<1>9. ASSUME NEW w \in Workers, RenewLease(w) PROVE Goal
  <2>1. \A v \in Workers : IF v = w THEN /\ wrk'[v].pc = wrk[v].pc /\ wrk'[v].task = wrk[v].task
                                         /\ wrk'[v].stop = wrk[v].stop /\ wrk'[v].slot = wrk[v].slot /\ ~wrk'[v].late
                                    ELSE wrk'[v] = wrk[v]
    BY <1>9 DEF RenewLease, TypeOK, WorkerType
  <2>2. \A u \in Tasks : /\ task'[u].owner = task[u].owner /\ task'[u].status = task[u].status
                         /\ task[u].live => task'[u].live
                         /\ u = wrk[w].task => task'[u].live
    BY <1>9 DEF RenewLease, TypeOK, TaskType
  <2>3. \A v \in Workers : wrk[v].pc \in Keeping => wrk[v].task \in Tasks
    BY DEF LinkedWorkers, Keeping
  <2> QED BY <2>1, <2>2, <2>3 DEF Unencumbered, LeaseKept, HasLease
<1>10. ASSUME NEW t \in Tasks, LeaseExpires(t) PROVE Goal
  <2>1. /\ UNCHANGED wrk
        /\ \A u \in Tasks : IF u = t THEN task'[u].owner = task[u].owner /\ task'[u].status = task[u].status
                                     ELSE task'[u] = task[u]
    BY Zenon, <1>10 DEF LeaseExpires, TypeOK, TaskType
  <2>2. \A v \in Workers : wrk[v].pc \in Keeping /\ wrk[v].task = t => wrk[v].stop
    BY Zenon, <1>10 DEF LeaseExpires, Covered, LeaseKept, HasLease
  <2>3. \A v \in Workers : wrk[v].pc \in Keeping => wrk[v].task \in Tasks
    BY DEF LinkedWorkers, Keeping
  <2> QED BY <2>1, <2>2, <2>3 DEF Unencumbered, LeaseKept, HasLease
<1>11. ASSUME NEW i \in Instances, NEW pool \in SUBSET Workers, Start(i, pool) PROVE Goal
  <2>1. \A w \in Workers : wrk[w].pc = "unused"
    BY <1>11 DEF Start, ProcessInv, Phases, LinkedWorkers, SingleProcess
  <2>2. \A w \in Workers : wrk'[w] = wrk[w] \/ (wrk'[w].pc = "idle" /\ ~wrk'[w].late /\ ~wrk'[w].slot)
    BY Zenon, <1>11 DEF Start, IdleWorker
  <2> QED BY Zenon, <2>1, <2>2 DEF Keeping, Unencumbered, LeaseKept
<1>12. ASSUME NEW i \in Instances, Stop(i) PROVE Goal
  <2>1. \A w \in Workers :
           \/ wrk'[w] = wrk[w]
           \/ wrk'[w].pc = "unused" /\ ~wrk'[w].late /\ ~wrk'[w].slot
           \/ /\ wrk'[w].pc = wrk[w].pc /\ wrk'[w].task = wrk[w].task /\ wrk'[w].late = wrk[w].late
              /\ wrk'[w].slot = wrk[w].slot /\ wrk'[w].stop
    <3> SUFFICES ASSUME NEW w \in Workers
                 PROVE  \/ wrk'[w] = wrk[w]
                        \/ wrk'[w].pc = "unused" /\ ~wrk'[w].late /\ ~wrk'[w].slot
                        \/ /\ wrk'[w].pc = wrk[w].pc /\ wrk'[w].task = wrk[w].task
                           /\ wrk'[w].late = wrk[w].late /\ wrk'[w].slot = wrk[w].slot /\ wrk'[w].stop
      OBVIOUS
    <3>1. wrk'[w] \in {wrk[w], IdleWorker, [wrk[w] EXCEPT !.stop = TRUE]}
      BY Zenon, <1>12 DEF Stop
    <3>2. wrk[w] \in WorkerType
      BY Zenon DEF TypeOK
    <3> QED BY <3>1, <3>2 DEF IdleWorker, WorkerType
  <2>2. UNCHANGED task
    BY Zenon, <1>12 DEF Stop
  <2> QED BY <2>1, <2>2 DEF Keeping, Unencumbered, LeaseKept, HasLease
<1>13. ASSUME NEW i \in Instances, Crash(i) \/ Exit(i) PROVE Goal
  <2>1. \A w \in Workers : wrk'[w] = wrk[w] \/ (wrk'[w].pc = "unused" /\ ~wrk'[w].late /\ ~wrk'[w].slot)
    BY <1>13 DEF Crash, Exit, Down, IdleWorker
  <2>2. UNCHANGED task
    BY Zenon, <1>13 DEF Crash, Exit, Down
  <2> QED BY <2>1, <2>2 DEF Keeping, Unencumbered, LeaseKept, HasLease
<1>14. ASSUME NEW c \in Callers, NEW i \in Instances, NEW j \in Jobs, NEW sched \in BOOLEAN, TriggerCheck(c, i, j, sched)
      PROVE UNCHANGED <<wrk, task>>
    BY Zenon, <1>14 DEF TriggerCheck
<1>15. ASSUME NEW c \in Callers,
        \/ TriggerBusy(c) \/ TriggerClaim(c) \/ TriggerCreate(c) \/ TriggerCreateFails(c) \/ TriggerEnqueueFails(c)
      PROVE UNCHANGED <<wrk, task>>
    BY Zenon, <1>15 DEF TriggerBusy, TriggerClaim, TriggerCreate, TriggerCreateFails, TriggerEnqueueFails
<1>16. ASSUME NEW i \in Instances, Boot(i) \/ LoseLock(i) PROVE UNCHANGED <<wrk, task>>
    BY Zenon, <1>16 DEF Boot, LoseLock
<1> HIDE DEF Goal
<1>17. Goal
    BY <1>1, <1>2, <1>3, <1>4, <1>5, <1>6, <1>7, <1>8, <1>9, <1>10, <1>11, <1>12, <1>13, <1>14, <1>15, <1>16
    DEF Goal, Next, TriggerStep, TaskStep, ProcessStep, vars
<1> QED BY <1>17 DEF Goal

\* The invariant of the leases.
THEOREM LeaseInvariant == ASSUME SingleProcess, Heartbeats PROVE Spec => []LeaseInv
<1>1. Init => LeaseInv
  <2> SUFFICES ASSUME Init PROVE LeaseInv
    OBVIOUS
  <2>1. InUse = {}
    BY DEF Init, InUse, IdleWorker
  <2>2. PoolFits
    BY <2>1, FS_EmptySet, QueueAssumption DEF PoolFits
  <2>3. Unencumbered /\ LeaseKept
    <3>1. \A w \in Workers : wrk[w].pc = "unused" /\ ~wrk[w].late /\ ~wrk[w].slot
      BY DEF Init, IdleWorker
    <3>2. "unused" \notin Keeping
      BY DEF Keeping
    <3> QED BY Zenon, <3>1, <3>2 DEF Unencumbered, LeaseKept
  <2> QED BY <2>2, <2>3 DEF LeaseInv
<1>2. ProcessInv /\ LeaseInv /\ [Next]_vars => LeaseInv'
    BY PoolFitsNext, LeaseNext DEF LeaseInv
<1> QED
    BY ProcessInvariant, <1>1, <1>2, PTL DEF Spec

\* On one process whose heartbeats are answered and whose pool is not larger than the
\* slots of a job, no task is ever executed by two workers at once.
THEOREM TasksExecuteOnce ==
    ASSUME SingleProcess, Heartbeats, PoolSize <= Concurrency
    PROVE  Spec => []SingleExecution
<1>1. LeaseInv => SingleExecution
    BY DEF LeaseInv, LeaseKept, HasLease, Keeping, SingleExecution, Executing
<1> QED
    BY LeaseInvariant, <1>1, PTL

-----------------------------------------------------------------------------
(* One process: a held job is released. *)

\* What released a job before still does.
LEMMA ReleasersStay ==
    ASSUME ActiveIsReleased,
           \A i \in Instances : active'[i] \subseteq active[i],
           \A c \in Callers : trig[c].pc = "claimed" => trig'[c] = trig[c],
           \A r \in Runs : jobRun[r].status = "running" => jobRun'[r] = jobRun[r],
           \A w \in Workers : wrk[w].pc = "release" =>
              /\ wrk'[w].pc = "release" /\ wrk'[w].inst = wrk[w].inst /\ wrk'[w].task = wrk[w].task
              /\ jobRun'[wrk[w].task[1]].job = jobRun[wrk[w].task[1]].job
    PROVE  ActiveIsReleased'
<1> SUFFICES ASSUME NEW i \in Instances, NEW j \in active[i]
             PROVE  \/ \E c \in Callers : trig'[c].inst = i /\ trig'[c].job = j /\ trig'[c].pc = "claimed"
                    \/ \E r \in Runs : jobRun'[r].job = j /\ jobRun'[r].status = "running"
                    \/ \E w \in Workers : wrk'[w].inst = i /\ wrk'[w].pc = "release" /\ JobOf(wrk[w].task)' = j
    BY DEF ActiveIsReleased
<1> QED BY DEF ActiveIsReleased, JobOf

\* Every step leaves somebody to release a held job.
LEMMA ActiveNext ==
    ASSUME SingleProcess, ProcessInv, LeaseKept, ActiveIsReleased, [Next]_vars
    PROVE  ActiveIsReleased'
<1> TypeOK /\ LinkedCallers /\ LinkedWorkers /\ Marked
    BY DEF ProcessInv, QueueInv, Linked
<1>1. CASE UNCHANGED <<active, trig, jobRun, wrk>>
    BY Zenon, <1>1, ReleasersStay
<1>2. ASSUME NEW c \in Callers, NEW i \in Instances, NEW j \in Jobs, NEW sched \in BOOLEAN, TriggerCheck(c, i, j, sched)
      PROVE ActiveIsReleased'
    BY <1>2, ReleasersStay DEF TriggerCheck, TypeOK
<1>3. ASSUME NEW c \in Callers, TriggerBusy(c) PROVE ActiveIsReleased'
  <2>1. PICK r \in Runs : /\ jobRun[r].status = "none"
                          /\ \A q \in Runs \ {r} : jobRun'[q] = jobRun[q]
    BY Zenon, <1>3 DEF TriggerBusy, IsNextRun, TypeOK
  <2>2. \A w \in Workers : wrk[w].pc = "release" => wrk[w].task[1] \in Runs \ {r}
    BY Zenon, <2>1, TaskParts DEF LinkedWorkers, Marked
  <2> QED BY <1>3, <2>1, <2>2, ReleasersStay DEF TriggerBusy, TypeOK
<1>4. ASSUME NEW c \in Callers, TriggerClaim(c) PROVE ActiveIsReleased'
  <2>1. /\ \A d \in Callers \ {c} : trig'[d] = trig[d]
        /\ trig'[c].pc = "claimed" /\ trig'[c].job = trig[c].job /\ trig'[c].inst = trig[c].inst
        /\ trig[c].pc = "checked" /\ UNCHANGED <<wrk, jobRun>>
    BY Zenon, <1>4 DEF TriggerClaim, TypeOK, CallerType
  <2>2. \A i \in Instances : \A j \in active'[i] : j \in active[i] \/ (i = trig[c].inst /\ j = trig[c].job)
    BY Zenon, <1>4 DEF TriggerClaim, TypeOK
  <2> QED BY <2>1, <2>2 DEF ActiveIsReleased, JobOf
<1>5. ASSUME NEW c \in Callers, TriggerCreate(c) PROVE ActiveIsReleased'
  <2>1. PICK r \in Runs : /\ jobRun[r].status = "none"
                          /\ jobRun'[r].status = "running" /\ jobRun'[r].job = trig[c].job
                          /\ \A q \in Runs \ {r} : jobRun'[q] = jobRun[q]
    BY <1>5 DEF TriggerCreate, IsNextRun, TypeOK
  <2>2. /\ \A d \in Callers \ {c} : trig'[d] = trig[d]
        /\ UNCHANGED <<active, wrk>>
    BY Zenon, <1>5 DEF TriggerCreate, TypeOK
  <2>3. \A w \in Workers : wrk[w].pc = "release" => wrk[w].task[1] \in Runs \ {r}
    BY Zenon, <2>1, TaskParts DEF LinkedWorkers, Marked
  <2> QED BY <2>1, <2>2, <2>3 DEF ActiveIsReleased, JobOf
<1>6. ASSUME NEW c \in Callers, TriggerCreateFails(c) \/ TriggerEnqueueFails(c) PROVE ActiveIsReleased'
  <2>1. /\ \A d \in Callers \ {c} : trig'[d] = trig[d]
        /\ UNCHANGED wrk
    BY Zenon, <1>6 DEF TriggerCreateFails, TriggerEnqueueFails, TypeOK
  <2>2. \A i \in Instances : \A j \in active'[i] : j \in active[i] /\ j # trig[c].job
    BY <1>6 DEF TriggerCreateFails, TriggerEnqueueFails, TypeOK, LinkedCallers, SingleProcess
  <2>3. \A r \in Runs : /\ jobRun'[r].job = jobRun[r].job
                        /\ jobRun'[r] = jobRun[r] \/ jobRun[r].job = trig[c].job
    BY <1>6 DEF TriggerCreateFails, TriggerEnqueueFails, TypeOK, LinkedCallers, JobRunType, ProcessInv, CallsUnderWay
  <2>4. \A w \in Workers : wrk[w].pc = "release" => wrk[w].task[1] \in Runs
    BY Zenon, TaskParts DEF LinkedWorkers
  <2> QED BY <2>1, <2>2, <2>3, <2>4 DEF ActiveIsReleased, JobOf
<1>7. ASSUME NEW c \in Callers, TriggerEnqueue(c) PROVE ActiveIsReleased'
    BY <1>7, ReleasersStay DEF TriggerEnqueue, TypeOK
<1>8. ASSUME NEW w \in Workers, MarkActive(w) PROVE ActiveIsReleased'
  <2> DEFINE r == wrk[w].task[1]
  <2>1. /\ wrk[w].pc = "claimed" /\ wrk[w].task \in Tasks /\ r \in Runs /\ UNCHANGED <<trig, jobRun>>
        /\ \A v \in Workers \ {w} : wrk'[v] = wrk[v]
    BY <1>8, TaskParts DEF MarkActive, LinkedWorkers, TypeOK
  <2>2. task[wrk[w].task].status = "running"
    BY Zenon, <2>1 DEF LeaseKept, HasLease, Keeping
  <2>3. HasOpenInRun(r)
    BY Zenon, <2>1, <2>2, TasksOfRun DEF HasOpenInRun, Open
  <2>4. jobRun[r].status = "running"
    BY Zenon, <2>1, <2>3, OpenIsAtWork DEF AtWork
  <2>5. \A i \in Instances : \A j \in active'[i] : j \in active[i] \/ j = jobRun[r].job
    BY Zenon, <1>8 DEF MarkActive, JobOf, TypeOK
  <2> QED BY <2>1, <2>4, <2>5 DEF ActiveIsReleased, JobOf
<1>9. ASSUME NEW w \in Workers, ClaimFinalization(w) PROVE ActiveIsReleased'
  <2> DEFINE r == wrk[w].task[1]
  <2>1. /\ wrk[w].task \in Tasks /\ r \in Runs /\ wrk[w].inst \in Instances /\ UNCHANGED <<active, trig>>
        /\ \A q \in Runs : jobRun'[q].job = jobRun[q].job /\ (q # r => jobRun'[q] = jobRun[q])
    BY <1>9, TaskParts DEF ClaimFinalization, LinkedWorkers, TypeOK, JobRunType
  <2>2. \A v \in Workers : IF v = w THEN /\ wrk'[v].pc = "release" /\ wrk'[v].task = wrk[v].task
                                         /\ wrk'[v].inst = wrk[v].inst
                                    ELSE wrk'[v] = wrk[v]
    BY <1>9 DEF ClaimFinalization, TypeOK, WorkerType
  <2>3. \A v \in Workers : wrk[v].pc = "release" => wrk[v].task[1] \in Runs
    BY Zenon, TaskParts DEF LinkedWorkers
  <2> QED BY <2>1, <2>2, <2>3 DEF ActiveIsReleased, JobOf, SingleProcess
<1>10. ASSUME NEW w \in Workers, ReleaseJob(w) PROVE ActiveIsReleased'
  <2>1. UNCHANGED <<trig, jobRun>> /\ \A v \in Workers \ {w} : wrk'[v] = wrk[v]
    BY Zenon, <1>10 DEF ReleaseJob, TypeOK
  <2>2. \A i \in Instances : \A j \in active'[i] : j \in active[i] /\ j # JobOf(wrk[w].task)
    BY Zenon, <1>10 DEF ReleaseJob, TypeOK, LinkedWorkers, SingleProcess
  <2> QED BY <2>1, <2>2 DEF ActiveIsReleased, JobOf
<1>11. ASSUME NEW w \in Workers, FinishJob(w) PROVE ActiveIsReleased'
  <2>1. wrk[w].task[1] \in Runs /\ jobRun[wrk[w].task[1]].status # "running"
    BY Zenon, <1>11, TaskParts DEF FinishJob, LinkedWorkers, Marked
  <2>2. \A q \in Runs : jobRun'[q].job = jobRun[q].job /\ (jobRun[q].status = "running" => jobRun'[q] = jobRun[q])
    BY <1>11, <2>1 DEF FinishJob, TypeOK, JobRunType
  <2>3. \A v \in Workers : wrk[v].pc = "release" => wrk'[v] = wrk[v] /\ wrk[v].task[1] \in Runs
    BY <1>11, TaskParts DEF FinishJob, TypeOK, LinkedWorkers
  <2> QED BY Zenon, <1>11, <2>2, <2>3, ReleasersStay DEF FinishJob
<1>12. ASSUME NEW w \in Workers, NEW t \in Tasks, ClaimBackupTasks(w, t) PROVE ActiveIsReleased'
    BY <1>12, ReleasersStay DEF ClaimBackupTasks, TypeOK
<1>13. ASSUME NEW w \in Workers,
        \/ BadPayload(w) \/ AcquireTaskSlot(w) \/ WaitForSlot(w) \/ GiveUpSlot(w) \/ ExecuteCreatesRow(w)
        \/ ExecuteFailsEarly(w) \/ ExecuteEnds(w) \/ ExecuteUnsaved(w) \/ PostProcess(w)
        \/ FinishBackupTask(w) \/ LoseTask(w) \/ LeaveRun(w) \/ DatabaseFault(w) \/ RenewLease(w)
      PROVE ActiveIsReleased'
  <2>1. UNCHANGED <<active, trig, jobRun>> /\ wrk[w].pc # "release"
    BY Zenon, <1>13 DEF BadPayload, AcquireTaskSlot, WaitForSlot, GiveUpSlot, ExecuteCreatesRow, ExecuteFailsEarly,
       ExecuteEnds, ExecuteUnsaved, PostProcess, FinishBackupTask, LoseTask, LeaveRun, DatabaseFault, RenewLease,
       Executing
  <2>2. \A v \in Workers \ {w} : wrk'[v] = wrk[v]
    BY Zenon, <1>13, Moving, Leaving DEF Moves, Leaves, GoesOn, Freed
  <2>3. \A v \in Workers : wrk[v].pc = "release" => wrk'[v] = wrk[v]
    BY Zenon, <2>1, <2>2
  <2> QED BY Zenon, <2>1, <2>3, ReleasersStay
<1>14. ASSUME NEW i \in Instances, NEW pool \in SUBSET Workers, Start(i, pool) PROVE ActiveIsReleased'
    BY <1>14 DEF Start, ProcessInv, Phases, TypeOK, SingleProcess, ActiveIsReleased
<1>15. ASSUME NEW i \in Instances, Stop(i) PROVE ActiveIsReleased'
  <2>1. UNCHANGED <<active, trig, jobRun>>
    BY Zenon, <1>15 DEF Stop
  <2>2. \A w \in Workers : wrk[w].pc = "release" =>
          wrk'[w].pc = "release" /\ wrk'[w].inst = wrk[w].inst /\ wrk'[w].task = wrk[w].task
    BY <1>15 DEF Stop, TypeOK, WorkerType
  <2> QED BY Zenon, <2>1, <2>2, ReleasersStay
<1>16. ASSUME NEW i \in Instances, Crash(i) \/ Exit(i) PROVE ActiveIsReleased'
    BY <1>16 DEF Crash, Exit, Down, TypeOK, SingleProcess, ActiveIsReleased
<1>17. ASSUME NEW i \in Instances, Boot(i) \/ LoseLock(i) PROVE UNCHANGED <<active, trig, jobRun, wrk>>
    BY Zenon, <1>17 DEF Boot, LoseLock
<1>18. ASSUME NEW t \in Tasks, LeaseExpires(t) PROVE UNCHANGED <<active, trig, jobRun, wrk>>
    BY <1>18 DEF LeaseExpires
<1> QED
    BY <1>1, <1>2, <1>3, <1>4, <1>5, <1>6, <1>7, <1>8, <1>9, <1>10, <1>11, <1>12, <1>13, <1>14, <1>15, <1>16,
       <1>17, <1>18
    DEF Next, TriggerStep, TaskStep, ProcessStep, vars

\* On one process whose heartbeats are answered, a job is held in Scheduler.active only
\* as long as a call, an unfinished run or a finalizer is there to release it.
THEOREM HeldJobsAreReleased == ASSUME SingleProcess, Heartbeats PROVE Spec => []ActiveIsReleased
<1>1. Init => ActiveIsReleased
    BY DEF Init, ActiveIsReleased
<1>2. ProcessInv /\ LeaseInv /\ ActiveIsReleased /\ [Next]_vars => ActiveIsReleased'
    BY ActiveNext DEF LeaseInv
<1> QED
    BY ProcessInvariant, LeaseInvariant, <1>1, <1>2, PTL DEF Spec
=============================================================================
