-------------------------- MODULE VMTransferProofs --------------------------
(***************************************************************************)
(* What holds of the transfer of a machine for any number of processes and *)
(* any settings: modes, policies, operator calls, faults, crashes, lost    *)
(* sessions.                                                               *)
(***************************************************************************)
EXTENDS VMTransfer, TLAPS

-----------------------------------------------------------------------------
(* Types. *)

Places ==
    {"none", "wait", "plan", "full", "create", "created", "fill", "stop", "shutdown", "stopping",
     "sync", "delta", "start", "check", "request", "guest", "recover", "undo", "find", "halt",
     "delete", "source", "held", "undone"}
Rows ==
    [status : Status, phase : Phases, pending : Actions \cup {"none"}, active : Actions,
     id : BOOLEAN, restore : BOOLEAN, applied : BOOLEAN, stopped : BOOLEAN, requested : BOOLEAN,
     started : BOOLEAN, was : BOOLEAN, manual : BOOLEAN, next : Actions \cup {"none"},
     tries : Nat, rollbacks : Nat]
Images == {"none", "stale", "current"}
Workers ==
    [pc : Places, action : Actions \cup {"none"}, img : Images, synced : BOOLEAN, t : Rows]
Powers == [source : {"up", "stopping", "down"}, target : {"up", "stopping", "down", "none"}]
Disks == [disks : {"none", "partial", "stale", "current"}, ran : BOOLEAN, mixed : BOOLEAN, forked : BOOLEAN]

\* The machines and what surrounds the row have their types.
Shapes ==
    /\ conf \in Settings /\ pause \in BOOLEAN
    /\ proc \in [Instances -> {"up", "closing", "down", "off"}] /\ tick \in [Instances -> BOOLEAN]
    /\ power \in Powers /\ image \in Disks /\ count \in [Counters -> Nat]

-----------------------------------------------------------------------------
(* The row, its copies and its lock. *)

\* A copy that is the row belongs to a worker that waits for its turn with the action
\* of the row, or is at work on it.
Copy(w, t) ==
    w.synced => /\ w.t = t /\ w.pc # "none" /\ w.action = t.active
                /\ w.pc = "wait" => t.status = "queued" /\ t.pending = w.action
                /\ w.pc # "wait" => t.status = "running" /\ t.pending = "none"

\* A worker at work, past acquireSlot.
Active(i) == wrk[i].pc \notin {"none", "wait"}

\* The lock belongs to the one worker at work, as long as no session was lost, and
\* nobody else has written the row since.
Locked ==
    count["lost"] = 0 =>
        /\ \A i \in Instances : Active(i) => lock = i /\ wrk[i].synced
        /\ lock # None => Active(lock)

Base ==
    /\ row \in Rows /\ wrk \in [Instances -> Workers] /\ lock \in Instances \cup {None}
    /\ \A i \in Instances : Copy(wrk[i], row)
    /\ row.status = "recovering" => row.next \in Actions
    /\ Locked

-----------------------------------------------------------------------------
(* The machines. *)

\* The actions of a transfer whose target was never asked to start.
Fresh == {"prepare", "sync", "cutover", "retry_prepare", "start_target"}
\* The actions that go straight to the start of the target.
Begins == {"start_target", "recover_target"}
\* The actions ReconcileRecovery takes.
Automatics == {"prepare", "retry_prepare", "sync", "cutover", "recover_target", "rollback", "cancel"}
Released == {"canceled", "rolled_back", "forgotten"}

\* Nothing went its own way: no delta over a target that has run, no second machine.
Clean(d) == ~d.mixed /\ ~d.forked

\* Once the source is down the disks of the target are its last state.
Startable(p, d) == p.target # "none" => d.disks = "current" \/ p.source = "up"

\* The row t of a transfer against the power p of both machines and the disks d.
RowFits(t, p, d) ==
    /\ t.pending \in {"none", t.active}
    /\ t.started => t.requested
    /\ t.pending \in Fresh => ~t.requested
    /\ t.status = "recovering" =>
          t.next \in Automatics /\ (t.next \in Fresh => ~t.requested) /\ (t.next = "recover_target" => t.requested)
    /\ p.target \in {"up", "stopping"} => t.requested
    /\ p.target = "none" => d.disks = "none" /\ ~d.ran
    /\ d.disks = "current" => p.source = "down"
    /\ Clean(d) /\ t.requested /\ p.target # "none" => p.source = "down" /\ d.disks = "current"
    /\ Clean(d) /\ (t.phase # "other" \/ t.active \in Begins) => Startable(p, d)
    /\ "rollback_keep" \notin conf.calls => t.active # "rollback_keep" /\ ~d.mixed /\ (d.ran => t.requested)
    /\ t.status \in Released => p.target = "none"

\* The places before the target is asked to start, and the ones of a rollback.
Early == {"plan", "full", "create", "created", "fill", "stop", "shutdown", "stopping", "sync", "delta"}
Back == {"undo", "find", "halt", "delete", "source", "held", "undone"}

\* A worker at pc with its action and the image of its last backup, likewise.
WorkFits(pc, action, img, t, p, d) ==
    /\ pc \in Early => ~t.requested
    /\ pc \in Early \cup Back => action \notin Begins
    /\ pc \in {"shutdown", "stopping", "create", "created", "fill", "delta"} \cup (Back \ {"undo"}) => t.phase = "other"
    /\ pc \in {"plan", "full", "create", "created", "fill"} => action # "cutover"
    /\ pc \in {"create", "created", "fill", "delta"} /\ img = "current" => p.source = "down"
    /\ pc = "full" /\ conf.mode = "cold" => p.source \in {"up", "down"}
    /\ pc \in {"create", "created", "fill"} /\ conf.mode = "cold" => img = "current" \/ p.source = "up"
    /\ pc = "sync" /\ action = "cutover" => p.source \in {"up", "down"}
    /\ pc = "delta" /\ action = "cutover" => img = "current" \/ p.source = "up"
    /\ pc \in {"start", "check"} /\ Clean(d) => Startable(p, d)
    /\ pc \in {"request", "guest"} => t.requested
    /\ pc = "recover" => action = "recover_target"
    /\ pc \in {"delete", "source", "held", "undone"} => p.target \in {"down", "none"}
    /\ pc \in {"source", "undone"} /\ action \notin {"hold", "rollback_keep"} => p.target = "none"
    /\ pc = "undone" => action # "hold"

WorkerFits(w, t, p, d) == WorkFits(w.pc, w.action, w.img, t, p, d)

\* As long as no session was lost, the row and the worker at work fit the machines.
Machines ==
    count["lost"] = 0 =>
        /\ RowFits(row, power, image)
        /\ \A i \in Instances : Active(i) => WorkerFits(wrk[i], row, power, image)

-----------------------------------------------------------------------------
(* What an update leaves of a row and of a worker. *)

\* The row of an action under way, with its phase and the marks of the start.
Moved(u, t, phase, requested, started) ==
    /\ u \in Rows /\ u.status = t.status /\ u.pending = t.pending /\ u.active = t.active /\ u.next = t.next
    /\ u.phase = phase /\ u.requested = requested /\ u.started = started
    /\ u.tries = t.tries /\ u.rollbacks = t.rollbacks

\* The row of an action that is over.
Over(u, t, status, phase, requested, started) ==
    /\ u \in Rows /\ u.status = status /\ u.pending = t.pending /\ u.active = t.active /\ u.next = "none"
    /\ u.phase = phase /\ u.requested = requested /\ u.started = started
    /\ u.tries = t.tries /\ u.rollbacks = t.rollbacks

\* Sums of counts.
LEMMA Sums ==
    /\ ~(0 + 0 > 0)
    /\ \A a, b, c, d, e, f \in Nat :
          a # 0 \/ b # 0 \/ c # 0 \/ d # 0 \/ e # 0 \/ f # 0 => a + b + c + d + e + f > 0
OBVIOUS

\* Names of the members a step writes.
LEMMA Members ==
    /\ {"other", "starting", "final"} = Phases
    /\ {"queued", "running", "ready", "recovering", "interrupted", "failed", "blocked", "held",
        "awaiting_confirmation", "completed", "canceled", "rolled_back", "rolled_back_retained",
        "forgotten"} = Status
BY Zenon DEF Phases, Status

\* The updates of the rows an action saves on its way.
LEMMA MovedRows ==
    ASSUME NEW t \in Rows PROVE
    /\ Moved(t, t, t.phase, t.requested, t.started)
    /\ \A p \in Phases : Moved([t EXCEPT !.phase = p], t, p, t.requested, t.started)
    /\ \A b \in BOOLEAN : Moved([t EXCEPT !.was = b], t, t.phase, t.requested, t.started)
    /\ \A p \in Phases : Moved([t EXCEPT !.phase = p, !.restore = TRUE], t, p, t.requested, t.started)
    /\ Moved([t EXCEPT !.id = TRUE], t, t.phase, t.requested, t.started)
    /\ Moved([t EXCEPT !.applied = TRUE], t, t.phase, t.requested, t.started)
    /\ Moved([t EXCEPT !.stopped = TRUE], t, t.phase, t.requested, t.started)
    /\ Moved([t EXCEPT !.requested = TRUE], t, t.phase, TRUE, t.started)
    /\ Moved([t EXCEPT !.started = TRUE], t, t.phase, t.requested, TRUE)
<1>1. Moved(t, t, t.phase, t.requested, t.started)
  BY Zenon DEF Rows, Moved
<1>2. \A p \in Phases : Moved([t EXCEPT !.phase = p], t, p, t.requested, t.started)
  BY Zenon DEF Rows, Moved
<1>3. \A b \in BOOLEAN : Moved([t EXCEPT !.was = b], t, t.phase, t.requested, t.started)
  BY Zenon DEF Rows, Moved
<1>4. \A p \in Phases : Moved([t EXCEPT !.phase = p, !.restore = TRUE], t, p, t.requested, t.started)
  BY Zenon DEF Rows, Moved
<1>5. Moved([t EXCEPT !.id = TRUE], t, t.phase, t.requested, t.started)
  BY Zenon DEF Rows, Moved
<1>6. Moved([t EXCEPT !.applied = TRUE], t, t.phase, t.requested, t.started)
  BY Zenon DEF Rows, Moved
<1>7. Moved([t EXCEPT !.stopped = TRUE], t, t.phase, t.requested, t.started)
  BY Zenon DEF Rows, Moved
<1>8. Moved([t EXCEPT !.requested = TRUE], t, t.phase, TRUE, t.started)
  BY Zenon DEF Rows, Moved
<1>9. Moved([t EXCEPT !.started = TRUE], t, t.phase, t.requested, TRUE)
  BY Zenon DEF Rows, Moved
<1> QED BY Zenon, <1>1, <1>2, <1>3, <1>4, <1>5, <1>6, <1>7, <1>8, <1>9

\* The updates of the rows that end an action.
LEMMA OverRows ==
    ASSUME NEW t \in Rows, NEW s \in Status, NEW p \in Phases PROVE
    /\ Over([[t EXCEPT !.status = s] EXCEPT !.next = "none"], t, s, t.phase, t.requested, t.started)
    /\ Over([[t EXCEPT !.status = s, !.phase = p, !.started = TRUE] EXCEPT !.next = "none"], t, s, p, t.requested, TRUE)
    /\ Over([[t EXCEPT !.status = s, !.phase = p, !.stopped = TRUE, !.manual = TRUE] EXCEPT !.next = "none"],
            t, s, p, t.requested, t.started)
<1>1. Over([[t EXCEPT !.status = s] EXCEPT !.next = "none"], t, s, t.phase, t.requested, t.started)
  BY Zenon DEF Rows, Over
<1>2. Over([[t EXCEPT !.status = s, !.phase = p, !.started = TRUE] EXCEPT !.next = "none"], t, s, p, t.requested, TRUE)
  BY Zenon DEF Rows, Over
<1>3. Over([[t EXCEPT !.status = s, !.phase = p, !.stopped = TRUE, !.manual = TRUE] EXCEPT !.next = "none"],
           t, s, p, t.requested, t.started)
  BY Zenon DEF Rows, Over
<1> QED BY Zenon, <1>1, <1>2, <1>3

\* The row of a rollback that is done.
UndoneRow(t) == [t EXCEPT !.stopped = ~t.was, !.started = FALSE, !.requested = FALSE, !.phase = "other"]

\* The updates that end a rollback, or send retry_prepare back to its plan.
LEMMA UndoneRows ==
    ASSUME NEW t \in Rows PROVE
    /\ Moved([UndoneRow(t) EXCEPT !.id = FALSE, !.restore = FALSE, !.applied = FALSE, !.stopped = FALSE],
             t, "other", FALSE, FALSE)
    /\ \A s \in Status : Over([[UndoneRow(t) EXCEPT !.status = s] EXCEPT !.next = "none"], t, s, "other", FALSE, FALSE)
<1> DEFINE u == UndoneRow(t)
<1>0. "other" \in Phases /\ (~t.was) \in BOOLEAN BY Zenon DEF Phases, Rows
<1>1. Moved(u, t, "other", FALSE, FALSE)
  BY Zenon, <1>0 DEF Rows, Moved, UndoneRow
<1>2. u \in Rows BY Zenon, <1>1 DEF Moved
<1> HIDE DEF u
<1>3. Moved([u EXCEPT !.id = FALSE, !.restore = FALSE, !.applied = FALSE, !.stopped = FALSE], u, u.phase, u.requested, u.started)
  BY Zenon, <1>2 DEF Rows, Moved
<1>4. \A s \in Status : Over([[u EXCEPT !.status = s] EXCEPT !.next = "none"], u, s, u.phase, u.requested, u.started)
  BY Zenon, <1>2 DEF Rows, Over
<1> QED BY Zenon, <1>1, <1>3, <1>4 DEF Moved, Over, u

\* A worker that goes on, and one whose copy is out of date.
Worker(y, pc, action, img, synced, t) ==
    y \in Workers /\ y.pc = pc /\ y.action = action /\ y.img = img /\ y.synced = synced /\ y.t = t

\* The updates of a worker.
LEMMA WorkerUpdates ==
    ASSUME NEW x \in Workers, NEW u \in Rows, NEW p \in Places, NEW m \in Images PROVE
    /\ Worker([x EXCEPT !.t = u, !.pc = p], p, x.action, x.img, x.synced, u)
    /\ Worker([x EXCEPT !.pc = p, !.t = u], p, x.action, x.img, x.synced, u)
    /\ Worker([x EXCEPT !.t = u, !.pc = p, !.img = m], p, x.action, m, x.synced, u)
    /\ Worker([x EXCEPT !.pc = p], p, x.action, x.img, x.synced, x.t)
    /\ Worker([x EXCEPT !.img = m], x.pc, x.action, m, x.synced, x.t)
    /\ Worker([x EXCEPT !.synced = FALSE], x.pc, x.action, x.img, FALSE, x.t)
BY Zenon DEF Workers, Worker

\* The row of an action that was broken off, by scheduleRecovery or without it.
Broke(u, t) ==
    /\ u \in Rows /\ u.pending = t.pending /\ u.active = t.active
    /\ u.phase = t.phase /\ u.requested = t.requested /\ u.started = t.started
    /\ u.tries = t.tries /\ u.rollbacks = t.rollbacks
    /\ u.status \in {"interrupted", "failed", "blocked", "recovering"}
    /\ u.status = "recovering" =>
          /\ u.next \in Automatics
          /\ u.next \in Fresh => ~t.started /\ ~t.requested
          /\ u.next = "recover_target" => t.started \/ t.requested

\* The updates that break an action off.
LEMMA BrokenRows ==
    ASSUME NEW t \in Rows, NEW m \in BOOLEAN PROVE
    /\ \A s \in {"interrupted", "failed"} : Broke([t EXCEPT !.status = s], t)
    /\ Broke([t EXCEPT !.status = "interrupted", !.manual = m, !.next = "none"], t)
    /\ Broke([t EXCEPT !.status = "blocked", !.next = "none"], t)
    /\ \A n \in Automatics :
          (n \in Fresh => ~t.started /\ ~t.requested) /\ (n = "recover_target" => t.started \/ t.requested)
          => Broke([t EXCEPT !.status = "recovering", !.next = n], t)
<1>0. {"interrupted", "failed", "blocked", "recovering"} \subseteq Status /\ Automatics \subseteq Actions
  BY Zenon DEF Status, Automatics, Actions, Undoing
<1>1. ASSUME NEW s \in {"interrupted", "failed"} PROVE Broke([t EXCEPT !.status = s], t)
  <2>1. s \in Status /\ s # "recovering" BY <1>0
  <2>2. /\ [t EXCEPT !.status = s] \in Rows /\ [t EXCEPT !.status = s].status = s
    BY Zenon, <2>1 DEF Rows
  <2> QED BY Zenon, <2>1, <2>2 DEF Rows, Broke
<1>2. Broke([t EXCEPT !.status = "interrupted", !.manual = m, !.next = "none"], t)
  BY Zenon, <1>0 DEF Rows, Broke
<1>3. Broke([t EXCEPT !.status = "blocked", !.next = "none"], t)
  BY Zenon, <1>0 DEF Rows, Broke
<1>4. ASSUME NEW n \in Automatics, n \in Fresh => ~t.started /\ ~t.requested, n = "recover_target" => t.started \/ t.requested
      PROVE  Broke([t EXCEPT !.status = "recovering", !.next = n], t)
  BY Zenon, <1>0, <1>4 DEF Rows, Broke
<1> QED BY Zenon, <1>1, <1>2, <1>3, <1>4

\* What scheduleRecovery decides keeps to the marks of the start.
LEMMA Scheduled ==
    ASSUME NEW t \in Rows, NEW action, NEW reason PROVE Broke(ScheduleRecovery(t, action, reason), t)
<1> DEFINE begun == t.started \/ t.requested
           again == IF begun THEN "recover_target"
                    ELSE IF action \in {"prepare", "retry_prepare"}
                    THEN IF t.id \/ t.restore THEN "retry_prepare" ELSE "prepare"
                    ELSE IF action \in {"sync", "cutover"} THEN action ELSE "rollback"
           then == IF action = "cancel" THEN "cancel" ELSE "rollback"
           Fits(n) == /\ n \in Automatics
                      /\ n \in Fresh => ~t.started /\ ~t.requested
                      /\ n = "recover_target" => t.started \/ t.requested
<1>1. Fits(again) BY DEF Automatics, Fresh
<1>2. Fits(then) BY DEF Automatics, Fresh
<1>3. \/ ScheduleRecovery(t, action, reason) = [t EXCEPT !.status = "blocked", !.next = "none"]
      \/ ScheduleRecovery(t, action, reason) = [t EXCEPT !.status = "recovering", !.next = again]
      \/ ScheduleRecovery(t, action, reason) = [t EXCEPT !.status = "recovering", !.next = then]
  BY Zenon DEF ScheduleRecovery
<1> HIDE DEF again, then
<1> QED BY Zenon, <1>1, <1>2, <1>3, BrokenRows

\* What actionFailed writes.
LEMMA FailedRows ==
    ASSUME NEW t \in Rows, NEW action, NEW reason PROVE Broke(Failed(t, action, reason), t)
<1>1. CASE reason \in {"pause", "shutdown"}
  <2>1. (reason = "pause") \in BOOLEAN OBVIOUS
  <2> QED BY Zenon, <1>1, <2>1, BrokenRows DEF Failed
<1>2. CASE reason \notin {"pause", "shutdown"}
  <2>1. CASE action \in {"hold", "rollback_keep"}
    BY Zenon, <1>2, <2>1, BrokenRows DEF Failed
  <2>2. CASE action \notin {"hold", "rollback_keep"} /\ conf.policy.on
    BY Zenon, <1>2, <2>2, Scheduled DEF Failed
  <2>3. CASE action \notin {"hold", "rollback_keep"} /\ ~conf.policy.on
    <3>1. (IF reason = "lost" THEN "interrupted" ELSE "failed") \in {"interrupted", "failed"} OBVIOUS
    <3> QED BY Zenon, <1>2, <2>3, <3>1, BrokenRows DEF Failed
  <2> QED BY Zenon, <2>1, <2>2, <2>3
<1> QED BY Zenon, <1>1, <1>2

-----------------------------------------------------------------------------
(* The row, its copies and its lock: what each kind of write does. *)

LostKept == count'["lost"] = 0 => count["lost"] = 0

\* A goroutine that is not there.
LEMMA IdleWorker == Worker(Idle, "none", "none", "none", FALSE, NewRow(FALSE)) /\ NewRow(FALSE) \in Rows
<1>1. NewRow(FALSE) \in Rows
  BY Zenon DEF NewRow, Rows, Status, Phases, Actions, Undoing
<1> QED BY Zenon, <1>1 DEF Idle, Worker, Workers, Places, Images, Actions

\* A worker at work is alone with the row and the lock.
LEMMA Alone ==
    ASSUME Base, count["lost"] = 0, NEW i \in Instances, Active(i)
    PROVE  /\ wrk[i].synced /\ lock = i /\ wrk[i].t = row /\ wrk[i].action = row.active
           /\ row.status = "running" /\ row.pending = "none"
           /\ \A j \in Instances \ {i} : ~Active(j)
BY Zenon DEF Base, Locked, Active, Copy

\* Nobody is at work when the row does not say so, or nobody holds the lock.
LEMMA Quiet ==
    ASSUME Base, count["lost"] = 0, row.status # "running" \/ lock = None
    PROVE  lock = None /\ \A j \in Instances : ~Active(j)
<1>1. \A j \in Instances : ~Active(j)
  BY Zenon, SettingsAssumption DEF Base, Locked, Active, Copy
<1> QED BY Zenon, <1>1 DEF Base, Locked

\* The goroutine returns, or its process is gone.
LEMMA BaseReturn ==
    ASSUME Base, LostKept, NEW i \in Instances, Return(i) PROVE Base'
<1>1. Idle \in Workers /\ Idle.pc = "none" /\ ~Idle.synced BY Zenon, IdleWorker DEF Worker
<1>2. wrk' \in [Instances -> Workers] /\ wrk'[i] = Idle /\ \A j \in Instances \ {i} : wrk'[j] = wrk[j]
  BY Zenon, <1>1 DEF Return, Base
<1>3. row' = row /\ lock' = IF lock = i THEN None ELSE lock BY Zenon DEF Return
<1>4. lock' \in Instances \cup {None} BY Zenon, <1>3 DEF Base
<1>5. ASSUME NEW j \in Instances PROVE Copy(wrk'[j], row')
  <2>1. CASE j = i BY Zenon, <1>1, <1>2, <2>1 DEF Copy
  <2>2. CASE j # i BY Zenon, <1>2, <1>3, <2>2 DEF Base
  <2> QED BY Zenon, <2>1, <2>2
<1>6. Locked'
  BY Zenon, <1>1, <1>2, <1>3, SettingsAssumption DEF Base, Locked, Active, LostKept
<1> QED BY Zenon, <1>2, <1>3, <1>4, <1>5, <1>6 DEF Base

\* The row is written, with the worker of the process that writes it.
LEMMA BaseWrite ==
    ASSUME Base, LostKept, NEW i \in Instances, NEW u \in Rows, NEW y \in Workers, Write(i, u, y),
           Copy(y, u), u.status = "recovering" => u.next \in Actions,
           lock' \in Instances \cup {None},
           count["lost"] = 0 =>
              /\ \A j \in Instances \ {i} : ~Active(j)
              /\ y.pc \in {"none", "wait"} => lock' = None
              /\ y.pc \notin {"none", "wait"} => lock' = i /\ y.synced
    PROVE  Base'
<1>1. row' = u /\ wrk' = [j \in Instances |-> IF j = i THEN y ELSE [wrk[j] EXCEPT !.synced = FALSE]]
  BY Zenon DEF Write
<1>2. ASSUME NEW j \in Instances \ {i}
      PROVE  wrk'[j] \in Workers /\ wrk'[j].pc = wrk[j].pc /\ wrk'[j].synced = FALSE
  <2>1. wrk'[j] = [wrk[j] EXCEPT !.synced = FALSE] BY Zenon, <1>1
  <2>2. wrk[j] \in Workers BY Zenon DEF Base
  <2> QED BY Zenon, <2>1, <2>2 DEF Workers
<1>3. wrk'[i] = y BY Zenon, <1>1
<1>4. wrk' \in [Instances -> Workers] BY Zenon, <1>1, <1>2, <1>3
<1>5. \A j \in Instances : Copy(wrk'[j], row') BY Zenon, <1>1, <1>2, <1>3 DEF Copy
<1>6. Locked'
  BY Zenon, <1>2, <1>3, SettingsAssumption DEF Locked, Active, LostKept
<1> QED BY Zenon, <1>1, <1>4, <1>5, <1>6 DEF Base

-----------------------------------------------------------------------------
(* The ways a worker goes on or ends, for the row and the machines together. *)

\* A step of one worker, when no other one is at work afterwards.
LEMMA MachinesOf ==
    ASSUME LostKept, conf' = conf, NEW i \in Instances,
           count["lost"] = 0 =>
              /\ \A j \in Instances \ {i} : ~Active(j)'
              /\ RowFits(row', power', image')
              /\ Active(i)' => WorkerFits(wrk'[i], row', power', image')
    PROVE  Machines'
<1> SUFFICES ASSUME count'["lost"] = 0
             PROVE  /\ RowFits(row, power, image)'
                    /\ \A j \in Instances : Active(j)' => WorkerFits(wrk[j], row, power, image)'
  BY Zenon DEF Machines
<1>1. count["lost"] = 0 BY Zenon DEF LostKept
<1>2. RowFits(row, power, image)' BY Zenon, <1>1 DEF RowFits, Clean, Startable
<1>3. Active(i)' => WorkerFits(wrk[i], row, power, image)'
  BY Zenon, <1>1 DEF WorkerFits, WorkFits, Clean, Startable
<1> QED BY Zenon, <1>1, <1>2, <1>3

\* Nothing changes for the machines and the worker at work.
LEMMA MachinesSame ==
    ASSUME Machines, LostKept, conf' = conf, row' = row, power' = power, image' = image,
           \A j \in Instances : Active(j)' => Active(j) /\ wrk'[j] = wrk[j]
    PROVE  Machines'
<1> SUFFICES ASSUME count'["lost"] = 0
             PROVE  /\ RowFits(row, power, image)'
                    /\ \A j \in Instances : Active(j)' => WorkerFits(wrk[j], row, power, image)'
  BY Zenon DEF Machines
<1>1. count["lost"] = 0 BY Zenon DEF LostKept
<1>2. RowFits(row, power, image)' BY Zenon, <1>1 DEF Machines, RowFits, Clean, Startable
<1>3. ASSUME NEW j \in Instances, Active(j)' PROVE WorkerFits(wrk[j], row, power, image)'
  <2>1. WorkerFits(wrk[j], row, power, image) /\ wrk'[j] = wrk[j] BY Zenon, <1>1, <1>3 DEF Machines
  <2>2. WorkerFits(wrk'[j], row', power', image') BY Zenon, <2>1
  <2> QED BY Zenon, <2>2 DEF WorkerFits, WorkFits, Clean, Startable
<1> QED BY Zenon, <1>2, <1>3

\* A copy that is the row of an action under way still is, after a write of u.
Onward(u, t) == u \in Rows /\ u.status = t.status /\ u.pending = t.pending /\ u.active = t.active /\ u.next = t.next

\* The worker leaves nothing behind.
LEMMA Returns ==
    ASSUME Base, Machines, LostKept, conf' = conf, NEW i \in Instances, Return(i), ~wrk[i].synced,
           Active(i) \/ (power' = power /\ image' = image)
    PROVE  Base' /\ Machines'
<1>1. Base' BY Zenon, BaseReturn
<1>2. CASE Active(i)
  <2>1. count'["lost"] # 0 BY Zenon, <1>2, Alone DEF LostKept
  <2> QED BY Zenon, <1>1, <2>1 DEF Machines
<1>3. CASE power' = power /\ image' = image
  <2>1. Idle.pc = "none" BY Zenon, IdleWorker DEF Worker
  <2>2. row' = row /\ wrk' = [wrk EXCEPT ![i] = Idle] BY Zenon DEF Return
  <2>3. wrk'[i] = Idle /\ \A j \in Instances \ {i} : wrk'[j] = wrk[j] BY Zenon, <2>2 DEF Base
  <2>4. \A j \in Instances : Active(j)' => Active(j) /\ wrk'[j] = wrk[j] BY Zenon, <2>1, <2>3 DEF Active
  <2> QED BY Zenon, <1>1, <1>3, <2>2, <2>4, MachinesSame
<1> QED BY Zenon, <1>2, <1>3

\* The worker writes the row and goes on at pc with the image m.
LEMMA Writes ==
    ASSUME Base, LostKept, conf' = conf, NEW i \in Instances, Active(i), wrk[i].synced, NEW u, NEW y \in Workers,
           NEW pc \in Places \ {"none", "wait"}, NEW m, Worker(y, pc, wrk[i].action, m, wrk[i].synced, u),
           Write(i, u, y), lock' = lock, Onward(u, wrk[i].t),
           count["lost"] = 0 =>
              RowFits(u, power', image') /\ WorkFits(pc, wrk[i].action, m, u, power', image')
    PROVE  Base' /\ Machines'
<1>1. y.pc = pc /\ y.action = wrk[i].action /\ y.img = m /\ y.synced /\ y.t = u BY Zenon DEF Worker
<1>2. /\ wrk[i].t = row /\ row.status = "running" /\ row.pending = "none" /\ wrk[i].action = row.active
      /\ lock \in Instances \cup {None}
  BY Zenon DEF Base, Copy, Active
<1>3. Copy(y, u) BY Zenon, <1>1, <1>2 DEF Copy, Onward
<1>4. u \in Rows /\ u.status = "running" BY Zenon, <1>2 DEF Onward
<1>5. count["lost"] = 0 => lock = i /\ \A j \in Instances \ {i} : ~Active(j) BY Zenon, Alone
<1>6. Base'
  <2>1. u.status = "recovering" => u.next \in Actions BY <1>4
  <2>2. lock' \in Instances \cup {None} BY Zenon, <1>2
  <2>3. count["lost"] = 0 =>
              /\ \A j \in Instances \ {i} : ~Active(j)
              /\ y.pc \in {"none", "wait"} => lock' = None
              /\ y.pc \notin {"none", "wait"} => lock' = i /\ y.synced
    BY Zenon, <1>1, <1>5
  <2> QED BY Zenon, <1>3, <1>4, <2>1, <2>2, <2>3, BaseWrite
<1>7. row' = u /\ wrk'[i] = y BY Zenon DEF Write
<1>8. count["lost"] = 0 => \A j \in Instances \ {i} : ~Active(j)'
  <2>1. count["lost"] = 0 => lock' = i BY Zenon, <1>5
  <2>2. wrk' = [j \in Instances |-> IF j = i THEN y ELSE [wrk[j] EXCEPT !.synced = FALSE]] BY Zenon DEF Write
  <2>3. ASSUME NEW j \in Instances \ {i} PROVE wrk'[j].pc = wrk[j].pc
    <3>1. wrk[j] \in Workers /\ wrk'[j] = [wrk[j] EXCEPT !.synced = FALSE] BY Zenon, <2>2 DEF Base
    <3> QED BY Zenon, <3>1 DEF Workers
  <2> QED BY Zenon, <1>5, <2>3 DEF Active
<1>9. count["lost"] = 0 => WorkerFits(wrk'[i], row', power', image')
  BY Zenon, <1>1, <1>7 DEF WorkerFits
<1>10. Machines' BY Zenon, <1>7, <1>8, <1>9, MachinesOf
<1> QED BY <1>6, <1>10

\* save.
LEMMA Saves ==
    ASSUME Base, Machines, LostKept, conf' = conf, NEW i \in Instances, Active(i), NEW u,
           NEW pc \in Places \ {"none", "wait"}, Save(i, u, pc), Onward(u, wrk[i].t),
           count["lost"] = 0 =>
              RowFits(u, power', image') /\ WorkFits(pc, wrk[i].action, wrk[i].img, u, power', image')
    PROVE  Base' /\ Machines'
<1>1. CASE wrk[i].synced
  <2> DEFINE y == [wrk[i] EXCEPT !.t = u, !.pc = pc]
  <2>1. wrk[i] \in Workers /\ u \in Rows /\ "none" \in Images BY Zenon DEF Base, Onward, Images
  <2>2. Worker(y, pc, wrk[i].action, wrk[i].img, wrk[i].synced, u) BY Zenon, <2>1, WorkerUpdates
  <2>3. Write(i, u, y) /\ lock' = lock BY Zenon, <1>1 DEF Save
  <2>4. y \in Workers BY Zenon, <2>2 DEF Worker
  <2> HIDE DEF y
  <2> QED BY Zenon, <1>1, <2>2, <2>3, <2>4, Writes
<1>2. CASE ~wrk[i].synced
  BY Zenon, <1>2, Returns DEF Save
<1> QED BY Zenon, <1>1, <1>2

\* A backup: the row is saved with the image it took.
LEMMA Backups ==
    ASSUME Base, Machines, LostKept, conf' = conf, NEW i \in Instances, Active(i), NEW u,
           NEW pc \in Places \ {"none", "wait"}, NEW m \in Images, Onward(u, wrk[i].t),
           IF wrk[i].synced
           THEN Write(i, u, [wrk[i] EXCEPT !.t = u, !.pc = pc, !.img = m]) /\ UNCHANGED lock
           ELSE Return(i),
           count["lost"] = 0 =>
              RowFits(u, power', image') /\ WorkFits(pc, wrk[i].action, m, u, power', image')
    PROVE  Base' /\ Machines'
<1>1. CASE wrk[i].synced
  <2> DEFINE y == [wrk[i] EXCEPT !.t = u, !.pc = pc, !.img = m]
  <2>1. wrk[i] \in Workers /\ u \in Rows BY Zenon DEF Base, Onward
  <2>2. Worker(y, pc, wrk[i].action, m, wrk[i].synced, u) BY Zenon, <2>1, WorkerUpdates
  <2>3. Write(i, u, y) /\ lock' = lock BY Zenon, <1>1
  <2>4. y \in Workers BY Zenon, <2>2 DEF Worker
  <2> HIDE DEF y
  <2> QED BY Zenon, <1>1, <2>2, <2>3, <2>4, Writes
<1>2. CASE ~wrk[i].synced
  BY Zenon, <1>2, Returns
<1> QED BY Zenon, <1>1, <1>2

\* The worker goes on without a write.
LEMMA Jumps ==
    ASSUME Base, Machines, LostKept, conf' = conf, NEW i \in Instances, Active(i),
           NEW pc \in Places \ {"none", "wait"}, Jump(i, pc),
           count["lost"] = 0 =>
              RowFits(row, power', image') /\ WorkFits(pc, wrk[i].action, wrk[i].img, row, power', image')
    PROVE  Base' /\ Machines'
<1> DEFINE y == [wrk[i] EXCEPT !.pc = pc]
<1>1. row' = row /\ lock' = lock /\ wrk' = [wrk EXCEPT ![i] = y] BY Zenon DEF Jump
<1>2. wrk[i] \in Workers BY Zenon DEF Base
<1>3. y \in Workers /\ y.pc = pc /\ y.action = wrk[i].action /\ y.img = wrk[i].img /\ y.synced = wrk[i].synced /\ y.t = wrk[i].t
  BY Zenon, <1>2 DEF Workers
<1> HIDE DEF y
<1>4. wrk' \in [Instances -> Workers] /\ wrk'[i] = y /\ \A j \in Instances \ {i} : wrk'[j] = wrk[j]
  BY Zenon, <1>1, <1>3 DEF Base
<1>5. \A j \in Instances : Copy(wrk'[j], row')
  BY Zenon, <1>1, <1>3, <1>4 DEF Base, Copy, Active
<1>6. Locked' BY Zenon, <1>1, <1>3, <1>4 DEF Base, Locked, Active, LostKept
<1>7. Base' BY Zenon, <1>1, <1>4, <1>5, <1>6 DEF Base
<1>8. count["lost"] = 0 => \A j \in Instances \ {i} : ~Active(j)' BY Zenon, <1>4, Alone DEF Active
<1>9. count["lost"] = 0 => WorkerFits(wrk'[i], row', power', image') BY Zenon, <1>1, <1>3, <1>4 DEF WorkerFits
<1>10. Machines' BY Zenon, <1>1, <1>8, <1>9, MachinesOf
<1> QED BY <1>7, <1>10

\* The worker is done with a last write of the row.
LEMMA Ends ==
    ASSUME Base, LostKept, conf' = conf, NEW i \in Instances, wrk[i].pc # "none", wrk[i].synced,
           NEW u \in Rows, u.status = "recovering" => u.next \in Actions,
           Write(i, u, Idle), lock' = IF lock = i THEN None ELSE lock,
           count["lost"] = 0 => RowFits(u, power', image')
    PROVE  Base' /\ Machines'
<1>1. Idle \in Workers /\ Idle.pc = "none" /\ ~Idle.synced BY Zenon, IdleWorker DEF Worker
<1>2. Copy(Idle, u) BY Zenon, <1>1 DEF Copy
<1>3. lock \in Instances \cup {None} BY Zenon DEF Base
<1>4. lock' \in Instances \cup {None} BY Zenon, <1>3
<1>5. count["lost"] = 0 => lock' = None /\ \A j \in Instances \ {i} : ~Active(j)
  <2>1. CASE Active(i) BY Zenon, <2>1, Alone
  <2>2. CASE ~Active(i)
    <3>1. wrk[i].pc = "wait" BY Zenon, <2>2 DEF Active
    <3>2. row.status = "queued" BY Zenon, <3>1 DEF Base, Copy
    <3>3. row.status # "running" BY <3>2
    <3> QED BY Zenon, <3>3, Quiet
  <2> QED BY Zenon, <2>1, <2>2
<1>6. Base'
  <2>1. count["lost"] = 0 =>
              /\ \A j \in Instances \ {i} : ~Active(j)
              /\ Idle.pc \in {"none", "wait"} => lock' = None
              /\ Idle.pc \notin {"none", "wait"} => lock' = i /\ Idle.synced
    BY Zenon, <1>1, <1>5
  <2> QED BY Zenon, <1>1, <1>2, <1>4, <2>1, BaseWrite
<1>7. row' = u /\ wrk'[i] = Idle BY Zenon DEF Write
<1>8. count["lost"] = 0 => \A j \in Instances \ {i} : ~Active(j)'
  <2>1. wrk' = [j \in Instances |-> IF j = i THEN Idle ELSE [wrk[j] EXCEPT !.synced = FALSE]] BY Zenon DEF Write
  <2>2. ASSUME NEW j \in Instances \ {i} PROVE wrk'[j].pc = wrk[j].pc
    <3>1. wrk[j] \in Workers /\ wrk'[j] = [wrk[j] EXCEPT !.synced = FALSE] BY Zenon, <2>1 DEF Base
    <3> QED BY Zenon, <3>1 DEF Workers
  <2> QED BY Zenon, <1>5, <2>2 DEF Active
<1>9. ~Active(i)' BY Zenon, <1>1, <1>7 DEF Active
<1>10. Machines' BY Zenon, <1>7, <1>8, <1>9, MachinesOf
<1> QED BY <1>6, <1>10

\* The last write of an action.
LEMMA Finishes ==
    ASSUME Base, Machines, LostKept, conf' = conf, NEW i \in Instances, Active(i), NEW u, Finish(i, u),
           [u EXCEPT !.next = "none"] \in Rows, [u EXCEPT !.next = "none"].status # "recovering",
           count["lost"] = 0 => RowFits([u EXCEPT !.next = "none"], power', image')
    PROVE  Base' /\ Machines'
<1>1. CASE wrk[i].synced
  <2> DEFINE v == [u EXCEPT !.next = "none"]
  <2>1. Write(i, v, Idle) /\ lock' = (IF lock = i THEN None ELSE lock) BY Zenon, <1>1 DEF Finish
  <2>2. v \in Rows /\ v.status # "recovering" /\ (count["lost"] = 0 => RowFits(v, power', image')) OBVIOUS
  <2>3. wrk[i].pc # "none" BY Zenon DEF Active
  <2> HIDE DEF v
  <2> QED BY Zenon, <1>1, <2>1, <2>2, <2>3, Ends
<1>2. CASE ~wrk[i].synced
  BY Zenon, <1>2, Returns DEF Finish
<1> QED BY Zenon, <1>1, <1>2

\* A row that was broken off fits the machines as well as before.
LEMMA FitsBroke ==
    ASSUME NEW t, NEW u, NEW p, NEW d, RowFits(t, p, d), Broke(u, t) PROVE RowFits(u, p, d)
<1>1. u.status \notin Released /\ (u.status = "recovering" =>
          u.next \in Automatics /\ (u.next \in Fresh => ~u.requested) /\ (u.next = "recover_target" => u.requested))
  BY Zenon DEF RowFits, Broke, Released
<1> QED BY Zenon, <1>1 DEF RowFits, Broke

\* The worker gives up.
LEMMA Fails ==
    ASSUME Base, Machines, LostKept, conf' = conf, NEW i \in Instances, wrk[i].pc # "none", NEW reason,
           Fail(i, wrk[i].t, reason), Active(i) \/ (power' = power /\ image' = image),
           count["lost"] = 0 => RowFits(row, power', image')
    PROVE  Base' /\ Machines'
<1>1. CASE wrk[i].synced
  <2>1. PICK r : /\ Write(i, Failed(wrk[i].t, wrk[i].action, r), Idle)
                 /\ lock' = (IF lock = i THEN None ELSE lock)
    BY Zenon, <1>1 DEF Fail
  <2> DEFINE u == Failed(wrk[i].t, wrk[i].action, r)
  <2>2. wrk[i] \in Workers /\ wrk[i].t = row /\ row \in Rows BY Zenon, <1>1 DEF Base, Copy
  <2>3. Broke(u, row) BY Zenon, <2>2, FailedRows
  <2>4. Write(i, u, Idle) BY <2>1
  <2> HIDE DEF u
  <2>5. u \in Rows /\ (u.status = "recovering" => u.next \in Actions)
    BY Zenon, <2>3 DEF Broke, Automatics, Actions, Undoing
  <2>6. count["lost"] = 0 => RowFits(u, power', image') BY Zenon, <2>3, FitsBroke
  <2> QED BY Zenon, <1>1, <2>1, <2>4, <2>5, <2>6, Ends
<1>2. CASE ~wrk[i].synced
  BY Zenon, <1>2, Returns DEF Fail
<1> QED BY Zenon, <1>1, <1>2

\* An action that is broken off by an error, the watchdog, a pause or the end of the service.
LEMMA BreaksOff ==
    ASSUME Base, Machines, LostKept, conf' = conf, NEW i \in Instances, wrk[i].pc # "none", Breaks(i),
           Active(i) \/ (power' = power /\ image' = image),
           count["lost"] = 0 => RowFits(row, power', image')
    PROVE  Base' /\ Machines'
<1>1. PICK reason : Fail(i, wrk[i].t, reason) BY Zenon DEF Breaks
<1> QED BY Zenon, <1>1, Fails

\* A call that is refused leaves the machines as they are.
LEMMA Refuses ==
    ASSUME Base, Machines, LostKept, conf' = conf, NEW i \in Instances, Active(i), NEW reason, Refused(i, reason)
    PROVE  Base' /\ Machines'
<1>1. Fail(i, wrk[i].t, reason) /\ power' = power /\ image' = image BY Zenon DEF Refused, engines
<1>2. wrk[i].pc # "none" BY Zenon DEF Active
<1>3. count["lost"] = 0 => RowFits(row, power', image') BY Zenon, <1>1 DEF Machines
<1> QED BY Zenon, <1>1, <1>2, <1>3, Fails

\* The row of an action that goes on.
LEMMA FitsMoved ==
    ASSUME NEW t, NEW u, NEW p, NEW d, NEW phase, RowFits(t, p, d), t.status = "running",
           Moved(u, t, phase, t.requested, t.started), phase = "other" \/ (Clean(d) => Startable(p, d))
    PROVE  RowFits(u, p, d)
<1>1. u.status = "running" /\ u.status \notin Released /\ u.status # "recovering" BY Zenon DEF Moved, Released
<1> QED BY Zenon, <1>1 DEF RowFits, Moved

-----------------------------------------------------------------------------
(* The steps of a worker. *)

\* What a worker at work may rely on.
LEMMA Working ==
    ASSUME Base, Machines, NEW i \in Instances, Active(i)
    PROVE  /\ wrk[i].t \in Rows /\ wrk[i].img \in Images
           /\ count["lost"] = 0 =>
                 /\ wrk[i].t = row /\ row.status = "running" /\ row.active = wrk[i].action /\ row.pending = "none"
                 /\ RowFits(row, power, image) /\ WorkFits(wrk[i].pc, wrk[i].action, wrk[i].img, row, power, image)
<1>1. wrk[i] \in Workers BY Zenon DEF Base
<1>2. wrk[i].t \in Rows /\ wrk[i].img \in Images BY Zenon, <1>1 DEF Workers
<1>3. ASSUME count["lost"] = 0
      PROVE  /\ wrk[i].t = row /\ row.status = "running" /\ row.active = wrk[i].action /\ row.pending = "none"
             /\ RowFits(row, power, image) /\ WorkFits(wrk[i].pc, wrk[i].action, wrk[i].img, row, power, image)
  BY Zenon, <1>3, Alone DEF Machines, WorkerFits
<1> QED BY Zenon, <1>2, <1>3

\* A row that is saved on the way is the one of an action under way.
LEMMA MovedOnward ==
    ASSUME NEW u, NEW t, NEW phase, NEW requested, NEW started, Moved(u, t, phase, requested, started)
    PROVE  Onward(u, t)
BY Zenon DEF Moved, Onward

\* A save that neither touches the machines nor the marks of the start.
LEMMA SavesOn ==
    ASSUME Base, Machines, LostKept, conf' = conf, NEW i \in Instances, Active(i), power' = power, image' = image,
           NEW u, NEW phase, Moved(u, wrk[i].t, phase, wrk[i].t.requested, wrk[i].t.started),
           NEW pc \in Places \ {"none", "wait"}, Save(i, u, pc),
           count["lost"] = 0 =>
              /\ phase = "other" \/ phase = row.phase \/ (Clean(image) => Startable(power, image))
              /\ WorkFits(pc, wrk[i].action, wrk[i].img, u, power, image)
    PROVE  Base' /\ Machines'
<1>1. Onward(u, wrk[i].t) BY Zenon, MovedOnward
<1>2. ASSUME count["lost"] = 0
      PROVE  RowFits(u, power', image') /\ WorkFits(pc, wrk[i].action, wrk[i].img, u, power', image')
  <2>1. wrk[i].t = row /\ row.status = "running" /\ RowFits(row, power, image) BY Zenon, <1>2, Working
  <2>2. phase = "other" \/ (Clean(image) => Startable(power, image)) BY Zenon, <1>2, <2>1 DEF RowFits
  <2>3. Moved(u, row, phase, row.requested, row.started) BY Zenon, <2>1
  <2>4. RowFits(u, power, image) BY Zenon, <2>1, <2>2, <2>3, FitsMoved
  <2> QED BY Zenon, <1>2, <2>4
<1> QED BY Zenon, <1>1, <1>2, Saves

\* The plan of a transfer.
LEMMA PlanStep ==
    ASSUME Base, Machines, LostKept, NEW i \in Instances, Plan(i) PROVE Base' /\ Machines'
<1>1. Active(i) /\ conf' = conf /\ wrk[i].pc = "plan" BY Zenon DEF Plan, At, Active
<1>2. CASE power["source"] = "stopping" \/ power["target"] # "none"
  BY Zenon, <1>1, <1>2, Refuses DEF Plan
<1>3. CASE ~(power["source"] = "stopping" \/ power["target"] # "none")
  <2> DEFINE u == [wrk[i].t EXCEPT !.was = (power["source"] = "up")]
             pc == IF conf.mode = "cold" THEN "stop" ELSE "full"
  <2>1. Save(i, u, pc) /\ power' = power /\ image' = image BY Zenon, <1>3 DEF Plan, engines
  <2>2. Moved(u, wrk[i].t, wrk[i].t.phase, wrk[i].t.requested, wrk[i].t.started)
    <3>1. (power["source"] = "up") \in BOOLEAN OBVIOUS
    <3> QED BY Zenon, <1>1, <3>1, Working, MovedRows
  <2>3. pc \in Places \ {"none", "wait"} BY DEF Places
  <2>4. pc = "stop" \/ (pc = "full" /\ conf.mode # "cold") OBVIOUS
  <2> HIDE DEF u, pc
  <2>5. ASSUME count["lost"] = 0 PROVE wrk[i].t = row /\ WorkFits(pc, wrk[i].action, wrk[i].img, u, power, image)
    <3>1. wrk[i].t = row /\ WorkFits("plan", wrk[i].action, wrk[i].img, row, power, image) BY Zenon, <1>1, <2>5, Working
    <3> QED BY <2>2, <2>4, <3>1 DEF WorkFits, Moved, Early, Back
  <2> QED BY Zenon, <1>1, <2>1, <2>2, <2>3, <2>5, SavesOn
<1> QED BY Zenon, <1>2, <1>3

\* OnVMCreated.
LEMMA TargetCreatedStep ==
    ASSUME Base, Machines, LostKept, NEW i \in Instances, TargetCreated(i) PROVE Base' /\ Machines'
<1>1. Active(i) /\ conf' = conf /\ wrk[i].pc = "created" BY Zenon DEF TargetCreated, At, Active
<1> DEFINE u == [wrk[i].t EXCEPT !.id = TRUE]
<1>2. Save(i, u, "fill") /\ power' = power /\ image' = image BY Zenon DEF TargetCreated, engines
<1>3. Moved(u, wrk[i].t, wrk[i].t.phase, wrk[i].t.requested, wrk[i].t.started)
  BY Zenon, <1>1, Working, MovedRows, Members
<1>4. "fill" \in Places \ {"none", "wait"} BY DEF Places
<1> HIDE DEF u
<1>6. ASSUME count["lost"] = 0
      PROVE  /\ row.phase \in {"other", row.phase} \/ (Clean(image) => Startable(power, image))
             /\ WorkFits("fill", wrk[i].action, wrk[i].img, u, power, image)
  <2>1. wrk[i].t = row /\ WorkFits("created", wrk[i].action, wrk[i].img, row, power, image) BY Zenon, <1>1, <1>6, Working
  <2> QED BY <1>3, <2>1 DEF WorkFits, Moved, Early, Back
<1>7. count["lost"] = 0 => wrk[i].t = row BY Zenon, <1>1, Working
<1> QED BY Zenon, <1>1, <1>2, <1>3, <1>4, <1>6, <1>7, SavesOn

\* The phase of stopSource.
LEMMA StopSourceStep ==
    ASSUME Base, Machines, LostKept, NEW i \in Instances, StopSource(i) PROVE Base' /\ Machines'
<1>1. Active(i) /\ conf' = conf /\ wrk[i].pc = "stop" BY Zenon DEF StopSource, At, Active
<1> DEFINE u == [wrk[i].t EXCEPT !.phase = "other"]
<1>2. Save(i, u, "shutdown") /\ power' = power /\ image' = image BY Zenon DEF StopSource, engines
<1>3. Moved(u, wrk[i].t, "other", wrk[i].t.requested, wrk[i].t.started)
  BY Zenon, <1>1, Working, MovedRows, Members
<1>4. "shutdown" \in Places \ {"none", "wait"} BY DEF Places
<1> HIDE DEF u
<1>6. ASSUME count["lost"] = 0
      PROVE  /\ "other" \in {"other", row.phase} \/ (Clean(image) => Startable(power, image))
             /\ WorkFits("shutdown", wrk[i].action, wrk[i].img, u, power, image)
  <2>1. wrk[i].t = row /\ WorkFits("stop", wrk[i].action, wrk[i].img, row, power, image) BY Zenon, <1>1, <1>6, Working
  <2> QED BY <1>3, <2>1 DEF WorkFits, Moved, Early, Back
<1>7. count["lost"] = 0 => wrk[i].t = row BY Zenon, <1>1, Working
<1> QED BY Zenon, <1>1, <1>2, <1>3, <1>4, <1>6, <1>7, SavesOn

\* The phase of startTarget.
LEMMA StartTargetStep ==
    ASSUME Base, Machines, LostKept, NEW i \in Instances, StartTarget(i) PROVE Base' /\ Machines'
<1>1. Active(i) /\ conf' = conf /\ wrk[i].pc = "start" BY Zenon DEF StartTarget, At, Active
<1> DEFINE u == [wrk[i].t EXCEPT !.phase = "starting"]
<1>2. Save(i, u, "check") /\ power' = power /\ image' = image BY Zenon DEF StartTarget, engines
<1>3. Moved(u, wrk[i].t, "starting", wrk[i].t.requested, wrk[i].t.started)
  BY Zenon, <1>1, Working, MovedRows, Members
<1>4. "check" \in Places \ {"none", "wait"} BY DEF Places
<1> HIDE DEF u
<1>6. ASSUME count["lost"] = 0
      PROVE  /\ "starting" \in {"other", row.phase} \/ (Clean(image) => Startable(power, image))
             /\ WorkFits("check", wrk[i].action, wrk[i].img, u, power, image)
  <2>1. wrk[i].t = row /\ WorkFits("start", wrk[i].action, wrk[i].img, row, power, image) BY Zenon, <1>1, <1>6, Working
  <2> QED BY <1>3, <2>1 DEF WorkFits, Moved, Early, Back
<1>7. count["lost"] = 0 => wrk[i].t = row BY Zenon, <1>1, Working
<1> QED BY Zenon, <1>1, <1>2, <1>3, <1>4, <1>6, <1>7, SavesOn

\* The full backup.
LEMMA FullBackupStep ==
    ASSUME Base, Machines, LostKept, Shapes, NEW i \in Instances, FullBackup(i) PROVE Base' /\ Machines'
<1>1. Active(i) /\ conf' = conf /\ wrk[i].pc = "full" BY Zenon DEF FullBackup, At, Active
<1> DEFINE u == [wrk[i].t EXCEPT !.phase = "other", !.restore = TRUE]
<1>2. /\ power' = power /\ image' = image
      /\ IF wrk[i].synced
         THEN Write(i, u, [wrk[i] EXCEPT !.t = u, !.pc = "create", !.img = Backup]) /\ UNCHANGED lock
         ELSE Return(i)
  BY Zenon DEF FullBackup, engines
<1>3. Moved(u, wrk[i].t, "other", wrk[i].t.requested, wrk[i].t.started)
  BY Zenon, <1>1, Working, MovedRows, Members
<1>4. "create" \in Places \ {"none", "wait"} /\ Backup \in Images BY DEF Places, Backup, Images
<1> HIDE DEF u
<1>5. Onward(u, wrk[i].t) BY Zenon, <1>3, MovedOnward
<1>6. ASSUME count["lost"] = 0
      PROVE  RowFits(u, power', image') /\ WorkFits("create", wrk[i].action, Backup, u, power', image')
  <2>1. /\ wrk[i].t = row /\ row.status = "running" /\ RowFits(row, power, image)
        /\ WorkFits("full", wrk[i].action, wrk[i].img, row, power, image)
    BY Zenon, <1>1, <1>6, Working
  <2>2. RowFits(u, power, image) BY Zenon, <1>3, <2>1, FitsMoved
  <2>3. WorkFits("create", wrk[i].action, Backup, u, power, image)
    BY <1>3, <2>1 DEF WorkFits, Moved, Early, Back, Backup
  <2> QED BY Zenon, <1>2, <2>2, <2>3
<1> QED BY Zenon, <1>1, <1>2, <1>4, <1>5, <1>6, Backups

\* The incremental backup.
LEMMA SynchronizeStep ==
    ASSUME Base, Machines, LostKept, Shapes, NEW i \in Instances, Synchronize(i) PROVE Base' /\ Machines'
<1>1. Active(i) /\ conf' = conf /\ wrk[i].pc = "sync" BY Zenon DEF Synchronize, At, Active
<1>2. CASE power["target"] # "down"
  BY Zenon, <1>1, <1>2, Refuses DEF Synchronize
<1>3. CASE power["target"] = "down"
  <2> DEFINE u == [wrk[i].t EXCEPT !.phase = "other"]
  <2>1. /\ power' = power /\ image' = image
        /\ IF wrk[i].synced
           THEN Write(i, u, [wrk[i] EXCEPT !.t = u, !.pc = "delta", !.img = Backup]) /\ UNCHANGED lock
           ELSE Return(i)
    BY Zenon, <1>3 DEF Synchronize, engines
  <2>2. Moved(u, wrk[i].t, "other", wrk[i].t.requested, wrk[i].t.started)
    BY Zenon, <1>1, Working, MovedRows, Members
  <2>3. "delta" \in Places \ {"none", "wait"} /\ Backup \in Images BY DEF Places, Backup, Images
  <2> HIDE DEF u
  <2>4. Onward(u, wrk[i].t) BY Zenon, <2>2, MovedOnward
  <2>5. ASSUME count["lost"] = 0
        PROVE  RowFits(u, power', image') /\ WorkFits("delta", wrk[i].action, Backup, u, power', image')
    <3>1. /\ wrk[i].t = row /\ row.status = "running" /\ RowFits(row, power, image)
          /\ WorkFits("sync", wrk[i].action, wrk[i].img, row, power, image)
      BY Zenon, <1>1, <2>5, Working
    <3>2. RowFits(u, power, image) BY Zenon, <2>2, <3>1, FitsMoved
    <3>3. WorkFits("delta", wrk[i].action, Backup, u, power, image)
      BY <2>2, <3>1 DEF WorkFits, Moved, Early, Back, Backup
    <3> QED BY Zenon, <2>1, <3>2, <3>3
  <2> QED BY Zenon, <1>1, <2>1, <2>3, <2>4, <2>5, Backups
<1> QED BY Zenon, <1>2, <1>3

\* The source is down: prepare and cutover go on.
LEMMA StoppedSave ==
    ASSUME Base, Machines, LostKept, conf' = conf, NEW i \in Instances, Active(i), wrk[i].pc \in {"shutdown", "stopping"},
           power'.source = "down", power'.target = power.target, image' = image,
           Save(i, [wrk[i].t EXCEPT !.stopped = TRUE], AfterStop(i))
    PROVE  Base' /\ Machines'
<1> DEFINE u == [wrk[i].t EXCEPT !.stopped = TRUE]
           pc == AfterStop(i)
<1>1. Save(i, u, pc) OBVIOUS
<1>2. Moved(u, wrk[i].t, wrk[i].t.phase, wrk[i].t.requested, wrk[i].t.started) BY Zenon, Working, MovedRows
<1>3. \/ pc = "sync" /\ wrk[i].action = "cutover"
      \/ pc = "full" /\ wrk[i].action # "cutover"
  BY Zenon DEF AfterStop
<1> HIDE DEF u, pc
<1>4. pc \in Places \ {"none", "wait"} BY <1>3 DEF Places
<1>5. Onward(u, wrk[i].t) BY Zenon, <1>2, MovedOnward
<1>6. ASSUME count["lost"] = 0
      PROVE  RowFits(u, power', image') /\ WorkFits(pc, wrk[i].action, wrk[i].img, u, power', image')
  <2>1. /\ wrk[i].t = row /\ row.status = "running" /\ RowFits(row, power, image) /\ row.active = wrk[i].action
        /\ WorkFits(wrk[i].pc, wrk[i].action, wrk[i].img, row, power, image)
    BY Zenon, <1>6, Working
  <2>2. ~row.requested /\ row.phase = "other" /\ wrk[i].action \notin Begins BY <2>1 DEF WorkFits, Early, Back
  <2>3. RowFits(row, power', image') BY Zenon, <2>1, <2>2 DEF RowFits
  <2>4. RowFits(u, power', image') BY Zenon, <1>2, <2>1, <2>2, <2>3, FitsMoved
  <2>5. WorkFits(pc, wrk[i].action, wrk[i].img, u, power', image')
    BY <1>2, <1>3, <2>1, <2>2 DEF WorkFits, Moved, Early, Back
  <2> QED BY <2>4, <2>5
<1> QED BY Zenon, <1>1, <1>4, <1>5, <1>6, Saves

\* The source is asked to shut down.
LEMMA ShutdownSourceStep ==
    ASSUME Base, Machines, LostKept, Shapes, NEW i \in Instances, ShutdownSource(i) PROVE Base' /\ Machines'
<1>1. Active(i) /\ conf' = conf /\ wrk[i].pc = "shutdown" BY Zenon DEF ShutdownSource, At, Active
<1>2. CASE power["source"] = "down"
  BY Zenon, <1>1, <1>2, StoppedSave DEF ShutdownSource, engines
<1>3. CASE power["source"] # "down" /\ (power["source"] = "up" \/ (conf.policy.on /\ conf.policy.force))
  <2>1. power' = [power EXCEPT !["source"] = "stopping"] /\ image' = image /\ (Jump(i, "stopping") \/ Breaks(i))
    BY Zenon, <1>3 DEF ShutdownSource
  <2>2. power'.source = "stopping" /\ power'.target = power.target BY Zenon, <2>1 DEF Shapes, Powers
  <2>3. ASSUME count["lost"] = 0
        PROVE  RowFits(row, power', image') /\ WorkFits("stopping", wrk[i].action, wrk[i].img, row, power', image')
    <3>1. /\ RowFits(row, power, image) /\ row.active = wrk[i].action
          /\ WorkFits("shutdown", wrk[i].action, wrk[i].img, row, power, image)
      BY Zenon, <1>1, <2>3, Working
    <3>2. ~row.requested /\ row.phase = "other" /\ wrk[i].action \notin Begins BY <3>1 DEF WorkFits, Early, Back
    <3>3. image.disks # "current" BY Zenon, <1>3, <3>1 DEF RowFits
    <3>4. RowFits(row, power', image') BY Zenon, <2>1, <2>2, <3>1, <3>2, <3>3 DEF RowFits
    <3>5. WorkFits("stopping", wrk[i].action, wrk[i].img, row, power', image') BY <3>2 DEF WorkFits, Early, Back
    <3> QED BY <3>4, <3>5
  <2>4. "stopping" \in Places \ {"none", "wait"} /\ wrk[i].pc # "none" BY <1>1 DEF Places
  <2>5. CASE Jump(i, "stopping") BY Zenon, <1>1, <2>3, <2>4, <2>5, Jumps
  <2>6. CASE Breaks(i) BY Zenon, <1>1, <2>3, <2>4, <2>6, BreaksOff
  <2> QED BY Zenon, <2>1, <2>5, <2>6
<1>4. CASE power["source"] # "down" /\ ~(power["source"] = "up" \/ (conf.policy.on /\ conf.policy.force))
  BY Zenon, <1>1, <1>4, Refuses DEF ShutdownSource
<1> QED BY Zenon, <1>2, <1>3, <1>4

\* The source has shut down.
LEMMA SourceStoppedStep ==
    ASSUME Base, Machines, LostKept, Shapes, NEW i \in Instances, SourceStopped(i) PROVE Base' /\ Machines'
<1>1. Active(i) /\ conf' = conf /\ wrk[i].pc = "stopping" BY Zenon DEF SourceStopped, At, Active
<1> QED BY Zenon, <1>1, StoppedSave DEF SourceStopped, engines

\* The power of the source is cut.
LEMMA SourceDoesNotStopStep ==
    ASSUME Base, Machines, LostKept, Shapes, NEW i \in Instances, SourceDoesNotStop(i) PROVE Base' /\ Machines'
<1>1. Active(i) /\ conf' = conf /\ wrk[i].pc = "stopping" /\ power["source"] = "up"
  BY Zenon DEF SourceDoesNotStop, At, Active
<1>2. CASE \E reason : Refused(i, reason)
  BY Zenon, <1>1, <1>2, Refuses
<1>3. CASE ~wrk[i].synced /\ Return(i)
  BY Zenon, <1>1, <1>3, Returns
<1>4. CASE /\ power' = [power EXCEPT !["source"] = "down"] /\ image' = image
           /\ Goes(i, [wrk[i].t EXCEPT !.stopped = TRUE], AfterStop(i))
  <2>1. power'.source = "down" /\ power'.target = power.target BY Zenon, <1>4 DEF Shapes, Powers
  <2>2. CASE Save(i, [wrk[i].t EXCEPT !.stopped = TRUE], AfterStop(i))
    BY Zenon, <1>1, <1>4, <2>1, <2>2, StoppedSave
  <2>3. CASE Breaks(i)
    <3>1. ASSUME count["lost"] = 0 PROVE RowFits(row, power', image')
      <4>1. /\ RowFits(row, power, image) /\ row.active = wrk[i].action
            /\ WorkFits("stopping", wrk[i].action, wrk[i].img, row, power, image)
        BY Zenon, <1>1, <3>1, Working
      <4>2. ~row.requested /\ row.phase = "other" /\ wrk[i].action \notin Begins BY <4>1 DEF WorkFits, Early, Back
      <4> QED BY Zenon, <1>4, <2>1, <4>1, <4>2 DEF RowFits
    <3>2. wrk[i].pc # "none" BY <1>1
    <3> QED BY Zenon, <1>1, <2>3, <3>1, <3>2, BreaksOff
  <2> QED BY Zenon, <1>4, <2>2, <2>3 DEF Goes
<1> QED BY Zenon, <1>2, <1>3, <1>4 DEF SourceDoesNotStop

\* The target is created.
LEMMA CreateTargetStep ==
    ASSUME Base, Machines, LostKept, Shapes, NEW i \in Instances, CreateTarget(i) PROVE Base' /\ Machines'
<1>1. Active(i) /\ conf' = conf /\ wrk[i].pc = "create" BY Zenon DEF CreateTarget, At, Active
<1>2. CASE Refused(i, "error")
  BY Zenon, <1>1, <1>2, Refuses
<1>3. CASE /\ power["target"] = "none" /\ power' = [power EXCEPT !["target"] = "down"] /\ image' = image
           /\ Jump(i, "created") \/ Breaks(i)
  <2>1. power'.target = "down" /\ power'.source = power.source BY Zenon, <1>3 DEF Shapes, Powers
  <2>2. ASSUME count["lost"] = 0
        PROVE  RowFits(row, power', image') /\ WorkFits("created", wrk[i].action, wrk[i].img, row, power', image')
    <3>1. /\ RowFits(row, power, image) /\ row.active = wrk[i].action /\ row.status = "running"
          /\ WorkFits("create", wrk[i].action, wrk[i].img, row, power, image)
      BY Zenon, <1>1, <2>2, Working
    <3>2. ~row.requested /\ row.phase = "other" /\ wrk[i].action \notin Begins BY <3>1 DEF WorkFits, Early, Back
    <3>3. row.status \notin Released BY <3>1 DEF Released
    <3>4. RowFits(row, power', image') BY Zenon, <1>3, <2>1, <3>1, <3>2, <3>3 DEF RowFits
    <3>5. WorkFits("created", wrk[i].action, wrk[i].img, row, power', image')
      BY <2>1, <3>1 DEF WorkFits, Early, Back
    <3> QED BY <3>4, <3>5
  <2>3. "created" \in Places \ {"none", "wait"} /\ wrk[i].pc # "none" BY <1>1 DEF Places
  <2>4. CASE Jump(i, "created") BY Zenon, <1>1, <2>2, <2>3, <2>4, Jumps
  <2>5. CASE Breaks(i) BY Zenon, <1>1, <2>2, <2>3, <2>5, BreaksOff
  <2> QED BY Zenon, <1>3, <2>4, <2>5
<1> QED BY Zenon, <1>2, <1>3 DEF CreateTarget

\* The disks of a target that was not asked to start are written or deleted, in an action
\* that began before.
LEMMA FitsWritten ==
    ASSUME NEW t, NEW p, NEW d, NEW q, NEW e, RowFits(t, p, d), t.status = "running",
           ~t.requested, t.phase = "other", t.active \notin Begins,
           q.source = p.source, q.target \in {p.target, "none"},
           q.target = "none" => e.disks = "none" /\ ~e.ran,
           e.disks = "current" => p.source = "down",
           e.ran => d.ran, e.mixed => d.mixed \/ d.ran
    PROVE  RowFits(t, q, e)
<1>1. t.status \notin Released /\ t.status # "recovering" BY DEF Released
<1> QED BY Zenon, <1>1 DEF RowFits

\* The disks of the target are filled, or the target is removed after an error.
LEMMA FillTargetStep ==
    ASSUME Base, Machines, LostKept, Shapes, NEW i \in Instances, FillTarget(i) PROVE Base' /\ Machines'
<1>1. Active(i) /\ conf' = conf /\ wrk[i].pc = "fill" /\ wrk[i].pc # "none" BY Zenon DEF FillTarget, At, Active
<1>2. CASE power["target"] = "none"
  BY Zenon, <1>1, <1>2, Refuses DEF FillTarget
<1>3. ASSUME count["lost"] = 0
      PROVE  /\ wrk[i].t = row /\ RowFits(row, power, image) /\ row.active = wrk[i].action /\ row.status = "running"
             /\ ~row.requested /\ row.phase = "other" /\ wrk[i].action \notin Begins /\ wrk[i].action # "cutover"
             /\ wrk[i].img = "current" => power.source = "down"
             /\ conf.mode = "cold" => wrk[i].img = "current" \/ power.source = "up"
  <2>1. /\ wrk[i].t = row /\ RowFits(row, power, image) /\ row.active = wrk[i].action /\ row.status = "running"
        /\ WorkFits("fill", wrk[i].action, wrk[i].img, row, power, image)
    BY Zenon, <1>1, <1>3, Working
  <2> QED BY <2>1 DEF WorkFits, Early, Back
<1>4. CASE /\ power["target"] # "none" /\ wrk[i].synced
           /\ image' = [image EXCEPT !.disks = wrk[i].img] /\ power' = power
           /\ Save(i, [wrk[i].t EXCEPT !.applied = TRUE], IF conf.mode = "warm" THEN "sync" ELSE "start")
  <2> DEFINE u == [wrk[i].t EXCEPT !.applied = TRUE]
             pc == IF conf.mode = "warm" THEN "sync" ELSE "start"
  <2>1. image'.disks = wrk[i].img /\ image'.ran = image.ran /\ image'.mixed = image.mixed /\ image'.forked = image.forked
    BY Zenon, <1>4 DEF Shapes, Disks
  <2>2. Moved(u, wrk[i].t, wrk[i].t.phase, wrk[i].t.requested, wrk[i].t.started) BY Zenon, <1>1, Working, MovedRows
  <2>3. Save(i, u, pc) BY <1>4
  <2>4. (pc = "sync" /\ conf.mode = "warm") \/ (pc = "start" /\ conf.mode = "cold")
    BY SettingsAssumption DEF Shapes
  <2> HIDE DEF u, pc
  <2>5. pc \in Places \ {"none", "wait"} BY <2>4 DEF Places
  <2>6. Onward(u, wrk[i].t) BY Zenon, <2>2, MovedOnward
  <2>7. ASSUME count["lost"] = 0
        PROVE  RowFits(u, power', image') /\ WorkFits(pc, wrk[i].action, wrk[i].img, u, power', image')
    <3>0. /\ wrk[i].t = row /\ RowFits(row, power, image) /\ row.active = wrk[i].action /\ row.status = "running"
          /\ ~row.requested /\ row.phase = "other" /\ wrk[i].action \notin Begins /\ wrk[i].action # "cutover"
          /\ wrk[i].img = "current" => power.source = "down"
          /\ conf.mode = "cold" => wrk[i].img = "current" \/ power.source = "up"
      BY Zenon, <1>3, <2>7
    <3>1. RowFits(row, power', image')
      <4>1. /\ power'.source = power.source /\ power'.target = power.target /\ power'.target # "none"
            /\ image'.disks = "current" => power.source = "down"
            /\ image'.ran => image.ran
            /\ image'.mixed => image.mixed \/ image.ran
        BY Zenon, <1>4, <2>1, <3>0
      <4> QED BY Zenon, <3>0, <4>1, FitsWritten
    <3>2. RowFits(u, power', image') BY Zenon, <2>2, <3>0, <3>1, FitsMoved
    <3>3. CASE pc = "sync" BY <2>2, <3>0, <3>2, <3>3 DEF WorkFits, Moved, Early, Back
    <3>4. CASE pc = "start" /\ conf.mode = "cold"
      <4>1. Startable(power', image') BY Zenon, <1>4, <2>1, <3>0, <3>4 DEF Startable
      <4> QED BY <3>2, <3>4, <4>1 DEF WorkFits, Early, Back
    <3> QED BY Zenon, <2>4, <3>3, <3>4
  <2> QED BY Zenon, <1>1, <2>3, <2>5, <2>6, <2>7, Saves
<1>5. CASE /\ power["target"] # "none" /\ (Breaks(i) \/ (~wrk[i].synced /\ Return(i)))
           /\ (image' = [image EXCEPT !.disks = "partial"] /\ power' = power) \/ NoTarget
  <2>1. /\ power'.source = power.source /\ power'.target \in {power.target, "none"}
        /\ power'.target = "none" => image'.disks = "none" /\ ~image'.ran
        /\ image'.disks # "current" /\ (image'.ran => image.ran) /\ image'.mixed = image.mixed
    <3>1. CASE image' = [image EXCEPT !.disks = "partial"] /\ power' = power
      <4>1. image'.disks = "partial" /\ image'.ran = image.ran /\ image'.mixed = image.mixed BY Zenon, <3>1 DEF Shapes, Disks
      <4> QED BY <1>5, <3>1, <4>1
    <3>2. CASE NoTarget
      <4>1. image'.disks = "none" /\ image'.ran = FALSE /\ image'.mixed = image.mixed BY Zenon, <3>2 DEF Shapes, Disks, NoTarget
      <4>2. power'.target = "none" /\ power'.source = power.source BY Zenon, <3>2 DEF Shapes, Powers, NoTarget
      <4> QED BY <4>1, <4>2
    <3> QED BY Zenon, <1>5, <3>1, <3>2
  <2>2. count["lost"] = 0 => RowFits(row, power', image') BY Zenon, <1>3, <2>1, FitsWritten
  <2>3. CASE Breaks(i) BY Zenon, <1>1, <2>2, <2>3, BreaksOff
  <2>4. CASE ~wrk[i].synced /\ Return(i) BY Zenon, <1>1, <2>4, Returns
  <2> QED BY Zenon, <1>5, <2>3, <2>4
<1> QED BY Zenon, <1>2, <1>4, <1>5 DEF FillTarget

\* The delta is written.
LEMMA ApplyDeltaStep ==
    ASSUME Base, Machines, LostKept, Shapes, NEW i \in Instances, ApplyDelta(i) PROVE Base' /\ Machines'
<1>1. Active(i) /\ conf' = conf /\ wrk[i].pc = "delta" /\ wrk[i].pc # "none" /\ power' = power
  BY Zenon DEF ApplyDelta, At, Active
<1>2. ASSUME count["lost"] = 0
      PROVE  /\ wrk[i].t = row /\ RowFits(row, power, image) /\ row.active = wrk[i].action /\ row.status = "running"
             /\ row.pending = "none"
             /\ ~row.requested /\ row.phase = "other" /\ wrk[i].action \notin Begins
             /\ wrk[i].img = "current" => power.source = "down"
             /\ wrk[i].action = "cutover" => wrk[i].img = "current" \/ power.source = "up"
  <2>1. /\ wrk[i].t = row /\ RowFits(row, power, image) /\ row.active = wrk[i].action /\ row.status = "running"
        /\ row.pending = "none"
        /\ WorkFits("delta", wrk[i].action, wrk[i].img, row, power, image)
    BY Zenon, <1>1, <1>2, Working
  <2> QED BY <2>1 DEF WorkFits, Early, Back
<1>3. CASE Refused(i, "error")
  BY Zenon, <1>1, <1>3, Refuses
<1>4. ASSUME NEW disks \in Images \cup {"partial"}, image' = Applied(disks), disks = wrk[i].img \/ disks = "partial",
             power["target"] # "none"
      PROVE  /\ image'.mixed \/ image'.disks = disks
             /\ count["lost"] = 0 => RowFits(row, power', image')
  <2>1. /\ image'.disks = (IF image.ran THEN "partial" ELSE disks) /\ image'.ran = image.ran
        /\ image'.mixed = (image.mixed \/ image.ran)
    BY Zenon, <1>4 DEF Shapes, Disks, Applied
  <2>2. /\ image'.mixed \/ image'.disks = disks
        /\ image'.mixed => image.mixed \/ image.ran
        /\ image'.disks = "current" => disks = "current"
    BY <2>1 DEF Shapes, Disks
  <2>3. count["lost"] = 0 => RowFits(row, power', image') BY Zenon, <1>1, <1>2, <1>4, <2>1, <2>2, FitsWritten
  <2> QED BY Zenon, <2>2, <2>3
<1>5. wrk[i].img \in Images /\ wrk[i].t \in Rows BY Zenon, <1>1, Working
<1>6. CASE Breaks(i) /\ power["target"] # "none" /\ \E disks \in {wrk[i].img, "partial"} : image' = Applied(disks)
  BY Zenon, <1>1, <1>4, <1>5, <1>6, BreaksOff
<1>7. CASE /\ power["target"] # "none" /\ image' = Applied(wrk[i].img) /\ wrk[i].action = "cutover"
           /\ Save(i, [wrk[i].t EXCEPT !.phase = "final"], "start")
  <2> DEFINE u == [wrk[i].t EXCEPT !.phase = "final"]
  <2>1. Moved(u, wrk[i].t, "final", wrk[i].t.requested, wrk[i].t.started) BY Zenon, <1>5, MovedRows, Members
  <2>2. Save(i, u, "start") BY <1>7
  <2> HIDE DEF u
  <2>3. "start" \in Places \ {"none", "wait"} BY DEF Places
  <2>4. Onward(u, wrk[i].t) BY Zenon, <2>1, MovedOnward
  <2>5. ASSUME count["lost"] = 0
        PROVE  RowFits(u, power', image') /\ WorkFits("start", wrk[i].action, wrk[i].img, u, power', image')
    <3>1. RowFits(row, power', image') /\ (image'.mixed \/ image'.disks = wrk[i].img) BY Zenon, <1>4, <1>5, <1>7, <2>5
    <3>2. Clean(image') => Startable(power', image') BY Zenon, <1>1, <1>2, <1>7, <2>5, <3>1 DEF Clean, Startable
    <3>3. RowFits(u, power', image') BY Zenon, <1>2, <2>1, <2>5, <3>1, <3>2, FitsMoved
    <3>4. WorkFits("start", wrk[i].action, wrk[i].img, u, power', image') BY <3>2 DEF WorkFits, Early, Back
    <3> QED BY <3>3, <3>4
  <2> QED BY Zenon, <1>1, <2>2, <2>3, <2>4, <2>5, Saves
<1>8. CASE /\ power["target"] # "none" /\ image' = Applied(wrk[i].img)
           /\ Finish(i, [wrk[i].t EXCEPT !.status = "ready"])
  <2> DEFINE u == [wrk[i].t EXCEPT !.status = "ready"]
             v == [u EXCEPT !.next = "none"]
  <2>1. Over(v, wrk[i].t, "ready", wrk[i].t.phase, wrk[i].t.requested, wrk[i].t.started)
    BY Zenon, <1>5, OverRows, Members
  <2>2. Finish(i, u) BY <1>8
  <2>3. v \in Rows /\ v.status # "recovering" /\ v.status \notin Released BY <2>1 DEF Over, Released
  <2>4. ASSUME count["lost"] = 0 PROVE RowFits(v, power', image')
    <3>1. RowFits(row, power', image') BY Zenon, <1>4, <1>5, <1>8, <2>4
    <3> HIDE DEF v
    <3> QED BY Zenon, <1>2, <2>1, <2>3, <2>4, <3>1 DEF RowFits, Over
  <2> HIDE DEF u
  <2> QED BY Zenon, <1>1, <2>2, <2>3, <2>4, Finishes
<1> QED BY Zenon, <1>3, <1>6, <1>7, <1>8 DEF ApplyDelta, Goes

\* The request to start is noted.
LEMMA CheckSourceStep ==
    ASSUME Base, Machines, LostKept, Shapes, NEW i \in Instances, CheckSource(i) PROVE Base' /\ Machines'
<1>1. Active(i) /\ conf' = conf /\ wrk[i].pc = "check" BY Zenon DEF CheckSource, At, Active
<1>2. CASE power["source"] # "down" \/ power["target"] = "none"
  BY Zenon, <1>1, <1>2, Refuses DEF CheckSource
<1>3. CASE ~(power["source"] # "down" \/ power["target"] = "none")
  <2> DEFINE u == [wrk[i].t EXCEPT !.requested = TRUE]
  <2>1. Save(i, u, "request") /\ power' = power /\ image' = image BY Zenon, <1>3 DEF CheckSource, engines
  <2>2. Moved(u, wrk[i].t, wrk[i].t.phase, TRUE, wrk[i].t.started) BY Zenon, <1>1, Working, MovedRows
  <2> HIDE DEF u
  <2>3. "request" \in Places \ {"none", "wait"} BY DEF Places
  <2>4. Onward(u, wrk[i].t) BY Zenon, <2>2, MovedOnward
  <2>5. ASSUME count["lost"] = 0
        PROVE  RowFits(u, power', image') /\ WorkFits("request", wrk[i].action, wrk[i].img, u, power', image')
    <3>1. /\ wrk[i].t = row /\ row.status = "running" /\ row.pending = "none" /\ RowFits(row, power, image)
          /\ WorkFits("check", wrk[i].action, wrk[i].img, row, power, image)
      BY Zenon, <1>1, <2>5, Working
    <3>2. Clean(image) => image.disks = "current" BY <1>3, <3>1 DEF WorkFits, Startable
    <3>3. /\ u.pending = "none" /\ "none" \notin Fresh /\ u.status # "recovering" /\ u.status \notin Released
          /\ u.requested /\ u.started = row.started /\ u.phase = row.phase /\ u.active = row.active
      BY <2>2, <3>1 DEF Moved, Released, Fresh
    <3>4. RowFits(u, power, image) BY Zenon, <1>3, <3>1, <3>2, <3>3 DEF RowFits
    <3>5. WorkFits("request", wrk[i].action, wrk[i].img, u, power', image') BY <3>3 DEF WorkFits, Early, Back
    <3> QED BY Zenon, <2>1, <3>4, <3>5
  <2> QED BY Zenon, <1>1, <2>1, <2>3, <2>4, <2>5, Saves
<1> QED BY Zenon, <1>2, <1>3

\* StartVMOnHost.
LEMMA RequestStartStep ==
    ASSUME Base, Machines, LostKept, Shapes, NEW i \in Instances, RequestStart(i) PROVE Base' /\ Machines'
<1>1. Active(i) /\ conf' = conf /\ wrk[i].pc = "request" /\ wrk[i].pc # "none" BY Zenon DEF RequestStart, At, Active
<1>2. CASE power["target"] # "down"
  BY Zenon, <1>1, <1>2, Refuses DEF RequestStart
<1>3. CASE power["target"] = "down"
  <2> DEFINE u == [wrk[i].t EXCEPT !.started = TRUE]
  <2>1. /\ power' = [power EXCEPT !["target"] = "up"] /\ image' = [image EXCEPT !.ran = TRUE]
        /\ (Save(i, u, "guest") \/ Breaks(i))
    BY Zenon, <1>3 DEF RequestStart, Goes
  <2>2. power'.target = "up" /\ power'.source = power.source BY Zenon, <2>1 DEF Shapes, Powers
  <2>3. image'.ran = TRUE /\ image'.disks = image.disks /\ image'.mixed = image.mixed /\ image'.forked = image.forked
    BY Zenon, <2>1 DEF Shapes, Disks
  <2>4. Moved(u, wrk[i].t, wrk[i].t.phase, wrk[i].t.requested, TRUE) BY Zenon, <1>1, Working, MovedRows
  <2> HIDE DEF u
  <2>5. "guest" \in Places \ {"none", "wait"} BY DEF Places
  <2>6. Onward(u, wrk[i].t) BY Zenon, <2>4, MovedOnward
  <2>7. ASSUME count["lost"] = 0
        PROVE  /\ RowFits(row, power', image') /\ RowFits(u, power', image')
               /\ WorkFits("guest", wrk[i].action, wrk[i].img, u, power', image')
    <3>1. /\ wrk[i].t = row /\ row.status = "running" /\ row.pending = "none" /\ RowFits(row, power, image)
          /\ WorkFits("request", wrk[i].action, wrk[i].img, row, power, image)
      BY Zenon, <1>1, <2>7, Working
    <3>2. row.requested /\ row.status \notin Released BY <3>1 DEF WorkFits, Released
    <3>3. /\ power.target # "none" /\ power'.target # "none" /\ (Clean(image') <=> Clean(image))
          /\ Startable(power', image') <=> Startable(power, image)
      BY <1>3, <2>2, <2>3 DEF Clean, Startable
    <3>4. RowFits(row, power', image') BY Zenon, <2>2, <2>3, <3>1, <3>2, <3>3 DEF RowFits
    <3>5. u.requested /\ u.status \notin Released BY <2>4, <3>1, <3>2 DEF Moved
    <3>6. RowFits(u, power', image') BY Zenon, <2>4, <3>1, <3>4, <3>5 DEF RowFits, Moved
    <3>7. WorkFits("guest", wrk[i].action, wrk[i].img, u, power', image') BY <3>5 DEF WorkFits, Early, Back
    <3> QED BY <3>4, <3>6, <3>7
  <2>8. CASE Save(i, u, "guest") BY Zenon, <1>1, <2>5, <2>6, <2>7, <2>8, Saves
  <2>9. CASE Breaks(i) BY Zenon, <1>1, <2>7, <2>9, BreaksOff
  <2> QED BY Zenon, <2>1, <2>8, <2>9
<1> QED BY Zenon, <1>2, <1>3

\* The machine is up.
LEMMA AwaitConfirmationStep ==
    ASSUME Base, Machines, LostKept, Shapes, NEW i \in Instances, AwaitConfirmation(i) PROVE Base' /\ Machines'
<1>1. Active(i) /\ conf' = conf /\ wrk[i].pc = "guest" BY Zenon DEF AwaitConfirmation, At, Active
<1>2. CASE power["target"] # "up"
  BY Zenon, <1>1, <1>2, Refuses DEF AwaitConfirmation
<1>3. CASE power["target"] = "up"
  <2> DEFINE u == [wrk[i].t EXCEPT !.status = "awaiting_confirmation", !.phase = "starting", !.started = TRUE]
             v == [u EXCEPT !.next = "none"]
  <2>1. Over(v, wrk[i].t, "awaiting_confirmation", "starting", wrk[i].t.requested, TRUE)
    BY Zenon, <1>1, Working, OverRows, Members
  <2>2. Finish(i, u) /\ power' = power /\ image' = image BY Zenon, <1>3 DEF AwaitConfirmation, engines
  <2>3. v \in Rows /\ v.status # "recovering" /\ v.status \notin Released BY <2>1 DEF Over, Released
  <2>4. ASSUME count["lost"] = 0 PROVE RowFits(v, power', image')
    <3>1. /\ wrk[i].t = row /\ row.status = "running" /\ RowFits(row, power, image)
          /\ WorkFits("guest", wrk[i].action, wrk[i].img, row, power, image)
      BY Zenon, <1>1, <2>4, Working
    <3>2. row.requested BY <3>1 DEF WorkFits
    <3>3. Clean(image) => Startable(power, image) BY Zenon, <3>1, <3>2 DEF RowFits, Startable
    <3> HIDE DEF v
    <3>4. RowFits(v, power, image) BY Zenon, <2>1, <2>3, <3>1, <3>2, <3>3 DEF RowFits, Over
    <3> QED BY Zenon, <2>2, <3>4
  <2> HIDE DEF u
  <2> QED BY Zenon, <1>1, <2>2, <2>3, <2>4, Finishes
<1> QED BY Zenon, <1>2, <1>3

\* recoverTarget.
LEMMA RecoverTargetStep ==
    ASSUME Base, Machines, LostKept, Shapes, NEW i \in Instances, RecoverTarget(i) PROVE Base' /\ Machines'
<1>1. Active(i) /\ conf' = conf /\ wrk[i].pc = "recover" BY Zenon DEF RecoverTarget, At, Active
<1>2. CASE \E reason : Refused(i, reason)
  BY Zenon, <1>1, <1>2, Refuses
<1>3. CASE Jump(i, "start") /\ power' = power /\ image' = image
  <2>1. "start" \in Places \ {"none", "wait"} BY DEF Places
  <2>2. ASSUME count["lost"] = 0
        PROVE  RowFits(row, power', image') /\ WorkFits("start", wrk[i].action, wrk[i].img, row, power', image')
    <3>1. /\ RowFits(row, power, image) /\ row.active = wrk[i].action
          /\ WorkFits("recover", wrk[i].action, wrk[i].img, row, power, image)
      BY Zenon, <1>1, <2>2, Working
    <3>2. wrk[i].action \in Begins BY <3>1 DEF WorkFits, Begins
    <3>3. Clean(image) => Startable(power, image) BY Zenon, <3>1, <3>2 DEF RowFits
    <3>4. WorkFits("start", wrk[i].action, wrk[i].img, row, power, image) BY <3>3 DEF WorkFits, Early, Back
    <3> QED BY Zenon, <1>3, <3>1, <3>4
  <2> QED BY Zenon, <1>1, <1>3, <2>1, <2>2, Jumps
<1>4. CASE /\ Save(i, [wrk[i].t EXCEPT !.phase = "other"], "guest") /\ power' = power /\ image' = image
           /\ power["target"] \notin {"none", "stopping", "down"}
  <2> DEFINE u == [wrk[i].t EXCEPT !.phase = "other"]
  <2>1. Moved(u, wrk[i].t, "other", wrk[i].t.requested, wrk[i].t.started) BY Zenon, <1>1, Working, MovedRows, Members
  <2>2. Save(i, u, "guest") BY <1>4
  <2> HIDE DEF u
  <2>3. "guest" \in Places \ {"none", "wait"} BY DEF Places
  <2>4. power.target = "up" BY <1>4 DEF Shapes, Powers
  <2>5. ASSUME count["lost"] = 0 PROVE WorkFits("guest", wrk[i].action, wrk[i].img, u, power, image)
    <3>1. wrk[i].t = row /\ RowFits(row, power, image) BY Zenon, <1>1, <2>5, Working
    <3>2. row.requested BY Zenon, <2>4, <3>1 DEF RowFits
    <3> QED BY <2>1, <3>1, <3>2 DEF WorkFits, Moved, Early, Back
  <2> QED BY Zenon, <1>1, <1>4, <2>1, <2>2, <2>3, <2>5, SavesOn
<1> QED BY Zenon, <1>2, <1>3, <1>4 DEF RecoverTarget, engines

\* rollback begins.
LEMMA UndoStep ==
    ASSUME Base, Machines, LostKept, Shapes, NEW i \in Instances, Undo(i) PROVE Base' /\ Machines'
<1>1. Active(i) /\ conf' = conf /\ wrk[i].pc = "undo" BY Zenon DEF Undo, At, Active
<1>2. CASE Refused(i, "unsafe")
  BY Zenon, <1>1, <1>2, Refuses
<1>3. CASE Save(i, [wrk[i].t EXCEPT !.phase = "other"], "find") /\ power' = power /\ image' = image
  <2> DEFINE u == [wrk[i].t EXCEPT !.phase = "other"]
  <2>1. Moved(u, wrk[i].t, "other", wrk[i].t.requested, wrk[i].t.started) BY Zenon, <1>1, Working, MovedRows, Members
  <2>2. Save(i, u, "find") BY <1>3
  <2> HIDE DEF u
  <2>3. "find" \in Places \ {"none", "wait"} BY DEF Places
  <2>4. ASSUME count["lost"] = 0 PROVE WorkFits("find", wrk[i].action, wrk[i].img, u, power, image)
    <3>1. WorkFits("undo", wrk[i].action, wrk[i].img, row, power, image) BY Zenon, <1>1, <2>4, Working
    <3> QED BY <2>1, <3>1 DEF WorkFits, Moved, Early, Back
  <2> QED BY Zenon, <1>1, <1>3, <2>1, <2>2, <2>3, <2>4, SavesOn
<1> QED BY Zenon, <1>2, <1>3 DEF Undo, engines

\* A jump that leaves the machines as they are.
LEMMA JumpsOn ==
    ASSUME Base, Machines, LostKept, conf' = conf, NEW i \in Instances, Active(i), power' = power, image' = image,
           NEW pc \in Places \ {"none", "wait"}, Jump(i, pc),
           count["lost"] = 0 => WorkFits(pc, wrk[i].action, wrk[i].img, row, power, image)
    PROVE  Base' /\ Machines'
<1>1. count["lost"] = 0 =>
         RowFits(row, power', image') /\ WorkFits(pc, wrk[i].action, wrk[i].img, row, power', image')
  BY Zenon, Working
<1> QED BY Zenon, <1>1, Jumps

\* The power of the target changes while its disks stay: a row that fits still fits.
LEMMA FitsPowered ==
    ASSUME NEW t, NEW p, NEW d, NEW q, RowFits(t, p, d), q.source = p.source,
           p.target # "none", q.target # "none", q.target \in {"up", "stopping"} => p.target \in {"up", "stopping"}
    PROVE  RowFits(t, q, d)
<1>1. Startable(q, d) <=> Startable(p, d) BY Zenon DEF Startable
<1> QED BY Zenon, <1>1 DEF RowFits

\* The target is looked for, and asked to shut down when it runs.
LEMMA FindTargetStep ==
    ASSUME Base, Machines, LostKept, Shapes, NEW i \in Instances, FindTarget(i) PROVE Base' /\ Machines'
<1>1. Active(i) /\ conf' = conf /\ wrk[i].pc = "find" /\ wrk[i].pc # "none" BY Zenon DEF FindTarget, At, Active
<1>2. ASSUME count["lost"] = 0
      PROVE  RowFits(row, power, image) /\ row.phase = "other" /\ wrk[i].action \notin Begins
  <2>1. RowFits(row, power, image) /\ WorkFits("find", wrk[i].action, wrk[i].img, row, power, image)
    BY Zenon, <1>1, <1>2, Working
  <2> QED BY <2>1 DEF WorkFits, Early, Back
<1>3. {"source", "delete", "halt"} \subseteq Places \ {"none", "wait"} BY DEF Places
<1>4. CASE power["target"] = "none" /\ Jump(i, "source") /\ power' = power /\ image' = image
  <2>1. count["lost"] = 0 => WorkFits("source", wrk[i].action, wrk[i].img, row, power, image)
    BY <1>2, <1>4 DEF WorkFits, Early, Back
  <2> QED BY Zenon, <1>1, <1>3, <1>4, <2>1, JumpsOn
<1>5. CASE power["target"] = "down" /\ Jump(i, "delete") /\ power' = power /\ image' = image
  <2>1. count["lost"] = 0 => WorkFits("delete", wrk[i].action, wrk[i].img, row, power, image)
    BY <1>2, <1>5 DEF WorkFits, Early, Back
  <2> QED BY Zenon, <1>1, <1>3, <1>5, <2>1, JumpsOn
<1>6. CASE /\ power["target"] # "none" /\ power["target"] # "down"
           /\ power' = [power EXCEPT !["target"] = "stopping"] /\ image' = image /\ (Jump(i, "halt") \/ Breaks(i))
  <2>1. power'.target = "stopping" /\ power'.source = power.source BY Zenon, <1>6 DEF Shapes, Powers
  <2>2. power.target \in {"up", "stopping"} BY <1>6 DEF Shapes, Powers
  <2>3. power'.target # "none" /\ power.target # "none" BY <1>6, <2>1
  <2>4. count["lost"] = 0 => RowFits(row, power', image') BY Zenon, <1>2, <1>6, <2>1, <2>2, <2>3, FitsPowered
  <2>5. count["lost"] = 0 => WorkFits("halt", wrk[i].action, wrk[i].img, row, power', image')
    BY <1>2 DEF WorkFits, Early, Back
  <2>6. CASE Jump(i, "halt") BY Zenon, <1>1, <1>3, <2>4, <2>5, <2>6, Jumps
  <2>7. CASE Breaks(i) BY Zenon, <1>1, <2>4, <2>7, BreaksOff
  <2> QED BY Zenon, <1>6, <2>6, <2>7
<1> QED BY Zenon, <1>4, <1>5, <1>6 DEF FindTarget, engines

\* The target has shut down.
LEMMA TargetHaltedStep ==
    ASSUME Base, Machines, LostKept, Shapes, NEW i \in Instances, TargetHalted(i) PROVE Base' /\ Machines'
<1>1. Active(i) /\ conf' = conf /\ wrk[i].pc = "halt" BY Zenon DEF TargetHalted, At, Active
<1>2. CASE Refused(i, "error")
  BY Zenon, <1>1, <1>2, Refuses
<1>3. CASE power["target"] \in {"down", "none"} /\ Jump(i, "delete") /\ power' = power /\ image' = image
  <2>1. "delete" \in Places \ {"none", "wait"} BY DEF Places
  <2>2. ASSUME count["lost"] = 0 PROVE WorkFits("delete", wrk[i].action, wrk[i].img, row, power, image)
    <3>1. WorkFits("halt", wrk[i].action, wrk[i].img, row, power, image) BY Zenon, <1>1, <2>2, Working
    <3> QED BY <1>3, <3>1 DEF WorkFits, Early, Back
  <2> QED BY Zenon, <1>1, <1>3, <2>1, <2>2, JumpsOn
<1> QED BY Zenon, <1>2, <1>3 DEF TargetHalted, engines

\* The power of the target is cut.
LEMMA TargetDoesNotHaltStep ==
    ASSUME Base, Machines, LostKept, Shapes, NEW i \in Instances, TargetDoesNotHalt(i) PROVE Base' /\ Machines'
<1>1. Active(i) /\ conf' = conf /\ wrk[i].pc = "halt" /\ wrk[i].pc # "none" /\ power["target"] = "up"
  BY Zenon DEF TargetDoesNotHalt, At, Active
<1>2. CASE Refused(i, "error")
  BY Zenon, <1>1, <1>2, Refuses
<1>3. CASE ~wrk[i].synced /\ Return(i)
  BY Zenon, <1>1, <1>3, Returns
<1>4. CASE power' = [power EXCEPT !["target"] = "down"] /\ image' = image /\ Goes(i, wrk[i].t, "delete")
  <2>1. power'.target = "down" /\ power'.source = power.source BY Zenon, <1>4 DEF Shapes, Powers
  <2>2. power'.target # "none" /\ power.target # "none" /\ power'.target \notin {"up", "stopping"} BY <1>1, <2>1
  <2>3. Moved(wrk[i].t, wrk[i].t, wrk[i].t.phase, wrk[i].t.requested, wrk[i].t.started) BY Zenon, <1>1, Working, MovedRows
  <2>4. Onward(wrk[i].t, wrk[i].t) BY Zenon, <2>3, MovedOnward
  <2>5. "delete" \in Places \ {"none", "wait"} BY DEF Places
  <2>6. ASSUME count["lost"] = 0
        PROVE  /\ wrk[i].t = row /\ RowFits(row, power', image')
               /\ WorkFits("delete", wrk[i].action, wrk[i].img, wrk[i].t, power', image')
    <3>1. /\ wrk[i].t = row /\ RowFits(row, power, image)
          /\ WorkFits("halt", wrk[i].action, wrk[i].img, row, power, image)
      BY Zenon, <1>1, <2>6, Working
    <3>2. RowFits(row, power', image') BY Zenon, <1>4, <2>1, <2>2, <3>1, FitsPowered
    <3>3. WorkFits("delete", wrk[i].action, wrk[i].img, wrk[i].t, power', image')
      BY <2>1, <3>1 DEF WorkFits, Early, Back
    <3> QED BY <3>1, <3>2, <3>3
  <2>7. CASE Save(i, wrk[i].t, "delete") BY Zenon, <1>1, <2>4, <2>5, <2>6, <2>7, Saves
  <2>8. CASE Breaks(i) BY Zenon, <1>1, <2>6, <2>8, BreaksOff
  <2> QED BY Zenon, <1>4, <2>7, <2>8 DEF Goes
<1> QED BY Zenon, <1>2, <1>3, <1>4 DEF TargetDoesNotHalt

\* The target is deleted, or kept.
LEMMA DeleteTargetStep ==
    ASSUME Base, Machines, LostKept, Shapes, NEW i \in Instances, DeleteTarget(i) PROVE Base' /\ Machines'
<1>1. Active(i) /\ conf' = conf /\ wrk[i].pc = "delete" /\ wrk[i].pc # "none" BY Zenon DEF DeleteTarget, At, Active
<1>2. ASSUME count["lost"] = 0
      PROVE  /\ RowFits(row, power, image) /\ row.phase = "other" /\ wrk[i].action \notin Begins
             /\ row.active = wrk[i].action /\ power.target \in {"down", "none"}
  <2>1. /\ RowFits(row, power, image) /\ WorkFits("delete", wrk[i].action, wrk[i].img, row, power, image)
        /\ row.active = wrk[i].action
    BY Zenon, <1>1, <1>2, Working
  <2> QED BY <2>1 DEF WorkFits, Early, Back
<1>3. "source" \in Places \ {"none", "wait"} BY DEF Places
<1>4. CASE wrk[i].action \in {"hold", "rollback_keep"} /\ Jump(i, "source") /\ power' = power /\ image' = image
  <2>1. count["lost"] = 0 => WorkFits("source", wrk[i].action, wrk[i].img, row, power, image)
    BY <1>2, <1>4 DEF WorkFits, Early, Back
  <2> QED BY Zenon, <1>1, <1>3, <1>4, <2>1, JumpsOn
<1>5. CASE Refused(i, "error")
  BY Zenon, <1>1, <1>5, Refuses
<1>6. CASE NoTarget /\ (Jump(i, "source") \/ Breaks(i))
  <2>1. power'.target = "none" /\ power'.source = power.source BY Zenon, <1>6 DEF NoTarget, Shapes, Powers
  <2>2. image'.disks = "none" /\ image'.ran = FALSE /\ image'.mixed = image.mixed /\ image'.forked = image.forked
    BY Zenon, <1>6 DEF NoTarget, Shapes, Disks
  <2>3. ASSUME count["lost"] = 0
        PROVE  RowFits(row, power', image') /\ WorkFits("source", wrk[i].action, wrk[i].img, row, power', image')
    <3>1. power'.target \notin {"up", "stopping"} /\ image'.disks # "current" /\ Startable(power', image')
      BY <2>1, <2>2 DEF Startable
    <3>2. RowFits(row, power', image') BY Zenon, <1>2, <2>1, <2>2, <2>3, <3>1 DEF RowFits
    <3>3. WorkFits("source", wrk[i].action, wrk[i].img, row, power', image') BY <1>2, <2>1, <2>3 DEF WorkFits, Early, Back
    <3> QED BY <3>2, <3>3
  <2>4. CASE Jump(i, "source") BY Zenon, <1>1, <1>3, <2>3, <2>4, Jumps
  <2>5. CASE Breaks(i) BY Zenon, <1>1, <2>3, <2>5, BreaksOff
  <2> QED BY Zenon, <1>6, <2>4, <2>5
<1> QED BY Zenon, <1>4, <1>5, <1>6 DEF DeleteTarget, engines

\* The source runs again: the disks are behind, and a target that may have run is another machine.
LEMMA FitsRunning ==
    ASSUME NEW t, NEW p, NEW d, NEW q, NEW e, RowFits(t, p, d), q.source = "up", q.target = p.target,
           e.disks # "current", d.disks = "none" => e.disks = "none", e.ran = d.ran, e.mixed = d.mixed,
           ~e.forked => p.target = "none" \/ ~t.requested
    PROVE  RowFits(t, q, e)
<1>1. Startable(q, e) BY Zenon DEF Startable
<1> QED BY Zenon, <1>1 DEF RowFits, Clean

\* What Behind leaves on the disks.
LEMMA BehindImage ==
    ASSUME Shapes, NEW t, image' = Behind(t)
    PROVE  /\ image' \in Disks /\ image'.disks # "current" /\ (image.disks = "none" => image'.disks = "none")
           /\ image'.ran = image.ran /\ image'.mixed = image.mixed
           /\ ~image'.forked => ~image.forked /\ (power.target = "none" \/ ~(image.ran \/ t.requested))
<1>1. /\ image'.disks = (IF image.disks = "current" THEN "stale" ELSE image.disks)
      /\ image'.ran = image.ran /\ image'.mixed = image.mixed
      /\ image'.forked = (image.forked \/ (power["target"] # "none" /\ (image.ran \/ t.requested)))
  BY Zenon DEF Shapes, Disks, Behind
<1>2. image' \in Disks
  <2>1. (IF image.disks = "current" THEN "stale" ELSE image.disks) \in {"none", "partial", "stale", "current"} BY Zenon DEF Shapes, Disks
  <2>2. (image.forked \/ (power["target"] # "none" /\ (image.ran \/ t.requested))) \in BOOLEAN OBVIOUS
  <2> QED BY Zenon, <2>1, <2>2 DEF Shapes, Disks, Behind
<1> QED BY Zenon, <1>1, <1>2

\* The source is started again, or held off.
LEMMA RestoreSourceStep ==
    ASSUME Base, Machines, LostKept, Shapes, NEW i \in Instances, RestoreSource(i) PROVE Base' /\ Machines'
<1>1. Active(i) /\ conf' = conf /\ wrk[i].pc = "source" /\ wrk[i].pc # "none" BY Zenon DEF RestoreSource, At, Active
<1>2. ASSUME count["lost"] = 0
      PROVE  /\ wrk[i].t = row /\ RowFits(row, power, image) /\ row.phase = "other" /\ wrk[i].action \notin Begins
             /\ row.active = wrk[i].action /\ power.target \in {"down", "none"}
             /\ wrk[i].action \notin {"hold", "rollback_keep"} => power.target = "none"
  <2>1. /\ RowFits(row, power, image) /\ WorkFits("source", wrk[i].action, wrk[i].img, row, power, image)
        /\ row.active = wrk[i].action /\ wrk[i].t = row
    BY Zenon, <1>1, <1>2, Working
  <2> QED BY <2>1 DEF WorkFits, Early, Back
<1>3. {"held", "undone"} \subseteq Places \ {"none", "wait"} BY DEF Places
<1>4. CASE wrk[i].action = "hold" /\ Jump(i, "held") /\ power' = power /\ image' = image
  <2>1. count["lost"] = 0 => WorkFits("held", wrk[i].action, wrk[i].img, row, power, image)
    BY <1>2, <1>4 DEF WorkFits, Early, Back
  <2> QED BY Zenon, <1>1, <1>3, <1>4, <2>1, JumpsOn
<1>5. CASE /\ wrk[i].action = "hold" /\ power["source"] # "down" /\ power' = [power EXCEPT !["source"] = "stopping"] /\ image' = image
           /\ Jump(i, "held") \/ Breaks(i)
  <2>1. power'.source = "stopping" /\ power'.target = power.target BY Zenon, <1>5 DEF Shapes, Powers
  <2>2. ASSUME count["lost"] = 0
        PROVE  RowFits(row, power', image') /\ WorkFits("held", wrk[i].action, wrk[i].img, row, power', image')
    <3>1. image.disks # "current" /\ (Clean(image) => ~row.requested \/ power.target = "none")
      BY Zenon, <1>2, <1>5, <2>2 DEF RowFits
    <3>2. RowFits(row, power', image') BY Zenon, <1>2, <1>5, <2>1, <2>2, <3>1 DEF RowFits
    <3>3. WorkFits("held", wrk[i].action, wrk[i].img, row, power', image') BY <1>2, <2>1, <2>2 DEF WorkFits, Early, Back
    <3> QED BY <3>2, <3>3
  <2>3. CASE Jump(i, "held") BY Zenon, <1>1, <1>3, <2>2, <2>3, Jumps
  <2>4. CASE Breaks(i) BY Zenon, <1>1, <2>2, <2>4, BreaksOff
  <2> QED BY Zenon, <1>5, <2>3, <2>4
<1>6. CASE /\ wrk[i].action # "hold" /\ power' = [power EXCEPT !["source"] = "up"] /\ image' = Behind(wrk[i].t)
           /\ Jump(i, "undone") \/ Breaks(i)
  <2>1. power'.source = "up" /\ power'.target = power.target BY Zenon, <1>6 DEF Shapes, Powers
  <2>2. ASSUME count["lost"] = 0
        PROVE  RowFits(row, power', image') /\ WorkFits("undone", wrk[i].action, wrk[i].img, row, power', image')
    <3>1. /\ image'.disks # "current" /\ (image.disks = "none" => image'.disks = "none")
          /\ image'.ran = image.ran /\ image'.mixed = image.mixed
          /\ ~image'.forked => power.target = "none" \/ ~wrk[i].t.requested
      BY Zenon, <1>6, BehindImage
    <3>2. RowFits(row, power', image') BY Zenon, <1>2, <2>1, <2>2, <3>1, FitsRunning
    <3>3. WorkFits("undone", wrk[i].action, wrk[i].img, row, power', image')
      BY <1>2, <1>6, <2>1, <2>2 DEF WorkFits, Early, Back
    <3> QED BY <3>2, <3>3
  <2>3. CASE Jump(i, "undone") BY Zenon, <1>1, <1>3, <2>2, <2>3, Jumps
  <2>4. CASE Breaks(i) BY Zenon, <1>1, <2>2, <2>4, BreaksOff
  <2> QED BY Zenon, <1>6, <2>3, <2>4
<1>7. CASE wrk[i].action # "hold" /\ Jump(i, "undone") /\ power' = power /\ image' = image
  <2>1. count["lost"] = 0 => WorkFits("undone", wrk[i].action, wrk[i].img, row, power, image)
    BY <1>2, <1>7 DEF WorkFits, Early, Back
  <2> QED BY Zenon, <1>1, <1>3, <1>7, <2>1, JumpsOn
<1> QED BY Zenon, <1>4, <1>5, <1>6, <1>7 DEF RestoreSource, engines

\* A hold is done.
LEMMA HeldStep ==
    ASSUME Base, Machines, LostKept, Shapes, NEW i \in Instances, Held(i) PROVE Base' /\ Machines'
<1>1. Active(i) /\ conf' = conf /\ wrk[i].pc = "held" BY Zenon DEF Held, At, Active
<1>2. CASE Refused(i, "error")
  BY Zenon, <1>1, <1>2, Refuses
<1> DEFINE u == [wrk[i].t EXCEPT !.status = "held", !.phase = "other", !.stopped = TRUE, !.manual = TRUE]
           v == [u EXCEPT !.next = "none"]
<1>3. CASE Finish(i, u) /\ power' = power /\ image' = image
  <2>1. Over(v, wrk[i].t, "held", "other", wrk[i].t.requested, wrk[i].t.started)
    BY Zenon, <1>1, Working, OverRows, Members
  <2>2. v \in Rows /\ v.status # "recovering" /\ v.status \notin Released BY <2>1 DEF Over, Released
  <2>3. ASSUME count["lost"] = 0 PROVE RowFits(v, power', image')
    <3>1. wrk[i].t = row /\ RowFits(row, power, image) BY Zenon, <1>1, <2>3, Working
    <3> HIDE DEF v
    <3>2. RowFits(v, power, image) BY Zenon, <2>1, <2>2, <3>1 DEF RowFits, Over
    <3> QED BY Zenon, <1>3, <3>2
  <2> HIDE DEF u
  <2> QED BY Zenon, <1>1, <1>3, <2>2, <2>3, Finishes
<1> QED BY Zenon, <1>2, <1>3 DEF Held, engines

\* A rollback is done.
LEMMA UndoneStep ==
    ASSUME Base, Machines, LostKept, Shapes, NEW i \in Instances, Undone(i) PROVE Base' /\ Machines'
<1>1. Active(i) /\ conf' = conf /\ wrk[i].pc = "undone" /\ power' = power /\ image' = image BY Zenon DEF Undone, At, Active, engines
<1>2. ASSUME count["lost"] = 0
      PROVE  /\ wrk[i].t = row /\ RowFits(row, power, image) /\ row.status = "running" /\ wrk[i].action \notin Begins
             /\ row.active = wrk[i].action /\ power.target \in {"down", "none"} /\ wrk[i].action # "hold"
             /\ wrk[i].action \notin {"hold", "rollback_keep"} => power.target = "none"
  <2>1. /\ RowFits(row, power, image) /\ WorkFits("undone", wrk[i].action, wrk[i].img, row, power, image)
        /\ row.active = wrk[i].action /\ wrk[i].t = row /\ row.status = "running"
    BY Zenon, <1>1, <1>2, Working
  <2> QED BY <2>1 DEF WorkFits, Early, Back
<1>3. wrk[i].t \in Rows BY Zenon, <1>1, Working
\* With the marks of the start gone.
<1>4. ASSUME count["lost"] = 0
      PROVE  /\ power.target \notin {"up", "stopping"}
             /\ "rollback_keep" \notin conf.calls => ~image.ran
  BY Zenon, <1>2, <1>4 DEF RowFits
<1> DEFINE t == UndoneRow(wrk[i].t)
<1>5. CASE wrk[i].action = "retry_prepare"
  <2> DEFINE u == [t EXCEPT !.id = FALSE, !.restore = FALSE, !.applied = FALSE, !.stopped = FALSE]
  <2>1. Moved(u, wrk[i].t, "other", FALSE, FALSE) BY Zenon, <1>3, UndoneRows
  <2>2. Save(i, u, "plan") BY Zenon, <1>5 DEF Undone, UndoneRow
  <2> HIDE DEF u
  <2>3. "plan" \in Places \ {"none", "wait"} BY DEF Places
  <2>4. Onward(u, wrk[i].t) BY Zenon, <2>1, MovedOnward
  <2>5. ASSUME count["lost"] = 0
        PROVE  RowFits(u, power', image') /\ WorkFits("plan", wrk[i].action, wrk[i].img, u, power', image')
    <3>1. /\ u.status # "recovering" /\ u.status \notin Released
          /\ u.active = row.active /\ u.pending = row.pending /\ u.phase = "other" /\ ~u.requested /\ ~u.started
      BY <1>2, <2>1, <2>5 DEF Moved, Released
    <3>2. RowFits(u, power, image) BY Zenon, <1>2, <1>4, <2>5, <3>1 DEF RowFits
    <3>3. WorkFits("plan", wrk[i].action, wrk[i].img, u, power', image') BY <1>2, <1>5, <2>5, <3>1 DEF WorkFits, Early, Back
    <3> QED BY Zenon, <1>1, <3>2, <3>3
  <2> QED BY Zenon, <1>1, <2>2, <2>3, <2>4, <2>5, Saves
<1>6. CASE wrk[i].action # "retry_prepare"
  <2> DEFINE s == IF wrk[i].action = "rollback_keep" THEN "rolled_back_retained"
                  ELSE IF wrk[i].action = "cancel" THEN "canceled" ELSE "rolled_back"
             u == [t EXCEPT !.status = s]
             v == [u EXCEPT !.next = "none"]
  <2>1. Finish(i, u)
    <3>1. CASE wrk[i].action = "rollback_keep" BY Zenon, <1>6, <3>1 DEF Undone, UndoneRow
    <3>2. CASE wrk[i].action # "rollback_keep" BY Zenon, <1>6, <3>2 DEF Undone, UndoneRow
    <3> QED BY Zenon, <3>1, <3>2
  <2>2. s \in Status /\ s # "recovering" /\ (s \in Released => wrk[i].action # "rollback_keep") BY DEF Status, Released
  <2> HIDE DEF s
  <2>3. Over(v, wrk[i].t, s, "other", FALSE, FALSE) BY Zenon, <1>3, <2>2, UndoneRows
  <2>4. v \in Rows /\ v.status # "recovering" BY <2>2, <2>3 DEF Over
  <2>5. ASSUME count["lost"] = 0 PROVE RowFits(v, power', image')
    <3> HIDE DEF v
    <3>1. /\ v.active = row.active /\ v.pending = row.pending /\ v.phase = "other" /\ ~v.requested /\ ~v.started
          /\ v.status \in Released => power.target = "none"
      BY <1>2, <2>2, <2>3, <2>5 DEF Over
    <3>2. RowFits(v, power, image) BY Zenon, <1>2, <1>4, <2>4, <2>5, <3>1 DEF RowFits
    <3> QED BY Zenon, <1>1, <3>2
  <2> HIDE DEF u
  <2> QED BY Zenon, <1>1, <2>1, <2>4, <2>5, Finishes
<1> QED BY Zenon, <1>5, <1>6

\* The others after a write: their copies are out of date, and they are where they were.
LEMMA Others ==
    ASSUME Base, NEW i \in Instances, NEW u, NEW y, Write(i, u, y)
    PROVE  /\ row' = u /\ wrk'[i] = y
           /\ \A j \in Instances \ {i} : wrk'[j].pc = wrk[j].pc /\ wrk'[j].action = wrk[j].action /\ ~wrk'[j].synced
<1>1. row' = u /\ wrk' = [j \in Instances |-> IF j = i THEN y ELSE [wrk[j] EXCEPT !.synced = FALSE]] BY Zenon DEF Write
<1>2. ASSUME NEW j \in Instances \ {i}
      PROVE  wrk'[j].pc = wrk[j].pc /\ wrk'[j].action = wrk[j].action /\ ~wrk'[j].synced
  <2>1. wrk[j] \in Workers /\ wrk'[j] = [wrk[j] EXCEPT !.synced = FALSE] BY Zenon, <1>1 DEF Base
  <2> QED BY Zenon, <2>1 DEF Workers
<1> QED BY Zenon, <1>1, <1>2

\* Where an action begins.
LEMMA EntryFits ==
    ASSUME NEW a \in Actions, NEW m, NEW t, NEW p, NEW d,
           a \in Fresh => ~t.requested, Clean(d) /\ a \in Begins => Startable(p, d)
    PROVE  Entry(a) \in Places \ {"none", "wait"} /\ WorkFits(Entry(a), a, m, t, p, d)
<1>1. CASE a = "prepare" BY <1>1 DEF Entry, Places, WorkFits, Early, Back, Begins, Fresh
<1>2. CASE a = "sync" BY <1>2 DEF Entry, Places, WorkFits, Early, Back, Begins, Fresh
<1>3. CASE a = "cutover" BY <1>3 DEF Entry, Places, WorkFits, Early, Back, Begins, Fresh
<1>4. CASE a = "start_target" BY <1>4 DEF Entry, Places, WorkFits, Early, Back, Begins, Fresh
<1>5. CASE a = "recover_target" BY <1>5 DEF Entry, Places, WorkFits, Early, Back, Begins, Fresh
<1>6. CASE a \notin {"prepare", "sync", "cutover", "start_target", "recover_target"}
  <2>1. Entry(a) = "undo" BY <1>6 DEF Entry
  <2> QED BY <1>6, <2>1 DEF Places, WorkFits, Early, Back, Begins
<1> QED BY Zenon, <1>1, <1>2, <1>3, <1>4, <1>5, <1>6

\* acquireSlot: the worker begins.
LEMMA AdmitStep ==
    ASSUME Base, Machines, LostKept, Shapes, NEW i \in Instances, Admit(i) PROVE Base' /\ Machines'
<1>1. /\ wrk[i].pc = "wait" /\ wrk[i].synced /\ lock = None /\ lock' = i /\ conf' = conf
      /\ power' = power /\ image' = image
  BY Zenon DEF Admit, engines
<1> DEFINE a == wrk[i].action
           u == [row EXCEPT !.status = "running", !.pending = "none"]
           y == [wrk[i] EXCEPT !.pc = Entry(a), !.t = u]
<1>2. Write(i, u, y) BY Zenon DEF Admit
<1>3. row \in Rows /\ wrk[i] \in Workers /\ row.pending = a /\ row.active = a BY Zenon, <1>1 DEF Base, Copy
<1>4. /\ u \in Rows /\ u.status = "running" /\ u.pending = "none" /\ u.active = row.active /\ u.next = row.next
      /\ u.phase = row.phase /\ u.requested = row.requested /\ u.started = row.started
  <2>1. "running" \in Status BY DEF Status
  <2> QED BY Zenon, <1>3, <2>1 DEF Rows
<1> HIDE DEF u
<1>5. a \in Actions BY Zenon, <1>3 DEF Rows
<1>6. /\ Entry(a) \in Places \ {"none", "wait"}
      /\ count["lost"] = 0 => RowFits(u, power, image) /\ WorkFits(Entry(a), a, wrk[i].img, u, power, image)
  <2>1. Entry(a) \in Places \ {"none", "wait"} BY Zenon, <1>5 DEF Entry, Places
  <2>2. ASSUME count["lost"] = 0 PROVE RowFits(u, power, image) /\ WorkFits(Entry(a), a, wrk[i].img, u, power, image)
    <3>1. RowFits(row, power, image) BY Zenon, <2>2 DEF Machines
    <3>2. (a \in Fresh => ~u.requested) /\ (Clean(image) /\ a \in Begins => Startable(power, image))
      BY Zenon, <1>3, <1>4, <3>1 DEF RowFits
    <3>3. WorkFits(Entry(a), a, wrk[i].img, u, power, image) BY Zenon, <1>5, <3>2, EntryFits
    <3>4. u.status # "recovering" /\ u.status \notin Released /\ "none" \notin Fresh BY <1>4 DEF Released, Fresh
    <3>5. RowFits(u, power, image) BY Zenon, <1>4, <3>1, <3>4 DEF RowFits
    <3> QED BY <3>3, <3>5
  <2> QED BY Zenon, <2>1, <2>2
<1>7. Worker(y, Entry(a), a, wrk[i].img, wrk[i].synced, u) BY Zenon, <1>3, <1>4, <1>6 DEF Worker, Workers
<1>8. y \in Workers /\ y.pc = Entry(a) /\ y.action = a /\ y.img = wrk[i].img /\ y.synced /\ y.t = u BY Zenon, <1>1, <1>7 DEF Worker
<1> HIDE DEF y, a
<1>9. count["lost"] = 0 => \A j \in Instances : ~Active(j) BY Zenon, <1>1, Quiet
<1>10. Copy(y, u) BY Zenon, <1>3, <1>4, <1>6, <1>8 DEF Copy
<1>11. Base'
  <2>1. u.status = "recovering" => u.next \in Actions BY <1>4
  <2>2. lock' \in Instances \cup {None} BY Zenon, <1>1
  <2>3. count["lost"] = 0 =>
           /\ \A j \in Instances \ {i} : ~Active(j)
           /\ y.pc \in {"none", "wait"} => lock' = None
           /\ y.pc \notin {"none", "wait"} => lock' = i /\ y.synced
    BY Zenon, <1>1, <1>6, <1>8, <1>9
  <2> QED BY Zenon, <1>2, <1>4, <1>8, <1>10, <2>1, <2>2, <2>3, BaseWrite
<1>12. /\ row' = u /\ wrk'[i] = y
       /\ count["lost"] = 0 => \A j \in Instances \ {i} : ~Active(j)'
  BY Zenon, <1>2, <1>9, Others DEF Active
<1>13. count["lost"] = 0 => RowFits(row', power', image') /\ WorkerFits(wrk'[i], row', power', image')
  BY Zenon, <1>1, <1>6, <1>8, <1>12 DEF WorkerFits
<1>14. Machines' BY Zenon, <1>1, <1>12, <1>13, MachinesOf
<1> QED BY <1>11, <1>14

\* A worker whose row went another way.
LEMMA NotAdmittedStep ==
    ASSUME Base, Machines, LostKept, Shapes, NEW i \in Instances, NotAdmitted(i) PROVE Base' /\ Machines'
BY Zenon, Returns DEF NotAdmitted, engines

\* An action is broken off between its steps.
LEMMA BrokenOffStep ==
    ASSUME Base, Machines, LostKept, Shapes, NEW i \in Instances, BrokenOff(i) PROVE Base' /\ Machines'
<1>1. wrk[i].pc # "none" /\ Breaks(i) /\ conf' = conf /\ power' = power /\ image' = image BY Zenon DEF BrokenOff
<1>2. count["lost"] = 0 => RowFits(row, power', image') BY Zenon, <1>1 DEF Machines
<1> QED BY Zenon, <1>1, <1>2, BreaksOff

\* No step of a worker disturbs the row, its lock or what the machines have.
LEMMA WorkStep ==
    ASSUME Base, Machines, LostKept, Shapes, NEW i \in Instances, Work(i) PROVE Base' /\ Machines'
BY Zenon, AdmitStep, NotAdmittedStep, PlanStep, FullBackupStep, CreateTargetStep, TargetCreatedStep,
   FillTargetStep, StopSourceStep, ShutdownSourceStep, SourceStoppedStep, SourceDoesNotStopStep, SynchronizeStep,
   ApplyDeltaStep, StartTargetStep, CheckSourceStep, RequestStartStep, AwaitConfirmationStep, RecoverTargetStep,
   UndoStep, FindTargetStep, TargetHaltedStep, TargetDoesNotHaltStep, DeleteTargetStep, RestoreSourceStep,
   HeldStep, UndoneStep, BrokenOffStep DEF Work

-----------------------------------------------------------------------------
(* The other steps. *)

\* A write of the row while nobody is at work.
LEMMA Rewrites ==
    ASSUME Base, LostKept, conf' = conf, lock' = lock, NEW i \in Instances, NEW u \in Rows, NEW y \in Workers,
           Write(i, u, y), y.pc \in {"none", "wait"}, Copy(y, u), u.status = "recovering" => u.next \in Actions,
           row.status # "running" \/ lock = None,
           count["lost"] = 0 => RowFits(u, power', image')
    PROVE  Base' /\ Machines'
<1>1. count["lost"] = 0 => lock = None /\ \A j \in Instances : ~Active(j) BY Zenon, Quiet
<1>2. Base'
  <2>1. lock' \in Instances \cup {None} BY Zenon DEF Base
  <2>2. count["lost"] = 0 =>
           /\ \A j \in Instances \ {i} : ~Active(j)
           /\ y.pc \in {"none", "wait"} => lock' = None
           /\ y.pc \notin {"none", "wait"} => lock' = i /\ y.synced
    BY Zenon, <1>1
  <2> QED BY Zenon, <2>1, <2>2, BaseWrite
<1>3. /\ row' = u /\ ~Active(i)'
      /\ count["lost"] = 0 => \A j \in Instances \ {i} : ~Active(j)'
  BY Zenon, <1>1, Others DEF Active
<1>4. Machines' BY Zenon, <1>3, MachinesOf
<1> QED BY <1>2, <1>4

\* startLocked with an action that suits the machines.
LEMMA Starts ==
    ASSUME Base, LostKept, Shapes, NEW i \in Instances, NEW t \in Rows, NEW a \in Actions, StartLocked(i, t, a),
           t.requested = row.requested, t.started = row.started,
           count["lost"] = 0 =>
              /\ RowFits(row, power, image) /\ (a \in Fresh => ~row.requested)
              /\ Clean(image) /\ a \in Begins => Startable(power, image)
              /\ a = "rollback_keep" => "rollback_keep" \in conf.calls
    PROVE  Base' /\ Machines'
<1> DEFINE u == [t EXCEPT !.status = "queued", !.phase = "other", !.pending = a, !.active = a]
           y == Waiting(a, u)
<1>1. /\ lock = None /\ lock' = lock /\ conf' = conf /\ power' = power /\ image' = image /\ Write(i, u, y)
  BY Zenon DEF StartLocked, engines
<1>2. /\ u \in Rows /\ u.status = "queued" /\ u.phase = "other" /\ u.pending = a /\ u.active = a
      /\ u.requested = t.requested /\ u.started = t.started
  <2>1. "queued" \in Status /\ "other" \in Phases BY DEF Status, Phases
  <2> QED BY Zenon, <2>1 DEF Rows
<1> HIDE DEF u
<1>3. y \in Workers /\ y.pc = "wait" /\ y.action = a /\ y.synced /\ y.t = u
  <2>1. Idle \in Workers BY Zenon, IdleWorker DEF Worker
  <2>2. "wait" \in Places BY DEF Places
  <2> QED BY Zenon, <1>2, <2>1, <2>2 DEF Waiting, Workers
<1> HIDE DEF y
<1>4. Copy(y, u) BY Zenon, <1>2, <1>3 DEF Copy
<1>5. u.status # "recovering" /\ u.status \notin Released BY <1>2 DEF Released
<1>6. count["lost"] = 0 => RowFits(u, power', image')
  <2>1. ASSUME count["lost"] = 0 PROVE RowFits(u, power, image) BY Zenon, <1>2, <1>5, <2>1 DEF RowFits
  <2> QED BY Zenon, <1>1, <2>1
<1> QED BY Zenon, <1>1, <1>2, <1>3, <1>4, <1>5, <1>6, Rewrites

\* What Action and resumeAction choose suits the machines.
LEMMA ChosenFits ==
    ASSUME Base, NEW call \in Calls, NEW a \in Chosen(call), call = "sync" \/ call \in conf.calls
    PROVE  /\ a \in Actions
           /\ RowFits(row, power, image) =>
                 /\ a \in Fresh => ~row.requested
                 /\ Clean(image) /\ a \in Begins => Startable(power, image)
                 /\ a = "rollback_keep" => "rollback_keep" \in conf.calls
<1>1. row.pending \in Actions \cup {"none"} /\ row.active \in Actions BY Zenon DEF Base, Rows
<1>2. CASE call = "resume"
  <2>1. a = ResumeAction(row) BY <1>2 DEF Chosen
  <2>2. CASE row.pending # "none"
    <3>1. a = row.pending BY Zenon, <2>1, <2>2 DEF ResumeAction
    <3> QED BY Zenon, <1>1, <2>2, <3>1 DEF RowFits
  <2>3. CASE row.pending = "none" /\ row.active \in {"rollback", "cancel", "rollback_keep"}
    <3>1. a = row.active BY Zenon, <2>1, <2>3 DEF ResumeAction
    <3>2. a \notin Fresh /\ a \notin Begins BY <2>3, <3>1 DEF Fresh, Begins
    <3> QED BY Zenon, <1>1, <3>1, <3>2 DEF RowFits
  <2>4. CASE /\ row.pending = "none" /\ row.active \notin {"rollback", "cancel", "rollback_keep"}
             /\ row.started \/ row.requested \/ row.phase = "starting"
    <3>1. a = "recover_target" BY Zenon, <2>1, <2>4 DEF ResumeAction
    <3>2. a \notin Fresh /\ a \in Actions /\ a # "rollback_keep" BY <3>1 DEF Fresh, Actions
    <3>3. RowFits(row, power, image) /\ Clean(image) => Startable(power, image)
      <4>1. CASE row.phase = "starting"
        <5>1. row.phase # "other" BY <4>1
        <5> QED BY Zenon, <5>1 DEF RowFits
      <4>2. CASE row.started \/ row.requested BY Zenon, <4>2 DEF RowFits, Startable
      <4> QED BY Zenon, <2>4, <4>1, <4>2
    <3> QED BY Zenon, <3>2, <3>3
  <2>5. CASE /\ row.pending = "none" /\ row.active \notin {"rollback", "cancel", "rollback_keep"}
             /\ ~(row.started \/ row.requested \/ row.phase = "starting")
    <3>1. CASE row.phase = "final"
      <4>1. a = "start_target" BY Zenon, <2>1, <2>5, <3>1 DEF ResumeAction
      <4>2. a \in Actions /\ a # "rollback_keep" /\ row.phase # "other" BY <3>1, <4>1 DEF Actions
      <4> QED BY Zenon, <2>5, <4>2 DEF RowFits
    <3>2. CASE row.phase # "final"
      <4>1. a \in {"cutover", "sync", "retry_prepare"} BY Zenon, <2>1, <2>5, <3>2 DEF ResumeAction
      <4>2. a \in Actions /\ a # "rollback_keep" /\ a \notin Begins BY <4>1 DEF Actions, Begins
      <4> QED BY Zenon, <2>5, <4>2
    <3> QED BY Zenon, <3>1, <3>2
  <2> QED BY Zenon, <2>2, <2>3, <2>4, <2>5
<1>3. CASE call = "recover"
  <2>1. a = RecoverAction(row) BY <1>3 DEF Chosen
  <2>2. CASE row.started \/ row.requested
    <3>1. a = "recover_target" BY Zenon, <2>1, <2>2 DEF RecoverAction
    <3>2. a \notin Fresh /\ a \in Actions /\ a # "rollback_keep" BY <3>1 DEF Fresh, Actions
    <3>3. RowFits(row, power, image) /\ Clean(image) => Startable(power, image) BY Zenon, <2>2 DEF RowFits, Startable
    <3> QED BY Zenon, <3>2, <3>3
  <2>3. CASE ~(row.started \/ row.requested) /\ row.active \in {"none", "prepare", "retry_prepare"}
    <3>1. a = "retry_prepare" BY Zenon, <2>1, <2>3 DEF RecoverAction
    <3>2. a \in Actions /\ a # "rollback_keep" /\ a \notin Begins BY <3>1 DEF Actions, Begins
    <3> QED BY Zenon, <2>3, <3>2
  <2>4. CASE ~(row.started \/ row.requested) /\ row.active \notin {"none", "prepare", "retry_prepare"}
    <3>1. a = row.active BY Zenon, <2>1, <2>4 DEF RecoverAction
    <3> QED BY Zenon, <1>1, <2>4, <3>1 DEF RowFits
  <2> QED BY Zenon, <2>2, <2>3, <2>4
<1>4. CASE call \in {"sync", "cutover"}
  <2>1. a = call /\ MayUpdate(row) BY <1>4 DEF Chosen
  <2>2. a \in Actions /\ a # "rollback_keep" /\ a \notin Begins BY <1>4, <2>1 DEF Actions, Begins
  <2> QED BY Zenon, <2>1, <2>2 DEF MayUpdate
<1>5. CASE call \in Undoing
  <2>1. call \notin {"resume", "recover", "sync", "cutover"} BY <1>5 DEF Undoing
  <2>2. a = call BY <2>1 DEF Chosen
  <2>3. a \in Actions /\ a \notin Fresh /\ a \notin Begins BY <1>5, <2>2 DEF Undoing, Actions, Fresh, Begins
  <2> QED BY Zenon, <2>1, <2>2, <2>3
<1> QED BY Zenon, <1>2, <1>3, <1>4, <1>5 DEF Calls

\* Action starts a worker.
LEMMA ActStep ==
    ASSUME Base, Machines, LostKept, Shapes, NEW i \in Instances, NEW call \in Calls, call = "sync" \/ call \in conf.calls,
           Act(i, call)
    PROVE  Base' /\ Machines'
<1> DEFINE t == [row EXCEPT !.manual = FALSE, !.tries = 0, !.rollbacks = 0, !.next = "none"]
<1>1. PICK a \in Chosen(call) : StartLocked(i, t, a) BY Zenon DEF Act
<1>2. t \in Rows /\ t.requested = row.requested /\ t.started = row.started
  <2>1. 0 \in Nat OBVIOUS
  <2> QED BY Zenon, <2>1 DEF Base, Rows
<1> HIDE DEF t
<1>3. /\ a \in Actions
      /\ count["lost"] = 0 =>
              /\ RowFits(row, power, image) /\ (a \in Fresh => ~row.requested)
              /\ Clean(image) /\ a \in Begins => Startable(power, image)
              /\ a = "rollback_keep" => "rollback_keep" \in conf.calls
  BY Zenon, ChosenFits DEF Machines
<1> QED BY Zenon, <1>1, <1>2, <1>3, Starts

\* Nothing happens to the row, the lock, the workers at work and the machines.
LEMMA Stays ==
    ASSUME Base, Machines, LostKept, conf' = conf, row' = row, lock' = lock, wrk' = wrk, power' = power, image' = image
    PROVE  Base' /\ Machines'
<1>1. Base' BY Zenon DEF Base, Locked, Active, LostKept
<1>2. \A j \in Instances : Active(j)' => Active(j) /\ wrk'[j] = wrk[j] BY Zenon DEF Active
<1> QED BY Zenon, <1>1, <1>2, MachinesSame

\* An operator or the loop of Run starts a worker.
LEMMA OperateStep ==
    ASSUME Base, Machines, LostKept, Shapes, NEW i \in Instances, NEW call \in Calls, Operate(i, call) PROVE Base' /\ Machines'
BY Zenon, ActStep DEF Operate

\* Run keeps a ready warm transfer up to date.
LEMMA TickSyncStep ==
    ASSUME Base, Machines, LostKept, Shapes, NEW i \in Instances, TickSync(i) PROVE Base' /\ Machines'
<1>1. "sync" \in Calls BY DEF Calls
<1>2. CASE Act(i, "sync") BY Zenon, <1>1, <1>2, ActStep
<1>3. CASE UNCHANGED <<conf, row, pause, lock, wrk, proc, engines>>
  <2>1. conf' = conf /\ row' = row /\ lock' = lock /\ wrk' = wrk /\ power' = power /\ image' = image BY Zenon, <1>3 DEF engines
  <2> QED BY Zenon, <2>1, Stays
<1> QED BY Zenon, <1>2, <1>3 DEF TickSync

\* An attempt of ReconcileRecovery.
LEMMA AttemptStep ==
    ASSUME Base, Machines, LostKept, Shapes, NEW i \in Instances, Attempt(i) PROVE Base' /\ Machines'
<1> DEFINE t == IF row.next \in {"rollback", "cancel"} THEN [row EXCEPT !.rollbacks = @ + 1] ELSE [row EXCEPT !.tries = @ + 1]
           a == row.next
<1>1. row.status = "recovering" /\ StartLocked(i, t, a) BY Zenon DEF Attempt
<1>2. row \in Rows /\ a \in Actions BY Zenon, <1>1 DEF Base
<1>3. t \in Rows /\ t.requested = row.requested /\ t.started = row.started
  <2>1. row.rollbacks + 1 \in Nat /\ row.tries + 1 \in Nat
    <3>1. row.rollbacks \in Nat /\ row.tries \in Nat BY Zenon, <1>2 DEF Rows
    <3> QED BY <3>1
  <2>2. CASE row.next \in {"rollback", "cancel"}
    <3>1. t = [row EXCEPT !.rollbacks = row.rollbacks + 1] BY Zenon, <2>2
    <3> QED BY Zenon, <1>2, <2>1, <3>1 DEF Rows
  <2>3. CASE row.next \notin {"rollback", "cancel"}
    <3>1. t = [row EXCEPT !.tries = row.tries + 1] BY Zenon, <2>3
    <3> QED BY Zenon, <1>2, <2>1, <3>1 DEF Rows
  <2> QED BY Zenon, <2>2, <2>3
<1> HIDE DEF t
<1>4. ASSUME count["lost"] = 0
      PROVE  /\ RowFits(row, power, image) /\ (a \in Fresh => ~row.requested)
             /\ Clean(image) /\ a \in Begins => Startable(power, image)
             /\ a = "rollback_keep" => "rollback_keep" \in conf.calls
  <2>1. RowFits(row, power, image) BY Zenon, <1>4 DEF Machines
  <2>2. /\ row.next \in Automatics /\ (row.next \in Fresh => ~row.requested)
        /\ row.next = "recover_target" => row.requested
    BY Zenon, <1>1, <2>1 DEF RowFits
  <2>3. a # "rollback_keep" /\ (a \in Begins => a = "recover_target") BY <2>2 DEF Automatics, Begins
  <2>4. row.requested /\ Clean(image) => Startable(power, image) BY Zenon, <2>1 DEF RowFits, Startable
  <2> QED BY Zenon, <2>1, <2>2, <2>3, <2>4
<1> QED BY Zenon, <1>1, <1>2, <1>3, <1>4, Starts

\* ReconcileRecovery finds a transfer in the middle of an action.
LEMMA RescheduleStep ==
    ASSUME Base, Machines, LostKept, Shapes, NEW i \in Instances, Reschedule(i) PROVE Base' /\ Machines'
<1> DEFINE u == IF row.pending # "none" /\ ~row.id /\ row.active = "prepare"
                THEN [row EXCEPT !.status = "recovering", !.next = row.pending]
                ELSE ScheduleRecovery(row, row.active, "error")
<1>1. /\ lock = None /\ lock' = lock /\ conf' = conf /\ power' = power /\ image' = image /\ Write(i, u, Idle)
  BY Zenon DEF Reschedule, Automatic, engines
<1>2. row \in Rows BY Zenon DEF Base
<1>3. /\ u \in Rows /\ (u.status = "recovering" => u.next \in Actions)
      /\ count["lost"] = 0 => RowFits(u, power, image)
  <2>1. CASE row.pending # "none" /\ ~row.id /\ row.active = "prepare"
    <3>1. u = [row EXCEPT !.status = "recovering", !.next = row.pending] BY Zenon, <2>1
    <3> HIDE DEF u
    <3>2. "recovering" \in Status /\ "recovering" \notin Released BY DEF Status, Released
    <3>3. /\ u \in Rows /\ u.status = "recovering" /\ u.next = row.pending /\ u.pending = row.pending /\ u.active = row.active
          /\ u.phase = row.phase /\ u.requested = row.requested /\ u.started = row.started
      BY Zenon, <1>2, <3>1, <3>2 DEF Rows
    <3>4. row.pending \in Actions BY Zenon, <1>2, <2>1 DEF Rows
    <3>5. ASSUME count["lost"] = 0 PROVE RowFits(u, power, image)
      <4>1. RowFits(row, power, image) BY Zenon, <3>5 DEF Machines
      <4>2. row.pending = "prepare" BY Zenon, <2>1, <4>1 DEF RowFits
      <4>3. row.pending \in Fresh /\ row.pending \in Automatics /\ row.pending # "recover_target"
        BY <4>2 DEF Fresh, Automatics
      <4>4. u.status \notin Released BY <3>2, <3>3
      <4> QED BY Zenon, <3>3, <4>1, <4>3, <4>4 DEF RowFits
    <3> QED BY Zenon, <3>3, <3>4, <3>5
  <2>2. CASE ~(row.pending # "none" /\ ~row.id /\ row.active = "prepare")
    <3>1. Broke(u, row)
      <4>1. u = ScheduleRecovery(row, row.active, "error") BY Zenon, <2>2
      <4>2. Broke(ScheduleRecovery(row, row.active, "error"), row) BY Zenon, <1>2, Scheduled
      <4> HIDE DEF u
      <4> QED BY Zenon, <4>1, <4>2
    <3> HIDE DEF u
    <3>2. u \in Rows /\ (u.status = "recovering" => u.next \in Actions)
      BY Zenon, <3>1 DEF Broke, Automatics, Actions, Undoing
    <3>3. count["lost"] = 0 => RowFits(u, power, image) BY Zenon, <3>1, FitsBroke DEF Machines
    <3> QED BY Zenon, <3>2, <3>3
  <2> QED BY Zenon, <2>1, <2>2
<1> HIDE DEF u
<1>4. Idle \in Workers /\ Idle.pc = "none" /\ ~Idle.synced BY Zenon, IdleWorker DEF Worker
<1>5. Copy(Idle, u) BY Zenon, <1>4 DEF Copy
<1>6. count["lost"] = 0 => RowFits(u, power', image') BY Zenon, <1>1, <1>3
<1> QED BY Zenon, <1>1, <1>3, <1>4, <1>5, <1>6, Rewrites

\* A row that an operator or the start of the service writes while nobody is at work.
LEMMA Marks ==
    ASSUME Base, Machines, LostKept, conf' = conf, lock' = lock, power' = power, image' = image,
           NEW i \in Instances, NEW u \in Rows, Write(i, u, wrk[i]), wrk[i].pc = "none",
           row.status # "running" \/ lock = None,
           u.pending = row.pending, u.active = row.active, u.requested = row.requested, u.started = row.started,
           u.phase \in {"other", row.phase}, u.status # "recovering", u.status \in Released => row.status \in Released
    PROVE  Base' /\ Machines'
<1>1. wrk[i] \in Workers /\ ~wrk[i].synced BY Zenon DEF Base, Copy
<1>2. Copy(wrk[i], u) BY Zenon, <1>1 DEF Copy
<1>3. count["lost"] = 0 => RowFits(u, power', image')
  <2>1. ASSUME count["lost"] = 0 PROVE RowFits(u, power, image)
    <3>1. RowFits(row, power, image) BY Zenon, <2>1 DEF Machines
    <3>2. (u.phase # "other" => row.phase # "other") /\ (u.status \in Released => power.target = "none")
      BY Zenon, <3>1 DEF RowFits
    <3> QED BY Zenon, <3>1, <3>2 DEF RowFits
  <2> QED BY Zenon, <2>1
<1> QED BY Zenon, <1>1, <1>2, <1>3, Rewrites

\* Pause, complete, forget and the start of a process.
LEMMA PauseStep ==
    ASSUME Base, Machines, LostKept, Shapes, NEW i \in Instances, Pause(i) PROVE Base' /\ Machines'
<1>1. conf' = conf /\ lock' = lock /\ power' = power /\ image' = image BY Zenon DEF Pause, engines
<1>2. CASE row' = row /\ wrk' = wrk BY Zenon, <1>1, <1>2, Stays
<1>3. CASE ~(wrk[i].pc # "none" \/ row.status = "running")
  <2> DEFINE n == IF row.status = "ready" THEN row.next ELSE "none"
             u == [row EXCEPT !.status = "interrupted", !.manual = TRUE, !.next = n]
  <2>1. Write(i, u, wrk[i]) BY Zenon, <1>3 DEF Pause
  <2>2. row \in Rows BY Zenon DEF Base
  <2>3. n \in Actions \cup {"none"} BY Zenon, <2>2 DEF Rows
  <2> HIDE DEF n
  <2>4. /\ u \in Rows /\ u.status = "interrupted" /\ u.pending = row.pending /\ u.active = row.active /\ u.phase = row.phase
        /\ u.requested = row.requested /\ u.started = row.started
    <3>1. "interrupted" \in Status BY DEF Status
    <3> QED BY Zenon, <2>2, <2>3, <3>1 DEF Rows
  <2>5. u.status # "recovering" /\ u.status \notin Released BY <2>4 DEF Released
  <2> HIDE DEF u
  <2> QED BY Zenon, <1>1, <1>3, <2>1, <2>4, <2>5, Marks
<1> QED BY Zenon, <1>2, <1>3 DEF Pause

\* The operator confirms the target.
LEMMA CompleteStep ==
    ASSUME Base, Machines, LostKept, Shapes, NEW i \in Instances, Complete(i) PROVE Base' /\ Machines'
<1> DEFINE u == [row EXCEPT !.status = "completed", !.phase = "other"]
<1>1. /\ conf' = conf /\ lock' = lock /\ power' = power /\ image' = image /\ wrk[i].pc = "none"
      /\ row.status = "awaiting_confirmation" /\ Write(i, u, wrk[i])
  BY Zenon DEF Complete, engines
<1>2. row \in Rows BY Zenon DEF Base
<1>3. /\ u \in Rows /\ u.status = "completed" /\ u.pending = row.pending /\ u.active = row.active /\ u.phase = "other"
      /\ u.requested = row.requested /\ u.started = row.started
  <2>1. "completed" \in Status /\ "other" \in Phases BY DEF Status, Phases
  <2> QED BY Zenon, <1>2, <2>1 DEF Rows
<1>4. u.status # "recovering" /\ u.status \notin Released /\ row.status # "running" BY <1>1, <1>3 DEF Released
<1> HIDE DEF u
<1> QED BY Zenon, <1>1, <1>3, <1>4, Marks

\* The operator removes the transfer from the history.
LEMMA ForgetStep ==
    ASSUME Base, Machines, LostKept, Shapes, NEW i \in Instances, Forget(i) PROVE Base' /\ Machines'
<1> DEFINE u == [row EXCEPT !.status = "forgotten"]
<1>1. /\ conf' = conf /\ lock' = lock /\ power' = power /\ image' = image /\ wrk[i].pc = "none"
      /\ row.status \in {"canceled", "rolled_back"} /\ Write(i, u, wrk[i])
  BY Zenon DEF Forget, engines
<1>2. row \in Rows BY Zenon DEF Base
<1>3. /\ u \in Rows /\ u.status = "forgotten" /\ u.pending = row.pending /\ u.active = row.active /\ u.phase = row.phase
      /\ u.requested = row.requested /\ u.started = row.started
  <2>1. "forgotten" \in Status BY DEF Status
  <2> QED BY Zenon, <1>2, <2>1 DEF Rows
<1>4. u.status # "recovering" /\ row.status \in Released /\ row.status # "running" BY <1>1, <1>3 DEF Released
<1> HIDE DEF u
<1> QED BY Zenon, <1>1, <1>3, <1>4, Marks

\* Recover at the start of a process.
LEMMA StartStep ==
    ASSUME Base, Machines, LostKept, Shapes, NEW i \in Instances, wrk[i].pc = "none", Start(i) PROVE Base' /\ Machines'
<1> DEFINE u == [row EXCEPT !.status = "interrupted"]
<1>1. conf' = conf /\ lock' = lock /\ power' = power /\ image' = image BY Zenon DEF Start, engines
<1>2. CASE row' = row /\ wrk' = wrk BY Zenon, <1>1, <1>2, Stays
<1>3. CASE lock = None /\ Write(i, u, wrk[i])
  <2>1. row \in Rows BY Zenon DEF Base
  <2>2. /\ u \in Rows /\ u.status = "interrupted" /\ u.pending = row.pending /\ u.active = row.active /\ u.phase = row.phase
        /\ u.requested = row.requested /\ u.started = row.started
    <3>1. "interrupted" \in Status BY DEF Status
    <3> QED BY Zenon, <2>1, <3>1 DEF Rows
  <2>3. u.status # "recovering" /\ u.status \notin Released BY <2>2 DEF Released
  <2> HIDE DEF u
  <2> QED BY Zenon, <1>1, <1>3, <2>2, <2>3, Marks
<1> QED BY Zenon, <1>2, <1>3 DEF Start

\* A process is gone with its worker.
LEMMA CrashStep ==
    ASSUME Base, Machines, LostKept, Shapes, NEW i \in Instances, Crash(i) PROVE Base' /\ Machines'
<1>1. /\ Return(i) /\ conf' = conf /\ power' = power /\ image' = image /\ row' = row /\ wrk' = [wrk EXCEPT ![i] = Idle]
  BY Zenon DEF Crash, Return, engines
<1>2. Base' BY Zenon, <1>1, BaseReturn
<1>3. Idle.pc = "none" BY Zenon, IdleWorker DEF Worker
<1>4. wrk'[i] = Idle /\ \A j \in Instances \ {i} : wrk'[j] = wrk[j] BY Zenon, <1>1 DEF Base
<1>5. \A j \in Instances : Active(j)' => Active(j) /\ wrk'[j] = wrk[j] BY Zenon, <1>3, <1>4 DEF Active
<1> QED BY Zenon, <1>1, <1>2, <1>5, MachinesSame

\* A session is lost: nothing more is claimed.
LEMMA LoseLockStep ==
    ASSUME Base, NEW i \in Instances, LoseLock(i), count'["lost"] # 0 PROVE Base' /\ Machines'
<1>1. row' = row /\ wrk' = wrk /\ lock' = None BY Zenon DEF LoseLock
<1> QED BY Zenon, <1>1 DEF Base, Locked, Machines

\* Steps of the machines: the row and the worker at work still fit.
LEMMA MachinesMove ==
    ASSUME Base, Machines, LostKept, conf' = conf, row' = row, lock' = lock, wrk' = wrk,
           RowFits(row, power, image) => RowFits(row, power', image'),
           \A j \in Instances : RowFits(row, power, image) /\ WorkerFits(wrk[j], row, power, image) => WorkerFits(wrk[j], row, power', image')
    PROVE  Base' /\ Machines'
<1>1. Base' BY Zenon DEF Base, Locked, Active, LostKept
<1>2. ASSUME count'["lost"] = 0
      PROVE  /\ RowFits(row, power, image)'
             /\ \A j \in Instances : Active(j)' => WorkerFits(wrk[j], row, power, image)'
  <2>1. count["lost"] = 0 BY Zenon, <1>2 DEF LostKept
  <2>2. RowFits(row', power', image') BY Zenon, <2>1 DEF Machines
  <2>3. RowFits(row, power, image)' BY Zenon, <2>2 DEF RowFits, Clean, Startable
  <2>4. ASSUME NEW j \in Instances, Active(j)' PROVE WorkerFits(wrk[j], row, power, image)'
    <3>1. WorkerFits(wrk'[j], row', power', image') BY Zenon, <2>1, <2>4 DEF Machines, Active
    <3> QED BY Zenon, <3>1 DEF WorkerFits, WorkFits, Clean, Startable
  <2> QED BY Zenon, <2>3, <2>4
<1> QED BY Zenon, <1>1, <1>2 DEF Machines

\* A source that is stopping, with disks that are not its last state, goes down or comes back.
LEMMA SourceMoves ==
    ASSUME NEW t, NEW p, NEW d, NEW q, p.source = "stopping", q.source \in {"up", "down"}, q.target = p.target,
           RowFits(t, p, d)
    PROVE  /\ RowFits(t, q, d)
           /\ \A w : WorkerFits(w, t, p, d) => WorkerFits(w, t, q, d)
<1>1. p.source # "down" /\ p.source # "up" OBVIOUS
<1>2. d.disks # "current" /\ (Startable(p, d) => p.target = "none") /\ (Clean(d) => ~t.requested \/ p.target = "none")
  BY Zenon, <1>1 DEF RowFits, Startable
<1>3. Startable(p, d) => Startable(q, d) BY Zenon, <1>2 DEF Startable
<1>4. RowFits(t, q, d) BY Zenon, <1>2, <1>3 DEF RowFits
<1>5. ASSUME NEW w, WorkerFits(w, t, p, d) PROVE WorkerFits(w, t, q, d)
  BY Zenon, <1>1, <1>3, <1>5 DEF WorkerFits, WorkFits
<1> QED BY Zenon, <1>4, <1>5

\* A target that runs changes its mind, or does not stay up.
LEMMA TargetMoves ==
    ASSUME NEW t, NEW p, NEW d, NEW q, p.target \in {"up", "stopping"}, q.target \in {"up", "stopping", "down"},
           q.source = p.source, RowFits(t, p, d)
    PROVE  /\ RowFits(t, q, d)
           /\ \A w : WorkerFits(w, t, p, d) => WorkerFits(w, t, q, d)
<1>1. p.target # "none" /\ q.target # "none" /\ p.target \notin {"down", "none"} OBVIOUS
<1>2. RowFits(t, q, d) BY Zenon, <1>1, FitsPowered
<1>3. Startable(p, d) => Startable(q, d) BY Zenon, <1>1 DEF Startable
<1>4. ASSUME NEW w, WorkerFits(w, t, p, d) PROVE WorkerFits(w, t, q, d)
  BY Zenon, <1>1, <1>3, <1>4 DEF WorkerFits, WorkFits
<1> QED BY Zenon, <1>2, <1>4

\* A machine that was asked to shut down does so, or does not; a target does not stay up.
LEMMA GoesDownStep ==
    ASSUME Base, Machines, LostKept, Shapes, NEW m \in {"source", "target"}, GoesDown(m) \/ Misbehaves(m) PROVE Base' /\ Machines'
<1>1. conf' = conf /\ row' = row /\ lock' = lock /\ wrk' = wrk /\ image' = image BY Zenon DEF GoesDown, Misbehaves
<1>2. CASE m = "source"
  <2>1. power.source = "stopping" /\ power'.source \in {"up", "down"} /\ power'.target = power.target
    BY <1>2 DEF GoesDown, Misbehaves, Shapes, Powers
  <2>2. RowFits(row, power, image) => RowFits(row, power', image') BY Zenon, <1>1, <2>1, SourceMoves
  <2>3. \A j \in Instances : RowFits(row, power, image) /\ WorkerFits(wrk[j], row, power, image) => WorkerFits(wrk[j], row, power', image')
    BY Zenon, <1>1, <2>1, SourceMoves
  <2> QED BY Zenon, <1>1, <2>2, <2>3, MachinesMove
<1>3. CASE m = "target"
  <2>1. power.target \in {"up", "stopping"} /\ power'.target \in {"up", "stopping", "down"} /\ power'.source = power.source
    BY <1>3 DEF GoesDown, Misbehaves, Shapes, Powers
  <2>2. RowFits(row, power, image) => RowFits(row, power', image') BY <1>1, <2>1, TargetMoves
  <2>3. \A j \in Instances : RowFits(row, power, image) /\ WorkerFits(wrk[j], row, power, image) => WorkerFits(wrk[j], row, power', image')
    BY <1>1, <2>1, TargetMoves
  <2> QED BY Zenon, <1>1, <2>2, <2>3, MachinesMove
<1> QED BY Zenon, <1>2, <1>3

\* Somebody starts the source by hand.
LEMMA SourceStartedStep ==
    ASSUME Base, Machines, LostKept, Shapes, SourceStarted PROVE Base' /\ Machines'
<1>1. /\ conf' = conf /\ row' = row /\ lock' = lock /\ ~row.requested
      /\ power' = [power EXCEPT !["source"] = "up"] /\ image' = Behind(row)
      /\ wrk' = [j \in Instances |-> [wrk[j] EXCEPT !.img = IF @ = "current" THEN "stale" ELSE @]]
  BY Zenon DEF SourceStarted
<1>2. ASSUME NEW j \in Instances
      PROVE  /\ wrk'[j] \in Workers /\ wrk'[j].pc = wrk[j].pc /\ wrk'[j].action = wrk[j].action /\ wrk'[j].t = wrk[j].t
             /\ wrk'[j].synced = wrk[j].synced /\ wrk'[j].img # "current"
  <2> DEFINE m == IF wrk[j].img = "current" THEN "stale" ELSE wrk[j].img
  <2>1. wrk[j] \in Workers BY Zenon DEF Base
  <2>2. wrk'[j] = [wrk[j] EXCEPT !.img = m] BY Zenon, <1>1
  <2>3. wrk[j].img \in Images BY Zenon, <2>1 DEF Workers
  <2>4. m \in Images /\ m # "current" BY <2>3 DEF Images
  <2> HIDE DEF m
  <2> QED BY Zenon, <2>1, <2>2, <2>4 DEF Workers
<1>3. wrk' \in [Instances -> Workers] BY Zenon, <1>1, <1>2
<1>4. ASSUME NEW j \in Instances PROVE Copy(wrk'[j], row')
  <2>1. Copy(wrk[j], row) BY Zenon DEF Base
  <2> QED BY Zenon, <1>1, <1>2, <2>1 DEF Copy
<1>5. Locked' BY Zenon, <1>1, <1>2 DEF Base, Locked, Active, LostKept
<1>6. Base' BY Zenon, <1>1, <1>3, <1>4, <1>5 DEF Base
<1>7. power'.source = "up" /\ power'.target = power.target BY Zenon, <1>1 DEF Shapes, Powers
<1>8. /\ image'.disks # "current" /\ (image.disks = "none" => image'.disks = "none")
      /\ image'.ran = image.ran /\ image'.mixed = image.mixed /\ (Clean(image') => Clean(image))
  BY Zenon, <1>1, BehindImage DEF Clean
<1>9. ASSUME count'["lost"] = 0
      PROVE  /\ RowFits(row, power, image)'
             /\ \A j \in Instances : Active(j)' => WorkerFits(wrk[j], row, power, image)'
  <2>1. count["lost"] = 0 BY Zenon, <1>9 DEF LostKept
  <2>2. RowFits(row, power, image) BY Zenon, <2>1 DEF Machines
  <2>3. RowFits(row, power', image') BY Zenon, <1>1, <1>7, <1>8, <2>2, FitsRunning
  <2>4. RowFits(row, power, image)' BY Zenon, <1>1, <2>3 DEF RowFits, Clean, Startable
  <2>5. ASSUME NEW j \in Instances, Active(j)' PROVE WorkerFits(wrk[j], row, power, image)'
    <3>1. Active(j) BY Zenon, <1>2, <2>5 DEF Active
    <3>2. WorkFits(wrk[j].pc, wrk[j].action, wrk[j].img, row, power, image) BY Zenon, <2>1, <3>1 DEF Machines, WorkerFits
    <3>3. power'.source \in {"up", "down"} /\ Startable(power', image') BY <1>7 DEF Startable
    <3>4. WorkFits(wrk[j].pc, wrk[j].action, wrk'[j].img, row, power', image')
      BY Zenon, <1>2, <1>7, <3>2, <3>3 DEF WorkFits
    <3>5. WorkerFits(wrk'[j], row', power', image') BY Zenon, <1>1, <1>2, <3>4 DEF WorkerFits
    <3> QED BY Zenon, <1>1, <3>5 DEF WorkerFits, WorkFits, Clean, Startable
  <2> QED BY Zenon, <2>4, <2>5
<1> QED BY Zenon, <1>6, <1>9 DEF Machines

-----------------------------------------------------------------------------
(* The steps together. *)

\* A process that is not there has no worker.
Gone == \A i \in Instances : proc[i] \in {"down", "off"} => wrk[i].pc = "none"

\* Nothing is counted back: at most one counter goes up.
CountStep == count' = count \/ \E k \in Counters : Once(k)

\* A worker returns, goes on without a write, or writes the row that its copy still is.
Shape(i) == \/ Return(i) \/ \E pc : Jump(i, pc)
            \/ wrk[i].synced /\ \E u, y : Write(i, u, y)

\* What a step of a worker leaves alone.
WorkFrame(i) == wrk[i].pc # "none" /\ conf' = conf /\ proc' = proc /\ tick' = tick /\ pause' = pause

\* The parts of the workers' steps have that shape.
LEMMA Shaped ==
    ASSUME NEW i \in Instances PROVE
    /\ \A u, pc : Save(i, u, pc) => Shape(i)
    /\ \A u : Finish(i, u) => Shape(i)
    /\ \A u, r : Fail(i, u, r) => Shape(i)
    /\ Breaks(i) => Shape(i) /\ CountStep
    /\ \A r : Refused(i, r) => Shape(i) /\ count' = count
    /\ \A u, pc : Goes(i, u, pc) => Shape(i) /\ CountStep
    /\ \A pc : Jump(i, pc) => Shape(i) /\ count' = count
    /\ Return(i) => Shape(i)
<1>1. \A u, pc : Save(i, u, pc) => Shape(i) BY Zenon DEF Save, Shape
<1>2. \A u : Finish(i, u) => Shape(i) BY Zenon DEF Finish, Shape
<1>3. \A u, r : Fail(i, u, r) => Shape(i) BY Zenon DEF Fail, Shape
<1>4. "fault" \in Counters BY Zenon DEF Counters
<1>5. Breaks(i) => Shape(i) /\ CountStep BY Zenon, <1>3, <1>4 DEF Breaks, CountStep
<1>6. \A r : Refused(i, r) => Shape(i) /\ count' = count BY Zenon, <1>3 DEF Refused
<1>7. \A u, pc : Goes(i, u, pc) => Shape(i) /\ CountStep BY Zenon, <1>1, <1>5 DEF Goes, CountStep
<1>8. \A pc : Jump(i, pc) => Shape(i) /\ count' = count BY Zenon DEF Jump, Shape
<1> QED BY Zenon, <1>1, <1>2, <1>3, <1>5, <1>6, <1>7, <1>8 DEF Shape

\* Every step of a worker: its shape, what it counts and what it leaves alone.
LEMMA WorkShape ==
    ASSUME NEW i \in Instances, Work(i) PROVE Shape(i) /\ CountStep /\ WorkFrame(i)
<1>1. ASSUME NEW p, At(i, p), p # "none" PROVE WorkFrame(i) BY Zenon, <1>1 DEF At, WorkFrame
<1>2. count' = count => CountStep BY Zenon DEF CountStep
<1>3. CASE Admit(i) BY Zenon, <1>2, <1>3 DEF Admit, Shape, WorkFrame
<1>4. CASE NotAdmitted(i) BY Zenon, <1>2, <1>4, Shaped DEF NotAdmitted, WorkFrame
<1>5. CASE BrokenOff(i) BY Zenon, <1>5, Shaped DEF BrokenOff, WorkFrame
<1>6. CASE Plan(i) BY Zenon, <1>1, <1>2, <1>6, Shaped DEF Plan
<1>7. CASE FullBackup(i) BY Zenon, <1>1, <1>2, <1>7, Shaped DEF FullBackup, Shape
<1>8. CASE CreateTarget(i) BY Zenon, <1>1, <1>2, <1>8, Shaped DEF CreateTarget
<1>9. CASE TargetCreated(i) BY Zenon, <1>1, <1>2, <1>9, Shaped DEF TargetCreated
<1>10. CASE FillTarget(i) BY Zenon, <1>1, <1>2, <1>10, Shaped DEF FillTarget
<1>11. CASE StopSource(i) BY Zenon, <1>1, <1>2, <1>11, Shaped DEF StopSource
<1>12. CASE ShutdownSource(i) BY Zenon, <1>1, <1>2, <1>12, Shaped DEF ShutdownSource
<1>13. CASE SourceStopped(i) BY Zenon, <1>1, <1>2, <1>13, Shaped DEF SourceStopped
<1>14. CASE SourceDoesNotStop(i) BY Zenon, <1>1, <1>2, <1>14, Shaped DEF SourceDoesNotStop
<1>15. CASE Synchronize(i) BY Zenon, <1>1, <1>2, <1>15, Shaped DEF Synchronize, Shape
<1>16. CASE ApplyDelta(i) BY Zenon, <1>1, <1>2, <1>16, Shaped DEF ApplyDelta
<1>17. CASE StartTarget(i) BY Zenon, <1>1, <1>2, <1>17, Shaped DEF StartTarget
<1>18. CASE CheckSource(i) BY Zenon, <1>1, <1>2, <1>18, Shaped DEF CheckSource
<1>19. CASE RequestStart(i) BY Zenon, <1>1, <1>2, <1>19, Shaped DEF RequestStart
<1>20. CASE AwaitConfirmation(i) BY Zenon, <1>1, <1>2, <1>20, Shaped DEF AwaitConfirmation
<1>21. CASE RecoverTarget(i) BY Zenon, <1>1, <1>2, <1>21, Shaped DEF RecoverTarget
<1>22. CASE Undo(i) BY Zenon, <1>1, <1>2, <1>22, Shaped DEF Undo
<1>23. CASE FindTarget(i) BY Zenon, <1>1, <1>2, <1>23, Shaped DEF FindTarget
<1>24. CASE TargetHalted(i) BY Zenon, <1>1, <1>2, <1>24, Shaped DEF TargetHalted
<1>25. CASE TargetDoesNotHalt(i) BY Zenon, <1>1, <1>2, <1>25, Shaped DEF TargetDoesNotHalt
<1>26. CASE DeleteTarget(i) BY Zenon, <1>1, <1>2, <1>26, Shaped DEF DeleteTarget
<1>27. CASE RestoreSource(i) BY Zenon, <1>1, <1>2, <1>27, Shaped DEF RestoreSource
<1>28. CASE Held(i) BY Zenon, <1>1, <1>2, <1>28, Shaped DEF Held
<1>29. CASE Undone(i) BY Zenon, <1>1, <1>2, <1>29, Shaped DEF Undone
<1> QED BY Zenon, <1>3, <1>4, <1>5, <1>6, <1>7, <1>8, <1>9, <1>10, <1>11, <1>12, <1>13, <1>14, <1>15, <1>16, <1>17, <1>18, <1>19, <1>20, <1>21, <1>22, <1>23, <1>24, <1>25, <1>26, <1>27, <1>28, <1>29 DEF Work

-----------------------------------------------------------------------------
(* What a step does to the machines. *)

DiskStates == {"none", "partial", "stale", "current"}

\* One machine moves; the disks are written; the target is deleted, while it is off
\* unless a session was lost; the target starts; the source starts again.
EngineStep ==
    \/ UNCHANGED engines
    \/ /\ \E m \in {"source", "target"}, s \in {"up", "stopping", "down"} : power' = [power EXCEPT ![m] = s]
       /\ image' = image
    \/ power' = power /\ \E k \in DiskStates : image' = [image EXCEPT !.disks = k] \/ image' = Applied(k)
    \/ NoTarget /\ (count["lost"] = 0 => ~On("target"))
    \/ /\ power' = [power EXCEPT !["target"] = "up"] /\ image' = [image EXCEPT !.ran = TRUE]
    \/ /\ power["source"] = "down" /\ power' = [power EXCEPT !["source"] = "up"]
       /\ \E t \in Rows : image' = Behind(t)

\* Each kind by itself.
LEMMA EngineSteps ==
    /\ UNCHANGED engines => EngineStep
    /\ UNCHANGED <<power, image>> => EngineStep
    /\ \A m \in {"source", "target"}, s \in {"up", "stopping", "down"} :
          power' = [power EXCEPT ![m] = s] /\ UNCHANGED image => EngineStep
    /\ \A k \in DiskStates : UNCHANGED power /\ image' = [image EXCEPT !.disks = k] => EngineStep
    /\ \A k \in DiskStates : UNCHANGED power /\ image' = Applied(k) => EngineStep
    /\ NoTarget /\ (count["lost"] = 0 => ~On("target")) => EngineStep
    /\ power' = [power EXCEPT !["target"] = "up"] /\ image' = [image EXCEPT !.ran = TRUE] => EngineStep
    /\ \A t \in Rows : power["source"] = "down" /\ power' = [power EXCEPT !["source"] = "up"] /\ image' = Behind(t)
          => EngineStep
BY Zenon DEF EngineStep, engines

\* What a worker does to the machines.
LEMMA WorkMoves ==
    ASSUME Base, Machines, NEW i \in Instances, Work(i) PROVE EngineStep
<1>1. \A r : Refused(i, r) => UNCHANGED engines BY Zenon DEF Refused, engines
<1>2. wrk[i].img \in DiskStates /\ wrk[i].t \in Rows /\ "partial" \in DiskStates
  <2>1. wrk[i] \in Workers BY Zenon DEF Base
  <2>2. Images \subseteq DiskStates BY DEF Images, DiskStates
  <2> QED BY Zenon, <2>1, <2>2 DEF Workers, DiskStates
<1>3. wrk[i].pc = "fill" /\ count["lost"] = 0 => ~On("target")
  <2>1. SUFFICES ASSUME wrk[i].pc = "fill", count["lost"] = 0 PROVE ~On("target") OBVIOUS
  <2>2. RowFits(row, power, image) /\ WorkerFits(wrk[i], row, power, image) BY Zenon, <2>1 DEF Machines, Active
  <2>3. ~row.requested BY Zenon, <2>1, <2>2 DEF WorkerFits, WorkFits, Early
  <2> QED BY Zenon, <2>2, <2>3 DEF RowFits, On
<1>4. CASE Admit(i) BY Zenon, <1>4, EngineSteps DEF Admit
<1>5. CASE NotAdmitted(i) BY Zenon, <1>5, EngineSteps DEF NotAdmitted
<1>6. CASE BrokenOff(i) BY Zenon, <1>6, EngineSteps DEF BrokenOff
<1>7. CASE Plan(i) BY Zenon, <1>1, <1>7, EngineSteps DEF Plan, engines
<1>8. CASE FullBackup(i) BY Zenon, <1>1, <1>8, EngineSteps DEF FullBackup, engines
<1>9. CASE CreateTarget(i) BY Zenon, <1>1, <1>2, <1>3, <1>9, EngineSteps DEF CreateTarget
<1>10. CASE TargetCreated(i) BY Zenon, <1>1, <1>10, EngineSteps DEF TargetCreated, engines
<1>11. CASE FillTarget(i) BY Zenon, <1>1, <1>2, <1>3, <1>11, EngineSteps DEF FillTarget, At
<1>12. CASE StopSource(i) BY Zenon, <1>1, <1>12, EngineSteps DEF StopSource, engines
<1>13. CASE ShutdownSource(i) BY Zenon, <1>1, <1>2, <1>3, <1>13, EngineSteps DEF ShutdownSource
<1>14. CASE SourceStopped(i) BY Zenon, <1>1, <1>14, EngineSteps DEF SourceStopped, engines
<1>15. CASE SourceDoesNotStop(i) BY Zenon, <1>1, <1>2, <1>3, <1>15, EngineSteps DEF SourceDoesNotStop
<1>16. CASE Synchronize(i) BY Zenon, <1>1, <1>16, EngineSteps DEF Synchronize, engines
<1>17. CASE ApplyDelta(i) BY Zenon, <1>1, <1>2, <1>3, <1>17, EngineSteps DEF ApplyDelta
<1>18. CASE StartTarget(i) BY Zenon, <1>1, <1>18, EngineSteps DEF StartTarget, engines
<1>19. CASE CheckSource(i) BY Zenon, <1>1, <1>19, EngineSteps DEF CheckSource, engines
<1>20. CASE RequestStart(i) BY Zenon, <1>1, <1>2, <1>3, <1>20, EngineSteps DEF RequestStart
<1>21. CASE AwaitConfirmation(i) BY Zenon, <1>1, <1>21, EngineSteps DEF AwaitConfirmation, engines
<1>22. CASE RecoverTarget(i) BY Zenon, <1>1, <1>22, EngineSteps DEF RecoverTarget, engines
<1>23. CASE Undo(i) BY Zenon, <1>1, <1>23, EngineSteps DEF Undo, engines
<1>24. CASE FindTarget(i) BY Zenon, <1>1, <1>2, <1>3, <1>24, EngineSteps DEF FindTarget
<1>25. CASE TargetHalted(i) BY Zenon, <1>1, <1>25, EngineSteps DEF TargetHalted, engines
<1>26. CASE TargetDoesNotHalt(i) BY Zenon, <1>1, <1>2, <1>3, <1>26, EngineSteps DEF TargetDoesNotHalt
<1>27. CASE DeleteTarget(i) BY Zenon, <1>1, <1>2, <1>3, <1>27, EngineSteps DEF DeleteTarget, On
<1>28. CASE RestoreSource(i) BY Zenon, <1>1, <1>2, <1>3, <1>28, EngineSteps DEF RestoreSource
<1>29. CASE Held(i) BY Zenon, <1>1, <1>29, EngineSteps DEF Held, engines
<1>30. CASE Undone(i) BY Zenon, <1>1, <1>30, EngineSteps DEF Undone, engines
<1> QED BY Zenon, <1>4, <1>5, <1>6, <1>7, <1>8, <1>9, <1>10, <1>11, <1>12, <1>13, <1>14, <1>15, <1>16, <1>17, <1>18, <1>19, <1>20, <1>21, <1>22, <1>23, <1>24, <1>25, <1>26, <1>27, <1>28, <1>29, <1>30 DEF Work

-----------------------------------------------------------------------------
(* What surrounds the row. *)

\* The settings stay, the rest keeps its type.
Around ==
    /\ conf' = conf /\ pause' \in BOOLEAN /\ tick' \in [Instances -> BOOLEAN]
    /\ proc' \in [Instances -> {"up", "closing", "down", "off"}]

\* A goroutine that starts.
LEMMA StartAround ==
    ASSUME Shapes, NEW i \in Instances, NEW u, NEW a, StartLocked(i, u, a)
    PROVE  /\ conf' = conf /\ pause' \in BOOLEAN /\ proc' = proc /\ EngineStep /\ proc[i] = "up"
           /\ \E t, y : Write(i, t, y)
<1>1. UNCHANGED engines BY Zenon DEF StartLocked, engines
<1> QED BY Zenon, <1>1, EngineSteps DEF StartLocked

\* Every step keeps those types, counts at most one event, and moves the machines in
\* one of the known ways.
LEMMA AroundStep ==
    ASSUME Base, Machines, Shapes, Next PROVE Around /\ CountStep /\ EngineStep
<1> DEFINE Good == Around /\ CountStep /\ EngineStep
<1>1. /\ count' = count => CountStep
      /\ \A k \in Counters : Once(k) => CountStep
  BY Zenon DEF CountStep
<1>3. Once("op") \/ Once("fault") \/ Once("crash") \/ Once("lost") \/ Once("hand") \/ Once("taken") => CountStep
  BY Zenon, <1>1 DEF Counters
<1>4. conf' = conf /\ pause' = pause /\ tick' = tick /\ proc' = proc => Around BY Zenon DEF Around, Shapes
<1>5. conf' = conf /\ pause' \in BOOLEAN /\ tick' = tick /\ proc' = proc => Around BY Zenon DEF Around, Shapes
<1>6. pause \in BOOLEAN /\ TRUE \in BOOLEAN /\ FALSE \in BOOLEAN /\ tick \in [Instances -> BOOLEAN]
      /\ proc \in [Instances -> {"up", "closing", "down", "off"}]
  BY Zenon DEF Shapes
<1>7. ASSUME NEW i \in Instances PROVE [tick EXCEPT ![i] = TRUE] \in [Instances -> BOOLEAN]
                                     /\ [tick EXCEPT ![i] = FALSE] \in [Instances -> BOOLEAN]
  BY Zenon, <1>6
<1>8. ASSUME NEW i \in Instances, NEW s \in {"up", "closing", "down", "off"}
      PROVE  [proc EXCEPT ![i] = s] \in [Instances -> {"up", "closing", "down", "off"}]
  BY Zenon, <1>6
<1>9. ASSUME NEW i \in Instances, Work(i) PROVE Good
  BY Zenon, <1>4, <1>9, WorkShape, WorkMoves DEF WorkFrame
<1>10. ASSUME NEW i \in Instances, NEW call \in Calls, Operate(i, call) PROVE Good
  BY Zenon, <1>3, <1>5, <1>10, StartAround DEF Operate, Act
<1>11. ASSUME NEW i \in Instances, Pause(i) PROVE Good
  <2>1. pause' \in BOOLEAN BY Zenon, <1>6, <1>11 DEF Pause
  <2> QED BY Zenon, <1>3, <1>5, <1>11, <2>1, EngineSteps DEF Pause
<1>12. ASSUME NEW i \in Instances, Complete(i) PROVE Good
  BY Zenon, <1>3, <1>5, <1>6, <1>12, EngineSteps DEF Complete
<1>13. ASSUME NEW i \in Instances, Forget(i) PROVE Good
  BY Zenon, <1>3, <1>4, <1>13, EngineSteps DEF Forget
<1>14. ASSUME NEW i \in Instances, Tick(i) PROVE Good
  BY Zenon, <1>1, <1>6, <1>7, <1>14, EngineSteps DEF Tick, Around
<1>15. ASSUME NEW i \in Instances, TickSync(i) PROVE Good
  <2>1. count' = count /\ tick' \in [Instances -> BOOLEAN] BY Zenon, <1>7, <1>15 DEF TickSync
  <2>2. CASE Act(i, "sync") BY Zenon, <1>1, <1>6, <2>1, <2>2, StartAround DEF Act, Around
  <2>3. CASE UNCHANGED <<conf, row, pause, lock, wrk, proc, engines>>
    BY Zenon, <1>1, <1>6, <2>1, <2>3, EngineSteps DEF Around
  <2> QED BY Zenon, <1>15, <2>2, <2>3 DEF TickSync
<1>16. ASSUME NEW i \in Instances, Reschedule(i) PROVE Good
  <2>1. CountStep BY Zenon, <1>1, <1>3, <1>16 DEF Reschedule
  <2> QED BY Zenon, <1>4, <1>16, <2>1, EngineSteps DEF Reschedule
<1>17. ASSUME NEW i \in Instances, Attempt(i) PROVE Good
  BY Zenon, <1>1, <1>5, <1>17, StartAround DEF Attempt
<1>18. ASSUME NEW i \in Instances, Close(i) PROVE Good
  BY Zenon, <1>3, <1>6, <1>7, <1>8, <1>18, EngineSteps DEF Close, Around
<1>19. ASSUME NEW i \in Instances, Closed(i) PROVE Good
  BY Zenon, <1>1, <1>6, <1>8, <1>19, EngineSteps DEF Closed, Around
<1>20. ASSUME NEW i \in Instances, Crash(i) PROVE Good
  BY Zenon, <1>3, <1>6, <1>7, <1>8, <1>20, EngineSteps DEF Crash, Around
<1>21. ASSUME NEW i \in Instances, Start(i) PROVE Good
  BY Zenon, <1>1, <1>6, <1>8, <1>21, EngineSteps DEF Start, Around
<1>22. ASSUME NEW i \in Instances, LoseLock(i) PROVE Good
  BY Zenon, <1>3, <1>4, <1>22, EngineSteps DEF LoseLock
<1>23. CASE SourceStarted
  <2>1. row \in Rows BY Zenon DEF Base
  <2> QED BY Zenon, <1>3, <1>4, <1>23, <2>1, EngineSteps DEF SourceStarted
<1>24. ASSUME NEW m \in {"source", "target"}, GoesDown(m) PROVE Good
  <2>1. EngineStep BY Zenon, <1>24, EngineSteps DEF GoesDown
  <2> QED BY Zenon, <1>1, <1>4, <1>24, <2>1 DEF GoesDown
<1>25. ASSUME NEW m \in {"source", "target"}, Misbehaves(m) PROVE Good
  <2>1. EngineStep BY Zenon, <1>25, EngineSteps DEF Misbehaves
  <2> QED BY Zenon, <1>3, <1>4, <1>25, <2>1 DEF Misbehaves
<1> QED BY Zenon, <1>9, <1>10, <1>11, <1>12, <1>13, <1>14, <1>15, <1>16, <1>17, <1>18, <1>19, <1>20, <1>21,
           <1>22, <1>23, <1>24, <1>25 DEF Next

\* Counters never go down.
LEMMA CountGrows ==
    ASSUME Shapes, CountStep
    PROVE  /\ count' \in [Counters -> Nat] /\ LostKept
           /\ \A k \in Counters : count'[k] >= count[k]
<1>1. count \in [Counters -> Nat] /\ "lost" \in Counters BY Zenon DEF Shapes, Counters
<1>2. CASE count' = count BY <1>1, <1>2 DEF LostKept
<1>3. ASSUME NEW k \in Counters, Once(k)
      PROVE  count' \in [Counters -> Nat] /\ \A n \in Counters : count'[n] >= count[n]
  <2>1. count' = [count EXCEPT ![k] = count[k] + 1] BY Zenon, <1>3 DEF Once
  <2> QED BY <1>1, <2>1
<1>4. ASSUME count' \in [Counters -> Nat] /\ \A n \in Counters : count'[n] >= count[n] PROVE LostKept
  BY <1>1, <1>4 DEF LostKept
<1> QED BY Zenon, <1>2, <1>3, <1>4 DEF CountStep

\* An event that is counted.
LEMMA Counted ==
    ASSUME Shapes, NEW k \in Counters, Once(k) PROVE count'[k] = count[k] + 1 /\ count'[k] # 0 /\ count'[k] > count[k]
<1>1. count \in [Counters -> Nat] BY Zenon DEF Shapes
<1>2. count' = [count EXCEPT ![k] = count[k] + 1] BY Zenon DEF Once
<1> QED BY <1>1, <1>2

\* The machines keep their types; what went its own way stays so; one machine moves at
\* a time, and the disks change with it only when the source starts or the target goes.
LEMMA EngineFacts ==
    ASSUME Shapes, EngineStep
    PROVE  /\ power' \in Powers /\ image' \in Disks
           /\ (image.mixed => image'.mixed) /\ (image.forked => image'.forked)
           /\ power'.source = power.source \/ power'.target = power.target
           /\ power'.source # power.source => image'.disks = image.disks \/ power'.source = "up"
           /\ power'.target # power.target =>
                 \/ image'.disks = image.disks
                 \/ power'.target = "none" /\ (count["lost"] = 0 => power.target \notin {"up", "stopping"})
<1> DEFINE Facts(p, d) ==
        /\ p \in Powers /\ d \in Disks
        /\ (image.mixed => d.mixed) /\ (image.forked => d.forked)
        /\ p.source = power.source \/ p.target = power.target
        /\ p.source # power.source => d.disks = image.disks \/ p.source = "up"
        /\ p.target # power.target =>
              \/ d.disks = image.disks
              \/ p.target = "none" /\ (count["lost"] = 0 => power.target \notin {"up", "stopping"})
<1>1. power \in Powers /\ image \in Disks BY Zenon DEF Shapes
<1>2. CASE UNCHANGED engines BY Zenon, <1>1, <1>2 DEF engines
<1>3. ASSUME NEW s \in {"up", "stopping", "down"}, power' = [power EXCEPT !["source"] = s], image' = image
      PROVE  Facts(power', image')
  <2>1. power' \in Powers /\ power'.target = power.target BY Zenon, <1>1, <1>3 DEF Powers
  <2> QED BY Zenon, <1>1, <1>3, <2>1
<1>4. ASSUME NEW s \in {"up", "stopping", "down"}, power' = [power EXCEPT !["target"] = s], image' = image
      PROVE  Facts(power', image')
  <2>1. s \in {"up", "stopping", "down", "none"} OBVIOUS
  <2>2. power' \in Powers /\ power'.source = power.source BY Zenon, <1>1, <1>4, <2>1 DEF Powers
  <2> QED BY Zenon, <1>1, <1>4, <2>2
<1>5. ASSUME NEW k \in DiskStates, power' = power, image' = [image EXCEPT !.disks = k] PROVE Facts(power', image')
  <2>1. image' \in Disks /\ image'.mixed = image.mixed /\ image'.forked = image.forked
    BY Zenon, <1>1, <1>5 DEF Disks, DiskStates
  <2> QED BY Zenon, <1>1, <1>5, <2>1
<1>6. ASSUME NEW k \in DiskStates, power' = power, image' = Applied(k) PROVE Facts(power', image')
  <2> DEFINE m == IF image.ran THEN "partial" ELSE k
             b == image.mixed \/ image.ran
  <2>1. m \in DiskStates /\ b \in BOOLEAN BY Zenon DEF DiskStates
  <2>2. image' = [image EXCEPT !.disks = m, !.mixed = b] BY Zenon, <1>6 DEF Applied
  <2> HIDE DEF m
  <2>3. image' \in Disks /\ image'.mixed = b /\ image'.forked = image.forked
    BY Zenon, <1>1, <2>1, <2>2 DEF Disks, DiskStates
  <2> QED BY Zenon, <1>1, <1>6, <2>3
<1>7. ASSUME NoTarget, count["lost"] = 0 => ~On("target") PROVE Facts(power', image')
  <2>1. power' \in Powers /\ power'.source = power.source /\ power'.target = "none" BY Zenon, <1>1, <1>7 DEF Powers, NoTarget
  <2>2. image' \in Disks /\ image'.mixed = image.mixed /\ image'.forked = image.forked BY Zenon, <1>1, <1>7 DEF Disks, NoTarget
  <2> QED BY Zenon, <1>7, <2>1, <2>2 DEF On
<1>8. ASSUME power' = [power EXCEPT !["target"] = "up"], image' = [image EXCEPT !.ran = TRUE] PROVE Facts(power', image')
  <2>1. power' \in Powers /\ power'.source = power.source BY Zenon, <1>1, <1>8 DEF Powers
  <2>2. image' \in Disks /\ image'.mixed = image.mixed /\ image'.forked = image.forked /\ image'.disks = image.disks
    BY Zenon, <1>1, <1>8 DEF Disks
  <2> QED BY Zenon, <2>1, <2>2
<1>9. ASSUME power' = [power EXCEPT !["source"] = "up"], NEW t \in Rows, image' = Behind(t) PROVE Facts(power', image')
  <2> DEFINE m == IF image.disks = "current" THEN "stale" ELSE image.disks
             b == image.forked \/ (power["target"] # "none" /\ (image.ran \/ t.requested))
  <2>1. m \in {"none", "partial", "stale", "current"} /\ b \in BOOLEAN BY Zenon, <1>1 DEF Disks
  <2>2. image' = [image EXCEPT !.disks = m, !.forked = b] BY Zenon, <1>9 DEF Behind
  <2> HIDE DEF m
  <2>3. image' \in Disks /\ image'.mixed = image.mixed /\ image'.forked = b
    BY Zenon, <1>1, <2>1, <2>2 DEF Disks
  <2>4. power' \in Powers /\ power'.target = power.target /\ power'.source = "up" BY Zenon, <1>1, <1>9 DEF Powers
  <2> QED BY Zenon, <2>3, <2>4
<1>10. Facts(power', image')
  <2>1. ASSUME NEW m \in {"source", "target"}, NEW s \in {"up", "stopping", "down"}, power' = [power EXCEPT ![m] = s], image' = image
        PROVE  Facts(power', image')
    <3>1. CASE m = "source" BY Zenon, <1>3, <2>1, <3>1
    <3>2. CASE m = "target" BY Zenon, <1>4, <2>1, <3>2
    <3> QED BY Zenon, <3>1, <3>2
  <2>2. Facts(power, image) BY Zenon, <1>1
  <2> HIDE DEF Facts
  <2>3. CASE UNCHANGED engines BY Zenon, <2>2, <2>3 DEF engines
  <2> QED BY Zenon, <1>5, <1>6, <1>7, <1>8, <1>9, <2>1, <2>3 DEF EngineStep
<1> QED BY Zenon, <1>10

\* A write of the row by a process that is there.
LEMMA GoneWrite ==
    ASSUME Base, Gone, NEW i \in Instances, NEW u, NEW y, Write(i, u, y), proc' = proc,
           proc[i] \notin {"down", "off"} \/ y.pc = "none" \/ y = wrk[i]
    PROVE  Gone'
<1>1. ASSUME NEW j \in Instances, j # i PROVE wrk'[j].pc = wrk[j].pc
  <2>1. wrk'[j] = [wrk[j] EXCEPT !.synced = FALSE] BY Zenon, <1>1 DEF Write
  <2>2. wrk[j] \in Workers BY Zenon DEF Base
  <2> QED BY Zenon, <2>1, <2>2 DEF Workers
<1>2. wrk'[i] = y BY Zenon DEF Write
<1> QED BY Zenon, <1>1, <1>2 DEF Gone

\* A process that is not there gets no worker.
LEMMA GoneStep ==
    ASSUME Base, Gone, Shapes, Next PROVE Gone'
<1>1. Idle.pc = "none" BY Zenon, IdleWorker DEF Worker
<1>2. wrk' = wrk /\ proc' = proc => Gone' BY Zenon DEF Gone
<1>3. ASSUME NEW i \in Instances, NEW u, NEW a, StartLocked(i, u, a) PROVE Gone'
  <2>1. proc[i] \notin {"down", "off"} BY <1>3 DEF StartLocked
  <2> QED BY Zenon, <1>3, <2>1, StartAround, GoneWrite
<1>4. ASSUME NEW i \in Instances, Work(i) PROVE Gone'
  <2>1. Shape(i) /\ proc' = proc /\ wrk[i].pc # "none" BY Zenon, <1>4, WorkShape DEF WorkFrame
  <2>2. proc[i] \notin {"down", "off"} BY Zenon, <2>1 DEF Gone
  <2>3. wrk \in [Instances -> Workers] BY Zenon DEF Base
  <2>4. CASE Return(i) BY Zenon, <1>1, <2>1, <2>2, <2>3, <2>4 DEF Return, Gone
  <2>5. ASSUME NEW pc, Jump(i, pc) PROVE Gone'
    <3>1. \A j \in Instances \ {i} : wrk'[j] = wrk[j] BY Zenon, <2>3, <2>5 DEF Jump
    <3> QED BY Zenon, <2>1, <2>2, <3>1 DEF Gone
  <2>6. ASSUME NEW u, NEW y, Write(i, u, y) PROVE Gone' BY Zenon, <2>1, <2>2, <2>6, GoneWrite
  <2> QED BY Zenon, <2>1, <2>4, <2>5, <2>6 DEF Shape
<1>5. ASSUME NEW i \in Instances, NEW call \in Calls, Operate(i, call) PROVE Gone' BY Zenon, <1>3, <1>5 DEF Operate, Act
<1>6. ASSUME NEW i \in Instances, Pause(i) PROVE Gone' BY Zenon, <1>2, <1>6, GoneWrite DEF Pause
<1>7. ASSUME NEW i \in Instances, Complete(i) \/ Forget(i) PROVE Gone' BY Zenon, <1>7, GoneWrite DEF Complete, Forget
<1>8. ASSUME NEW i \in Instances, Tick(i) PROVE Gone' BY Zenon, <1>2, <1>8 DEF Tick
<1>9. ASSUME NEW i \in Instances, TickSync(i) PROVE Gone' BY Zenon, <1>2, <1>3, <1>9 DEF TickSync, Act
<1>10. ASSUME NEW i \in Instances, Reschedule(i) PROVE Gone' BY Zenon, <1>1, <1>10, GoneWrite DEF Reschedule
<1>11. ASSUME NEW i \in Instances, Attempt(i) PROVE Gone' BY Zenon, <1>3, <1>11 DEF Attempt
<1>12. proc \in [Instances -> {"up", "closing", "down", "off"}] /\ wrk \in [Instances -> Workers] BY Zenon DEF Shapes, Base
<1>13. ASSUME NEW i \in Instances, Close(i) PROVE Gone' BY Zenon, <1>12, <1>13 DEF Close, Gone
<1>14. ASSUME NEW i \in Instances, Closed(i) PROVE Gone' BY Zenon, <1>12, <1>14 DEF Closed, Gone
<1>15. ASSUME NEW i \in Instances, Crash(i) PROVE Gone' BY Zenon, <1>1, <1>12, <1>15 DEF Crash, Gone
<1>16. ASSUME NEW i \in Instances, Start(i) PROVE Gone'
  <2>1. \A j \in Instances : proc'[j] \in {"down", "off"} => proc[j] \in {"down", "off"} BY <1>12, <1>16 DEF Start
  <2>2. \A j \in Instances : wrk'[j].pc = wrk[j].pc
    <3>1. ASSUME NEW j \in Instances, NEW u, Write(i, u, wrk[i]) PROVE wrk'[j].pc = wrk[j].pc
      <4>1. wrk[j] \in Workers BY Zenon, <1>12
      <4>2. wrk'[j] = wrk[j] \/ wrk'[j] = [wrk[j] EXCEPT !.synced = FALSE] BY Zenon, <3>1 DEF Write
      <4> QED BY Zenon, <4>1, <4>2 DEF Workers
    <3> QED BY Zenon, <1>16, <3>1 DEF Start
  <2> QED BY Zenon, <2>1, <2>2 DEF Gone
<1>17. ASSUME NEW i \in Instances, LoseLock(i) PROVE Gone' BY Zenon, <1>2, <1>17 DEF LoseLock
<1>18. CASE SourceStarted
  <2>1. ASSUME NEW j \in Instances PROVE wrk'[j].pc = wrk[j].pc
    <3>1. wrk[j] \in Workers BY Zenon, <1>12
    <3> QED BY Zenon, <1>18, <3>1 DEF SourceStarted, Workers
  <2> QED BY Zenon, <1>18, <2>1 DEF SourceStarted, Gone
<1>19. ASSUME NEW m \in {"source", "target"}, GoesDown(m) \/ Misbehaves(m) PROVE Gone'
  BY Zenon, <1>2, <1>19 DEF GoesDown, Misbehaves
<1> QED BY Zenon, <1>4, <1>5, <1>6, <1>7, <1>8, <1>9, <1>10, <1>11, <1>13, <1>14, <1>15, <1>16, <1>17, <1>18, <1>19 DEF Next

-----------------------------------------------------------------------------
(* The inductive invariant. *)

Inv == Shapes /\ Base /\ Machines /\ Gone

\* The row of Create and the worker that waits with it.
LEMMA NewRows ==
    ASSUME NEW b \in BOOLEAN
    PROVE  /\ NewRow(b) \in Rows /\ NewRow(b).status = "queued" /\ NewRow(b).pending = "prepare" /\ NewRow(b).active = "prepare"
           /\ NewRow(b).phase = "other" /\ ~NewRow(b).requested /\ ~NewRow(b).started
           /\ NewRow(b).tries = 0 /\ NewRow(b).rollbacks = 0
           /\ Worker(Waiting("prepare", NewRow(b)), "wait", "prepare", "none", TRUE, NewRow(b))
<1>1. /\ NewRow(b) \in Rows /\ NewRow(b).status = "queued" /\ NewRow(b).pending = "prepare" /\ NewRow(b).active = "prepare"
      /\ NewRow(b).phase = "other" /\ ~NewRow(b).requested /\ ~NewRow(b).started
      /\ NewRow(b).tries = 0 /\ NewRow(b).rollbacks = 0
  BY Zenon DEF NewRow, Rows, Status, Phases, Actions, Undoing
<1>2. Idle \in Workers /\ Idle.img = "none" BY Zenon, IdleWorker DEF Worker
<1>3. "wait" \in Places /\ "prepare" \in Actions BY Zenon DEF Places, Actions
<1>4. Worker(Waiting("prepare", NewRow(b)), "wait", "prepare", "none", TRUE, NewRow(b))
  BY Zenon, <1>1, <1>2, <1>3 DEF Waiting, Worker, Workers
<1> QED BY Zenon, <1>1, <1>4

\* A transfer that Create has just written fits two machines that were not touched.
LEMMA InvInit == Init => Inv
<1> SUFFICES ASSUME Init PROVE Inv OBVIOUS
<1>1. conf \in Settings /\ conf.was \in BOOLEAN /\ conf.procs \subseteq Instances BY Zenon, SettingsAssumption DEF Init
<1>2. PICK i \in conf.procs : wrk = [j \in Instances |-> IF j = i THEN Waiting("prepare", row) ELSE Idle] BY Zenon DEF Init
<1>3. i \in Instances BY Zenon, <1>1
<1>4. row = NewRow(conf.was) BY Zenon DEF Init
<1>5. /\ row \in Rows /\ row.status = "queued" /\ row.pending = "prepare" /\ row.active = "prepare"
      /\ row.phase = "other" /\ ~row.requested /\ ~row.started
      /\ Worker(Waiting("prepare", row), "wait", "prepare", "none", TRUE, row)
  BY Zenon, <1>1, <1>4, NewRows
<1>6. Idle \in Workers /\ Idle.pc = "none" /\ ~Idle.synced BY Zenon, IdleWorker DEF Worker
<1>7. /\ wrk[i] = Waiting("prepare", row) /\ \A j \in Instances \ {i} : wrk[j] = Idle
  BY Zenon, <1>2, <1>3
<1>8. wrk \in [Instances -> Workers] BY Zenon, <1>2, <1>5, <1>6 DEF Worker
<1>9. \A j \in Instances : ~Active(j)
  <2>1. wrk[i].pc = "wait" BY Zenon, <1>5, <1>7 DEF Worker
  <2> QED BY Zenon, <1>6, <1>7, <2>1 DEF Active
<1>10. lock = None BY Zenon DEF Init
<1>11. Base
  <2>1. Copy(wrk[i], row) BY Zenon, <1>5, <1>7 DEF Worker, Copy
  <2>2. \A j \in Instances : Copy(wrk[j], row) BY Zenon, <1>6, <1>7, <2>1 DEF Copy
  <2> QED BY Zenon, <1>5, <1>8, <1>9, <1>10, <2>2 DEF Base, Locked
<1>12. Shapes
  <2>1. pause \in BOOLEAN /\ tick \in [Instances -> BOOLEAN] BY Zenon DEF Init
  <2>2. proc \in [Instances -> {"up", "closing", "down", "off"}] BY DEF Init
  <2>3. power \in Powers BY DEF Init, Powers
  <2>4. image \in Disks BY DEF Init, Disks
  <2>5. count \in [Counters -> Nat] BY DEF Init
  <2> QED BY Zenon, <1>1, <2>1, <2>2, <2>3, <2>4, <2>5 DEF Shapes
<1>13. RowFits(row, power, image)
  <2>1. power.target = "none" /\ image.disks = "none" /\ ~image.ran /\ ~image.mixed BY DEF Init
  <2>2. "prepare" \notin Begins /\ "queued" \notin Released BY DEF Begins, Released
  <2> QED BY Zenon, <1>5, <2>1, <2>2 DEF RowFits
<1>14. Machines BY Zenon, <1>9, <1>13 DEF Machines
<1>15. Gone
  <2>1. proc[i] = "up" BY Zenon, <1>3 DEF Init
  <2> QED BY Zenon, <1>6, <1>7, <2>1 DEF Gone
<1> QED BY Zenon, <1>11, <1>12, <1>14, <1>15 DEF Inv

\* Every step keeps the row, its copies and the machines together.
LEMMA BaseStep ==
    ASSUME Inv, Next, LostKept PROVE Base' /\ Machines'
<1>1. Shapes /\ Base /\ Machines /\ Gone BY Zenon DEF Inv
<1>2. ASSUME NEW i \in Instances, Tick(i) \/ Close(i) \/ Closed(i) PROVE Base' /\ Machines'
  <2>1. conf' = conf /\ row' = row /\ lock' = lock /\ wrk' = wrk /\ power' = power /\ image' = image
    BY Zenon, <1>2 DEF Tick, Close, Closed, engines
  <2> QED BY Zenon, <1>1, <2>1, Stays
<1>3. ASSUME NEW i \in Instances, Start(i) PROVE Base' /\ Machines'
  <2>1. wrk[i].pc = "none" BY Zenon, <1>1, <1>3 DEF Start, Gone
  <2> QED BY Zenon, <1>1, <1>3, <2>1, StartStep
<1>4. ASSUME NEW i \in Instances, LoseLock(i) PROVE Base' /\ Machines'
  <2>1. Once("lost") /\ "lost" \in Counters BY Zenon, <1>4 DEF LoseLock, Counters
  <2>2. count'["lost"] # 0 BY Zenon, <1>1, <2>1, Counted
  <2> QED BY Zenon, <1>1, <1>4, <2>2, LoseLockStep
<1>5. ASSUME NEW i \in Instances, NEW call \in Calls, Operate(i, call) PROVE Base' /\ Machines' BY Zenon, <1>1, <1>5, OperateStep
<1>6. ASSUME NEW i \in Instances, Work(i) PROVE Base' /\ Machines' BY Zenon, <1>1, <1>6, WorkStep
<1>7. ASSUME NEW i \in Instances, Pause(i) \/ Complete(i) \/ Forget(i) \/ TickSync(i) PROVE Base' /\ Machines'
  BY Zenon, <1>1, <1>7, PauseStep, CompleteStep, ForgetStep, TickSyncStep
<1>8. ASSUME NEW i \in Instances, Reschedule(i) \/ Attempt(i) \/ Crash(i) PROVE Base' /\ Machines'
  BY Zenon, <1>1, <1>8, RescheduleStep, AttemptStep, CrashStep
<1>9. CASE SourceStarted BY Zenon, <1>1, <1>9, SourceStartedStep
<1>10. ASSUME NEW m \in {"source", "target"}, GoesDown(m) \/ Misbehaves(m) PROVE Base' /\ Machines'
  BY Zenon, <1>1, <1>10, GoesDownStep
<1> QED BY Zenon, <1>2, <1>3, <1>4, <1>5, <1>6, <1>7, <1>8, <1>9, <1>10 DEF Next

\* Every step keeps the invariant.
LEMMA InvNext == Inv /\ [Next]_vars => Inv'
<1> SUFFICES ASSUME Inv, [Next]_vars PROVE Inv' OBVIOUS
<1>1. CASE Next
  <2>1. Shapes /\ Base /\ Machines /\ Gone BY Zenon DEF Inv
  <2>2. Around /\ CountStep /\ EngineStep BY Zenon, <1>1, <2>1, AroundStep
  <2>3. count' \in [Counters -> Nat] /\ LostKept BY Zenon, <2>1, <2>2, CountGrows
  <2>4. power' \in Powers /\ image' \in Disks BY Zenon, <2>1, <2>2, EngineFacts
  <2>5. Shapes' BY Zenon, <2>1, <2>2, <2>3, <2>4 DEF Shapes, Around
  <2>6. Base' /\ Machines' BY Zenon, <1>1, <2>3, BaseStep
  <2>7. Gone' BY Zenon, <1>1, <2>1, GoneStep
  <2> QED BY Zenon, <2>5, <2>6, <2>7 DEF Inv
<1>2. CASE UNCHANGED vars
  <2>1. /\ conf' = conf /\ row' = row /\ pause' = pause /\ lock' = lock /\ wrk' = wrk /\ proc' = proc
        /\ tick' = tick /\ power' = power /\ image' = image /\ count' = count
    BY Zenon, <1>2 DEF vars
  <2>2. Shapes /\ Base /\ Machines /\ Gone BY Zenon DEF Inv
  <2>3. Shapes' /\ Gone' BY Zenon, <2>1, <2>2 DEF Shapes, Gone
  <2>4. LostKept BY Zenon, <2>1 DEF LostKept
  <2> QED BY Zenon, <2>1, <2>2, <2>3, <2>4, Stays DEF Inv
<1> QED BY Zenon, <1>1, <1>2

\* The invariant holds of every state the processes, the operator and the engines reach.
LEMMA Invariance == Spec => []Inv
BY InvInit, InvNext, PTL DEF Spec

\* What the invariant says of the machines.
LEMMA InvImplies == Inv => TypeOK /\ ReleasedIsClean /\ DeltaBeforeStart
<1> SUFFICES ASSUME Inv PROVE TypeOK /\ ReleasedIsClean /\ DeltaBeforeStart OBVIOUS
<1>1. Shapes /\ Base /\ Machines BY Zenon DEF Inv
<1>2. TypeOK
  <2>1. row \in Rows /\ lock \in Instances \cup {None} BY Zenon, <1>1 DEF Base
  <2>2. /\ row.status \in Status /\ row.phase \in Phases
        /\ row.pending \in Actions \cup {"none"} /\ row.active \in Actions /\ row.next \in Actions \cup {"none"}
        /\ row.tries \in Nat /\ row.rollbacks \in Nat
    BY Zenon, <2>1 DEF Rows
  <2>3. /\ row.id \in BOOLEAN /\ row.restore \in BOOLEAN /\ row.applied \in BOOLEAN /\ row.stopped \in BOOLEAN
        /\ row.requested \in BOOLEAN /\ row.started \in BOOLEAN /\ row.was \in BOOLEAN /\ row.manual \in BOOLEAN
    BY Zenon, <2>1 DEF Rows
  <2>4. \A flag \in {row.id, row.restore, row.applied, row.stopped, row.requested, row.started, row.was,
                     row.manual, pause} : flag \in BOOLEAN
    BY Zenon, <1>1, <2>3 DEF Shapes
  <2>5. power["source"] \in {"up", "stopping", "down"} /\ power["target"] \in {"up", "stopping", "down", "none"}
    BY Zenon, <1>1 DEF Shapes, Powers
  <2>6. image \in [disks : {"none", "partial", "stale", "current"}, ran : BOOLEAN, mixed : BOOLEAN, forked : BOOLEAN]
    BY Zenon, <1>1 DEF Shapes, Disks
  <2> QED BY Zenon, <1>1, <2>1, <2>2, <2>4, <2>5, <2>6 DEF TypeOK, Shapes
<1>3. count["lost"] = 0 => RowFits(row, power, image) BY Zenon, <1>1 DEF Machines
<1>4. ReleasedIsClean BY Zenon, <1>3 DEF ReleasedIsClean, RowFits, Released
<1>5. DeltaBeforeStart
  <2>1. count["lost"] \in Nat BY <1>1 DEF Shapes, Counters
  <2>2. count["lost"] = 0 \/ count["lost"] > 0 BY <2>1
  <2> QED BY Zenon, <1>3, <2>2 DEF DeltaBeforeStart, RowFits
<1> QED BY Zenon, <1>2, <1>4, <1>5

\* Every variable keeps its type.
THEOREM TypeCorrect == Spec => []TypeOK
BY Invariance, InvImplies, PTL

\* ReleasedIsClean: a transfer that was canceled, rolled back or forgotten (rollback,
\* performAction, Action) leaves no target behind, whatever was lost on the way, as long
\* as no session lock was.
THEOREM ReleasedCorrect == Spec => []ReleasedIsClean
BY Invariance, InvImplies, PTL

\* DeltaBeforeStart: synchronize never writes a delta over a target that has run, unless
\* an operator has kept one with "rollback_keep" or a session lock was lost.
THEOREM DeltaCorrect == Spec => []DeltaBeforeStart
BY Invariance, InvImplies, PTL

-----------------------------------------------------------------------------
(* The handover of one machine. *)

Whole == image.disks = "current" /\ ~Forfeited

\* A target that runs runs on the last state of a source that stands still; the disks
\* are no last state of a source that runs.
OneCopy ==
    /\ Forfeited => Owner = "unknown" /\ ~Whole
    /\ ~Forfeited /\ On("target") => Owner = "target" /\ ~On("source") /\ Whole
    /\ ~Forfeited /\ On("source") => Owner = "source" /\ ~On("target") /\ ~Whole
    /\ ~Forfeited /\ ~On("source") /\ ~On("target") => Owner = "nobody"

\* The invariant says so.
LEMMA OneMachine == Inv => OneCopy
<1> SUFFICES ASSUME Inv PROVE OneCopy OBVIOUS
<1>1. ASSUME ~Forfeited
      PROVE  /\ On("target") => ~On("source") /\ image.disks = "current"
             /\ On("source") => image.disks # "current"
  <2>1. count["lost"] = 0
    <3>1. count["lost"] \in Nat BY DEF Inv, Shapes, Counters
    <3>2. ~(count["lost"] > 0) BY Zenon, <1>1 DEF Forfeited
    <3> QED BY <3>1, <3>2
  <2>2. RowFits(row, power, image) /\ Clean(image) BY Zenon, <1>1, <2>1 DEF Inv, Machines, Clean, Forfeited
  <2>3. On("source") => image.disks # "current" BY <2>2 DEF RowFits, On
  <2>4. ASSUME On("target") PROVE ~On("source") /\ image.disks = "current"
    <3>1. power.target \in {"up", "stopping"} BY <2>4 DEF On
    <3>2. power.target # "none" BY <3>1
    <3>3. power.source = "down" /\ image.disks = "current" BY Zenon, <2>2, <3>1, <3>2 DEF RowFits
    <3> QED BY <3>3 DEF On
  <2> QED BY Zenon, <2>3, <2>4
<1> QED BY Zenon, <1>1 DEF OneCopy, Owner, Whole

\* The same of the next state.
LEMMA OneMachineNext == Inv' => OneCopy'
BY OneMachine, PTL

\* What is given up is not taken back.
LEMMA ForfeitedStays ==
    ASSUME Inv, Next PROVE Forfeited => Forfeited'
<1>1. Shapes /\ CountStep /\ EngineStep BY Zenon, AroundStep DEF Inv
<1>2. (image.mixed => image'.mixed) /\ (image.forked => image'.forked) BY Zenon, <1>1, EngineFacts
<1>3. count["lost"] \in Nat /\ count'["lost"] \in Nat /\ count'["lost"] >= count["lost"]
  BY <1>1, CountGrows DEF Shapes, Counters
<1>4. count["lost"] > 0 => count'["lost"] > 0 BY <1>3
<1> QED BY Zenon, <1>2, <1>4 DEF Forfeited

\* Every step of the transfer is a step of the handover, or none.
LEMMA Handed ==
    ASSUME Inv, Inv', Next PROVE H!Next \/ (Owner' = Owner /\ Whole' = Whole)
<1>1. Shapes /\ EngineStep BY Zenon, AroundStep DEF Inv
<1>2. CASE Forfeited'
  <2>1. Owner' = "unknown" /\ Whole' = FALSE BY Zenon, <1>2, OneMachineNext DEF OneCopy, Whole
  <2> QED BY Zenon, <2>1 DEF H!Next, H!Forfeit, Whole
<1>3. CASE ~Forfeited'
  <2>1. ~Forfeited BY Zenon, <1>3, ForfeitedStays
  <2>2. count["lost"] = 0
    <3>1. count["lost"] \in Nat BY <1>1 DEF Shapes, Counters
    <3>2. ~(count["lost"] > 0) BY Zenon, <2>1 DEF Forfeited
    <3> QED BY <3>1, <3>2
  <2>3. /\ power'.source = power.source \/ power'.target = power.target
        /\ power'.source # power.source => image'.disks = image.disks \/ power'.source = "up"
        /\ power'.target # power.target =>
              \/ image'.disks = image.disks
              \/ power'.target = "none" /\ power.target \notin {"up", "stopping"}
    BY Zenon, <1>1, <2>2, EngineFacts
  <2>4. Whole <=> image.disks = "current" BY Zenon, <2>1 DEF Whole
  <2>5. Whole' <=> image'.disks = "current" BY Zenon, <1>3 DEF Whole
  <2>6. Whole \in BOOLEAN /\ Whole' \in BOOLEAN BY Zenon DEF Whole
  <2>7. On("source")' <=> power'.source \in {"up", "stopping"} BY Zenon DEF On
  <2>8. On("target")' <=> power'.target \in {"up", "stopping"} BY Zenon DEF On
  <2>9. On("source") <=> power.source \in {"up", "stopping"} BY Zenon DEF On
  <2>10. On("target") <=> power.target \in {"up", "stopping"} BY Zenon DEF On
  <2>11. CASE On("source")
    <3>1. Owner = "source" /\ ~On("target") /\ ~Whole BY Zenon, <2>1, <2>11, OneMachine DEF OneCopy
    <3>2. CASE On("source")'
      BY Zenon, <1>3, <2>6, <3>1, <3>2, OneMachineNext DEF OneCopy
    <3>3. CASE ~On("source")'
      <4>1. power'.source # power.source /\ power'.source # "up" BY <2>7, <2>9, <2>11, <3>3
      <4>2. image'.disks = image.disks /\ power'.target = power.target BY Zenon, <2>3, <4>1
      <4>3. ~Whole' /\ ~On("target")' BY Zenon, <2>4, <2>5, <2>8, <2>10, <3>1, <4>2
      <4>4. Owner' = "nobody" BY Zenon, <1>3, <3>3, <4>3, OneMachineNext DEF OneCopy
      <4> QED BY Zenon, <2>6, <3>1, <4>3, <4>4 DEF H!Next, H!StopSource, Whole
    <3> QED BY Zenon, <3>2, <3>3
  <2>12. CASE On("target")
    <3>1. Owner = "target" /\ ~On("source") /\ Whole BY Zenon, <2>1, <2>12, OneMachine DEF OneCopy
    <3>2. CASE On("target")'
      BY Zenon, <1>3, <2>6, <3>1, <3>2, OneMachineNext DEF OneCopy
    <3>3. CASE ~On("target")'
      <4>1. power'.target # power.target BY <2>8, <2>10, <2>12, <3>3
      <4>2. image'.disks = image.disks /\ power'.source = power.source BY Zenon, <2>3, <2>10, <2>12, <4>1
      <4>3. Whole' /\ ~On("source")' BY Zenon, <2>4, <2>5, <2>7, <2>9, <3>1, <4>2
      <4>4. Owner' = "nobody" BY Zenon, <1>3, <3>3, <4>3, OneMachineNext DEF OneCopy
      <4> QED BY Zenon, <2>6, <3>1, <4>3, <4>4 DEF H!Next, H!StopTarget, Whole
    <3> QED BY Zenon, <3>2, <3>3
  <2>13. CASE ~On("source") /\ ~On("target")
    <3>1. Owner = "nobody" BY Zenon, <2>1, <2>13, OneMachine DEF OneCopy
    <3>2. CASE On("source")'
      <4>1. Owner' = "source" /\ Whole' = FALSE BY Zenon, <1>3, <2>6, <3>2, OneMachineNext DEF OneCopy
      <4> QED BY Zenon, <3>1, <4>1 DEF H!Next, H!StartSource, Whole
    <3>3. CASE On("target")'
      <4>1. power'.target # power.target /\ power'.target # "none" BY <2>8, <2>10, <2>13, <3>3
      <4>2. image'.disks = image.disks BY Zenon, <2>3, <4>1
      <4>3. Owner' = "target" /\ Whole' BY Zenon, <1>3, <3>3, OneMachineNext DEF OneCopy
      <4>4. Whole BY Zenon, <2>4, <2>5, <4>2, <4>3
      <4> QED BY Zenon, <2>6, <3>1, <4>3, <4>4 DEF H!Next, H!StartTarget, Whole
    <3>4. CASE ~On("source")' /\ ~On("target")'
      <4>1. Owner' = "nobody" BY Zenon, <1>3, <3>4, OneMachineNext DEF OneCopy
      <4>2. Whole' \in {FALSE, Owner = "nobody"} BY <2>6, <3>1
      <4>3. Owner # "target" BY <3>1
      <4> QED BY Zenon, <3>1, <4>1, <4>2, <4>3 DEF H!Next, H!WriteTarget, Whole
    <3> QED BY Zenon, <3>2, <3>3, <3>4
  <2> QED BY Zenon, <2>11, <2>12, <2>13
<1> QED BY Zenon, <1>2, <1>3

\* A new transfer is a machine that runs at its source, or nowhere.
LEMMA HandedInit == Init => H!Init
<1> SUFFICES ASSUME Init PROVE H!Init OBVIOUS
<1>1. power.target = "none" /\ power.source \in {"up", "down"} /\ image.disks = "none" /\ ~image.mixed /\ ~image.forked
  BY DEF Init
<1>2. count["lost"] = 0 BY DEF Init, Counters
<1>3. ~Forfeited BY <1>1, <1>2 DEF Forfeited
<1>4. ~On("target") BY <1>1 DEF On
<1>5. Owner \in {"source", "nobody"} BY Zenon, <1>3, <1>4 DEF Owner
<1>6. (image.disks = "current" /\ ~Forfeited) = FALSE BY <1>1
<1> QED BY Zenon, <1>5, <1>6 DEF H!Init

\* Implements: the workflow of the transfer, with every fault, crash, retry, pause and
\* operator call, hands one machine over.  Never two run, and the target starts only on
\* the last state of a source that stands still.
THEOREM HandoverCorrect == Spec => Implements
<1>1. ASSUME Inv, Inv', [Next]_vars PROVE [H!Next]_(H!vars)
  <2>1. CASE Next
    <3>1. H!Next \/ (Owner' = Owner /\ Whole' = Whole) BY Zenon, <1>1, <2>1, Handed
    <3> QED BY Zenon, <3>1 DEF H!vars, Whole
  <2>2. CASE UNCHANGED vars
    <3>1. power' = power /\ image' = image /\ count' = count BY Zenon, <2>2 DEF vars
    <3>2. Forfeited' = Forfeited BY Zenon, <3>1 DEF Forfeited
    <3>3. On("source")' = On("source") /\ On("target")' = On("target") BY Zenon, <3>1 DEF On
    <3>4. Owner' = Owner BY Zenon, <3>2, <3>3 DEF Owner
    <3> QED BY Zenon, <3>1, <3>2, <3>4 DEF H!vars
  <2> QED BY Zenon, <1>1, <2>1, <2>2
<1> QED BY <1>1, HandedInit, Invariance, PTL DEF Spec, Implements, H!Spec

\* PausedStays: no loop, no other process and no late worker writes the row of a
\* transfer that an operator has paused or put on hold; the copy of a late worker is
\* out of date, and ReconcileRecovery looks at ManualPause first.
THEOREM PauseCorrect == Spec => PausedStays
<1> DEFINE A == row.manual /\ row.status \in {"interrupted", "held"} /\ row' # row =>
                    count'["op"] > count["op"] \/ \E i \in Instances : tick[i]
<1>1. ASSUME Inv, Next, row.manual, row.status \in {"interrupted", "held"}, row' # row
      PROVE  count'["op"] > count["op"] \/ \E i \in Instances : tick[i]
  <2>1. Shapes /\ Base BY Zenon, <1>1 DEF Inv
  <2>2. Once("op") => count'["op"] > count["op"]
    <3>1. "op" \in Counters BY Zenon DEF Counters
    <3> QED BY Zenon, <2>1, <3>1, Counted
  <2>3. row.status \notin {"running", "queued"} BY <1>1
  <2>4. ASSUME NEW i \in Instances, Work(i) PROVE FALSE
    <3>1. Shape(i) BY Zenon, <2>4, WorkShape
    <3>2. ~wrk[i].synced BY Zenon, <2>1, <2>3 DEF Base, Copy
    <3> QED BY Zenon, <1>1, <3>1, <3>2 DEF Shape, Return, Jump
  <2>5. ASSUME NEW i \in Instances, \/ \E call \in Calls : Operate(i, call)
                                    \/ Pause(i) \/ Complete(i) \/ Forget(i)
        PROVE  Once("op")
    BY Zenon, <2>5 DEF Operate, Pause, Complete, Forget
  <2>6. ASSUME NEW i \in Instances, TickSync(i) PROVE tick[i] BY Zenon, <2>6 DEF TickSync
  <2>7. ASSUME NEW i \in Instances, Reschedule(i) \/ Attempt(i) PROVE FALSE
    BY Zenon, <1>1, <2>7 DEF Reschedule, Attempt, Automatic
  <2>8. ASSUME NEW i \in Instances, Tick(i) \/ Close(i) \/ Closed(i) \/ Crash(i) \/ LoseLock(i) PROVE FALSE
    BY Zenon, <1>1, <2>8 DEF Tick, Close, Closed, Crash, LoseLock
  <2>9. ASSUME NEW i \in Instances, Start(i) PROVE FALSE BY Zenon, <1>1, <2>3, <2>9 DEF Start
  <2>10. ASSUME SourceStarted \/ \E m \in {"source", "target"} : GoesDown(m) \/ Misbehaves(m) PROVE FALSE
    BY Zenon, <1>1, <2>10 DEF SourceStarted, GoesDown, Misbehaves
  <2> QED BY Zenon, <1>1, <2>2, <2>4, <2>5, <2>6, <2>7, <2>8, <2>9, <2>10 DEF Next
<1>2. ASSUME Inv, [Next]_vars PROVE [A]_vars BY Zenon, <1>1, <1>2
<1> HIDE DEF A
<1>3. Spec => [][A]_vars BY <1>2, Invariance, PTL DEF Spec
<1> QED BY Zenon, <1>3 DEF A, PausedStays

-----------------------------------------------------------------------------
(* As long as nothing happens from outside. *)

\* Nothing was counted yet: no fault, no crash, no lost session, no call of an operator,
\* no hand on the source, and no process took what waits in another one.
Calm == \A k \in Counters : count[k] = 0

\* Where a worker then is, and the machines with it: it prepares, or it keeps a ready
\* transfer up to date.
CalmFits(pc, action, p) ==
    \/ pc \in {"wait", "plan"} /\ action = "prepare" /\ p.source \in {"up", "down"} /\ p.target = "none"
    \/ pc = "wait" /\ action = "sync" /\ conf.mode = "warm" /\ p.target = "down"
    \/ /\ pc \in {"stop", "shutdown"} /\ action = "prepare" /\ conf.mode = "cold"
       /\ p.source \in {"up", "down"} /\ p.target = "none"
    \/ /\ pc = "stopping" /\ action = "prepare" /\ conf.mode = "cold"
       /\ p.source \in {"stopping", "down"} /\ p.target = "none"
    \/ /\ pc \in {"full", "create"} /\ action = "prepare" /\ (conf.mode = "cold" => p.source = "down")
       /\ p.target = "none"
    \/ /\ pc \in {"created", "fill"} /\ action = "prepare" /\ (conf.mode = "cold" => p.source = "down")
       /\ p.target = "down"
    \/ pc \in {"sync", "delta"} /\ action \in {"prepare", "sync"} /\ conf.mode = "warm" /\ p.target = "down"
    \/ pc \in {"start", "check", "request"} /\ action = "prepare" /\ p.source = "down" /\ p.target = "down"
    \/ pc = "guest" /\ action = "prepare" /\ p.target = "up"

\* A worker is busy with a transfer that is queued or running; otherwise it is ready or
\* waits for the operator.
CalmRow ==
    /\ row.tries = 0 /\ row.rollbacks = 0
    /\ row.status \in {"queued", "running", "ready", "awaiting_confirmation"}
    /\ row.status = "ready" => power.target = "down"
    /\ row.status = "queued" => \E i \in Instances : wrk[i].pc = "wait" /\ wrk[i].synced
    /\ row.status = "running" => lock # None

Undisturbed ==
    Calm =>
        /\ ~pause /\ \A i \in Instances : proc[i] \in {"up", "off"}
        /\ CalmRow
        /\ \A i \in Instances : wrk[i].synced => CalmFits(wrk[i].pc, wrk[i].action, power)

\* Nothing was counted, and nothing is.
LEMMA StaysCalm == ASSUME Inv, CountStep, Calm' PROVE Calm /\ count' = count /\ count["lost"] = 0
<1>1. Shapes /\ "lost" \in Counters BY Zenon DEF Inv, Counters
<1>2. ASSUME NEW k \in Counters, Once(k) PROVE FALSE BY Zenon, <1>1, <1>2, Counted DEF Calm
<1>3. count' = count BY Zenon, <1>2 DEF CountStep
<1> QED BY Zenon, <1>1, <1>3 DEF Calm

\* A worker that is not disturbed: nothing breaks it off, and it is alone with the row.
LEMMA CalmWorker ==
    ASSUME Inv, Undisturbed, Calm, Calm', count' = count, NEW i \in Instances, wrk[i].pc # "none"
    PROVE  /\ ~Breaks(i)
           /\ Active(i) => /\ wrk[i].synced /\ wrk[i] \in Workers /\ wrk[i].t = row /\ row \in Rows
                           /\ row.status = "running" /\ lock = i
                           /\ CalmFits(wrk[i].pc, wrk[i].action, power)
                           /\ \A j \in Instances \ {i} : ~wrk[j].synced
<1>1. Base /\ Shapes /\ count["lost"] = 0 BY Zenon DEF Inv, Calm, Counters
<1>2. ~pause /\ proc[i] # "closing" BY DEF Undisturbed
<1>3. ~Once("fault")
  <2>1. "fault" \in Counters BY Zenon DEF Counters
  <2> QED BY Zenon, <1>1, <2>1, Counted DEF Calm
<1>4. Active(i) => lock = i BY Zenon, <1>1, Alone
<1>5. ~Breaks(i) BY Zenon, <1>2, <1>3, <1>4 DEF Breaks, Active
<1>6. ASSUME Active(i)
      PROVE  /\ wrk[i].synced /\ wrk[i] \in Workers /\ wrk[i].t = row /\ row \in Rows
             /\ row.status = "running" /\ lock = i /\ CalmFits(wrk[i].pc, wrk[i].action, power)
             /\ \A j \in Instances \ {i} : ~wrk[j].synced
  <2>1. wrk[i].synced /\ lock = i /\ wrk[i].t = row /\ row.status = "running" /\ \A j \in Instances \ {i} : ~Active(j)
    BY Zenon, <1>1, <1>6, Alone
  <2>2. \A j \in Instances \ {i} : ~wrk[j].synced
    <3>1. row.status # "queued" BY <2>1
    <3> QED BY Zenon, <1>1, <2>1, <3>1 DEF Base, Copy, Active
  <2> QED BY Zenon, <1>1, <2>1, <2>2 DEF Base, Undisturbed
<1> QED BY Zenon, <1>5, <1>6

\* It goes on.
LEMMA CalmOn ==
    ASSUME Inv, Undisturbed, Calm, conf' = conf, pause' = pause, proc' = proc, NEW i \in Instances, NEW pc,
           wrk'[i].pc = pc, wrk'[i].action = wrk[i].action, \A j \in Instances \ {i} : ~wrk'[j].synced,
           row'.status = "running", row'.tries = row.tries, row'.rollbacks = row.rollbacks, lock' = i,
           CalmFits(pc, wrk[i].action, power')
    PROVE  Undisturbed'
<1>1. ~pause' /\ \A j \in Instances : proc'[j] \in {"up", "off"} BY Zenon DEF Undisturbed
<1>2. row.tries = 0 /\ row.rollbacks = 0 BY Zenon DEF Undisturbed, CalmRow
<1>3. CalmRow'
  <2>1. row'.status \in {"queued", "running", "ready", "awaiting_confirmation"} /\ row'.status # "ready" /\ row'.status # "queued"
    OBVIOUS
  <2> QED BY Zenon, <1>2, <2>1, SettingsAssumption DEF CalmRow
<1>4. CalmFits(wrk[i].pc, wrk[i].action, power)' BY Zenon DEF CalmFits
<1>5. \A j \in Instances : wrk'[j].synced => CalmFits(wrk[j].pc, wrk[j].action, power)' BY Zenon, <1>4
<1> QED BY Zenon, <1>1, <1>3, <1>5 DEF Undisturbed

\* It goes on with a row that it saves.
LEMMA CalmSaves ==
    ASSUME Inv, Undisturbed, Calm, Calm', count' = count, conf' = conf, pause' = pause, proc' = proc,
           NEW i \in Instances, Active(i), NEW u, NEW ph, NEW rq, NEW st, Moved(u, wrk[i].t, ph, rq, st),
           NEW pc \in Places, Save(i, u, pc), CalmFits(pc, wrk[i].action, power')
    PROVE  Undisturbed'
<1>1. /\ wrk[i].synced /\ wrk[i] \in Workers /\ wrk[i].t = row /\ row.status = "running" /\ lock = i /\ u \in Rows
  BY Zenon, CalmWorker DEF Active, Moved
<1>2. Write(i, u, [wrk[i] EXCEPT !.t = u, !.pc = pc]) /\ lock' = lock BY Zenon, <1>1 DEF Save
<1>3. wrk'[i] = [wrk[i] EXCEPT !.t = u, !.pc = pc] /\ row' = u BY Zenon, <1>2 DEF Write
<1>4. wrk'[i].pc = pc /\ wrk'[i].action = wrk[i].action BY Zenon, <1>1, <1>3 DEF Workers
<1>5. ASSUME NEW j \in Instances \ {i} PROVE ~wrk'[j].synced
  <2>1. wrk'[j] = [wrk[j] EXCEPT !.synced = FALSE] /\ wrk[j] \in Workers BY Zenon, <1>2 DEF Write, Inv, Base
  <2> QED BY Zenon, <2>1 DEF Workers
<1> QED BY Zenon, <1>1, <1>2, <1>3, <1>4, <1>5, CalmOn DEF Moved

\* It goes on with the image of a backup.
LEMMA CalmBackups ==
    ASSUME Inv, Undisturbed, Calm, Calm', count' = count, conf' = conf, pause' = pause, proc' = proc,
           NEW i \in Instances, Active(i), NEW u, NEW ph, NEW rq, NEW st, Moved(u, wrk[i].t, ph, rq, st), lock' = lock,
           NEW pc \in Places, NEW m, Write(i, u, [wrk[i] EXCEPT !.t = u, !.pc = pc, !.img = m]),
           CalmFits(pc, wrk[i].action, power')
    PROVE  Undisturbed'
<1>1. /\ wrk[i].synced /\ wrk[i] \in Workers /\ wrk[i].t = row /\ row.status = "running" /\ lock = i /\ u \in Rows
  BY Zenon, CalmWorker DEF Active, Moved
<1>2. wrk'[i] = [wrk[i] EXCEPT !.t = u, !.pc = pc, !.img = m] /\ row' = u BY Zenon DEF Write
<1>3. wrk'[i].pc = pc /\ wrk'[i].action = wrk[i].action BY Zenon, <1>1, <1>2 DEF Workers
<1>4. ASSUME NEW j \in Instances \ {i} PROVE ~wrk'[j].synced
  <2>1. wrk'[j] = [wrk[j] EXCEPT !.synced = FALSE] /\ wrk[j] \in Workers BY Zenon DEF Write, Inv, Base
  <2> QED BY Zenon, <2>1 DEF Workers
<1> QED BY Zenon, <1>1, <1>2, <1>3, <1>4, CalmOn DEF Moved

\* It goes on without a write.
LEMMA CalmJumps ==
    ASSUME Inv, Undisturbed, Calm, Calm', count' = count, conf' = conf, pause' = pause, proc' = proc,
           NEW i \in Instances, Active(i), NEW pc \in Places, Jump(i, pc), CalmFits(pc, wrk[i].action, power')
    PROVE  Undisturbed'
<1>1. /\ wrk[i] \in Workers /\ row.status = "running" /\ lock = i /\ \A j \in Instances \ {i} : ~wrk[j].synced
  BY Zenon, CalmWorker DEF Active
<1>2. wrk \in [Instances -> Workers] BY Zenon DEF Inv, Base
<1>3. row' = row /\ lock' = lock /\ wrk' = [wrk EXCEPT ![i] = [wrk[i] EXCEPT !.pc = pc]] BY Zenon DEF Jump
<1>4. wrk'[i] = [wrk[i] EXCEPT !.pc = pc] /\ \A j \in Instances \ {i} : wrk'[j] = wrk[j] BY Zenon, <1>2, <1>3
<1>5. wrk'[i].pc = pc /\ wrk'[i].action = wrk[i].action BY Zenon, <1>1, <1>4 DEF Workers
<1> QED BY Zenon, <1>1, <1>3, <1>4, <1>5, CalmOn

\* It ends.
LEMMA CalmEnds ==
    ASSUME Inv, Undisturbed, Calm, Calm', count' = count, conf' = conf, pause' = pause, proc' = proc,
           NEW i \in Instances, Active(i), NEW u, NEW s \in {"ready", "awaiting_confirmation"}, NEW ph, NEW rq, NEW st,
           Over([u EXCEPT !.next = "none"], wrk[i].t, s, ph, rq, st), Finish(i, u),
           s = "ready" => power'.target = "down"
    PROVE  Undisturbed'
<1>1. wrk[i].synced /\ wrk[i].t = row BY Zenon, CalmWorker DEF Active
<1>2. Write(i, [u EXCEPT !.next = "none"], Idle) BY Zenon, <1>1 DEF Finish
<1>3. wrk'[i] = Idle /\ row' = [u EXCEPT !.next = "none"] BY Zenon, <1>2 DEF Write
<1>4. row'.status = s /\ row'.tries = row.tries /\ row'.rollbacks = row.rollbacks BY Zenon, <1>1, <1>3 DEF Over
<1>5. ASSUME NEW j \in Instances PROVE ~wrk'[j].synced
  <2>1. CASE j = i BY Zenon, <1>3, <2>1, IdleWorker DEF Worker
  <2>2. CASE j # i
    <3>1. wrk'[j] = [wrk[j] EXCEPT !.synced = FALSE] /\ wrk[j] \in Workers BY Zenon, <1>2, <2>2 DEF Write, Inv, Base
    <3> QED BY Zenon, <3>1 DEF Workers
  <2> QED BY Zenon, <2>1, <2>2
<1>6. ~pause' /\ \A j \in Instances : proc'[j] \in {"up", "off"} BY Zenon DEF Undisturbed
<1>7. row.tries = 0 /\ row.rollbacks = 0 BY Zenon DEF Undisturbed, CalmRow
<1>8. CalmRow'
  <2>1. s # "queued" /\ s # "running" OBVIOUS
  <2> QED BY Zenon, <1>4, <1>7, <2>1 DEF CalmRow
<1> QED BY Zenon, <1>5, <1>6, <1>8 DEF Undisturbed

\* The plan is accepted.
LEMMA CalmPlan ==
    ASSUME Inv, Undisturbed, Calm, Calm', count' = count, NEW i \in Instances, Active(i), Plan(i)
    PROVE  Undisturbed'
<1>1. conf' = conf /\ pause' = pause /\ proc' = proc BY Zenon DEF At, Plan
<1>2. /\ wrk[i].synced /\ wrk[i].t \in Rows /\ wrk[i].pc # "none" /\ CalmFits(wrk[i].pc, wrk[i].action, power) /\ ~Breaks(i)
  BY Zenon, CalmWorker DEF Active
<1>3. wrk[i].pc = "plan" BY Zenon DEF At, Plan
<1>4. wrk[i].action = "prepare" /\ power.source \in {"up", "down"} /\ power.target = "none" BY <1>2, <1>3 DEF CalmFits
<1> DEFINE b == power["source"] = "up"
           u == [wrk[i].t EXCEPT !.was = b]
           pc == IF conf.mode = "cold" THEN "stop" ELSE "full"
<1>5. power["source"] # "stopping" /\ power["target"] = "none" BY <1>4
<1>6. Save(i, u, pc) /\ power' = power BY Zenon, <1>5 DEF Plan, engines
<1>7. Moved(u, wrk[i].t, wrk[i].t.phase, wrk[i].t.requested, wrk[i].t.started) BY Zenon, <1>2, MovedRows
<1>8. pc \in Places /\ CalmFits(pc, wrk[i].action, power') BY <1>4, <1>6 DEF CalmFits, Places
<1> HIDE DEF u, pc
<1> QED BY Zenon, <1>1, <1>6, <1>7, <1>8, CalmSaves

\* The full backup is taken.
LEMMA CalmFullBackup ==
    ASSUME Inv, Undisturbed, Calm, Calm', count' = count, NEW i \in Instances, Active(i), FullBackup(i)
    PROVE  Undisturbed'
<1>1. conf' = conf /\ pause' = pause /\ proc' = proc BY Zenon DEF At, FullBackup
<1>2. /\ wrk[i].synced /\ wrk[i].t \in Rows /\ wrk[i].pc # "none" /\ CalmFits(wrk[i].pc, wrk[i].action, power) /\ ~Breaks(i)
  BY Zenon, CalmWorker DEF Active
<1>3. wrk[i].pc = "full" BY Zenon DEF At, FullBackup
<1>4. wrk[i].action = "prepare" /\ power.target = "none" /\ (conf.mode = "cold" => power.source = "down") BY <1>2, <1>3 DEF CalmFits
<1> DEFINE u == [wrk[i].t EXCEPT !.phase = "other", !.restore = TRUE]
<1>5. /\ Write(i, u, [wrk[i] EXCEPT !.t = u, !.pc = "create", !.img = Backup]) /\ lock' = lock /\ power' = power
  BY Zenon, <1>2 DEF FullBackup, engines
<1>6. Moved(u, wrk[i].t, "other", wrk[i].t.requested, wrk[i].t.started) BY Zenon, <1>2, MovedRows DEF Phases
<1>7. "create" \in Places /\ CalmFits("create", wrk[i].action, power') BY <1>4, <1>5 DEF CalmFits, Places
<1> HIDE DEF u
<1> QED BY Zenon, <1>1, <1>5, <1>6, <1>7, CalmBackups

\* The target is created.
LEMMA CalmCreateTarget ==
    ASSUME Inv, Undisturbed, Calm, Calm', count' = count, NEW i \in Instances, Active(i), CreateTarget(i)
    PROVE  Undisturbed'
<1>1. conf' = conf /\ pause' = pause /\ proc' = proc BY Zenon DEF At, CreateTarget
<1>2. /\ wrk[i].synced /\ wrk[i].t \in Rows /\ wrk[i].pc # "none" /\ CalmFits(wrk[i].pc, wrk[i].action, power) /\ ~Breaks(i)
  BY Zenon, CalmWorker DEF Active
<1>3. wrk[i].pc = "create" BY Zenon DEF At, CreateTarget
<1>4. wrk[i].action = "prepare" /\ power.target = "none" /\ (conf.mode = "cold" => power.source = "down") BY <1>2, <1>3 DEF CalmFits
<1>5. Jump(i, "created") /\ power' = [power EXCEPT !["target"] = "down"] BY Zenon, <1>2, <1>4 DEF CreateTarget
<1>6. power'.source = power.source /\ power'.target = "down" BY Zenon, <1>5 DEF Inv, Shapes, Powers
<1>7. "created" \in Places /\ CalmFits("created", wrk[i].action, power') BY <1>4, <1>6 DEF CalmFits, Places
<1> QED BY Zenon, <1>1, <1>5, <1>7, CalmJumps

\* Its id is saved.
LEMMA CalmTargetCreated ==
    ASSUME Inv, Undisturbed, Calm, Calm', count' = count, NEW i \in Instances, Active(i), TargetCreated(i)
    PROVE  Undisturbed'
<1>1. conf' = conf /\ pause' = pause /\ proc' = proc BY Zenon DEF At, TargetCreated
<1>2. /\ wrk[i].synced /\ wrk[i].t \in Rows /\ wrk[i].pc # "none" /\ CalmFits(wrk[i].pc, wrk[i].action, power) /\ ~Breaks(i)
  BY Zenon, CalmWorker DEF Active
<1>3. wrk[i].pc = "created" BY Zenon DEF At, TargetCreated
<1>4. wrk[i].action = "prepare" /\ power.target = "down" /\ (conf.mode = "cold" => power.source = "down") BY <1>2, <1>3 DEF CalmFits
<1> DEFINE u == [wrk[i].t EXCEPT !.id = TRUE]
<1>5. Save(i, u, "fill") /\ power' = power BY Zenon, <1>2, <1>4 DEF TargetCreated, engines
<1>6. Moved(u, wrk[i].t, wrk[i].t.phase, wrk[i].t.requested, wrk[i].t.started) BY Zenon, <1>2, MovedRows DEF Phases
<1>7. "fill" \in Places /\ CalmFits("fill", wrk[i].action, power') BY <1>4, <1>5 DEF CalmFits, Places
<1> HIDE DEF u
<1> QED BY Zenon, <1>1, <1>5, <1>6, <1>7, CalmSaves

\* Its disks are written.
LEMMA CalmFillTarget ==
    ASSUME Inv, Undisturbed, Calm, Calm', count' = count, NEW i \in Instances, Active(i), FillTarget(i)
    PROVE  Undisturbed'
<1>1. conf' = conf /\ pause' = pause /\ proc' = proc BY Zenon DEF At, FillTarget
<1>2. /\ wrk[i].synced /\ wrk[i].t \in Rows /\ wrk[i].pc # "none" /\ CalmFits(wrk[i].pc, wrk[i].action, power) /\ ~Breaks(i)
  BY Zenon, CalmWorker DEF Active
<1>3. conf.mode \in {"cold", "warm"} BY Zenon, SettingsAssumption DEF Inv, Shapes
<1>4. wrk[i].pc = "fill" BY Zenon DEF At, FillTarget
<1>5. wrk[i].action = "prepare" /\ power.target = "down" /\ power.target # "none" /\ (conf.mode = "cold" => power.source = "down") BY <1>2, <1>4 DEF CalmFits
<1> DEFINE u == [wrk[i].t EXCEPT !.applied = TRUE]
           pc == IF conf.mode = "warm" THEN "sync" ELSE "start"
<1>6. Save(i, u, pc) /\ power' = power BY Zenon, <1>2, <1>5 DEF FillTarget
<1>7. Moved(u, wrk[i].t, wrk[i].t.phase, wrk[i].t.requested, wrk[i].t.started) BY Zenon, <1>2, MovedRows
<1>8. pc \in Places /\ CalmFits(pc, wrk[i].action, power') BY <1>3, <1>5, <1>6 DEF CalmFits, Places
<1> HIDE DEF u, pc
<1> QED BY Zenon, <1>1, <1>6, <1>7, <1>8, CalmSaves

\* The stop of the source is noted.
LEMMA CalmStopSource ==
    ASSUME Inv, Undisturbed, Calm, Calm', count' = count, NEW i \in Instances, Active(i), StopSource(i)
    PROVE  Undisturbed'
<1>1. conf' = conf /\ pause' = pause /\ proc' = proc BY Zenon DEF At, StopSource
<1>2. /\ wrk[i].synced /\ wrk[i].t \in Rows /\ wrk[i].pc # "none" /\ CalmFits(wrk[i].pc, wrk[i].action, power) /\ ~Breaks(i)
  BY Zenon, CalmWorker DEF Active
<1>3. wrk[i].pc = "stop" BY Zenon DEF At, StopSource
<1>4. wrk[i].action = "prepare" /\ conf.mode = "cold" /\ power.source \in {"up", "down"} /\ power.target = "none" BY <1>2, <1>3 DEF CalmFits
<1> DEFINE u == [wrk[i].t EXCEPT !.phase = "other"]
<1>5. Save(i, u, "shutdown") /\ power' = power BY Zenon, <1>2, <1>4 DEF StopSource, engines
<1>6. Moved(u, wrk[i].t, "other", wrk[i].t.requested, wrk[i].t.started) BY Zenon, <1>2, MovedRows DEF Phases
<1>7. "shutdown" \in Places /\ CalmFits("shutdown", wrk[i].action, power') BY <1>4, <1>5 DEF CalmFits, Places
<1> HIDE DEF u
<1> QED BY Zenon, <1>1, <1>5, <1>6, <1>7, CalmSaves

\* The source is asked to shut down, or has done so.
LEMMA CalmShutdownSource ==
    ASSUME Inv, Undisturbed, Calm, Calm', count' = count, NEW i \in Instances, Active(i), ShutdownSource(i)
    PROVE  Undisturbed'
<1>1. conf' = conf /\ pause' = pause /\ proc' = proc BY Zenon DEF At, ShutdownSource
<1>2. /\ wrk[i].synced /\ wrk[i].t \in Rows /\ wrk[i].pc # "none" /\ CalmFits(wrk[i].pc, wrk[i].action, power) /\ ~Breaks(i)
  BY Zenon, CalmWorker DEF Active
<1>3. wrk[i].pc = "shutdown" BY Zenon DEF At, ShutdownSource
<1>4. wrk[i].action = "prepare" /\ conf.mode = "cold" /\ power.source \in {"up", "down"} /\ power.target = "none" BY <1>2, <1>3 DEF CalmFits
<1>5. AfterStop(i) = "full" BY <1>4 DEF AfterStop
<1>6. CASE power.source = "down"
  <2> DEFINE u == [wrk[i].t EXCEPT !.stopped = TRUE]
  <2>1. Save(i, u, "full") /\ power' = power BY Zenon, <1>5, <1>6 DEF ShutdownSource, engines
  <2>2. Moved(u, wrk[i].t, wrk[i].t.phase, wrk[i].t.requested, wrk[i].t.started) BY Zenon, <1>2, MovedRows
  <2>3. "full" \in Places /\ CalmFits("full", wrk[i].action, power') BY <1>4, <1>6, <2>1 DEF CalmFits, Places
  <2> HIDE DEF u
  <2> QED BY Zenon, <1>1, <2>1, <2>2, <2>3, CalmSaves
<1>7. CASE power.source = "up"
  <2>1. Jump(i, "stopping") /\ power' = [power EXCEPT !["source"] = "stopping"] BY Zenon, <1>2, <1>7 DEF ShutdownSource
  <2>2. power'.source = "stopping" /\ power'.target = power.target BY Zenon, <2>1 DEF Inv, Shapes, Powers
  <2>3. "stopping" \in Places /\ CalmFits("stopping", wrk[i].action, power') BY <1>4, <2>2 DEF CalmFits, Places
  <2> QED BY Zenon, <1>1, <2>1, <2>3, CalmJumps
<1> QED BY Zenon, <1>4, <1>6, <1>7

\* The source is down.
LEMMA CalmSourceStopped ==
    ASSUME Inv, Undisturbed, Calm, Calm', count' = count, NEW i \in Instances, Active(i), SourceStopped(i)
    PROVE  Undisturbed'
<1>1. conf' = conf /\ pause' = pause /\ proc' = proc BY Zenon DEF At, SourceStopped
<1>2. /\ wrk[i].synced /\ wrk[i].t \in Rows /\ wrk[i].pc # "none" /\ CalmFits(wrk[i].pc, wrk[i].action, power) /\ ~Breaks(i)
  BY Zenon, CalmWorker DEF Active
<1>3. wrk[i].pc = "stopping" BY Zenon DEF At, SourceStopped
<1>4. wrk[i].action = "prepare" /\ conf.mode = "cold" /\ power.target = "none" BY <1>2, <1>3 DEF CalmFits
<1> DEFINE u == [wrk[i].t EXCEPT !.stopped = TRUE]
<1>5. AfterStop(i) = "full" BY <1>4 DEF AfterStop
<1>6. Save(i, u, "full") /\ power' = power /\ power.source = "down" BY Zenon, <1>5 DEF SourceStopped, engines
<1>7. Moved(u, wrk[i].t, wrk[i].t.phase, wrk[i].t.requested, wrk[i].t.started) BY Zenon, <1>2, MovedRows
<1>8. "full" \in Places /\ CalmFits("full", wrk[i].action, power') BY <1>4, <1>6 DEF CalmFits, Places
<1> HIDE DEF u
<1> QED BY Zenon, <1>1, <1>6, <1>7, <1>8, CalmSaves

\* The incremental backup is taken.
LEMMA CalmSynchronize ==
    ASSUME Inv, Undisturbed, Calm, Calm', count' = count, NEW i \in Instances, Active(i), Synchronize(i)
    PROVE  Undisturbed'
<1>1. conf' = conf /\ pause' = pause /\ proc' = proc BY Zenon DEF At, Synchronize
<1>2. /\ wrk[i].synced /\ wrk[i].t \in Rows /\ wrk[i].pc # "none" /\ CalmFits(wrk[i].pc, wrk[i].action, power) /\ ~Breaks(i)
  BY Zenon, CalmWorker DEF Active
<1>3. wrk[i].pc = "sync" BY Zenon DEF At, Synchronize
<1>4. wrk[i].action \in {"prepare", "sync"} /\ conf.mode = "warm" /\ power.target = "down" BY <1>2, <1>3 DEF CalmFits
<1> DEFINE u == [wrk[i].t EXCEPT !.phase = "other"]
<1>5. /\ Write(i, u, [wrk[i] EXCEPT !.t = u, !.pc = "delta", !.img = Backup]) /\ lock' = lock /\ power' = power
  BY Zenon, <1>2, <1>4 DEF Synchronize, engines
<1>6. Moved(u, wrk[i].t, "other", wrk[i].t.requested, wrk[i].t.started) BY Zenon, <1>2, MovedRows DEF Phases
<1>7. "delta" \in Places /\ CalmFits("delta", wrk[i].action, power') BY <1>4, <1>5 DEF CalmFits, Places
<1> HIDE DEF u
<1> QED BY Zenon, <1>1, <1>5, <1>6, <1>7, CalmBackups

\* The delta is on the disks: the transfer is ready.
LEMMA CalmApplyDelta ==
    ASSUME Inv, Undisturbed, Calm, Calm', count' = count, NEW i \in Instances, Active(i), ApplyDelta(i)
    PROVE  Undisturbed'
<1>1. conf' = conf /\ pause' = pause /\ proc' = proc BY Zenon DEF At, ApplyDelta
<1>2. /\ wrk[i].synced /\ wrk[i].t \in Rows /\ wrk[i].pc # "none" /\ CalmFits(wrk[i].pc, wrk[i].action, power) /\ ~Breaks(i)
  BY Zenon, CalmWorker DEF Active
<1>3. wrk[i].pc = "delta" BY Zenon DEF At, ApplyDelta
<1>4. wrk[i].action # "cutover" /\ power.target = "down" /\ power.target # "none" BY <1>2, <1>3 DEF CalmFits
<1> DEFINE u == [wrk[i].t EXCEPT !.status = "ready"]
<1>5. Finish(i, u) /\ power' = power BY Zenon, <1>2, <1>4 DEF ApplyDelta
<1>6. "ready" \in Status /\ "other" \in Phases BY Zenon DEF Status, Phases
<1>7. Over([u EXCEPT !.next = "none"], wrk[i].t, "ready", wrk[i].t.phase, wrk[i].t.requested, wrk[i].t.started)
  BY Zenon, <1>2, <1>6, OverRows
<1>8. "ready" \in {"ready", "awaiting_confirmation"} /\ power'.target = "down" BY <1>4, <1>5
<1> HIDE DEF u
<1> QED BY Zenon, <1>1, <1>5, <1>7, <1>8, CalmEnds

\* The start of the target is noted.
LEMMA CalmStartTarget ==
    ASSUME Inv, Undisturbed, Calm, Calm', count' = count, NEW i \in Instances, Active(i), StartTarget(i)
    PROVE  Undisturbed'
<1>1. conf' = conf /\ pause' = pause /\ proc' = proc BY Zenon DEF At, StartTarget
<1>2. /\ wrk[i].synced /\ wrk[i].t \in Rows /\ wrk[i].pc # "none" /\ CalmFits(wrk[i].pc, wrk[i].action, power) /\ ~Breaks(i)
  BY Zenon, CalmWorker DEF Active
<1>3. wrk[i].pc = "start" BY Zenon DEF At, StartTarget
<1>4. wrk[i].action = "prepare" /\ power.source = "down" /\ power.target = "down" BY <1>2, <1>3 DEF CalmFits
<1> DEFINE u == [wrk[i].t EXCEPT !.phase = "starting"]
<1>5. Save(i, u, "check") /\ power' = power BY Zenon, <1>2, <1>4 DEF StartTarget, engines
<1>6. Moved(u, wrk[i].t, "starting", wrk[i].t.requested, wrk[i].t.started) BY Zenon, <1>2, MovedRows DEF Phases
<1>7. "check" \in Places /\ CalmFits("check", wrk[i].action, power') BY <1>4, <1>5 DEF CalmFits, Places
<1> HIDE DEF u
<1> QED BY Zenon, <1>1, <1>5, <1>6, <1>7, CalmSaves

\* The source is off.
LEMMA CalmCheckSource ==
    ASSUME Inv, Undisturbed, Calm, Calm', count' = count, NEW i \in Instances, Active(i), CheckSource(i)
    PROVE  Undisturbed'
<1>1. conf' = conf /\ pause' = pause /\ proc' = proc BY Zenon DEF At, CheckSource
<1>2. /\ wrk[i].synced /\ wrk[i].t \in Rows /\ wrk[i].pc # "none" /\ CalmFits(wrk[i].pc, wrk[i].action, power) /\ ~Breaks(i)
  BY Zenon, CalmWorker DEF Active
<1>3. wrk[i].pc = "check" BY Zenon DEF At, CheckSource
<1>4. wrk[i].action = "prepare" /\ power.source = "down" /\ power.target = "down" /\ power.target # "none" BY <1>2, <1>3 DEF CalmFits
<1> DEFINE u == [wrk[i].t EXCEPT !.requested = TRUE]
<1>5. Save(i, u, "request") /\ power' = power BY Zenon, <1>2, <1>4 DEF CheckSource, engines
<1>6. Moved(u, wrk[i].t, wrk[i].t.phase, TRUE, wrk[i].t.started) BY Zenon, <1>2, MovedRows DEF Phases
<1>7. "request" \in Places /\ CalmFits("request", wrk[i].action, power') BY <1>4, <1>5 DEF CalmFits, Places
<1> HIDE DEF u
<1> QED BY Zenon, <1>1, <1>5, <1>6, <1>7, CalmSaves

\* The target starts.
LEMMA CalmRequestStart ==
    ASSUME Inv, Undisturbed, Calm, Calm', count' = count, NEW i \in Instances, Active(i), RequestStart(i)
    PROVE  Undisturbed'
<1>1. conf' = conf /\ pause' = pause /\ proc' = proc BY Zenon DEF At, RequestStart
<1>2. /\ wrk[i].synced /\ wrk[i].t \in Rows /\ wrk[i].pc # "none" /\ CalmFits(wrk[i].pc, wrk[i].action, power) /\ ~Breaks(i)
  BY Zenon, CalmWorker DEF Active
<1>3. wrk[i].pc = "request" BY Zenon DEF At, RequestStart
<1>4. wrk[i].action = "prepare" /\ power.source = "down" /\ power.target = "down" BY <1>2, <1>3 DEF CalmFits
<1> DEFINE u == [wrk[i].t EXCEPT !.started = TRUE]
<1>5. Save(i, u, "guest") /\ power' = [power EXCEPT !["target"] = "up"] BY Zenon, <1>2, <1>4 DEF RequestStart, Goes
<1>6. Moved(u, wrk[i].t, wrk[i].t.phase, wrk[i].t.requested, TRUE) BY Zenon, <1>2, MovedRows
<1>7. power'.target = "up" BY Zenon, <1>5 DEF Inv, Shapes, Powers
<1>8. "guest" \in Places /\ CalmFits("guest", wrk[i].action, power') BY <1>4, <1>7 DEF CalmFits, Places
<1> HIDE DEF u
<1> QED BY Zenon, <1>1, <1>5, <1>6, <1>8, CalmSaves

\* The guest answers.
LEMMA CalmAwaitConfirmation ==
    ASSUME Inv, Undisturbed, Calm, Calm', count' = count, NEW i \in Instances, Active(i), AwaitConfirmation(i)
    PROVE  Undisturbed'
<1>1. conf' = conf /\ pause' = pause /\ proc' = proc BY Zenon DEF At, AwaitConfirmation
<1>2. /\ wrk[i].synced /\ wrk[i].t \in Rows /\ wrk[i].pc # "none" /\ CalmFits(wrk[i].pc, wrk[i].action, power) /\ ~Breaks(i)
  BY Zenon, CalmWorker DEF Active
<1>3. wrk[i].pc = "guest" BY Zenon DEF At, AwaitConfirmation
<1>4. power.target = "up" BY <1>2, <1>3 DEF CalmFits
<1> DEFINE u == [wrk[i].t EXCEPT !.status = "awaiting_confirmation", !.phase = "starting", !.started = TRUE]
<1>5. Finish(i, u) /\ power' = power BY Zenon, <1>2, <1>4 DEF AwaitConfirmation, engines
<1>6. "awaiting_confirmation" \in Status /\ "starting" \in Phases BY Zenon DEF Status, Phases
<1>7. Over([u EXCEPT !.next = "none"], wrk[i].t, "awaiting_confirmation", "starting", wrk[i].t.requested, TRUE)
  BY Zenon, <1>2, <1>6, OverRows
<1>8. "awaiting_confirmation" \in {"ready", "awaiting_confirmation"} /\ "awaiting_confirmation" # "ready" OBVIOUS
<1> HIDE DEF u
<1> QED BY Zenon, <1>1, <1>5, <1>7, <1>8, CalmEnds

\* A worker gets its turn, or finds that its row is another one by now.
LEMMA CalmAdmit ==
    ASSUME Inv, Undisturbed, Calm, Calm', count' = count, NEW i \in Instances, Admit(i) \/ NotAdmitted(i)
    PROVE  Undisturbed'
<1>1. conf' = conf /\ pause' = pause /\ proc' = proc /\ power' = power BY Zenon DEF Admit, NotAdmitted, engines
<1>2. Base /\ wrk[i] \in Workers /\ row \in Rows /\ wrk[i].pc = "wait" BY Zenon DEF Inv, Base, Admit, NotAdmitted
<1>3. CASE Admit(i)
  <2> DEFINE u == [row EXCEPT !.status = "running", !.pending = "none"]
             pc == Entry(wrk[i].action)
  <2>1. CalmFits("wait", wrk[i].action, power) BY Zenon, <1>2, <1>3 DEF Undisturbed, Admit
  <2>2. \/ wrk[i].action = "prepare" /\ power.source \in {"up", "down"} /\ power.target = "none"
        \/ wrk[i].action = "sync" /\ conf.mode = "warm" /\ power.target = "down"
    BY <2>1 DEF CalmFits
  <2>3. pc \in {"plan", "sync"} /\ CalmFits(pc, wrk[i].action, power') BY <1>1, <2>2 DEF CalmFits, Entry
  <2>4. Write(i, u, [wrk[i] EXCEPT !.pc = pc, !.t = u]) /\ lock' = i BY Zenon, <1>3 DEF Admit
  <2>5. u.status = "running" /\ u.tries = row.tries /\ u.rollbacks = row.rollbacks BY Zenon, <1>2 DEF Rows
  <2> HIDE DEF u, pc
  <2>6. wrk'[i] = [wrk[i] EXCEPT !.pc = pc, !.t = u] /\ row' = u BY Zenon, <2>4 DEF Write
  <2>7. wrk'[i].pc = pc /\ wrk'[i].action = wrk[i].action BY Zenon, <1>2, <2>6 DEF Workers
  <2>8. ASSUME NEW j \in Instances \ {i} PROVE ~wrk'[j].synced
    <3>1. wrk'[j] = [wrk[j] EXCEPT !.synced = FALSE] /\ wrk[j] \in Workers BY Zenon, <1>2, <2>4 DEF Write, Base
    <3> QED BY Zenon, <3>1 DEF Workers
  <2> QED BY Zenon, <1>1, <2>3, <2>4, <2>5, <2>6, <2>7, <2>8, CalmOn
<1>4. CASE NotAdmitted(i)
  <2>1. row' = row /\ wrk' = [wrk EXCEPT ![i] = Idle] /\ ~wrk[i].synced BY Zenon, <1>4 DEF NotAdmitted, Return
  <2>2. lock # i /\ lock' = lock
    <3>1. ~Active(i) /\ count["lost"] = 0 BY Zenon, <1>2 DEF Active, Calm, Counters
    <3>2. lock # i BY Zenon, <1>2, <3>1, SettingsAssumption DEF Base, Locked
    <3> QED BY Zenon, <1>4, <3>2 DEF NotAdmitted, Return
  <2>3. ~Idle.synced BY Zenon, IdleWorker DEF Worker
  <2>4. wrk'[i] = Idle /\ \A j \in Instances \ {i} : wrk'[j] = wrk[j] BY Zenon, <1>2, <2>1 DEF Base
  <2>5. CalmRow' BY Zenon, <1>1, <2>1, <2>2, <2>4 DEF CalmRow, Undisturbed
  <2>6. ASSUME NEW j \in Instances, wrk'[j].synced PROVE CalmFits(wrk[j].pc, wrk[j].action, power)'
    <3>1. wrk'[j] = wrk[j] BY Zenon, <2>3, <2>4, <2>6
    <3>2. CalmFits(wrk[j].pc, wrk[j].action, power) BY Zenon, <2>6, <3>1 DEF Undisturbed
    <3> QED BY Zenon, <1>1, <3>1, <3>2 DEF CalmFits
  <2> QED BY Zenon, <1>1, <2>5, <2>6 DEF Undisturbed
<1> QED BY Zenon, <1>3, <1>4

\* The places where a worker that is not disturbed never is.
LEMMA CalmElsewhere ==
    ASSUME Inv, Undisturbed, Calm, Calm', count' = count, NEW i \in Instances, wrk[i].pc # "none"
    PROVE  /\ ~SourceDoesNotStop(i) /\ ~RecoverTarget(i) /\ ~Undo(i) /\ ~FindTarget(i) /\ ~TargetHalted(i)
           /\ ~TargetDoesNotHalt(i) /\ ~DeleteTarget(i) /\ ~RestoreSource(i) /\ ~Held(i) /\ ~Undone(i) /\ ~BrokenOff(i)
<1>1. ~BrokenOff(i) BY Zenon, CalmWorker DEF BrokenOff
<1>2. Active(i) => CalmFits(wrk[i].pc, wrk[i].action, power) BY Zenon, CalmWorker
<1>3. wrk[i].pc \notin {"recover", "undo", "find", "halt", "delete", "source", "held", "undone"} BY <1>2 DEF Active, CalmFits
<1>4. ~(wrk[i].pc = "stopping" /\ power["source"] = "up") BY <1>2 DEF Active, CalmFits
<1>5. ~SourceDoesNotStop(i) BY Zenon, <1>4 DEF SourceDoesNotStop, At
<1> QED BY Zenon, <1>1, <1>3, <1>5 DEF At, RecoverTarget, Undo, FindTarget, TargetHalted, TargetDoesNotHalt,
           DeleteTarget, RestoreSource, Held, Undone

\* Every step of a worker that is not disturbed.
LEMMA CalmWork ==
    ASSUME Inv, Undisturbed, Calm, Calm', count' = count, NEW i \in Instances, Work(i) PROVE Undisturbed'
<1>1. wrk[i].pc # "none" BY Zenon, WorkShape DEF WorkFrame
<1>2. CASE wrk[i].pc = "wait"
  BY Zenon, <1>1, <1>2, CalmAdmit, CalmElsewhere DEF Work, At, Plan, FullBackup, CreateTarget, TargetCreated, FillTarget, StopSource,
     ShutdownSource, SourceStopped, Synchronize, ApplyDelta, StartTarget, CheckSource, RequestStart, AwaitConfirmation
<1>3. CASE wrk[i].pc # "wait"
  <2>1. Active(i) BY Zenon, <1>1, <1>3 DEF Active
  <2> QED BY Zenon, <1>1, <2>1, CalmAdmit, CalmElsewhere, CalmPlan, CalmFullBackup, CalmCreateTarget, CalmTargetCreated,
             CalmFillTarget, CalmStopSource, CalmShutdownSource, CalmSourceStopped, CalmSynchronize, CalmApplyDelta,
             CalmStartTarget, CalmCheckSource, CalmRequestStart, CalmAwaitConfirmation DEF Work
<1> QED BY Zenon, <1>2, <1>3

\* Steps that touch neither the row nor a worker.
LEMMA CalmStays ==
    ASSUME Undisturbed, Calm, conf' = conf, row' = row, pause' = pause, lock' = lock, wrk' = wrk, proc' = proc, power' = power
    PROVE  Undisturbed'
<1>1. CalmRow' BY Zenon DEF Undisturbed, CalmRow
<1>2. ASSUME NEW j \in Instances, wrk'[j].synced PROVE CalmFits(wrk[j].pc, wrk[j].action, power)'
  <2>1. CalmFits(wrk[j].pc, wrk[j].action, power) BY Zenon, <1>2 DEF Undisturbed
  <2> QED BY Zenon, <2>1 DEF CalmFits
<1> QED BY Zenon, <1>1, <1>2 DEF Undisturbed

\* Run keeps a ready transfer up to date.
LEMMA CalmTick ==
    ASSUME Inv, Undisturbed, Calm, NEW i \in Instances, TickSync(i) PROVE Undisturbed'
<1>1. CASE UNCHANGED <<conf, row, pause, lock, wrk, proc, engines>> BY Zenon, <1>1, CalmStays DEF engines
<1>2. CASE MayUpdate(row) /\ Act(i, "sync")
  <2>1. conf.mode = "warm" /\ row.status = "ready"
    <3>1. row.status \in {"queued", "running", "ready", "awaiting_confirmation"} BY Zenon DEF Undisturbed, CalmRow
    <3> QED BY <1>2, <3>1 DEF MayUpdate
  <2>2. power.target = "down" BY Zenon, <2>1 DEF Undisturbed, CalmRow
  <2> DEFINE v == [row EXCEPT !.manual = FALSE, !.tries = 0, !.rollbacks = 0, !.next = "none"]
             u == [v EXCEPT !.status = "queued", !.phase = "other", !.pending = "sync", !.active = "sync"]
  <2>3. Chosen("sync") = {"sync"} BY Zenon, <1>2 DEF Chosen
  <2>4. StartLocked(i, v, "sync") BY Zenon, <1>2, <2>3 DEF Act
  <2>5. Write(i, u, Waiting("sync", u)) /\ pause' = FALSE /\ conf' = conf /\ proc' = proc /\ power' = power
    BY Zenon, <2>4 DEF StartLocked, engines
  <2>6. row \in Rows /\ wrk \in [Instances -> Workers] BY Zenon DEF Inv, Base
  <2>7. v \in Rows /\ v.tries = 0 /\ v.rollbacks = 0
    <3>1. 0 \in Nat /\ FALSE \in BOOLEAN /\ "none" \in Actions \cup {"none"} OBVIOUS
    <3> QED BY Zenon, <2>6, <3>1 DEF Rows
  <2> HIDE DEF v
  <2>8. u \in Rows /\ u.status = "queued" /\ u.tries = 0 /\ u.rollbacks = 0
    <3>1. "queued" \in Status /\ "other" \in Phases /\ "sync" \in Actions BY Zenon DEF Status, Phases, Actions
    <3> QED BY Zenon, <2>7, <3>1 DEF Rows
  <2> HIDE DEF u
  <2>9. Waiting("sync", u).pc = "wait" /\ Waiting("sync", u).action = "sync" /\ Waiting("sync", u).synced
    <3>1. Idle \in Workers BY Zenon, IdleWorker DEF Worker
    <3> QED BY Zenon, <3>1 DEF Waiting, Workers
  <2>10. wrk'[i] = Waiting("sync", u) /\ row' = u BY Zenon, <2>5 DEF Write
  <2>11. ASSUME NEW j \in Instances \ {i} PROVE ~wrk'[j].synced
    <3>1. wrk'[j] = [wrk[j] EXCEPT !.synced = FALSE] /\ wrk[j] \in Workers BY Zenon, <2>5, <2>6 DEF Write
    <3> QED BY Zenon, <3>1 DEF Workers
  <2>12. CalmRow'
    <3>1. row'.status = "queued" /\ row'.tries = 0 /\ row'.rollbacks = 0 BY Zenon, <2>8, <2>10
    <3>2. \E j \in Instances : wrk'[j].pc = "wait" /\ wrk'[j].synced BY Zenon, <2>9, <2>10
    <3> QED BY Zenon, <3>1, <3>2 DEF CalmRow
  <2>13. CalmFits(wrk[i].pc, wrk[i].action, power)' BY Zenon, <2>1, <2>2, <2>5, <2>9, <2>10 DEF CalmFits
  <2>14. ~pause' /\ \A j \in Instances : proc'[j] \in {"up", "off"} BY Zenon, <2>5 DEF Undisturbed
  <2> QED BY Zenon, <2>11, <2>12, <2>13, <2>14 DEF Undisturbed
<1> QED BY Zenon, <1>1, <1>2 DEF TickSync

\* A machine that was asked to shut down does so.
LEMMA CalmGoesDown ==
    ASSUME Inv, Undisturbed, Calm, NEW m \in {"source", "target"}, GoesDown(m) PROVE Undisturbed'
<1>1. conf' = conf /\ row' = row /\ pause' = pause /\ lock' = lock /\ wrk' = wrk /\ proc' = proc BY Zenon DEF GoesDown
<1>2. power \in Powers BY Zenon DEF Inv, Shapes
<1>3. /\ power'.source = power.source \/ (power.source = "stopping" /\ power'.source = "down")
      /\ power'.target = power.target \/ (power.target = "stopping" /\ power'.target = "down")
  BY <1>2 DEF GoesDown, Powers
<1>4. CalmRow'
  <2>1. power.target = "down" => power'.target = "down" BY <1>3
  <2> QED BY Zenon, <1>1, <2>1 DEF Undisturbed, CalmRow
<1>5. ASSUME NEW j \in Instances, wrk'[j].synced PROVE CalmFits(wrk[j].pc, wrk[j].action, power)'
  <2>1. CalmFits(wrk[j].pc, wrk[j].action, power) BY Zenon, <1>1, <1>5 DEF Undisturbed
  <2>2. /\ power.source \in {"up", "down"} => power'.source \in {"up", "down"}
        /\ power.source \in {"stopping", "down"} => power'.source \in {"stopping", "down"}
        /\ power.source = "down" => power'.source = "down"
        /\ power.target \in {"up", "down", "none"} => power'.target = power.target
    BY <1>3
  <2>3. CalmFits(wrk[j].pc, wrk[j].action, power') BY <2>1, <2>2 DEF CalmFits
  <2> QED BY Zenon, <1>1, <2>3 DEF CalmFits
<1> QED BY Zenon, <1>1, <1>4, <1>5 DEF Undisturbed

\* Every step of a transfer that is not disturbed.
LEMMA UndisturbedNext == Inv /\ Undisturbed /\ [Next]_vars => Undisturbed'
<1> SUFFICES ASSUME Inv, Undisturbed, [Next]_vars, Calm' PROVE Undisturbed' BY Zenon DEF Undisturbed
<1>1. CASE UNCHANGED vars
  <2>1. /\ conf' = conf /\ row' = row /\ pause' = pause /\ lock' = lock /\ wrk' = wrk /\ proc' = proc /\ power' = power
        /\ count' = count
    BY Zenon, <1>1 DEF vars
  <2>2. Calm BY Zenon, <2>1 DEF Calm
  <2> QED BY Zenon, <2>1, <2>2, CalmStays
<1>2. CASE Next
  <2>1. CountStep /\ Shapes BY Zenon, <1>2, AroundStep DEF Inv
  <2>2. Calm /\ count' = count /\ count["lost"] = 0 BY Zenon, <2>1, StaysCalm
  <2>3. ASSUME NEW k \in Counters, Once(k) PROVE FALSE BY Zenon, <2>1, <2>3, Counted DEF Calm
  <2>4. ~Once("fault") /\ ~Once("crash") /\ ~Once("lost") /\ ~Once("taken") /\ ~Once("hand") /\ ~Once("op")
    BY Zenon, <2>3 DEF Counters
  <2>5. /\ \A i \in Instances : proc[i] \in {"up", "off"}
        /\ row.status \in {"queued", "running", "ready", "awaiting_confirmation"}
        /\ row.status = "queued" => \E i \in Instances : wrk[i].pc = "wait" /\ wrk[i].synced
        /\ row.status = "running" => lock # None
    BY Zenon, <2>2 DEF Undisturbed, CalmRow
  <2>6. ASSUME NEW i \in Instances, Work(i) PROVE Undisturbed' BY Zenon, <2>2, <2>6, CalmWork
  <2>7. ASSUME NEW i \in Instances, \/ \E call \in Calls : Operate(i, call)
                                    \/ Pause(i) \/ Complete(i) \/ Forget(i) \/ Close(i) \/ Crash(i) \/ LoseLock(i)
        PROVE  FALSE
    BY Zenon, <2>4, <2>7 DEF Operate, Pause, Complete, Forget, Close, Crash, LoseLock
  <2>8. ASSUME NEW i \in Instances, Tick(i) PROVE Undisturbed' BY Zenon, <2>2, <2>8, CalmStays DEF Tick, engines
  <2>9. ASSUME NEW i \in Instances, TickSync(i) PROVE Undisturbed' BY Zenon, <2>2, <2>9, CalmTick
  <2>10. ASSUME NEW i \in Instances, Reschedule(i) PROVE FALSE
    <3>1. lock = None /\ row.status \in {"interrupted", "running", "queued"} BY Zenon, <2>10 DEF Reschedule, Automatic
    <3>2. row.status = "queued" BY <2>5, <3>1
    <3>3. \E j \in Instances : wrk[j].pc = "wait" /\ wrk[j].synced BY Zenon, <2>5, <3>2
    <3> QED BY Zenon, <2>4, <2>10, <3>3 DEF Reschedule
  <2>11. ASSUME NEW i \in Instances, Attempt(i) PROVE FALSE
    <3>1. row.status = "recovering" BY Zenon, <2>11 DEF Attempt
    <3> QED BY <2>5, <3>1
  <2>12. ASSUME NEW i \in Instances, Closed(i) \/ Start(i) PROVE FALSE
    <3>1. proc[i] \in {"closing", "down"} BY <2>12 DEF Closed, Start
    <3> QED BY <2>5, <3>1
  <2>13. ASSUME SourceStarted \/ \E m \in {"source", "target"} : Misbehaves(m) PROVE FALSE
    BY Zenon, <2>4, <2>13 DEF SourceStarted, Misbehaves
  <2>14. ASSUME NEW m \in {"source", "target"}, GoesDown(m) PROVE Undisturbed' BY Zenon, <2>2, <2>14, CalmGoesDown
  <2> QED BY Zenon, <1>2, <2>6, <2>7, <2>8, <2>9, <2>10, <2>11, <2>12, <2>13, <2>14 DEF Next
<1> QED BY Zenon, <1>1, <1>2

\* A new transfer has not been disturbed.
LEMMA UndisturbedInit == Init => Undisturbed
<1> SUFFICES ASSUME Init PROVE Undisturbed OBVIOUS
<1>1. conf \in Settings /\ conf.was \in BOOLEAN /\ conf.procs \subseteq Instances BY Zenon, SettingsAssumption DEF Init
<1>2. PICK i \in conf.procs : wrk = [j \in Instances |-> IF j = i THEN Waiting("prepare", row) ELSE Idle] BY Zenon DEF Init
<1>3. i \in Instances BY Zenon, <1>1
<1>4. row = NewRow(conf.was) BY Zenon DEF Init
<1>5. /\ row.status = "queued" /\ row.tries = 0 /\ row.rollbacks = 0
      /\ Worker(Waiting("prepare", row), "wait", "prepare", "none", TRUE, row)
  BY Zenon, <1>1, <1>4, NewRows
<1>6. wrk[i] = Waiting("prepare", row) /\ \A j \in Instances \ {i} : ~wrk[j].synced
  BY Zenon, <1>2, <1>3, IdleWorker DEF Worker
<1>7. wrk[i].pc = "wait" /\ wrk[i].action = "prepare" /\ wrk[i].synced BY Zenon, <1>5, <1>6 DEF Worker
<1>8. power.source \in {"up", "down"} /\ power.target = "none" /\ ~pause BY DEF Init
<1>9. \A j \in Instances : proc[j] \in {"up", "off"} BY DEF Init
<1>10. CalmFits(wrk[i].pc, wrk[i].action, power) BY <1>7, <1>8 DEF CalmFits
<1>11. CalmRow
  <2>1. row.status \in {"queued", "running", "ready", "awaiting_confirmation"} /\ row.status # "ready" /\ row.status # "running"
    BY <1>5
  <2> QED BY Zenon, <1>3, <1>5, <1>7, <2>1 DEF CalmRow
<1> QED BY Zenon, <1>6, <1>8, <1>9, <1>10, <1>11 DEF Undisturbed

\* LeftAlone: ReconcileRecovery takes no attempt and no rollback from a transfer that its
\* worker is busy with, in any process, until a fault, a crash, a lost session, an
\* operator or another process has come between.
THEOREM LeftAloneCorrect == Spec => []LeftAlone
<1>1. Inv /\ Undisturbed => LeftAlone
  <2> SUFFICES ASSUME Inv, Undisturbed PROVE LeftAlone OBVIOUS
  <2>1. count \in [Counters -> Nat] BY Zenon DEF Inv, Shapes
  <2>2. /\ count["fault"] \in Nat /\ count["crash"] \in Nat /\ count["lost"] \in Nat
        /\ count["taken"] \in Nat /\ count["hand"] \in Nat /\ count["op"] \in Nat
    BY Zenon, <2>1 DEF Counters
  <2>3. Calm => row.tries = 0 /\ row.rollbacks = 0 BY Zenon DEF Undisturbed, CalmRow
  <2>4. \/ Calm \/ count["fault"] # 0 \/ count["crash"] # 0 \/ count["lost"] # 0
        \/ count["taken"] # 0 \/ count["hand"] # 0 \/ count["op"] # 0
    BY Zenon DEF Calm, Counters
  <2>5. CASE Calm
    <3>1. row.tries + row.rollbacks = 0 + 0 BY Zenon, <2>3, <2>5
    <3> QED BY Zenon, <3>1, Sums DEF LeftAlone
  <2>6. CASE ~Calm
    <3>1. count["fault"] + count["crash"] + count["lost"] + count["taken"] + count["hand"] + count["op"] > 0
      BY Zenon, <2>2, <2>4, <2>6, Sums
    <3> QED BY Zenon, <3>1 DEF LeftAlone
  <2> QED BY Zenon, <2>5, <2>6
<1> QED BY <1>1, UndisturbedInit, UndisturbedNext, Invariance, PTL DEF Spec
=============================================================================
