---------------------------- MODULE Replication ----------------------------
(***************************************************************************)
(* The queue of replicas: internal/replication/replicator.go over the      *)
(* backup_copies rows of internal/store/replication.go.                    *)
(*                                                                         *)
(* A row is a restore point to be copied to a storage.  Workers of every   *)
(* instance claim rows under a lease, wait for the copy of the parent      *)
(* point, copy the objects with run.json last, and write the result.  All  *)
(* writes but the claim and the lease are whole-row updates of what the    *)
(* worker read when it claimed the row (UpdateBackupCopy).                 *)
(*                                                                         *)
(* locked_until is abstracted to: null, a lease in force, a time in the    *)
(* past, or the deadline of an Object Lock.                                *)
(***************************************************************************)
EXTENDS Naturals, FiniteSets

CONSTANTS
    Instances,      \* processes of the service on one database
    Workers,        \* worker goroutines
    Points,         \* restore points of one chain
    Parent,         \* ParentRunID of each
    Targets,        \* storages to copy to
    Settings,       \* the deployments to look at
    None

Copies == Points \X Targets

\* The bounded events: processes started again, that die, that are asked to stop;
\* transfers and inserts that fail; Cancel and Retry calls.
Kinds == {"start", "crash", "close", "failure", "cancel", "retry"}

\* at: the process of each worker; queued, mirrored: the points that are copied by the
\* queue and the ones whose replicas the engine wrote itself, the job being in parallel
\* mode; verify: the job verifies each copy; lock: the storages have Object Lock; long: a
\* transfer may take longer than the lease it was claimed with; max: the bounds.
ASSUME ReplicationAssumption ==
    /\ Settings \subseteq [at : [Workers -> Instances], queued : SUBSET Points, mirrored : SUBSET Points,
                           verify : BOOLEAN, lock : BOOLEAN, long : BOOLEAN, max : [Kinds -> Nat]]
    /\ Parent \in [Points -> Points \cup {None}]
    /\ None \notin Points \cup Workers \cup Copies

VARIABLES
    conf,       \* one of Settings
    proc,       \* Replicator of each process: down, up, or closing; off when there is none
    copy,       \* backup_copies
    dest,       \* the objects of each copy in its storage
    wrk,        \* worker goroutines
    call,       \* one API call in flight
    count       \* how often each bounded event has happened

vars == <<conf, proc, copy, dest, wrk, call, count>>

\* One more of a bounded event.
Once(kind) == count[kind] < conf.max[kind] /\ count' = [count EXCEPT ![kind] = @ + 1]

InstanceOf == conf.at
Running == {InstanceOf[w] : w \in Workers}

CopyStatus == {"none", "pending", "copying", "verifying", "succeeded", "failed", "canceled", "locked"}
Until == {"null", "lease", "past", "lock"}
Objects == {"data", "run.json"}

IdleWorker == [pc |-> "idle", copy |-> None, fresh |-> FALSE, cancelled |-> FALSE,
               manual |-> FALSE, err |-> "nil"]
NoCall == [pc |-> "none", instance |-> None, copy |-> None, status |-> "none", until |-> "null"]

\* Every process has started and nothing is queued yet.
Init ==
    /\ conf \in Settings
    /\ proc = [i \in Instances |-> IF i \in Running THEN "up" ELSE "off"]
    /\ copy = [c \in Copies |-> [status |-> "none", until |-> "null", owner |-> None, due |-> TRUE]]
    /\ dest = [c \in Copies |-> {}]
    /\ wrk = [w \in Workers |-> IdleWorker]
    /\ call = NoCall
    /\ count = [k \in Kinds |-> 0]

ParentCopy(c) == <<Parent[c[1]], c[2]>>

\* BackupCopy.Healthy.
Healthy(c) == \/ copy[c].status = "succeeded"
              \/ copy[c].status = "locked" /\ copy[c].until # "null"

\* UpdateBackupCopy: everything but locked_by.
Row(c, status, until, due) ==
    copy' = [copy EXCEPT ![c] = [status |-> status, until |-> until, owner |-> @.owner, due |-> due]]

-----------------------------------------------------------------------------
(* New rows. *)

\* QueueRun for one link of the chain that has no row yet; the ancestors come first.
\* A canceled row goes back to the queue by the same write as in Retry.
QueueRun(c) ==
    /\ c[1] \in conf.queued
    /\ copy[c].status = "none"
    /\ Parent[c[1]] # None => copy[ParentCopy(c)].status # "none"
    /\ copy' = [copy EXCEPT ![c].status = "pending"]
    /\ UNCHANGED <<conf, proc, dest, wrk, call, count>>

\* registerMirrorCopies: the storage took every object, or it refused some and
\* the queue is to send them.
RegisterMirrorCopy(c) ==
    /\ c[1] \in conf.mirrored /\ copy[c].status = "none" /\ dest[c] = {}
    /\ \/ copy' = [copy EXCEPT ![c].status = "succeeded"] /\ dest' = [dest EXCEPT ![c] = Objects]
       \/ copy' = [copy EXCEPT ![c].status = "pending"]
          /\ \E d \in {{}, {"data"}} : dest' = [dest EXCEPT ![c] = d]
    /\ UNCHANGED <<conf, proc, wrk, call, count>>

\* CreateBackupCopy fails, which is only logged: objects without a row.
RegisterMirrorCopyFails(c) ==
    /\ c[1] \in conf.mirrored /\ copy[c].status = "none" /\ dest[c] = {}
    /\ Once("failure")
    /\ dest' = [dest EXCEPT ![c] = Objects]
    /\ UNCHANGED <<conf, proc, copy, wrk, call>>

-----------------------------------------------------------------------------
(* worker and process. *)

\* Between the entry in Replicator.active and its removal.
Active == {"parent", "postpone", "block", "start", "list", "data", "manifest", "published",
           "verify", "decide", "write", "release"}
Transfers == Active \ {"release"}      \* while its context is still looked at
Busy(i, c) == \E v \in Workers : InstanceOf[v] = i /\ wrk[v].pc \in Active /\ wrk[v].copy = c

\* Mutation: a copy its worker has left behind is not taken up.
ClaimableQueued(c) == copy[c].status \in {"pending", "failed"} /\ copy[c].due

\* What the statement of ClaimBackupCopies selects.
Claimable(c) ==
    \/ copy[c].status \in {"pending", "failed"} /\ copy[c].due
    \/ copy[c].status \in {"copying", "verifying"} /\ copy[c].until \in {"null", "past"}

\* ClaimBackupCopies: the oldest row; a parent's row is older than its children's.
ClaimBackupCopies(w, c) ==
    /\ proc[InstanceOf[w]] = "up" /\ wrk[w].pc = "idle"
    /\ Claimable(c)
    /\ Parent[c[1]] # None => ~Claimable(ParentCopy(c))
    /\ copy' = [copy EXCEPT ![c] = [status |-> "copying", until |-> "lease", owner |-> w, due |-> @.due]]
    /\ wrk' = [wrk EXCEPT ![w] = [IdleWorker EXCEPT !.pc = "begin", !.copy = c, !.fresh = TRUE]]
    /\ UNCHANGED <<conf, proc, dest, call, count>>

\* Mutation: Replicator.active is written and not looked at.
RegisterUnchecked(w) ==
    /\ wrk[w].pc = "begin"
    /\ wrk' = [wrk EXCEPT ![w].pc = "parent", ![w].cancelled = (proc[InstanceOf[w]] = "closing")]
    /\ UNCHANGED <<conf, proc, copy, dest, call, count>>

\* process enters Replicator.active with a context below the replicator's, or
\* finds its copy there and leaves.
Register(w) ==
    /\ wrk[w].pc = "begin"
    /\ IF Busy(InstanceOf[w], wrk[w].copy)
       THEN wrk' = [wrk EXCEPT ![w] = IdleWorker]
       ELSE wrk' = [wrk EXCEPT ![w].pc = "parent", ![w].cancelled = (proc[InstanceOf[w]] = "closing")]
    /\ UNCHANGED <<conf, proc, copy, dest, call, count>>

\* The replicator is closed between the claim and the read of the claimed row.
LoseClaim(w) ==
    /\ wrk[w].pc = "begin" /\ proc[InstanceOf[w]] = "closing"
    /\ wrk' = [wrk EXCEPT ![w] = IdleWorker]
    /\ UNCHANGED <<conf, proc, copy, dest, call, count>>

Goto(w, pc) == wrk' = [wrk EXCEPT ![w].pc = pc]

\* The rest of process is the deferred release, which looks at nothing but the row.
Leave(w) == wrk' = [wrk EXCEPT ![w] = [IdleWorker EXCEPT !.pc = "release", !.copy = wrk[w].copy]]

\* copy.LockedUntil as the worker read it when it claimed the row.
Snap(w) == IF wrk[w].fresh THEN "lease" ELSE "past"

\* Mutation: a parent that is on its way is enough.
ParentQueued(w) ==
    Parent[wrk[w].copy[1]] # None => copy[ParentCopy(wrk[w].copy)].status \notin {"none", "canceled"}

\* ensureParentCopyReady: no parent, or a readable copy of it.
ParentReady(w) ==
    Parent[wrk[w].copy[1]] # None => Healthy(ParentCopy(wrk[w].copy))

\* The copy of the parent is still on its way.
ParentPending(w) ==
    /\ Parent[wrk[w].copy[1]] # None
    /\ copy[ParentCopy(wrk[w].copy)].status \in {"pending", "copying", "verifying", "failed"}

\* Any other answer is a structural error, and so is the refusal of a cancelled context.
CheckParent(w) ==
    /\ wrk[w].pc = "parent"
    /\ \/ ~wrk[w].cancelled /\ ParentReady(w) /\ Goto(w, "start")
       \/ ~wrk[w].cancelled /\ ~ParentReady(w) /\ ParentPending(w) /\ Goto(w, "postpone")
       \/ ~wrk[w].cancelled /\ ~ParentReady(w) /\ ~ParentPending(w) /\ Goto(w, "block")
       \/ wrk[w].cancelled /\ Goto(w, "block")
    /\ UNCHANGED <<conf, proc, copy, dest, call, count>>

PostponeForParent(w) ==
    /\ wrk[w].pc = "postpone"
    /\ Row(wrk[w].copy, "pending", Snap(w), FALSE)
    /\ Leave(w)
    /\ UNCHANGED <<conf, proc, dest, call, count>>

BlockForParent(w) ==
    /\ wrk[w].pc = "block"
    /\ Row(wrk[w].copy, "locked", Snap(w), TRUE)
    /\ Leave(w)
    /\ UNCHANGED <<conf, proc, dest, call, count>>

\* The attempt begins with the row at copying, and the row is written once more
\* when the objects of the source are listed.
StartCopy(w) ==
    /\ wrk[w].pc \in {"start", "list"} /\ ~wrk[w].cancelled
    /\ Row(wrk[w].copy, "copying", Snap(w), TRUE)
    /\ Goto(w, IF wrk[w].pc = "start" THEN "list" ELSE "data")
    /\ UNCHANGED <<conf, proc, dest, call, count>>

\* A cancelled context refuses the first update, and process returns.
StartRefused(w) ==
    /\ wrk[w].pc = "start" /\ wrk[w].cancelled
    /\ Leave(w)
    /\ UNCHANGED <<conf, proc, copy, dest, call, count>>

\* copyOne for every object but run.json, and then for run.json.
CopyData(w) ==
    /\ wrk[w].pc = "data" /\ ~wrk[w].cancelled
    /\ dest' = [dest EXCEPT ![wrk[w].copy] = @ \cup {"data"}]
    /\ Goto(w, "manifest")
    /\ UNCHANGED <<conf, proc, copy, call, count>>

CopyManifest(w) ==
    /\ wrk[w].pc = "manifest" /\ ~wrk[w].cancelled
    /\ dest' = [dest EXCEPT ![wrk[w].copy] = @ \cup {"run.json"}]
    /\ Goto(w, "published")
    /\ UNCHANGED <<conf, proc, copy, call, count>>

\* The last update of copy; its error is not looked at.
MarkVerifying(w) ==
    /\ wrk[w].pc = "published"
    /\ IF wrk[w].cancelled THEN UNCHANGED copy ELSE Row(wrk[w].copy, "verifying", Snap(w), TRUE)
    /\ Goto(w, "verify")
    /\ UNCHANGED <<conf, proc, dest, call, count>>

\* copy and verify end: well, with an error, or with the error of a cancelled context.
End(w, err) == wrk' = [wrk EXCEPT ![w].pc = "decide", ![w].err = err]

\* Without a verification, or after it; a cancelled context also skips it.
VerifyPasses(w) ==
    /\ wrk[w].pc = "verify"
    /\ End(w, "nil")
    /\ UNCHANGED <<conf, proc, copy, dest, call, count>>

Interruptible(w) ==
    wrk[w].pc \in {"list", "data", "manifest"} \/ (conf.verify /\ wrk[w].pc = "verify")

TransferFails(w) ==
    /\ Interruptible(w)
    /\ Once("failure")
    /\ End(w, "failed")
    /\ UNCHANGED <<conf, proc, copy, dest, call>>

TransferCancelled(w) ==
    /\ Interruptible(w) /\ wrk[w].cancelled
    /\ End(w, "canceled")
    /\ UNCHANGED <<conf, proc, copy, dest, call, count>>

\* Mutation: the error of the transfer is overwritten by the one of the verification.
OutcomeOfVerification(w) ==
    IF wrk[w].manual THEN "canceled" ELSE "succeeded"

\* What the end of process makes of the transfer.
Outcome(w) ==
    IF wrk[w].manual THEN "canceled"
    ELSE IF wrk[w].err = "canceled" /\ proc[InstanceOf[w]] = "closing" THEN "pending"
    ELSE IF wrk[w].err = "nil" THEN "succeeded"
    ELSE "failed"

\* Replicator.manual is read...
Decide(w) ==
    /\ wrk[w].pc = "decide"
    /\ wrk' = [wrk EXCEPT ![w].pc = "write", ![w].err = Outcome(w), ![w].manual = FALSE]
    /\ UNCHANGED <<conf, proc, copy, dest, call, count>>

\* ... and the result is written over whatever the row says now.  The deadline of an
\* Object Lock is asked for under the context of the transfer.
WriteResult(w) ==
    /\ wrk[w].pc = "write"
    /\ Row(wrk[w].copy, wrk[w].err,
           IF wrk[w].err = "succeeded" /\ conf.lock /\ ~wrk[w].cancelled THEN "lock" ELSE Snap(w),
           wrk[w].err # "failed")
    /\ Leave(w)
    /\ UNCHANGED <<conf, proc, dest, call, count>>

\* The deferred ReleaseCopyLease.
ReleaseCopyLease(w) ==
    /\ wrk[w].pc = "release"
    /\ copy' = [copy EXCEPT ![wrk[w].copy] =
                  IF @.owner = w THEN [@ EXCEPT !.until = "null", !.owner = None] ELSE @]
    /\ wrk' = [wrk EXCEPT ![w] = IdleWorker]
    /\ UNCHANGED <<conf, proc, dest, call, count>>

-----------------------------------------------------------------------------
(* Leases, retries and processes. *)

Held(c) == \E w \in Workers : copy[c].owner = w /\ wrk[w].copy = c /\ wrk[w].pc # "idle"

\* Nobody renews the lease and its time is over.
LeaseExpires(c) ==
    /\ copy[c].until = "lease" /\ ~Held(c)
    /\ copy' = [copy EXCEPT ![c].until = "past"]
    /\ UNCHANGED <<conf, proc, dest, wrk, call, count>>

\* The lease the worker read with the row ends while it still works.
SnapshotAges(w) ==
    /\ conf.long /\ wrk[w].fresh /\ wrk[w].pc \in {"data", "manifest", "published", "verify"}
    /\ wrk' = [wrk EXCEPT ![w].fresh = FALSE]
    /\ UNCHANGED <<conf, proc, copy, dest, call, count>>

\* RenewCopyLease by the goroutine beside process; when the row belongs to
\* somebody else, the context of the transfer is cancelled.
RenewCopyLease(w) ==
    /\ wrk[w].pc \in Active
    /\ \/ /\ copy[wrk[w].copy].owner = w /\ copy[wrk[w].copy].until # "lease"
          /\ copy' = [copy EXCEPT ![wrk[w].copy].until = "lease"] /\ UNCHANGED wrk
       \/ /\ copy[wrk[w].copy].owner # w /\ ~wrk[w].cancelled /\ wrk[w].pc \in Transfers
          /\ wrk' = [wrk EXCEPT ![w].cancelled = TRUE] /\ UNCHANGED copy
    /\ UNCHANGED <<conf, proc, dest, call, count>>

\* next_retry_at comes.
RetryDue(c) ==
    /\ ~copy[c].due
    /\ copy' = [copy EXCEPT ![c].due = TRUE]
    /\ UNCHANGED <<conf, proc, dest, wrk, call, count>>

\* Close cancels the context of every worker and waits for them.
Close(i) ==
    /\ proc[i] = "up" /\ Once("close")
    /\ proc' = [proc EXCEPT ![i] = "closing"]
    /\ wrk' = [w \in Workers |-> IF InstanceOf[w] = i /\ wrk[w].pc \in Transfers
                                 THEN [wrk[w] EXCEPT !.cancelled = TRUE] ELSE wrk[w]]
    /\ UNCHANGED <<conf, copy, dest, call>>

Closed(i) ==
    /\ proc[i] = "closing" /\ \A w \in Workers : InstanceOf[w] = i => wrk[w].pc = "idle"
    /\ proc' = [proc EXCEPT ![i] = "down"]
    /\ UNCHANGED <<conf, copy, dest, wrk, call, count>>

\* The process dies; the next one has another worker id.
Crash(i) ==
    /\ proc[i] \in {"up", "closing"} /\ Once("crash")
    /\ proc' = [proc EXCEPT ![i] = "down"]
    /\ wrk' = [w \in Workers |-> IF InstanceOf[w] = i THEN IdleWorker ELSE wrk[w]]
    /\ copy' = [c \in Copies |-> IF \E w \in Workers : InstanceOf[w] = i /\ copy[c].owner = w
                                 THEN [copy[c] EXCEPT !.owner = None] ELSE copy[c]]
    /\ call' = IF call.instance = i THEN NoCall ELSE call
    /\ UNCHANGED <<conf, dest>>

\* Start with RecoverInterruptedReplications.
Start(i) ==
    /\ proc[i] = "down" /\ Once("start")
    /\ proc' = [proc EXCEPT ![i] = "up"]
    /\ copy' = [c \in Copies |-> IF copy[c].status \in {"copying", "verifying"}
                                 THEN [copy[c] EXCEPT !.status = "pending", !.due = TRUE] ELSE copy[c]]
    /\ UNCHANGED <<conf, dest, wrk, call>>

-----------------------------------------------------------------------------
(* Calls of an operator: the row is read, changed and written back. *)

Read(i, c, pc) ==
    /\ proc[i] = "up" /\ call.pc = "none" /\ copy[c].status # "none"
    /\ call' = [pc |-> pc, instance |-> i, copy |-> c, status |-> copy[c].status, until |-> copy[c].until]
    /\ UNCHANGED <<conf, proc, copy, dest, wrk>>

RetryRead(i, c) == Once("retry") /\ Read(i, c, "retry")

\* Retry and QueueRun of a canceled row.
RetryWrite ==
    /\ call.pc = "retry"
    /\ Row(call.copy, "pending", call.until, TRUE)
    /\ call' = NoCall
    /\ UNCHANGED <<conf, proc, dest, wrk, count>>

CancelRead(i, c) == Once("cancel") /\ Read(i, c, "flag")

\* The context of a transfer of this process is cancelled; a copy that is
\* already settled and not in work is left alone.
CancelFlag ==
    /\ call.pc = "flag"
    /\ wrk' = [w \in Workers |->
                 IF InstanceOf[w] = call.instance /\ wrk[w].pc \in Transfers /\ wrk[w].copy = call.copy
                 THEN [wrk[w] EXCEPT !.cancelled = TRUE, !.manual = (wrk[w].pc # "write")] ELSE wrk[w]]
    /\ call' = IF \/ call.status = "canceled"
                  \/ call.status \in {"succeeded", "locked"} /\ ~Busy(call.instance, call.copy)
               THEN NoCall ELSE [call EXCEPT !.pc = "cancel"]
    /\ UNCHANGED <<conf, proc, copy, dest, count>>

CancelWrite ==
    /\ call.pc = "cancel"
    /\ Row(call.copy, "canceled", call.until, TRUE)
    /\ call' = NoCall
    /\ UNCHANGED <<conf, proc, dest, wrk, count>>

-----------------------------------------------------------------------------

Step(w) ==
    \/ Register(w) \/ LoseClaim(w) \/ CheckParent(w) \/ PostponeForParent(w) \/ BlockForParent(w)
    \/ StartCopy(w) \/ StartRefused(w) \/ CopyData(w) \/ CopyManifest(w) \/ MarkVerifying(w)
    \/ VerifyPasses(w) \/ TransferCancelled(w) \/ Decide(w) \/ WriteResult(w) \/ ReleaseCopyLease(w)

Next ==
    \/ \E c \in Copies :
          \/ QueueRun(c) \/ RegisterMirrorCopy(c) \/ RegisterMirrorCopyFails(c)
          \/ LeaseExpires(c) \/ RetryDue(c)
          \/ \E w \in Workers : ClaimBackupCopies(w, c)
          \/ \E i \in Instances : RetryRead(i, c) \/ CancelRead(i, c)
    \/ \E w \in Workers : Step(w) \/ TransferFails(w) \/ SnapshotAges(w) \/ RenewCopyLease(w)
    \/ \E i \in Instances : Close(i) \/ Closed(i) \/ Crash(i) \/ Start(i)
    \/ RetryWrite \/ CancelFlag \/ CancelWrite

Spec == Init /\ [][Next]_vars

\* A claimed copy is worked on, a worker that polls every ten seconds takes what
\* it finds, and time passes for leases and retries.
Fairness ==
    /\ \A w \in Workers : WF_vars(Step(w))
    /\ \A w \in Workers : WF_vars(\E c \in Copies : ClaimBackupCopies(w, c))
    /\ \A c \in Copies : WF_vars(LeaseExpires(c)) /\ WF_vars(RetryDue(c))

FairSpec == Spec /\ Fairness

-----------------------------------------------------------------------------
(* Properties. *)

Results == {"nil", "pending", "succeeded", "failed", "canceled"}
CopyType == [status : CopyStatus, until : Until, owner : Workers \cup {None}, due : BOOLEAN]
WorkerType ==
    [pc : Active \cup {"idle", "begin"}, copy : Copies \cup {None}, fresh : BOOLEAN,
     cancelled : BOOLEAN, manual : BOOLEAN, err : Results]
CallType ==
    [pc : {"none", "retry", "flag", "cancel"}, instance : Instances \cup {None},
     copy : Copies \cup {None}, status : CopyStatus, until : Until]

\* Every variable keeps the shape its Go type and its column give it.
TypeOK ==
    /\ conf \in Settings
    /\ proc \in [Instances -> {"down", "up", "closing", "off"}]
    /\ copy \in [Copies -> CopyType]
    /\ dest \in [Copies -> SUBSET Objects]
    /\ wrk \in [Workers -> WorkerType]
    /\ call \in CallType
    /\ count \in [Kinds -> Nat]

\* At most one worker of all processes moves the objects of a copy
\* (ClaimBackupCopies, RenewCopyLease and Replicator.active).
SingleTransfer ==
    \A v, w \in Workers :
        /\ {wrk[v].pc, wrk[w].pc} \subseteq {"list", "data", "manifest", "published", "verify"}
        /\ wrk[v].copy = wrk[w].copy
        => v = w

\* A copy reported succeeded has every object (process writes the status after
\* copy and only when it returned no error).
SucceededIsPublished ==
    \A c \in Copies : copy[c].status = "succeeded" => dest[c] = Objects

\* run.json is the last object and appears after the whole chain below it
\* (ensureParentCopyReady and the order of copy).
PublishedIsWhole ==
    \A c \in Copies : "run.json" \in dest[c] =>
        /\ "data" \in dest[c]
        /\ Parent[c[1]] # None => "run.json" \in dest[ParentCopy(c)]

\* Queued replicas are all published in the end, whatever crashes and failures it meets,
\* where nobody cancels copies or stops the service and more processes run than die.
Lasting ==
    /\ conf.max["cancel"] = 0 /\ conf.max["close"] = 0
    /\ conf.max["crash"] < Cardinality(Running)
QueuedIsPublished ==
    Lasting /\ (\E c \in Copies : copy[c].status = "pending")
        ~> \A c \in Copies : copy[c].status \in {"none", "succeeded"}
=============================================================================
