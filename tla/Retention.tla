----------------------------- MODULE Retention -----------------------------
(***************************************************************************)
(* Deleting the restore points of one VM while backups, verifications and  *)
(* operators go on: internal/backup/prune.go over the rows of              *)
(* internal/store/backup_runs.go and internal/store/replication.go.        *)
(*                                                                         *)
(* A point is numbered in the order of its backup.  A deleter is one call  *)
(* that removes points: a retention pass, PruneExpired, a DELETE request   *)
(* with or without ?purge=true, or a round of the purge collector.  Every  *)
(* statement and every storage call of it is a step of its own, so that    *)
(* two deleters, a backup and the operator's trash page interleave.        *)
(***************************************************************************)
EXTENDS RetentionRules, FiniteSetsExt

CONSTANTS MaxPoints,    \* bound: backups taken
          Primary,      \* the storage the backup writes to
          Replicas,     \* the other storages
          Policies,     \* retention policies of the job
          Deleters,     \* concurrent deleting calls
          Settings      \* configurations of the job, its storages and the service

Operations == {"retention", "prune", "delete", "purge", "collect"}
Counters   == {"crash", "fault", "verify", "undelete"}

\* replicas: the other storages of the job; mirror: they are written in the same pass
\* (registerMirrorCopies); local: they are directories, which refuse an empty prefix; lock: the storages whose objects are
\* held for a time; quarantine: PurgeDelay > 0; ops: which deleting calls occur;
\* unfinished: an operator also deletes points whose backup still runs; points: how
\* many backups are taken; max: bounds on crashes, faults, verifications and returns
\* from the trash.
Setting == [replicas : SUBSET Replicas, mirror : BOOLEAN, local : BOOLEAN,
            lock : SUBSET ({Primary} \cup Replicas), quarantine : BOOLEAN, ops : SUBSET Operations, unfinished : BOOLEAN,
            points : 0 .. MaxPoints, max : [Counters -> 0 .. 1]]

ASSUME RetentionConstants ==
    /\ MaxPoints \in Nat /\ Primary \notin Replicas
    /\ Settings \subseteq Setting

VARIABLES conf,     \* the configuration
          run,      \* table backup_runs
          copy,     \* table backup_copies
          data,     \* the points whose objects each storage has
          held,     \* the points each storage still holds under Object Lock
          exec,     \* Engine.Execute of each point
          del,      \* the deleting calls
          ver,      \* markRunVerified: the row it has read and not yet written back
          count     \* the bounded counters

vars == <<conf, run, copy, data, held, exec, del, ver, count>>

Points   == 1 .. MaxPoints
Targets  == {Primary} \cup Replicas

RunRow   == [status : {"none", "running", "succeeded", "failed"}, parent : 0 .. MaxPoints,
             deleted : BOOLEAN, purge : {"null", "waiting", "due"}]
CopyRow  == [status : {"none", "pending", "succeeded", "failed", "locked", "deleted"},
             path : {"own", "empty"}]

NoRow  == [status |-> "none", parent |-> None, deleted |-> FALSE, purge |-> "null"]
NoCopy == [status |-> "none", path |-> "own"]
Idle   == [pc |-> "idle", op |-> "delete", list |-> <<>>, todo |-> {}]
NoVer  == [pc |-> "idle", point |-> None, deleted |-> FALSE]

TypeOK ==
    /\ conf \in Settings
    /\ run \in [Points -> RunRow]
    /\ copy \in [Points -> [Targets -> CopyRow]]
    /\ data \in [Targets -> SUBSET Points]
    /\ held \in [Targets -> SUBSET Points]
    /\ exec \in [Points -> [pc : {"none", "planned", "created", "written", "ended"},
                            parent : 0 .. MaxPoints, mirrored : SUBSET Replicas]]
    /\ del \in [Deleters -> [pc : {"idle", "next", "depends", "quarantine", "copies", "erase", "note", "mark", "clear"},
                             op : Operations,
                             list : Seq(Points), todo : SUBSET Targets]]
    /\ \A d \in Deleters : del[d].pc \notin {"idle", "next"} => del[d].list # <<>>
    /\ ver \in [pc : {"idle", "read"}, point : 0 .. MaxPoints, deleted : BOOLEAN]
    /\ count \in [Counters -> Nat] /\ \A c \in Counters : count[c] <= conf.max[c]

Init ==
    /\ conf \in Settings
    /\ run = [p \in Points |-> NoRow]
    /\ copy = [p \in Points |-> [t \in Targets |-> NoCopy]]
    /\ data = [t \in Targets |-> {}]
    /\ held = [t \in Targets |-> {}]
    /\ exec = [p \in Points |-> [pc |-> "none", parent |-> None, mirrored |-> {}]]
    /\ del = [d \in Deleters |-> Idle]
    /\ ver = NoVer
    /\ count = [c \in Counters |-> 0]

Spend(c) == count[c] < conf.max[c] /\ count' = [count EXCEPT ![c] = @ + 1]

\* ListBackupRuns without IncludeDeleted, newest first.
Listed(statuses) ==
    SelectSeq(Reverse([i \in 1 .. MaxPoints |-> i]),
              LAMBDA p : ~run[p].deleted /\ run[p].status \in statuses)

Newest(list) == {list[i] : i \in DOMAIN list \cap {1}}
-----------------------------------------------------------------------------
(* Backups. *)

\* resolvePlan: the base is the newest usable point, or there is none.
ResolvePlan(p) ==
    /\ exec[p].pc = "none" /\ p <= conf.points
    /\ \A q \in Points : q < p => exec[q].pc # "none"
    /\ \E q \in {None} \cup Newest(Listed({"succeeded"})) :
          exec' = [exec EXCEPT ![p].pc = "planned", ![p].parent = q]
    /\ UNCHANGED <<conf, run, copy, data, held, del, ver, count>>

\* CreateTransferBackupRun inserts the row and EnsurePrimaryCopy its copy.
CreateRun(p) ==
    /\ exec[p].pc = "planned"
    /\ run' = [run EXCEPT ![p] = [NoRow EXCEPT !.status = "running", !.parent = exec[p].parent]]
    /\ copy' = [copy EXCEPT ![p][Primary].status = "pending"]
    /\ exec' = [exec EXCEPT ![p].pc = "created"]
    /\ UNCHANGED <<conf, data, held, del, ver, count>>

\* The disks, the configuration and run.json go to the primary storage and, in
\* the parallel mode, to the mirrors that accept them.
WriteObjects(p) ==
    /\ exec[p].pc = "created"
    /\ \E m \in IF conf.mirror THEN SUBSET conf.replicas ELSE {{}} :
          /\ exec' = [exec EXCEPT ![p].pc = "written", ![p].mirrored = m]
          /\ data' = [t \in Targets |-> IF t \in {Primary} \cup m THEN data[t] \cup {p} ELSE data[t]]
          /\ held' = [t \in Targets |-> IF t \in conf.lock \cap ({Primary} \cup m)
                                        THEN held[t] \cup {p} ELSE held[t]]
    /\ UNCHANGED <<conf, run, copy, del, ver, count>>

\* A replica's row: registerMirrorCopies leaves its RepoPath empty, QueueRun of
\* the replicator takes the run's.
ReplicaRow(p, t) ==
    IF conf.mirror THEN [status |-> IF t \in exec[p].mirrored THEN "succeeded" ELSE "pending", path |-> "empty"]
    ELSE [status |-> "pending", path |-> "own"]

\* UpdateBackupRun writes the whole row from the memory of Execute, the
\* deleted flag included, and SyncPrimaryCopy the status of the primary copy.
FinishRun(p) ==
    /\ exec[p].pc = "written"
    /\ run' = [run EXCEPT ![p].status = "succeeded", ![p].deleted = FALSE]
    /\ copy' = [copy EXCEPT ![p] = [t \in Targets |->
                   IF t = Primary THEN [@[t] EXCEPT !.status = "succeeded"]
                   ELSE IF t \in conf.replicas THEN ReplicaRow(p, t) ELSE @[t]]]
    /\ exec' = [exec EXCEPT ![p].pc = "ended"]
    /\ UNCHANGED <<conf, data, held, del, ver, count>>

\* failRun, or ReconcileStaleRuns after a restart.
FailRun(p) ==
    /\ exec[p].pc \in {"created", "written"}
    /\ Spend("fault")
    /\ run' = [run EXCEPT ![p].status = "failed", ![p].deleted = FALSE]
    /\ copy' = [copy EXCEPT ![p][Primary].status = "failed"]
    /\ exec' = [exec EXCEPT ![p].pc = "ended"]
    /\ UNCHANGED <<conf, data, held, del, ver>>

\* A replica is copied from the primary (Replication has the steps).
ReplicaDone(p, t) ==
    /\ copy[p][t].status = "pending" /\ copy[p][Primary].status = "succeeded"
    /\ p \in data[Primary]
    /\ copy' = [copy EXCEPT ![p][t].status = "succeeded"]
    /\ data' = [data EXCEPT ![t] = @ \cup {p}]
    /\ held' = IF t \in conf.lock THEN [held EXCEPT ![t] = @ \cup {p}] ELSE held
    /\ UNCHANGED <<conf, run, exec, del, ver, count>>

\* markRunVerified reads the row and writes the whole of it back, with the
\* deleted flag it read; SyncPrimaryCopy then derives the primary copy's status
\* from the run's.
VerifyRead(p) ==
    /\ ver.pc = "idle" /\ run[p].status = "succeeded"
    /\ Spend("verify")
    /\ ver' = [pc |-> "read", point |-> p, deleted |-> run[p].deleted]
    /\ UNCHANGED <<conf, run, copy, data, held, exec, del>>

VerifyWrite ==
    /\ ver.pc = "read"
    /\ run' = [run EXCEPT ![ver.point].deleted = ver.deleted]
    /\ copy' = [copy EXCEPT ![ver.point][Primary].status = "succeeded"]
    /\ ver' = NoVer
    /\ UNCHANGED <<conf, data, held, exec, del, count>>
-----------------------------------------------------------------------------
(* Deleting calls. *)

Point(d) == Head(del[d].list)

DropInPlace(d) == del' = [del EXCEPT ![d].list = Tail(@), ![d].todo = {}]

\* The point is done with, or refused: the call goes on with its next one.
Drop(d) == del' = [del EXCEPT ![d].pc = "next", ![d].list = Tail(@), ![d].todo = {}]

At(d, pc) == del[d].pc = pc /\ del[d].list # <<>>

Goto(d, pc) == del' = [del EXCEPT ![d].pc = pc]

Begin(d, op, list) ==
    /\ del[d].pc = "idle" /\ op \in conf.ops /\ list # <<>>
    /\ del' = [del EXCEPT ![d] = [Idle EXCEPT !.pc = "next", !.op = op, !.list = list]]
    /\ UNCHANGED <<conf, run, copy, data, held, exec, ver, count>>

\* applyRetention: the plan over the points of the storage, as they are now.
ApplyRetention(d) ==
    \E policy \in Policies :
        Begin(d, "retention",
              Delete(policy, Listed({"succeeded"}), [p \in Points |-> p],
                     [p \in Points |-> run[p].parent], MaxPoints))

\* PruneExpired: any of the finished points may carry an expiry that has
\* passed; only a point that succeeded has one.
PruneExpired(d) ==
    \E expired \in SUBSET {p \in Points : run[p].status = "succeeded"} :
        Begin(d, "prune", SelectSeq(Listed({"succeeded", "failed"}), LAMBDA p : p \in expired))

\* handleDeleteRun, without and with ?purge=true.
Deletable(p) == run[p].status # "none" /\ (run[p].status = "running" => conf.unfinished)

DeleteRun(d, p) == Deletable(p) /\ \E op \in {"delete", "purge"} : Begin(d, op, <<p>>)

\* A round of RunPurgeCollector: RunsDueForPurge, then each of them.
PurgeExpired(d) ==
    /\ conf.quarantine
    /\ Begin(d, "collect", SelectSeq([i \in 1 .. MaxPoints |-> i], LAMBDA p : run[p].purge = "due"))

\* DeleteRunData leaves a point alone that is deleted already; PurgeRunData and
\* the collector do not look at the flag.
Take(d) ==
    /\ del[d].pc = "next"
    /\ \/ del[d].list = <<>> /\ del' = [del EXCEPT ![d] = Idle]
       \/ /\ del[d].list # <<>>
          /\ IF del[d].op \in {"retention", "prune", "delete"} /\ run[Point(d)].deleted
             THEN Drop(d)
             ELSE Goto(d, "depends")
    /\ UNCHANGED <<conf, run, copy, data, held, exec, ver, count>>

\* dependents: the points not deleted whose walk to the root reaches p through
\* points not deleted.
Dependents(p) ==
    LET through[q \in 0 .. MaxPoints] ==
            /\ q > p /\ run[q].status # "none" /\ ~run[q].deleted
            /\ run[q].parent = p \/ through[run[q].parent]
    IN  {q \in Points : through[q]}

Quarantines(d) == conf.quarantine /\ del[d].op \in {"retention", "prune", "delete"}

CheckDependentsSkipped(d) ==
    /\ At(d, "depends")
    /\ Goto(d, IF Quarantines(d) THEN "quarantine" ELSE "copies")
    /\ UNCHANGED <<conf, run, copy, data, held, exec, ver, count>>

CheckDependents(d) ==
    /\ At(d, "depends")
    /\ IF Dependents(Point(d)) # {}
       THEN Drop(d)
       ELSE Goto(d, IF Quarantines(d) THEN "quarantine" ELSE "copies")
    /\ UNCHANGED <<conf, run, copy, data, held, exec, ver, count>>

\* QuarantineRun.
QuarantineRunUnmarked(d) ==
    /\ At(d, "quarantine")
    /\ run' = [run EXCEPT ![Point(d)].purge = "waiting"]
    /\ Drop(d)
    /\ UNCHANGED <<conf, copy, data, held, exec, ver, count>>

QuarantineRun(d) ==
    /\ At(d, "quarantine")
    /\ run' = [run EXCEPT ![Point(d)].deleted = TRUE, ![Point(d)].purge = "waiting"]
    /\ Drop(d)
    /\ UNCHANGED <<conf, copy, data, held, exec, ver, count>>

Healthy(c) == c.status \in {"succeeded", "locked"}

AfterCopy(todo) == IF todo = {} THEN "mark" ELSE "erase"

\* ListBackupCopies: a required replica that is not complete stops the
\* deletion; the rows that are not deleted yet are to be erased.
ListCopiesSkipping(d) ==
    LET p    == Point(d)
        todo == {t \in Targets : t = Primary \/ Healthy(copy[p][t])}
    IN  /\ At(d, "copies")
        /\ del' = [del EXCEPT ![d].pc = AfterCopy(todo), ![d].todo = todo]
        /\ UNCHANGED <<conf, run, copy, data, held, exec, ver, count>>

ListCopies(d) ==
    LET p    == Point(d)
        todo == {t \in Targets : copy[p][t].status \notin {"none", "deleted"}}
    IN  /\ At(d, "copies")
        /\ IF \E t \in todo \cap Replicas : ~Healthy(copy[p][t])
           THEN Drop(d)
           ELSE del' = [del EXCEPT ![d].pc = AfterCopy(todo), ![d].todo = todo]
        /\ UNCHANGED <<conf, run, copy, data, held, exec, ver, count>>

\* Replicas go first.
CurrentPrimaryFirst(d) ==
    IF Primary \in del[d].todo THEN Primary ELSE CHOOSE t \in del[d].todo : TRUE

Current(d) ==
    CHOOSE t \in del[d].todo : t = Primary => del[d].todo = {Primary}

\* What DeletePrefix finds under the path of the row: an empty path is the
\* whole storage.
Under(p, t) == IF copy[p][t].path = "empty" THEN data[t] ELSE {p}

\* The storage refuses an object under Object Lock, and a directory an empty
\* prefix; the former marks the copy locked.
EraseRefused(d) ==
    LET p == Point(d)  t == Current(d)
    IN  /\ At(d, "erase")
        /\ \/ /\ Under(p, t) \cap held[t] # {}
              /\ copy' = [copy EXCEPT ![p][t].status = "locked"]
           \/ /\ conf.local /\ copy[p][t].path = "empty"
              /\ UNCHANGED copy
        /\ Drop(d)
        /\ UNCHANGED <<conf, run, data, held, exec, ver, count>>

DeletePrefix(d) ==
    LET p == Point(d)  t == Current(d)
    IN  /\ At(d, "erase")
        /\ Under(p, t) \cap held[t] = {}
        /\ ~(conf.local /\ copy[p][t].path = "empty")
        /\ data' = [data EXCEPT ![t] = @ \ Under(p, t)]
        /\ Goto(d, "note")
        /\ UNCHANGED <<conf, run, copy, held, exec, ver, count>>

\* UpdateBackupCopy after the objects are gone.
NoteCopy(d) ==
    LET p == Point(d)  t == Current(d)  rest == del[d].todo \ {t}
    IN  /\ At(d, "note")
        /\ copy' = [copy EXCEPT ![p][t].status = "deleted"]
        /\ del' = [del EXCEPT ![d].pc = AfterCopy(rest), ![d].todo = rest]
        /\ UNCHANGED <<conf, run, data, held, exec, ver, count>>

MarkRunDeleted(d) ==
    /\ At(d, "mark")
    /\ run' = [run EXCEPT ![Point(d)].deleted = TRUE]
    /\ Goto(d, "clear")
    /\ UNCHANGED <<conf, copy, data, held, exec, ver, count>>

\* ClearRunPurge of the collector, NoteRunErased of the others.
ClearRunPurgeKept(d) ==
    /\ At(d, "clear")
    /\ Drop(d)
    /\ UNCHANGED <<conf, run, copy, data, held, exec, ver, count>>

ClearRunPurge(d) ==
    /\ At(d, "clear")
    /\ run' = [run EXCEPT ![Point(d)].purge = "null"]
    /\ Drop(d)
    /\ UNCHANGED <<conf, copy, data, held, exec, ver, count>>

\* A statement or a storage call fails, or checkRunDeletionAccess refuses: the
\* error ends the work on this point.
Fault(d) ==
    /\ del[d].pc \notin {"idle", "next"}
    /\ Spend("fault")
    /\ Drop(d)
    /\ UNCHANGED <<conf, run, copy, data, held, exec, ver>>

\* The process dies: what was written stays.
Crash(d) ==
    /\ del[d].pc # "idle"
    /\ Spend("crash")
    /\ del' = [del EXCEPT ![d] = Idle]
    /\ UNCHANGED <<conf, run, copy, data, held, exec, ver>>

\* handleRestoreFromTrash.
RestoreRunFromQuarantine(p) ==
    /\ run[p].purge # "null"
    /\ Spend("undelete")
    /\ run' = [run EXCEPT ![p].deleted = FALSE, ![p].purge = "null"]
    /\ UNCHANGED <<conf, copy, data, held, exec, del, ver>>

\* Time: a quarantine of days outlasts the moment between planning a backup
\* and inserting its row.
QuarantineEnds(p) ==
    /\ run[p].purge = "waiting"
    /\ \A q \in Points : exec[q].pc # "planned"
    /\ run' = [run EXCEPT ![p].purge = "due"]
    /\ UNCHANGED <<conf, copy, data, held, exec, del, ver, count>>

LockEnds(p, t) ==
    /\ p \in held[t]
    /\ held' = [held EXCEPT ![t] = @ \ {p}]
    /\ UNCHANGED <<conf, run, copy, data, exec, del, ver, count>>

Erasing(d) == EraseRefused(d) \/ DeletePrefix(d) \/ NoteCopy(d) \/ MarkRunDeleted(d) \/ ClearRunPurge(d)

Step(d) == Take(d) \/ CheckDependents(d) \/ QuarantineRun(d) \/ ListCopies(d) \/ Erasing(d)

Next ==
    \/ \E p \in Points :
          \/ ResolvePlan(p) \/ CreateRun(p) \/ WriteObjects(p) \/ FinishRun(p) \/ FailRun(p)
          \/ VerifyRead(p) \/ RestoreRunFromQuarantine(p) \/ QuarantineEnds(p)
          \/ \E t \in Replicas : ReplicaDone(p, t)
          \/ \E t \in Targets : LockEnds(p, t)
          \/ \E d \in Deleters : DeleteRun(d, p)
    \/ VerifyWrite
    \/ \E d \in Deleters :
          \/ ApplyRetention(d) \/ PruneExpired(d) \/ PurgeExpired(d)
          \/ Step(d) \/ Fault(d) \/ Crash(d)

Spec == Init /\ [][Next]_vars

\* Calls run to their end, retention and the collector come round again (a
\* ticker each), replicas are delivered and time passes.
Fairness ==
    /\ \A d \in Deleters : WF_vars(Step(d)) /\ SF_vars(PurgeExpired(d)) /\ SF_vars(ApplyRetention(d))
    /\ \A p \in Points : 
          /\ WF_vars(CreateRun(p)) /\ WF_vars(WriteObjects(p)) /\ WF_vars(FinishRun(p))
          /\ WF_vars(QuarantineEnds(p))
          /\ \A t \in Replicas : WF_vars(ReplicaDone(p, t))
          /\ \A t \in Targets : WF_vars(LockEnds(p, t))

FairSpec == Spec /\ Fairness
-----------------------------------------------------------------------------
Live(p) == run[p].status = "succeeded" /\ ~run[p].deleted

\* Every deletion goes through the quarantine, and nobody returns a point from the trash
\* or writes back a row read before the deletion.
ThroughQuarantine ==
    /\ conf.quarantine /\ "purge" \notin conf.ops /\ ~conf.unfinished
    /\ conf.max["verify"] = 0 /\ conf.max["undelete"] = 0

\* With a quarantine a point that is not deleted keeps the objects of the point
\* it was computed from, whatever deletes, backs up and crashes around it
\* (DeleteRunData, prune.go:123; the check before the quarantine, prune.go:138).
BaseStays ==
    ThroughQuarantine =>
        \A p \in Points : Live(p) /\ run[p].parent # None => run[p].parent \in data[Primary]

\* With a quarantine a point that is not deleted has its own objects in the
\* primary storage: the collector only erases what has been marked before
\* (prune.go:187).
LiveHasData == ThroughQuarantine => \A p \in Points : Live(p) => p \in data[Primary]

\* Replicas go before the primary (prune.go:328): no storage has a point the
\* primary has lost, so that an immutable replica that refuses its deletion
\* always has the primary beside it.
PrimaryGoesLast ==
    \A p \in Points : \A t \in Replicas : p \in data[t] => p \in data[Primary]

\* The primary is not deleted until a required replica is complete
\* (prune.go:321, OPERATIONS.md "Ретенция"): the replicator never loses the
\* source of a copy it still has to make.
SourceStays ==
    \A p \in Points : \A t \in Replicas : copy[p][t].status = "pending" => p \in data[Primary]

\* DeleteRunData removes "a backup's objects" (prune.go:119): a deleting call
\* erases no object of a point it is not deleting.
OnlyOwnObjects ==
    [][\A t \in Targets : \A p \in data[t] \ data'[t] :
          \E d \in Deleters : At(d, "erase") /\ Point(d) = p]_vars

\* The collector comes back to a point it could not erase until it can
\* (prune.go:201): a point whose quarantine is over gets erased, unless a point
\* that is not deleted depends on it.
DueIsErased ==
    \A p \in Points :
        run[p].purge = "due" ~> (run[p].purge = "null" \/ Dependents(p) # {})
=============================================================================
