------------------------- MODULE ReplicationProofs -------------------------
(***************************************************************************)
(* What the queue of replicas keeps in every deployment: any number of      *)
(* processes, workers, points and storages, any crash, restart, failure,    *)
(* cancel and retry, and transfers that outlive their lease.                *)
(***************************************************************************)
EXTENDS Replication, TLAPS

\* A worker starts idle, of the type of a worker.
LEMMA IdleType ==
    /\ IdleWorker \in WorkerType /\ IdleWorker.pc = "idle"
    /\ NoCall \in CallType /\ NoCall.pc = "none"
  BY DEF IdleWorker, WorkerType, Results, NoCall, CallType, CopyStatus, Until

\* The initial rows, workers and calls are of their types.
LEMMA TypeInit == Init => TypeOK
  BY IdleType DEF Init, TypeOK, CopyType, CopyStatus, Until, Objects, Kinds

\* The fields the proofs look at, after each kind of update of a worker.
Became(y, pc, copy_, err) == y \in WorkerType /\ y.pc = pc /\ y.copy = copy_ /\ y.err = err

\* What the writes of a transfer to its own state leave of it.
LEMMA WorkerUpdates ==
    ASSUME NEW x \in WorkerType
    PROVE  /\ \A p \in Active : Became([x EXCEPT !.pc = p], p, x.copy, x.err)
           /\ \A p \in Active, b \in BOOLEAN : Became([x EXCEPT !.pc = p, !.cancelled = b], p, x.copy, x.err)
           /\ \A p \in Active, e \in Results : Became([x EXCEPT !.pc = p, !.err = e], p, x.copy, e)
           /\ \A p \in Active, e \in Results : Became([x EXCEPT !.pc = p, !.err = e, !.manual = FALSE], p, x.copy, e)
           /\ Became([x EXCEPT !.fresh = FALSE], x.pc, x.copy, x.err)
           /\ Became([x EXCEPT !.cancelled = TRUE], x.pc, x.copy, x.err)
           /\ \A b \in BOOLEAN : Became([x EXCEPT !.cancelled = TRUE, !.manual = b], x.pc, x.copy, x.err)
  BY DEF WorkerType, Became

\* What a worker is when its transfer begins, and when it only gives the lease back.
LEMMA WorkerStarts ==
    ASSUME NEW c \in Copies \cup {None}
    PROVE  /\ Became([IdleWorker EXCEPT !.pc = "begin", !.copy = c, !.fresh = TRUE], "begin", c, "nil")
           /\ Became([IdleWorker EXCEPT !.pc = "release", !.copy = c], "release", c, "nil")
  BY DEF IdleWorker, WorkerType, Results, Active, Became

\* Every write to the row of a copy keeps its type.
LEMMA CopyUpdates ==
    ASSUME NEW x \in CopyType
    PROVE  /\ x.owner \in Workers \cup {None} /\ x.due \in BOOLEAN
           /\ \A s \in CopyStatus, u \in Until, o \in Workers \cup {None}, b \in BOOLEAN :
                 [status |-> s, until |-> u, owner |-> o, due |-> b] \in CopyType
           /\ \A s \in CopyStatus : [x EXCEPT !.status = s] \in CopyType
           /\ \A s \in CopyStatus : [x EXCEPT !.status = s, !.due = TRUE] \in CopyType
           /\ \A u \in Until : [x EXCEPT !.until = u] \in CopyType
           /\ [x EXCEPT !.due = TRUE] \in CopyType
           /\ [x EXCEPT !.owner = None] \in CopyType
           /\ [x EXCEPT !.until = "null", !.owner = None] \in CopyType
  BY DEF CopyType, Until

-----------------------------------------------------------------------------
(* The invariant. *)

\* How far a worker has come, in the objects d of the copies.
Fits(y, d) ==
    /\ y \in WorkerType
    /\ y.pc # "idle" => y.copy \in Copies
    /\ y.pc = "write" => y.err # "nil"
    /\ y.pc = "manifest" => "data" \in d[y.copy]
    /\ \/ y.pc \in {"published", "verify"}
       \/ y.pc = "decide" /\ y.err = "nil"
       \/ y.pc = "write" /\ y.err = "succeeded"
       => d[y.copy] = Objects

RowFits(r, objects) == r \in CopyType /\ (r.status = "succeeded" => objects = Objects)

\* run.json is the last object of a copy.
ManifestIsLast == \A c \in Copies : "run.json" \in dest[c] => "data" \in dest[c]

\* Replicator.active: the workers of one process are at work on different copies.
Apart ==
    \A v, w \in Workers :
        v # w /\ conf.at[v] = conf.at[w] /\ wrk[v].pc \in Active /\ wrk[w].pc \in Active
        => wrk[v].copy # wrk[w].copy

WorkersFit == wrk \in [Workers -> WorkerType] /\ \A w \in Workers : Fits(wrk[w], dest)
RowsFit == copy \in [Copies -> CopyType] /\ \A c \in Copies : RowFits(copy[c], dest[c])
ObjectsFit == dest \in [Copies -> SUBSET Objects] /\ ManifestIsLast
RestFits ==
    /\ conf \in Settings /\ proc \in [Instances -> {"down", "up", "closing", "off"}]
    /\ call \in CallType /\ (call.pc # "none" => call.copy \in Copies)
    /\ count \in [Kinds -> Nat]

CopyInv == WorkersFit /\ RowsFit /\ ObjectsFit /\ RestFits /\ Apart

\* The objects of a copy are only added to.
Grows == ObjectsFit' /\ \A c \in Copies : dest[c] \subseteq dest'[c]

\* A step that leaves the objects alone.
LEMMA SameObjects == ASSUME CopyInv, dest' = dest PROVE Grows
  BY DEF CopyInv, ObjectsFit, Grows, ManifestIsLast

\* What a worker has found in the target remains there.
LEMMA FitsLater == ASSUME CopyInv, Grows, NEW y, Fits(y, dest) PROVE Fits(y, dest')
  BY DEF Fits, Grows, CopyInv, ObjectsFit, WorkerType

\* A step that gives one worker a new state, which is active only if it was before.
LEMMA SetWorker ==
    ASSUME CopyInv, Grows, conf' = conf, NEW w \in Workers, NEW y, Fits(y, dest'),
           y.pc \in Active => wrk[w].pc \in Active /\ y.copy = wrk[w].copy,
           wrk' = [wrk EXCEPT ![w] = y]
    PROVE  WorkersFit' /\ Apart'
  <1>1. \A v \in Workers : wrk'[v] = IF v = w THEN y ELSE wrk[v]
    BY DEF CopyInv, WorkersFit
  <1>2. WorkersFit'
    BY <1>1, FitsLater DEF CopyInv, WorkersFit, Fits
  <1>3. Apart'
    BY <1>1 DEF CopyInv, Apart
  <1> QED
    BY <1>2, <1>3

\* A step that leaves the workers alone.
LEMMA KeepWorkers == ASSUME CopyInv, Grows, conf' = conf, wrk' = wrk PROVE WorkersFit' /\ Apart'
  BY FitsLater DEF CopyInv, WorkersFit, Apart

\* A step that gives each worker a new state.
LEMMA SetWorkers ==
    ASSUME CopyInv, conf' = conf, dest' = dest, NEW f, wrk' = [v \in Workers |-> f[v]],
           \A v \in Workers : Fits(f[v], dest) /\ (f[v].pc \in Active => wrk[v].pc \in Active /\ f[v].copy = wrk[v].copy)
    PROVE  WorkersFit' /\ Apart'
  <1>1. \A v \in Workers : wrk'[v] = f[v]
    OBVIOUS
  <1>2. WorkersFit'
    BY <1>1 DEF WorkersFit, Fits
  <1>3. Apart'
    BY <1>1 DEF CopyInv, Apart
  <1> QED
    BY <1>2, <1>3

\* A step that writes one row, which claims no more than the objects show.
LEMMA SetRow ==
    ASSUME CopyInv, Grows, NEW c \in Copies, NEW r, RowFits(r, dest'[c]), copy' = [copy EXCEPT ![c] = r]
    PROVE  RowsFit'
  <1>1. \A b \in Copies : copy'[b] = IF b = c THEN r ELSE copy[b]
    BY DEF CopyInv, RowsFit
  <1>2. \A b \in Copies : RowFits(copy'[b], dest'[b])
    <2> SUFFICES ASSUME NEW b \in Copies PROVE RowFits(copy'[b], dest'[b])
      OBVIOUS
    <2>1. CASE b = c
      BY <1>1, <2>1
    <2>2. CASE b # c
      <3>1. copy'[b] = copy[b]
        BY <1>1, <2>2
      <3>2. dest[b] = Objects => dest'[b] = Objects
        BY DEF Grows, ObjectsFit
      <3> QED
        BY <3>1, <3>2 DEF CopyInv, RowsFit, RowFits
    <2> QED
      BY <2>1, <2>2
  <1> QED
    BY <1>2 DEF CopyInv, RowsFit, RowFits

\* A step that leaves the rows alone.
LEMMA KeepRows == ASSUME CopyInv, Grows, copy' = copy PROVE RowsFit'
  BY DEF CopyInv, RowsFit, RowFits, Grows, ObjectsFit

\* No copy is queued and nothing is transferred: the invariant holds.
LEMMA CopyInit == Init => CopyInv
  <1> SUFFICES ASSUME Init PROVE CopyInv
    OBVIOUS
  <1>1. TypeOK
    BY TypeInit
  <1>2. \A w \in Workers : Fits(wrk[w], dest)
    BY IdleType DEF Init, Fits
  <1>3. \A c \in Copies : copy[c].status = "none" /\ dest[c] = {}
    BY DEF Init
  <1>4. Apart
    BY IdleType DEF Init, Apart, Active
  <1> QED
    BY <1>1, <1>2, <1>3, <1>4, IdleType
       DEF Init, TypeOK, CopyInv, WorkersFit, RowsFit, RowFits, ObjectsFit, ManifestIsLast, RestFits


-----------------------------------------------------------------------------
(* The steps. *)

\* What the steps that touch neither the workers nor the objects, or neither the rows
\* nor the objects, leave to show.
LEMMA StepInv ==
    ASSUME Grows, WorkersFit' /\ Apart', RowsFit', RestFits'
    PROVE  CopyInv'
  BY DEF CopyInv, Grows

\* What the invariant says of one worker.
LEMMA WorkerOf == ASSUME CopyInv, NEW w \in Workers
                  PROVE  /\ wrk[w] \in WorkerType /\ Fits(wrk[w], dest)
                         /\ wrk[w].copy \in Copies \cup {None} /\ wrk[w].err \in Results
  BY DEF CopyInv, WorkersFit, WorkerType

\* What the invariant says of one row.
LEMMA RowOf == ASSUME CopyInv, NEW c \in Copies
               PROVE  /\ copy[c] \in CopyType /\ RowFits(copy[c], dest[c])
                      /\ copy[c].until \in Until /\ copy[c].status \in CopyStatus
  BY DEF CopyInv, RowsFit, CopyType

\* UpdateBackupCopy with anything but a success.
LEMMA RowStep ==
    ASSUME CopyInv, Grows, NEW c \in Copies, NEW s \in CopyStatus, NEW u \in Until, NEW b \in BOOLEAN,
           s = "succeeded" => dest'[c] = Objects,
           Row(c, s, u, b)
    PROVE  RowsFit'
  <1> DEFINE r == [status |-> s, until |-> u, owner |-> copy[c].owner, due |-> b]
  <1>1. r \in CopyType /\ r.status = s
    BY RowOf, CopyUpdates
  <1>2. RowFits(r, dest'[c])
    BY <1>1 DEF RowFits
  <1>3. copy' = [copy EXCEPT ![c] = r]
    BY DEF Row
  <1> HIDE DEF r
  <1> QED
    BY <1>2, <1>3, SetRow

\* The LockedUntil a worker has read is one a row can have.
LEMMA SnapType == ASSUME NEW w PROVE Snap(w) \in Until
  BY DEF Snap, Until

\* A step of a transfer to its next point.
LEMMA GotoStep ==
    ASSUME CopyInv, Grows, conf' = conf, NEW w \in Workers, NEW p \in Active, Goto(w, p),
           wrk[w].pc \in Active, p \notin {"write", "decide"},
           p = "manifest" => "data" \in dest'[wrk[w].copy],
           p \in {"published", "verify"} => dest'[wrk[w].copy] = Objects
    PROVE  WorkersFit' /\ Apart'
  <1> DEFINE y == [wrk[w] EXCEPT !.pc = p]
  <1>1. Became(y, p, wrk[w].copy, wrk[w].err)
    BY WorkerOf, WorkerUpdates
  <1>2. wrk' = [wrk EXCEPT ![w] = y]
    BY DEF Goto
  <1> HIDE DEF y
  <1>3. wrk[w].copy \in Copies
    BY WorkerOf DEF Fits, Active
  <1>4. Fits(y, dest')
    BY <1>1, <1>3 DEF Fits, Became, Active
  <1> QED
    BY <1>1, <1>2, <1>4, SetWorker DEF Became

\* A transfer that is left without a result.
LEMMA LeaveStep ==
    ASSUME CopyInv, Grows, conf' = conf, NEW w \in Workers, Leave(w), wrk[w].pc \in Active
    PROVE  WorkersFit' /\ Apart'
  <1> DEFINE y == [IdleWorker EXCEPT !.pc = "release", !.copy = wrk[w].copy]
  <1>1. Became(y, "release", wrk[w].copy, "nil")
    BY WorkerOf, WorkerStarts
  <1>2. wrk' = [wrk EXCEPT ![w] = y]
    BY DEF Leave
  <1> HIDE DEF y
  <1>3. wrk[w].copy \in Copies
    BY WorkerOf DEF Fits, Active
  <1>4. Fits(y, dest')
    BY <1>1, <1>3 DEF Fits, Became
  <1> QED
    BY <1>1, <1>2, <1>4, SetWorker DEF Became

\* A transfer that ends with a result.
LEMMA EndStep ==
    ASSUME CopyInv, Grows, conf' = conf, NEW w \in Workers, NEW e \in Results, End(w, e), wrk[w].pc \in Active,
           e = "nil" => dest'[wrk[w].copy] = Objects
    PROVE  WorkersFit' /\ Apart'
  <1> DEFINE y == [wrk[w] EXCEPT !.pc = "decide", !.err = e]
  <1>1. Became(y, "decide", wrk[w].copy, e)
    BY WorkerOf, WorkerUpdates DEF Active
  <1>2. wrk' = [wrk EXCEPT ![w] = y]
    BY DEF End
  <1> HIDE DEF y
  <1>3. wrk[w].copy \in Copies
    BY WorkerOf DEF Fits, Active
  <1>4. Fits(y, dest')
    BY <1>1, <1>3 DEF Fits, Became
  <1> QED
    BY <1>1, <1>2, <1>4, SetWorker DEF Became

\* A worker that has given up its copy.
LEMMA IdleStep ==
    ASSUME CopyInv, Grows, conf' = conf, NEW w \in Workers, wrk' = [wrk EXCEPT ![w] = IdleWorker]
    PROVE  WorkersFit' /\ Apart'
  <1>1. Fits(IdleWorker, dest') /\ IdleWorker.pc \notin Active
    BY IdleType DEF Fits, Active
  <1> QED
    BY <1>1, SetWorker


\* Every step of a worker, a process, a call and the clock keeps the invariant.
LEMMA CopyStep == CopyInv /\ [Next]_vars => CopyInv'
  <1> SUFFICES ASSUME CopyInv, [Next]_vars PROVE CopyInv'
    OBVIOUS
  <1>0. RestFits
    BY DEF CopyInv
  <1>1. ASSUME NEW c \in Copies, QueueRun(c) PROVE CopyInv'
    <2>1. Grows
      BY <1>1, SameObjects DEF QueueRun
    <2> DEFINE r == [copy[c] EXCEPT !.status = "pending"]
    <2>2. r \in CopyType /\ r.status = "pending"
      BY RowOf DEF CopyType, CopyStatus
    <2>3. copy' = [copy EXCEPT ![c] = r]
      BY <1>1 DEF QueueRun
    <2>4. RowFits(r, dest'[c])
      BY <2>2 DEF RowFits
    <2> HIDE DEF r
    <2>5. RestFits'
      BY <1>0, <1>1 DEF RestFits, QueueRun
    <2> QED
      BY <1>1, <2>1, <2>3, <2>4, <2>5, SetRow, KeepWorkers, StepInv DEF QueueRun
  <1>2. ASSUME NEW c \in Copies, RegisterMirrorCopy(c) PROVE CopyInv'
    <2> PICK s \in {"succeeded", "pending"}, d \in SUBSET Objects :
             /\ copy' = [copy EXCEPT ![c].status = s] /\ dest' = [dest EXCEPT ![c] = d]
             /\ s = "succeeded" => d = Objects
             /\ "run.json" \in d => "data" \in d
      BY <1>2 DEF RegisterMirrorCopy, Objects
    <2>0. \A b \in Copies : dest'[b] = IF b = c THEN d ELSE dest[b]
      BY DEF CopyInv, ObjectsFit
    <2>1. Grows
      BY <1>2, <2>0 DEF CopyInv, ObjectsFit, ManifestIsLast, Grows, RegisterMirrorCopy
    <2> DEFINE r == [copy[c] EXCEPT !.status = s]
    <2>2. r \in CopyType /\ r.status = s
      BY RowOf DEF CopyType, CopyStatus
    <2>3. copy' = [copy EXCEPT ![c] = r]
      OBVIOUS
    <2>4. RowFits(r, dest'[c])
      BY <2>0, <2>2 DEF RowFits
    <2> HIDE DEF r
    <2>5. RestFits'
      BY <1>0, <1>2 DEF RestFits, RegisterMirrorCopy
    <2> QED
      BY <1>2, <2>1, <2>3, <2>4, <2>5, SetRow, KeepWorkers, StepInv DEF RegisterMirrorCopy
  <1>3. ASSUME NEW c \in Copies, RegisterMirrorCopyFails(c) PROVE CopyInv'
    <2>0. \A b \in Copies : dest'[b] = IF b = c THEN Objects ELSE dest[b]
      BY <1>3 DEF CopyInv, ObjectsFit, RegisterMirrorCopyFails
    <2>1. Grows
      BY <1>3, <2>0 DEF CopyInv, ObjectsFit, ManifestIsLast, Grows, RegisterMirrorCopyFails, Objects
    <2>5. RestFits'
      BY <1>0, <1>3 DEF RestFits, RegisterMirrorCopyFails, Once, Kinds
    <2> QED
      BY <1>3, <2>1, <2>5, KeepRows, KeepWorkers, StepInv DEF RegisterMirrorCopyFails
  <1>4. ASSUME NEW c \in Copies, LeaseExpires(c) \/ RetryDue(c) PROVE CopyInv'
    <2>1. Grows
      BY <1>4, SameObjects DEF LeaseExpires, RetryDue
    <2>2. PICK r \in CopyType : copy' = [copy EXCEPT ![c] = r] /\ r.status = copy[c].status
      <3> DEFINE p == [copy[c] EXCEPT !.until = "past"]
                 q == [copy[c] EXCEPT !.due = TRUE]
      <3>1. p \in CopyType /\ p.status = copy[c].status /\ q \in CopyType /\ q.status = copy[c].status
        BY RowOf DEF CopyType, Until
      <3>2. copy' = [copy EXCEPT ![c] = p] \/ copy' = [copy EXCEPT ![c] = q]
        BY <1>4 DEF LeaseExpires, RetryDue
      <3> HIDE DEF p, q
      <3> QED
        BY <3>1, <3>2
    <2>3. RowFits(r, dest'[c])
      BY <1>4, <2>2, RowOf DEF RowFits, LeaseExpires, RetryDue
    <2>5. RestFits'
      BY <1>0, <1>4 DEF RestFits, LeaseExpires, RetryDue
    <2> QED
      BY <1>4, <2>1, <2>2, <2>3, <2>5, SetRow, KeepWorkers, StepInv DEF LeaseExpires, RetryDue
  <1>5. ASSUME NEW w \in Workers, NEW c \in Copies, ClaimBackupCopies(w, c) PROVE CopyInv'
    <2>1. Grows
      BY <1>5, SameObjects DEF ClaimBackupCopies
    <2> DEFINE y == [IdleWorker EXCEPT !.pc = "begin", !.copy = c, !.fresh = TRUE]
               r == [status |-> "copying", until |-> "lease", owner |-> w, due |-> copy[c].due]
    <2>2. Became(y, "begin", c, "nil")
      BY WorkerStarts
    <2>3. r \in CopyType /\ r.status = "copying"
      BY RowOf, CopyUpdates DEF CopyStatus, Until
    <2>4. copy' = [copy EXCEPT ![c] = r] /\ wrk' = [wrk EXCEPT ![w] = y]
      BY <1>5 DEF ClaimBackupCopies
    <2> HIDE DEF y, r
    <2>5. RowFits(r, dest'[c]) /\ Fits(y, dest') /\ y.pc \notin Active
      BY <2>2, <2>3 DEF RowFits, Fits, Became, Active
    <2>6. RestFits'
      BY <1>0, <1>5 DEF RestFits, ClaimBackupCopies
    <2> QED
      BY <1>5, <2>1, <2>4, <2>5, <2>6, SetRow, SetWorker, StepInv DEF ClaimBackupCopies
  <1>6. ASSUME NEW i \in Instances, NEW c \in Copies, RetryRead(i, c) \/ CancelRead(i, c) PROVE CopyInv'
    <2>1. Grows
      BY <1>6, SameObjects DEF RetryRead, CancelRead, Read
    <2>2. count' \in [Kinds -> Nat]
      BY <1>0, <1>6 DEF RestFits, RetryRead, CancelRead, Once, Kinds
    <2>3. call' \in CallType /\ call'.copy = c
      BY <1>6, RowOf DEF RetryRead, CancelRead, Read, CallType
    <2>4. RestFits'
      BY <1>0, <1>6, <2>2, <2>3 DEF RestFits, RetryRead, CancelRead, Read
    <2> QED
      BY <1>6, <2>1, <2>4, KeepRows, KeepWorkers, StepInv DEF RetryRead, CancelRead, Read
  <1>7. ASSUME NEW w \in Workers, Register(w) PROVE CopyInv'
    <2>1. Grows
      BY <1>7, SameObjects DEF Register
    <2>2. RowsFit' /\ RestFits'
      BY <1>0, <1>7, <2>1, KeepRows DEF RestFits, Register
    <2>3. CASE Busy(conf.at[w], wrk[w].copy)
      BY <1>7, <2>1, <2>2, <2>3, IdleStep, StepInv DEF Register, InstanceOf
    <2>4. CASE ~Busy(conf.at[w], wrk[w].copy)
      <3> DEFINE b == proc[InstanceOf[w]] = "closing"
                 y == [wrk[w] EXCEPT !.pc = "parent", !.cancelled = b]
      <3>1. Became(y, "parent", wrk[w].copy, wrk[w].err)
        BY WorkerOf, WorkerUpdates DEF Active
      <3>2. wrk' = [wrk EXCEPT ![w] = y]
        BY <1>7, <2>4 DEF Register, InstanceOf
      <3> HIDE DEF y
      <3>3. wrk[w].copy \in Copies
        BY <1>7, WorkerOf DEF Fits, Register
      <3>4. Fits(y, dest')
        BY <3>1, <3>3 DEF Fits, Became
      <3>5. \A v \in Workers : wrk'[v] = IF v = w THEN y ELSE wrk[v]
        BY <3>2 DEF CopyInv, WorkersFit
      <3>6. WorkersFit'
        BY <2>1, <3>4, <3>5, <3>2, FitsLater DEF CopyInv, WorkersFit, Fits
      <3>7. \A v \in Workers : conf.at[v] = conf.at[w] /\ wrk[v].pc \in Active => wrk[v].copy # wrk[w].copy
        BY <2>4 DEF Busy, InstanceOf
      <3>8. Apart'
        BY <1>7, <3>1, <3>5, <3>7 DEF CopyInv, Apart, Became, Register
      <3> QED
        BY <2>1, <2>2, <3>6, <3>8, StepInv
    <2> QED
      BY <2>3, <2>4
  <1>8. ASSUME NEW w \in Workers, LoseClaim(w) PROVE CopyInv'
    <2>1. Grows /\ RestFits'
      BY <1>0, <1>8, SameObjects DEF LoseClaim, RestFits
    <2> QED
      BY <1>8, <2>1, IdleStep, KeepRows, StepInv DEF LoseClaim
  <1>9. ASSUME NEW w \in Workers, CheckParent(w) PROVE CopyInv'
    <2>1. Grows /\ RestFits'
      BY <1>0, <1>9, SameObjects DEF CheckParent, RestFits
    <2>2. PICK p \in {"start", "postpone", "block"} : Goto(w, p)
      BY <1>9 DEF CheckParent
    <2>3. p \in Active /\ wrk[w].pc \in Active
      BY <1>9 DEF Active, CheckParent
    <2> QED
      BY <1>9, <2>1, <2>2, <2>3, GotoStep, KeepRows, StepInv DEF CheckParent
  <1>10. ASSUME NEW w \in Workers, PostponeForParent(w) \/ BlockForParent(w) PROVE CopyInv'
    <2>1. Grows /\ RestFits'
      BY <1>0, <1>10, SameObjects DEF PostponeForParent, BlockForParent, RestFits
    <2>2. wrk[w].pc \in Active /\ wrk[w].copy \in Copies
      BY <1>10, WorkerOf DEF PostponeForParent, BlockForParent, Active, Fits
    <2>3. RowsFit'
      BY <1>10, <2>1, <2>2, RowStep, SnapType DEF PostponeForParent, BlockForParent, CopyStatus
    <2> QED
      BY <1>10, <2>1, <2>2, <2>3, LeaveStep, StepInv DEF PostponeForParent, BlockForParent
  <1>11. ASSUME NEW w \in Workers, StartCopy(w) PROVE CopyInv'
    <2>1. Grows /\ RestFits'
      BY <1>0, <1>11, SameObjects DEF StartCopy, RestFits
    <2>2. wrk[w].pc \in Active /\ wrk[w].copy \in Copies
      BY <1>11, WorkerOf DEF StartCopy, Active, Fits
    <2>3. RowsFit'
      BY <1>11, <2>1, <2>2, RowStep, SnapType DEF StartCopy, CopyStatus
    <2>4. PICK p \in {"list", "data"} : Goto(w, p)
      BY <1>11 DEF StartCopy
    <2>5. WorkersFit' /\ Apart'
      BY <1>11, <2>1, <2>2, <2>4, GotoStep DEF StartCopy, Active
    <2> QED
      BY <2>1, <2>3, <2>5, StepInv
  <1>12. ASSUME NEW w \in Workers, StartRefused(w) PROVE CopyInv'
    <2>1. Grows /\ RestFits'
      BY <1>0, <1>12, SameObjects DEF StartRefused, RestFits
    <2>2. wrk[w].pc \in Active
      BY <1>12 DEF StartRefused, Active
    <2> QED
      BY <1>12, <2>1, <2>2, LeaveStep, KeepRows, StepInv DEF StartRefused
  <1>13. ASSUME NEW w \in Workers, CopyData(w) \/ CopyManifest(w) PROVE CopyInv'
    <2> DEFINE o == IF wrk[w].pc = "data" THEN "data" ELSE "run.json"
    <2> o \in Objects
      BY DEF Objects
    <2> (CopyData(w) => o = "data") /\ (CopyManifest(w) => o = "run.json")
      BY DEF CopyData, CopyManifest
    <2> HIDE DEF o
    <2>0. wrk[w].pc \in Active /\ wrk[w].copy \in Copies /\ (o = "run.json" => "data" \in dest[wrk[w].copy])
      BY <1>13, WorkerOf DEF CopyData, CopyManifest, Active, Fits
    <2>1. \A b \in Copies : dest'[b] = IF b = wrk[w].copy THEN dest[b] \cup {o} ELSE dest[b]
      BY <1>13, <2>0 DEF CopyInv, ObjectsFit, CopyData, CopyManifest
    <2>2. Grows
      <3>1. dest' \in [Copies -> SUBSET Objects]
        BY <1>13, <2>0 DEF CopyInv, ObjectsFit, CopyData, CopyManifest
      <3>2. ManifestIsLast'
        BY <1>13, <2>0, <2>1 DEF CopyInv, ObjectsFit, ManifestIsLast
      <3> QED
        BY <2>1, <3>1, <3>2 DEF Grows, ObjectsFit
    <2>3. RestFits'
      BY <1>0, <1>13 DEF RestFits, CopyData, CopyManifest
    <2>4. CASE CopyData(w)
      <3>1. "data" \in dest'[wrk[w].copy]
        BY <2>0, <2>1, <2>4
      <3> QED
        BY <2>0, <2>2, <2>3, <2>4, <3>1, GotoStep, KeepRows, StepInv DEF CopyData, Active
    <2>5. CASE CopyManifest(w)
      <3>1. dest'[wrk[w].copy] = Objects
        BY <2>0, <2>1, <2>5 DEF Objects, CopyInv, ObjectsFit
      <3> QED
        BY <2>0, <2>2, <2>3, <2>5, <3>1, GotoStep, KeepRows, StepInv DEF CopyManifest, Active
    <2> QED
      BY <1>13, <2>4, <2>5
  <1>14. ASSUME NEW w \in Workers, MarkVerifying(w) PROVE CopyInv'
    <2>1. Grows /\ RestFits' /\ dest' = dest
      BY <1>0, <1>14, SameObjects DEF MarkVerifying, RestFits
    <2>2. wrk[w].pc \in Active /\ wrk[w].copy \in Copies /\ dest[wrk[w].copy] = Objects
      BY <1>14, WorkerOf DEF MarkVerifying, Active, Fits
    <2>3. RowsFit'
      BY <1>14, <2>1, <2>2, RowStep, KeepRows, SnapType DEF MarkVerifying, CopyStatus
    <2>4. WorkersFit' /\ Apart'
      BY <1>14, <2>1, <2>2, GotoStep DEF MarkVerifying, Active
    <2> QED
      BY <2>1, <2>3, <2>4, StepInv
  <1>15. ASSUME NEW w \in Workers, VerifyPasses(w) \/ TransferCancelled(w) \/ TransferFails(w) PROVE CopyInv'
    <2>1. Grows /\ dest' = dest
      BY <1>15, SameObjects DEF VerifyPasses, TransferCancelled, TransferFails
    <2>2. RestFits'
      BY <1>0, <1>15 DEF VerifyPasses, TransferCancelled, TransferFails, RestFits, Once, Kinds
    <2>3. PICK e \in Results : End(w, e) /\ (e = "nil" => wrk[w].pc = "verify")
      BY <1>15 DEF VerifyPasses, TransferCancelled, TransferFails, Results
    <2>4. wrk[w].pc \in Active
      BY <1>15 DEF VerifyPasses, TransferCancelled, TransferFails, Interruptible, Active
    <2>5. e = "nil" => dest'[wrk[w].copy] = Objects
      BY <2>1, <2>3, WorkerOf DEF Fits
    <2>6. conf' = conf /\ copy' = copy
      BY <1>15 DEF VerifyPasses, TransferCancelled, TransferFails
    <2>7. WorkersFit' /\ Apart'
      BY <2>1, <2>3, <2>4, <2>5, <2>6, EndStep
    <2> QED
      BY <2>1, <2>2, <2>6, <2>7, KeepRows, StepInv
  <1>16. ASSUME NEW w \in Workers, Decide(w) PROVE CopyInv'
    <2>1. Grows /\ RestFits' /\ dest' = dest
      BY <1>0, <1>16, SameObjects DEF Decide, RestFits
    <2>2. Outcome(w) \in Results \ {"nil"} /\ (Outcome(w) = "succeeded" => wrk[w].err = "nil")
      BY DEF Outcome, Results
    <2> DEFINE e == Outcome(w)
               y == [wrk[w] EXCEPT !.pc = "write", !.err = e, !.manual = FALSE]
    <2>3. wrk' = [wrk EXCEPT ![w] = y]
      BY <1>16 DEF Decide
    <2> HIDE DEF e
    <2>4. Became(y, "write", wrk[w].copy, e)
      BY <2>2, WorkerOf, WorkerUpdates DEF Active, e
    <2> HIDE DEF y
    <2>5. wrk[w].pc \in Active /\ wrk[w].copy \in Copies
      BY <1>16, WorkerOf DEF Decide, Active, Fits
    <2>6. e = "succeeded" => dest'[wrk[w].copy] = Objects
      BY <1>16, <2>1, <2>2, WorkerOf DEF Fits, Decide, e
    <2>7. Fits(y, dest')
      BY <2>2, <2>4, <2>5, <2>6 DEF Fits, Became, e
    <2> QED
      BY <1>16, <2>1, <2>3, <2>4, <2>5, <2>7, SetWorker, KeepRows, StepInv DEF Became, Decide
  <1>17. ASSUME NEW w \in Workers, WriteResult(w) PROVE CopyInv'
    <2>1. Grows /\ RestFits' /\ dest' = dest
      BY <1>0, <1>17, SameObjects DEF WriteResult, RestFits
    <2>2. wrk[w].pc \in Active /\ wrk[w].copy \in Copies
      BY <1>17, WorkerOf DEF WriteResult, Active, Fits
    <2> DEFINE u == IF wrk[w].err = "succeeded" /\ conf.lock /\ ~wrk[w].cancelled THEN "lock" ELSE Snap(w)
               b == wrk[w].err # "failed"
    <2>3. u \in Until
      BY SnapType DEF Until
    <2>4. Row(wrk[w].copy, wrk[w].err, u, b)
      BY <1>17 DEF WriteResult
    <2> HIDE DEF u
    <2>5. wrk[w].err \in CopyStatus /\ (wrk[w].err = "succeeded" => dest'[wrk[w].copy] = Objects)
      BY <1>17, <2>1, WorkerOf DEF Fits, WriteResult, CopyStatus, Results
    <2>6. b \in BOOLEAN
      OBVIOUS
    <2> HIDE DEF b
    <2>7. RowsFit'
      BY <2>1, <2>2, <2>3, <2>4, <2>5, <2>6, RowStep
    <2> QED
      BY <1>17, <2>1, <2>2, <2>7, LeaveStep, StepInv DEF WriteResult
  <1>18. ASSUME NEW w \in Workers, ReleaseCopyLease(w) PROVE CopyInv'
    <2>1. Grows /\ RestFits' /\ dest' = dest
      BY <1>0, <1>18, SameObjects DEF ReleaseCopyLease, RestFits
    <2> DEFINE c == wrk[w].copy
               f == [copy[c] EXCEPT !.until = "null", !.owner = None]
               r == IF copy[c].owner = w THEN f ELSE copy[c]
    <2>2. c \in Copies
      BY <1>18, WorkerOf DEF ReleaseCopyLease, Fits
    <2>3. f \in CopyType /\ f.status = copy[c].status
      BY <2>2, RowOf DEF CopyType, Until
    <2>4. copy' = [copy EXCEPT ![c] = r]
      BY <1>18, <2>2 DEF ReleaseCopyLease, CopyInv, RowsFit
    <2> HIDE DEF f, c
    <2>5. RowFits(r, dest'[c])
      BY <2>1, <2>2, <2>3, RowOf DEF RowFits
    <2> HIDE DEF r
    <2> QED
      BY <1>18, <2>1, <2>2, <2>4, <2>5, SetRow, IdleStep, StepInv DEF ReleaseCopyLease
  <1>19. ASSUME NEW w \in Workers, SnapshotAges(w) \/ RenewCopyLease(w) PROVE CopyInv'
    <2>1. Grows /\ RestFits' /\ dest' = dest /\ conf' = conf
      BY <1>0, <1>19, SameObjects DEF SnapshotAges, RenewCopyLease, RestFits
    <2> DEFINE c == wrk[w].copy
               r == [copy[c] EXCEPT !.until = "lease"]
               y == [wrk[w] EXCEPT !.fresh = FALSE]
               z == [wrk[w] EXCEPT !.cancelled = TRUE]
    <2>2. wrk[w].pc \in Active /\ c \in Copies
      BY <1>19, WorkerOf DEF SnapshotAges, RenewCopyLease, Active, Fits
    <2>3. Became(y, wrk[w].pc, c, wrk[w].err) /\ Became(z, wrk[w].pc, c, wrk[w].err)
      BY WorkerOf, WorkerUpdates
    <2>4. r \in CopyType /\ r.status = copy[c].status
      BY <2>2, RowOf DEF CopyType, Until
    <2>5. \/ copy' = copy /\ wrk' = [wrk EXCEPT ![w] = y]
          \/ copy' = copy /\ wrk' = [wrk EXCEPT ![w] = z]
          \/ copy' = [copy EXCEPT ![c] = r] /\ wrk' = wrk
      BY <1>19 DEF SnapshotAges, RenewCopyLease
    <2> HIDE DEF c, r, y, z
    <2>6. Fits(y, dest') /\ Fits(z, dest')
      BY <2>1, <2>3, WorkerOf DEF Fits, Became, c
    <2>7. RowFits(r, dest'[c])
      BY <2>1, <2>2, <2>4, RowOf DEF RowFits
    <2>8. CASE copy' = copy /\ wrk' = [wrk EXCEPT ![w] = y]
      BY <2>1, <2>2, <2>3, <2>6, <2>8, SetWorker, KeepRows, StepInv DEF Became, c
    <2>9. CASE copy' = copy /\ wrk' = [wrk EXCEPT ![w] = z]
      BY <2>1, <2>2, <2>3, <2>6, <2>9, SetWorker, KeepRows, StepInv DEF Became, c
    <2>10. CASE copy' = [copy EXCEPT ![c] = r] /\ wrk' = wrk
      BY <2>1, <2>2, <2>7, <2>10, SetRow, KeepWorkers, StepInv
    <2> QED
      BY <2>5, <2>8, <2>9, <2>10
  <1>20. ASSUME NEW i \in Instances, Close(i) PROVE CopyInv'
    <2>1. Grows /\ dest' = dest /\ conf' = conf
      BY <1>20, SameObjects DEF Close
    <2>2. RestFits'
      BY <1>0, <1>20 DEF Close, RestFits, Once, Kinds
    <2> DEFINE f == [v \in Workers |-> IF InstanceOf[v] = i /\ wrk[v].pc \in Transfers
                                      THEN [wrk[v] EXCEPT !.cancelled = TRUE] ELSE wrk[v]]
    <2>3. \A v \in Workers : Became(f[v], wrk[v].pc, wrk[v].copy, wrk[v].err)
      BY WorkerOf, WorkerUpdates DEF Became
    <2>4. wrk' = [v \in Workers |-> f[v]]
      BY <1>20 DEF Close
    <2> HIDE DEF f
    <2>5. \A v \in Workers : Fits(f[v], dest)
      BY <2>3, WorkerOf DEF Fits, Became
    <2>6. WorkersFit' /\ Apart'
      BY <2>1, <2>3, <2>4, <2>5, SetWorkers DEF Became
    <2> QED
      BY <1>20, <2>1, <2>2, <2>6, KeepRows, StepInv DEF Close
  <1>21. ASSUME NEW i \in Instances, Closed(i) PROVE CopyInv'
    <2>1. Grows /\ RestFits'
      BY <1>0, <1>21, SameObjects DEF Closed, RestFits
    <2> QED
      BY <1>21, <2>1, KeepRows, KeepWorkers, StepInv DEF Closed
  <1>22. ASSUME NEW i \in Instances, Crash(i) PROVE CopyInv'
    <2>1. Grows /\ dest' = dest /\ conf' = conf
      BY <1>22, SameObjects DEF Crash
    <2>2. RestFits'
      BY <1>0, <1>22, IdleType DEF Crash, RestFits, Once, Kinds
    <2> DEFINE f == [v \in Workers |-> IF InstanceOf[v] = i THEN IdleWorker ELSE wrk[v]]
               g == [c \in Copies |-> IF \E w \in Workers : InstanceOf[w] = i /\ copy[c].owner = w
                                     THEN [copy[c] EXCEPT !.owner = None] ELSE copy[c]]
    <2>3. \A v \in Workers : f[v] = IdleWorker \/ f[v] = wrk[v]
      OBVIOUS
    <2>4. wrk' = [v \in Workers |-> f[v]] /\ copy' = g
      BY <1>22 DEF Crash
    <2>5. \A c \in Copies : g[c] \in CopyType /\ g[c].status = copy[c].status
      BY RowOf DEF CopyType
    <2>6. g \in [Copies -> CopyType]
      BY <2>5
    <2> HIDE DEF f, g
    <2>7. \A v \in Workers : Fits(f[v], dest) /\ (f[v].pc \in Active => wrk[v].pc \in Active /\ f[v].copy = wrk[v].copy)
      BY <2>3, WorkerOf, IdleType DEF Fits, Active
    <2>8. WorkersFit' /\ Apart'
      BY <2>1, <2>4, <2>7, SetWorkers
    <2>9. RowsFit'
      BY <2>1, <2>4, <2>5, <2>6, RowOf DEF RowsFit, RowFits
    <2> QED
      BY <2>1, <2>2, <2>8, <2>9, StepInv
  <1>23. ASSUME NEW i \in Instances, Start(i) PROVE CopyInv'
    <2>1. Grows /\ dest' = dest
      BY <1>23, SameObjects DEF Start
    <2>2. RestFits'
      <3>1. proc' = [proc EXCEPT ![i] = "up"] /\ UNCHANGED <<conf, call>> /\ Once("start")
        BY <1>23 DEF Start
      <3>2. count' \in [Kinds -> Nat]
        BY <1>0, <3>1 DEF RestFits, Once, Kinds
      <3> QED
        BY <1>0, <3>1, <3>2 DEF RestFits
    <2> DEFINE g == [c \in Copies |-> IF copy[c].status \in {"copying", "verifying"}
                                     THEN [copy[c] EXCEPT !.status = "pending", !.due = TRUE] ELSE copy[c]]
    <2>3. \A c \in Copies : g[c] \in CopyType /\ (g[c].status = "succeeded" => copy[c].status = "succeeded")
      BY RowOf DEF CopyType, CopyStatus
    <2>4. copy' = g /\ g \in [Copies -> CopyType]
      BY <1>23, <2>3 DEF Start
    <2> HIDE DEF g
    <2>5. RowsFit'
      BY <2>1, <2>3, <2>4, RowOf DEF RowsFit, RowFits
    <2> QED
      BY <1>23, <2>1, <2>2, <2>5, KeepWorkers, StepInv DEF Start
  <1>24. CASE RetryWrite \/ CancelWrite
    <2>1. Grows /\ RestFits'
      BY <1>0, <1>24, SameObjects, IdleType DEF RetryWrite, CancelWrite, RestFits
    <2>2. call.copy \in Copies /\ call.until \in Until
      BY <1>0, <1>24 DEF RestFits, RetryWrite, CancelWrite, CallType
    <2>3. RowsFit'
      BY <1>24, <2>1, <2>2, RowStep DEF RetryWrite, CancelWrite, CopyStatus
    <2> QED
      BY <1>24, <2>1, <2>3, KeepWorkers, StepInv DEF RetryWrite, CancelWrite
  <1>25. CASE CancelFlag
    <2>1. Grows /\ dest' = dest /\ conf' = conf
      BY <1>25, SameObjects DEF CancelFlag
    <2>2. RestFits'
      <3>1. [call EXCEPT !.pc = "cancel"] \in CallType /\ [call EXCEPT !.pc = "cancel"].copy = call.copy
        BY <1>0 DEF RestFits, CallType
      <3> QED
        BY <1>0, <1>25, <3>1, IdleType DEF RestFits, CancelFlag
    <2> DEFINE f == [v \in Workers |->
                       IF InstanceOf[v] = call.instance /\ wrk[v].pc \in Transfers /\ wrk[v].copy = call.copy
                       THEN [wrk[v] EXCEPT !.cancelled = TRUE, !.manual = (wrk[v].pc # "write")] ELSE wrk[v]]
    <2>3. \A v \in Workers : Became(f[v], wrk[v].pc, wrk[v].copy, wrk[v].err)
      <3> SUFFICES ASSUME NEW v \in Workers PROVE Became(f[v], wrk[v].pc, wrk[v].copy, wrk[v].err)
        OBVIOUS
      <3>1. Became([wrk[v] EXCEPT !.cancelled = TRUE, !.manual = (wrk[v].pc # "write")], wrk[v].pc, wrk[v].copy, wrk[v].err)
        BY WorkerOf, WorkerUpdates
      <3>2. Became(wrk[v], wrk[v].pc, wrk[v].copy, wrk[v].err)
        BY WorkerOf DEF Became
      <3> QED
        BY <3>1, <3>2
    <2>4. wrk' = [v \in Workers |-> f[v]]
      BY <1>25 DEF CancelFlag
    <2> HIDE DEF f
    <2>5. \A v \in Workers : Fits(f[v], dest)
      BY <2>3, WorkerOf DEF Fits, Became
    <2>6. WorkersFit' /\ Apart'
      BY <2>1, <2>3, <2>4, <2>5, SetWorkers DEF Became
    <2> QED
      BY <1>25, <2>1, <2>2, <2>6, KeepRows, StepInv DEF CancelFlag
  <1>26. CASE UNCHANGED vars
    <2>1. Grows /\ RestFits'
      BY <1>0, <1>26, SameObjects DEF vars, RestFits
    <2> QED
      BY <1>26, <2>1, KeepRows, KeepWorkers, StepInv DEF vars
  <1>27. ASSUME NEW w \in Workers, Step(w) PROVE CopyInv'
    BY <1>27, <1>7, <1>8, <1>9, <1>10, <1>11, <1>12, <1>13, <1>14, <1>15, <1>16, <1>17, <1>18 DEF Step
  <1> QED
    BY <1>1, <1>2, <1>3, <1>4, <1>5, <1>6, <1>15, <1>19, <1>20, <1>21, <1>22, <1>23, <1>24, <1>25, <1>26, <1>27
       DEF Next


-----------------------------------------------------------------------------
(* The theorems. *)

\* The invariant holds in every state the replicators reach.
LEMMA CopyInvariant == Spec => []CopyInv
  BY CopyInit, CopyStep, PTL DEF Spec

\* The rows, the objects and the goroutines of the replicators keep their types.
THEOREM TypeCorrect == Spec => []TypeOK
  <1>1. CopyInv => TypeOK
    BY DEF CopyInv, TypeOK, WorkersFit, RowsFit, ObjectsFit, RestFits
  <1> QED
    BY <1>1, CopyInvariant, PTL

\* A copy reported succeeded has every object, in every deployment: no stale whole-row
\* write of a worker, an operator or a starting process reports more than was copied.
THEOREM SuccessIsPublished == Spec => []SucceededIsPublished
  <1>1. CopyInv => SucceededIsPublished
    BY DEF CopyInv, RowsFit, RowFits, SucceededIsPublished
  <1> QED
    BY <1>1, CopyInvariant, PTL

\* run.json never appears before the objects it announces, whoever copies and however
\* often the copying is broken off and begun again.
THEOREM ManifestComesLast == Spec => []ManifestIsLast
  <1>1. CopyInv => ManifestIsLast
    BY DEF CopyInv, ObjectsFit
  <1> QED
    BY <1>1, CopyInvariant, PTL

\* Where the service is one process, a copy is moved by one worker at a time, also when
\* its lease lapses under the worker: Replicator.active suffices.
THEOREM OneTransferPerProcess ==
    ASSUME \A s \in Settings : \A v, w \in Workers : s.at[v] = s.at[w]
    PROVE  Spec => []SingleTransfer
  <1>1. CopyInv => SingleTransfer
    BY DEF CopyInv, RestFits, Apart, SingleTransfer, Active
  <1> QED
    BY <1>1, CopyInvariant, PTL
=============================================================================
