------------------------- MODULE HotBackupInvariant -------------------------
(***************************************************************************)
(* The invariant of HotBackup: one predicate on the record of each run     *)
(* (RunInv) and three on all of them.  A step that changes one record and  *)
(* nothing else (Quiet) keeps it when RunInv holds of the new record.  The *)
(* end and the start of a process keep it.                                 *)
(***************************************************************************)
EXTENDS HotBackup, TLAPS

Types ==
    /\ conf \in Settings /\ takeover \in BOOLEAN /\ thawFailed \in BOOLEAN /\ up \in BOOLEAN
    /\ run \in [Runs -> RunType] /\ window \in [Runs -> WindowType] /\ backup \in [Backups -> BackupType]
    /\ guest \in GuestType /\ count \in [Counters -> Nat]

\* The run has a backup that is ready, and reads it or is about to.
Reading(x) == x.pc \in {"settle", "copy"} \/ (x.pc = "thaw" /\ x.then = "settle")

\* It has read the backup, or has begun to.
Copied(x) ==
    \/ x.pc \in {"copy", "finish"} \/ x.status = "succeeded"
    \/ x.pc \in {"finalize", "finalizing"} /\ x.then = "finish"

\* What is still to be recorded as a copy, or is recorded.
Claims(x) == x.pc \in {"open", "wait"} \/ Reading(x) \/ Copied(x)

\* What the steps of a run leave in its record, q being what its job asks for.
Fit(x, q) ==
    /\ x.pc \in {"finalize", "finalizing"} => x.then \in {"fail", "plain", "engine", "finish"}
    /\ x.pc = "thaw" => x.then \in {"fail", "settle", "quiesce"}
    /\ x.pc \in {"close", "closing", "wait"} \/ Reading(x) \/ Copied(x) => x.backup # None
    /\ x.pc \in {"leftovers", "close", "closing", "quiesce", "unfreeze"} => ~x.ask
    /\ x.pc = "thaw" /\ x.then = "quiesce" => ~x.ask
    /\ x.pc \in {"finalize", "finalizing"} /\ x.then = "plain" => x.level = "crash"
    /\ x.status = "succeeded" => x.pc = "ended"
    /\ q.freeze /\ q.strict => /\ x.pc \in {"finalize", "finalizing"} => x.then # "plain"
                               /\ Claims(x) => x.level = "target"

Finished(x) == x.pc \in {"ended", "dead"}
Good(p) == p \in {"frozen", "off"}

\* No other instance has started and taken the rows of this one for those of a dead process.
Alone == count["peer"] = 0

\* The backup a run names was opened; outside the closing of a leftover it is its own.
Owns(r, x) ==
    x.backup # None =>
        /\ x.backup \in Backups
        /\ backup[x.backup].phase # "none" /\ backup[x.backup].owner # Foreign
        /\ x.pc \notin {"close", "closing", "dead"} => backup[x.backup].owner = r
        /\ Reading(x) \/ Copied(x) => backup[x.backup].phase # "initializing"

\* A dead process has no run that goes on, a run that goes on has a running row, and the backup
\* it reads is open.
Lives(x) ==
    /\ ~up => x.pc = "none" \/ Finished(x)
    /\ Alone => x.pc = "none" \/ Finished(x) \/ x.status = "running"
    /\ Alone /\ Reading(x) => backup[x.backup].phase = "ready"

\* What is closed as a leftover is of a run that is over.
Leaves(x) == Alone /\ x.pc \in {"close", "closing"} => Finished(run[backup[x.backup].owner])

\* Who holds a window has not passed its thaw.
Holds(r, x) == ~thawFailed /\ window[r].held => x.pc \in {"open", "wait", "thaw"} /\ ~x.ask

\* Nobody has started the VM behind the back of the run.
Sees(x) == count["power"] = 0 /\ x.pc # "none" => x.seen = guest.power

\* A point that is fixed now is one of the level of the job, or the watchdog was first.
Sound(r) == ~guest.power \/ (window[r].held /\ guest.frozen) \/ window[r].expired

\* The premise of LevelHonest.
Calm == ~conf.overlap /\ count["power"] = 0 /\ ~thawFailed

\* From the freeze to the recorded copy: the point is going to be, or is, as good as claimed.
Honest(r, x) ==
    Calm /\ conf.req[r].freeze /\ x.level = "target" =>
        /\ x.pc = "open" /\ ~x.ask => Sound(r)
        /\ x.pc = "wait" /\ backup[x.backup].phase = "initializing" => backup[x.backup].ask \/ Sound(r)
        /\ x.pc = "wait" /\ backup[x.backup].phase = "ready" => Good(backup[x.backup].point) \/ window[r].expired
        /\ x.pc = "settle" \/ (x.pc = "thaw" /\ x.then = "settle")
              => Good(backup[x.backup].point) \/ window[r].expired
        /\ Copied(x) => Good(backup[x.backup].point)

RunInv(r, x) ==
    /\ Fit(x, conf.req[r])
    /\ Owns(r, x) /\ Lives(x) /\ Leaves(x) /\ Holds(r, x) /\ Sees(x) /\ Honest(r, x)

\* The run in the marker of a backup has begun; without a marker it is never closed from here.
Begun ==
    \A b \in Backups : IF backup[b].owner = Foreign THEN backup[b].phase # "finalizing"
                                                   ELSE run[backup[b].owner].pc # "none"

\* Somebody is going to thaw a frozen guest.
Guarded ==
    ~thawFailed /\ count["crash"] = 0 /\ (guest.frozen \/ guest.busy)
        => \E r \in Runs : run[r].pc = "unfreeze" \/ window[r].held

\* The runs of one job follow one another.
InTurn == ~conf.overlap => \A q, r \in Runs : q < r /\ run[r].pc # "none" => Finished(run[q])

Inv ==
    /\ Types /\ Begun /\ Guarded /\ InTurn
    /\ \A r \in Runs : RunInv(r, run[r])

-----------------------------------------------------------------------------
(* What steps leave. *)

\* The counters the invariant looks at.
SameCounts == \A c \in {"peer", "crash", "power"} : count'[c] = count[c]

\* What a step leaves of the record of run r, and that it leaves the others alone.
Became(r, p, t, a, b, l, s) ==
    /\ run'[r].pc = p /\ run'[r].then = t /\ run'[r].ask = a /\ run'[r].backup = b /\ run'[r].level = l
    /\ run'[r].status = s /\ run'[r].seen = run[r].seen
    /\ \A q \in Runs : q # r => run'[q] = run[q]

\* A step of run r that changes its record and nothing else the invariant looks at.
Quiet(r) ==
    /\ UNCHANGED <<conf, window, backup, guest, thawFailed, up>> /\ SameCounts
    /\ run[r].pc \notin {"none", "unfreeze"} /\ ~Finished(run[r]) /\ run'[r].pc # "none"
    /\ \A q \in Runs : q # r => run'[q] = run[q]

\* What run q claims of its backup, and what it rests on, is as good as it was.
Undisturbed(q) ==
    /\ UNCHANGED conf /\ (Calm' => Calm) /\ (Sound(q) => Sound(q)') /\ (window[q].expired => window'[q].expired)
    /\ run'[q].pc = run[q].pc /\ run'[q].then = run[q].then /\ run'[q].ask = run[q].ask
    /\ run'[q].level = run[q].level /\ run'[q].backup = run[q].backup /\ (Copied(run'[q]) => Copied(run[q]))
    /\ run[q].backup # None =>
          /\ backup'[run[q].backup].point = backup[run[q].backup].point
          /\ backup'[run[q].backup].ask = backup[run[q].backup].ask
          /\ backup'[run[q].backup].phase \in {backup[run[q].backup].phase, "finalizing"}

\* A finalize is asked for.
Closing(b) ==
    /\ b \in Backups /\ backup[b].phase \in {"initializing", "ready", "finalizing"} /\ backup'[b].phase = "finalizing"
    /\ \A c \in Backups : c # b => backup'[c].phase = backup[c].phase
    /\ \A c \in Backups : /\ backup'[c].owner = backup[c].owner /\ backup'[c].point = backup[c].point
                            /\ backup'[c].ask = backup[c].ask

\* What ThawGuest leaves.
Thawed(r, e) ==
    /\ SameCounts /\ guest'.power = guest.power
    /\ \A q \in Runs : q # r => window'[q] = window[q]
    /\ window'[r].expired = e
    /\ \/ ~window[r].held /\ ~window'[r].held /\ UNCHANGED <<guest, thawFailed>>
       \/ window[r].held /\ ~window'[r].held /\ ~guest'.frozen /\ ~guest'.busy /\ UNCHANGED thawFailed
       \/ thawFailed'

\* What ReconcileStaleRuns leaves: rows that ran have failed, some open backups are closed.
Reconciled ==
    /\ \A q \in Runs :
          /\ run'[q].backup = run[q].backup /\ run'[q].seen = run[q].seen /\ run'[q].level = run[q].level
          /\ run'[q].pc = run[q].pc /\ run'[q].then = run[q].then /\ run'[q].ask = run[q].ask
          /\ run'[q].status = IF run[q].status = "running" THEN "failed" ELSE run[q].status
    /\ \A b \in Backups :
          /\ backup'[b].owner = backup[b].owner /\ backup'[b].point = backup[b].point /\ backup'[b].ask = backup[b].ask
          /\ \/ backup'[b].phase = backup[b].phase
             \/ backup[b].owner # Foreign /\ backup'[b].phase = "finalizing"

-----------------------------------------------------------------------------
(* Lemmas. *)

\* The records a run, a window and a backup start with.
LEMMA StartTypes ==
    /\ NoRun \in RunType /\ NoWindow \in WindowType /\ NoBackup \in BackupType
    /\ \A p \in BOOLEAN : [frozen |-> FALSE, busy |-> FALSE, power |-> p] \in GuestType
  BY HotBackupConstants DEF NoRun, NoWindow, NoBackup, RunType, WindowType, BackupType, GuestType, Steps,
     Nexts, Levels, None, Foreign

\* A bounded event counts one counter up and no other.
LEMMA Spent ==
    ASSUME Types, NEW c \in Counters, Spend(c)
    PROVE  /\ count'[c] # 0
           /\ \A d \in Counters \ {c} : count'[d] = count[d]
  BY DEF Types, Spend

\* A call that fails leaves the counters the invariant looks at.
LEMMA FaultSpent == ASSUME Types, Spend("fault") \/ UNCHANGED count PROVE SameCounts
  BY DEF Types, Spend, Counters, SameCounts

\* The thaw function of guardFreeze: nothing to do, the guest thawed, or a failure that is reported.
LEMMA ThawEffect ==
    ASSUME Types, NEW r \in Runs, NEW win \in WindowType, win.held = window[r].held, ThawGuest(r, win)
    PROVE  Thawed(r, win.expired) /\ window' \in [Runs -> WindowType] /\ guest' \in GuestType
  <1>1. SameCounts
    BY FaultSpent DEF ThawGuest
  <1>2. CASE ~window[r].held /\ window' = [window EXCEPT ![r] = win] /\ UNCHANGED <<guest, thawFailed>>
    BY <1>1, <1>2 DEF Types, Thawed
  <1>3. CASE /\ window[r].held /\ ~guest.busy /\ window' = [window EXCEPT ![r] = [win EXCEPT !.held = FALSE]]
             /\ guest' = [guest EXCEPT !.frozen = FALSE] /\ UNCHANGED thawFailed
    <2> DEFINE y == [win EXCEPT !.held = FALSE]
    <2>1. y \in WindowType /\ ~y.held /\ y.expired = win.expired
      BY Zenon DEF WindowType
    <2>2. guest' \in GuestType /\ ~guest'.frozen /\ ~guest'.busy /\ guest'.power = guest.power
      BY Zenon, <1>3 DEF Types, GuestType
    <2>3. window[r].held /\ window' = [window EXCEPT ![r] = y] /\ UNCHANGED thawFailed
      BY <1>3
    <2> HIDE DEF y
    <2> QED BY <1>1, <2>1, <2>2, <2>3 DEF Types, Thawed
  <1>4. CASE window' = [window EXCEPT ![r] = win] /\ thawFailed' = TRUE /\ UNCHANGED guest
    BY <1>1, <1>4 DEF Types, Thawed
  <1> QED BY Zenon, <1>2, <1>3, <1>4 DEF ThawGuest

\* ReconcileStaleRuns changes the status of a row and the phase of a backup, and nothing else.
LEMMA ReconcileEffect == ASSUME Types, ReconcileStaleRuns PROVE Reconciled
  <1>1. PICK closed \in SUBSET {b \in Open : LiveOwner(b) /\ run[backup[b].owner].backup = b} :
          backup' = [b \in Backups |-> IF b \in closed THEN [backup[b] EXCEPT !.phase = "finalizing"] ELSE backup[b]]
    BY Zenon DEF ReconcileStaleRuns
  <1>2. ASSUME NEW b \in Backups
        PROVE  /\ backup'[b].owner = backup[b].owner /\ backup'[b].point = backup[b].point /\ backup'[b].ask = backup[b].ask
               /\ \/ backup'[b].phase = backup[b].phase
                  \/ backup[b].owner # Foreign /\ backup'[b].phase = "finalizing"
    BY <1>1 DEF LiveOwner
  <1>3. ASSUME NEW q \in Runs
        PROVE  /\ run'[q].backup = run[q].backup /\ run'[q].seen = run[q].seen /\ run'[q].level = run[q].level
               /\ run'[q].pc = run[q].pc /\ run'[q].then = run[q].then /\ run'[q].ask = run[q].ask
               /\ run'[q].status = IF run[q].status = "running" THEN "failed" ELSE run[q].status
    BY DEF ReconcileStaleRuns
  <1> QED BY Zenon, <1>2, <1>3 DEF Reconciled

\* The marker of a backup names a run.
LEMMA BackupOwner == ASSUME Types, NEW b \in Backups, backup[b].owner # Foreign PROVE backup[b].owner \in Runs
  BY DEF Types, BackupType, Runs, Foreign

\* Runs of one job follow one another: while one goes on, the others are idle.
LEMMA OneAtATime ==
    ASSUME Inv, ~conf.overlap, NEW r \in Runs, run[r].pc # "none", ~Finished(run[r]),
           NEW q \in Runs, q # r
    PROVE  run[q].pc = "none" \/ Finished(run[q])
  BY DEF Inv, InTurn, Runs

\* A leftover stays one of a run that is over, as markers stay and what is over stays over.
LEMMA LeavesKept ==
    ASSUME Inv, NEW q \in Runs, Alone' => Alone,
           run'[q].pc \in {"close", "closing"} => run[q].pc \in {"close", "closing"} /\ run'[q].backup = run[q].backup,
           \A b \in Backups : backup[b].phase # "none" => backup'[b].owner = backup[b].owner,
           \A o \in Runs : Finished(run[o]) => Finished(run'[o])
    PROVE  Leaves(run[q])'
  <1> SUFFICES ASSUME Alone, run'[q].pc \in {"close", "closing"}
               PROVE  Finished(run'[backup'[run'[q].backup].owner])
    BY DEF Leaves
  <1> DEFINE b == run[q].backup
  <1>1. /\ b \in Backups /\ backup[b].phase # "none" /\ backup[b].owner # Foreign
        /\ Finished(run[backup[b].owner])
    BY DEF Inv, RunInv, Fit, Owns, Leaves
  <1>2. backup[b].owner \in Runs
    BY Zenon, <1>1, BackupOwner DEF Inv
  <1> QED BY Zenon, <1>1, <1>2

\* FinalizeBackup with an open backup.
LEMMA Closes ==
    ASSUME Types, NEW b \in Open, backup' = [backup EXCEPT ![b].phase = "finalizing"]
    PROVE  Closing(b)
  BY DEF Types, Open, Closing

\* A run whose claim and backup a step leaves alone stays as honest as it was.
LEMMA HonestStays ==
    ASSUME NEW q \in Runs, RunInv(q, run[q]), Undisturbed(q)
    PROVE  Honest(q, run[q])'
  <1>1. run[q].pc \in {"wait", "settle"} \/ (run[q].pc = "thaw" /\ run[q].then = "settle") \/ Copied(run[q])
          => run[q].backup # None
    BY DEF RunInv, Fit, Reading
  <1>2. Honest(q, run[q])
    BY DEF RunInv
  <1> QED BY Zenon, <1>1, <1>2 DEF Honest, Undisturbed

\* A quiet step keeps the invariant when the new record is a good one.
LEMMA QuietStep ==
    ASSUME Inv, Types', NEW r \in Runs, Quiet(r), RunInv(r, run'[r])
    PROVE  Inv'
  <1>1. Begun'
    BY DEF Inv, Begun, Quiet, Types, BackupType, Runs, Foreign
  <1>2. Guarded'
    BY DEF Inv, Guarded, Quiet, SameCounts
  <1>3. InTurn'
    BY DEF Inv, InTurn, Quiet
  <1>4. \A q \in Runs : RunInv(q, run'[q])
    BY DEF Inv, Quiet
  <1>5. \A q \in Runs : RunInv(q, run[q])'
    <2> SUFFICES ASSUME NEW q \in Runs PROVE RunInv(q, run[q])'
      OBVIOUS
    <2>1. RunInv(q, run'[q])
      BY <1>4
    <2>2. Fit(run[q], conf.req[q])' /\ Owns(q, run[q])'
      BY Zenon, <2>1 DEF RunInv, Owns, Quiet
    <2>6. Lives(run[q])'
      BY Zenon, <2>1 DEF RunInv, Lives, Alone, Quiet, SameCounts
    <2>3. Holds(q, run[q])' /\ Sees(run[q])'
      BY Zenon, <2>1 DEF RunInv, Holds, Sees, Quiet, SameCounts
    <2>4. Honest(q, run[q])'
      <3>1. (Calm' <=> Calm) /\ (Sound(q)' <=> Sound(q))
        BY DEF Calm, Sound, Quiet, SameCounts
      <3>2. UNCHANGED <<conf, window, backup>>
        BY DEF Quiet
      <3>3. Honest(q, run'[q])
        BY <2>1 DEF RunInv
      <3> QED BY Zenon, <3>1, <3>2, <3>3 DEF Honest
    <2>5. Leaves(run[q])'
      <3> SUFFICES ASSUME Alone, run'[q].pc \in {"close", "closing"}
                   PROVE  Finished(run'[backup[run'[q].backup].owner])
        BY DEF Leaves, Alone, Quiet, SameCounts
      <3>1. backup[run'[q].backup].owner \in Runs /\ Finished(run[backup[run'[q].backup].owner])
        BY Zenon, <2>1, BackupOwner DEF RunInv, Fit, Owns, Leaves, Inv
      <3> QED BY Zenon, <3>1 DEF Quiet
    <2> QED BY Zenon, <2>2, <2>3, <2>4, <2>5, <2>6 DEF RunInv
  <1> QED BY <1>1, <1>2, <1>3, <1>5 DEF Inv

\* A step of the engine or of another backup system with backup b.
LEMMA EngineStep ==
    ASSUME Inv, Types', NEW b \in Backups, UNCHANGED <<conf, run, window, guest, thawFailed, up>>, SameCounts,
           backup'[b].owner = backup[b].owner, backup[b].owner = Foreign => backup'[b].phase # "finalizing",
           \A c \in Backups : c # b => backup'[c] = backup[c],
           \A q \in Runs : run[q].backup = b => Owns(q, run[q])' /\ Lives(run[q])' /\ Honest(q, run[q])'
    PROVE  Inv'
  <1>1. Begun' /\ Guarded' /\ InTurn'
    BY DEF Inv, Begun, Guarded, InTurn, SameCounts
  <1>2. ASSUME NEW q \in Runs PROVE RunInv(q, run[q])'
    <2>1. RunInv(q, run[q])
      BY DEF Inv
    <2>2. Fit(run[q], conf.req[q])' /\ Holds(q, run[q])' /\ Sees(run[q])'
      BY Zenon, <2>1 DEF RunInv, Holds, Sees, SameCounts
    <2>3. Leaves(run[q])'
      BY LeavesKept DEF Alone, SameCounts
    <2>4. CASE run[q].backup # b
      <3>1. run[q].backup # None => backup'[run[q].backup] = backup[run[q].backup]
        BY Zenon, <2>1, <2>4 DEF RunInv, Owns
      <3>2. Owns(q, run[q])'
        BY Zenon, <2>1, <3>1 DEF RunInv, Owns
      <3>4. Lives(run[q])'
        BY Zenon, <2>1, <3>1 DEF RunInv, Lives, Fit, Alone, SameCounts
      <3>3. Honest(q, run[q])'
        <4>1. (Calm' => Calm) /\ (Sound(q) => Sound(q)')
          BY DEF Calm, Sound, SameCounts
        <4>2. Undisturbed(q)
          BY Zenon, <3>1, <4>1 DEF Undisturbed
        <4> QED BY <2>1, <4>2, HonestStays
      <3> QED BY Zenon, <2>2, <2>3, <3>2, <3>3, <3>4 DEF RunInv
    <2> QED BY Zenon, <2>2, <2>3, <2>4 DEF RunInv
  <1> QED BY <1>1, <1>2 DEF Inv

\* A step that changes nothing keeps the invariant.
LEMMA StutterKeeps == ASSUME Inv, UNCHANGED vars PROVE Inv'
  <1>1. Types' /\ Begun' /\ Guarded' /\ InTurn'
    BY DEF vars, Inv, Types, Begun, Guarded, InTurn
  <1>2. ASSUME NEW q \in Runs PROVE RunInv(q, run[q])'
    <2>1. RunInv(q, run[q])
      BY DEF Inv
    <2>2. Fit(run[q], conf.req[q])' /\ Owns(q, run[q])'
      BY Zenon, <2>1 DEF vars, RunInv, Owns
    <2>3. Lives(run[q])' /\ Leaves(run[q])' /\ Holds(q, run[q])' /\ Sees(run[q])'
      BY Zenon, <2>1 DEF vars, RunInv, Lives, Leaves, Holds, Sees, Alone
    <2>4. Honest(q, run[q])'
      BY Zenon, <2>1 DEF vars, RunInv, Honest, Calm, Sound
    <2> QED BY <2>2, <2>3, <2>4 DEF RunInv
  <1> QED BY <1>1, <1>2 DEF Inv

-----------------------------------------------------------------------------
(* The steps of the process. *)

\* The process dies: its runs are over, and so are its windows.
LEMMA CrashKeeps ==
    ASSUME Inv, Types', Crash
    PROVE  Inv'
  <1>1. UNCHANGED <<conf, backup, guest, thawFailed>> /\ up' = FALSE /\ \A q \in Runs : ~window'[q].held
    BY DEF Crash, NoWindow
  <1>2. \A q \in Runs :
          /\ run'[q].backup = run[q].backup /\ run'[q].seen = run[q].seen /\ run'[q].level = run[q].level
          /\ run'[q].status = run[q].status /\ run'[q].then = run[q].then /\ run'[q].ask = run[q].ask
          /\ run'[q].pc = IF run[q].pc = "none" \/ Finished(run[q]) THEN run[q].pc ELSE "dead"
    BY DEF Crash, At, Over, Finished
  <1>3. count'["crash"] # 0 /\ count'["power"] = count["power"] /\ count'["peer"] = count["peer"]
    BY Spent DEF Crash, Inv, Counters
  <1>4. Begun' /\ InTurn'
    BY Zenon, <1>1, <1>2, BackupOwner DEF Inv, Begun, InTurn, Finished
  <1>5. Guarded'
    BY <1>3 DEF Guarded
  <1>6. ASSUME NEW q \in Runs PROVE RunInv(q, run[q])'
    <2>1. RunInv(q, run[q])
      BY DEF Inv
    <2>2. Fit(run[q], conf.req[q])'
      BY Zenon, <1>1, <1>2, <2>1 DEF RunInv, Fit, Claims, Copied, Reading, Finished
    <2>3. Owns(q, run[q])'
      BY Zenon, <1>1, <1>2, <2>1 DEF RunInv, Owns, Copied, Reading
    <2>4. Lives(run[q])'
      BY <1>2 DEF Lives, Finished, Reading
    <2>5. Leaves(run[q])'
      BY Zenon, <1>1, <1>2, <1>3, LeavesKept DEF Alone, Finished
    <2>6. Holds(q, run[q])' /\ Sees(run[q])'
      BY Zenon, <1>1, <1>2, <1>3, <2>1 DEF RunInv, Holds, Sees
    <2>7. Honest(q, run[q])'
      <3>1. /\ run'[q].pc \in {"none", "ended", "dead"} /\ (Copied(run'[q]) => Copied(run[q]))
            /\ run'[q].level = run[q].level /\ run'[q].backup = run[q].backup
        BY <1>2 DEF Copied, Finished
      <3>2. Calm' => Calm
        BY <1>1, <1>3 DEF Calm
      <3> QED BY Zenon, <1>1, <2>1, <3>1, <3>2 DEF RunInv, Honest
    <2> QED BY Zenon, <2>2, <2>3, <2>4, <2>5, <2>6, <2>7 DEF RunInv
  <1> QED BY <1>4, <1>5, <1>6 DEF Inv

\* Restart and PeerStarts reconcile rows: of their own process, where no run goes on, or of another.
LEMMA ReconciledKeeps ==
    ASSUME Inv, Types', Reconciled, UNCHANGED <<conf, window, guest, thawFailed>>, up',
           count'["crash"] = count["crash"], count'["power"] = count["power"], Alone' => Alone /\ ~up
    PROVE  Inv'
  <1>1. Begun' /\ InTurn'
    BY BackupOwner DEF Inv, Begun, InTurn, Finished, Reconciled
  <1>2. Guarded'
    BY DEF Inv, Guarded, Reconciled
  <1>3. ASSUME NEW q \in Runs PROVE RunInv(q, run[q])'
    <2>1. RunInv(q, run[q])
      BY DEF Inv
    <2>2. /\ run'[q].pc = run[q].pc /\ run'[q].then = run[q].then /\ run'[q].ask = run[q].ask
          /\ run'[q].level = run[q].level /\ run'[q].backup = run[q].backup /\ run'[q].seen = run[q].seen
          /\ run'[q].status = "succeeded" => run[q].status = "succeeded"
      BY DEF Reconciled
    <2>3. (Reading(run'[q]) <=> Reading(run[q])) /\ (Copied(run'[q]) => Copied(run[q]))
      BY <2>2 DEF Reading, Copied
    <2>4. Fit(run[q], conf.req[q])'
      <3>1. Claims(run'[q]) => Claims(run[q])
        BY <2>2, <2>3 DEF Claims
      <3> QED BY Zenon, <2>1, <2>2, <2>3, <3>1 DEF RunInv, Fit
    <2>5. Owns(q, run[q])'
      BY <2>1, <2>2, <2>3 DEF RunInv, Owns, Reconciled
    <2>6. Lives(run[q])'
      BY Zenon, <2>1, <2>2 DEF RunInv, Lives, Finished, Reading
    <2>7. Leaves(run[q])'
      BY Zenon, LeavesKept DEF Finished, Reconciled
    <2>8. Holds(q, run[q])' /\ Sees(run[q])'
      BY Zenon, <2>1, <2>2 DEF RunInv, Holds, Sees
    <2>9. Honest(q, run[q])'
      <3>1. run[q].backup # None =>
              /\ backup'[run[q].backup].point = backup[run[q].backup].point
              /\ backup'[run[q].backup].ask = backup[run[q].backup].ask
              /\ backup'[run[q].backup].phase \in {backup[run[q].backup].phase, "finalizing"}
        BY Zenon, <2>1 DEF RunInv, Owns, Reconciled
      <3>2. (Calm' => Calm) /\ (Sound(q) => Sound(q)')
        BY DEF Calm, Sound
      <3>3. Undisturbed(q)
        BY Zenon, <2>2, <2>3, <3>1, <3>2 DEF Undisturbed
      <3> QED BY <2>1, <3>3, HonestStays
    <2> QED BY Zenon, <2>4, <2>5, <2>6, <2>7, <2>8, <2>9 DEF RunInv
  <1> QED BY <1>1, <1>2, <1>3 DEF Inv

\* The process starts and reconciles the rows it left running.
LEMMA RestartKeeps ==
    ASSUME Inv, Types', Restart
    PROVE  Inv'
  <1>1. UNCHANGED <<conf, window, guest, thawFailed, count>> /\ ~up /\ up'
    BY DEF Restart
  <1>2. Reconciled
    BY ReconcileEffect DEF Restart, Inv
  <1> QED BY <1>1, <1>2, ReconciledKeeps DEF Alone

\* Another instance starts, and takes the rows of this one for those of a dead process.
LEMMA PeerStartsKeeps ==
    ASSUME Inv, Types', PeerStarts
    PROVE  Inv'
  <1>1. UNCHANGED <<conf, window, guest, thawFailed>> /\ up'
    BY DEF PeerStarts
  <1>2. Reconciled
    BY ReconcileEffect DEF PeerStarts, Inv
  <1>3. count'["peer"] # 0 /\ count'["crash"] = count["crash"] /\ count'["power"] = count["power"]
    BY Spent DEF PeerStarts, Inv, Counters
  <1> QED BY <1>1, <1>2, <1>3, ReconciledKeeps DEF Alone
=============================================================================
