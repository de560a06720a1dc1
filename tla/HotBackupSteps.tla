--------------------------- MODULE HotBackupSteps ---------------------------
(***************************************************************************)
(* The steps of a run, of the guest and of the engine keep the invariant   *)
(* of HotBackup, one lemma each.                                           *)
(***************************************************************************)
EXTENDS HotBackupInvariant


-----------------------------------------------------------------------------
(* The steps that freeze and thaw the guest, those of the watchdog, of the agent and of the owner of the VM. *)

\* settleFreeze: the level is kept only if the watchdog was not first.
LEMMA SettleKeeps ==
    ASSUME Inv, Types', NEW r \in Runs, Settle(r)
    PROVE  Inv'
  <1>0. Types
    BY DEF Inv
  <1>1. /\ run[r].pc = "settle"
        /\ \/ ~window[r].expired /\ Became(r, "copy", run[r].then, run[r].ask, run[r].backup, run[r].level, run[r].status)
           \/ Became(r, "finalize", "engine", run[r].ask, run[r].backup, run[r].level, run[r].status)
           \/ ~conf.req[r].strict /\ Became(r, "copy", "fail", run[r].ask, run[r].backup, "crash", run[r].status)
           \/ Became(r, "finalize", "fail", run[r].ask, run[r].backup, "crash", run[r].status)
    BY DEF Types, RunType, Settle, Move, Finalizing, At, Became
  <1>2. /\ UNCHANGED <<conf, backup, guest, thawFailed, up, count>>
        /\ \A q \in Runs : q # r => window'[q] = window[q]
        /\ window'[r] = window[r] \/ ~window'[r].held
    BY DEF Settle, NoWindow, Types
  <1>3. RunInv(r, run[r]) /\ SameCounts
    BY <1>2 DEF Inv, SameCounts
  <1>4. Begun' /\ InTurn'
    <2>1. Begun'
      BY <1>1, <1>2, BackupOwner DEF Inv, Begun, Became
    <2>2. InTurn'
      BY <1>1, <1>2 DEF Inv, InTurn, Became, Finished
    <2> QED BY <2>1, <2>2
  <1>5. Guarded'
    BY <1>1, <1>2 DEF Inv, Guarded, Became, RunInv, Holds
  <1>6. ASSUME NEW q \in Runs PROVE RunInv(q, run[q])'
    <2>1. RunInv(q, run[q])
      BY DEF Inv
    <2>2. Fit(run[q], conf.req[q])'
      BY <1>1, <1>2, <2>1 DEF RunInv, Fit, Claims, Copied, Reading, Became
    <2>3. Owns(q, run[q])'
      BY Zenon, <1>1, <1>2, <2>1 DEF RunInv, Owns, Reading, Became
    <2>4. Lives(run[q])'
      BY Zenon, <1>1, <1>2, <2>1 DEF RunInv, Lives, Alone, Finished, Reading, Became
    <2>5. Leaves(run[q])'
      BY Zenon, <1>1, <1>2, LeavesKept DEF Alone, Finished, Became
    <2>6. Holds(q, run[q])' /\ Sees(run[q])'
      BY Zenon, <1>1, <1>2, <2>1 DEF RunInv, Holds, Sees, Became
    <2>7. Honest(q, run[q])'
      <3>1. CASE q = r
        BY Zenon, <1>1, <1>2, <2>1, <3>1 DEF RunInv, Honest, Copied, Calm, Became
      <3>2. CASE q # r
        BY Zenon, <1>1, <1>2, <2>1, <3>2, OneAtATime DEF RunInv, Honest, Calm, Finished, Became
      <3> QED BY <3>1, <3>2
    <2> QED BY Zenon, <2>2, <2>3, <2>4, <2>5, <2>6, <2>7 DEF RunInv
  <1> QED BY <1>4, <1>5, <1>6 DEF Inv

\* FreezeWindow.Thaw: the window is let go, or the failure is reported.
LEMMA ThawKeeps ==
    ASSUME Inv, Types', NEW r \in Runs, Thaw(r)
    PROVE  Inv'
  <1>t. Types
    BY DEF Inv
  <1> DEFINE win == [window[r] EXCEPT !.timer = IF @ = "armed" THEN "off" ELSE @]
  <1>1. win \in WindowType /\ win.held = window[r].held /\ win.expired = window[r].expired
    BY DEF Inv, Types, WindowType
  <1>2. ThawGuest(r, win) /\ UNCHANGED <<conf, backup, up>>
    BY DEF Thaw
  <1> HIDE DEF win
  <1>0. /\ run[r].pc = "thaw"
        /\ \/ Became(r, "thaw", "fail", run[r].ask, run[r].backup, run[r].level, run[r].status)
           \/ (run[r].then = "fail" /\ Became(r, "finalize", run[r].then, run[r].ask, run[r].backup, run[r].level, run[r].status))
           \/ (run[r].then # "fail" /\ Became(r, run[r].then, run[r].then, run[r].ask, run[r].backup, run[r].level, run[r].status))
    BY DEF Types, Thaw, At, Became
  <1>3. Thawed(r, window[r].expired) /\ RunInv(r, run[r])
    BY Zenon, <1>1, <1>2, ThawEffect DEF Inv
  <1>s. \/ Became(r, "thaw", "fail", run[r].ask, run[r].backup, run[r].level, run[r].status)
        \/ Became(r, "finalize", "fail", run[r].ask, run[r].backup, run[r].level, run[r].status)
        \/ run[r].then = "settle" /\ Became(r, "settle", "settle", run[r].ask, run[r].backup, run[r].level, run[r].status)
        \/ run[r].then = "quiesce" /\ Became(r, "quiesce", "quiesce", run[r].ask, run[r].backup, run[r].level, run[r].status)
    BY Zenon, <1>0, <1>3 DEF RunInv, Fit
  <1>4. Begun' /\ InTurn'
    BY Zenon, <1>0, <1>s, <1>2, BackupOwner DEF Inv, Begun, InTurn, Became, Finished
  <1>5. Guarded'
    BY <1>0, <1>3 DEF Inv, Guarded, Became, SameCounts, Thawed
  <1>6. ASSUME NEW q \in Runs PROVE RunInv(q, run[q])'
    <2>1. RunInv(q, run[q])
      BY DEF Inv
    <2>2. Fit(run[q], conf.req[q])'
      BY SMTT(30), <1>0, <1>2, <2>1 DEF RunInv, Fit, Claims, Copied, Reading, Became
    <2>3. Owns(q, run[q])'
      BY Zenon, <1>0, <1>s, <1>2, <2>1 DEF RunInv, Owns, Copied, Reading, Became
    <2>4. Lives(run[q])'
      BY ZenonT(30), <1>0, <1>s, <1>2, <1>3, <2>1 DEF RunInv, Lives, Alone, SameCounts, Finished, Reading,
         Became, Thawed
    <2>5. Leaves(run[q])'
      BY Zenon, <1>0, <1>s, <1>2, <1>3, LeavesKept DEF Alone, SameCounts, Finished, Became, Thawed
    <2>6. Holds(q, run[q])' /\ Sees(run[q])'
      BY Zenon, <1>0, <1>3, <2>1 DEF RunInv, Holds, Sees, SameCounts, Became, Thawed
    <2>7. Honest(q, run[q])'
      <3>1. CASE q = r
        BY Zenon, <1>0, <1>s, <1>2, <1>3, <2>1, <3>1 DEF RunInv, Honest, Copied, Calm, SameCounts, Became,
           Thawed
      <3>2. CASE q # r
        BY Zenon, <1>0, <1>2, <1>3, <2>1, <3>2, OneAtATime DEF RunInv, Honest, Calm, SameCounts, Finished,
           Became, Thawed
      <3> QED BY <3>1, <3>2
    <2> QED BY Zenon, <2>2, <2>3, <2>4, <2>5, <2>6, <2>7 DEF RunInv
  <1> QED BY <1>4, <1>5, <1>6 DEF Inv

\* quiesce and guardFreeze: the window is held, and the guest frozen.
LEMMA FreezeFilesystemsKeeps ==
    ASSUME Inv, Types', NEW r \in Runs, FreezeFilesystems(r)
    PROVE  Inv'
  <1>0. Types
    BY DEF Inv
  <1>1. /\ run[r].pc = "quiesce"
        /\ Became(r, "open", run[r].then, run[r].ask, run[r].backup, "target", run[r].status)
    BY DEF Types, FreezeFilesystems, ServiceFreezes, At, Became
  <1>2. /\ UNCHANGED <<conf, backup, thawFailed, up>>
        /\ guest'.frozen /\ guest'.power = guest.power
        /\ window'[r].held /\ (\A q \in Runs : q # r => window'[q] = window[q])
    BY Zenon DEF Types, GuestType, FreezeFilesystems
  <1>3. SameCounts
    BY DEF FreezeFilesystems, SameCounts
  <1>4. Begun' /\ InTurn'
    BY <1>1, <1>2, BackupOwner DEF Inv, Begun, InTurn, Became, Finished
  <1>5. Guarded'
    BY <1>2 DEF Guarded
  <1>6. ASSUME NEW q \in Runs PROVE RunInv(q, run[q])'
    <2>1. RunInv(q, run[q])
      BY DEF Inv
    <2>2. Fit(run[q], conf.req[q])'
      BY <1>1, <1>2, <2>1 DEF RunInv, Fit, Copied, Reading, Became
    <2>3. Owns(q, run[q])'
      BY <1>1, <1>2, <2>1 DEF RunInv, Owns, Copied, Reading, Became
    <2>4. Lives(run[q])'
      BY <1>1, <1>2, <1>3, <2>1 DEF RunInv, Lives, Alone, SameCounts, Finished, Reading, Became
    <2>5. Leaves(run[q])'
      BY Zenon, <1>1, <1>2, <1>3, LeavesKept DEF Alone, SameCounts, Finished, Became
    <2>6. Holds(q, run[q])' /\ Sees(run[q])'
      BY <1>1, <1>2, <1>3, <2>1 DEF RunInv, Fit, Holds, Sees, SameCounts, Became
    <2>7. Honest(q, run[q])'
      <3>1. CASE q = r
        BY Zenon, <1>1, <1>2, <2>1, <3>1 DEF RunInv, Fit, Honest, Copied, Sound, Became
      <3>2. CASE q # r
        BY Zenon, <1>1, <1>2, <1>3, <2>1, <3>2, OneAtATime DEF RunInv, Honest, Calm, SameCounts, Finished, Became
      <3> QED BY <3>1, <3>2
    <2> QED BY Zenon, <2>2, <2>3, <2>4, <2>5, <2>6, <2>7 DEF RunInv
  <1> QED BY <1>4, <1>5, <1>6 DEF Inv

\* A freeze that is given up leaves a run that is going to thaw.
LEMMA FreezeTimesOutKeeps ==
    ASSUME Inv, Types', NEW r \in Runs, FreezeTimesOut(r)
    PROVE  Inv'
  <1>0. Types
    BY DEF Inv
  <1>1. /\ run[r].pc = "quiesce"
        /\ Became(r, "unfreeze", run[r].then, run[r].ask, run[r].backup, run[r].level, run[r].status)
    BY DEF Types, FreezeTimesOut, ServiceFreezes, At, Became
  <1>2. /\ UNCHANGED <<conf, window, backup, thawFailed, up>>
        /\ guest'.busy /\ guest'.frozen = guest.frozen /\ guest'.power = guest.power
    BY Zenon DEF Types, GuestType, FreezeTimesOut
  <1>3. SameCounts
    BY FaultSpent DEF FreezeTimesOut, Inv
  <1>4. Begun' /\ InTurn'
    BY <1>1, <1>2, BackupOwner DEF Inv, Begun, InTurn, Became, Finished
  <1>5. Guarded'
    BY <1>1 DEF Guarded, Became
  <1>6. ASSUME NEW q \in Runs PROVE RunInv(q, run[q])'
    <2>1. RunInv(q, run[q])
      BY DEF Inv
    <2>2. Fit(run[q], conf.req[q])'
      BY <1>1, <1>2, <2>1 DEF RunInv, Fit, Claims, Copied, Reading, Became
    <2>3. Owns(q, run[q])'
      BY <1>1, <1>2, <2>1 DEF RunInv, Owns, Copied, Reading, Became
    <2>4. Lives(run[q])'
      BY <1>1, <1>2, <1>3, <2>1 DEF RunInv, Lives, Alone, SameCounts, Finished, Reading, Became
    <2>5. Leaves(run[q])'
      BY Zenon, <1>1, <1>2, <1>3, LeavesKept DEF Alone, SameCounts, Finished, Became
    <2>6. Holds(q, run[q])' /\ Sees(run[q])'
      BY Zenon, <1>1, <1>2, <1>3, <2>1 DEF RunInv, Holds, Sees, SameCounts, Became
    <2>7. Honest(q, run[q])'
      <3>1. CASE q = r
        BY Zenon, <1>1, <1>2, <1>3, <2>1, <3>1 DEF RunInv, Honest, Copied, Calm, SameCounts, Became
      <3>2. CASE q # r
        BY Zenon, <1>1, <1>2, <1>3, <2>1, <3>2, OneAtATime DEF RunInv, Honest, Calm, SameCounts, Finished, Became
      <3> QED BY <3>1, <3>2
    <2> QED BY Zenon, <2>2, <2>3, <2>4, <2>5, <2>6, <2>7 DEF RunInv
  <1> QED BY <1>4, <1>5, <1>6 DEF Inv

\* ThawAfterFailedFreeze: no run of another window relies on the freeze, unless runs overlap.
LEMMA ThawAfterFailedFreezeKeeps ==
    ASSUME Inv, Types', NEW r \in Runs, ThawAfterFailedFreeze(r)
    PROVE  Inv'
  <1>0. Types
    BY DEF Inv
  <1>1. /\ run[r].pc = "unfreeze"
        /\ \/ Became(r, "open", run[r].then, TRUE, run[r].backup, "target", run[r].status)
           \/ Became(r, "finalize", "fail", run[r].ask, run[r].backup, "crash", run[r].status)
           \/ ~conf.req[r].strict /\ Became(r, "open", run[r].then, run[r].ask, run[r].backup, "crash", run[r].status)
    BY DEF Types, RunType, ThawAfterFailedFreeze, Unfrozen, At, Became
  <1>2. /\ UNCHANGED <<conf, window, backup, thawFailed, up>>
        /\ ~guest'.busy /\ ~guest'.frozen /\ guest'.power = guest.power
    BY DEF ThawAfterFailedFreeze
  <1>3. SameCounts
    BY DEF ThawAfterFailedFreeze, SameCounts
  <1>4. Begun' /\ InTurn'
    BY Zenon, <1>1, <1>2, BackupOwner DEF Inv, Begun, InTurn, Became, Finished
  <1>5. Guarded'
    BY <1>2 DEF Guarded
  <1>6. ASSUME NEW q \in Runs PROVE RunInv(q, run[q])'
    <2>1. RunInv(q, run[q])
      BY DEF Inv
    <2>2. Fit(run[q], conf.req[q])'
      BY <1>1, <1>2, <2>1 DEF RunInv, Fit, Claims, Copied, Reading, Became
    <2>3. Owns(q, run[q])'
      BY Zenon, <1>1, <1>2, <2>1 DEF RunInv, Owns, Copied, Reading, Became
    <2>4. Lives(run[q])'
      BY Zenon, <1>1, <1>2, <1>3, <2>1 DEF RunInv, Lives, Alone, SameCounts, Finished, Reading, Became
    <2>5. Leaves(run[q])'
      BY Zenon, <1>1, <1>2, <1>3, LeavesKept DEF Alone, SameCounts, Finished, Became
    <2>6. Holds(q, run[q])' /\ Sees(run[q])'
      BY Zenon, <1>1, <1>2, <1>3, <2>1 DEF RunInv, Holds, Sees, SameCounts, Became
    <2>7. Honest(q, run[q])'
      <3>1. CASE q = r
        BY Zenon, <1>1, <2>1, <3>1 DEF RunInv, Fit, Honest, Copied, Became
      <3>2. CASE q # r
        BY Zenon, <1>1, <1>2, <1>3, <2>1, <3>2, OneAtATime DEF RunInv, Honest, Calm, SameCounts, Finished, Became
      <3> QED BY <3>1, <3>2
    <2> QED BY Zenon, <2>2, <2>3, <2>4, <2>5, <2>6, <2>7 DEF RunInv
  <1> QED BY <1>4, <1>5, <1>6 DEF Inv

\* A thaw that is given up is reported.
LEMMA ThawGivenUpKeeps ==
    ASSUME Inv, Types', NEW r \in Runs, ThawGivenUp(r)
    PROVE  Inv'
  <1>0. Types
    BY DEF Inv
  <1>1. /\ run[r].pc = "unfreeze"
        /\ \/ Became(r, "open", run[r].then, TRUE, run[r].backup, "target", run[r].status)
           \/ Became(r, "finalize", "fail", run[r].ask, run[r].backup, "crash", run[r].status)
           \/ ~conf.req[r].strict /\ Became(r, "open", run[r].then, run[r].ask, run[r].backup, "crash", run[r].status)
    BY DEF Types, RunType, ThawGivenUp, Unfrozen, At, Became
  <1>2. /\ UNCHANGED <<conf, window, backup, guest, up>>
        /\ thawFailed' = TRUE
    BY DEF ThawGivenUp
  <1>3. SameCounts
    BY FaultSpent DEF ThawGivenUp, Inv
  <1>4. Begun' /\ InTurn'
    BY Zenon, <1>1, <1>2, BackupOwner DEF Inv, Begun, InTurn, Became, Finished
  <1>5. Guarded'
    BY <1>2 DEF Guarded
  <1>6. ASSUME NEW q \in Runs PROVE RunInv(q, run[q])'
    <2>1. RunInv(q, run[q])
      BY DEF Inv
    <2>2. Fit(run[q], conf.req[q])'
      BY <1>1, <1>2, <2>1 DEF RunInv, Fit, Claims, Copied, Reading, Became
    <2>3. Owns(q, run[q])'
      BY Zenon, <1>1, <1>2, <2>1 DEF RunInv, Owns, Copied, Reading, Became
    <2>4. Lives(run[q])'
      BY Zenon, <1>1, <1>2, <1>3, <2>1 DEF RunInv, Lives, Alone, SameCounts, Finished, Reading, Became
    <2>5. Leaves(run[q])'
      BY Zenon, <1>1, <1>2, <1>3, LeavesKept DEF Alone, SameCounts, Finished, Became
    <2>6. Holds(q, run[q])' /\ Sees(run[q])'
      BY Zenon, <1>1, <1>2, <1>3, <2>1 DEF RunInv, Holds, Sees, SameCounts, Became
    <2>7. Honest(q, run[q])'
      <3>1. CASE q = r
        BY Zenon, <1>2 DEF Honest, Calm
      <3>2. CASE q # r
        BY Zenon, <1>2 DEF Honest, Calm
      <3> QED BY <3>1, <3>2
    <2> QED BY Zenon, <2>2, <2>3, <2>4, <2>5, <2>6, <2>7 DEF RunInv
  <1> QED BY <1>4, <1>5, <1>6 DEF Inv

\* The timer of a window runs out: nothing is thawed yet.
LEMMA TimerFiresKeeps ==
    ASSUME Inv, Types', NEW r \in Runs, TimerFires(r)
    PROVE  Inv'
  <1>1. /\ UNCHANGED <<conf, run, backup, guest, thawFailed, up, count>>
        /\ \A q \in Runs : window'[q].held = window[q].held /\ window'[q].expired = window[q].expired
    BY DEF TimerFires
  <1>4. Begun' /\ InTurn'
    BY Zenon, <1>1 DEF Inv, Begun, InTurn
  <1>5. Guarded'
    BY <1>1 DEF Inv, Guarded
  <1>6. ASSUME NEW q \in Runs PROVE RunInv(q, run[q])'
    <2>1. RunInv(q, run[q])
      BY DEF Inv
    <2>2. Fit(run[q], conf.req[q])'
      BY Zenon, <1>1, <2>1 DEF RunInv
    <2>3. Owns(q, run[q])'
      BY Zenon, <1>1, <2>1 DEF RunInv, Owns
    <2>4. Lives(run[q])'
      BY Zenon, <1>1, <2>1 DEF RunInv, Lives, Alone
    <2>5. Leaves(run[q])'
      BY <1>1, LeavesKept DEF Alone
    <2>6. Holds(q, run[q])' /\ Sees(run[q])'
      BY Zenon, <1>1, <2>1 DEF RunInv, Holds, Sees
    <2>7. Honest(q, run[q])'
      <3>1. CASE q = r
        BY Zenon, <1>1, <2>1 DEF RunInv, Honest, Calm, Sound
      <3>2. CASE q # r
        BY Zenon, <1>1, <2>1 DEF RunInv, Honest, Calm, Sound
      <3> QED BY <3>1, <3>2
    <2> QED BY Zenon, <2>2, <2>3, <2>4, <2>5, <2>6, <2>7 DEF RunInv
  <1> QED BY <1>4, <1>5, <1>6 DEF Inv

\* The watchdog thaws, and the window is marked.
LEMMA WatchdogThawsKeeps ==
    ASSUME Inv, Types', NEW r \in Runs, WatchdogThaws(r)
    PROVE  Inv'
  <1> DEFINE win == [window[r] EXCEPT !.timer = "off", !.expired = TRUE]
  <1>1. win \in WindowType /\ win.held = window[r].held /\ win.expired
    BY Zenon DEF Inv, Types, WindowType
  <1>2. ThawGuest(r, win) /\ UNCHANGED <<conf, run, backup, up>>
    BY DEF WatchdogThaws
  <1> HIDE DEF win
  <1>3. Thawed(r, TRUE) /\ RunInv(r, run[r])
    BY Zenon, <1>1, <1>2, ThawEffect DEF Inv
  <1>4. Begun' /\ InTurn'
    BY Zenon, <1>2 DEF Inv, Begun, InTurn
  <1>5. Guarded'
    BY <1>2, <1>3 DEF Inv, Guarded, SameCounts, Thawed
  <1>6. ASSUME NEW q \in Runs PROVE RunInv(q, run[q])'
    <2>1. RunInv(q, run[q])
      BY DEF Inv
    <2>2. Fit(run[q], conf.req[q])'
      BY <1>2, <2>1 DEF RunInv
    <2>3. Owns(q, run[q])'
      BY Zenon, <1>2, <2>1 DEF RunInv, Owns
    <2>4. Lives(run[q])'
      BY Zenon, <1>2, <1>3, <2>1 DEF RunInv, Lives, Alone, SameCounts, Thawed
    <2>5. Leaves(run[q])'
      BY Zenon, <1>2, <1>3, LeavesKept DEF Alone, SameCounts, Thawed
    <2>6. Holds(q, run[q])' /\ Sees(run[q])'
      BY Zenon, <1>2, <1>3, <2>1 DEF RunInv, Holds, Sees, SameCounts, Thawed
    <2>7. Honest(q, run[q])'
      <3>1. CASE q = r
        BY Zenon, <1>2, <1>3, <2>1, <3>1 DEF RunInv, Honest, Calm, Sound, SameCounts, Thawed
      <3>2. CASE q # r
        BY Zenon, <1>2, <1>3, <2>1, OneAtATime DEF RunInv, Honest, Calm, Sound, SameCounts, Finished,
           Thawed, Holds
      <3> QED BY <3>1, <3>2
    <2> QED BY Zenon, <2>2, <2>3, <2>4, <2>5, <2>6, <2>7 DEF RunInv
  <1> QED BY <1>4, <1>5, <1>6 DEF Inv

\* The agent ends a freeze that was given up.
LEMMA AgentFreezesKeeps ==
    ASSUME Inv, Types', AgentFreezes
    PROVE  Inv'
  <1>1. UNCHANGED <<conf, run, window, backup, thawFailed, up, count>> /\ guest.busy
    BY DEF AgentFreezes
  <1>2. guest'.frozen /\ guest'.power = guest.power
    BY DEF AgentFreezes
  <1>4. Begun' /\ InTurn'
    BY Zenon, <1>1 DEF Inv, Begun, InTurn
  <1>5. Guarded'
    BY <1>1 DEF Inv, Guarded
  <1>6. ASSUME NEW q \in Runs PROVE RunInv(q, run[q])'
    <2>1. RunInv(q, run[q])
      BY DEF Inv
    <2>2. Fit(run[q], conf.req[q])'
      BY <1>1, <2>1 DEF RunInv
    <2>3. Owns(q, run[q])'
      BY Zenon, <1>1, <2>1 DEF RunInv, Owns
    <2>4. Lives(run[q])'
      BY Zenon, <1>1, <2>1 DEF RunInv, Lives, Alone
    <2>5. Leaves(run[q])'
      BY <1>1, LeavesKept DEF Alone
    <2>6. Holds(q, run[q])' /\ Sees(run[q])'
      BY Zenon, <1>1, <1>2, <2>1 DEF RunInv, Holds, Sees
    <2>7. Honest(q, run[q])'
      BY Zenon, <1>1, <1>2, <2>1 DEF RunInv, Honest, Calm, Sound
    <2> QED BY Zenon, <2>2, <2>3, <2>4, <2>5, <2>6, <2>7 DEF RunInv
  <1> QED BY <1>4, <1>5, <1>6 DEF Inv

\* The owner starts the VM.
LEMMA PowerOnKeeps ==
    ASSUME Inv, Types', PowerOn
    PROVE  Inv'
  <1>1. UNCHANGED <<conf, run, window, backup, thawFailed, up>>
    BY DEF PowerOn
  <1>2. guest'.frozen = guest.frozen /\ guest'.busy = guest.busy
    BY DEF PowerOn
  <1>3. count'["power"] # 0 /\ count'["crash"] = count["crash"] /\ count'["peer"] = count["peer"]
    BY Spent DEF PowerOn, Inv, Counters
  <1>4. Begun' /\ InTurn'
    BY Zenon, <1>1 DEF Inv, Begun, InTurn
  <1>5. Guarded'
    BY Zenon, <1>1, <1>2, <1>3 DEF Inv, Guarded
  <1>6. ASSUME NEW q \in Runs PROVE RunInv(q, run[q])'
    <2>1. RunInv(q, run[q])
      BY DEF Inv
    <2>2. Fit(run[q], conf.req[q])'
      BY <1>1, <2>1 DEF RunInv
    <2>3. Owns(q, run[q])'
      BY Zenon, <1>1, <2>1 DEF RunInv, Owns
    <2>4. Lives(run[q])'
      BY Zenon, <1>1, <1>3, <2>1 DEF RunInv, Lives, Alone
    <2>5. Leaves(run[q])'
      BY Zenon, <1>1, <1>3, LeavesKept DEF Alone
    <2>6. Holds(q, run[q])' /\ Sees(run[q])'
      BY Zenon, <1>1, <1>3, <2>1 DEF RunInv, Holds, Sees
    <2>7. Honest(q, run[q])'
      BY Zenon, <1>3 DEF Honest, Calm
    <2> QED BY Zenon, <2>2, <2>3, <2>4, <2>5, <2>6, <2>7 DEF RunInv
  <1> QED BY <1>4, <1>5, <1>6 DEF Inv

-----------------------------------------------------------------------------
(* The steps that open and close a backup on the engine, those of the engine and of another backup system. *)

\* closeLeftover: nobody reads what is closed.
LEMMA CloseLeftoverKeeps ==
    ASSUME Inv, Types', NEW r \in Runs, CloseLeftover(r)
    PROVE  Inv'
  <1>0. Types
    BY DEF Inv
  <1>1. /\ run[r].pc = "close"
        /\ \/ Became(r, "closing", run[r].then, run[r].ask, run[r].backup, run[r].level, run[r].status)
           \/ UNCHANGED backup /\ Became(r, "finalize", "fail", run[r].ask, None, run[r].level, run[r].status)
    BY DEF Types, RunType, CloseLeftover, Move, At, Became
  <1>2. /\ UNCHANGED <<conf, window, guest, thawFailed, up>>
        /\ (backup' = backup \/ Closing(run[r].backup))
    BY Zenon, Closes DEF Inv, CloseLeftover
  <1>3. SameCounts
    BY Zenon, FaultSpent DEF CloseLeftover, Inv
  <1>4. Begun'
    <2>1. Closing(run[r].backup) => backup[run[r].backup].owner # Foreign
      BY DEF Inv, RunInv, Owns, Closing, Backups, None
    <2>2. \A q \in Runs : run[q].pc # "none" => run'[q].pc # "none"
      BY <1>1 DEF Became
    <2> QED BY <1>2, <2>1, <2>2, BackupOwner DEF Inv, Begun, Closing
  <1>7. InTurn'
    BY Zenon, <1>1, <1>2 DEF Inv, InTurn, Became, Finished
  <1>5. Guarded'
    BY Zenon, <1>1, <1>2, <1>3 DEF Inv, Guarded, Became, SameCounts
  <1>6. ASSUME NEW q \in Runs PROVE RunInv(q, run[q])'
    <2>1. RunInv(q, run[q])
      BY DEF Inv
    <2>2. Fit(run[q], conf.req[q])'
      BY <1>1, <1>2, <2>1 DEF RunInv, Fit, Claims, Copied, Reading, Became
    <2>3. Owns(q, run[q])'
      BY <1>1, <1>2, <2>1 DEF RunInv, Owns, Copied, Reading, Became, Closing
    <2>4. Lives(run[q])'
      <3>1. CASE q = r
        BY Zenon, <1>1, <1>2, <1>3, <2>1, <3>1 DEF RunInv, Lives, Alone, SameCounts, Finished, Reading, Became
      <3>2. CASE q # r
        <4>1. run'[q] = run[q] /\ RunInv(r, run[r])
          BY Zenon, <1>1, <3>2 DEF Inv, Became
        <4>2. ASSUME Alone, Reading(run[q]) PROVE backup'[run[q].backup].phase = backup[run[q].backup].phase
          <5>1. run[q].backup \in Backups /\ backup[run[q].backup].owner = q /\ ~Finished(run[q])
            BY Zenon, <2>1, <4>2 DEF RunInv, Fit, Owns, Reading, Finished
          <5>2. run[q].backup # run[r].backup \/ backup' = backup
            BY Zenon, <1>1, <4>1, <4>2, <5>1 DEF RunInv, Leaves
          <5> QED BY Zenon, <1>2, <5>1, <5>2 DEF Closing
        <4> QED BY Zenon, <1>2, <1>3, <2>1, <4>1, <4>2 DEF RunInv, Lives, Alone, SameCounts
      <3> QED BY <3>1, <3>2
    <2>5. Leaves(run[q])'
      BY Zenon, <1>1, <1>2, <1>3, LeavesKept DEF Alone, SameCounts, Finished, Became, Closing
    <2>6. Holds(q, run[q])' /\ Sees(run[q])'
      BY Zenon, <1>1, <1>2, <1>3, <2>1 DEF RunInv, Holds, Sees, SameCounts, Became
    <2>7. Honest(q, run[q])'
      <3>1. CASE q = r
        <4>1. run'[r].pc \in {"closing", "finalize"} /\ ~Copied(run'[r])
          BY Zenon, <1>1, <2>1, <3>1 DEF RunInv, Fit, Copied, Became
        <4> QED BY Zenon, <3>1, <4>1 DEF Honest
      <3>2. CASE q # r
        <4>1. run'[q] = run[q]
          BY Zenon, <1>1, <3>2 DEF Became
        <4>2. (Calm' => Calm) /\ (Sound(q) => Sound(q)')
          BY <1>2, <1>3 DEF Calm, Sound, SameCounts
        <4>3. run[q].backup # None =>
                /\ backup'[run[q].backup].point = backup[run[q].backup].point
                /\ backup'[run[q].backup].ask = backup[run[q].backup].ask
                /\ backup'[run[q].backup].phase \in {backup[run[q].backup].phase, "finalizing"}
          BY Zenon, <1>2, <2>1 DEF RunInv, Owns, Closing
        <4>4. Undisturbed(q)
          BY Zenon, <1>2, <4>1, <4>2, <4>3 DEF Undisturbed
        <4> QED BY <2>1, <4>4, HonestStays
      <3> QED BY <3>1, <3>2
    <2> QED BY Zenon, <2>2, <2>3, <2>4, <2>5, <2>6, <2>7 DEF RunInv
  <1> QED BY <1>4, <1>5, <1>6, <1>7 DEF Inv

\* startEngineBackup: a new backup bears the marker of its run.
LEMMA StartBackupKeeps ==
    ASSUME Inv, Types', NEW r \in Runs, StartBackup(r)
    PROVE  Inv'
  <1>t. Types
    BY DEF Inv
  <1>a. PICK b \in Backups :
          /\ backup[b].phase = "none" /\ backup' = [backup EXCEPT ![b] = Opened(r)]
          /\ \/ run' = [run EXCEPT ![r].pc = "wait", ![r].backup = b, ![r].status = "running"]
             \/ run' = [run EXCEPT ![r].pc = "thaw", ![r].then = "fail", ![r].backup = b, ![r].status = "running"]
             \/ run' = [run EXCEPT ![r].pc = "thaw", ![r].then = "fail", ![r].backup = None]
    BY Zenon DEF StartBackup, NewBackup
  <1>0. /\ backup[b].phase = "none" /\ backup' = [backup EXCEPT ![b] = Opened(r)]
        /\ \/ Became(r, "wait", run[r].then, run[r].ask, b, run[r].level, "running")
           \/ Became(r, "thaw", "fail", run[r].ask, b, run[r].level, "running")
           \/ Became(r, "thaw", "fail", run[r].ask, None, run[r].level, run[r].status)
    BY <1>a DEF Types, RunType, Became
  <1>1. /\ b # None /\ backup'[b].phase = "initializing" /\ backup'[b].owner = r /\ backup'[b].ask = run[r].ask
        /\ \A c \in Backups : c # b => backup'[c] = backup[c]
        /\ r # Foreign
    BY <1>0 DEF Opened, Types, Backups, None, Runs, Foreign
  <1>2. UNCHANGED <<conf, window, guest, thawFailed, up>> /\ run[r].pc = "open"
    BY DEF StartBackup, At
  <1>3. SameCounts /\ RunInv(r, run[r])
    BY Zenon, FaultSpent DEF StartBackup, Inv
  <1>4. Begun' /\ InTurn'
    BY <1>0, <1>1, <1>2, BackupOwner DEF Inv, Begun, InTurn, Became, Finished
  <1>5. Guarded'
    BY <1>0, <1>2, <1>3 DEF Inv, Guarded, Became, SameCounts
  <1>6. ASSUME NEW q \in Runs PROVE RunInv(q, run[q])'
    <2>1. RunInv(q, run[q])
      BY DEF Inv
    <2>2. CASE q = r
      <3>1. Fit(run[r], conf.req[r])'
        BY Zenon, <1>0, <1>1, <1>2, <1>3 DEF RunInv, Fit, Claims, Copied, Reading, Became
      <3>2. Owns(r, run[r])'
        BY Zenon, <1>0, <1>1 DEF Owns, Copied, Reading, Became
      <3>3. Lives(run[r])'
        BY Zenon, <1>0, <1>2, <1>3 DEF RunInv, Lives, Alone, SameCounts, Finished, Reading, Became
      <3>6. Leaves(run[r])'
        BY Zenon, <1>0 DEF Leaves, Became
      <3>4. Holds(r, run[r])' /\ Sees(run[r])'
        BY Zenon, <1>0, <1>2, <1>3 DEF RunInv, Holds, Sees, SameCounts, Became
      <3>5. Honest(r, run[r])'
        <4>1. /\ run'[r].pc \in {"wait", "thaw"} /\ (run'[r].pc = "thaw" => run'[r].then = "fail")
              /\ run'[r].level = run[r].level /\ (run'[r].pc = "wait" => run'[r].backup = b)
          BY Zenon, <1>0 DEF Became
        <4>2. ~Copied(run'[r])
          BY Zenon, <1>0, <1>2, <1>3, <4>1 DEF RunInv, Fit, Copied, Became
        <4>3. (Calm' => Calm) /\ (Sound(r) => Sound(r)')
          BY Zenon, <1>2, <1>3 DEF Calm, Sound, SameCounts
        <4>4. Calm /\ conf.req[r].freeze /\ run[r].level = "target" => run[r].ask \/ Sound(r)
          BY Zenon, <1>2, <1>3 DEF RunInv, Honest
        <4> QED BY Zenon, <1>1, <1>2, <4>1, <4>2, <4>3, <4>4 DEF Honest
      <3> QED BY Zenon, <2>2, <3>1, <3>2, <3>3, <3>4, <3>5, <3>6 DEF RunInv
    <2>3. CASE q # r
      <3>1. run'[q] = run[q] /\ (run[q].backup # None => backup'[run[q].backup] = backup[run[q].backup])
        BY <1>0, <2>1, <2>3 DEF RunInv, Owns, Became
      <3>2. Fit(run[q], conf.req[q])' /\ Owns(q, run[q])'
        BY Zenon, <1>2, <2>1, <3>1 DEF RunInv, Owns
      <3>3. Lives(run[q])'
        BY Zenon, <1>2, <1>3, <2>1, <3>1 DEF RunInv, Lives, Fit, Alone, SameCounts
      <3>4. Leaves(run[q])'
        BY <1>0, <1>2, <1>3, LeavesKept DEF Alone, SameCounts, Finished, Became
      <3>5. Holds(q, run[q])' /\ Sees(run[q])'
        BY Zenon, <1>2, <1>3, <2>1, <3>1 DEF RunInv, Holds, Sees, SameCounts
      <3>6. Honest(q, run[q])'
        <4>1. (Calm' => Calm) /\ (Sound(q) => Sound(q)')
          BY Zenon, <1>2, <1>3 DEF Calm, Sound, SameCounts
        <4>2. Undisturbed(q)
          BY Zenon, <1>2, <3>1, <4>1 DEF Undisturbed
        <4> QED BY <2>1, <4>2, HonestStays
      <3> QED BY Zenon, <3>2, <3>3, <3>4, <3>5, <3>6 DEF RunInv
    <2> QED BY <2>2, <2>3
  <1> QED BY Zenon, <1>4, <1>5, <1>6 DEF Inv

\* finalizeEngineBackup closes the backup of its own run.
LEMMA FinalizeEngineBackupKeeps ==
    ASSUME Inv, Types', NEW r \in Runs, FinalizeEngineBackup(r)
    PROVE  Inv'
  <1>0. Types
    BY DEF Inv
  <1>1. /\ run[r].pc = "finalize"
        /\ Became(r, "finalizing", run[r].then, run[r].ask, run[r].backup, run[r].level, run[r].status)
    BY DEF Types, FinalizeEngineBackup, Move, At, Became
  <1>2. /\ UNCHANGED <<conf, window, guest, thawFailed, up>>
        /\ (backup' = backup \/ Closing(run[r].backup))
    BY Zenon, Closes DEF Inv, FinalizeEngineBackup
  <1>3. SameCounts
    BY Zenon, FaultSpent DEF FinalizeEngineBackup, Inv
  <1>4. Begun'
    <2>1. Closing(run[r].backup) => backup[run[r].backup].owner # Foreign
      BY DEF Inv, RunInv, Owns, Closing, Backups, None
    <2>2. \A q \in Runs : run[q].pc # "none" => run'[q].pc # "none"
      BY <1>1 DEF Became
    <2> QED BY <1>2, <2>1, <2>2, BackupOwner DEF Inv, Begun, Closing
  <1>7. InTurn'
    BY Zenon, <1>1, <1>2 DEF Inv, InTurn, Became, Finished
  <1>5. Guarded'
    BY <1>1, <1>2, <1>3 DEF Inv, Guarded, Became, SameCounts
  <1>6. ASSUME NEW q \in Runs PROVE RunInv(q, run[q])'
    <2>1. RunInv(q, run[q])
      BY DEF Inv
    <2>2. Fit(run[q], conf.req[q])'
      BY <1>1, <1>2, <2>1 DEF RunInv, Fit, Claims, Copied, Reading, Became
    <2>3. Owns(q, run[q])'
      BY <1>1, <1>2, <2>1 DEF RunInv, Owns, Copied, Reading, Became, Closing
    <2>4. Lives(run[q])'
      <3>1. CASE q = r
        BY Zenon, <1>1, <1>2, <1>3, <2>1, <3>1 DEF RunInv, Lives, Alone, SameCounts, Finished, Reading, Became
      <3>2. CASE q # r
        <4>1. run'[q] = run[q] /\ RunInv(r, run[r])
          BY Zenon, <1>1, <3>2 DEF Inv, Became
        <4>2. ASSUME Alone, Reading(run[q]) PROVE backup'[run[q].backup].phase = backup[run[q].backup].phase
          <5>1. run[q].backup \in Backups /\ backup[run[q].backup].owner = q /\ ~Finished(run[q])
            BY Zenon, <2>1, <4>2 DEF RunInv, Fit, Owns, Reading, Finished
          <5>2. run[q].backup # run[r].backup \/ backup' = backup
            BY <1>1, <3>2, <4>1, <5>1 DEF RunInv, Owns, Backups, None
          <5> QED BY Zenon, <1>2, <5>1, <5>2 DEF Closing
        <4> QED BY Zenon, <1>2, <1>3, <2>1, <4>1, <4>2 DEF RunInv, Lives, Alone, SameCounts
      <3> QED BY <3>1, <3>2
    <2>5. Leaves(run[q])'
      BY Zenon, <1>1, <1>2, <1>3, LeavesKept DEF Alone, SameCounts, Finished, Became, Closing
    <2>6. Holds(q, run[q])' /\ Sees(run[q])'
      BY Zenon, <1>1, <1>2, <1>3, <2>1 DEF RunInv, Holds, Sees, SameCounts, Became
    <2>7. Honest(q, run[q])'
      <3>1. CASE q = r
        <4>1. /\ run'[r].pc = "finalizing" /\ (Copied(run'[r]) => Copied(run[r]))
              /\ run'[r].level = run[r].level /\ run'[r].backup = run[r].backup
          BY Zenon, <1>1 DEF Copied, Became
        <4>2. Calm' => Calm
          BY <1>2, <1>3 DEF Calm, SameCounts
        <4>3. backup'[run[r].backup].point = backup[run[r].backup].point
          BY Zenon, <1>2 DEF Closing
        <4> QED BY Zenon, <1>2, <2>1, <3>1, <4>1, <4>2, <4>3 DEF RunInv, Honest
      <3>2. CASE q # r
        <4>1. run'[q] = run[q]
          BY <1>1, <3>2 DEF Became
        <4>2. (Calm' => Calm) /\ (Sound(q) => Sound(q)')
          BY <1>2, <1>3 DEF Calm, Sound, SameCounts
        <4>3. run[q].backup # None =>
                /\ backup'[run[q].backup].point = backup[run[q].backup].point
                /\ backup'[run[q].backup].ask = backup[run[q].backup].ask
                /\ backup'[run[q].backup].phase \in {backup[run[q].backup].phase, "finalizing"}
          BY Zenon, <1>2, <2>1 DEF RunInv, Owns, Closing
        <4>4. Undisturbed(q)
          BY Zenon, <1>2, <4>1, <4>2, <4>3 DEF Undisturbed
        <4> QED BY <2>1, <4>4, HonestStays
      <3> QED BY <3>1, <3>2
    <2> QED BY Zenon, <2>2, <2>3, <2>4, <2>5, <2>6, <2>7 DEF RunInv
  <1> QED BY <1>4, <1>5, <1>6, <1>7 DEF Inv

\* The engine fixes the point: frozen by the run that holds the window, or by itself.
LEMMA EngineFixesKeeps ==
    ASSUME Inv, Types', NEW b \in Backups, EngineFixes(b)
    PROVE  Inv'
  <1>1. /\ UNCHANGED <<conf, run, window, guest, thawFailed, up>>
        /\ backup'[b].owner = backup[b].owner /\ \A c \in Backups : c # b => backup'[c] = backup[c]
    BY DEF EngineFixes, Types, BackupType
  <1>2. /\ backup[b].phase = "initializing" /\ backup'[b].phase = "ready" /\ backup'[b].ask = backup[b].ask
        /\ backup[b].ask \/ ~guest.power \/ guest.frozen => backup'[b].point \in {"frozen", "off"}
    BY DEF EngineFixes, Types, BackupType
  <1>3. SameCounts
    BY DEF EngineFixes, SameCounts
  <1>4. ASSUME NEW q \in Runs, run[q].backup = b
        PROVE  Owns(q, run[q])' /\ Lives(run[q])' /\ Honest(q, run[q])'
    <2>1. RunInv(q, run[q]) /\ b # None
      BY DEF Inv, Backups, None
    <2>2. Owns(q, run[q])'
      BY Zenon, <1>1, <1>2, <2>1 DEF RunInv, Owns
    <2>3. Lives(run[q])'
      BY Zenon, <1>1, <1>2, <1>3, <1>4, <2>1 DEF RunInv, Lives, Alone, SameCounts
    <2>4. Honest(q, run[q])'
      BY Zenon, <1>1, <1>2, <1>3, <1>4, <2>1 DEF RunInv, Owns, Honest, Calm, Sound, Good, Reading, SameCounts
    <2> QED BY <2>2, <2>3, <2>4
  <1> QED BY Zenon, <1>1, <1>2, <1>3, <1>4, EngineStep

\* The engine fails a backup that is not ready.
LEMMA EngineFailsKeeps ==
    ASSUME Inv, Types', NEW b \in Backups, EngineFails(b)
    PROVE  Inv'
  <1>1. /\ UNCHANGED <<conf, run, window, guest, thawFailed, up>>
        /\ backup'[b].owner = backup[b].owner /\ \A c \in Backups : c # b => backup'[c] = backup[c]
    BY DEF EngineFails
  <1>2. backup[b].phase = "initializing" /\ backup'[b].phase = "failed" /\ backup'[b].point = backup[b].point
    BY DEF EngineFails, Types
  <1>3. SameCounts
    BY FaultSpent DEF EngineFails, Inv
  <1>4. ASSUME NEW q \in Runs, run[q].backup = b
        PROVE  Owns(q, run[q])' /\ Lives(run[q])' /\ Honest(q, run[q])'
    <2>1. RunInv(q, run[q]) /\ b # None
      BY DEF Inv, Backups, None
    <2>2. Owns(q, run[q])'
      BY Zenon, <1>1, <1>2, <2>1 DEF RunInv, Owns
    <2>3. Lives(run[q])'
      BY Zenon, <1>1, <1>2, <1>3, <1>4, <2>1 DEF RunInv, Lives, Alone, SameCounts
    <2>4. Honest(q, run[q])'
      BY Zenon, <1>1, <1>2, <1>3, <1>4, <2>1 DEF RunInv, Honest, Calm, Sound, SameCounts
    <2> QED BY <2>2, <2>3, <2>4
  <1> QED BY Zenon, <1>1, <1>2, <1>3, <1>4, EngineStep

\* The engine closes what was asked to be finalized.
LEMMA EngineClosesKeeps ==
    ASSUME Inv, Types', NEW b \in Backups, EngineCloses(b)
    PROVE  Inv'
  <1>1. /\ UNCHANGED <<conf, run, window, guest, thawFailed, up>>
        /\ backup'[b].owner = backup[b].owner /\ \A c \in Backups : c # b => backup'[c] = backup[c]
    BY DEF EngineCloses
  <1>2. backup[b].phase = "finalizing" /\ backup'[b].phase = "closed" /\ backup'[b].point = backup[b].point
    BY DEF EngineCloses, Types
  <1>3. SameCounts
    BY DEF EngineCloses, SameCounts
  <1>4. ASSUME NEW q \in Runs, run[q].backup = b
        PROVE  Owns(q, run[q])' /\ Lives(run[q])' /\ Honest(q, run[q])'
    <2>1. RunInv(q, run[q]) /\ b # None
      BY DEF Inv, Backups, None
    <2>2. Owns(q, run[q])'
      BY Zenon, <1>1, <1>2, <2>1 DEF RunInv, Owns
    <2>3. Lives(run[q])'
      BY Zenon, <1>1, <1>2, <1>3, <1>4, <2>1 DEF RunInv, Lives, Alone, SameCounts
    <2>4. Honest(q, run[q])'
      BY Zenon, <1>1, <1>2, <1>3, <1>4, <2>1 DEF RunInv, Honest, Calm, Sound, SameCounts
    <2> QED BY <2>2, <2>3, <2>4
  <1> QED BY Zenon, <1>1, <1>2, <1>3, <1>4, EngineStep

\* Another backup system opens a backup, without a marker.
LEMMA ForeignOpensKeeps ==
    ASSUME Inv, Types', NEW b \in Backups, ForeignOpens(b)
    PROVE  Inv'
  <1>1. /\ UNCHANGED <<conf, run, window, guest, thawFailed, up>>
        /\ backup'[b].owner = backup[b].owner /\ \A c \in Backups : c # b => backup'[c] = backup[c]
    BY DEF ForeignOpens
  <1>2. backup[b].phase = "none" /\ backup'[b].phase = "ready"
    BY DEF ForeignOpens, Types, NewBackup
  <1>3. SameCounts
    BY Spent DEF ForeignOpens, Inv, SameCounts, Counters
  <1>4. ASSUME NEW q \in Runs, run[q].backup = b
        PROVE  Owns(q, run[q])' /\ Lives(run[q])' /\ Honest(q, run[q])'
    <2>1. RunInv(q, run[q]) /\ b # None
      BY DEF Inv, Backups, None
    <2>2. Owns(q, run[q])'
      BY Zenon, <1>2, <1>4, <2>1 DEF RunInv, Owns
    <2>3. Lives(run[q])'
      BY Zenon, <1>1, <1>2, <1>3, <1>4, <2>1 DEF RunInv, Lives, Alone, SameCounts
    <2>4. Honest(q, run[q])'
      BY Zenon, <1>2, <1>4, <2>1 DEF RunInv, Owns
    <2> QED BY <2>2, <2>3, <2>4
  <1> QED BY Zenon, <1>1, <1>2, <1>3, <1>4, EngineStep

\* Another backup system closes its own.
LEMMA ForeignClosesKeeps ==
    ASSUME Inv, Types', NEW b \in Backups, ForeignCloses(b)
    PROVE  Inv'
  <1>1. /\ UNCHANGED <<conf, run, window, guest, thawFailed, up>>
        /\ backup'[b].owner = backup[b].owner /\ \A c \in Backups : c # b => backup'[c] = backup[c]
    BY DEF ForeignCloses
  <1>2. backup[b].owner = Foreign /\ backup'[b].phase = "closed" /\ backup'[b].point = backup[b].point
    BY DEF ForeignCloses, Types
  <1>3. SameCounts
    BY DEF ForeignCloses, SameCounts
  <1>4. ASSUME NEW q \in Runs, run[q].backup = b
        PROVE  Owns(q, run[q])' /\ Lives(run[q])' /\ Honest(q, run[q])'
    <2>1. RunInv(q, run[q]) /\ b # None
      BY DEF Inv, Backups, None
    <2>2. Owns(q, run[q])'
      BY Zenon, <1>2, <1>4, <2>1 DEF RunInv, Owns
    <2>3. Lives(run[q])'
      BY Zenon, <1>2, <1>4, <2>1 DEF RunInv, Owns
    <2>4. Honest(q, run[q])'
      BY Zenon, <1>1, <1>2, <1>3, <1>4, <2>1 DEF RunInv, Honest, Calm, Sound, SameCounts
    <2> QED BY <2>2, <2>3, <2>4
  <1> QED BY Zenon, <1>1, <1>2, <1>3, <1>4, EngineStep

-----------------------------------------------------------------------------
(* The other steps of a run. *)

\* Execute: a new record; InTurn is what the job runner keeps.
LEMMA ExecuteKeeps ==
    ASSUME Inv, Types', NEW r \in Runs, Execute(r)
    PROVE  Inv'
  <1>1. run[r].pc = "none" /\ up
    BY DEF Execute, At
  <1>2. /\ run'[r].pc = "leftovers" /\ run'[r].status = "running" /\ run'[r].seen = guest.power
        /\ run'[r].backup = None /\ run'[r].ask = FALSE /\ run'[r].level = "crash" /\ run'[r].then = "fail"
        /\ \A q \in Runs : q # r => run'[q] = run[q]
    BY DEF Execute, NoRun, Types
  <1>3. /\ UNCHANGED <<conf, window, backup, guest, thawFailed, up, count>>
        /\ \A q \in Runs : q < r /\ ~conf.overlap => Finished(run[q])
        /\ RunInv(r, run[r]) /\ SameCounts
    BY DEF Execute, Over, Finished, Inv, SameCounts
  <1>4. Begun' /\ InTurn'
    BY Zenon, <1>1, <1>2, <1>3, BackupOwner DEF Inv, Begun, InTurn, Finished
  <1>5. Guarded'
    BY Zenon, <1>1, <1>2, <1>3 DEF Inv, Guarded
  <1>6. ASSUME NEW q \in Runs PROVE RunInv(q, run[q])'
    <2>1. RunInv(q, run[q])
      BY DEF Inv
    <2>2. Fit(run[q], conf.req[q])'
      BY ZenonT(30), <1>2, <1>3, <2>1 DEF RunInv, Fit, Claims, Copied, Reading
    <2>3. Owns(q, run[q])'
      BY Zenon, <1>2, <1>3, <2>1 DEF RunInv, Owns
    <2>4. Lives(run[q])'
      BY ZenonT(30), <1>1, <1>2, <1>3, <2>1 DEF RunInv, Lives, Alone, Reading
    <2>5. Leaves(run[q])'
      BY Zenon, <1>1, <1>2, <1>3, LeavesKept DEF Alone, Finished
    <2>6. Holds(q, run[q])' /\ Sees(run[q])'
      BY Zenon, <1>1, <1>2, <1>3, <2>1 DEF RunInv, Holds, Sees
    <2>7. Honest(q, run[q])'
      <3>1. CASE q = r
        BY Zenon, <1>2, <3>1 DEF Honest
      <3>2. CASE q # r
        BY ZenonT(30), <1>2, <1>3, <2>1 DEF RunInv, Honest, Calm, Sound
      <3> QED BY <3>1, <3>2
    <2> QED BY Zenon, <2>2, <2>3, <2>4, <2>5, <2>6, <2>7 DEF RunInv
  <1> QED BY <1>4, <1>5, <1>6 DEF Inv

\* releaseEngineLeftovers: only a backup whose owner is over is taken for a leftover.
LEMMA ReleaseEngineLeftoversKeeps ==
    ASSUME Inv, Types', NEW r \in Runs, ReleaseEngineLeftovers(r)
    PROVE  Inv'
  <1>0. Types
    BY DEF Inv
  <1>1. /\ run[r].pc = "leftovers"
        /\ \/ Became(r, "quiesce", run[r].then, run[r].ask, run[r].backup, run[r].level, run[r].status)
           \/ Became(r, "finalize", "fail", run[r].ask, run[r].backup, run[r].level, run[r].status)
           \/ (\E b \in Open : ~LiveOwner(b) /\ backup[b].owner # Foreign /\ Became(r, "close", run[r].then, run[r].ask, b, run[r].level, run[r].status))
    BY DEF Types, RunType, ReleaseEngineLeftovers, Move, Finalizing, At, Became
  <1>2. UNCHANGED <<conf, window, backup, guest, thawFailed, up>> /\ (Spend("fault") \/ UNCHANGED count)
    BY DEF ReleaseEngineLeftovers
  <1>3. run[r].then \in Nexts /\ RunInv(r, run[r])
    BY DEF Inv, Types, RunType
  <1>4. Quiet(r)
    BY Zenon, <1>1, <1>2, FaultSpent DEF Inv, Quiet, Finished, Became
  <1>5. Fit(run'[r], conf.req[r]) /\ Owns(r, run'[r])
    BY <1>1, <1>3 DEF RunInv, Fit, Owns, Claims, Copied, Reading, Became, None, Open, Backups
  <1>6. Lives(run'[r]) /\ Leaves(run'[r])
    BY Zenon, <1>1, BackupOwner DEF RunInv, Lives, Leaves, Finished, Reading, Became, Inv, Begun, Open,
       LiveOwner
  <1>7. Holds(r, run'[r]) /\ Sees(run'[r]) /\ Honest(r, run'[r])
    BY Zenon, <1>1, <1>3 DEF RunInv, Holds, Sees, Honest, Copied, Became, Fit, Calm
  <1> QED BY Zenon, <1>4, <1>5, <1>6, <1>7, QuietStep DEF RunInv

\* The leftover is closed, or the run gives up.
LEMMA LeftoverClosedKeeps ==
    ASSUME Inv, Types', NEW r \in Runs, LeftoverClosed(r)
    PROVE  Inv'
  <1>0. Types
    BY DEF Inv
  <1>1. /\ run[r].pc = "closing"
        /\ \/ Became(r, "quiesce", run[r].then, run[r].ask, None, run[r].level, run[r].status)
           \/ Became(r, "finalize", "fail", run[r].ask, None, run[r].level, run[r].status)
    BY DEF Types, RunType, LeftoverClosed, At, Became
  <1>2. UNCHANGED <<conf, window, backup, guest, thawFailed, up>> /\ (Spend("fault") \/ UNCHANGED count)
    BY DEF LeftoverClosed
  <1>3. run[r].then \in Nexts /\ RunInv(r, run[r])
    BY DEF Inv, Types, RunType
  <1>4. Quiet(r)
    BY Zenon, <1>1, <1>2, FaultSpent DEF Inv, Quiet, Finished, Became
  <1>5. Fit(run'[r], conf.req[r]) /\ Owns(r, run'[r])
    BY Zenon, <1>1, <1>3 DEF RunInv, Fit, Owns, Claims, Copied, Reading, Became
  <1>6. Lives(run'[r]) /\ Leaves(run'[r])
    BY Zenon, <1>1, <1>3 DEF RunInv, Lives, Leaves, Finished, Reading, Became
  <1>7. Holds(r, run'[r]) /\ Sees(run'[r]) /\ Honest(r, run'[r])
    BY Zenon, <1>1, <1>3 DEF RunInv, Holds, Sees, Honest, Copied, Became, Fit
  <1> QED BY Zenon, <1>4, <1>5, <1>6, <1>7, QuietStep DEF RunInv

\* Without a freeze the level is that of a crash, or the VM is off.
LEMMA NoFreezeKeeps ==
    ASSUME Inv, Types', NEW r \in Runs, NoFreeze(r)
    PROVE  Inv'
  <1>0. Types
    BY DEF Inv
  <1>1. /\ run[r].pc = "quiesce"
        /\ \/ Became(r, "finalize", "fail", run[r].ask, run[r].backup, run[r].level, run[r].status)
           \/ (\E l \in Levels : (conf.req[r].freeze /\ l = "target" => ~run[r].seen) /\ (conf.req[r].freeze /\ conf.req[r].strict => l = "target")
                             /\ Became(r, "open", run[r].then, run[r].ask, run[r].backup, l, run[r].status))
    BY DEF Types, RunType, NoFreeze, Finalizing, At, Became
  <1>2. UNCHANGED <<conf, window, backup, guest, thawFailed, up>> /\ (Spend("fault") \/ UNCHANGED count)
    BY DEF NoFreeze
  <1>3. run[r].then \in Nexts /\ RunInv(r, run[r])
    BY DEF Inv, Types, RunType
  <1>4. Quiet(r)
    BY Zenon, <1>1, <1>2, FaultSpent DEF Inv, Quiet, Finished, Became
  <1>5. Fit(run'[r], conf.req[r]) /\ Owns(r, run'[r])
    BY Zenon, <1>1, <1>3 DEF RunInv, Fit, Owns, Claims, Copied, Reading, Became, None
  <1>6. Lives(run'[r]) /\ Leaves(run'[r])
    BY Zenon, <1>1, <1>3 DEF RunInv, Lives, Leaves, Finished, Reading, Became
  <1>7. Holds(r, run'[r]) /\ Sees(run'[r]) /\ Honest(r, run'[r])
    BY Zenon, <1>1, <1>3 DEF RunInv, Holds, Sees, Honest, Copied, Became, Fit, Calm, Sound
  <1> QED BY Zenon, <1>4, <1>5, <1>6, <1>7, QuietStep DEF RunInv

\* A run refused before the freeze ends without a backup.
LEMMA SpaceRefusedKeeps ==
    ASSUME Inv, Types', NEW r \in Runs, SpaceRefused(r)
    PROVE  Inv'
  <1>0. Types
    BY DEF Inv
  <1>1. /\ run[r].pc = "quiesce"
        /\ Became(r, "finalize", "fail", run[r].ask, run[r].backup, run[r].level, run[r].status)
    BY DEF Types, SpaceRefused, Finalizing, At, Became
  <1>2. UNCHANGED <<conf, window, backup, guest, thawFailed, up>> /\ (Spend("fault") \/ UNCHANGED count)
    BY DEF SpaceRefused
  <1>3. run[r].then \in Nexts /\ RunInv(r, run[r])
    BY DEF Inv, Types, RunType
  <1>4. Quiet(r)
    BY Zenon, <1>1, <1>2, FaultSpent DEF Inv, Quiet, Finished, Became
  <1>5. Fit(run'[r], conf.req[r]) /\ Owns(r, run'[r])
    BY Zenon, <1>1, <1>3 DEF RunInv, Fit, Owns, Claims, Copied, Reading, Became
  <1>6. Lives(run'[r]) /\ Leaves(run'[r])
    BY Zenon, <1>1, <1>3 DEF RunInv, Lives, Leaves, Finished, Reading, Became
  <1>7. Holds(r, run'[r]) /\ Sees(run'[r]) /\ Honest(r, run'[r])
    BY Zenon, <1>1, <1>3 DEF RunInv, Holds, Sees, Honest, Copied, Became
  <1> QED BY Zenon, <1>4, <1>5, <1>6, <1>7, QuietStep DEF RunInv

\* openBackupEngineFreeze: the level rests on what the engine is asked for.
LEMMA EngineFreezeKeeps ==
    ASSUME Inv, Types', NEW r \in Runs, EngineFreeze(r)
    PROVE  Inv'
  <1>0. Types
    BY DEF Inv
  <1>1. /\ run[r].pc = "quiesce"
        /\ Became(r, "open", run[r].then, TRUE, run[r].backup, "target", run[r].status)
    BY DEF Types, EngineFreeze, At, Became
  <1>2. UNCHANGED <<conf, window, backup, guest, thawFailed, up>> /\ (Spend("fault") \/ UNCHANGED count)
    BY DEF EngineFreeze
  <1>3. run[r].then \in Nexts /\ RunInv(r, run[r])
    BY DEF Inv, Types, RunType
  <1>4. Quiet(r)
    BY Zenon, <1>1, <1>2, FaultSpent DEF Inv, Quiet, Finished, Became
  <1>5. Fit(run'[r], conf.req[r]) /\ Owns(r, run'[r])
    BY Zenon, <1>1, <1>3 DEF RunInv, Fit, Owns, Copied, Reading, Became
  <1>6. Lives(run'[r]) /\ Leaves(run'[r])
    BY Zenon, <1>1, <1>3 DEF RunInv, Lives, Leaves, Finished, Reading, Became
  <1>7. Holds(r, run'[r]) /\ Sees(run'[r]) /\ Honest(r, run'[r])
    BY Zenon, <1>1, <1>3 DEF RunInv, Holds, Sees, Honest, Copied, Became, Fit
  <1> QED BY Zenon, <1>4, <1>5, <1>6, <1>7, QuietStep DEF RunInv

\* A refused freeze is followed by a thaw.
LEMMA FreezeRefusedKeeps ==
    ASSUME Inv, Types', NEW r \in Runs, FreezeRefused(r)
    PROVE  Inv'
  <1>0. Types
    BY DEF Inv
  <1>1. /\ run[r].pc = "quiesce"
        /\ Became(r, "unfreeze", run[r].then, run[r].ask, run[r].backup, run[r].level, run[r].status)
    BY DEF Types, FreezeRefused, ServiceFreezes, At, Became
  <1>2. UNCHANGED <<conf, window, backup, guest, thawFailed, up>> /\ (Spend("fault") \/ UNCHANGED count)
    BY DEF FreezeRefused
  <1>3. run[r].then \in Nexts /\ RunInv(r, run[r])
    BY DEF Inv, Types, RunType
  <1>4. Quiet(r)
    BY Zenon, <1>1, <1>2, FaultSpent DEF Inv, Quiet, Finished, Became
  <1>5. Fit(run'[r], conf.req[r]) /\ Owns(r, run'[r])
    BY Zenon, <1>1, <1>3 DEF RunInv, Fit, Owns, Claims, Copied, Reading, Became
  <1>6. Lives(run'[r]) /\ Leaves(run'[r])
    BY Zenon, <1>1, <1>3 DEF RunInv, Lives, Leaves, Finished, Reading, Became
  <1>7. Holds(r, run'[r]) /\ Sees(run'[r]) /\ Honest(r, run'[r])
    BY Zenon, <1>1, <1>3 DEF RunInv, Holds, Sees, Honest, Copied, Became
  <1> QED BY Zenon, <1>4, <1>5, <1>6, <1>7, QuietStep DEF RunInv

\* A refused start: the run ends, or begins again with a full backup.
LEMMA StartRefusedKeeps ==
    ASSUME Inv, Types', NEW r \in Runs, StartRefused(r)
    PROVE  Inv'
  <1>0. Types
    BY DEF Inv
  <1>1. /\ run[r].pc = "open"
        /\ \/ Became(r, "thaw", "fail", run[r].ask, None, run[r].level, run[r].status)
           \/ Became(r, "thaw", "quiesce", FALSE, None, run[r].level, "running")
    BY DEF Types, RunType, StartRefused, At, Became
  <1>2. UNCHANGED <<conf, window, backup, guest, thawFailed, up>> /\ (Spend("fault") \/ UNCHANGED count)
    BY DEF StartRefused
  <1>3. run[r].then \in Nexts /\ RunInv(r, run[r])
    BY DEF Inv, Types, RunType
  <1>4. Quiet(r)
    BY Zenon, <1>1, <1>2, FaultSpent DEF Inv, Quiet, Finished, Became
  <1>5. Fit(run'[r], conf.req[r]) /\ Owns(r, run'[r])
    BY Zenon, <1>1, <1>3 DEF RunInv, Fit, Owns, Claims, Copied, Reading, Became
  <1>6. Lives(run'[r]) /\ Leaves(run'[r])
    BY Zenon, <1>1, <1>3 DEF RunInv, Lives, Leaves, Finished, Reading, Became
  <1>7. Holds(r, run'[r]) /\ Sees(run'[r]) /\ Honest(r, run'[r])
    BY Zenon, <1>1, <1>3 DEF RunInv, Holds, Sees, Honest, Copied, Became, Fit
  <1> QED BY Zenon, <1>4, <1>5, <1>6, <1>7, QuietStep DEF RunInv

\* WaitBackupReady: the point is as good as the freeze it was fixed under.
LEMMA BackupReadyKeeps ==
    ASSUME Inv, Types', NEW r \in Runs, BackupReady(r)
    PROVE  Inv'
  <1>0. Types
    BY DEF Inv
  <1>1. /\ run[r].pc = "wait"
        /\ backup[run[r].backup].phase = "ready" /\ Became(r, "thaw", "settle", run[r].ask, run[r].backup, run[r].level, "running")
    BY DEF Types, BackupReady, At, Became
  <1>2. UNCHANGED <<conf, window, backup, guest, thawFailed, up>> /\ (Spend("fault") \/ UNCHANGED count)
    BY DEF BackupReady
  <1>3. run[r].then \in Nexts /\ RunInv(r, run[r])
    BY DEF Inv, Types, RunType
  <1>4. Quiet(r)
    BY Zenon, <1>1, <1>2, FaultSpent DEF Inv, Quiet, Finished, Became
  <1>5. Fit(run'[r], conf.req[r]) /\ Owns(r, run'[r])
    BY Zenon, <1>1, <1>3 DEF RunInv, Fit, Owns, Claims, Became
  <1>6. Lives(run'[r]) /\ Leaves(run'[r])
    BY Zenon, <1>1, <1>3 DEF RunInv, Lives, Leaves, Finished, Became
  <1>7. Holds(r, run'[r]) /\ Sees(run'[r]) /\ Honest(r, run'[r])
    BY Zenon, <1>1, <1>3 DEF RunInv, Holds, Sees, Honest, Copied, Became
  <1> QED BY Zenon, <1>4, <1>5, <1>6, <1>7, QuietStep DEF RunInv

\* A failed backup: a strict run ends, another goes on at a lower level.
LEMMA BackupFailedKeeps ==
    ASSUME Inv, Types', NEW r \in Runs, BackupFailed(r)
    PROVE  Inv'
  <1>0. Types
    BY DEF Inv
  <1>1. /\ run[r].pc = "wait"
        /\ \/ run[r].ask /\ ~conf.req[r].strict /\ Became(r, "finalize", "plain", run[r].ask, run[r].backup, "crash", run[r].status)
           \/ (\E l \in Levels : Became(r, "thaw", "fail", run[r].ask, run[r].backup, l, run[r].status))
    BY DEF Types, RunType, BackupFailed, At, Became
  <1>2. UNCHANGED <<conf, window, backup, guest, thawFailed, up>> /\ (Spend("fault") \/ UNCHANGED count)
    BY DEF BackupFailed
  <1>3. run[r].then \in Nexts /\ RunInv(r, run[r])
    BY DEF Inv, Types, RunType
  <1>4. Quiet(r)
    BY Zenon, <1>1, <1>2, FaultSpent DEF Inv, Quiet, Finished, Became
  <1>5. Fit(run'[r], conf.req[r]) /\ Owns(r, run'[r])
    BY Zenon, <1>1, <1>3 DEF RunInv, Fit, Owns, Claims, Copied, Reading, Became
  <1>6. Lives(run'[r]) /\ Leaves(run'[r])
    BY Zenon, <1>1, <1>3 DEF RunInv, Lives, Leaves, Finished, Reading, Became
  <1>7. Holds(r, run'[r]) /\ Sees(run'[r]) /\ Honest(r, run'[r])
    BY Zenon, <1>1, <1>3 DEF RunInv, Holds, Sees, Honest, Copied, Became, Fit
  <1> QED BY Zenon, <1>4, <1>5, <1>6, <1>7, QuietStep DEF RunInv

\* A wait that fails ends the run past its thaw.
LEMMA WaitFailsKeeps ==
    ASSUME Inv, Types', NEW r \in Runs, WaitFails(r)
    PROVE  Inv'
  <1>0. Types
    BY DEF Inv
  <1>1. /\ run[r].pc = "wait"
        /\ Became(r, "thaw", "fail", run[r].ask, run[r].backup, run[r].level, run[r].status)
    BY DEF Types, WaitFails, At, Became
  <1>2. UNCHANGED <<conf, window, backup, guest, thawFailed, up>> /\ (Spend("fault") \/ UNCHANGED count)
    BY DEF WaitFails
  <1>3. run[r].then \in Nexts /\ RunInv(r, run[r])
    BY DEF Inv, Types, RunType
  <1>4. Quiet(r)
    BY Zenon, <1>1, <1>2, FaultSpent DEF Inv, Quiet, Finished, Became
  <1>5. Fit(run'[r], conf.req[r]) /\ Owns(r, run'[r])
    BY Zenon, <1>1, <1>3 DEF RunInv, Fit, Owns, Claims, Copied, Reading, Became
  <1>6. Lives(run'[r]) /\ Leaves(run'[r])
    BY Zenon, <1>1, <1>3 DEF RunInv, Lives, Leaves, Finished, Reading, Became
  <1>7. Holds(r, run'[r]) /\ Sees(run'[r]) /\ Honest(r, run'[r])
    BY Zenon, <1>1, <1>3 DEF RunInv, Holds, Sees, Honest, Copied, Became
  <1> QED BY Zenon, <1>4, <1>5, <1>6, <1>7, QuietStep DEF RunInv

\* copyDisks: what is read is open.
LEMMA CopyDisksKeeps ==
    ASSUME Inv, Types', NEW r \in Runs, CopyDisks(r)
    PROVE  Inv'
  <1>0. Types
    BY DEF Inv
  <1>1. /\ run[r].pc = "copy"
        /\ \/ Became(r, "finalize", "finish", run[r].ask, run[r].backup, run[r].level, run[r].status)
           \/ Became(r, "finalize", "fail", run[r].ask, run[r].backup, run[r].level, run[r].status)
    BY DEF Types, RunType, CopyDisks, Finalizing, At, Became
  <1>2. UNCHANGED <<conf, window, backup, guest, thawFailed, up>> /\ (Spend("fault") \/ UNCHANGED count)
    BY DEF CopyDisks
  <1>3. run[r].then \in Nexts /\ RunInv(r, run[r])
    BY DEF Inv, Types, RunType
  <1>4. Quiet(r)
    BY Zenon, <1>1, <1>2, FaultSpent DEF Inv, Quiet, Finished, Became
  <1>5. Fit(run'[r], conf.req[r]) /\ Owns(r, run'[r])
    BY Zenon, <1>1, <1>3 DEF RunInv, Fit, Owns, Claims, Reading, Became
  <1>6. Lives(run'[r]) /\ Leaves(run'[r])
    BY Zenon, <1>1, <1>3 DEF RunInv, Lives, Leaves, Finished, Reading, Became
  <1>7. Holds(r, run'[r]) /\ Sees(run'[r]) /\ Honest(r, run'[r])
    BY Zenon, <1>1, <1>3 DEF RunInv, Holds, Sees, Honest, Copied, Became
  <1> QED BY Zenon, <1>4, <1>5, <1>6, <1>7, QuietStep DEF RunInv

\* After the finalize: a second backup, or the outcome.
LEMMA FinalizedKeeps ==
    ASSUME Inv, Types', NEW r \in Runs, Finalized(r)
    PROVE  Inv'
  <1>0. Types
    BY DEF Inv
  <1>1. /\ run[r].pc = "finalizing"
        /\ \/ run[r].then = "engine" /\ Became(r, "open", run[r].then, TRUE, run[r].backup, "target", run[r].status)
           \/ run[r].then = "plain" /\ Became(r, "open", run[r].then, FALSE, run[r].backup, run[r].level, run[r].status)
           \/ run[r].then \notin {"engine", "plain"} /\ Became(r, run[r].then, run[r].then, run[r].ask, run[r].backup, run[r].level, run[r].status)
    <2>1. CASE run[r].then = "engine"
      BY <2>1 DEF Types, Finalized, At, Became
    <2>2. CASE run[r].then = "plain"
      BY <2>2 DEF Types, Finalized, At, Became
    <2>3. CASE run[r].then \notin {"engine", "plain"}
      <3> DEFINE y == [run[r] EXCEPT !.pc = run[r].then]
      <3>1. /\ y.pc = run[r].then /\ y.then = run[r].then /\ y.ask = run[r].ask /\ y.backup = run[r].backup
            /\ y.level = run[r].level /\ y.status = run[r].status /\ y.seen = run[r].seen
        OBVIOUS
      <3>2. run' = [run EXCEPT ![r] = y] /\ run[r].pc = "finalizing"
        BY Zenon, <2>3 DEF Finalized, At
      <3> HIDE DEF y
      <3> QED BY Zenon, <2>3, <3>1, <3>2 DEF Types, Became
    <2> QED BY Zenon, <2>1, <2>2, <2>3
  <1>2. UNCHANGED <<conf, window, backup, guest, thawFailed, up>> /\ (Spend("fault") \/ UNCHANGED count)
    BY DEF Finalized
  <1>3. run[r].then \in Nexts /\ RunInv(r, run[r])
    BY DEF Inv, Types, RunType
  <1>4. Quiet(r)
    BY Zenon, <1>1, <1>2, FaultSpent DEF Inv, Quiet, Finished, Became, Fit, RunInv
  <1>5. Fit(run'[r], conf.req[r]) /\ Owns(r, run'[r])
    BY Zenon, <1>1, <1>3 DEF RunInv, Fit, Owns, Claims, Copied, Reading, Became, Open
  <1>6. Lives(run'[r]) /\ Leaves(run'[r])
    BY Zenon, <1>1, <1>3 DEF RunInv, Lives, Leaves, Finished, Reading, Became, Fit
  <1>7. Holds(r, run'[r]) /\ Sees(run'[r]) /\ Honest(r, run'[r])
    BY Zenon, <1>1, <1>3 DEF RunInv, Holds, Sees, Honest, Copied, Became, Fit
  <1> QED BY Zenon, <1>4, <1>5, <1>6, <1>7, QuietStep DEF RunInv

\* The row of a copy is written.
LEMMA FinishRunKeeps ==
    ASSUME Inv, Types', NEW r \in Runs, FinishRun(r)
    PROVE  Inv'
  <1>0. Types
    BY DEF Inv
  <1>1. /\ run[r].pc = "finish"
        /\ \/ Became(r, "ended", run[r].then, run[r].ask, run[r].backup, run[r].level, "succeeded")
           \/ Became(r, "fail", run[r].then, run[r].ask, run[r].backup, run[r].level, run[r].status)
           \/ Became(r, "ended", run[r].then, run[r].ask, run[r].backup, run[r].level, run[r].status)
    BY DEF Types, RunType, FinishRun, Move, At, Became
  <1>2. UNCHANGED <<conf, window, backup, guest, thawFailed, up>> /\ (Spend("fault") \/ UNCHANGED count)
    BY DEF FinishRun
  <1>3. run[r].then \in Nexts /\ RunInv(r, run[r])
    BY DEF Inv, Types, RunType
  <1>4. Quiet(r)
    BY Zenon, <1>1, <1>2, FaultSpent DEF Inv, Quiet, Finished, Became
  <1>5. Fit(run'[r], conf.req[r]) /\ Owns(r, run'[r])
    BY Zenon, <1>1, <1>3 DEF RunInv, Fit, Owns, Claims, Copied, Became
  <1>6. Lives(run'[r]) /\ Leaves(run'[r])
    BY Zenon, <1>1, <1>3 DEF RunInv, Lives, Leaves, Finished, Reading, Became
  <1>7. Holds(r, run'[r]) /\ Sees(run'[r]) /\ Honest(r, run'[r])
    BY Zenon, <1>1, <1>3 DEF RunInv, Holds, Sees, Honest, Copied, Became
  <1> QED BY Zenon, <1>4, <1>5, <1>6, <1>7, QuietStep DEF RunInv

\* failRun.
LEMMA FailRunKeeps ==
    ASSUME Inv, Types', NEW r \in Runs, FailRun(r)
    PROVE  Inv'
  <1>0. Types
    BY DEF Inv
  <1>1. /\ run[r].pc = "fail"
        /\ \/ Became(r, "ended", run[r].then, run[r].ask, run[r].backup, run[r].level, "failed")
           \/ Became(r, "ended", run[r].then, run[r].ask, run[r].backup, run[r].level, run[r].status)
    BY DEF Types, RunType, FailRun, Move, At, Became
  <1>2. UNCHANGED <<conf, window, backup, guest, thawFailed, up>> /\ (Spend("fault") \/ UNCHANGED count)
    BY DEF FailRun
  <1>3. run[r].then \in Nexts /\ RunInv(r, run[r])
    BY DEF Inv, Types, RunType
  <1>4. Quiet(r)
    BY Zenon, <1>1, <1>2, FaultSpent DEF Inv, Quiet, Finished, Became
  <1>5. Fit(run'[r], conf.req[r]) /\ Owns(r, run'[r])
    BY Zenon, <1>1, <1>3 DEF RunInv, Fit, Owns, Claims, Copied, Reading, Became
  <1>6. Lives(run'[r]) /\ Leaves(run'[r])
    BY Zenon, <1>1 DEF Lives, Leaves, Finished, Reading, Became
  <1>7. Holds(r, run'[r]) /\ Sees(run'[r]) /\ Honest(r, run'[r])
    BY Zenon, <1>1, <1>3 DEF RunInv, Holds, Sees, Honest, Copied, Became
  <1> QED BY Zenon, <1>4, <1>5, <1>6, <1>7, QuietStep DEF RunInv
=============================================================================
