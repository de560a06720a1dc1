--------------------------- MODULE LeaderElection ---------------------------
(***************************************************************************)
(* The seat of the leader: internal/store/leader.go and superviseLeadership *)
(* with backgroundParts in cmd/ovirt-backup-server/main.go.                 *)
(*                                                                          *)
(* Every instance polls for a PostgreSQL advisory lock on a connection of   *)
(* its own.  The one that gets it starts the background parts (scheduler,   *)
(* monitor, discovery) and keeps asking the connection whether the lock is  *)
(* still there.  The lock belongs to the session of the server, which may   *)
(* outlive, or die before, what the client knows of it.                     *)
(***************************************************************************)
EXTENDS Naturals

CONSTANTS
    Instances,      \* processes on one database
    Supervised,     \* run with -supervise: a process that does not answer is killed
    MaxCuts,        \* bound: connections that break
    MaxErrors,      \* bound: lock statements that fail on a connection that stays alive
    MaxStartErrors, \* bound: sched.Start returning an error
    MaxExits,       \* bound: signals, kills and power losses
    MaxRunErrors,  \* bound: run() returning an error after the election has begun
    None

\* A session that holds the lock is the one in Leadership, one that Leadership dropped
\* without closing, one that went back to the pool with it, or one without a client.
Kinds == {"current", "leaked", "pooled", "half-open"}

ASSUME ElectionAssumption ==
    /\ None \notin [inst : Instances, kind : Kinds]
    /\ Supervised \in BOOLEAN
    /\ MaxCuts \in Nat /\ MaxErrors \in Nat /\ MaxStartErrors \in Nat
    /\ MaxExits \in Nat /\ MaxRunErrors \in Nat

VARIABLES
    proc,       \* up; quitting: ctx is cancelled; hung: run() waits for leaderDone
    sup,        \* where superviseLeadership is; "poll" is leadership == nil
    parts,      \* backgroundParts: cancel != nil
    conn,       \* the connection in Leadership, as the client would find it
    lock,       \* the session that holds the advisory lock
    cuts, errors, startErrors, exits, runErrors

vars == <<proc, sup, parts, conn, lock, cuts, errors, startErrors, exits, runErrors>>
counters == <<cuts, errors, startErrors, exits, runErrors>>

Session(i, kind) == [inst |-> i, kind |-> kind]
Current(i) == lock = Session(i, "current")

Init ==
    /\ proc = [i \in Instances |-> "down"]
    /\ sup = [i \in Instances |-> "done"]
    /\ parts = [i \in Instances |-> "off"]
    /\ conn = [i \in Instances |-> "none"]
    /\ lock = None
    /\ cuts = 0 /\ errors = 0 /\ startErrors = 0 /\ exits = 0 /\ runErrors = 0

-----------------------------------------------------------------------------
(* superviseLeadership. *)

\* pg_try_advisory_lock answered true. (Any other answer changes nothing.) A session of
\* the pool that still has the lock may be the one that asks.
TryBecomeLeader(i) ==
    /\ proc[i] \in {"up", "hung"} /\ sup[i] = "poll"
    /\ lock = None \/ lock = Session(i, "pooled")
    /\ lock' = Session(i, "current")
    /\ conn' = [conn EXCEPT ![i] = "open"]
    /\ sup' = [sup EXCEPT ![i] = "starting"]
    /\ UNCHANGED <<proc, parts, counters>>

\* Leadership.Release of a connection not known to be lost: pg_advisory_unlock, and the
\* connection goes back to the pool. What unlock returns is not looked at.
Release(i) ==
    /\ conn' = [conn EXCEPT ![i] = "none"]
    /\ \/ conn[i] = "open" /\ lock' = None /\ UNCHANGED errors
       \/ conn[i] = "open" /\ errors < MaxErrors
          /\ errors' = errors + 1 /\ lock' = Session(i, "pooled")
       \/ conn[i] = "cut" /\ UNCHANGED <<lock, errors>>

\* parts.start.
StartParts(i) ==
    /\ proc[i] \in {"up", "hung"} /\ sup[i] = "starting"
    /\ parts' = [parts EXCEPT ![i] = "on"]
    /\ sup' = [sup EXCEPT ![i] = "watch"]
    /\ UNCHANGED <<proc, conn, lock, counters>>

\* sched.Start returned an error (a query failed, or ctx is cancelled): the seat is given up.
StartFails(i) ==
    /\ sup[i] = "starting"
    /\ \/ proc[i] = "quitting" /\ UNCHANGED startErrors
       \/ startErrors < MaxStartErrors /\ startErrors' = startErrors + 1
    /\ Release(i)
    /\ sup' = [sup EXCEPT ![i] = "poll"]
    /\ UNCHANGED <<proc, parts, cuts, exits, runErrors>>

\* Mutation: an error of the query is taken for a yes.
AliveFailsOnAnswer(i) ==
    /\ proc[i] \in {"up", "hung"} /\ sup[i] = "watch" /\ conn[i] = "open" /\ ~Current(i)
    /\ sup' = [sup EXCEPT ![i] = "stopping"]
    /\ UNCHANGED <<proc, parts, conn, lock, counters>>

\* Alive finds the connection broken: the Leadership is lost.
AliveFails(i) ==
    /\ proc[i] \in {"up", "hung"} /\ sup[i] = "watch" /\ conn[i] = "cut"
    /\ sup' = [sup EXCEPT ![i] = "stopping"]
    /\ UNCHANGED <<proc, parts, conn, lock, counters>>

\* Mutation: the seat is given back before the parts are stopped.
AliveErrsReleasing(i) ==
    /\ proc[i] \in {"up", "hung"} /\ sup[i] = "watch" /\ conn[i] = "open"
    /\ errors < MaxErrors /\ errors' = errors + 1
    /\ lock' = None
    /\ sup' = [sup EXCEPT ![i] = "stopping"]
    /\ UNCHANGED <<proc, parts, conn, cuts, startErrors, exits, runErrors>>

\* Alive's query fails on a connection that is alive: the Leadership is taken for lost.
AliveErrs(i) ==
    /\ proc[i] \in {"up", "hung"} /\ sup[i] = "watch" /\ conn[i] = "open"
    /\ errors < MaxErrors /\ errors' = errors + 1
    /\ sup' = [sup EXCEPT ![i] = "stopping"]
    /\ UNCHANGED <<proc, parts, conn, lock, cuts, startErrors, exits, runErrors>>

\* The session of a Leadership that is lost: Release returns at once, and nothing closes it.
Drop(i) ==
    /\ conn' = [conn EXCEPT ![i] = "none"]
    /\ lock' = IF Current(i) THEN Session(i, "leaked") ELSE lock

\* Mutation: leadership is not set to nil.
StopPartsKeeping(i) ==
    /\ sup[i] = "stopping"
    /\ parts' = [parts EXCEPT ![i] = "off"]
    /\ Drop(i)
    /\ sup' = [sup EXCEPT ![i] = "watch"]
    /\ UNCHANGED <<proc, counters>>

\* parts.stop, Release of a lost Leadership, leadership = nil.
StopParts(i) ==
    /\ sup[i] = "stopping"
    /\ parts' = [parts EXCEPT ![i] = "off"]
    /\ Drop(i)
    /\ sup' = [sup EXCEPT ![i] = "poll"]
    /\ UNCHANGED <<proc, counters>>

\* ctx is done. The deferred Release, or Release after an Alive that ctx refused.
SupervisorReturns(i) ==
    /\ proc[i] = "quitting"
    /\ \/ sup[i] = "poll" /\ UNCHANGED <<conn, lock, errors>>
       \/ sup[i] = "watch" /\ Release(i)
       \/ sup[i] = "watch" /\ Drop(i) /\ UNCHANGED errors
    /\ sup' = [sup EXCEPT ![i] = "done"]
    /\ UNCHANGED <<proc, parts, cuts, startErrors, exits, runErrors>>

-----------------------------------------------------------------------------
(* Connections. *)

\* The server closes the session: it was terminated, or the server restarted.
SessionEnds(i) ==
    /\ lock # None /\ lock.inst = i /\ cuts < MaxCuts
    /\ cuts' = cuts + 1
    /\ lock' = None
    /\ conn' = IF Current(i) THEN [conn EXCEPT ![i] = "cut"] ELSE conn
    /\ UNCHANGED <<proc, sup, parts, errors, startErrors, exits, runErrors>>

\* The network breaks: the server goes on holding the lock for a client that is away.
HalfOpen(i) ==
    /\ Current(i) /\ cuts < MaxCuts
    /\ cuts' = cuts + 1
    /\ lock' = Session(i, "half-open")
    /\ conn' = [conn EXCEPT ![i] = "cut"]
    /\ UNCHANGED <<proc, sup, parts, errors, startErrors, exits, runErrors>>

\* TCP keepalive, and SetConnMaxLifetime of the pool, end a session in the end.
SessionExpires ==
    /\ lock # None /\ lock.kind \in {"half-open", "pooled"}
    /\ lock' = None
    /\ UNCHANGED <<proc, sup, parts, conn, counters>>

-----------------------------------------------------------------------------
(* Processes. *)

\* run() up to the goroutine of superviseLeadership and the HTTP server.
Boot(i) ==
    /\ proc[i] = "down"
    /\ proc' = [proc EXCEPT ![i] = "up"]
    /\ sup' = [sup EXCEPT ![i] = "poll"]
    /\ UNCHANGED <<parts, conn, lock, counters>>

\* SIGTERM.
Signal(i) ==
    /\ proc[i] \in {"up", "hung"} /\ exits < MaxExits
    /\ exits' = exits + 1
    /\ proc' = [proc EXCEPT ![i] = "quitting"]
    /\ UNCHANGED <<sup, parts, conn, lock, cuts, errors, startErrors, runErrors>>

\* transfers.Recover or the HTTP server failed: run() returns, the deferred
\* background.stop comes first and then the wait for superviseLeadership, whose ctx is
\* cancelled only by a defer that comes later.
RunFails(i) ==
    /\ proc[i] = "up" /\ runErrors < MaxRunErrors
    /\ runErrors' = runErrors + 1
    /\ proc' = [proc EXCEPT ![i] = "hung"]
    /\ parts' = [parts EXCEPT ![i] = "off"]
    /\ UNCHANGED <<sup, conn, lock, cuts, errors, startErrors, exits>>

\* background.stop at the end of run().
BackgroundStop(i) ==
    /\ proc[i] = "quitting" /\ parts[i] = "on"
    /\ parts' = [parts EXCEPT ![i] = "off"]
    /\ UNCHANGED <<proc, sup, conn, lock, counters>>

\* The sessions of a process that ended are closed, unless the host went with it.
Gone(i) ==
    /\ proc' = [proc EXCEPT ![i] = "down"]
    /\ sup' = [sup EXCEPT ![i] = "done"]
    /\ parts' = [parts EXCEPT ![i] = "off"]
    /\ conn' = [conn EXCEPT ![i] = "none"]

CloseSessions(i) == lock' = IF lock # None /\ lock.inst = i /\ lock.kind # "half-open" THEN None ELSE lock

Exit(i) ==
    /\ proc[i] = "quitting" /\ sup[i] = "done" /\ parts[i] = "off"
    /\ Gone(i) /\ CloseSessions(i)
    /\ UNCHANGED counters

Kill(i) ==
    /\ proc[i] # "down" /\ exits < MaxExits
    /\ exits' = exits + 1
    /\ Gone(i)
    /\ \/ CloseSessions(i)
       \/ lock # None /\ lock.inst = i /\ lock' = Session(i, "half-open")
    /\ UNCHANGED <<cuts, errors, startErrors, runErrors>>

\* superviseService: three probes of /healthz in a row failed.
SupervisorKills(i) ==
    /\ Supervised /\ proc[i] = "hung"
    /\ Gone(i) /\ CloseSessions(i)
    /\ UNCHANGED counters

\* The steps the loop takes by itself.
Supervise(i) ==
    \/ TryBecomeLeader(i) \/ StartParts(i) \/ AliveFails(i) \/ StopParts(i) \/ SupervisorReturns(i)
    \/ proc[i] = "quitting" /\ StartFails(i)

Shutdown(i) == BackgroundStop(i) \/ Exit(i) \/ SupervisorKills(i)

Next ==
    \/ \E i \in Instances :
        \/ TryBecomeLeader(i) \/ StartParts(i) \/ StartFails(i) \/ AliveFails(i) \/ AliveErrs(i)
        \/ StopParts(i) \/ SupervisorReturns(i)
        \/ SessionEnds(i) \/ HalfOpen(i)
        \/ Boot(i) \/ Signal(i) \/ RunFails(i) \/ Kill(i) \/ Shutdown(i)
    \/ SessionExpires

Spec == Init /\ [][Next]_vars

\* The loop of superviseLeadership polls for ever, a shutdown goes on to its end, the
\* operator or the supervisor starts a process that is down, and sessions without a
\* client end. No error, signal or crash has to happen.
Fairness ==
    /\ \A i \in Instances : WF_vars(Supervise(i)) /\ WF_vars(Shutdown(i)) /\ WF_vars(Boot(i))
    /\ WF_vars(SessionExpires)

FairSpec == Spec /\ Fairness

-----------------------------------------------------------------------------
(* Properties. *)

\* Every variable keeps its shape, and the lock has at most one session.
TypeOK ==
    /\ proc \in [Instances -> {"down", "up", "quitting", "hung"}]
    /\ sup \in [Instances -> {"poll", "starting", "watch", "stopping", "done"}]
    /\ parts \in [Instances -> {"off", "on"}]
    /\ conn \in [Instances -> {"none", "open", "cut"}]
    /\ lock \in [inst : Instances, kind : Kinds] \cup {None}
    /\ cuts \in 0..MaxCuts /\ errors \in 0..MaxErrors /\ startErrors \in 0..MaxStartErrors
    /\ exits \in 0..MaxExits /\ runErrors \in 0..MaxRunErrors

\* The scheduler and the monitor of the instance start work. (A cancelled context lets
\* them only finish it.)
Leads(i) == parts[i] = "on" /\ proc[i] \in {"up", "hung"}

\* Two instances run the background parts only while the connection of one of them is
\* broken and its next Alive has not told it yet: superviseLeadership stops the parts
\* before it gives the seat back.
OneLeader ==
    \A i, j \in Instances : Leads(i) /\ Leads(j) /\ i # j => conn[i] = "cut" \/ conn[j] = "cut"

\* An instance that lost its connection gives up its role.
CutLeaderStops == \A i \in Instances : conn[i] = "cut" ~> parts[i] = "off"

\* The seat does not stay empty: whatever broke, some instance leads again, unless a
\* lock statement failed on a connection that was fine. (After such an error the lock
\* stays with a session that nobody uses and nobody closes: leader.go:75 and :85.)
SomeoneLeads == [](errors = 0) => []<>(\E i \in Instances : Leads(i))
=============================================================================
