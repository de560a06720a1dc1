------------------------ MODULE LeaderElectionProofs ------------------------
(***************************************************************************)
(* One leader, for any number of instances, cuts, errors and crashes.       *)
(***************************************************************************)
EXTENDS LeaderElection, TLAPS

\* What Leadership knows: an open connection is the session with the lock, and the
\* background parts run only beside a Leadership, or in a process on its way out.
Seated ==
    \A i \in Instances :
        /\ conn[i] = "open" => Current(i)
        /\ Leads(i) => sup[i] \in {"watch", "stopping"}
        /\ sup[i] \in {"starting", "watch", "stopping"} => conn[i] # "none"
        /\ parts[i] = "on" => proc[i] # "down"

SeatInv == TypeOK /\ Seated

USE ElectionAssumption

\* The initial states, where no process runs, satisfy the invariant.
LEMMA SeatInit == Init => SeatInv
  BY DEF Init, SeatInv, Seated, TypeOK, Leads

\* Every step of an instance, of the network and of the server keeps it.
LEMMA SeatStep == SeatInv /\ [Next]_vars => SeatInv'
  <1> SUFFICES ASSUME SeatInv, [Next]_vars PROVE SeatInv'
    OBVIOUS
  <1> USE DEF SeatInv, Seated, TypeOK, Leads, Current, Session, Kinds
  <1>1. ASSUME NEW i \in Instances, TryBecomeLeader(i) PROVE SeatInv'
    BY <1>1 DEF TryBecomeLeader, counters
  <1>2. ASSUME NEW i \in Instances, StartParts(i) PROVE SeatInv'
    BY <1>2 DEF StartParts, counters
  <1>3. ASSUME NEW i \in Instances, StartFails(i) PROVE SeatInv'
    BY <1>3 DEF StartFails, Release
  <1>4. ASSUME NEW i \in Instances, AliveFails(i) PROVE SeatInv'
    BY <1>4 DEF AliveFails, counters
  <1>5. ASSUME NEW i \in Instances, AliveErrs(i) PROVE SeatInv'
    BY <1>5 DEF AliveErrs
  <1>6. ASSUME NEW i \in Instances, StopParts(i) PROVE SeatInv'
    BY <1>6 DEF StopParts, Drop, counters
  <1>7. ASSUME NEW i \in Instances, SupervisorReturns(i) PROVE SeatInv'
    BY <1>7 DEF SupervisorReturns, Drop, Release
  <1>8. ASSUME NEW i \in Instances, SessionEnds(i) PROVE SeatInv'
    BY <1>8 DEF SessionEnds
  <1>9. ASSUME NEW i \in Instances, HalfOpen(i) PROVE SeatInv'
    BY <1>9 DEF HalfOpen
  <1>10. ASSUME NEW i \in Instances, Boot(i) PROVE SeatInv'
    BY <1>10 DEF Boot, counters
  <1>11. ASSUME NEW i \in Instances, Signal(i) PROVE SeatInv'
    BY <1>11 DEF Signal
  <1>12. ASSUME NEW i \in Instances, RunFails(i) PROVE SeatInv'
    BY <1>12 DEF RunFails
  <1>13. ASSUME NEW i \in Instances, Kill(i) PROVE SeatInv'
    BY <1>13 DEF Kill, Gone, CloseSessions
  <1>14. ASSUME NEW i \in Instances, Shutdown(i) PROVE SeatInv'
    <2>1. CASE BackgroundStop(i)
      BY <2>1 DEF BackgroundStop, counters
    <2>2. CASE Exit(i) \/ SupervisorKills(i)
      BY <2>2 DEF Exit, SupervisorKills, Gone, CloseSessions, counters
    <2> QED
      BY <1>14, <2>1, <2>2 DEF Shutdown
  <1>15. CASE SessionExpires
    BY <1>15 DEF SessionExpires, counters
  <1>16. CASE UNCHANGED vars
    BY <1>16 DEF vars
  <1> QED
    BY <1>1, <1>2, <1>3, <1>4, <1>5, <1>6, <1>7, <1>8, <1>9, <1>10, <1>11, <1>12,
       <1>13, <1>14, <1>15, <1>16 DEF Next

\* Every reachable state satisfies the invariant.
LEMMA SeatInvariant == Spec => []SeatInv
  BY SeatInit, SeatStep, PTL DEF Spec

\* superviseLeadership never has two instances start work at once, except while one of
\* them has lost its connection and does not know it yet.
THEOREM OneLeaderAtATime == Spec => []OneLeader
  <1>1. SeatInv => OneLeader
    BY DEF SeatInv, Seated, TypeOK, OneLeader, Leads, Current, Session
  <1> QED
    BY <1>1, SeatInvariant, PTL

\* Every variable of the election keeps its type.
THEOREM ElectionTypeCorrect == Spec => []TypeOK
  <1>1. SeatInv => TypeOK
    BY DEF SeatInv
  <1> QED
    BY <1>1, SeatInvariant, PTL
=============================================================================
