--------------------------- MODULE RetentionPass ---------------------------
(***************************************************************************)
(* Backups of one VM and retention passes over them, one after another:    *)
(* what the rules of RetentionRules leave in the catalogue, whatever the   *)
(* policies that follow each other.  Nothing runs concurrently here and    *)
(* no deletion is refused; Retention has the races.                        *)
(***************************************************************************)
EXTENDS RetentionRules

CONSTANTS Policies,     \* the policies a job may be given
          MaxPoints,    \* bound: backups taken
          MaxTime       \* bound: the clock

ASSUME PassBounds == MaxPoints \in Nat /\ MaxTime \in Nat

VARIABLES at,       \* creation time of every point ever taken
          parent,   \* what each point was computed from
          gone,     \* the deleted points
          now       \* the clock

vars == <<at, parent, gone, now>>

\* The candidates of Apply: the points not deleted, newest first.
Candidates == SelectSeq(Reverse([i \in 1 .. Len(at) |-> i]), LAMBDA p : p \notin gone)

TypeOK ==
    /\ at \in Seq(0 .. MaxTime) /\ Len(at) <= MaxPoints
    /\ DOMAIN parent = DOMAIN at
    /\ \A p \in DOMAIN parent : parent[p] \in 0 .. (p - 1)
    /\ gone \subseteq 1 .. Len(at)
    /\ now \in 0 .. MaxTime

Init ==
    /\ at = <<>> /\ parent = <<>> /\ gone = {} /\ now = 0

\* The mutant looks for the base once the new point is in the catalogue.
PlanParentsAfterInsert ==
    {None, Len(at) + 1}

\* LatestUsableRun and resolvePlan: an increment continues the newest point
\* that is not deleted, a differential the newest full one; with no such point,
\* or for the reasons resolvePlan lists, the backup is full.
PlanParents ==
    LET live  == ToSet(Candidates)
        fulls == {p \in live : parent[p] = None}
        newest(S) == {p \in S : \A q \in S : q <= p}
    IN  {None} \cup newest(live) \cup newest(fulls)

Backup ==
    /\ Len(at) < MaxPoints
    /\ at' = Append(at, now)
    /\ \E q \in PlanParents : parent' = Append(parent, q)
    /\ UNCHANGED <<gone, now>>

Tick ==
    /\ now < MaxTime
    /\ now' = now + 1
    /\ UNCHANGED <<at, parent, gone>>

ApplyRetention(policy) ==
    /\ Candidates # <<>>
    /\ gone' = gone \cup ToSet(Delete(policy, Candidates, at, parent, now))
    /\ UNCHANGED <<at, parent, now>>

Next == Backup \/ Tick \/ \E policy \in Policies : ApplyRetention(policy)

Spec == Init /\ [][Next]_vars
-----------------------------------------------------------------------------
\* Chain safety (retention.go:112): after any sequence of backups and passes
\* under changing policies every point still in the catalogue has all the
\* points it is restored through.
ChainsWhole == \A p \in ToSet(Candidates) : parent[p] # None => parent[p] \notin gone

\* The newest point survives every pass, MaxAge included (retention.go:105):
\* a VM that was backed up once always has a point to restore from.
NewestStays == Len(at) > 0 => Len(at) \notin gone

\* Each bucket rule is served (retention.go:149): whatever policy comes next,
\* of the newest `limit' periods that have a point every one that MaxAge does
\* not cut keeps its newest point.  The periods are ranked by the calendar,
\* independently of how ApplyBucket walks the list.
BucketsServed ==
    \A policy \in Policies : \A b \in DOMAIN policy.buckets :
        LET seen    == ToSet(Candidates)
            kept    == Keep(policy, Candidates, at, parent, now)
            periods == {Bucket(at[p], b) : p \in seen}
            last    == {x \in periods : Cardinality({y \in periods : y > x}) < policy.buckets[b]}
        IN  \A x \in last :
                \E p \in seen :
                    /\ Bucket(at[p], b) = x
                    /\ \A q \in seen : Bucket(at[q], b) = x => q <= p
                    /\ (policy.maxAge > 0 => at[p] >= now - policy.maxAge) => p \in kept

\* MaxAge overrides the buckets (retention.go:94): a point older than MaxAge
\* outlives the next pass only when a kept point is restored through it or
\* when it is the newest of all.
MaxAgeHonoured ==
    \A policy \in {x \in Policies : x.maxAge > 0} :
        LET kept == Keep(policy, Candidates, at, parent, now)
        IN  \A p \in kept :
                \/ at[p] >= now - policy.maxAge
                \/ p = Len(at)
                \/ \E q \in kept : parent[q] = p
=============================================================================
