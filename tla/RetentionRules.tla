--------------------------- MODULE RetentionRules ---------------------------
(***************************************************************************)
(* Which restore points a retention policy keeps: retention.Apply of       *)
(* internal/retention/retention.go, as operators.                          *)
(*                                                                         *)
(* A catalogue of points is given by                                       *)
(*   cs      the candidates, newest first: the points of one VM in one     *)
(*           storage that are not deleted and that succeeded (whole or     *)
(*           partly), in the order the sort leaves them;                   *)
(*   at      the creation time of a point, a number of time units;         *)
(*   parent  the point an increment was computed from, None for a full     *)
(*           one.  A parent is older than its child.                       *)
(* The hour, day, ISO week, month and year of the code are periods of      *)
(* different lengths: a policy gives each length in `buckets' its limit.   *)
(***************************************************************************)
EXTENDS Integers, Sequences, FiniteSets, SequencesExt

None == 0

Before(cs, i) == 1 .. (i - 1)

Bucket(t, length) == t \div length

Empty(policy) ==
    /\ policy.keepLast = 0
    /\ policy.maxAge = 0
    /\ \A b \in DOMAIN policy.buckets : policy.buckets[b] = 0

KeepLast(policy, cs) == {cs[i] : i \in {j \in DOMAIN cs : j <= policy.keepLast}}

\* The newest point of each period, for the newest `limit' periods.
ApplyBucketOneShort(cs, at, limit, length) ==
    LET news(j) == \A k \in Before(cs, j) :
                      Bucket(at[cs[k]], length) # Bucket(at[cs[j]], length)
        seen(j) == Cardinality({Bucket(at[cs[k]], length) : k \in Before(cs, j)})
    IN  {cs[i] : i \in {j \in DOMAIN cs : news(j) /\ seen(j) < limit - 1}}

ApplyBucket(cs, at, limit, length) ==
    LET news(j) == \A k \in Before(cs, j) :
                      Bucket(at[cs[k]], length) # Bucket(at[cs[j]], length)
        seen(j) == Cardinality({Bucket(at[cs[k]], length) : k \in Before(cs, j)})
    IN  {cs[i] : i \in {j \in DOMAIN cs : news(j) /\ seen(j) < limit}}

\* What the rules hold by themselves: the last points and the buckets, less
\* what MaxAge takes away, and the newest point when nothing is left.
HeldWithoutTheLastOne(policy, cs, at, now) ==
    LET wanted == KeepLast(policy, cs)
                    \cup UNION {ApplyBucket(cs, at, policy.buckets[b], b) : b \in DOMAIN policy.buckets}
    IN  {p \in wanted : policy.maxAge > 0 => at[p] >= now - policy.maxAge}

HeldBeforeMaxAge(policy, cs, at, now) ==
    KeepLast(policy, cs)
        \cup UNION {ApplyBucket(cs, at, policy.buckets[b], b) : b \in DOMAIN policy.buckets}
        \cup {cs[1]}

Held(policy, cs, at, now) ==
    LET wanted == KeepLast(policy, cs)
                    \cup UNION {ApplyBucket(cs, at, policy.buckets[b], b) : b \in DOMAIN policy.buckets}
        young  == {p \in wanted : policy.maxAge > 0 => at[p] >= now - policy.maxAge}
    IN  IF young = {} THEN {cs[1]} ELSE young

\* The points the walk from p to the root of its chain passes; it stops at a
\* parent that is not a candidate.
AncestorsOneLink(cs, parent, p) == {parent[p]} \cap ToSet(cs)

Ancestors(cs, parent, p) ==
    LET up[q \in 0 .. p] ==
            IF q # None /\ parent[q] \in ToSet(cs) THEN {parent[q]} \cup up[parent[q]] ELSE {}
    IN  up[p]

Keep(policy, cs, at, parent, now) ==
    IF cs = <<>> \/ Empty(policy)
    THEN ToSet(cs)
    ELSE LET held == Held(policy, cs, at, now)
         IN  held \cup UNION {Ancestors(cs, parent, p) : p \in held}

\* Decision.Delete: newest first, so that an increment goes before its base.
Delete(policy, cs, at, parent, now) ==
    LET keep == Keep(policy, cs, at, parent, now)
    IN  SelectSeq(cs, LAMBDA p : p \notin keep)
=============================================================================
