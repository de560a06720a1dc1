---------------------------- MODULE MCRetention ----------------------------
EXTENDS Retention, TLC

CONSTANTS s1, s2, d1, d2

\* The last point only.
LastOnly == {[keepLast |-> 1, maxAge |-> 0, buckets |-> <<0>>]}

Count(crash, fault, verify, undelete) ==
    [c \in Counters |-> CASE c = "crash" -> crash [] c = "fault" -> fault
                          [] c = "verify" -> verify [] OTHER -> undelete]

\* Three backups under a quarantine, with a crash.
Quarantined ==
    [replicas |-> {}, mirror |-> FALSE, local |-> FALSE, lock |-> {}, quarantine |-> TRUE, unfinished |-> FALSE,
     ops |-> {"retention", "delete", "collect"}, points |-> 3, max |-> Count(1, 0, 0, 0)]

\* Deletion on the spot, with a replica under Object Lock, a crash and a fault.
Immediate ==
    [replicas |-> {s2}, mirror |-> FALSE, local |-> FALSE, lock |-> {s2}, quarantine |-> FALSE, unfinished |-> FALSE,
     ops |-> {"retention", "prune", "purge"}, points |-> 2, max |-> Count(1, 1, 0, 0)]

\* A mirrored directory, a verification and a return from the trash.
Mirrored ==
    [replicas |-> {s2}, mirror |-> TRUE, local |-> TRUE, lock |-> {}, quarantine |-> TRUE, unfinished |-> FALSE,
     ops |-> {"retention", "purge", "collect"}, points |-> 2, max |-> Count(0, 0, 1, 1)]

\* Retention, an operator and the collector, with a replica under Object Lock, a crash
\* and a fault.
Collected ==
    [replicas |-> {s2}, mirror |-> FALSE, local |-> TRUE, lock |-> {s2}, quarantine |-> TRUE, unfinished |-> FALSE,
     ops |-> {"retention", "delete", "collect"}, points |-> 2, max |-> Count(1, 1, 0, 0)]

\* Mirrors on object storage, deletion on the spot.
MirroredObjects ==
    [replicas |-> {s2}, mirror |-> TRUE, local |-> FALSE, lock |-> {}, quarantine |-> FALSE, unfinished |-> FALSE,
     ops |-> {"retention", "delete"}, points |-> 2, max |-> Count(0, 0, 0, 0)]

SafetySettings   == {Quarantined, Immediate, Mirrored}
LivenessSettings == {Collected}
MirrorSettings   == {MirroredObjects}

Symmetry == Permutations({d1, d2})
=============================================================================
