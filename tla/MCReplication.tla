--------------------------- MODULE MCReplication ---------------------------
(* Small instances of Replication: one chain p1 <- p2 and up to two processes. *)
EXTENDS Replication, TLC

CONSTANTS p1, p2, w1, w2, i1, i2

ChainParent == [p \in Points |-> IF p = p1 THEN None ELSE p1]

\* One process with two workers that dies and starts again, or is stopped: a mirrored
\* point under Object Lock and everything that can happen to its copy.
OneProcess(events) ==
    [at |-> [w \in Workers |-> i1], queued |-> {}, mirrored |-> {p1}, verify |-> TRUE, lock |-> TRUE,
     long |-> TRUE, max |-> [k \in Kinds |-> IF k \in events THEN 1 ELSE 0]]
Dies == OneProcess({"crash", "start", "failure", "cancel", "retry"})
Stops == OneProcess({"close", "failure", "cancel", "retry"})

\* Two processes: a chain of two points, one crash and two failures.
TwoProcesses ==
    [at |-> (w1 :> i1 @@ w2 :> i2), queued |-> {p1, p2}, mirrored |-> {}, verify |-> TRUE, lock |-> FALSE,
     long |-> FALSE, max |-> [k \in Kinds |-> CASE k = "crash" -> 1 [] k = "failure" -> 2 [] OTHER -> 0]]

AllSettings == {Dies, Stops, TwoProcesses}
=============================================================================
