------------------------------ MODULE Handover ------------------------------
(***************************************************************************)
(* What the transfer of a virtual machine promises, without saying how:    *)
(* one of the two copies of the machine runs at a time, and the new one    *)
(* starts only from a complete image of the old one, taken while the old   *)
(* one stood still.                                                        *)
(***************************************************************************)

VARIABLES
    owner,  \* which copy runs: source, target, nobody; unknown once the promise is off
    whole   \* the disks of the target are the last state of the source

vars == <<owner, whole>>

Init == owner \in {"source", "nobody"} /\ whole = FALSE

StopSource == owner = "source" /\ owner' = "nobody" /\ UNCHANGED whole
StartSource == owner = "nobody" /\ owner' = "source" /\ whole' = FALSE
StartTarget == owner = "nobody" /\ whole /\ owner' = "target" /\ UNCHANGED whole
StopTarget == owner = "target" /\ owner' = "nobody" /\ UNCHANGED whole

\* The disks of the target are written or deleted while it is off; an image of a
\* running source is never the last one.
WriteTarget ==
    /\ owner # "target" /\ UNCHANGED owner
    /\ whole' \in {FALSE, owner = "nobody"}

\* Somebody else may be at work on the same machine from here on.
Forfeit == owner' = "unknown" /\ whole' = FALSE

Next == StopSource \/ StartSource \/ StartTarget \/ StopTarget \/ WriteTarget \/ Forfeit

Spec == Init /\ [][Next]_vars
=============================================================================
