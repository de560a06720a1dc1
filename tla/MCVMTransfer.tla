---------------------------- MODULE MCVMTransfer ----------------------------
(* Small instances of VMTransfer for TLC. *)
EXTENDS VMTransfer

Manual == [on |-> FALSE, resume |-> FALSE, force |-> FALSE, rollback |-> FALSE, after |-> FALSE,
           retries |-> 0, rollbacks |-> 0]
Auto   == [on |-> TRUE, resume |-> TRUE, force |-> TRUE, rollback |-> TRUE, after |-> FALSE,
           retries |-> 1, rollbacks |-> 1]
Undo1  == [Auto EXCEPT !.force = FALSE, !.after = TRUE]

AllCalls == Calls \cup {"pause", "complete", "forget"}
NoKeep   == AllCalls \ {"rollback_keep"}

Setting(mode, was, policy, procs, calls, fault, crash, lost, taken, hand, op) ==
    [mode |-> mode, was |-> was, policy |-> policy, procs |-> procs, calls |-> calls,
     max |-> [fault |-> fault, crash |-> crash, lost |-> lost, taken |-> taken, hand |-> hand, op |-> op]]

PassSettings ==
    { \* everything an operator can do by hand, with a fault and a crash
      Setting("warm", TRUE, Manual, {"a"}, AllCalls, 1, 1, 0, 0, 0, 3),
      Setting("cold", TRUE, Manual, {"a"}, AllCalls, 1, 0, 0, 0, 1, 3),
      \* automatic recovery, with two faults or a fault and a crash
      Setting("warm", TRUE, Auto, {"a"}, NoKeep, 1, 1, 0, 0, 0, 2),
      Setting("warm", TRUE, Undo1, {"a"}, NoKeep, 2, 0, 0, 0, 1, 2),
      Setting("cold", FALSE, Auto, {"a"}, NoKeep, 2, 1, 0, 0, 0, 1),
      \* two processes, one of which takes what waits in the other
      Setting("warm", TRUE, Auto, {"a", "b"}, NoKeep, 1, 1, 0, 1, 0, 1),
      \* a worker that loses its session
      Setting("warm", TRUE, Auto, {"a", "b"}, {"cutover", "cancel"}, 0, 0, 1, 1, 0, 2) }
=============================================================================
