-------------------------- MODULE MCEventLoopThread --------------------------
(* Model values for EventLoopThread: the owner, one more thread that has   *)
(* the loop's address, and two functors.                                   *)
EXTENDS EventLoopThread

CONSTANTS c1, f1, f2

MCCallers == {Owner, c1}
MCTasks == {f1, f2}
Repaired == {"conn", "wakeup"}
==============================================================================
