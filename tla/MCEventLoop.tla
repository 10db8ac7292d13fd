----------------------------- MODULE MCEventLoop -----------------------------
(* Model values for EventLoop: the loop's thread and a few others.         *)
EXTENDS EventLoop, TLC

CONSTANTS c1, c2, f1, f2, f3

MCCallers == {c1, c2}
MCTasks == {f1, f2, f3}

(* The connHandler_s the code sets, and those it would set if the wakeup   *)
(* channel were given one too.                                             *)
AsWritten == {"conn"}
Repaired == {"conn", "wakeup"}

(* Callers are interchangeable, and so are functors, for safety checking.  *)
Symmetry == Permutations(MCCallers) \cup Permutations(MCTasks)
==============================================================================
