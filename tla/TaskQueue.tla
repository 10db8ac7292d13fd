------------------------------ MODULE TaskQueue ------------------------------
(***************************************************************************)
(* What an EventLoop promises to the threads that hand it functors.        *)
(*                                                                         *)
(* A functor is either queued (queueInLoop, or runInLoop from a foreign    *)
(* thread) or executed on the spot (runInLoop on the loop's own thread).   *)
(* Queued functors are executed one at a time, in the order they were      *)
(* queued, and none is executed twice.  Nothing here knows about mutexes,  *)
(* eventfds, epoll or the swap of a vector: EventLoop implements this      *)
(* module with all of them.                                                *)
(***************************************************************************)
EXTENDS Sequences, Functions

CONSTANT Tasks      \* the functors

VARIABLES queue,    \* functors accepted and not yet executed, oldest first
          done      \* functors executed, in order of execution

vars == <<queue, done>>

(* A functor object is moved into the loop: it can be handed over once.    *)
Fresh(t) == t \notin Range(queue) \cup Range(done)

Init == /\ queue = <<>>
        /\ done = <<>>

Submit(t) == /\ Fresh(t)
             /\ queue' = Append(queue, t)
             /\ UNCHANGED done

Execute == /\ queue # <<>>
           /\ done' = Append(done, Head(queue))
           /\ queue' = Tail(queue)

Inline(t) == /\ Fresh(t)
             /\ done' = Append(done, t)
             /\ UNCHANGED queue

Next == \/ \E t \in Tasks : Submit(t) \/ Inline(t)
        \/ Execute

Spec == Init /\ [][Next]_vars
==============================================================================
