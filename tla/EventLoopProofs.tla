--------------------------- MODULE EventLoopProofs ---------------------------
(***************************************************************************)
(* Proofs about EventLoop, and about EventLoopThread around it, for every  *)
(* set of callers and functors, and for the wakeup channel with and        *)
(* without a connHandler_.                                                 *)
(***************************************************************************)
EXTENDS EventLoopThread, SequenceLemmas, TLAPS

(* The threads that are in queueInLoop with a functor still to emplace.    *)
Underway == {t \in Threads : call[t] \in {"waiting", "locked"}}

(* The mutex has one holder: a thread in queueInLoop's critical section,   *)
(* or the loop while it swaps; and whoever waits for it or holds it in     *)
(* queueInLoop has a functor to emplace.                                   *)
LockInv ==
  /\ \A t \in Underway : cb[t] \in Tasks
  /\ \A t \in Threads : call[t] = "locked" => mutex = t
  /\ loopPc = "swapping" => mutex = LoopThread

(* Where the loop's thread is decides what it may have begun: it calls the *)
(* loop only from a handler or a functor, it owes a wakeup only from a     *)
(* functor, the flag brackets doPendingFunctors, and the batch is empty    *)
(* outside of it.                                                          *)
PhaseInv ==
  /\ callingPendingFunctors <=> loopPc \in {"swap", "swapping", "functors", "functor"}
  /\ call[LoopThread] # "idle" => loopPc \in {"handler", "functor"}
  /\ call[LoopThread] = "wake" => loopPc = "functor"
  /\ functors # <<>> => loopPc \in {"functors", "functor"}

(* Between the swap and the next epoll_wait whatever is pending has been   *)
(* announced; while the loop sleeps so has a quit.                         *)
AnnounceInv ==
  /\ /\ pendingFunctors # <<>>
     /\ loopPc \in {"start", "test", "poll", "functors", "functor"}
     => WakeupDue \/ call[LoopThread] = "wake"
  /\ loopPc = "poll" /\ quit => WakeupDue

(* A functor that has been handed over stays accounted for, and one on its *)
(* way into the vector is nowhere else yet, nor in another thread's hands. *)
Placed == Range(ran) \cup Range(functors) \cup Range(pendingFunctors)

OnceInv ==
  /\ Placed \subseteq sent
  /\ \A t \in Underway : cb[t] \in sent \ Placed
  /\ \A t, u \in Underway : cb[t] = cb[u] => t = u

IInv == TypeOK /\ LockInv /\ PhaseInv /\ AnnounceInv

------------------------------------------------------------------------------
(* The constructor establishes the invariant.                              *)
LEMMA InitIInv == Init => IInv
<1> SUFFICES ASSUME Init PROVE IInv
  OBVIOUS
<1> USE LoopAssumption DEF Init
<1>1. TypeOK
  <2>1. /\ call \in [Threads -> {"idle", "waiting", "locked", "wake"}]
        /\ cb \in [Threads -> Tasks \cup {NoTask}]
    BY Zenon
  <2>2. /\ pendingFunctors \in Seq(Tasks) /\ functors \in Seq(Tasks)
        /\ ran \in Seq(Tasks)
    OBVIOUS
  <2> QED
    BY <2>1, <2>2, Zenon DEF TypeOK, LoopPoints
<1>2. LockInv
  BY DEF LockInv, Underway
<1>3. PhaseInv
  BY DEF PhaseInv, Threads
<1>4. AnnounceInv
  BY DEF AnnounceInv
<1> QED
  BY <1>1, <1>2, <1>3, <1>4 DEF IInv

(* Every step keeps the types.                                             *)
LEMMA TypeStep == TypeOK /\ LockInv /\ [Next]_vars => TypeOK'
<1> SUFFICES ASSUME TypeOK, LockInv, [Next]_vars PROVE TypeOK'
  OBVIOUS
<1> USE DEF TypeOK, LoopPoints
<1>1. ASSUME NEW t \in Threads, NEW task \in Tasks, QueueInLoop(t, task) PROVE TypeOK'
  BY <1>1 DEF QueueInLoop, Moved, loopVars
<1>20. ASSUME NEW t \in Threads, Lock(t) PROVE TypeOK'
  BY <1>20 DEF Lock, loopVars, Threads
<1>2. ASSUME NEW t \in Threads, Emplace(t) PROVE TypeOK'
  BY <1>2 DEF Emplace, loopVars, LockInv, Underway
<1>3. ASSUME NEW t \in Threads, Wakeup(t) PROVE TypeOK'
  BY <1>3 DEF Wakeup, loopVars, Channels
<1>4. ASSUME NEW t \in Threads, Quit(t) PROVE TypeOK'
  BY <1>4 DEF Quit, QuitWakes, loopVars
<1>5. ASSUME NEW task \in Tasks, RunInLoop(task) PROVE TypeOK'
  BY <1>5 DEF RunInLoop, loopVars
<1>6. CASE ConnReady
  BY <1>6 DEF ConnReady, loopVars, Channels
<1>7. CASE EnterLoop \/ TestQuit \/ Poll
  BY <1>7 DEF EnterLoop, TestQuit, Poll, Reported
<1>8. CASE HandleWakeup \/ HandleConn \/ ConnReturn
  BY <1>8 DEF HandleWakeup, HandleConn, ConnReturn
<1>9. CASE BeginPending \/ LockPending \/ SwapPending
  BY <1>9 DEF BeginPending, LockPending, SwapPending, TakePending, Threads
<1>10. CASE RunFunctor
  BY <1>10, HeadTailProperties DEF RunFunctor
<1>11. CASE FunctorReturn \/ EndPending
  BY <1>11 DEF FunctorReturn, EndPending
<1>12. CASE UNCHANGED vars
  BY <1>12 DEF vars
<1> QED
  BY <1>1, <1>2, <1>3, <1>4, <1>5, <1>6, <1>7, <1>8, <1>9, <1>10, <1>11, <1>12, <1>20
  DEF Next, LoopStep, FinishCall

(* Nobody enters a critical section somebody else is in.                   *)
LEMMA LockStep == TypeOK /\ LockInv /\ PhaseInv /\ [Next]_vars => LockInv'
<1> SUFFICES ASSUME TypeOK, LockInv, PhaseInv, [Next]_vars PROVE LockInv'
  OBVIOUS
<1> USE LoopAssumption DEF TypeOK, LockInv, Underway, PhaseInv, Threads, LoopPoints
<1>1. ASSUME NEW t \in Threads, NEW task \in Tasks, QueueInLoop(t, task) PROVE LockInv'
  BY <1>1 DEF QueueInLoop, Moved, CanCall, loopVars
<1>20. ASSUME NEW t \in Threads, Lock(t) PROVE LockInv'
  BY <1>20 DEF Lock, loopVars
<1>2. ASSUME NEW t \in Threads, Emplace(t) PROVE LockInv'
  BY <1>2 DEF Emplace, MustWake, loopVars
<1>3. ASSUME NEW t \in Threads, Wakeup(t) PROVE LockInv'
  BY <1>3 DEF Wakeup, loopVars
<1>4. ASSUME NEW t \in Threads, Quit(t) PROVE LockInv'
  BY <1>4 DEF Quit, QuitWakes, CanCall, loopVars
<1>5. ASSUME NEW task \in Tasks, RunInLoop(task) PROVE LockInv'
  BY <1>5 DEF RunInLoop, loopVars
<1>6. CASE ConnReady
  BY <1>6 DEF ConnReady, loopVars
<1>7. CASE EnterLoop
  BY <1>7 DEF EnterLoop
<1>8. CASE TestQuit
  BY <1>8 DEF TestQuit
<1>9. CASE Poll
  BY <1>9 DEF Poll
<1>10. CASE HandleWakeup
  BY <1>10 DEF HandleWakeup
<1>11. CASE HandleConn
  BY <1>11 DEF HandleConn
<1>12. CASE ConnReturn
  BY <1>12 DEF ConnReturn
<1>13. CASE BeginPending
  BY <1>13 DEF BeginPending
<1>14. CASE LockPending
  BY <1>14 DEF LockPending
<1>15. CASE SwapPending
  BY <1>15 DEF SwapPending, TakePending
<1>16. CASE RunFunctor
  BY <1>16 DEF RunFunctor
<1>17. CASE FunctorReturn
  BY <1>17 DEF FunctorReturn
<1>18. CASE EndPending
  BY <1>18 DEF EndPending
<1>19. CASE UNCHANGED vars
  BY <1>19 DEF vars
<1> QED
  BY <1>1, <1>2, <1>3, <1>4, <1>5, <1>6, <1>7, <1>8, <1>9, <1>10, <1>11, <1>12, <1>13, <1>14, <1>15, <1>16, <1>17, <1>18, <1>19, <1>20
  DEF Next, LoopStep, FinishCall

(* The loop's thread starts and ends what belongs to a phase inside it.     *)
LEMMA PhaseStep == TypeOK /\ PhaseInv /\ [Next]_vars => PhaseInv'
<1> SUFFICES ASSUME TypeOK, PhaseInv, [Next]_vars PROVE PhaseInv'
  OBVIOUS
<1> USE LoopAssumption DEF TypeOK, PhaseInv, Threads, LoopPoints
<1>1. ASSUME NEW t \in Threads, NEW task \in Tasks, QueueInLoop(t, task) PROVE PhaseInv'
  BY <1>1 DEF QueueInLoop, Moved, CanCall, loopVars
<1>20. ASSUME NEW t \in Threads, Lock(t) PROVE PhaseInv'
  BY <1>20 DEF Lock, loopVars
<1>2. ASSUME NEW t \in Threads, Emplace(t) PROVE PhaseInv'
  BY <1>2 DEF Emplace, MustWake, loopVars
<1>3. ASSUME NEW t \in Threads, Wakeup(t) PROVE PhaseInv'
  BY <1>3 DEF Wakeup, loopVars
<1>4. ASSUME NEW t \in Threads, Quit(t) PROVE PhaseInv'
  BY <1>4 DEF Quit, QuitWakes, CanCall, loopVars
<1>5. ASSUME NEW task \in Tasks, RunInLoop(task) PROVE PhaseInv'
  BY <1>5 DEF RunInLoop, loopVars
<1>6. CASE ConnReady
  BY <1>6 DEF ConnReady, loopVars
<1>7. CASE EnterLoop
  BY <1>7 DEF EnterLoop
<1>8. CASE TestQuit
  BY <1>8 DEF TestQuit
<1>9. CASE Poll
  BY <1>9 DEF Poll
<1>10. CASE HandleWakeup
  BY <1>10 DEF HandleWakeup
<1>11. CASE HandleConn
  BY <1>11 DEF HandleConn
<1>12. CASE ConnReturn
  BY <1>12 DEF ConnReturn
<1>13. CASE BeginPending
  BY <1>13 DEF BeginPending
<1>14. CASE LockPending
  BY <1>14 DEF LockPending
<1>15. CASE SwapPending
  BY <1>15 DEF SwapPending, TakePending
<1>16. CASE RunFunctor
  BY <1>16 DEF RunFunctor
<1>17. CASE FunctorReturn
  BY <1>17 DEF FunctorReturn
<1>18. CASE EndPending
  BY <1>18 DEF EndPending
<1>19. CASE UNCHANGED vars
  BY <1>19 DEF vars
<1> QED
  BY <1>1, <1>2, <1>3, <1>4, <1>5, <1>6, <1>7, <1>8, <1>9, <1>10, <1>11, <1>12, <1>13, <1>14, <1>15, <1>16, <1>17, <1>18, <1>19, <1>20
  DEF Next, LoopStep, FinishCall

(* Whoever leaves work behind for a loop about to sleep rings the bell.    *)
LEMMA AnnounceStep == TypeOK /\ PhaseInv /\ AnnounceInv /\ [Next]_vars => AnnounceInv'
<1> SUFFICES ASSUME TypeOK, PhaseInv, AnnounceInv, [Next]_vars PROVE AnnounceInv'
  OBVIOUS
<1> USE LoopAssumption DEF TypeOK, PhaseInv, AnnounceInv, WakeupDue, Threads
<1>1. ASSUME NEW t \in Threads, NEW task \in Tasks, QueueInLoop(t, task) PROVE AnnounceInv'
  BY <1>1 DEF QueueInLoop, Moved, CanCall, loopVars
<1>20. ASSUME NEW t \in Threads, Lock(t) PROVE AnnounceInv'
  BY <1>20 DEF Lock, loopVars
<1>2. ASSUME NEW t \in Threads, Emplace(t) PROVE AnnounceInv'
  BY <1>2 DEF Emplace, MustWake, loopVars
<1>3. ASSUME NEW t \in Threads, Wakeup(t) PROVE AnnounceInv'
  BY <1>3 DEF Wakeup, loopVars
<1>4. ASSUME NEW t \in Threads, Quit(t) PROVE AnnounceInv'
  BY <1>4 DEF Quit, QuitWakes, CanCall, loopVars
<1>5. ASSUME NEW task \in Tasks, RunInLoop(task) PROVE AnnounceInv'
  BY <1>5 DEF RunInLoop, loopVars
<1>6. CASE ConnReady
  BY <1>6 DEF ConnReady, loopVars
<1>7. CASE EnterLoop
  BY <1>7 DEF EnterLoop
<1>8. CASE TestQuit
  BY <1>8 DEF TestQuit
<1>9. CASE Poll
  BY <1>9 DEF Poll
<1>10. CASE HandleWakeup
  BY <1>10 DEF HandleWakeup
<1>11. CASE HandleConn
  BY <1>11 DEF HandleConn
<1>12. CASE ConnReturn
  BY <1>12 DEF ConnReturn
<1>13. CASE BeginPending
  BY <1>13 DEF BeginPending
<1>14. CASE LockPending
  BY <1>14 DEF LockPending
<1>15. CASE SwapPending
  BY <1>15 DEF SwapPending, TakePending
<1>16. CASE RunFunctor
  BY <1>16 DEF RunFunctor
<1>17. CASE FunctorReturn
  BY <1>17 DEF FunctorReturn
<1>18. CASE EndPending
  BY <1>18 DEF EndPending
<1>19. CASE UNCHANGED vars
  BY <1>19 DEF vars
<1> QED
  BY <1>1, <1>2, <1>3, <1>4, <1>5, <1>6, <1>7, <1>8, <1>9, <1>10, <1>11, <1>12, <1>13, <1>14, <1>15, <1>16, <1>17, <1>18, <1>19, <1>20
  DEF Next, LoopStep, FinishCall

LEMMA StepIInv == IInv /\ [Next]_vars => IInv'
  BY TypeStep, LockStep, PhaseStep, AnnounceStep DEF IInv

THEOREM Inductive == Spec => []IInv
  BY InitIInv, StepIInv, PTL DEF Spec

(* The variables of the loop keep their types.                             *)
THEOREM TypeCorrect == Spec => []TypeOK
<1>1. IInv => TypeOK
  BY DEF IInv
<1> QED
  BY <1>1, Inductive, PTL

(* For any number of callers and functors, the loop's thread is never in   *)
(* epoll_wait with a functor pending or a quit to see, unless its eventfd  *)
(* is readable or a caller is on its way to make it so.                    *)
THEOREM NoLostWakeup == Spec => []SleepsOnlyWhenIdle
<1>1. IInv => SleepsOnlyWhenIdle
  BY DEF IInv, AnnounceInv, PhaseInv, SleepsOnlyWhenIdle
<1> QED
  BY <1>1, Inductive, PTL

------------------------------------------------------------------------------
(* No functor is in two places: what is added to a vector or to the        *)
(* history comes from the holder of the mutex, from the head of the batch, *)
(* or was never handed over before.                                        *)
LEMMA OnceStep == IInv /\ OnceInv /\ [Next]_vars => OnceInv'
<1> SUFFICES ASSUME IInv, OnceInv, [Next]_vars PROVE OnceInv'
  OBVIOUS
<1> USE DEF IInv, TypeOK, OnceInv, Placed
<1>1. ASSUME NEW t \in Threads, NEW task \in Tasks, QueueInLoop(t, task) PROVE OnceInv'
  <2>1. /\ task \notin sent /\ sent' = sent \cup {task} /\ Placed' = Placed
        /\ cb' = [cb EXCEPT ![t] = task]
        /\ call' = [call EXCEPT ![t] = "waiting"] /\ call[t] = "idle"
    BY <1>1 DEF QueueInLoop, CanCall, Moved, loopVars
  <2>2. cb'[t] = task /\ \A u \in Threads \ {t} : cb'[u] = cb[u]
    BY <2>1
  <2>3. Underway' = Underway \cup {t} /\ t \notin Underway
    BY <2>1 DEF Underway
  <2>4. \A u \in Underway : u \in Threads \ {t} /\ cb[u] \in sent /\ cb[u] # task
    BY <2>1, <2>3 DEF Underway
  <2>5. (\A u \in Underway : cb[u] \in sent \ Placed)'
    BY <2>1, <2>2, <2>3, <2>4
  <2>6. (\A u, v \in Underway : cb[u] = cb[v] => u = v)'
    BY <2>2, <2>3, <2>4
  <2> QED
    BY <2>1, <2>5, <2>6
<1>14. ASSUME NEW t \in Threads, Lock(t) PROVE OnceInv'
  <2>1. Underway' = Underway
    BY <1>14 DEF Lock, Underway
  <2>2. Placed' = Placed /\ sent' = sent /\ cb' = cb
    BY <1>14 DEF Lock, loopVars
  <2> QED
    BY <2>1, <2>2
<1>2. ASSUME NEW t \in Threads, Emplace(t) PROVE OnceInv'
  <2>1. t \in Underway /\ cb[t] \in Tasks /\ cb[t] \in sent
    BY <1>2 DEF Emplace, LockInv, Underway
  <2>2. Range(pendingFunctors') = Range(pendingFunctors) \cup {cb[t]}
    BY <1>2, <2>1, RangeAppend DEF Emplace
  <2>3. Placed' = Placed \cup {cb[t]} /\ sent' = sent
    BY <1>2, <2>2 DEF Emplace, loopVars
  <2>4. Underway' = Underway \ {t} /\ \A u \in Threads \ {t} : cb'[u] = cb[u]
    BY <1>2 DEF Emplace, MustWake, Underway
  <2>5. \A u \in Underway' : u \in Threads \ {t} /\ u \in Underway /\ cb[u] # cb[t]
    BY <2>1, <2>4 DEF Underway
  <2>6. (\A u \in Underway : cb[u] \in sent \ Placed)'
    BY <2>3, <2>4, <2>5
  <2>7. (\A u, v \in Underway : cb[u] = cb[v] => u = v)'
    BY <2>4, <2>5
  <2> QED
    BY <2>1, <2>3, <2>6, <2>7
<1>3. ASSUME NEW t \in Threads, Wakeup(t) PROVE OnceInv'
  BY <1>3 DEF Wakeup, Underway, loopVars
<1>4. ASSUME NEW t \in Threads, Quit(t) PROVE OnceInv'
  BY <1>4 DEF Quit, CanCall, QuitWakes, Underway, loopVars
<1>5. ASSUME NEW task \in Tasks, RunInLoop(task) PROVE OnceInv'
  <2>1. Range(ran') = Range(ran) \cup {task}
    BY <1>5, RangeAppend DEF RunInLoop
  <2>2. /\ Placed' = Placed \cup {task} /\ sent' = sent \cup {task}
        /\ task \notin sent /\ cb' = cb /\ Underway' = Underway
    BY <1>5, <2>1 DEF RunInLoop, Underway, loopVars
  <2> QED
    BY <2>2
<1>6. CASE ConnReady
  BY <1>6 DEF ConnReady, Underway, loopVars
<1>7. CASE EnterLoop \/ TestQuit \/ Poll
  BY <1>7 DEF EnterLoop, TestQuit, Poll, Underway
<1>8. CASE HandleWakeup \/ HandleConn \/ ConnReturn
  BY <1>8 DEF HandleWakeup, HandleConn, ConnReturn, Underway
<1>9. CASE BeginPending \/ LockPending
  BY <1>9 DEF BeginPending, LockPending, Underway
<1>10. CASE SwapPending
  <2>1. Placed' = Placed
    BY <1>10 DEF SwapPending, TakePending
  <2> QED
    BY <1>10, <2>1 DEF SwapPending, TakePending, Underway
<1>11. CASE RunFunctor
  <2>1. functors # <<>> /\ Head(functors) \in Tasks
    BY <1>11, HeadTailProperties DEF RunFunctor
  <2>2. Range(ran') = Range(ran) \cup {Head(functors)}
    BY <1>11, <2>1, RangeAppend DEF RunFunctor
  <2>3. Range(functors) = {Head(functors)} \cup Range(functors')
    BY <1>11, <2>1, RangeHeadTail DEF RunFunctor
  <2>4. Placed' = Placed
    BY <1>11, <2>2, <2>3 DEF RunFunctor
  <2> QED
    BY <1>11, <2>4 DEF RunFunctor, Underway
<1>12. CASE FunctorReturn \/ EndPending
  BY <1>12 DEF FunctorReturn, EndPending, Underway
<1>13. CASE UNCHANGED vars
  BY <1>13 DEF vars, Underway
<1> QED
  BY <1>1, <1>2, <1>3, <1>4, <1>5, <1>6, <1>7, <1>8, <1>9, <1>10, <1>11, <1>12, <1>13, <1>14
  DEF Next, LoopStep, FinishCall

(* A step of the loop is a step of TaskQueue or changes nothing it sees.   *)
LEMMA StepRefines == IInv /\ OnceInv /\ [Next]_vars => [TQ!Next]_(TQ!vars)
<1> SUFFICES ASSUME IInv, OnceInv, [Next]_vars PROVE [TQ!Next]_(TQ!vars)
  OBVIOUS
<1> USE DEF IInv, TypeOK
<1> DEFINE queue == functors \o pendingFunctors
           Same == UNCHANGED <<queue, ran>>
<1>1. ASSUME NEW t \in Threads, NEW task \in Tasks, QueueInLoop(t, task) PROVE Same
  BY <1>1 DEF QueueInLoop, Moved, loopVars
<1>12. ASSUME NEW t \in Threads, Lock(t) PROVE Same
  BY <1>12 DEF Lock, loopVars
<1>2. ASSUME NEW t \in Threads, Emplace(t) PROVE TQ!Next
  <2>1. cb[t] \in Tasks /\ cb[t] \notin Placed
    BY <1>2 DEF Emplace, LockInv, Underway, OnceInv
  <2>2. functors \o Append(pendingFunctors, cb[t]) = Append(queue, cb[t])
    BY <2>1, ConcatAppend
  <2>3. Range(queue) = Range(functors) \cup Range(pendingFunctors)
    BY RangeConcatenation
  <2>4. cb[t] \notin Range(queue) \cup Range(ran)
    BY <2>1, <2>3 DEF Placed
  <2>5. TQ!Submit(cb[t])
    BY <1>2, <2>2, <2>4 DEF Emplace, loopVars, TQ!Submit, TQ!Fresh, TQ!Range, Range
  <2> QED
    BY <2>1, <2>5 DEF TQ!Next
<1>3. ASSUME NEW t \in Threads, Wakeup(t) \/ Quit(t) PROVE Same
  BY <1>3 DEF Wakeup, Quit, QuitWakes, loopVars
<1>4. ASSUME NEW task \in Tasks, RunInLoop(task) PROVE TQ!Next
  <2>1. task \notin Placed
    BY <1>4 DEF RunInLoop, OnceInv
  <2>2. Range(queue) = Range(functors) \cup Range(pendingFunctors)
    BY RangeConcatenation
  <2>3. task \notin Range(queue) \cup Range(ran)
    BY <2>1, <2>2 DEF Placed
  <2>4. TQ!Inline(task)
    BY <1>4, <2>3 DEF RunInLoop, loopVars, TQ!Inline, TQ!Fresh, TQ!Range, Range
  <2> QED
    BY <2>4 DEF TQ!Next
<1>5. ASSUME ConnReady \/ EnterLoop \/ TestQuit \/ Poll PROVE Same
  BY <1>5 DEF ConnReady, EnterLoop, TestQuit, Poll, loopVars
<1>6. ASSUME HandleWakeup \/ HandleConn \/ ConnReturn PROVE Same
  BY <1>6 DEF HandleWakeup, HandleConn, ConnReturn
<1>7. ASSUME BeginPending \/ LockPending \/ FunctorReturn \/ EndPending PROVE Same
  BY <1>7 DEF BeginPending, LockPending, FunctorReturn, EndPending
<1>8. ASSUME SwapPending PROVE Same
  <2>1. functors = <<>> /\ functors' = pendingFunctors /\ pendingFunctors' = functors
    BY <1>8 DEF SwapPending, TakePending, PhaseInv
  <2>2. <<>> \o pendingFunctors = pendingFunctors /\ pendingFunctors \o <<>> = pendingFunctors
    BY ConcatEmptySeq
  <2> QED
    BY <1>8, <2>1, <2>2 DEF SwapPending, TakePending
<1>9. ASSUME RunFunctor PROVE TQ!Next
  <2>1. functors # <<>>
    BY <1>9 DEF RunFunctor
  <2>2. /\ queue # <<>> /\ Head(queue) = Head(functors)
        /\ Tail(queue) = Tail(functors) \o pendingFunctors
    BY <2>1, HeadTailConcat
  <2>3. TQ!Execute
    BY <1>9, <2>2 DEF RunFunctor, TQ!Execute
  <2> QED
    BY <2>3 DEF TQ!Next
<1>10. ASSUME UNCHANGED vars PROVE Same
  BY <1>10 DEF vars
<1>11. Same => UNCHANGED TQ!vars
  BY DEF TQ!vars
<1> QED
  BY <1>1, <1>2, <1>3, <1>4, <1>5, <1>6, <1>7, <1>8, <1>9, <1>10, <1>11, <1>12
  DEF Next, LoopStep, FinishCall

(* For any number of callers and functors, and whether or not a wakeup     *)
(* aborts the process: queued functors are executed in the order they were *)
(* queued, each at most once (queueInLoop, runInLoop, doPendingFunctors).  *)
THEOREM Refinement == Spec => ImplementsTaskQueue
<1>1. Init => OnceInv
  BY DEF Init, OnceInv, Underway, Placed, Range
<1>2. Init => TQ!Init
  <2>1. <<>> \o <<>> = <<>>
    BY ConcatEmptySeq, EmptySeq
  <2> QED
    BY <2>1 DEF Init, TQ!Init
<1> QED
  BY <1>1, <1>2, InitIInv, StepIInv, OnceStep, StepRefines, PTL
  DEF Spec, TQ!Spec, ImplementsTaskQueue
------------------------------------------------------------------------------
(* EventLoopThread: the owner, and the thread the loop lives on.           *)

(* The child's place decides the latch, the tid and loop_; the owner's     *)
(* place bounds the child's.                                               *)
HandshakeInv ==
  /\ latch = IF childPc \in {"none", "created", "tid"} THEN 1 ELSE 0
  /\ childPc \notin {"none", "created"} => tid
  /\ loopPtr <=> childPc = "loop"
  /\ started <=> childPc # "none"
  /\ ownerPc = "new" => childPc = "none"
  /\ ownerPc \in {"new", "check", "waiting", "gone"} \/ started
  /\ started /\ ownerPc \notin {"new", "latch"} => childPc \notin {"created", "tid"}
  /\ ownerPc \in {"running", "quitting"} => childPc = "loop"

(* The loop is entered once it is published and ends only by a quit, which *)
(* only the destructor calls; and it is not destroyed before it has ended. *)
LifetimeInv ==
  /\ quit => ownerPc \in {"joining", "gone"}
  /\ loopPc = "done" => quit /\ ~looping
  /\ childPc \in {"cleared", "exited"} => loopPc = "done"

TInv == HandshakeInv /\ LifetimeInv

------------------------------------------------------------------------------
(* What a turn of the loop does to the variables TInv speaks of ...        *)
LEMMA LoopStepFacts ==
  LoopStep => /\ loopPc # "done"
              /\ quit' => quit
              /\ loopPc' = "done" => quit' /\ ~looping'
<1> DEFINE Facts == /\ loopPc # "done"
                    /\ quit' => quit
                    /\ loopPc' = "done" => quit' /\ ~looping'
<1>1. ASSUME EnterLoop PROVE Facts
  BY <1>1 DEF EnterLoop
<1>2. ASSUME TestQuit PROVE Facts
  BY <1>2 DEF TestQuit
<1>3. ASSUME Poll \/ HandleWakeup \/ HandleConn \/ ConnReturn PROVE Facts
  BY <1>3 DEF Poll, HandleWakeup, HandleConn, ConnReturn
<1>4. ASSUME BeginPending \/ LockPending \/ SwapPending PROVE Facts
  BY <1>4 DEF BeginPending, LockPending, SwapPending, TakePending
<1>5. ASSUME RunFunctor \/ FunctorReturn \/ EndPending PROVE Facts
  BY <1>5 DEF RunFunctor, FunctorReturn, EndPending
<1> QED
  BY <1>1, <1>2, <1>3, <1>4, <1>5 DEF LoopStep

(* ... and what a call does, finished or not.                              *)
LEMMA CallFacts ==
  ASSUME NEW t
  PROVE  FinishCall(t) \/ TouchDestroyed(t) => UNCHANGED <<loopPc, looping, quit>>
  BY DEF FinishCall, Lock, Emplace, Wakeup, TouchDestroyed, loopVars

LEMMA UseFacts == UseLoop => UNCHANGED <<loopPc, looping, quit>>
  BY DEF UseLoop, QueueInLoop, Moved, RunInLoop, ConnReady, loopVars

LEMMA InitTInv == ThreadInit => TInv
  BY DEF ThreadInit, Init, TInv, HandshakeInv, LifetimeInv

LEMMA StepTInv == TInv /\ [ThreadNext]_allVars => TInv'
<1> SUFFICES ASSUME TInv, [ThreadNext]_allVars PROVE TInv'
  OBVIOUS
<1> USE DEF TInv, HandshakeInv, LifetimeInv
<1>1. CASE StartThread
  BY <1>1 DEF StartThread, vars
<1>2. CASE LatchOpen
  BY <1>2 DEF LatchOpen, vars
<1>3. CASE CheckLoop
  BY <1>3 DEF CheckLoop, LoopKnown, vars
<1>4. CASE SpuriousWakeup
  BY <1>4 DEF SpuriousWakeup, vars
<1>5. CASE SetTid
  BY <1>5 DEF SetTid, vars
<1>6. CASE CountDown
  BY <1>6 DEF CountDown, CountDownAt, vars
<1>7. CASE EnterFunc
  BY <1>7 DEF EnterFunc, vars
<1>8. CASE Publish
  BY <1>8 DEF Publish, Notified, vars
<1>9. CASE ClearPointer
  BY <1>9 DEF ClearPointer, vars
<1>10. CASE ReturnFunc
  BY <1>10 DEF ReturnFunc, loopVars
<1>11. CASE Destroy
  BY <1>11 DEF Destroy, vars
<1>12. CASE QuitLoop
  BY <1>12 DEF QuitLoop, Quit, QuitWakes, loopVars
<1>13. CASE JoinReturns
  BY <1>13 DEF JoinReturns, vars
<1>14. CASE LoopTurn
  BY <1>14, LoopStepFacts DEF LoopTurn, threadVars
<1>15. ASSUME NEW t \in Threads, CallTurn(t) \/ TouchDestroyed(t) PROVE TInv'
  <2>1. UNCHANGED <<loopPc, looping, quit>> /\ UNCHANGED threadVars
    BY <1>15, CallFacts DEF CallTurn, TouchDestroyed
  <2> QED
    BY <2>1 DEF threadVars
<1>16. CASE UseLoop
  BY <1>16, UseFacts DEF UseLoop, threadVars
<1>17. CASE UNCHANGED allVars
  BY <1>17 DEF allVars, threadVars, vars
<1> QED
  BY <1>1, <1>2, <1>3, <1>4, <1>5, <1>6, <1>7, <1>8, <1>9, <1>10, <1>11, <1>12,
     <1>13, <1>14, <1>15, <1>16, <1>17
  DEF ThreadNext, OwnerStep, ChildStep

THEOREM ThreadInductive == ThreadSpec => []TInv
  BY InitTInv, StepTInv, PTL DEF ThreadSpec

(* Whatever the threads do, the address startLoop() returns is that of a   *)
(* live loop until the destructor calls quit().                            *)
THEOREM HandedOutLive == ThreadSpec => []LoopHandedOutLive
<1>1. TInv => LoopHandedOutLive
  BY DEF TInv, HandshakeInv, LifetimeInv, LoopHandedOutLive
<1> QED
  BY <1>1, ThreadInductive, PTL

(* No assertion of Thread, EventLoopThread or ~EventLoop ever fails.       *)
THEOREM AssertionsNeverFail == ThreadSpec => []ThreadAssertions
<1>1. TInv => ThreadAssertions
  BY DEF TInv, HandshakeInv, LifetimeInv, ThreadAssertions
<1> QED
  BY <1>1, ThreadInductive, PTL
------------------------------------------------------------------------------
(* The thread around the loop leaves it what EventLoop promises: whatever  *)
(* it does is a step of EventLoop, or changes nothing there, or belongs to *)
(* the end: ~MutexLock locks for good, and a call on a destroyed loop ends.*)
EndStep == ReturnFunc \/ \E t \in Threads : TouchDestroyed(t)

LEMMA ThreadStep == [ThreadNext]_allVars => [Next]_vars \/ EndStep
<1> SUFFICES ASSUME [ThreadNext]_allVars PROVE [Next]_vars \/ EndStep
  OBVIOUS
<1>1. CASE StartThread \/ SpuriousWakeup \/ Destroy \/ LatchOpen \/ CheckLoop \/ JoinReturns
  BY <1>1 DEF StartThread, SpuriousWakeup, Destroy, LatchOpen, CheckLoop, LoopKnown, JoinReturns
<1>2. CASE ChildStep
  BY <1>2 DEF ChildStep, SetTid, CountDown, CountDownAt, EnterFunc, Publish, Notified,
       ClearPointer, EndStep
<1>3. CASE QuitLoop
  <2>1. Owner \in Threads
    BY OwnerAssumption DEF Threads
  <2> QED
    BY <1>3, <2>1 DEF QuitLoop, Next
<1>4. CASE LoopTurn
  BY <1>4 DEF LoopTurn, Next
<1>5. ASSUME NEW t \in Threads, CallTurn(t) \/ TouchDestroyed(t)
      PROVE  [Next]_vars \/ EndStep
  BY <1>5 DEF CallTurn, Next, EndStep
<1>6. CASE UseLoop
  BY <1>6 DEF UseLoop, Next, Threads
<1>7. CASE UNCHANGED allVars
  BY <1>7 DEF allVars
<1> QED
  BY <1>1, <1>2, <1>3, <1>4, <1>5, <1>6, <1>7 DEF ThreadNext, OwnerStep

(* What an end step changes is the mutex, which then was free, or a call.  *)
LEMMA EndFacts ==
  ASSUME IInv, TInv, EndStep
  PROVE  /\ loopPc = "done"
         /\ UNCHANGED <<loopPc, looping, quit, callingPendingFunctors, pendingFunctors,
                        functors, cb, wakeupFd, ready, active, sent, ran>>
         /\ \/ mutex = NoThread /\ mutex' = LoopThread /\ call' = call
            \/ mutex' = mutex /\ \E t \in Threads : call' = [call EXCEPT ![t] = "idle"]
  BY DEF EndStep, ReturnFunc, TouchDestroyed, loopVars, TInv, LifetimeInv

(* Nobody is in a critical section when ~MutexLock locks, nobody who waits *)
(* gets in any more, and the loop never sleeps again.                      *)
LEMMA EndKeepsIInv == IInv /\ TInv /\ EndStep => IInv'
<1> SUFFICES ASSUME IInv, TInv, EndStep PROVE IInv'
  OBVIOUS
<1>1. /\ loopPc' = "done"
      /\ UNCHANGED <<looping, quit, callingPendingFunctors, pendingFunctors,
                     functors, cb, wakeupFd, ready, active, sent, ran>>
      /\ loopPc = "done"
  BY EndFacts
<1>2. \/ mutex = NoThread /\ mutex' = LoopThread /\ call' = call
      \/ mutex' = mutex /\ \E t \in Threads : call' = [call EXCEPT ![t] = "idle"]
  BY EndFacts
<1>3. TypeOK'
  BY <1>1, <1>2 DEF IInv, TypeOK, LoopPoints, Threads
<1>4. LockInv'
  BY <1>1, <1>2, LoopAssumption DEF IInv, TypeOK, LockInv, Underway
<1>5. PhaseInv'
  BY <1>1, <1>2, LoopAssumption DEF IInv, TypeOK, PhaseInv, Threads
<1>6. AnnounceInv'
  BY <1>1 DEF AnnounceInv
<1> QED
  BY <1>3, <1>4, <1>5, <1>6 DEF IInv

LEMMA StepLoopIInv == IInv /\ TInv /\ [ThreadNext]_allVars => IInv'
  BY ThreadStep, StepIInv, EndKeepsIInv

(* The places and flags of the owner and of the thread.                    *)
OwnTypes ==
  /\ ownerPc \in OwnerPoints
  /\ childPc \in ChildPoints
  /\ started \in BOOLEAN
  /\ tid \in BOOLEAN
  /\ latch \in 0..1
  /\ loopPtr \in BOOLEAN

LEMMA StepOwnTypes == OwnTypes /\ TInv /\ TInv' /\ [ThreadNext]_allVars => OwnTypes'
<1> SUFFICES ASSUME OwnTypes, TInv, TInv', [ThreadNext]_allVars PROVE OwnTypes'
  OBVIOUS
<1>1. latch' \in 0..1
  BY DEF TInv, HandshakeInv
<1> USE DEF OwnTypes, OwnerPoints, ChildPoints
<1>2. CASE StartThread \/ SpuriousWakeup \/ Destroy
  BY <1>2 DEF StartThread, SpuriousWakeup, Destroy
<1>3. CASE OwnerStep
  BY <1>3 DEF OwnerStep, LatchOpen, CheckLoop, LoopKnown, QuitLoop, JoinReturns
<1>4. CASE ChildStep
  BY <1>1, <1>4 DEF ChildStep, SetTid, CountDown, CountDownAt, EnterFunc, Publish, Notified,
       ClearPointer, ReturnFunc
<1>5. CASE \/ LoopTurn \/ UseLoop \/ UNCHANGED allVars
           \/ \E t \in Threads : CallTurn(t) \/ TouchDestroyed(t)
  <2>1. UNCHANGED threadVars
    BY <1>5 DEF LoopTurn, UseLoop, CallTurn, TouchDestroyed, allVars
  <2> QED
    BY <2>1 DEF threadVars
<1> QED
  BY <1>2, <1>3, <1>4, <1>5 DEF ThreadNext

THEOREM LoopInductive == ThreadSpec => [](IInv /\ OwnTypes)
<1>1. ThreadInit => IInv /\ OwnTypes
  <2>1. ThreadInit => IInv
    BY InitIInv DEF ThreadInit
  <2>2. ASSUME ThreadInit PROVE latch \in 0..1
    BY <2>2 DEF ThreadInit
  <2>3. ASSUME ThreadInit
        PROVE  started \in BOOLEAN /\ tid \in BOOLEAN /\ loopPtr \in BOOLEAN
    BY <2>3, Zenon DEF ThreadInit
  <2>4. ASSUME ThreadInit PROVE ownerPc \in OwnerPoints /\ childPc \in ChildPoints
    BY <2>4 DEF ThreadInit, OwnerPoints, ChildPoints
  <2> QED
    BY <2>1, <2>2, <2>3, <2>4 DEF OwnTypes
<1> QED
  BY <1>1, StepLoopIInv, StepOwnTypes, ThreadInductive, PTL DEF ThreadSpec

(* The variables of the thread and of its loop keep their types.           *)
THEOREM ThreadTypeCorrect == ThreadSpec => []ThreadTypeOK
<1>1. IInv /\ OwnTypes => ThreadTypeOK
  BY DEF IInv, OwnTypes, ThreadTypeOK
<1> QED
  BY <1>1, LoopInductive, PTL

(* A loop that is started, handed out, told to quit and destroyed under    *)
(* its callers' hands still never sleeps on a functor or on a quit.        *)
THEOREM SleepsWellInThread == ThreadSpec => []SleepsOnlyWhenIdle
<1>1. IInv => SleepsOnlyWhenIdle
  BY DEF IInv, AnnounceInv, PhaseInv, SleepsOnlyWhenIdle
<1> QED
  BY <1>1, LoopInductive, PTL

(* And it still executes what is queued in order and at most once; what is *)
(* queued after its end stays in the queue.                                *)
THEOREM ThreadRefinement == ThreadSpec => ImplementsTaskQueue
<1>1. ThreadInit => OnceInv
  BY DEF ThreadInit, Init, OnceInv, Underway, Placed, Range
<1>2. ThreadInit => TQ!Init
  <2>1. <<>> \o <<>> = <<>>
    BY ConcatEmptySeq, EmptySeq
  <2> QED
    BY <2>1 DEF ThreadInit, Init, TQ!Init
<1>3. ASSUME IInv, TInv, OnceInv, [ThreadNext]_allVars
      PROVE  OnceInv' /\ [TQ!Next]_(TQ!vars)
  <2>1. CASE [Next]_vars
    BY <1>3, <2>1, OnceStep, StepRefines
  <2>2. CASE EndStep
    <3>1. UNCHANGED <<functors, pendingFunctors, ran, sent, cb>>
      BY <1>3, <2>2, EndFacts
    <3>2. call' = call \/ \E t \in Threads : call' = [call EXCEPT ![t] = "idle"]
      BY <1>3, <2>2, EndFacts
    <3>3. Underway' \subseteq Underway
      BY <1>3, <3>2 DEF IInv, TypeOK, Underway
    <3>4. OnceInv'
      BY <1>3, <3>1, <3>3 DEF OnceInv, Placed
    <3>5. UNCHANGED TQ!vars
      BY <3>1 DEF TQ!vars
    <3> QED
      BY <3>4, <3>5
  <2> QED
    BY <1>3, <2>1, <2>2, ThreadStep
<1> QED
  BY <1>1, <1>2, <1>3, LoopInductive, ThreadInductive, PTL DEF ThreadSpec, TQ!Spec, ImplementsTaskQueue
------------------------------------------------------------------------------
(* The quit() of the destructor has come and gone before loop() was, which *)
(* has not seen it; nobody else will call it.                              *)
Forgotten == ownerPc = "joining" /\ loopPc # "start" /\ ~quit

LEMMA ForgottenStays == TInv /\ Forgotten /\ [ThreadNext]_allVars => Forgotten'
<1> SUFFICES ASSUME TInv, Forgotten, [ThreadNext]_allVars PROVE Forgotten'
  OBVIOUS
<1>1. childPc \notin {"cleared", "exited"} /\ started /\ childPc # "none"
  BY DEF TInv, LifetimeInv, HandshakeInv, Forgotten
<1> USE DEF Forgotten
<1>2. CASE LoopTurn
  <2>1. loopPc' # "start"
    BY <1>2 DEF LoopTurn, LoopStep, EnterLoop, TestQuit, Poll, HandleWakeup, HandleConn,
         ConnReturn, BeginPending, LockPending, SwapPending, TakePending, RunFunctor,
         FunctorReturn, EndPending
  <2> QED
    BY <1>2, <2>1, LoopStepFacts DEF LoopTurn, threadVars
<1>3. CASE StartThread \/ SpuriousWakeup \/ Destroy \/ OwnerStep
  BY <1>1, <1>3 DEF StartThread, SpuriousWakeup, Destroy, OwnerStep, LatchOpen, CheckLoop,
       QuitLoop, JoinReturns
<1>4. CASE ChildStep
  BY <1>4 DEF ChildStep, SetTid, CountDown, CountDownAt, EnterFunc, Publish, Notified,
       ClearPointer, ReturnFunc, vars
<1>5. ASSUME NEW t \in Threads, CallTurn(t) \/ TouchDestroyed(t) PROVE Forgotten'
  BY <1>5, CallFacts DEF CallTurn, TouchDestroyed, threadVars
<1>6. CASE UseLoop
  BY <1>6, UseFacts DEF UseLoop, threadVars
<1>7. CASE UNCHANGED allVars
  BY <1>7 DEF allVars, threadVars, vars
<1> QED
  BY <1>2, <1>3, <1>4, <1>5, <1>6, <1>7 DEF ThreadNext

(* A quit() that loop() forgets is never made good: ~EventLoopThread stays *)
(* in its join for ever, under any schedule.                               *)
THEOREM ForgottenForGood == ThreadSpec => ForgottenQuitHangs
<1>1. Forgotten => ownerPc = "joining"
  BY DEF Forgotten
<1>2. ThreadSpec => [](Forgotten => []Forgotten)
  BY ForgottenStays, ThreadInductive, PTL DEF ThreadSpec
<1>3. ThreadSpec => [](Forgotten => [](ownerPc = "joining"))
  BY <1>1, <1>2, PTL
<1> QED
  BY <1>3, PTL DEF ForgottenQuitHangs, Forgotten
==============================================================================
