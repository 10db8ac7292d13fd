--------------------------- MODULE EventLoopThread ---------------------------
(***************************************************************************)
(* net/EventLoopThread.cpp on top of base/Thread.cpp, base/CountDownLatch  *)
(* and EventLoop: an owner starts a thread, the thread runs an EventLoop   *)
(* that lives on its stack, the owner hands the loop's address out and, in *)
(* the destructor, makes the loop quit and joins the thread.               *)
(*                                                                         *)
(* The loop, its callers and their interleavings are those of EventLoop;   *)
(* its steps are possible here while the loop's object exists.  Owner is   *)
(* one of the Callers: its quit() comes from the destructor.  The others   *)
(* queue functors once they have been given the address, and nobody takes  *)
(* it back: their calls may begin, wait or go on after loop() has returned *)
(* and after the loop's stack frame is gone.                               *)
(*                                                                         *)
(* CountDownLatch::wait tests its count under the mutex countDown() holds, *)
(* in a loop, and countDown() broadcasts, so wait() is a guard.  loop_ is  *)
(* waited for with a signal and a test that are kept apart.                *)
(***************************************************************************)
EXTENDS EventLoop

CONSTANT Owner

ASSUME OwnerAssumption == Owner \in Callers

VARIABLES
  ownerPc,   \* where the owner is in startLoop() or the destructor
  childPc,   \* where the thread is in runInThread() and threadFunc()
  started,   \* Thread::started_
  tid,       \* Thread::tid_ has been written
  latch,     \* Thread::latch_'s count
  loopPtr    \* loop_ # NULL

threadVars == <<ownerPc, childPc, started, tid, latch, loopPtr>>
allVars == <<vars, threadVars>>

(* "new"      before startLoop              "latch"   in Thread::start     *)
(* "check"    before "while (loop_ == NULL)"  "waiting"  in cond_.wait()   *)
(* "running"  startLoop has returned        "quitting" before loop_->quit()*)
(* "joining"  in or after quit(), and join   "gone"     destroyed          *)
OwnerPoints ==
  {"new", "latch", "check", "waiting", "running", "quitting", "joining", "gone"}

(* "none"     no thread                     "created"  before *tid_ = ...  *)
(* "tid"      before countDown()            "counted"  before func_()      *)
(* "built"    the EventLoop is constructed  "loop"     loop_ is published  *)
(* "cleared"  loop_ is NULL again           "exited"   the thread is over  *)
ChildPoints ==
  {"none", "created", "tid", "counted", "built", "loop", "cleared", "exited"}

ThreadTypeOK ==
  /\ TypeOK
  /\ ownerPc \in OwnerPoints
  /\ childPc \in ChildPoints
  /\ started \in BOOLEAN
  /\ tid \in BOOLEAN
  /\ latch \in 0..1
  /\ loopPtr \in BOOLEAN

ThreadInit ==
  /\ Init
  /\ ownerPc = "new"
  /\ childPc = "none"
  /\ started = FALSE
  /\ tid = FALSE
  /\ latch = 1
  /\ loopPtr = FALSE

------------------------------------------------------------------------------
(* startLoop(), on the owner's thread.                                     *)

(* Thread::start up to its wait.  If pthread_create fails, started_ goes   *)
(* back to false and start() returns without a word.                       *)
StartThread ==
  /\ ownerPc = "new"
  /\ \/ ownerPc' = "latch" /\ started' = TRUE /\ childPc' = "created"
     \/ ownerPc' = "check" /\ UNCHANGED <<started, childPc>>
  /\ UNCHANGED <<vars, tid, latch, loopPtr>>

(* latch_.wait() is over; assert(tid_ > 0).                                *)
LatchOpen ==
  /\ ownerPc = "latch"
  /\ latch = 0
  /\ ownerPc' = "check"
  /\ UNCHANGED <<vars, childPc, started, tid, latch, loopPtr>>

(* while (loop_ == NULL) cond_.wait();  A faulty version waits once.       *)
NoQuestion == TRUE
LoopKnown == loopPtr

CheckLoop ==
  /\ ownerPc = "check"
  /\ ownerPc' = IF LoopKnown THEN "running" ELSE "waiting"
  /\ UNCHANGED <<vars, childPc, started, tid, latch, loopPtr>>

(* pthread_cond_wait may return without a signal.                          *)
SpuriousWakeup ==
  /\ ownerPc = "waiting"
  /\ ownerPc' = "check"
  /\ UNCHANGED <<vars, childPc, started, tid, latch, loopPtr>>

------------------------------------------------------------------------------
(* The new thread: ThreadData::runInThread around threadFunc().            *)

SetTid ==
  /\ childPc = "created"
  /\ childPc' = "tid"
  /\ tid' = TRUE
  /\ UNCHANGED <<vars, ownerPc, started, latch, loopPtr>>

(* latch_->countDown(), or, in faulty versions, before the tid is written  *)
(* or twice.                                                               *)
CountDownAt(places, n) ==
  /\ childPc \in places
  /\ childPc' = "counted"
  /\ latch' = latch - n
  /\ UNCHANGED <<vars, ownerPc, started, tid, loopPtr>>

CountDownFirst == CountDownAt({"created", "tid"}, 1)
CountDownTwice == CountDownAt({"tid"}, 2)
CountDown == CountDownAt({"tid"}, 1)

(* func_(): EventLoop loop;                                                *)
EnterFunc ==
  /\ childPc = "counted"
  /\ childPc' = "built"
  /\ UNCHANGED <<vars, ownerPc, started, tid, latch, loopPtr>>

(* loop_ = &loop; cond_.notify();  A faulty version notifies nobody.       *)
NotNotified(pc) == pc
Notified(pc) == IF pc = "waiting" THEN "check" ELSE pc

Publish ==
  /\ childPc = "built"
  /\ childPc' = "loop"
  /\ loopPtr' = TRUE
  /\ ownerPc' = Notified(ownerPc)
  /\ UNCHANGED <<vars, started, tid, latch>>

(* loop() has returned: loop_ = NULL, without the mutex.                   *)
ClearPointer ==
  /\ childPc = "loop"
  /\ loopPc = "done"
  /\ childPc' = "cleared"
  /\ loopPtr' = FALSE
  /\ UNCHANGED <<vars, ownerPc, started, tid, latch>>

(* A faulty end: the loop's mutex is destroyed under its holder.           *)
ReturnAtOnce ==
  /\ childPc = "cleared"
  /\ childPc' = "exited"
  /\ UNCHANGED <<vars, ownerPc, started, tid, latch, loopPtr>>

(* The end of threadFunc() destroys the loop, and the thread is over.      *)
(* ~MutexLock locks the mutex before it destroys it, and so waits for      *)
(* whoever is in a critical section of the loop; it never unlocks it.      *)
ReturnFunc ==
  /\ childPc = "cleared"
  /\ mutex = NoThread
  /\ mutex' = LoopThread
  /\ childPc' = "exited"
  /\ UNCHANGED <<loopPc, quit, pendingFunctors, cb, call, wakeupFd, ready, sent, ran>>
  /\ UNCHANGED <<loopVars, ownerPc, started, tid, latch, loopPtr>>

------------------------------------------------------------------------------
(* The destructor, before startLoop() or after it.                         *)
Destroy ==
  /\ ownerPc \in {"new", "running"}
  /\ ownerPc' = IF loopPtr THEN "quitting" ELSE "gone"
  /\ UNCHANGED <<vars, childPc, started, tid, latch, loopPtr>>

QuitLoop ==
  /\ ownerPc = "quitting"
  /\ Quit(Owner)
  /\ ownerPc' = "joining"
  /\ UNCHANGED <<childPc, started, tid, latch, loopPtr>>

(* A faulty join: the thread is detached and left to itself.               *)
DetachInstead ==
  /\ ownerPc = "joining"
  /\ call[Owner] = "idle"
  /\ ownerPc' = "gone"
  /\ UNCHANGED <<vars, childPc, started, tid, latch, loopPtr>>

(* thread_.join() returns when the thread has ended.                       *)
JoinReturns ==
  /\ ownerPc = "joining"
  /\ call[Owner] = "idle"
  /\ childPc = "exited"
  /\ ownerPc' = "gone"
  /\ UNCHANGED <<vars, childPc, started, tid, latch, loopPtr>>

------------------------------------------------------------------------------
(* What EventLoop lets the threads do with the loop.                       *)
LoopExists == childPc \in {"built", "loop", "cleared"}

LoopTurn == childPc = "loop" /\ LoopStep /\ UNCHANGED threadVars

(* Begun calls go on while there is a loop.                                *)
CallTurn(t) ==
  /\ LoopExists
  /\ FinishCall(t)
  /\ UNCHANGED threadVars

(* A call that finds its loop destroyed works on what is left of a dead    *)
(* stack frame.  What that does is undefined.  Followed here are the       *)
(* outcomes that nobody else notices: such a call comes to an end, or, if  *)
(* it is still to take mutex_ or to give it back, it may stay where it is. *)
TouchDestroyed(t) ==
  /\ childPc = "exited"
  /\ call[t] # "idle"
  /\ call' = [call EXCEPT ![t] = "idle"]
  /\ UNCHANGED <<loopPc, quit, pendingFunctors, mutex, cb, wakeupFd, ready, sent, ran>>
  /\ UNCHANGED <<loopVars, threadVars>>

(* startLoop() has returned the address.                                   *)
HandedOut ==
  childPc # "none" /\ ownerPc \in {"running", "quitting", "joining", "gone"}

(* Other threads begin a call whenever they like once they hold the        *)
(* address; the loop's own thread, and the kernel, while there is a loop.  *)
UseLoop ==
  /\ \/ HandedOut /\ \E t \in Callers \ {Owner}, task \in Tasks : QueueInLoop(t, task)
     \/ LoopExists /\ \E task \in Tasks : QueueInLoop(LoopThread, task) \/ RunInLoop(task)
     \/ LoopExists /\ ConnReady
  /\ UNCHANGED threadVars

OwnerStep == LatchOpen \/ CheckLoop \/ QuitLoop \/ JoinReturns
ChildStep == SetTid \/ CountDown \/ EnterFunc \/ Publish \/ ClearPointer \/ ReturnFunc

ThreadNext ==
  \/ StartThread \/ SpuriousWakeup \/ Destroy
  \/ OwnerStep \/ ChildStep
  \/ LoopTurn
  \/ \E t \in Threads : CallTurn(t) \/ TouchDestroyed(t)
  \/ UseLoop

ThreadSpec == ThreadInit /\ [][ThreadNext]_allVars

(* Every thread that can run is run in the end, the wakeup() of a call on  *)
(* a destroyed loop included; nobody need start, use or destroy anything,  *)
(* no wait need end spuriously, and mutex_ is not given out in turn.       *)
ThreadFairSpec ==
  /\ ThreadSpec
  /\ WF_allVars(OwnerStep)
  /\ WF_allVars(ChildStep)
  /\ WF_allVars(LoopTurn)
  /\ \A t \in Threads :
        WF_allVars(CallTurn(t) \/ (call[t] = "wake" /\ TouchDestroyed(t)))

------------------------------------------------------------------------------
(* Properties.                                                             *)

(* CountDownLatch.h:11-13 says the latch makes start() return only after   *)
(* the function passed to the Thread has really been started.              *)
StartWaitsForFunc ==
  started /\ ownerPc \notin {"new", "latch"} =>
    childPc \notin {"created", "tid", "counted"}

(* The assertions of Thread::start, Thread::join and ~EventLoop hold: the  *)
(* tid is known when the latch opens, only a started thread is joined, and *)
(* no loop is destroyed in the middle of loop().                           *)
ThreadAssertions ==
  /\ started /\ ownerPc \notin {"new", "latch"} => tid
  /\ ownerPc = "joining" => started
  /\ childPc \in {"cleared", "exited"} => ~looping

(* The address startLoop() returns is that of a live loop, which runs or   *)
(* is about to, until the destructor calls quit() (startLoop, threadFunc). *)
LoopHandedOutLive ==
  ownerPc \in {"running", "quitting"} => childPc = "loop" /\ loopPtr /\ loopPc # "done"

(* If the thread comes into being, startLoop() returns.                    *)
StartLoopReturns == childPc = "created" ~> ownerPc = "running"

(* The destructor returns if loop() has been entered before it calls quit. *)
DestroyReturns == (ownerPc = "quitting" /\ loopPc # "start") ~> ownerPc = "gone"

(* Whatever becomes of the loop, every call on it comes to an end, but for *)
(* one that waits for the mutex and finds the loop destroyed, ~MutexLock   *)
(* having locked for good, or that the loop's own thread gets ahead of at  *)
(* turn after turn, for ever (queueInLoop, quit, threadFunc, ~MutexLock).  *)
CallsReturn ==
  \A t \in Threads :
    \/ []<>(call[t] = "idle")
    \/ /\ <>[](call[t] = "waiting")
       /\ <>[](childPc = "exited") \/ []<>(loopPc = "swapping")

(* A quit() that comes before loop()'s "quit_ = false" is forgotten, and   *)
(* the destructor never returns from its join.                             *)
ForgottenQuitHangs ==
  [](ownerPc = "joining" /\ loopPc # "start" /\ ~quit => [](ownerPc = "joining"))
==============================================================================
