------------------------------ MODULE EventLoop ------------------------------
(***************************************************************************)
(* net/EventLoop.{h,cpp}, with the part of net/Epoll.cpp and net/Channel.h *)
(* that the loop runs on every turn.                                       *)
(*                                                                         *)
(* One thread runs loop(): it sleeps in epoll_wait, handles the channels   *)
(* that are ready, then runs the functors other threads (or its own        *)
(* handlers and functors) have queued.  Foreign threads call queueInLoop,  *)
(* runInLoop and quit, and wake the loop through an eventfd that epoll     *)
(* watches edge-triggered.                                                 *)
(*                                                                         *)
(* Channel::handleEvent ends with a call of connHandler_, set or not; a    *)
(* call of an empty std::function throws, nothing on the loop's stack      *)
(* catches it, and the process is aborted.  EventLoop's constructor sets   *)
(* no connHandler_ on the wakeup channel.  ConnHandlers makes the question *)
(* a parameter: {"conn"} is the code as it stands, {"wakeup", "conn"} the  *)
(* code with the missing setConnHandler call.                              *)
(***************************************************************************)
EXTENDS Naturals, Sequences, Functions

CONSTANTS
  LoopThread,    \* the thread that constructs the loop and runs loop()
  Callers,       \* the other threads that hold a pointer to the loop
  Tasks,         \* the functors that may ever be handed to the loop
  NoThread,      \* "the mutex is free"
  NoTask,        \* "the thread is not handing over a functor"
  ConnHandlers   \* the channels whose connHandler_ has been set

Threads == Callers \cup {LoopThread}

(* The wakeup channel, and one channel that stands for every descriptor    *)
(* whose handlers are user code (Server and HttpData set all of theirs).   *)
Channels == {"wakeup", "conn"}

ASSUME LoopAssumption ==
  /\ LoopThread \notin Callers
  /\ NoThread \notin Threads
  /\ NoTask \notin Tasks
  /\ ConnHandlers \subseteq Channels

VARIABLES
  loopPc,        \* where the loop's thread is in loop()
  looping,       \* looping_
  quit,          \* quit_
  callingPendingFunctors,  \* callingPendingFunctors_
  pendingFunctors,         \* pendingFunctors_
  functors,      \* doPendingFunctors()'s local vector, what is left to run
  mutex,         \* who holds mutex_
  cb,            \* cb[t]: the functor thread t is about to emplace
  call,          \* call[t]: where thread t is in queueInLoop() or quit()
  wakeupFd,      \* the eventfd's counter is not zero
  ready,         \* channels on epoll's ready list
  active,        \* activeChannels, what is left to handle
  sent,          \* functors that have been handed over (each is moved once)
  ran            \* history: the functors executed, in order

loopVars == <<looping, callingPendingFunctors, functors, active>>
vars == <<loopPc, looping, quit, callingPendingFunctors, pendingFunctors,
          functors, mutex, cb, call, wakeupFd, ready, active, sent, ran>>

LoopPoints == {"start", "test", "poll", "events", "handler", "swap",
               "swapping", "functors", "functor", "done", "aborted"}

TypeOK ==
  /\ loopPc \in LoopPoints
  /\ looping \in BOOLEAN
  /\ quit \in BOOLEAN
  /\ callingPendingFunctors \in BOOLEAN
  /\ pendingFunctors \in Seq(Tasks)
  /\ functors \in Seq(Tasks)
  /\ mutex \in Threads \cup {NoThread}
  /\ cb \in [Threads -> Tasks \cup {NoTask}]
  /\ call \in [Threads -> {"idle", "waiting", "locked", "wake"}]
  /\ wakeupFd \in BOOLEAN
  /\ ready \subseteq Channels
  /\ active \subseteq Channels
  /\ sent \subseteq Tasks
  /\ ran \in Seq(Tasks)

(* The constructor, which also registers the wakeup channel with epoll.    *)
Init ==
  /\ loopPc = "start"
  /\ looping = FALSE
  /\ quit = FALSE
  /\ callingPendingFunctors = FALSE
  /\ pendingFunctors = <<>>
  /\ functors = <<>>
  /\ mutex = NoThread
  /\ cb = [t \in Threads |-> NoTask]
  /\ call = [t \in Threads |-> "idle"]
  /\ wakeupFd = FALSE
  /\ ready = {}
  /\ active = {}
  /\ sent = {}
  /\ ran = <<>>

------------------------------------------------------------------------------
(* The operations: queueInLoop, runInLoop, wakeup, quit.                   *)

Alive == loopPc # "aborted"

(* Who may call: a foreign thread at any time between two calls, the       *)
(* loop's own thread from inside a handler or a functor.                   *)
CanCall(t) ==
  /\ Alive
  /\ call[t] = "idle"
  /\ t = LoopThread => loopPc \in {"handler", "functor"}

(* What ends up in the vector is the functor the caller passed in; a       *)
(* faulty version finds it moved from already.                             *)
MovedFrom(task) == NoTask
Moved(task) == task

(* queueInLoop begins: the caller is on its way to mutex_ ...              *)
QueueInLoop(t, task) ==
  /\ CanCall(t)
  /\ task \notin sent
  /\ cb' = [cb EXCEPT ![t] = Moved(task)]
  /\ sent' = sent \cup {task}
  /\ call' = [call EXCEPT ![t] = "waiting"]
  /\ UNCHANGED <<loopPc, quit, pendingFunctors, mutex, wakeupFd, ready, ran>>
  /\ UNCHANGED loopVars

(* ... and gets it.                                                        *)
Lock(t) ==
  /\ Alive
  /\ call[t] = "waiting"
  /\ mutex = NoThread
  /\ mutex' = t
  /\ call' = [call EXCEPT ![t] = "locked"]
  /\ UNCHANGED <<loopPc, quit, pendingFunctors, cb, wakeupFd, ready, sent, ran>>
  /\ UNCHANGED loopVars

(* Faulty conditions: a functor queued by a functor is not announced, and  *)
(* one from another thread is only announced to a busy loop.               *)
MustWakeForeign(t) == t # LoopThread
MustWakeBusy(t) == t # LoopThread /\ callingPendingFunctors

(* "if (!isInLoopThread() || callingPendingFunctors_) wakeup();"           *)
MustWake(t) == t # LoopThread \/ callingPendingFunctors

(* The rest of queueInLoop: emplace_back, release mutex_, and decide on    *)
(* wakeup().  The flag is read after the release, but only by the thread   *)
(* that writes it, so nothing can come between.                            *)
Emplace(t) ==
  /\ Alive
  /\ call[t] = "locked"
  /\ pendingFunctors' = Append(pendingFunctors, cb[t])
  /\ cb' = [cb EXCEPT ![t] = NoTask]
  /\ mutex' = NoThread
  /\ call' = [call EXCEPT ![t] = IF MustWake(t) THEN "wake" ELSE "idle"]
  /\ UNCHANGED <<loopPc, quit, wakeupFd, ready, sent, ran>>
  /\ UNCHANGED loopVars

(* wakeup(): the write makes the counter positive and is an edge, so the   *)
(* kernel puts the wakeup channel on the ready list.                       *)
Wakeup(t) ==
  /\ Alive
  /\ call[t] = "wake"
  /\ wakeupFd' = TRUE
  /\ ready' = ready \cup {"wakeup"}
  /\ call' = [call EXCEPT ![t] = "idle"]
  /\ UNCHANGED <<loopPc, quit, pendingFunctors, mutex, cb, sent, ran>>
  /\ UNCHANGED loopVars

(* runInLoop on the loop's own thread executes the functor on the spot; on *)
(* any other thread it is queueInLoop.                                     *)
RunInLoop(task) ==
  /\ CanCall(LoopThread)
  /\ task \notin sent
  /\ sent' = sent \cup {task}
  /\ ran' = Append(ran, task)
  /\ UNCHANGED <<loopPc, quit, pendingFunctors, mutex, cb, call, wakeupFd, ready>>
  /\ UNCHANGED loopVars

(* quit_ = true, and a wakeup() from any thread but the loop's own (from   *)
(* none at all in a faulty version).                                       *)
QuitWakesNobody(t) == FALSE
QuitWakes(t) == t # LoopThread

Quit(t) ==
  /\ CanCall(t)
  /\ quit' = TRUE
  /\ call' = [call EXCEPT ![t] = IF QuitWakes(t) THEN "wake" ELSE "idle"]
  /\ UNCHANGED <<loopPc, pendingFunctors, mutex, cb, wakeupFd, ready, sent, ran>>
  /\ UNCHANGED loopVars

(* A descriptor becomes readable or writable (external).                   *)
ConnReady ==
  /\ Alive
  /\ ready' = ready \cup {"conn"}
  /\ UNCHANGED <<loopPc, quit, pendingFunctors, mutex, cb, call, wakeupFd, sent, ran>>
  /\ UNCHANGED loopVars

------------------------------------------------------------------------------
(* loop(), one action per stretch the other threads can come between.      *)

(* assert(!looping_); looping_ = true; quit_ = false.  A quit() that came  *)
(* earlier is forgotten here.                                              *)
EnterLoop ==
  /\ loopPc = "start"
  /\ loopPc' = "test"
  /\ looping' = TRUE
  /\ quit' = FALSE
  /\ UNCHANGED <<callingPendingFunctors, pendingFunctors, functors, mutex, cb,
                 call, wakeupFd, ready, active, sent, ran>>

(* while (!quit_)                                                          *)
TestQuit ==
  /\ loopPc = "test"
  /\ loopPc' = IF quit THEN "done" ELSE "poll"
  /\ looping' = ~quit
  /\ UNCHANGED <<quit, callingPendingFunctors, pendingFunctors, functors, mutex,
                 cb, call, wakeupFd, ready, active, sent, ran>>

(* What epoll_wait reports: a listed eventfd only if its counter is        *)
(* positive by now.                                                        *)
Reported == {c \in ready : c = "wakeup" => wakeupFd}

(* Epoll::poll returns only with a channel to handle: a timeout, EINTR and *)
(* an empty report go back to epoll_wait.  Being edge-triggered, what is   *)
(* reported leaves the ready list.                                         *)
Poll ==
  /\ loopPc = "poll"
  /\ Reported # {}
  /\ loopPc' = "events"
  /\ active' = Reported
  /\ ready' = {}
  /\ UNCHANGED <<looping, quit, callingPendingFunctors, pendingFunctors, functors,
                 mutex, cb, call, wakeupFd, sent, ran>>

(* handleEvent of the wakeup channel: handleRead drains the eventfd, then  *)
(* connHandler_().                                                         *)
HandleWakeup ==
  /\ loopPc = "events"
  /\ "wakeup" \in active
  /\ wakeupFd' = FALSE
  /\ active' = active \ {"wakeup"}
  /\ loopPc' = IF "wakeup" \in ConnHandlers THEN "events" ELSE "aborted"
  /\ UNCHANGED <<looping, quit, callingPendingFunctors, pendingFunctors, functors,
                 mutex, cb, call, ready, sent, ran>>

(* handleEvent of another channel: user code runs, then connHandler_();    *)
(* but a mere EPOLLHUP is not handled at all.                              *)
HandleConn ==
  /\ loopPc = "events"
  /\ "conn" \in active
  /\ active' = active \ {"conn"}
  /\ loopPc' \in {"handler", "events"}
  /\ UNCHANGED <<looping, quit, callingPendingFunctors, pendingFunctors, functors,
                 mutex, cb, call, wakeupFd, ready, sent, ran>>

ConnReturn ==
  /\ loopPc = "handler"
  /\ call[LoopThread] = "idle"
  /\ loopPc' = IF "conn" \in ConnHandlers THEN "events" ELSE "aborted"
  /\ UNCHANGED <<looping, quit, callingPendingFunctors, pendingFunctors, functors,
                 mutex, cb, call, wakeupFd, ready, active, sent, ran>>

(* The channels are done: doPendingFunctors sets its flag ...              *)
BeginPending ==
  /\ loopPc = "events"
  /\ active = {}
  /\ loopPc' = "swap"
  /\ callingPendingFunctors' = TRUE
  /\ UNCHANGED <<looping, quit, pendingFunctors, functors, mutex, cb, call,
                 wakeupFd, ready, active, sent, ran>>

(* ... takes mutex_ ...                                                    *)
LockPending ==
  /\ loopPc = "swap"
  /\ mutex = NoThread
  /\ mutex' = LoopThread
  /\ loopPc' = "swapping"
  /\ UNCHANGED <<looping, quit, callingPendingFunctors, pendingFunctors, functors,
                 cb, call, wakeupFd, ready, active, sent, ran>>

(* ... and swaps the vectors before it lets go of it.  In a faulty version *)
(* the functors stay pending as well.                                      *)
TakePending(left) ==
  /\ loopPc = "swapping"
  /\ functors' = pendingFunctors
  /\ pendingFunctors' = left
  /\ mutex' = NoThread
  /\ loopPc' = "functors"
  /\ UNCHANGED <<looping, quit, callingPendingFunctors, cb, call, wakeupFd, ready,
                 active, sent, ran>>

CopyPending == TakePending(pendingFunctors)
SwapPending == TakePending(functors)

RunFunctor ==
  /\ loopPc = "functors"
  /\ functors # <<>>
  /\ ran' = Append(ran, Head(functors))
  /\ functors' = Tail(functors)
  /\ loopPc' = "functor"
  /\ UNCHANGED <<looping, quit, callingPendingFunctors, pendingFunctors, mutex, cb,
                 call, wakeupFd, ready, active, sent>>

FunctorReturn ==
  /\ loopPc = "functor"
  /\ call[LoopThread] = "idle"
  /\ loopPc' = "functors"
  /\ UNCHANGED <<looping, quit, callingPendingFunctors, pendingFunctors, functors,
                 mutex, cb, call, wakeupFd, ready, active, sent, ran>>

(* The flag is cleared; handleExpired() then finds no timer that touches   *)
(* the loop, and the loop goes round.                                      *)
EndPending ==
  /\ loopPc = "functors"
  /\ functors = <<>>
  /\ callingPendingFunctors' = FALSE
  /\ loopPc' = "test"
  /\ UNCHANGED <<looping, quit, pendingFunctors, functors, mutex, cb, call,
                 wakeupFd, ready, active, sent, ran>>

------------------------------------------------------------------------------
(* What the loop's thread does on its own account, calls excepted.         *)
LoopStep ==
  \/ EnterLoop \/ TestQuit \/ Poll
  \/ HandleWakeup \/ HandleConn \/ ConnReturn
  \/ BeginPending \/ LockPending \/ SwapPending
  \/ RunFunctor \/ FunctorReturn \/ EndPending

(* What a thread does to finish a call it has begun.                       *)
FinishCall(t) == Lock(t) \/ Emplace(t) \/ Wakeup(t)

Next ==
  \/ LoopStep
  \/ \E t \in Threads : FinishCall(t) \/ Quit(t)
  \/ \E t \in Threads, task \in Tasks : QueueInLoop(t, task)
  \/ \E task \in Tasks : RunInLoop(task)
  \/ ConnReady

Spec == Init /\ [][Next]_vars

(* The operating system schedules every runnable thread: the loop's thread *)
(* keeps going, and a call that has begun is finished.  Nobody is obliged  *)
(* to make a call, and no descriptor is obliged to become ready.           *)
Fairness ==
  /\ WF_vars(LoopStep)
  /\ \A t \in Threads : WF_vars(FinishCall(t))

FairSpec == Spec /\ Fairness

------------------------------------------------------------------------------
(* Properties.                                                             *)

(* Somebody has rung the bell or is about to.                              *)
WakeupDue ==
  \/ "wakeup" \in ready /\ wakeupFd
  \/ \E c \in Callers : call[c] = "wake"

(* The loop never sleeps on work: while its thread is in epoll_wait with a *)
(* functor pending or quit_ set, the eventfd is readable or a caller has   *)
(* its wakeup() still to do (queueInLoop, quit, wakeup, handleRead).       *)
SleepsOnlyWhenIdle ==
  loopPc = "poll" /\ (pendingFunctors # <<>> \/ quit) => WakeupDue

(* EventLoop.h:60 calls wakeupFd_ the eventfd "for waking up": being woken *)
(* must not end the loop's thread.                                         *)
WakeupSurvived == loopPc # "aborted"

(* A queued functor is executed unless the loop is told to quit.           *)
QueuedRuns ==
  \A task \in Tasks :
    task \in Range(pendingFunctors) ~> (task \in Range(ran) \/ loopPc = "done")

(* quit() ends a loop that has been entered.                               *)
QuitStops == (quit /\ loopPc # "start") ~> (loopPc = "done")

(* Every functor is executed at most once and in the order of queueInLoop: *)
(* the loop implements TaskQueue, the batch in progress ahead of what is   *)
(* still pending.                                                          *)
TQ == INSTANCE TaskQueue WITH queue <- functors \o pendingFunctors, done <- ran
ImplementsTaskQueue == TQ!Spec
==============================================================================
