------------------------------ MODULE Acceptor -------------------------------
(***************************************************************************)
(* Server and EventLoopThreadPool: the start of the loops, the acceptor's  *)
(* channel with its entry in epoll, the kernel's queue of connections and  *)
(* the process's table of descriptors.                                     *)
(*                                                                         *)
(* Everything runs on the base loop's thread; only the clients come in     *)
(* between.  startLoop is taken for what EventLoopThread shows it to be:   *)
(* it returns a loop, or it never returns because there was no thread.     *)
(***************************************************************************)
EXTENDS Naturals, Sequences

CONSTANTS
  Clients,      \* each connects at most once
  Nobody,       \* the holder of a free descriptor
  ThreadNums,   \* threadNums_
  FirstFd,      \* the descriptors below are taken when the server has started
  Limits,       \* how many descriptors the process may have
  MAXFDS,       \* Server's own limit
  Backlog       \* the length of the kernel's queue

ASSUME AcceptorAssumption ==
  /\ Nobody \notin Clients
  /\ ThreadNums \in Nat
  /\ FirstFd \in Nat \ {0}
  /\ Limits \subseteq Nat
  /\ MAXFDS \in Nat
  /\ Backlog \in Nat

VARIABLES
  limit,        \* which of Limits it is (never changes)
  pc,           \* where the base loop's thread is
  loops, next,  \* EventLoopThreadPool: loops_.size(), next_
  interest,     \* what epoll watches listenFd_ for
  ready,        \* listenFd_ is on epoll's ready list
  events, lastEvents,   \* acceptChannel_'s masks
  backlog,      \* the clients waiting to be accepted
  holder,       \* which client's connection a descriptor is
  nonblocking,  \* which of those descriptors, and of 0, have O_NONBLOCK
  arrived, refused,     \* history: who has connected, who was closed at once
  turns         \* history: how often each loop was chosen

poolVars == <<loops, next, turns>>
maskVars == <<interest, ready, events, lastEvents>>
clientVars == <<backlog, holder, nonblocking, arrived, refused>>
vars == <<limit, pc, loops, next, turns, interest, ready, events, lastEvents,
          backlog, holder, nonblocking, arrived, refused>>

(* "construct"  in the constructor       "start"    in the pool's start()   *)
(* "register"   in Server::start         "idle"     in epoll_wait           *)
(* "accept"     in handNewConn's loop    "conn"     before handThisConn     *)
(* "aborted"    abort() was called       "hung"     in startLoop() for ever *)
(* "deaf"       listenFd_ is not watched                                    *)
Stopped == {"aborted", "hung", "deaf"}
Turning == {"idle", "accept", "conn"}
Places == {"construct", "start", "register"} \cup Turning \cup Stopped

Flags == {"IN", "ET"}
Loops == 0..(ThreadNums - 1)
Fds == FirstFd..(limit - 1)

TypeOK ==
  /\ limit \in Limits
  /\ pc \in Places
  /\ pc \notin {"construct", "aborted"} => ThreadNums > 0
  /\ ThreadNums > 0 => next \in Loops
  /\ loops \in 0..ThreadNums
  /\ pc = "construct" => loops = 0
  /\ pc = "start" => loops < ThreadNums
  /\ interest \subseteq Flags /\ events \subseteq Flags /\ lastEvents \subseteq Flags
  /\ ready \in BOOLEAN
  /\ backlog \in Seq(Clients)
  /\ holder \in [Fds -> Clients \cup {Nobody}]
  /\ nonblocking \subseteq {0} \cup Fds
  /\ arrived \subseteq Clients /\ refused \subseteq Clients
  /\ turns \in [Loops -> Nat]

Init ==
  /\ limit \in Limits
  /\ pc = "construct"
  /\ loops = 0 /\ next = 0
  /\ interest = {} /\ events = {} /\ lastEvents = {}
  /\ ready = FALSE
  /\ backlog = <<>>
  /\ holder = [fd \in Fds |-> Nobody]
  /\ nonblocking = {}
  /\ arrived = {} /\ refused = {}
  /\ turns = [i \in Loops |-> 0]

------------------------------------------------------------------------------
(* The start, on the base loop's thread.                                   *)

(* The pool's constructor aborts without threads.                          *)
HasThreads == ThreadNums > 0

(* Each call in socket_bind_listen may fail, and then it returns -1.       *)
socket_bind_listen == {"fd", "-1"}

(* The constructors.  Server's aborts when O_NONBLOCK cannot be set, as it *)
(* cannot be on a descriptor that is -1.                                   *)
Construct ==
  /\ pc = "construct"
  /\ \E listenFd \in socket_bind_listen :
       pc' = IF HasThreads /\ listenFd # "-1" THEN "start" ELSE "aborted"
  /\ UNCHANGED <<limit, poolVars, maskVars, clientVars>>

(* One turn of the loop in EventLoopThreadPool::start.                     *)
StartLoop ==
  /\ pc = "start"
  /\ \/ /\ loops' = loops + 1
        /\ pc' = IF loops' = ThreadNums THEN "register" ELSE pc
     \/ pc' = "hung" /\ UNCHANGED loops
  /\ UNCHANGED <<limit, next, turns, maskVars, clientVars>>

(* epoll_add, without a timeout.  epoll_ctl may fail, which is reported.   *)
EpollAdd(mask) ==
  /\ lastEvents' = mask
  /\ \/ interest' = mask /\ ready' = (backlog # <<>>) /\ pc' = "idle"
     \/ pc' = "deaf" /\ UNCHANGED <<interest, ready>>

(* The rest of Server::start.                                              *)
Register ==
  /\ pc = "register"
  /\ events' = {"IN", "ET"}
  /\ EpollAdd({"IN", "ET"})
  /\ UNCHANGED <<limit, poolVars, clientVars>>

------------------------------------------------------------------------------
(* A turn of the base loop.                                                *)

(* What was reported edge-triggered leaves the ready list; what was        *)
(* reported level-triggered stays.                                         *)
Poll ==
  /\ pc = "idle"
  /\ ready /\ backlog # <<>>
  /\ pc' = "accept"
  /\ ready' = ("ET" \notin interest)
  /\ events' = {}
  /\ UNCHANGED <<limit, poolVars, interest, lastEvents, clientVars>>

(* next_ after a call of getNextLoop, also without the modulo, and with    *)
(* one that leaves the last loop out.                                      *)
NextUnbounded(i) == i + 1
NextButLast(i) == (i + 1) % (ThreadNums - 1)
NextLoop(i) == (i + 1) % ThreadNums

GetNextLoop ==
  /\ turns' = [turns EXCEPT ![next] = @ + 1]
  /\ next' = NextLoop(next)
  /\ UNCHANGED loops

Free(fd) == holder[fd] = Nobody
Lowest(fd) == Free(fd) /\ \A lower \in Fds : lower < fd => ~Free(lower)

setSocketNonBlocking(fd) == nonblocking' = nonblocking \cup {fd}

(* What setSocketNonBlocking is given for the descriptor: "accept_fd < 0". *)
TheDescriptor(fd) == fd
MadeNonBlocking(fd) == 0

(* One turn of handNewConn's loop.  The loop is chosen first.  Beyond      *)
(* MAXFDS the descriptor is closed; below it is kept, and nothing else is  *)
(* done with it.                                                           *)
AcceptClient ==
  /\ pc = "accept"
  /\ backlog # <<>>
  /\ \E fd \in Fds :
       /\ Lowest(fd)
       /\ IF fd >= MAXFDS
            THEN /\ refused' = refused \cup {Head(backlog)}
                 /\ UNCHANGED <<holder, nonblocking>>
            ELSE /\ holder' = [holder EXCEPT ![fd] = Head(backlog)]
                 /\ setSocketNonBlocking(MadeNonBlocking(fd))
                 /\ UNCHANGED refused
  /\ backlog' = Tail(backlog)
  /\ GetNextLoop
  /\ UNCHANGED <<limit, pc, maskVars, arrived>>

(* The mask for the next turn: EPOLLIN || EPOLLET is 1, which is EPOLLIN.  *)
MaskMeant == {"IN", "ET"}
MaskForgotten == {}
RestoredMask == {"IN"}

(* accept has failed and ends the loop, whatever the reason: an empty      *)
(* queue, no free descriptor, no memory.                                   *)
AcceptFails ==
  /\ pc = "accept"
  /\ pc' = "conn"
  /\ events' = RestoredMask
  /\ UNCHANGED <<limit, poolVars, interest, ready, lastEvents, clientVars>>

(* epoll_mod, without a timeout, does nothing if the mask is the last one, *)
(* and puts the descriptor on the ready list if it finds something.  The   *)
(* kernel does not refuse it for a registered descriptor.                  *)
EpollMod(mask) ==
  /\ lastEvents' = mask
  /\ IF mask = lastEvents
       THEN UNCHANGED <<interest, ready>>
       ELSE interest' = mask /\ ready' = ("IN" \in mask /\ backlog # <<>>)

(* handThisConn.                                                           *)
UpdatePoller ==
  /\ pc = "conn"
  /\ pc' = "idle"
  /\ EpollMod(events)
  /\ UNCHANGED <<limit, events, poolVars, clientVars>>

------------------------------------------------------------------------------
(* A client connects, as soon as the port is listened on.                  *)
Connect(c) ==
  /\ pc \notin {"construct", "aborted"}
  /\ c \notin arrived
  /\ Len(backlog) < Backlog
  /\ backlog' = Append(backlog, c)
  /\ arrived' = arrived \cup {c}
  /\ ready' = (ready \/ "IN" \in interest)
  /\ UNCHANGED <<limit, pc, poolVars, interest, events, lastEvents,
                 holder, nonblocking, refused>>

StartStep == Construct \/ StartLoop \/ Register
LoopStep == Poll \/ AcceptClient \/ AcceptFails \/ UpdatePoller

Next == StartStep \/ LoopStep \/ \E c \in Clients : Connect(c)

Spec == Init /\ [][Next]_vars

(* The thread is scheduled, and accept does not fail for ever for a        *)
(* passing reason.  Nobody need connect.                                   *)
FairSpec ==
  /\ Spec
  /\ WF_vars(StartStep)
  /\ WF_vars(LoopStep)
  /\ SF_vars(AcceptClient)

------------------------------------------------------------------------------
(* Properties.                                                             *)

(* The loops are asked for in turn: none is ahead of another by more than  *)
(* one connection (getNextLoop), also when connections are refused.        *)
TurnsBalanced == \A i, j \in Loops : turns[i] <= turns[j] + 1

(* The base loop does not sleep on a waiting client, though handNewConn    *)
(* leaves its loop on any error and the registration was edge-triggered.   *)
NobodyLeftWaiting == pc = "idle" /\ backlog # <<>> => ready

(* No descriptor is left for a new connection.                             *)
Full == \A fd \in Fds : ~Free(fd)

(* Whoever is in the kernel's queue is accepted or refused, unless the     *)
(* server never came up or has run out of descriptors (handNewConn).       *)
ClientsAccepted ==
  \A c \in Clients :
    (\E i \in DOMAIN backlog : backlog[i] = c)
      ~> \/ \E fd \in Fds : holder[fd] = c
         \/ c \in refused
         \/ Full \/ pc \in Stopped

(* An accepted connection keeps its descriptor for ever, and blocking      *)
(* (handNewConn's line 56 and what is missing behind it).                  *)
KeptForGood ==
  [][\A fd \in Fds : ~Free(fd) => holder'[fd] = holder[fd] /\ fd \notin nonblocking']_vars

(* And once the descriptors have run out, a waiting client keeps the base  *)
(* loop turning without end.                                               *)
NeglectedForGood ==
  /\ KeptForGood
  /\ [](pc \in Turning /\ Full /\ backlog # <<>> => []<>(pc = "accept"))
==============================================================================
