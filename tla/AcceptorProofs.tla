--------------------------- MODULE AcceptorProofs ----------------------------
(***************************************************************************)
(* Theorems about Acceptor: its types, that the loops take turns, and that *)
(* the base loop does not sleep on a waiting client.                       *)
(***************************************************************************)
EXTENDS Acceptor, TLAPS

(* A turn of the pool stays among its loops: the only fact about % needed. *)
LEMMA NextLoopIs ==
  ASSUME NEW i \in Loops, ThreadNums > 0
  PROVE  NextLoop(i) = IF i = ThreadNums - 1 THEN 0 ELSE i + 1
  <1>1. ThreadNums \in Nat /\ i \in Nat /\ i <= ThreadNums - 1
    BY AcceptorAssumption DEF AcceptorAssumption, Loops
  <1>2. CASE i = ThreadNums - 1
    <2>1. i + 1 = ThreadNums /\ ThreadNums % ThreadNums = 0
      BY <1>1, <1>2
    <2> QED BY <2>1, <1>2 DEF NextLoop
  <1>3. CASE i # ThreadNums - 1
    <2>1. i + 1 \in 0..(ThreadNums - 1)
      BY <1>1, <1>3
    <2>2. (i + 1) % ThreadNums = i + 1
      BY <2>1, <1>1
    <2> QED BY <2>2, <1>3 DEF NextLoop
  <1> QED BY <1>2, <1>3

(* Every variable keeps its type (all operations).                         *)
THEOREM TypeCorrect == Spec => []TypeOK
  <1> USE AcceptorAssumption DEF AcceptorAssumption
  <1>1. Init => TypeOK
    <2> SUFFICES ASSUME Init PROVE TypeOK
      OBVIOUS
    <2>1. <<>> \in Seq(Clients)
      OBVIOUS
    <2>2. turns \in [Loops -> Nat] /\ holder \in [Fds -> Clients \cup {Nobody}]
      BY DEF Init
    <2>3. ThreadNums > 0 => 0 \in Loops
      BY DEF Loops
    <2>4. 0 \in 0..ThreadNums
      OBVIOUS
    <2> QED BY <2>1, <2>2, <2>3, <2>4 DEF Init, TypeOK, Places, Stopped, Turning, Flags
  <1>2. TypeOK /\ [Next]_vars => TypeOK'
    <2> SUFFICES ASSUME TypeOK, [Next]_vars PROVE TypeOK'
      OBVIOUS
    <2> USE DEF TypeOK, Fds
    <2>1. CASE Construct
      BY <2>1 DEF Construct, HasThreads, poolVars, maskVars, clientVars, Loops, Places, Stopped, Turning
    <2>2. CASE StartLoop
      <3>1. loops \in Nat /\ loops < ThreadNums
        BY <2>2 DEF StartLoop
      <3>2. loops' \in 0..ThreadNums /\ (pc' = "start" => loops' < ThreadNums)
        BY <2>2, <3>1 DEF StartLoop
      <3> QED BY <2>2, <3>1, <3>2
              DEF StartLoop, maskVars, clientVars, Places, Stopped, Turning
    <2>3. CASE Register
      BY <2>3 DEF Register, EpollAdd, poolVars, clientVars, Places, Stopped, Turning, Flags
    <2>4. CASE Poll
      BY <2>4 DEF Poll, poolVars, clientVars, Places, Stopped, Turning
    <2>5. CASE AcceptClient
      <3>1. Head(backlog) \in Clients /\ Tail(backlog) \in Seq(Clients)
        BY <2>5 DEF AcceptClient
      <3>2. ThreadNums > 0 /\ next \in Loops
        BY <2>5 DEF AcceptClient
      <3>3. next' \in Loops
        <4>1. next' = IF next = ThreadNums - 1 THEN 0 ELSE next + 1
          BY <2>5, <3>2, NextLoopIs DEF AcceptClient, GetNextLoop
        <4> QED BY <4>1, <3>2 DEF Loops
      <3>4. turns' \in [Loops -> Nat]
        BY <2>5, <3>2 DEF AcceptClient, GetNextLoop
      <3>5. /\ holder' \in [Fds -> Clients \cup {Nobody}]
            /\ nonblocking' \subseteq {0} \cup Fds
            /\ refused' \subseteq Clients
        BY <2>5, <3>1 DEF AcceptClient, setSocketNonBlocking, MadeNonBlocking
      <3> QED BY <2>5, <3>1, <3>2, <3>3, <3>4, <3>5
              DEF AcceptClient, GetNextLoop, maskVars
    <2>6. CASE AcceptFails
      BY <2>6 DEF AcceptFails, poolVars, clientVars, Places, Stopped, Turning, Flags, RestoredMask
    <2>7. CASE UpdatePoller
      BY <2>7 DEF UpdatePoller, EpollMod, poolVars, clientVars, Places, Stopped, Turning
    <2>8. ASSUME NEW c \in Clients, Connect(c) PROVE TypeOK'
      <3>1. backlog' \in Seq(Clients)
        BY <2>8 DEF Connect
      <3> QED BY <2>8, <3>1 DEF Connect, poolVars
    <2>9. CASE UNCHANGED vars
      BY <2>9 DEF vars
    <2> QED BY <2>1, <2>2, <2>3, <2>4, <2>5, <2>6, <2>7, <2>8, <2>9
            DEF Next, StartStep, LoopStep
  <1> QED BY <1>1, <1>2, PTL DEF Spec

------------------------------------------------------------------------------
(* The loops before next_ have had one turn more than those behind it.     *)
TurnsInv ==
  \A i, j \in Loops :
    /\ (i < next <=> j < next) => turns[i] = turns[j]
    /\ i < next /\ ~(j < next) => turns[i] = turns[j] + 1

LEMMA TurnsStep == TypeOK /\ TurnsInv /\ [Next]_vars => TurnsInv'
  <1> SUFFICES ASSUME TypeOK, TurnsInv, [Next]_vars PROVE TurnsInv'
    OBVIOUS
  <1> USE AcceptorAssumption DEF AcceptorAssumption
  <1>1. CASE AcceptClient
    <2>1. ThreadNums > 0 /\ next \in Loops /\ turns \in [Loops -> Nat]
      BY <1>1 DEF AcceptClient, TypeOK
    <2>2. \A i \in Loops : turns'[i] = IF i = next THEN turns[i] + 1 ELSE turns[i]
      BY <1>1, <2>1 DEF AcceptClient, GetNextLoop
    <2>3. next' = IF next = ThreadNums - 1 THEN 0 ELSE next + 1
      BY <1>1, <2>1, NextLoopIs DEF AcceptClient, GetNextLoop
    <2> SUFFICES ASSUME NEW i \in Loops, NEW j \in Loops
                 PROVE  /\ (i < next' <=> j < next') => turns'[i] = turns'[j]
                        /\ i < next' /\ ~(j < next') => turns'[i] = turns'[j] + 1
      BY DEF TurnsInv
    <2>4. /\ (i < next <=> j < next) => turns[i] = turns[j]
          /\ i < next /\ ~(j < next) => turns[i] = turns[j] + 1
          /\ j < next /\ ~(i < next) => turns[j] = turns[i] + 1
      BY DEF TurnsInv
    <2>5. turns[i] \in Nat /\ turns[j] \in Nat
      BY <2>1
    <2>6. /\ turns'[i] = IF i = next THEN turns[i] + 1 ELSE turns[i]
          /\ turns'[j] = IF j = next THEN turns[j] + 1 ELSE turns[j]
      BY <2>2
    <2>7. i \in 0..(ThreadNums - 1) /\ j \in 0..(ThreadNums - 1) /\ next \in 0..(ThreadNums - 1)
      BY <2>1 DEF Loops
    <2> QED BY <2>3, <2>4, <2>5, <2>6, <2>7
  <1>2. ASSUME ~AcceptClient PROVE UNCHANGED <<next, turns>>
    BY <1>2 DEF Next, StartStep, LoopStep, Construct, StartLoop, Register, Poll,
                AcceptFails, UpdatePoller, Connect, poolVars, vars
  <1> QED BY <1>1, <1>2 DEF TurnsInv

(* No loop is ever asked for two connections more than another             *)
(* (EventLoopThreadPool::getNextLoop).                                     *)
THEOREM LoopsTakeTurns == Spec => []TurnsBalanced
  <1> USE AcceptorAssumption DEF AcceptorAssumption
  <1>1. Init => TurnsInv
    BY DEF Init, TurnsInv, Loops
  <1>2. TypeOK /\ TurnsInv => TurnsBalanced
    <2> SUFFICES ASSUME TypeOK, TurnsInv, NEW i \in Loops, NEW j \in Loops
                 PROVE  turns[i] <= turns[j] + 1
      BY DEF TurnsBalanced
    <2>1. turns[i] \in Nat /\ turns[j] \in Nat
      BY DEF TypeOK
    <2>2. turns[i] = turns[j] \/ turns[i] = turns[j] + 1 \/ turns[j] = turns[i] + 1
      BY DEF TurnsInv
    <2> QED BY <2>1, <2>2
  <1> QED BY <1>1, <1>2, TurnsStep, TypeCorrect, PTL DEF Spec

------------------------------------------------------------------------------
(* While the server turns, epoll's mask is the one last asked for.  The    *)
(* first turn leaves an edge-triggered entry behind, which the change of   *)
(* mask at its end finds ready; from then on the entry is level-triggered  *)
(* and stays on the ready list as long as somebody waits.                  *)
MaskInv ==
  pc \in Turning =>
    /\ lastEvents = interest
    /\ "IN" \in interest
    /\ pc = "conn" => events = {"IN"}
    /\ backlog # <<>> => ready \/ (pc # "idle" /\ "ET" \in interest)

LEMMA MaskStep == TypeOK /\ MaskInv /\ [Next]_vars => MaskInv'
  <1> SUFFICES ASSUME TypeOK, MaskInv, [Next]_vars PROVE MaskInv'
    OBVIOUS
  <1> USE DEF MaskInv, Turning
  <1>1. CASE Construct
    BY <1>1 DEF Construct
  <1>2. CASE StartLoop
    BY <1>2 DEF StartLoop
  <1>3. CASE Register
    BY <1>3 DEF Register, EpollAdd, clientVars
  <1>4. CASE Poll
    BY <1>4 DEF Poll, clientVars
  <1>5. CASE AcceptClient
    BY <1>5 DEF AcceptClient, maskVars
  <1>6. CASE AcceptFails
    BY <1>6 DEF AcceptFails, clientVars, RestoredMask
  <1>7. CASE UpdatePoller
    BY <1>7 DEF UpdatePoller, EpollMod, clientVars
  <1>8. ASSUME NEW c \in Clients, Connect(c) PROVE MaskInv'
    BY <1>8 DEF Connect
  <1>9. CASE UNCHANGED vars
    BY <1>9 DEF vars
  <1> QED BY <1>1, <1>2, <1>3, <1>4, <1>5, <1>6, <1>7, <1>8, <1>9
          DEF Next, StartStep, LoopStep

(* A client that waits is on epoll's ready list whenever the base loop is  *)
(* about to sleep, whatever ended the last accept loop (handNewConn).      *)
THEOREM WaitingIsSeen == Spec => []NobodyLeftWaiting
  <1>1. Init => MaskInv
    BY DEF Init, MaskInv, Turning
  <1>2. MaskInv => NobodyLeftWaiting
    BY DEF MaskInv, NobodyLeftWaiting, Turning
  <1> QED BY <1>1, <1>2, MaskStep, TypeCorrect, PTL DEF Spec
------------------------------------------------------------------------------
(* Only descriptor 0 is ever made non-blocking: setSocketNonBlocking is    *)
(* given what the comparison in handNewConn makes of the descriptor.       *)
BlockingInv == nonblocking \subseteq {0}

LEMMA BlockingStep == BlockingInv /\ [Next]_vars => BlockingInv'
  <1> SUFFICES ASSUME BlockingInv, [Next]_vars PROVE BlockingInv'
    OBVIOUS
  <1>1. CASE AcceptClient
    BY <1>1 DEF AcceptClient, BlockingInv, setSocketNonBlocking, MadeNonBlocking
  <1>2. ASSUME ~AcceptClient PROVE nonblocking' = nonblocking
    BY <1>2 DEF Next, StartStep, LoopStep, Construct, StartLoop, Register, Poll,
                AcceptFails, UpdatePoller, Connect, clientVars, vars
  <1> QED BY <1>1, <1>2 DEF BlockingInv

(* A descriptor that is somebody's connection stays his in every step: the *)
(* kernel gives accept a free one, and nobody closes any.                  *)
LEMMA HolderStays ==
  ASSUME TypeOK, [Next]_vars, NEW fd \in Fds, ~Free(fd)
  PROVE  holder'[fd] = holder[fd]
  <1>1. CASE AcceptClient
    <2>1. PICK new \in Fds : /\ Lowest(new)
                            /\ \/ holder' = holder
                               \/ holder' = [holder EXCEPT ![new] = Head(backlog)]
      BY <1>1 DEF AcceptClient
    <2>2. new # fd
      BY <2>1 DEF Lowest
    <2> QED BY <2>1, <2>2 DEF TypeOK
  <1>2. ASSUME ~AcceptClient PROVE holder' = holder
    BY <1>2 DEF Next, StartStep, LoopStep, Construct, StartLoop, Register, Poll,
                AcceptFails, UpdatePoller, Connect, clientVars, vars
  <1> QED BY <1>1, <1>2

(* No step of the server gives an accepted connection's descriptor back,   *)
(* hands it to another client or makes it non-blocking (handNewConn).      *)
THEOREM DescriptorsAreKept == Spec => KeptForGood
  <1>1. Init => BlockingInv
    BY DEF Init, BlockingInv
  <1>2. ASSUME TypeOK, BlockingInv', [Next]_vars
        PROVE  \A fd \in Fds : ~Free(fd) => holder'[fd] = holder[fd] /\ fd \notin nonblocking'
    <2> SUFFICES ASSUME NEW fd \in Fds, ~Free(fd)
                 PROVE  holder'[fd] = holder[fd] /\ fd \notin nonblocking'
      OBVIOUS
    <2>1. fd # 0
      BY AcceptorAssumption DEF AcceptorAssumption, Fds, TypeOK
    <2>2. fd \notin nonblocking'
      BY <2>1, <1>2 DEF BlockingInv
    <2> QED BY <1>2, <2>2, HolderStays
  <1>3. TypeOK /\ BlockingInv' /\ [Next]_vars
          => [\A fd \in Fds : ~Free(fd) => holder'[fd] = holder[fd] /\ fd \notin nonblocking']_vars
    BY <1>2
  <1> QED BY <1>1, <1>3, BlockingStep, TypeCorrect, PTL DEF Spec, KeptForGood
==============================================================================
