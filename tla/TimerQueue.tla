----------------------------- MODULE TimerQueue ------------------------------
(***************************************************************************)
(* net/Timer.{h,cpp} with what HttpData and Epoll do with timers: a timer  *)
(* for each wait of a connection, a heap of deadlines, a clock that wraps  *)
(* around, and the connection closed by its timer's destructor.            *)
(*                                                                         *)
(* As written nothing of this runs: Epoll::add_timer queues nothing,       *)
(* HttpData::linkTimer is empty, and Timer::clearReq resets the connection *)
(* it points to where it should reset the pointer, which ends in a         *)
(* recursion with HttpData::reset.  RepairSets names which of the three    *)
(* are taken as meant: "queue", "link" and "drop".                         *)
(*                                                                         *)
(* The loop's thread does everything; only the clock comes in between.     *)
(***************************************************************************)
EXTENDS Naturals

CONSTANTS
  Conns,          \* HttpData objects
  Timers,         \* the heap Timer objects are taken from
  NoConn, NoTimer,   \* null pointers
  Timeouts,       \* DEFAULT_EXPIRED_TIME, DEFAULT_KEEP_ALIVE_TIME
  FirstTimeout,   \* DEFAULT_EXPIRED_TIME
  Period,         \* what "tv_sec % 10000" leaves of the clock
  AgeBound,       \* a timer older than this is only known to be that old
  RepairSets

AllRepairs == {"queue", "link", "drop"}

ASSUME TimerAssumption ==
  /\ NoConn \notin Conns
  /\ NoTimer \notin Timers
  /\ Timeouts \subseteq Nat
  /\ FirstTimeout \in Timeouts
  /\ Period \in Nat \ {0}
  /\ AgeBound \in Nat
  /\ \A d \in Timeouts : d <= AgeBound
  /\ Period <= AgeBound
  /\ RepairSets \subseteq SUBSET AllRepairs

VARIABLES
  repairs,      \* which of RepairSets it is (never changes)
  pc,           \* "turn": poll and the handlers, "expire": handleExpired
  reading,      \* what gettimeofday() is made into
  queue,        \* timerQueue
  exp, deleted, holds,   \* expiredTime_, deleted_, SPHttpData
  born, timeout, age,    \* history: the reading, argument and time since then
  timer,        \* timer_, the connection's weak pointer
  state         \* "none", "open" or "closed"

timerVars == <<queue, exp, deleted, holds, born, timeout, age, timer>>
vars == <<repairs, pc, reading, queue, exp, deleted, holds, born, timeout, age,
          timer, state>>

Readings == 0..(Period - 1)

TypeOK ==
  /\ repairs \in RepairSets
  /\ pc \in {"turn", "expire", "crashed"}
  /\ reading \in Readings
  /\ queue \subseteq Timers
  /\ exp \in [Timers -> Nat]
  /\ deleted \in [Timers -> BOOLEAN]
  /\ holds \in [Timers -> Conns \cup {NoConn}]
  /\ born \in [Timers -> Readings]
  /\ timeout \in [Timers -> Timeouts]
  /\ age \in [Timers -> 0..AgeBound]
  /\ timer \in [Conns -> Timers \cup {NoTimer}]
  /\ state \in [Conns -> {"none", "open", "closed"}]

Init ==
  /\ repairs \in RepairSets
  /\ pc = "turn"
  /\ reading \in Readings
  /\ queue = {}
  /\ exp = [t \in Timers |-> 0]
  /\ deleted = [t \in Timers |-> FALSE]
  /\ holds = [t \in Timers |-> NoConn]
  /\ born = [t \in Timers |-> 0]
  /\ timeout = [t \in Timers |-> FirstTimeout]
  /\ age = [t \in Timers |-> 0]
  /\ timer = [c \in Conns |-> NoTimer]
  /\ state = [c \in Conns |-> "none"]

------------------------------------------------------------------------------
(* Timer's constructor: the deadline is not wrapped.  A faulty one wraps.  *)
ExpiredWrapped(now, d) == (now + d) % Period
ExpiredTime(now, d) == now + d

(* What seperateTimer leaves of the queue's deleted_ and SPHttpData, and   *)
(* in a version whose clearReq keeps the pointer.                          *)
Forget(h, ts) == [t \in Timers |-> IF t \in ts THEN NoConn ELSE h[t]]
KeptHold(h, ts) == h
DroppedHold(h, ts) == Forget(h, ts)

(* The timer of c that timer_.lock() finds.                                *)
Locked(c) == {t \in queue : timer[c] = t}

(* seperateTimer, or HttpData::reset just before: the timer is marked and  *)
(* the two are parted.                                                     *)
Separated(c) == [t \in Timers |-> deleted[t] \/ t \in Locked(c)]

(* operator new: which of the free ones it is makes no difference.         *)
FreshTimer == IF queue = Timers THEN {} ELSE {CHOOSE t \in Timers : t \notin queue}

(* Epoll::add_timer with addTimer behind it, after the connection's timer  *)
(* was separated.                                                          *)
AddTimer(c, d) ==
  IF "queue" \notin repairs
    THEN /\ deleted' = Separated(c)
         /\ holds' = DroppedHold(holds, Locked(c))
         /\ timer' = [timer EXCEPT ![c] = NoTimer]
         /\ UNCHANGED <<queue, exp, born, timeout, age>>
    ELSE \E t \in FreshTimer :
           /\ queue' = queue \cup {t}
           /\ exp' = [exp EXCEPT ![t] = ExpiredTime(reading, d)]
           /\ deleted' = [Separated(c) EXCEPT ![t] = FALSE]
           /\ holds' = [DroppedHold(holds, Locked(c)) EXCEPT ![t] = c]
           /\ born' = [born EXCEPT ![t] = reading]
           /\ timeout' = [timeout EXCEPT ![t] = d]
           /\ age' = [age EXCEPT ![t] = 0]
           /\ timer' = [timer EXCEPT ![c] = IF "link" \in repairs THEN t ELSE NoTimer]

(* clearReq calls reset, reset finds timer_ still set and calls clearReq.  *)
Recurses(c) == Locked(c) # {} /\ "drop" \notin repairs

------------------------------------------------------------------------------
(* newEvent: the connection is registered.  An HttpData that a timer still *)
(* holds is not destroyed, and its descriptor not used again.              *)
NewEvent(c) ==
  /\ pc = "turn"
  /\ state[c] # "open"
  /\ \A t \in queue : holds[t] # c
  /\ state' = [state EXCEPT ![c] = "open"]
  /\ AddTimer(c, FirstTimeout)
  /\ UNCHANGED <<repairs, pc, reading>>

(* handleConn, when it goes on with a timeout.                             *)
HandleConn(c) ==
  /\ pc = "turn"
  /\ state[c] = "open"
  /\ ~Recurses(c)
  /\ \E d \in Timeouts : AddTimer(c, d)
  /\ UNCHANGED <<repairs, pc, reading, state>>

(* handleConn, when it closes, or only sets its mask for what it owes.     *)
EndConn(c) ==
  /\ pc = "turn"
  /\ state[c] = "open"
  /\ ~Recurses(c)
  /\ state' \in {[state EXCEPT ![c] = "closed"], state}
  /\ deleted' = Separated(c)
  /\ holds' = DroppedHold(holds, Locked(c))
  /\ timer' = [timer EXCEPT ![c] = NoTimer]
  /\ UNCHANGED <<repairs, pc, reading, queue, exp, born, timeout, age>>

(* handleConn with a linked timer, as clearReq is written.                 *)
Recurse(c) ==
  /\ pc = "turn"
  /\ state[c] = "open"
  /\ Recurses(c)
  /\ pc' = "crashed"
  /\ UNCHANGED <<repairs, reading, timerVars, state>>

(* The handlers have run.  Epoll::poll only returns when a channel was     *)
(* reported: this need never happen again.                                 *)
EnterExpired ==
  /\ pc = "turn"
  /\ pc' = "expire"
  /\ UNCHANGED <<repairs, reading, timerVars, state>>

(* TimerCmp, for a heap with its greatest element on top; also reversed.   *)
CmpReversed(a, b) == exp[a] < exp[b]
TimerCmp(a, b) == exp[a] > exp[b]

Top(t) == t \in queue /\ \A u \in queue : ~TimerCmp(t, u)

Due(t) == deleted[t] \/ exp[t] <= reading

(* One turn of handleExpiredTimer's loop.  The timer is popped and so      *)
(* destroyed, and a connection it still holds is closed.                   *)
PopTimer ==
  /\ pc = "expire"
  /\ \E t \in Timers :
       /\ Top(t) /\ Due(t)
       /\ queue' = queue \ {t}
       /\ state' = [c \in Conns |-> IF holds[t] = c THEN "closed" ELSE state[c]]
       /\ timer' = [c \in Conns |-> IF timer[c] = t THEN NoTimer ELSE timer[c]]
       /\ deleted' = [deleted EXCEPT ![t] = FALSE]
       /\ holds' = [holds EXCEPT ![t] = NoConn]
       /\ exp' = [exp EXCEPT ![t] = 0]
       /\ born' = [born EXCEPT ![t] = 0]
       /\ timeout' = [timeout EXCEPT ![t] = FirstTimeout]
       /\ age' = [age EXCEPT ![t] = 0]
  /\ UNCHANGED <<repairs, pc, reading>>

LeaveExpired ==
  /\ pc = "expire"
  /\ queue = {} \/ \E t \in Timers : Top(t) /\ ~Due(t)
  /\ pc' = "turn"
  /\ UNCHANGED <<repairs, reading, timerVars, state>>

(* Time passes.  A faulty reading does not wrap.                           *)
ReadingOn(r) == r + 1
NextReading(r) == (r + 1) % Period

Older(a) == IF a < AgeBound THEN a + 1 ELSE a

Tick ==
  /\ reading' = NextReading(reading)
  /\ age' = [t \in Timers |-> IF t \in queue THEN Older(age[t]) ELSE age[t]]
  /\ UNCHANGED <<repairs, pc, queue, exp, deleted, holds, born, timeout, timer, state>>

Next ==
  \/ \E c \in Conns : NewEvent(c) \/ HandleConn(c) \/ EndConn(c) \/ Recurse(c)
  \/ EnterExpired \/ PopTimer \/ LeaveExpired
  \/ Tick

Spec == Init /\ [][Next]_vars

------------------------------------------------------------------------------
(* Properties.                                                             *)

(* The timers that leave the queue in a step and close their connection.   *)
Closing == {t \in queue \ queue' : holds[t] # NoConn}

(* No connection is closed before its timeout has passed (isValid), though *)
(* deadlines and clock wrap differently.                                   *)
NeverEarly == [][\A t \in Closing : age[t] >= timeout[t]]_vars

(* A connection that has been active since is not closed by an old timer   *)
(* (seperateTimer, clearReq), once all three repairs are made.             *)
OnlyIdleClosed ==
  [][repairs = AllRepairs => \A t \in Closing : timer[holds[t]] = t]_vars

(* A deadline at or beyond the wrap is never found expired (line 50 of     *)
(* Timer.cpp): its timer closes nothing, however long it waits.            *)
WrapForgets == [][\A t \in Closing : born[t] + timeout[t] < Period]_vars

(* A timer past its timeout that handleExpired leaves in the queue is one  *)
(* the clock has wrapped over since it was made: nothing else in the heap, *)
(* deleted or not, keeps it from being popped (handleExpiredTimer,         *)
(* TimerCmp, isValid).                                                     *)
LateOnlyByWrap ==
  [][pc = "expire" /\ pc' = "turn" =>
       \A t \in queue : age[t] >= timeout[t] => born[t] + age[t] >= Period]_vars
==============================================================================
