-------------------------- MODULE TimerQueueProofs ---------------------------
(***************************************************************************)
(* Theorems about TimerQueue, for every period, every set of timeouts and  *)
(* every choice of repairs: its types, that no timer closes a connection   *)
(* early, that one beyond the wrap closes none at all, that handleExpired  *)
(* leaves no other late one behind, and that only the latest timer of a    *)
(* connection closes it.                                                   *)
(***************************************************************************)
EXTENDS TimerQueue, TLAPS

(* The only fact about % needed.                                           *)
LEMMA NextReadingIs ==
  ASSUME NEW r \in Readings
  PROVE  NextReading(r) = IF r = Period - 1 THEN 0 ELSE r + 1
  <1> USE TimerAssumption DEF TimerAssumption
  <1>1. r \in Nat /\ r <= Period - 1 /\ Period \in Nat \ {0}
    BY DEF Readings
  <1>2. CASE r = Period - 1
    <2>1. r + 1 = Period /\ Period % Period = 0
      BY <1>1, <1>2
    <2> QED BY <2>1, <1>2 DEF NextReading
  <1>3. CASE r # Period - 1
    <2>1. (r + 1) % Period = r + 1
      BY <1>1, <1>3
    <2> QED BY <2>1, <1>3 DEF NextReading
  <1> QED BY <1>2, <1>3

(* operator new returns a timer that is not in the queue.                  *)
LEMMA FreshIsFree == \A t \in FreshTimer : queue \subseteq Timers => t \in Timers \ queue
  BY DEF FreshTimer

(* Every variable keeps its type (all operations).                         *)
THEOREM TypeCorrect == Spec => []TypeOK
  <1> USE TimerAssumption DEF TimerAssumption
  <1>1. Init => TypeOK
    <2>1. 0 \in Readings /\ 0 \in 0..AgeBound
      BY DEF Readings
    <2> QED BY <2>1 DEF Init, TypeOK
  <1>2. TypeOK /\ [Next]_vars => TypeOK'
    <2> SUFFICES ASSUME TypeOK, [Next]_vars PROVE TypeOK'
      OBVIOUS
    <2> USE DEF TypeOK
    <2>1. ASSUME NEW c \in Conns, NEW d \in Timeouts, AddTimer(c, d),
                 UNCHANGED <<repairs, pc, reading>>,
                 state' \in [Conns -> {"none", "open", "closed"}]
          PROVE  TypeOK'
      <3>0. /\ Separated(c) \in [Timers -> BOOLEAN]
            /\ DroppedHold(holds, Locked(c)) \in [Timers -> Conns \cup {NoConn}]
        BY DEF Separated, DroppedHold, Forget
      <3>1. CASE "queue" \notin repairs
        BY <2>1, <3>0, <3>1 DEF AddTimer
      <3>2. CASE "queue" \in repairs
        <4>1. PICK t \in FreshTimer :
                 /\ queue' = queue \cup {t}
                 /\ exp' = [exp EXCEPT ![t] = ExpiredTime(reading, d)]
                 /\ deleted' = [Separated(c) EXCEPT ![t] = FALSE]
                 /\ holds' = [DroppedHold(holds, Locked(c)) EXCEPT ![t] = c]
                 /\ born' = [born EXCEPT ![t] = reading]
                 /\ timeout' = [timeout EXCEPT ![t] = d]
                 /\ age' = [age EXCEPT ![t] = 0]
                 /\ timer' = [timer EXCEPT ![c] = IF "link" \in repairs THEN t ELSE NoTimer]
          BY <2>1, <3>2 DEF AddTimer
        <4>2. t \in Timers
          BY FreshIsFree
        <4>3. ExpiredTime(reading, d) \in Nat
          BY DEF ExpiredTime, Readings
        <4>4. 0 \in 0..AgeBound
          OBVIOUS
        <4> QED BY <2>1, <3>0, <4>1, <4>2, <4>3, <4>4
      <3> QED BY <3>1, <3>2
    <2>2. ASSUME NEW c \in Conns, NewEvent(c) PROVE TypeOK'
      BY <2>1, <2>2 DEF NewEvent
    <2>3. ASSUME NEW c \in Conns, HandleConn(c) PROVE TypeOK'
      BY <2>1, <2>3 DEF HandleConn
    <2>4. ASSUME NEW c \in Conns, EndConn(c) PROVE TypeOK'
      BY <2>4 DEF EndConn, Separated, DroppedHold, Forget
    <2>5. ASSUME NEW c \in Conns, Recurse(c) PROVE TypeOK'
      BY <2>5 DEF Recurse, timerVars
    <2>6. CASE EnterExpired
      BY <2>6 DEF EnterExpired, timerVars
    <2>7. CASE PopTimer
      <3>1. 0 \in Readings /\ 0 \in 0..AgeBound
        BY DEF Readings
      <3> QED BY <2>7, <3>1 DEF PopTimer
    <2>8. CASE LeaveExpired
      BY <2>8 DEF LeaveExpired, timerVars
    <2>9. CASE Tick
      <3>1. \A a \in 0..AgeBound : Older(a) \in 0..AgeBound
        BY DEF Older
      <3>2. reading' \in Readings
        <4>1. reading' = IF reading = Period - 1 THEN 0 ELSE reading + 1
          BY <2>9, NextReadingIs DEF Tick
        <4> QED BY <4>1 DEF Readings
      <3> QED BY <2>9, <3>1, <3>2 DEF Tick
    <2>10. CASE UNCHANGED vars
      BY <2>10 DEF vars
    <2> QED BY <2>2, <2>3, <2>4, <2>5, <2>6, <2>7, <2>8, <2>9, <2>10 DEF Next
  <1> QED BY <1>1, <1>2, PTL DEF Spec

------------------------------------------------------------------------------
(* A timer marked as deleted holds no connection.                          *)
HoldInv == \A t \in queue : deleted[t] => holds[t] = NoConn

(* Once everything is repaired, a timer that holds a connection is the one *)
(* the connection knows.                                                   *)
LinkInv ==
  repairs = AllRepairs =>
    \A t \in queue : holds[t] # NoConn => timer[holds[t]] = t

(* A timer is as old as the clock says, to the unit until the clock wraps  *)
(* and at least that old until it has wrapped twice; if more, it is older  *)
(* than any timeout.                                                       *)
AgeInv ==
  \A t \in queue :
    /\ exp[t] = born[t] + timeout[t]
    /\ born[t] + age[t] < Period => reading = born[t] + age[t]
    /\ \/ age[t] = AgeBound
       \/ /\ reading >= born[t] => age[t] >= reading - born[t]
          /\ reading < born[t] => age[t] >= (Period - born[t]) + reading

IInv == TypeOK /\ HoldInv /\ LinkInv /\ AgeInv

(* A new timer, and the separation of the old one.                         *)
LEMMA AddTimerStep ==
  ASSUME IInv, NEW c \in Conns, NEW d \in Timeouts, AddTimer(c, d),
         repairs' = repairs, reading' = reading
  PROVE  (HoldInv /\ LinkInv /\ AgeInv)'
  <1> USE TimerAssumption DEF TimerAssumption
  <1> USE DEF IInv, TypeOK
  <1>1. \A t \in Timers :
          /\ Separated(c)[t] = (deleted[t] \/ t \in Locked(c))
          /\ DroppedHold(holds, Locked(c))[t] = IF t \in Locked(c) THEN NoConn ELSE holds[t]
    BY DEF Separated, DroppedHold, Forget
  <1>2. \A t \in Timers : t \in Locked(c) <=> t \in queue /\ timer[c] = t
    BY DEF Locked
  <1>3. CASE "queue" \notin repairs
    <2>1. HoldInv'
      BY <1>1, <1>3 DEF AddTimer, HoldInv
    <2>2. LinkInv'
      BY <1>3 DEF LinkInv, AllRepairs
    <2>3. AgeInv'
      BY <1>3 DEF AddTimer, AgeInv
    <2> QED BY <2>1, <2>2, <2>3
  <1>4. CASE "queue" \in repairs
    <2>1. PICK t \in FreshTimer :
             /\ queue' = queue \cup {t}
             /\ exp' = [exp EXCEPT ![t] = ExpiredTime(reading, d)]
             /\ deleted' = [Separated(c) EXCEPT ![t] = FALSE]
             /\ holds' = [DroppedHold(holds, Locked(c)) EXCEPT ![t] = c]
             /\ born' = [born EXCEPT ![t] = reading]
             /\ timeout' = [timeout EXCEPT ![t] = d]
             /\ age' = [age EXCEPT ![t] = 0]
             /\ timer' = [timer EXCEPT ![c] = IF "link" \in repairs THEN t ELSE NoTimer]
      BY <1>4 DEF AddTimer
    <2>2. t \in Timers \ queue
      BY FreshIsFree
    <2>3. /\ deleted'[t] = FALSE /\ holds'[t] = c
          /\ exp'[t] = reading + d /\ born'[t] = reading
          /\ timeout'[t] = d /\ age'[t] = 0
      <3>1. Separated(c) \in [Timers -> BOOLEAN]
        BY DEF Separated
      <3>2. DroppedHold(holds, Locked(c)) \in [Timers -> Conns \cup {NoConn}]
        BY DEF DroppedHold, Forget
      <3> QED BY <2>1, <2>2, <3>1, <3>2 DEF ExpiredTime
    <2>4. \A u \in queue :
            /\ deleted'[u] = (deleted[u] \/ u \in Locked(c))
            /\ holds'[u] = IF u \in Locked(c) THEN NoConn ELSE holds[u]
      <3>1. \A u \in queue : deleted'[u] = Separated(c)[u]
        BY <2>1, <2>2 DEF Separated
      <3>2. \A u \in queue : holds'[u] = DroppedHold(holds, Locked(c))[u]
        BY <2>1, <2>2 DEF DroppedHold, Forget
      <3> QED BY <3>1, <3>2, <1>1
    <2>5. \A u \in queue :
            /\ exp'[u] = exp[u] /\ born'[u] = born[u]
            /\ timeout'[u] = timeout[u] /\ age'[u] = age[u]
      BY <2>1, <2>2
    <2>6. HoldInv'
      BY <2>1, <2>3, <2>4 DEF HoldInv
    <2>7. LinkInv'
      <3> SUFFICES ASSUME repairs = AllRepairs, NEW u \in queue', holds'[u] # NoConn
                   PROVE  timer'[holds'[u]] = u
        BY DEF LinkInv
      <3>1. timer'[c] = t
        BY <2>1 DEF AllRepairs
      <3>2. CASE u = t
        BY <3>1, <3>2, <2>3
      <3>3. CASE u # t
        <4>1. u \in queue /\ u \notin Locked(c) /\ holds'[u] = holds[u]
          BY <3>3, <2>1, <2>4
        <4>2. timer[holds[u]] = u
          BY <4>1 DEF LinkInv
        <4>3. holds[u] # c
          BY <4>1, <4>2, <1>2
        <4> QED BY <4>1, <4>2, <4>3, <2>1
      <3> QED BY <3>2, <3>3
    <2>8. AgeInv'
      <3>1. reading \in Nat
        BY DEF Readings
      <3> QED BY <2>1, <2>3, <2>5, <3>1 DEF AgeInv
    <2> QED BY <2>6, <2>7, <2>8
  <1> QED BY <1>3, <1>4

LEMMA IInvInductive == IInv /\ TypeOK' /\ [Next]_vars => IInv'
  <1> SUFFICES ASSUME IInv, TypeOK', [Next]_vars PROVE (HoldInv /\ LinkInv /\ AgeInv)'
    BY DEF IInv
  <1> USE TimerAssumption DEF TimerAssumption
  <1> USE DEF IInv
  <1>1. ASSUME NEW c \in Conns, NewEvent(c) PROVE (HoldInv /\ LinkInv /\ AgeInv)'
    BY <1>1, AddTimerStep DEF NewEvent
  <1>2. ASSUME NEW c \in Conns, HandleConn(c) PROVE (HoldInv /\ LinkInv /\ AgeInv)'
    BY <1>2, AddTimerStep DEF HandleConn
  <1>3. ASSUME NEW c \in Conns, EndConn(c) PROVE (HoldInv /\ LinkInv /\ AgeInv)'
    <2>1. \A u \in queue :
            /\ deleted'[u] = (deleted[u] \/ u \in Locked(c))
            /\ holds'[u] = IF u \in Locked(c) THEN NoConn ELSE holds[u]
      BY <1>3 DEF EndConn, Separated, DroppedHold, Forget, TypeOK
    <2>2. HoldInv'
      BY <1>3, <2>1 DEF EndConn, HoldInv
    <2>3. LinkInv'
      BY <1>3, <2>1 DEF EndConn, LinkInv, Locked, TypeOK
    <2>4. AgeInv'
      BY <1>3 DEF EndConn, AgeInv
    <2> QED BY <2>2, <2>3, <2>4
  <1>4. ASSUME NEW c \in Conns, Recurse(c) PROVE (HoldInv /\ LinkInv /\ AgeInv)'
    BY <1>4 DEF Recurse, timerVars, HoldInv, LinkInv, AgeInv
  <1>5. CASE EnterExpired \/ LeaveExpired
    BY <1>5 DEF EnterExpired, LeaveExpired, timerVars, HoldInv, LinkInv, AgeInv
  <1>6. CASE PopTimer
    <2>1. PICK t \in Timers :
            /\ queue' = queue \ {t}
            /\ timer' = [c \in Conns |-> IF timer[c] = t THEN NoTimer ELSE timer[c]]
            /\ deleted' = [deleted EXCEPT ![t] = FALSE]
            /\ holds' = [holds EXCEPT ![t] = NoConn]
            /\ exp' = [exp EXCEPT ![t] = 0]
            /\ born' = [born EXCEPT ![t] = 0]
            /\ timeout' = [timeout EXCEPT ![t] = FirstTimeout]
            /\ age' = [age EXCEPT ![t] = 0]
      BY <1>6 DEF PopTimer
    <2>2. \A u \in queue' :
            /\ u \in queue /\ u # t
            /\ deleted'[u] = deleted[u] /\ holds'[u] = holds[u]
            /\ exp'[u] = exp[u] /\ born'[u] = born[u]
            /\ timeout'[u] = timeout[u] /\ age'[u] = age[u]
      BY <2>1 DEF TypeOK
    <2>3. HoldInv' /\ LinkInv'
      BY <1>6, <2>1, <2>2 DEF PopTimer, HoldInv, LinkInv, TypeOK
    <2>4. AgeInv'
      BY <1>6, <2>2 DEF PopTimer, AgeInv
    <2> QED BY <2>3, <2>4
  <1>7. CASE Tick
    <2>1. HoldInv' /\ LinkInv'
      BY <1>7 DEF Tick, HoldInv, LinkInv
    <2>2. reading' = IF reading = Period - 1 THEN 0 ELSE reading + 1
      BY <1>7, NextReadingIs DEF Tick, TypeOK
    <2> SUFFICES ASSUME NEW t \in queue
                 PROVE  /\ exp'[t] = born'[t] + timeout'[t]
                        /\ born'[t] + age'[t] < Period => reading' = born'[t] + age'[t]
                        /\ \/ age'[t] = AgeBound
                           \/ /\ reading' >= born'[t] => age'[t] >= reading' - born'[t]
                              /\ reading' < born'[t] => age'[t] >= (Period - born'[t]) + reading'
      BY <1>7, <2>1 DEF Tick, AgeInv
    <2>3. /\ born[t] \in Nat /\ born[t] <= Period - 1
          /\ reading \in Nat /\ reading <= Period - 1
          /\ age[t] \in Nat /\ age[t] <= AgeBound
      BY DEF TypeOK, Readings
    <2>4. age'[t] = IF age[t] < AgeBound THEN age[t] + 1 ELSE age[t]
      BY <1>7 DEF Tick, Older, TypeOK
    <2>5. born'[t] = born[t] /\ exp'[t] = exp[t] /\ timeout'[t] = timeout[t]
      BY <1>7 DEF Tick
    <2>6. \/ age[t] = AgeBound
          \/ /\ reading >= born[t] => age[t] >= reading - born[t]
             /\ reading < born[t] => age[t] >= (Period - born[t]) + reading
      BY DEF AgeInv
    <2>7. exp[t] = born[t] + timeout[t]
      BY DEF AgeInv
    <2>8. born[t] + age[t] < Period => reading = born[t] + age[t]
      BY DEF AgeInv
    <2>9. born'[t] + age'[t] < Period => reading' = born'[t] + age'[t]
      BY <2>2, <2>3, <2>4, <2>5, <2>8
    <2> QED BY <2>2, <2>3, <2>4, <2>5, <2>6, <2>7, <2>9
  <1>8. CASE UNCHANGED vars
    BY <1>8 DEF vars, HoldInv, LinkInv, AgeInv
  <1> QED BY <1>1, <1>2, <1>3, <1>4, <1>5, <1>6, <1>7, <1>8 DEF Next

LEMMA IInvHolds == Spec => []IInv
  <1>1. Init => HoldInv /\ LinkInv /\ AgeInv
    BY DEF Init, HoldInv, LinkInv, AgeInv
  <1> QED BY <1>1, TypeCorrect, IInvInductive, PTL DEF Spec, IInv

------------------------------------------------------------------------------
LEMMA TypedTimer ==
  ASSUME IInv, NEW t \in Timers
  PROVE  /\ born[t] \in Nat /\ reading \in Nat /\ reading <= Period - 1
         /\ age[t] \in Nat
         /\ timeout[t] \in Nat /\ timeout[t] <= AgeBound
  <1> USE TimerAssumption DEF TimerAssumption
  <1>1. born[t] \in Readings /\ reading \in Readings
        /\ timeout[t] \in Timeouts /\ age[t] \in 0..AgeBound
    BY DEF IInv, TypeOK
  <1>2. timeout[t] \in Nat /\ timeout[t] <= AgeBound
    BY <1>1
  <1> QED BY <1>1, <1>2 DEF Readings

(* A timer that closes a connection was due, by the clock.                 *)
LEMMA ClosingIsDue ==
  ASSUME IInv, [Next]_vars
  PROVE  \A t \in Closing : exp[t] <= reading
  <1> SUFFICES ASSUME NEW t \in Closing PROVE exp[t] <= reading
    OBVIOUS
  <1>1. t \in queue /\ t \notin queue' /\ holds[t] # NoConn
    BY DEF Closing
  <1>2. PopTimer
    BY <1>1 DEF Next, vars, timerVars, NewEvent, HandleConn, AddTimer, EndConn,
                Recurse, EnterExpired, LeaveExpired, Tick
  <1>3. Due(t)
    BY <1>1, <1>2 DEF PopTimer
  <1> QED BY <1>1, <1>3 DEF Due, IInv, HoldInv

(* No timer closes a connection before its timeout has passed              *)
(* (Timer::isValid).                                                       *)
THEOREM ClosesInTime == Spec => NeverEarly
  <1> USE TimerAssumption DEF TimerAssumption
  <1>1. IInv /\ [Next]_vars => [\A t \in Closing : age[t] >= timeout[t]]_vars
    <2> SUFFICES ASSUME IInv, [Next]_vars, NEW t \in Closing PROVE age[t] >= timeout[t]
      OBVIOUS
    <2>1. t \in queue /\ t \in Timers
      BY DEF Closing, IInv, TypeOK
    <2>2. exp[t] <= reading
      BY ClosingIsDue
    <2>3. /\ born[t] \in Nat /\ reading \in Nat /\ age[t] \in Nat
          /\ timeout[t] \in Nat /\ timeout[t] <= AgeBound
      BY <2>1, TypedTimer
    <2>4. /\ exp[t] = born[t] + timeout[t]
          /\ \/ age[t] = AgeBound
             \/ reading >= born[t] => age[t] >= reading - born[t]
      BY <2>1 DEF IInv, AgeInv
    <2> QED BY <2>2, <2>3, <2>4
  <1> QED BY <1>1, IInvHolds, PTL DEF Spec, NeverEarly

(* A timer whose deadline lies beyond the wrap of the clock closes nothing *)
(* (Timer's constructor and isValid).                                      *)
THEOREM ForgottenAtWrap == Spec => WrapForgets
  <1> USE TimerAssumption DEF TimerAssumption
  <1>1. IInv /\ [Next]_vars => [\A t \in Closing : born[t] + timeout[t] < Period]_vars
    <2> SUFFICES ASSUME IInv, [Next]_vars, NEW t \in Closing
                 PROVE  born[t] + timeout[t] < Period
      OBVIOUS
    <2>1. t \in queue /\ t \in Timers
      BY DEF Closing, IInv, TypeOK
    <2>2. exp[t] <= reading /\ exp[t] = born[t] + timeout[t]
      BY <2>1, ClosingIsDue DEF IInv, AgeInv
    <2>3. /\ reading \in Nat /\ reading <= Period - 1
          /\ born[t] \in Nat /\ timeout[t] \in Nat
      BY <2>1, TypedTimer
    <2> QED BY <2>2, <2>3
  <1> QED BY <1>1, IInvHolds, PTL DEF Spec, WrapForgets

(* Whatever is left in the queue when handleExpired returns and is past    *)
(* its timeout, the clock has wrapped over (handleExpiredTimer, TimerCmp). *)
THEOREM PoppedInTime == Spec => LateOnlyByWrap
  <1> USE TimerAssumption DEF TimerAssumption
  <1> DEFINE LateWrapped ==
        pc = "expire" /\ pc' = "turn" =>
          \A t \in queue : age[t] >= timeout[t] => born[t] + age[t] >= Period
  <1>1. IInv /\ [Next]_vars => [LateWrapped]_vars
    <2> SUFFICES ASSUME IInv, [Next]_vars, pc = "expire", pc' = "turn",
                        NEW u \in queue, age[u] >= timeout[u]
                 PROVE  born[u] + age[u] >= Period
      OBVIOUS
    <2>1. LeaveExpired
      BY DEF Next, vars, NewEvent, HandleConn, EndConn, Recurse, EnterExpired, PopTimer, Tick
    <2>2. PICK t \in Timers : Top(t) /\ ~Due(t)
      BY <2>1 DEF LeaveExpired
    <2>3. u \in Timers /\ t \in Timers /\ exp \in [Timers -> Nat] /\ reading \in Readings
      BY DEF IInv, TypeOK
    <2>4. ~(exp[t] > exp[u]) /\ ~(exp[t] <= reading)
      BY <2>2 DEF Top, TimerCmp, Due
    <2>5. exp[u] > reading
      BY <2>3, <2>4 DEF Readings
    <2>6. /\ exp[u] = born[u] + timeout[u]
          /\ born[u] + age[u] < Period => reading = born[u] + age[u]
      BY DEF IInv, AgeInv
    <2>7. born[u] \in Nat /\ age[u] \in Nat /\ timeout[u] \in Nat
      BY <2>3, TypedTimer
    <2> QED BY <2>5, <2>6, <2>7
  <1> QED BY <1>1, IInvHolds, PTL DEF Spec, LateOnlyByWrap

(* With the three repairs, the timer that closes a connection is the one   *)
(* of its last activity (HttpData::seperateTimer, Timer::clearReq).        *)
THEOREM OnlyLatestCloses == Spec => OnlyIdleClosed
  <1>1. IInv /\ [Next]_vars =>
          [repairs = AllRepairs => \A t \in Closing : timer[holds[t]] = t]_vars
    BY DEF IInv, LinkInv, Closing
  <1> QED BY <1>1, IInvHolds, PTL DEF Spec, OnlyIdleClosed
==============================================================================
