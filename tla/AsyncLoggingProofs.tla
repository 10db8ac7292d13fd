-------------------------- MODULE AsyncLoggingProofs --------------------------
(***************************************************************************)
(* Proofs about AsyncLogging for every heap, buffer size, high-water mark  *)
(* and number of lines, with and without the reset of the full buffer.     *)
(***************************************************************************)
EXTENDS AsyncLogging, SequenceLemmas, TLAPS

(* How far the start has come, on the logging threads' side ...            *)
OnceInv ==
  /\ once = "never" => currentBuffer = Null /\ nextBuffer = Null /\ buffers = <<>>
  /\ once # "never" => currentBuffer # Null
  /\ once \in {"never", "creating"} => backendPc = "none"
  /\ once \in {"creating", "latch"} => running
  /\ once = "done" => backendPc \notin {"none", "boot"}

(* ... and what the backend has in hand: nothing before it has booted, two *)
(* empty buffers between two rounds, and in a round a batch that holds one *)
(* buffer more if it has given its second one away.                        *)
HandInv ==
  /\ backendPc \in {"none", "boot"} =>
       newBuffer1 = Null /\ newBuffer2 = Null /\ buffersToWrite = <<>>
  /\ backendPc \in {"test", "collect", "waiting", "exited"} =>
       /\ newBuffer1 # Null /\ content[newBuffer1] = <<>>
       /\ newBuffer2 # Null /\ buffersToWrite = <<>>
  /\ backendPc \in {"trim", "write"} =>
       /\ newBuffer1 = Null
       /\ Len(buffersToWrite) >= IF newBuffer2 = Null THEN 2 ELSE 1
  /\ newBuffer2 # Null => content[newBuffer2] = <<>>

(* The spare buffer is only gone after a full one has been pushed, and the *)
(* heap hands out empty buffers.                                           *)
SpareInv ==
  /\ once # "never" /\ nextBuffer = Null => buffers # <<>>
  /\ \A b \in Free : content[b] = <<>>

IInv == TypeOK /\ OnceInv /\ HandInv /\ SpareInv /\ Unshared

------------------------------------------------------------------------------
(* The heap hands out buffers nobody refers to, two of them distinct.      *)
LEMMA HeapPair ==
  ASSUME HeapHolds(2)
  PROVE  /\ NewBuffer \in Free /\ SecondNewBuffer \in Free
         /\ NewBuffer # SecondNewBuffer
<1>1. Free \ {NewBuffer} # {}
  BY DEF HeapHolds
<1>2. NewBuffer \in Free
  BY <1>1 DEF NewBuffer
<1>3. SecondNewBuffer \in Free \ {NewBuffer}
  BY <1>1 DEF SecondNewBuffer
<1> QED
  BY <1>2, <1>3

LEMMA HeapOne == ASSUME HeapHolds(1) PROVE NewBuffer \in Free
  BY DEF HeapHolds, NewBuffer

LEMMA InitIInv == Init => IInv
<1> SUFFICES ASSUME Init PROVE IInv
  OBVIOUS
<1> USE LoggingAssumption DEF Init
<1>1. TypeOK
  <2>1. content \in [Buffers -> Seq(Nat)] /\ buffers \in Seq(Buffers)
    BY EmptySeq
  <2> QED
    BY <2>1, EmptySeq DEF TypeOK, BackendPoints
<1>2. OnceInv /\ HandInv
  BY DEF OnceInv, HandInv
<1>3. SpareInv
  BY DEF SpareInv, Free
<1>4. Unshared
  BY DEF Unshared, FrontBuffers, BackBuffers, Range, IsInjective
<1> QED
  BY <1>1, <1>2, <1>3, <1>4 DEF IInv

(* The handshake of the start.                                             *)
LEMMA OnceStep == IInv /\ [Next]_vars => OnceInv'
<1> SUFFICES ASSUME IInv, [Next]_vars PROVE OnceInv'
  OBVIOUS
<1> USE LoggingAssumption DEF IInv, TypeOK, OnceInv, HandInv, Free, Referenced
<1>1. CASE OnceInit
  BY <1>1, HeapPair DEF OnceInit, frontVars, backVars
<1>2. CASE StartThread
  BY <1>2 DEF StartThread, frontVars, backVars
<1>3. CASE LatchReleased
  BY <1>3 DEF LatchReleased, frontVars, backVars
<1>4. CASE AppendToCurrent
  BY <1>4 DEF AppendToCurrent, frontVars, backVars
<1>5. CASE AppendToNext
  <2>1. currentBuffer' \in Buffers
    BY <1>5, HeapOne DEF AppendToNext, Pushed
  <2> QED
    BY <1>5, <2>1 DEF AppendToNext, Pushed, CanAppend, backVars
<1>6. CASE Stop
  BY <1>6 DEF Stop, frontVars, backVars
<1>7. CASE Boot
  BY <1>7, HeapPair DEF Boot, frontVars, backVars
<1>8. CASE TestRunning
  BY <1>8 DEF TestRunning, frontVars, backVars
<1>9. CASE WaitForFull
  BY <1>9 DEF WaitForFull, frontVars, backVars
<1>10. CASE SwapBuffers
  BY <1>10 DEF SwapBuffers, MayTake, TakeBuffers, frontVars, backVars
<1>11. CASE Trim
  BY <1>11 DEF Trim, frontVars, backVars
<1>12. CASE WriteBuffer
  BY <1>12 DEF WriteBuffer, MoreToWrite, frontVars, backVars
<1>13. CASE Recycle
  BY <1>13 DEF Recycle, MoreToWrite, AfterPop, frontVars, backVars
<1>14. CASE UNCHANGED vars
  BY <1>14 DEF vars, frontVars, backVars
<1> QED
  BY <1>1, <1>2, <1>3, <1>4, <1>5, <1>6, <1>7, <1>8, <1>9, <1>10, <1>11, <1>12, <1>13, <1>14
  DEF Next, Frontend, Backend

(* What Recycle keeps are the first two buffers of the batch, or all.      *)
LEMMA RecycledFromBatch ==
  ASSUME IInv, Recycle
  PROVE  /\ newBuffer1' \in Range(buffersToWrite)
         /\ IF newBuffer2 = Null THEN newBuffer2' \in Range(buffersToWrite)
                                      /\ newBuffer2' # newBuffer1'
                                 ELSE newBuffer2' = newBuffer2
<1> USE DEF IInv, TypeOK, HandInv
<1> DEFINE k == IF Len(buffersToWrite) > 2 THEN 2 ELSE Len(buffersToWrite)
           kept == IF Len(buffersToWrite) > 2 THEN FirstTwo(buffersToWrite)
                                              ELSE buffersToWrite
<1>1. /\ Len(buffersToWrite) >= IF newBuffer2 = Null THEN 2 ELSE 1
      /\ Len(buffersToWrite) \in Nat /\ IsInjective(buffersToWrite)
      /\ DOMAIN buffersToWrite = 1..Len(buffersToWrite)
  BY DEF Recycle, MoreToWrite, AfterPop, Unshared
<1>2. /\ Len(kept) = k
      /\ \A i \in 1..k : kept[i] = buffersToWrite[i]
  <2>1. CASE Len(buffersToWrite) > 2
    <3>1. 2 \in 0..Len(buffersToWrite)
      BY <1>1, <2>1
    <3> QED
      BY <2>1, <3>1, PrefixProperties DEF FirstTwo
  <2>2. CASE ~(Len(buffersToWrite) > 2)
    BY <2>2
  <2> QED
    BY <2>1, <2>2
<1>3. /\ newBuffer1' = kept[Len(kept)]
      /\ newBuffer2' = IF newBuffer2 = Null THEN kept[Len(kept) - 1] ELSE newBuffer2
  BY DEF Recycle, MoreToWrite, AfterPop
<1> HIDE DEF kept
<1>4. k \in 1..Len(buffersToWrite) /\ newBuffer1' = buffersToWrite[k]
  BY <1>1, <1>2, <1>3
<1>5. ASSUME newBuffer2 = Null
      PROVE  k - 1 \in 1..Len(buffersToWrite) /\ newBuffer2' = buffersToWrite[k - 1]
  BY <1>1, <1>2, <1>3, <1>5
<1>6. ASSUME newBuffer2 = Null PROVE newBuffer2' # newBuffer1'
  <2>1. k # k - 1 /\ k \in DOMAIN buffersToWrite /\ k - 1 \in DOMAIN buffersToWrite
    BY <1>1, <1>4, <1>5, <1>6
  <2>2. buffersToWrite[k] # buffersToWrite[k - 1]
    BY <1>1, <2>1 DEF IsInjective
  <2> QED
    BY <1>4, <1>5, <1>6, <2>2
<1> QED
  BY <1>1, <1>3, <1>4, <1>5, <1>6 DEF Range

(* Trim keeps the first two buffers of a long batch, or all of a short one.*)
LEMMA TrimmedBatch ==
  ASSUME IInv, Trim
  PROVE  /\ buffersToWrite' \in Seq(Buffers)
         /\ Len(buffersToWrite') >= IF newBuffer2 = Null THEN 2 ELSE 1
         /\ Range(buffersToWrite') \subseteq Range(buffersToWrite)
         /\ IsInjective(buffersToWrite')
<1> USE LoggingAssumption DEF IInv, TypeOK, HandInv, Unshared
<1>1. CASE Len(buffersToWrite) > HighWater
  <2>1. 2 \in 0..Len(buffersToWrite)
    BY <1>1
  <2>2. buffersToWrite' = SubSeq(buffersToWrite, 1, 2)
    BY <1>1 DEF Trim, FirstTwo
  <2> QED
    BY <2>1, <2>2, PrefixProperties
<1>2. CASE ~(Len(buffersToWrite) > HighWater)
  BY <1>2 DEF Trim
<1> QED
  BY <1>1, <1>2

(* What the backend has in hand.                                           *)
LEMMA HandStep == IInv /\ [Next]_vars => HandInv'
<1> SUFFICES ASSUME IInv, [Next]_vars PROVE HandInv'
  OBVIOUS
<1> USE LoggingAssumption DEF IInv, TypeOK, OnceInv, HandInv, SpareInv, Unshared, FrontBuffers, BackBuffers
<1>1. CASE OnceInit
  BY <1>1, HeapPair DEF OnceInit, frontVars, backVars
<1>2. CASE StartThread
  BY <1>2 DEF StartThread, frontVars, backVars
<1>3. CASE LatchReleased
  BY <1>3 DEF LatchReleased, frontVars, backVars
<1>4. CASE AppendToCurrent
  BY <1>4 DEF AppendToCurrent, frontVars, backVars
<1>5. CASE AppendToNext
  <2>1. currentBuffer \notin {newBuffer1, newBuffer2}
    BY <1>5 DEF AppendToNext, Pushed, CanAppend
  <2>2. currentBuffer' \notin {newBuffer1, newBuffer2}
    BY <1>5, HeapOne DEF AppendToNext, Pushed, Free, Referenced
  <2>3. \A b \in Buffers : b \notin {currentBuffer, currentBuffer'} => content'[b] = content[b]
    BY <1>5 DEF AppendToNext, Pushed, AfterPush
  <2> QED
    BY <1>5, <2>1, <2>2, <2>3 DEF AppendToNext, Pushed, backVars
<1>6. CASE Stop
  BY <1>6 DEF Stop, frontVars, backVars
<1>7. CASE Boot
  <2>1. newBuffer1' \in Free /\ newBuffer2' \in Free
    BY <1>7, HeapPair DEF Boot
  <2>2. newBuffer1' # Null /\ newBuffer2' # Null
    BY <2>1 DEF Free
  <2> QED
    BY <1>7, <2>1, <2>2 DEF Boot, frontVars
<1>8. CASE TestRunning
  BY <1>8 DEF TestRunning, frontVars, backVars
<1>9. CASE WaitForFull
  BY <1>9 DEF WaitForFull, frontVars, backVars
<1>10. CASE SwapBuffers
  BY <1>10 DEF SwapBuffers, MayTake, TakeBuffers, frontVars, backVars
<1>11. CASE Trim
  <2>1. Len(buffersToWrite') >= IF newBuffer2 = Null THEN 2 ELSE 1
    BY <1>11, TrimmedBatch
  <2>2. newBuffer2 # Null => content'[newBuffer2] = <<>>
    BY <1>11 DEF Trim, Destroy
  <2> QED
    BY <1>11, <2>1, <2>2 DEF Trim
<1>12. CASE WriteBuffer
  BY <1>12 DEF WriteBuffer, MoreToWrite, frontVars, backVars
<1>13. CASE Recycle
  <2>1. /\ newBuffer1' \in Range(buffersToWrite)
        /\ IF newBuffer2 = Null THEN newBuffer2' \in Range(buffersToWrite)
                                     /\ newBuffer2' # newBuffer1'
                                ELSE newBuffer2' = newBuffer2
    BY <1>13, RecycledFromBatch
  <2>2. \A b \in Buffers : content'[b] = IF b \in Range(buffersToWrite) THEN <<>> ELSE content[b]
    BY <1>13 DEF Recycle, MoreToWrite, AfterPop, Destroy
  <2>3. Range(buffersToWrite) \subseteq Buffers
    BY RangeOfSeq
  <2>4. newBuffer1' # Null /\ content'[newBuffer1'] = <<>>
    BY <2>1, <2>2, <2>3
  <2>5. newBuffer2' # Null /\ content'[newBuffer2'] = <<>>
    BY <2>1, <2>2, <2>3
  <2>6. backendPc' = "test" /\ buffersToWrite' = <<>>
    BY <1>13 DEF Recycle
  <2> QED
    BY <2>4, <2>5, <2>6
<1>14. CASE UNCHANGED vars
  BY <1>14 DEF vars, frontVars, backVars
<1> QED
  BY <1>1, <1>2, <1>3, <1>4, <1>5, <1>6, <1>7, <1>8, <1>9, <1>10, <1>11, <1>12, <1>13, <1>14
  DEF Next, Frontend, Backend

(* Every step keeps the types.                                             *)
LEMMA TypeStep == IInv /\ [Next]_vars => TypeOK'
<1> SUFFICES ASSUME IInv, [Next]_vars PROVE TypeOK'
  OBVIOUS
<1> USE LoggingAssumption DEF IInv, TypeOK, OnceInv, BackendPoints, Free, Referenced
<1>1. CASE OnceInit
  BY <1>1, HeapPair DEF OnceInit, frontVars, backVars
<1>2. CASE StartThread
  BY <1>2 DEF StartThread, frontVars, backVars
<1>3. CASE LatchReleased
  BY <1>3 DEF LatchReleased, frontVars, backVars
<1>4. CASE AppendToCurrent
  <2>1. currentBuffer \in Buffers /\ appended' \in Nat
    BY <1>4 DEF AppendToCurrent, CanAppend
  <2>2. Append(content[currentBuffer], appended') \in Seq(Nat)
    BY <2>1, AppendProperties
  <2>3. content' \in [Buffers -> Seq(Nat)]
    BY <1>4, <2>1, <2>2 DEF AppendToCurrent
  <2> QED
    BY <1>4, <2>1, <2>3 DEF AppendToCurrent, frontVars, backVars
<1>5. CASE AppendToNext
  <2>1. currentBuffer \in Buffers /\ currentBuffer' \in Buffers /\ appended' \in Nat
    BY <1>5, HeapOne DEF AppendToNext, Pushed, CanAppend
  <2>2. AfterPush \in [Buffers -> Seq(Nat)]
    BY <2>1, EmptySeq DEF AfterPush
  <2>3. content' = [AfterPush EXCEPT ![currentBuffer'] = Append(@, appended')]
    BY <1>5 DEF AppendToNext, Pushed
  <2>4. Append(AfterPush[currentBuffer'], appended') \in Seq(Nat)
    BY <2>1, <2>2, AppendProperties
  <2>5. content' \in [Buffers -> Seq(Nat)]
    BY <2>1, <2>2, <2>3, <2>4
  <2>6. buffers' \in Seq(Buffers)
    BY <1>5, <2>1, AppendProperties DEF AppendToNext, Pushed
  <2> QED
    BY <1>5, <2>1, <2>5, <2>6 DEF AppendToNext, Pushed, backVars
<1>6. CASE Stop
  BY <1>6 DEF Stop, frontVars, backVars
<1>7. CASE Boot
  BY <1>7, HeapPair DEF Boot, frontVars, backVars
<1>8. CASE TestRunning
  BY <1>8 DEF TestRunning, frontVars, backVars
<1>9. CASE WaitForFull
  BY <1>9 DEF WaitForFull, frontVars, backVars
<1>10. CASE SwapBuffers
  <2>1. currentBuffer \in Buffers
    BY <1>10 DEF SwapBuffers, MayTake, TakeBuffers
  <2>2. buffersToWrite' \in Seq(Buffers)
    BY <1>10, <2>1, AppendProperties DEF SwapBuffers, MayTake, TakeBuffers
  <2> QED
    BY <1>10, <2>2 DEF SwapBuffers, MayTake, TakeBuffers
<1>11. CASE Trim
  <2>1. buffersToWrite' \in Seq(Buffers)
    BY <1>11, TrimmedBatch
  <2>2. content' \in [Buffers -> Seq(Nat)]
    BY <1>11, EmptySeq DEF Trim, Destroy
  <2> QED
    BY <1>11, <2>1, <2>2 DEF Trim, frontVars
<1>12. CASE WriteBuffer
  BY <1>12 DEF WriteBuffer, MoreToWrite, frontVars, backVars
<1>13. CASE Recycle
  <2>1. newBuffer1' \in Buffers /\ newBuffer2' \in Buffers
    BY <1>13, RecycledFromBatch, RangeOfSeq
  <2>2. content' \in [Buffers -> Seq(Nat)]
    BY <1>13, EmptySeq DEF Recycle, MoreToWrite, AfterPop, Destroy
  <2> QED
    BY <1>13, <2>1, <2>2, EmptySeq DEF Recycle, MoreToWrite, AfterPop, frontVars
<1>14. CASE UNCHANGED vars
  BY <1>14 DEF vars, frontVars, backVars
<1> QED
  BY <1>1, <1>2, <1>3, <1>4, <1>5, <1>6, <1>7, <1>8, <1>9, <1>10, <1>11, <1>12, <1>13, <1>14
  DEF Next, Frontend, Backend

(* The heap stays clean and the spare buffer is replaced in time.          *)
LEMMA SpareStep == IInv /\ [Next]_vars => SpareInv'
<1> SUFFICES ASSUME IInv, [Next]_vars PROVE SpareInv'
  OBVIOUS
<1> USE LoggingAssumption DEF IInv, TypeOK, OnceInv, HandInv, SpareInv, Free, Referenced
<1>1. CASE OnceInit
  BY <1>1, HeapPair DEF OnceInit, frontVars, backVars
<1>2. CASE StartThread
  BY <1>2 DEF StartThread, frontVars, backVars
<1>3. CASE LatchReleased
  BY <1>3 DEF LatchReleased, frontVars, backVars
<1>4. CASE AppendToCurrent
  BY <1>4 DEF AppendToCurrent, frontVars, backVars
<1>5. CASE AppendToNext
  <2>1. currentBuffer \in Buffers /\ currentBuffer' \in Buffers
    BY <1>5, HeapOne DEF AppendToNext, Pushed, CanAppend
  <2>2. Range(buffers') = Range(buffers) \cup {currentBuffer}
    BY <1>5, <2>1, RangeAppend DEF AppendToNext, Pushed
  <2>3. Free' \subseteq Free \ {currentBuffer, currentBuffer'}
    BY <1>5, <2>2 DEF AppendToNext, Pushed, backVars
  <2>4. \A b \in Buffers : b \notin {currentBuffer, currentBuffer'} => content'[b] = content[b]
    BY <1>5 DEF AppendToNext, Pushed, AfterPush
  <2>5. buffers' # <<>>
    <3>1. Len(buffers') = Len(buffers) + 1 /\ Len(buffers) \in Nat
      BY <1>5, <2>1 DEF AppendToNext, Pushed
    <3> QED
      BY <3>1, EmptySeq
  <2> QED
    BY <2>3, <2>4, <2>5
<1>6. CASE Stop
  BY <1>6 DEF Stop, frontVars, backVars
<1>7. CASE Boot
  BY <1>7, HeapPair DEF Boot, frontVars, backVars
<1>8. CASE TestRunning
  BY <1>8 DEF TestRunning, frontVars, backVars
<1>9. CASE WaitForFull
  BY <1>9 DEF WaitForFull, frontVars, backVars
<1>10. CASE SwapBuffers
  <2>1. currentBuffer \in Buffers
    BY <1>10 DEF SwapBuffers, MayTake, TakeBuffers
  <2>2. Range(buffersToWrite') = Range(buffers) \cup {currentBuffer}
    BY <1>10, <2>1, RangeAppend DEF SwapBuffers, MayTake, TakeBuffers
  <2>3. Free' \subseteq Free
    BY <1>10, <2>2 DEF SwapBuffers, MayTake, TakeBuffers
  <2> QED
    BY <1>10, <2>3 DEF SwapBuffers, MayTake, TakeBuffers
<1>11. CASE Trim
  <2>1. \A b \in Buffers : b \in Free' => b \in Free \/ b \in Range(buffersToWrite) \ Range(buffersToWrite')
    BY <1>11 DEF Trim, frontVars
  <2>2. \A b \in Buffers : content'[b] =
          IF b \in Range(buffersToWrite) /\ b \notin Range(buffersToWrite') THEN <<>> ELSE content[b]
    BY <1>11 DEF Trim, Destroy
  <2>3. \A b \in Free' : content'[b] = <<>>
    BY <2>1, <2>2
  <2> QED
    BY <1>11, <2>3 DEF Trim, frontVars
<1>12. CASE WriteBuffer
  BY <1>12 DEF WriteBuffer, MoreToWrite, frontVars, backVars
<1>13. CASE Recycle
  <2>1. newBuffer1 = Null /\ (newBuffer2 # Null => newBuffer2' = newBuffer2)
    BY <1>13 DEF Recycle, MoreToWrite, AfterPop
  <2>2. \A b \in Buffers : b \in Free' => b \in Free \/ b \in Range(buffersToWrite)
    BY <1>13, <2>1 DEF Recycle, MoreToWrite, AfterPop, frontVars
  <2>3. \A b \in Buffers : content'[b] = IF b \in Range(buffersToWrite) THEN <<>> ELSE content[b]
    BY <1>13 DEF Recycle, MoreToWrite, AfterPop, Destroy
  <2>4. \A b \in Free' : content'[b] = <<>>
    BY <2>2, <2>3
  <2> QED
    BY <1>13, <2>4 DEF Recycle, MoreToWrite, AfterPop, frontVars
<1>14. CASE UNCHANGED vars
  BY <1>14 DEF vars, frontVars, backVars
<1> QED
  BY <1>1, <1>2, <1>3, <1>4, <1>5, <1>6, <1>7, <1>8, <1>9, <1>10, <1>11, <1>12, <1>13, <1>14
  DEF Next, Frontend, Backend

(* No buffer gets a second owner.                                          *)
LEMMA UnsharedStep == IInv /\ [Next]_vars => Unshared'
<1> SUFFICES ASSUME IInv, [Next]_vars PROVE Unshared'
  OBVIOUS
<1> USE LoggingAssumption DEF IInv, TypeOK, OnceInv, HandInv, Unshared, FrontBuffers, BackBuffers
<1>1. CASE OnceInit
  BY <1>1, HeapPair DEF OnceInit, frontVars, backVars
<1>2. CASE StartThread
  BY <1>2 DEF StartThread, frontVars, backVars
<1>3. CASE LatchReleased
  BY <1>3 DEF LatchReleased, frontVars, backVars
<1>4. CASE AppendToCurrent
  BY <1>4 DEF AppendToCurrent, frontVars, backVars
<1>5. CASE AppendToNext
  <2>1. currentBuffer \in Buffers /\ currentBuffer' \in Buffers
    BY <1>5, HeapOne DEF AppendToNext, Pushed, CanAppend, Free
  <2>2. Range(buffers') = Range(buffers) \cup {currentBuffer}
    BY <1>5, <2>1, RangeAppend DEF AppendToNext, Pushed
  <2>3. IsInjective(buffers')
    BY <1>5, <2>1, InjectiveAppend DEF AppendToNext, Pushed
  <2>4. /\ currentBuffer' \notin Range(buffers) \cup {currentBuffer}
        /\ currentBuffer' \notin BackBuffers
    BY <1>5, <2>1, HeapOne DEF AppendToNext, Pushed, Free, Referenced
  <2>5. Null \notin Range(buffers) \cup {currentBuffer}
    BY <2>1, RangeOfSeq
  <2> QED
    BY <1>5, <2>1, <2>2, <2>3, <2>4, <2>5 DEF AppendToNext, Pushed, backVars
<1>6. CASE Stop
  BY <1>6 DEF Stop, frontVars, backVars
<1>7. CASE Boot
  <2>1. /\ newBuffer1' \in Free /\ newBuffer2' \in Free
        /\ newBuffer1' # newBuffer2'
    BY <1>7, HeapPair DEF Boot
  <2>2. /\ {newBuffer1', newBuffer2'} \cap FrontBuffers = {}
        /\ {newBuffer1', newBuffer2'} \cap Range(buffersToWrite) = {}
    BY <2>1 DEF Free, Referenced
  <2>3. buffersToWrite = <<>> /\ Range(buffersToWrite) = {}
    BY <1>7 DEF Boot, Range
  <2> QED
    BY <1>7, <2>1, <2>2, <2>3 DEF Boot, frontVars
<1>8. CASE TestRunning
  BY <1>8 DEF TestRunning, frontVars, backVars
<1>9. CASE WaitForFull
  BY <1>9 DEF WaitForFull, frontVars, backVars
<1>10. CASE SwapBuffers
  <2>1. currentBuffer \in Buffers
    BY <1>10 DEF SwapBuffers, MayTake, TakeBuffers
  <2>2. Range(buffersToWrite') = Range(buffers) \cup {currentBuffer}
    BY <1>10, <2>1, RangeAppend DEF SwapBuffers, MayTake, TakeBuffers
  <2>3. IsInjective(buffersToWrite')
    BY <1>10, <2>1, InjectiveAppend DEF SwapBuffers, MayTake, TakeBuffers
  <2>4. Range(buffers') = {} /\ IsInjective(buffers')
    BY <1>10 DEF SwapBuffers, MayTake, TakeBuffers, Range
  <2>5. /\ newBuffer1 # Null /\ newBuffer2 # Null /\ newBuffer1 # newBuffer2
        /\ {newBuffer1, newBuffer2} \cap FrontBuffers = {}
    BY <1>10 DEF SwapBuffers, MayTake, TakeBuffers
  <2>6. Null \notin Range(buffersToWrite')
    BY <2>1, <2>2, RangeOfSeq
  <2>7. /\ currentBuffer' = newBuffer1 /\ newBuffer1' = Null
        /\ \/ nextBuffer' = newBuffer2 /\ newBuffer2' = Null
           \/ nextBuffer' = nextBuffer /\ newBuffer2' = newBuffer2
    BY <1>10 DEF SwapBuffers, TakeBuffers
  <2>8. /\ FrontBuffers' \subseteq {newBuffer1, nextBuffer'}
        /\ BackBuffers' \subseteq {Null, newBuffer2'} \cup Range(buffers) \cup {currentBuffer}
    BY <2>2, <2>4, <2>7
  <2>9. FrontBuffers' \cap BackBuffers' \subseteq {Null}
    BY <2>1, <2>5, <2>7, <2>8
  <2>10. /\ currentBuffer' = nextBuffer' => currentBuffer' = Null
         /\ newBuffer1' = newBuffer2' => newBuffer1' = Null
         /\ {currentBuffer', nextBuffer'} \cap Range(buffers') = {}
    BY <2>4, <2>5, <2>7
  <2>11. {newBuffer1', newBuffer2'} \cap Range(buffersToWrite') = {}
    BY <2>2, <2>5, <2>6, <2>7
  <2> QED
    BY <2>3, <2>4, <2>9, <2>10, <2>11
<1>11. CASE Trim
  <2>1. Range(buffersToWrite') \subseteq Range(buffersToWrite) /\ IsInjective(buffersToWrite')
    BY <1>11, TrimmedBatch
  <2> QED
    BY <1>11, <2>1 DEF Trim, frontVars
<1>12. CASE WriteBuffer
  BY <1>12 DEF WriteBuffer, MoreToWrite, frontVars, backVars
<1>13. CASE Recycle
  <2>1. /\ newBuffer1' \in Range(buffersToWrite)
        /\ IF newBuffer2 = Null THEN newBuffer2' \in Range(buffersToWrite)
                                     /\ newBuffer2' # newBuffer1'
                                ELSE newBuffer2' = newBuffer2
    BY <1>13, RecycledFromBatch
  <2>2. Range(buffersToWrite') = {} /\ IsInjective(buffersToWrite')
    BY <1>13 DEF Recycle, MoreToWrite, AfterPop, Range, IsInjective
  <2>3. Null \notin Range(buffersToWrite)
    BY RangeOfSeq
  <2>4. UNCHANGED <<currentBuffer, nextBuffer, buffers>>
    BY <1>13 DEF Recycle, frontVars
  <2>5. /\ {newBuffer1', newBuffer2'} \cap FrontBuffers \subseteq {Null}
        /\ newBuffer1' = newBuffer2' => newBuffer1' = Null
    BY <2>1, <2>3
  <2> QED
    BY <2>2, <2>4, <2>5
<1>14. CASE UNCHANGED vars
  BY <1>14 DEF vars, frontVars, backVars
<1> QED
  BY <1>1, <1>2, <1>3, <1>4, <1>5, <1>6, <1>7, <1>8, <1>9, <1>10, <1>11, <1>12, <1>13, <1>14
  DEF Next, Frontend, Backend

LEMMA StepIInv == IInv /\ [Next]_vars => IInv'
  BY OnceStep, HandStep, TypeStep, SpareStep, UnsharedStep DEF IInv

THEOREM Inductive == Spec => []IInv
  BY InitIInv, StepIInv, PTL DEF Spec

(* The variables of the logger keep their types.                           *)
THEOREM TypeCorrect == Spec => []TypeOK
<1>1. IInv => TypeOK
  BY DEF IInv
<1> QED
  BY <1>1, Inductive, PTL

(* In every run of every size, the backend's buffers are out of reach of   *)
(* append, and no two pointers name the same buffer (append, threadFunc).  *)
THEOREM NoSharedBuffer == Spec => []Unshared
<1>1. IInv => Unshared
  BY DEF IInv
<1> QED
  BY <1>1, Inductive, PTL

(* No assertion of threadFunc() ever fails, and append never dereferences  *)
(* an empty currentBuffer_: there are always enough buffers to recycle.    *)
THEOREM AssertionsNeverFail == Spec => []AssertionsHold
<1>1. IInv => AssertionsHold
  BY DEF IInv, TypeOK, OnceInv, HandInv, AssertionsHold
<1> QED
  BY <1>1, Inductive, PTL
------------------------------------------------------------------------------
(* As written, every pushed buffer is empty from its push to its write.    *)
PushedEmpty == \A b \in Range(buffers) : content[b] = <<>>

Emptied == PushedEmpty /\ FullBuffersArriveEmpty

(* What the invariant says of the buffers that have been pushed or taken.  *)
LEMMA PushedFacts ==
  ASSUME IInv
  PROVE  /\ Range(buffers) \subseteq Buffers /\ Range(buffersToWrite) \subseteq Buffers
         /\ \A i \in 1..Len(buffers) : buffers[i] \in Range(buffers)
         /\ \A i \in 1..Len(buffersToWrite) : buffersToWrite[i] \in Range(buffersToWrite)
         /\ Len(buffers) \in Nat /\ Len(buffersToWrite) \in Nat
         /\ currentBuffer # Null =>
              /\ currentBuffer \in Buffers
              /\ currentBuffer \notin Range(buffers)
              /\ currentBuffer \notin Range(buffersToWrite)
<1>1. buffers \in Seq(Buffers) /\ buffersToWrite \in Seq(Buffers)
  BY DEF IInv, TypeOK
<1>2. Range(buffers) \subseteq Buffers /\ Range(buffersToWrite) \subseteq Buffers
  BY <1>1, RangeOfSeq
<1>3. currentBuffer # Null => currentBuffer \in Buffers
  BY DEF IInv, TypeOK
<1>4. currentBuffer # Null =>
        currentBuffer \notin Range(buffers) /\ currentBuffer \notin Range(buffersToWrite)
  BY DEF IInv, Unshared, FrontBuffers, BackBuffers
<1> QED
  BY <1>1, <1>2, <1>3, <1>4 DEF Range

(* A step that fills no pushed or taken buffer, pushes nothing and takes   *)
(* nothing keeps them empty.                                               *)
LEMMA KeptEmpty ==
  ASSUME IInv, Emptied,
         \A b \in Range(buffers) \cup Range(buffersToWrite) :
           content[b] = <<>> => content'[b] = <<>>,
         buffers' = buffers, buffersToWrite' = buffersToWrite
  PROVE  Emptied'
<1>1. PushedEmpty'
  BY DEF Emptied, PushedEmpty
<1>2. FullBuffersArriveEmpty'
  BY PushedFacts DEF Emptied, FullBuffersArriveEmpty
<1> QED
  BY <1>1, <1>2 DEF Emptied

LEMMA EmptiedStep ==
  ASSUME ResetsObject, IInv, Emptied, [Next]_vars
  PROVE  Emptied'
<1>1. CASE OnceInit \/ StartThread \/ LatchReleased \/ Stop \/ Boot \/ TestRunning
             \/ WaitForFull \/ WriteBuffer \/ UNCHANGED vars
  <2>1. UNCHANGED <<content, buffers, buffersToWrite>>
    BY <1>1 DEF OnceInit, StartThread, LatchReleased, Stop, Boot, TestRunning,
         WaitForFull, WriteBuffer, frontVars, backVars, vars
  <2> QED
    BY <2>1, KeptEmpty
<1>2. CASE AppendToCurrent
  <2>1. currentBuffer # Null
    BY <1>2 DEF AppendToCurrent, CanAppend, IInv, OnceInv
  <2>2. \A b \in Buffers : b # currentBuffer => content'[b] = content[b]
    BY <1>2 DEF AppendToCurrent, IInv, TypeOK
  <2>3. \A b \in Range(buffers) \cup Range(buffersToWrite) : content'[b] = content[b]
    BY <2>1, <2>2, PushedFacts
  <2>4. buffers' = buffers /\ buffersToWrite' = buffersToWrite
    BY <1>2 DEF AppendToCurrent, frontVars, backVars
  <2> QED
    BY <2>3, <2>4, KeptEmpty
<1>3. CASE AppendToNext
  <2>1. currentBuffer # Null
    BY <1>3 DEF AppendToNext, Pushed, CanAppend, IInv, OnceInv
  <2>2. currentBuffer' \notin Range(buffers) \cup Range(buffersToWrite) \cup {currentBuffer}
    <3>1. CASE nextBuffer = Null
      BY <1>3, <3>1, HeapOne DEF AppendToNext, Pushed, Free, Referenced
    <3>2. CASE nextBuffer # Null
      BY <1>3, <3>2, <2>1 DEF AppendToNext, Pushed, IInv, Unshared, FrontBuffers, BackBuffers
    <3> QED
      BY <3>1, <3>2
  <2>3. /\ buffers' = Append(buffers, currentBuffer) /\ buffersToWrite' = buffersToWrite
        /\ content' = [AfterPush EXCEPT ![currentBuffer'] = Append(@, appended')]
    BY <1>3 DEF AppendToNext, Pushed, backVars
  <2>4. \A b \in Buffers : b # currentBuffer' =>
          content'[b] = IF b = currentBuffer THEN <<>> ELSE content[b]
    BY <2>3 DEF AfterPush, IInv, TypeOK
  <2>5. Range(buffers') = Range(buffers) \cup {currentBuffer}
    BY <2>1, <2>3, PushedFacts, RangeAppend DEF IInv, TypeOK
  <2>6. PushedEmpty'
    BY <2>1, <2>2, <2>4, <2>5, PushedFacts DEF Emptied, PushedEmpty
  <2>7. FullBuffersArriveEmpty'
    BY <2>1, <2>2, <2>3, <2>4, PushedFacts DEF Emptied, FullBuffersArriveEmpty
  <2> QED
    BY <2>6, <2>7 DEF Emptied
<1>4. CASE SwapBuffers
  <2>1. /\ content' = content /\ buffers' = buffersToWrite
        /\ buffersToWrite' = Append(buffers, currentBuffer)
        /\ backendPc \in {"collect", "waiting"}
    BY <1>4 DEF SwapBuffers, MayTake, TakeBuffers
  <2>2. Range(buffers') = {}
    BY <2>1 DEF IInv, HandInv, Range
  <2>3. /\ Len(buffersToWrite') = Len(buffers) + 1
        /\ \A i \in 1..Len(buffers) : buffersToWrite'[i] = buffers[i]
    BY <2>1 DEF IInv, TypeOK
  <2>4. FullBuffersArriveEmpty'
    BY <2>1, <2>3, PushedFacts DEF Emptied, PushedEmpty, FullBuffersArriveEmpty
  <2> QED
    BY <2>2, <2>4 DEF Emptied, PushedEmpty
<1>5. CASE Trim
  <2>1. \A b \in Buffers : content[b] = <<>> => content'[b] = <<>>
    BY <1>5 DEF Trim, Destroy
  <2>2. buffers' = buffers
    BY <1>5 DEF Trim, frontVars
  <2>3. CASE Len(buffersToWrite) > HighWater
    <3>1. 2 \in 0..Len(buffersToWrite) /\ 1 \in 1..(Len(buffersToWrite) - 1)
      BY <2>3, PushedFacts, LoggingAssumption
    <3>2. Len(buffersToWrite') = 2 /\ buffersToWrite'[1] = buffersToWrite[1]
      BY <1>5, <2>3, <3>1, PrefixProperties DEF Trim, FirstTwo, IInv, TypeOK
    <3>3. content'[buffersToWrite[1]] = <<>>
      BY <2>1, <3>1, PushedFacts DEF Emptied, FullBuffersArriveEmpty
    <3>4. FullBuffersArriveEmpty'
      BY <3>2, <3>3 DEF FullBuffersArriveEmpty
    <3>5. PushedEmpty'
      BY <2>1, <2>2, PushedFacts DEF Emptied, PushedEmpty
    <3> QED
      BY <3>4, <3>5 DEF Emptied
  <2>4. CASE ~(Len(buffersToWrite) > HighWater)
    <3>1. buffersToWrite' = buffersToWrite
      BY <1>5, <2>4 DEF Trim
    <3> QED
      BY <2>1, <2>2, <3>1, PushedFacts, KeptEmpty
  <2> QED
    BY <2>3, <2>4
<1>6. CASE Recycle
  <2>1. \A b \in Buffers : content[b] = <<>> => content'[b] = <<>>
    BY <1>6 DEF Recycle, MoreToWrite, AfterPop, Destroy
  <2>2. buffers' = buffers /\ Len(buffersToWrite') = 0
    BY <1>6 DEF Recycle, MoreToWrite, AfterPop, frontVars
  <2>3. PushedEmpty'
    BY <2>1, <2>2, PushedFacts DEF Emptied, PushedEmpty
  <2>4. FullBuffersArriveEmpty'
    BY <2>2 DEF FullBuffersArriveEmpty
  <2> QED
    BY <2>3, <2>4 DEF Emptied
<1> QED
  BY <1>1, <1>2, <1>3, <1>4, <1>5, <1>6 DEF Next, Frontend, Backend

(* As the code stands, every batch the backend takes has lost the lines of *)
(* all its full buffers: append has emptied each as it was pushed.         *)
THEOREM FullBuffersLost == ASSUME ResetsObject PROVE Spec => []FullBuffersArriveEmpty
<1>1. Init => Emptied
  BY DEF Init, Emptied, PushedEmpty, FullBuffersArriveEmpty, Range
<1>2. IInv /\ Emptied /\ [Next]_vars => Emptied'
  BY EmptiedStep
<1>3. Emptied => FullBuffersArriveEmpty
  BY DEF Emptied
<1> QED
  BY <1>1, <1>2, <1>3, Inductive, PTL DEF Spec

------------------------------------------------------------------------------
(* The way of the lines, buffer by buffer.                                 *)

(* The lines of some buffers, one buffer behind the other.                 *)
Contents(c, bs) == [i \in DOMAIN bs |-> c[bs[i]]]
Lines(c, bs) == FlattenSeq(Contents(c, bs))

LEMMA ContentsInSeq ==
  ASSUME NEW c \in [Buffers -> Seq(Nat)], NEW bs \in Seq(Buffers)
  PROVE  /\ Contents(c, bs) \in Seq(Seq(Nat))
         /\ Len(Contents(c, bs)) = Len(bs)
         /\ \A i \in 1..Len(bs) : Contents(c, bs)[i] = c[bs[i]]
<1>1. DOMAIN bs = 1..Len(bs) /\ Len(bs) \in Nat /\ \A i \in 1..Len(bs) : bs[i] \in Buffers
  BY LenProperties
<1>2. \A i \in 1..Len(bs) : c[bs[i]] \in Seq(Nat)
  BY <1>1
<1> QED
  BY <1>1, <1>2 DEF Contents

LEMMA LinesOfNone == ASSUME NEW c PROVE Lines(c, <<>>) = <<>>
<1>1. Contents(c, <<>>) = <<>>
  BY DEF Contents
<1> QED
  BY <1>1, FlattenEmpty DEF Lines

LEMMA LinesType ==
  ASSUME NEW c \in [Buffers -> Seq(Nat)], NEW bs \in Seq(Buffers)
  PROVE  Lines(c, bs) \in Seq(Nat)
  BY ContentsInSeq, FlattenType DEF Lines

LEMMA LinesConcat ==
  ASSUME NEW c \in [Buffers -> Seq(Nat)], NEW bs \in Seq(Buffers), NEW cs \in Seq(Buffers)
  PROVE  Lines(c, bs \o cs) = Lines(c, bs) \o Lines(c, cs)
<1> DEFINE r == bs \o cs
           ss == Contents(c, bs)
           tt == Contents(c, cs)
           uu == Contents(c, r)
           q == ss \o tt
           T == Seq(Nat)
<1>1. /\ r \in Seq(Buffers) /\ Len(r) = Len(bs) + Len(cs)
      /\ Len(bs) \in Nat /\ Len(cs) \in Nat
      /\ \A i \in 1..(Len(bs) + Len(cs)) :
           r[i] = IF i <= Len(bs) THEN bs[i] ELSE cs[i - Len(bs)]
  BY ConcatProperties
<1> HIDE DEF r
<1>2. ss \in Seq(T) /\ Len(ss) = Len(bs) /\ \A i \in 1..Len(bs) : ss[i] = c[bs[i]]
  BY ContentsInSeq
<1>3. tt \in Seq(T) /\ Len(tt) = Len(cs) /\ \A i \in 1..Len(cs) : tt[i] = c[cs[i]]
  BY ContentsInSeq
<1>4. uu \in Seq(T) /\ Len(uu) = Len(r) /\ \A i \in 1..Len(r) : uu[i] = c[r[i]]
  BY <1>1, ContentsInSeq
<1> HIDE DEF ss, tt, uu, T
<1>5. /\ q \in Seq(T) /\ Len(q) = Len(ss) + Len(tt)
      /\ \A i \in 1..(Len(ss) + Len(tt)) :
           q[i] = IF i <= Len(ss) THEN ss[i] ELSE tt[i - Len(ss)]
  <2>1. ss \in Seq(T) /\ tt \in Seq(T)
    BY <1>2, <1>3
  <2> QED
    BY <2>1, ConcatProperties
<1> HIDE DEF q
<1>6. ASSUME NEW i \in 1..Len(r) PROVE uu[i] = q[i]
  <2>1. i \in 1..(Len(bs) + Len(cs)) /\ i \in 1..(Len(ss) + Len(tt))
    BY <1>1, <1>2, <1>3
  <2>2. CASE i <= Len(bs)
    <3>1. i \in 1..Len(bs) /\ i <= Len(ss)
      BY <1>1, <1>2, <2>2
    <3>2. uu[i] = c[bs[i]]
      BY <1>1, <1>4, <2>1, <2>2
    <3>3. q[i] = ss[i]
      BY <1>5, <2>1, <3>1
    <3> QED
      BY <1>2, <3>1, <3>2, <3>3
  <2>3. CASE ~(i <= Len(bs))
    <3>1. i - Len(bs) \in 1..Len(cs) /\ ~(i <= Len(ss)) /\ i - Len(ss) = i - Len(bs)
      BY <1>1, <1>2, <2>1, <2>3
    <3>2. uu[i] = c[cs[i - Len(bs)]]
      BY <1>1, <1>4, <2>1, <2>3
    <3>3. q[i] = tt[i - Len(bs)]
      BY <1>5, <2>1, <3>1
    <3> QED
      BY <1>3, <3>1, <3>2, <3>3
  <2> QED
    BY <2>2, <2>3
<1>7. Len(uu) = Len(q) /\ \A i \in 1..Len(uu) : uu[i] = q[i]
  BY <1>1, <1>2, <1>3, <1>4, <1>5, <1>6
<1>8. uu = q
  BY <1>4, <1>5, <1>7, SeqEqual
<1>9. FlattenSeq(q) = FlattenSeq(ss) \o FlattenSeq(tt)
  BY <1>2, <1>3, FlattenConcat DEF q, T
<1> QED
  BY <1>8, <1>9 DEF Lines, ss, tt, uu, r

LEMMA LinesOfOne ==
  ASSUME NEW c \in [Buffers -> Seq(Nat)], NEW b \in Buffers
  PROVE  Lines(c, <<b>>) = c[b]
<1> DEFINE x == c[b]
<1>1. x \in Seq(Nat) /\ Contents(c, <<b>>) = <<x>>
  BY DEF Contents
<1> HIDE DEF x
<1>2. <<>> \in Seq(Seq(Nat)) /\ <<x>> = Append(<<>>, x)
  BY EmptySeq
<1>3. FlattenSeq(Append(<<>>, x)) = FlattenSeq(<<>>) \o x
  BY <1>1, <1>2, FlattenAppend
<1>4. <<>> \o x = x
  BY <1>1, ConcatEmptySeq
<1> QED
  BY <1>1, <1>2, <1>3, <1>4, FlattenEmpty DEF Lines, x

(* What is done to other buffers does not matter.                          *)
LEMMA LinesElsewhere ==
  ASSUME NEW c, NEW d, NEW bs \in Seq(Buffers),
         \A b \in Range(bs) : c[b] = d[b]
  PROVE  Lines(c, bs) = Lines(d, bs)
<1>1. Contents(c, bs) = Contents(d, bs)
  BY DEF Contents, Range
<1> QED
  BY <1>1 DEF Lines
(* The lines the backend has taken and not yet written, those in the full  *)
(* buffers, and those in the current one: together the lines in flight.    *)
Unwritten == SubSeq(buffersToWrite, written + 1, Len(buffersToWrite))
Batch == Lines(content, Unwritten)
Full == Lines(content, buffers)
Current == IF currentBuffer = Null THEN <<>> ELSE content[currentBuffer]

(* Lines are nowhere but in the buffers in flight or just written: what is *)
(* swapped in is empty, and so is what comes from the heap.                *)
StaleInv ==
  \A b \in Buffers :
    b \notin {currentBuffer} \cup Range(buffers) \cup Range(buffersToWrite) => content[b] = <<>>

CountInv ==
  /\ written <= Len(buffersToWrite)
  /\ backendPc # "write" => written = 0
  /\ appended <= MaxLines

FlowInv == IInv /\ StaleInv /\ CountInv

LEMMA UnwrittenFacts ==
  FlowInv => /\ Unwritten \in Seq(Buffers) /\ Range(Unwritten) \subseteq Range(buffersToWrite)
             /\ buffersToWrite \in Seq(Buffers) /\ buffers \in Seq(Buffers)
             /\ content \in [Buffers -> Seq(Nat)]
<1> SUFFICES ASSUME FlowInv
             PROVE  /\ Unwritten \in Seq(Buffers)
                    /\ Range(Unwritten) \subseteq Range(buffersToWrite)
                    /\ buffersToWrite \in Seq(Buffers) /\ buffers \in Seq(Buffers)
                    /\ content \in [Buffers -> Seq(Nat)]
  OBVIOUS
<1>1. /\ buffersToWrite \in Seq(Buffers) /\ written \in Nat
      /\ buffers \in Seq(Buffers) /\ content \in [Buffers -> Seq(Nat)]
  BY DEF FlowInv, IInv, TypeOK
<1>2. written \in 0..Len(buffersToWrite)
  BY <1>1 DEF FlowInv, CountInv
<1> DEFINE done == SubSeq(buffersToWrite, 1, written)
<1>3. done \in Seq(Buffers) /\ Unwritten \in Seq(Buffers) /\ done \o Unwritten = buffersToWrite
  BY <1>1, <1>2, SplitAt DEF Unwritten
<1> HIDE DEF done
<1>4. Range(buffersToWrite) = Range(done) \cup Range(Unwritten)
  <2>1. done \in Seq(Buffers) /\ Unwritten \in Seq(Buffers)
    BY <1>3
  <2>2. Range(done \o Unwritten) = Range(done) \cup Range(Unwritten)
    BY <2>1, RangeConcat
  <2> QED
    BY <1>3, <2>2
<1> QED
  BY <1>1, <1>3, <1>4

LEMMA InFlightParts ==
  FlowInv => /\ Batch \in Seq(Nat) /\ Full \in Seq(Nat) /\ Current \in Seq(Nat)
             /\ InFlight = (Batch \o Full) \o Current
<1> SUFFICES ASSUME FlowInv
             PROVE  /\ Batch \in Seq(Nat) /\ Full \in Seq(Nat) /\ Current \in Seq(Nat)
                    /\ InFlight = (Batch \o Full) \o Current
  OBVIOUS
<1>1. /\ Unwritten \in Seq(Buffers) /\ buffers \in Seq(Buffers)
      /\ content \in [Buffers -> Seq(Nat)]
  BY UnwrittenFacts
<1>2. currentBuffer # Null => currentBuffer \in Buffers
  BY DEF FlowInv, IInv, TypeOK
<1> DEFINE last == IF currentBuffer = Null THEN <<>> ELSE <<currentBuffer>>
           taken == Unwritten \o buffers
<1>3. last \in Seq(Buffers)
  BY <1>2, EmptySeq
<1>4. Lines(content, last) = Current
  <2>1. CASE currentBuffer = Null
    BY <2>1, LinesOfNone DEF Current
  <2>2. CASE currentBuffer # Null
    BY <1>1, <1>2, <2>2, LinesOfOne DEF Current
  <2> QED
    BY <2>1, <2>2
<1>5. BuffersInFlight = taken \o last
  BY DEF BuffersInFlight, Unwritten
<1>6. InFlight = Lines(content, BuffersInFlight)
  BY DEF InFlight, LinesIn, Lines, Contents
<1> HIDE DEF last
<1>7. taken \in Seq(Buffers)
  BY <1>1, ConcatProperties
<1>8. Lines(content, taken) = Batch \o Full
  BY <1>1, LinesConcat DEF Batch, Full
<1> HIDE DEF taken
<1>9. Lines(content, taken \o last) = Lines(content, taken) \o Lines(content, last)
  BY <1>1, <1>3, <1>7, LinesConcat
<1>10. Batch \in Seq(Nat) /\ Full \in Seq(Nat)
  BY <1>1, LinesType DEF Batch, Full
<1>11. Current \in Seq(Nat)
  BY <1>1, <1>2, EmptySeq DEF Current
<1> QED
  BY <1>4, <1>5, <1>6, <1>8, <1>9, <1>10, <1>11

LEMMA InFlightPartsNext ==
  FlowInv' => /\ Batch' \in Seq(Nat) /\ Full' \in Seq(Nat) /\ Current' \in Seq(Nat)
              /\ InFlight' = (Batch' \o Full') \o Current'
<1> DEFINE Parts == /\ Batch \in Seq(Nat) /\ Full \in Seq(Nat) /\ Current \in Seq(Nat)
                    /\ InFlight = (Batch \o Full) \o Current
<1>1. FlowInv => Parts
  BY InFlightParts
<1> HIDE DEF Parts
<1>2. FlowInv' => Parts'
  BY <1>1, PTL
<1> QED
  BY <1>2 DEF Parts

(* The buffer append takes next is one that nobody writes or has written.  *)
LEMMA NextFacts ==
  ASSUME FlowInv, AppendToNext
  PROVE  /\ currentBuffer \in Buffers /\ currentBuffer' \in Buffers
         /\ currentBuffer' # currentBuffer
         /\ content[currentBuffer'] = <<>>
         /\ currentBuffer' \notin Range(buffers) \cup Range(buffersToWrite)
<1> USE LoggingAssumption DEF FlowInv, IInv, TypeOK
<1>1. currentBuffer # Null /\ currentBuffer \in Buffers
  BY DEF AppendToNext, CanAppend, OnceInv
<1>2. CASE nextBuffer = Null
  <2>1. currentBuffer' \in Free
    BY <1>2, HeapOne DEF AppendToNext
  <2> QED
    BY <1>1, <2>1 DEF Free, Referenced, SpareInv
<1>3. CASE nextBuffer # Null
  <2>1. currentBuffer' = nextBuffer /\ nextBuffer \in Buffers /\ nextBuffer # currentBuffer
    BY <1>1, <1>3 DEF AppendToNext, Unshared
  <2>2. nextBuffer \notin Range(buffers) \cup Range(buffersToWrite)
    BY <1>3 DEF Unshared, FrontBuffers, BackBuffers
  <2> QED
    BY <1>1, <2>1, <2>2 DEF StaleInv
<1> QED
  BY <1>2, <1>3

LEMMA StaleStep == FlowInv /\ [Next]_vars => StaleInv'
<1> SUFFICES ASSUME FlowInv, [Next]_vars PROVE StaleInv'
  OBVIOUS
<1> USE DEF FlowInv, IInv, TypeOK, StaleInv
<1>1. CASE OnceInit
  BY <1>1, LoggingAssumption DEF OnceInit, backVars, OnceInv
<1>2. CASE StartThread \/ LatchReleased \/ Stop \/ Boot \/ TestRunning \/ WaitForFull
             \/ WriteBuffer \/ UNCHANGED vars
  BY <1>2 DEF StartThread, LatchReleased, Stop, Boot, TestRunning, WaitForFull, WriteBuffer,
       frontVars, backVars, vars
<1>3. CASE AppendToCurrent
  BY <1>3 DEF AppendToCurrent, frontVars, backVars
<1>4. CASE AppendToNext
  <2>1. currentBuffer \in Buffers /\ currentBuffer' \in Buffers
    BY <1>4, NextFacts
  <2>2. Range(buffers') = Range(buffers) \cup {currentBuffer}
    BY <1>4, <2>1, RangeAppend DEF AppendToNext, Pushed
  <2>3. /\ buffersToWrite' = buffersToWrite
        /\ content' = [AfterPush EXCEPT ![currentBuffer'] = Append(@, appended')]
    BY <1>4 DEF AppendToNext, backVars
  <2>4. \A b \in Buffers : b # currentBuffer' /\ b # currentBuffer => content'[b] = content[b]
    BY <2>1, <2>3 DEF AfterPush
  <2> QED
    BY <2>2, <2>3, <2>4
<1>5. CASE SwapBuffers
  <2>1. currentBuffer \in Buffers
    BY <1>5 DEF SwapBuffers, MayTake, OnceInv
  <2>2. Range(buffersToWrite') = Range(buffers) \cup {currentBuffer}
    BY <1>5, <2>1, RangeAppend DEF SwapBuffers, TakeBuffers
  <2>3. Range(buffersToWrite) = {} /\ content' = content
    BY <1>5 DEF SwapBuffers, MayTake, TakeBuffers, HandInv, Range
  <2> QED
    BY <2>2, <2>3
<1>6. CASE Trim
  <2>1. currentBuffer' = currentBuffer /\ buffers' = buffers
    BY <1>6 DEF Trim, frontVars
  <2>2. \A b \in Buffers : content'[b] = IF b \in Range(buffersToWrite) /\ b \notin Range(buffersToWrite')
                                         THEN <<>> ELSE content[b]
    BY <1>6 DEF Trim, Destroy
  <2> QED
    BY <2>1, <2>2
<1>7. CASE Recycle
  <2>1. currentBuffer' = currentBuffer /\ buffers' = buffers
    BY <1>7 DEF Recycle, frontVars
  <2>2. \A b \in Buffers : content'[b] = IF b \in Range(buffersToWrite) THEN <<>> ELSE content[b]
    BY <1>7 DEF Recycle, Destroy
  <2> QED
    BY <2>1, <2>2
<1> QED
  BY <1>1, <1>2, <1>3, <1>4, <1>5, <1>6, <1>7 DEF Next, Frontend, Backend

LEMMA CountStep == FlowInv /\ [Next]_vars => CountInv'
<1> SUFFICES ASSUME FlowInv, [Next]_vars PROVE CountInv'
  OBVIOUS
<1> USE LoggingAssumption DEF FlowInv, IInv, TypeOK, CountInv
<1>1. CASE OnceInit \/ StartThread \/ LatchReleased \/ Stop \/ Boot \/ TestRunning
             \/ WaitForFull \/ UNCHANGED vars
  BY <1>1 DEF OnceInit, StartThread, LatchReleased, Stop, Boot, TestRunning, WaitForFull,
       frontVars, backVars, vars, OnceInv
<1>2. CASE AppendToCurrent \/ AppendToNext
  BY <1>2 DEF AppendToCurrent, AppendToNext, CanAppend, frontVars, backVars
<1>3. CASE SwapBuffers
  <2>1. written' = 0 /\ appended' = appended
    BY <1>3 DEF SwapBuffers, MayTake, TakeBuffers
  <2>2. buffersToWrite' \in Seq(Buffers)
    BY <1>3, TypeStep
  <2>3. Len(buffersToWrite') \in Nat
    BY <2>2
  <2> QED
    BY <2>1, <2>3
<1>4. CASE Trim
  <2>1. written' = 0 /\ appended' = appended /\ backendPc' = "write"
    BY <1>4 DEF Trim
  <2>2. buffersToWrite' \in Seq(Buffers)
    BY <1>4, TrimmedBatch
  <2>3. Len(buffersToWrite') \in Nat
    BY <2>2
  <2> QED
    BY <2>1, <2>3
<1>5. CASE WriteBuffer
  BY <1>5 DEF WriteBuffer, MoreToWrite
<1>6. CASE Recycle
  BY <1>6 DEF Recycle
<1> QED
  BY <1>1, <1>2, <1>3, <1>4, <1>5, <1>6 DEF Next, Frontend, Backend

LEMMA FlowInductive == Spec => []FlowInv
<1>1. Init => FlowInv
  BY InitIInv, LoggingAssumption DEF Init, FlowInv, StaleInv, CountInv
<1>2. FlowInv /\ [Next]_vars => FlowInv'
  BY StepIInv, StaleStep, CountStep DEF FlowInv
<1> QED
  BY <1>1, <1>2, PTL DEF Spec

------------------------------------------------------------------------------
(* What one step does to the pipe.                                         *)
Unmoved == InFlight' = InFlight /\ file' = file /\ appended' = appended

NewLine == /\ appended < MaxLines
           /\ appended' = appended + 1
           /\ file' = file

Enters == NewLine /\ InFlight' = Append(InFlight, appended + 1)

(* The new line takes the place of the lines q of the full buffer.         *)
Overwrites ==
  /\ NewLine
  /\ \E p, q \in Seq(Nat) :
       InFlight = p \o q /\ InFlight' = Append(p, appended + 1) /\ Leaks = Range(q)

(* The lines q of a long batch are erased.                                 *)
CutOut ==
  /\ \E p, q, r \in Seq(Nat) :
       InFlight = p \o (q \o r) /\ InFlight' = p \o r /\ Leaks = Range(q)
  /\ file' = file
  /\ appended' = appended

WritesOut ==
  /\ \E w \in Seq(Nat) : file' = file \o w /\ InFlight = w \o InFlight'
  /\ appended' = appended

(* A step that leaves the three parts alone moves nothing.                 *)
LEMMA SamePartsUnmoved ==
  ASSUME FlowInv, FlowInv', Batch' = Batch, Full' = Full, Current' = Current,
         file' = file, appended' = appended
  PROVE  Unmoved
  BY InFlightParts, InFlightPartsNext DEF Unmoved

LEMMA FlowQuiet ==
  ASSUME FlowInv, UNCHANGED <<content, currentBuffer, buffers, buffersToWrite, written, file,
                              appended>>
  PROVE  Unmoved
  BY DEF Unmoved, InFlight, LinesIn, BuffersInFlight

LEMMA FlowOnceInit == ASSUME FlowInv, FlowInv', OnceInit PROVE Unmoved
<1>1. /\ content' = content /\ buffers' = buffers /\ buffersToWrite' = buffersToWrite
      /\ written' = written /\ file' = file /\ appended' = appended
  BY DEF OnceInit, backVars
<1>2. Batch' = Batch /\ Full' = Full
  BY <1>1 DEF Batch, Full, Unwritten
<1>3. Current = <<>>
  BY DEF Current, FlowInv, IInv, OnceInv, OnceInit
<1>4. currentBuffer' \in Free
  BY HeapPair DEF OnceInit
<1>5. Current' = <<>>
  BY <1>1, <1>4 DEF Current, FlowInv, IInv, SpareInv
<1> QED
  BY <1>1, <1>2, <1>3, <1>5, SamePartsUnmoved

LEMMA FlowAppendToCurrent == ASSUME FlowInv, FlowInv', AppendToCurrent PROVE Enters
<1> DEFINE n == appended + 1
<1>1. /\ buffers' = buffers /\ buffersToWrite' = buffersToWrite /\ written' = written
      /\ currentBuffer' = currentBuffer /\ appended' = n /\ NewLine
      /\ content' = [content EXCEPT ![currentBuffer] = Append(@, n)]
  BY DEF AppendToCurrent, frontVars, backVars, NewLine, CanAppend
<1>2. currentBuffer # Null /\ currentBuffer \in Buffers /\ n \in Nat
  BY DEF FlowInv, IInv, TypeOK, OnceInv, AppendToCurrent, CanAppend
<1>3. /\ \A b \in Range(Unwritten) : content[b] = content'[b]
      /\ \A b \in Range(buffers) : content[b] = content'[b]
  BY <1>1, <1>2, UnwrittenFacts, PushedFacts DEF FlowInv
<1>4. Batch' = Batch
  <2>1. Unwritten' = Unwritten
    BY <1>1 DEF Unwritten
  <2> QED
    BY <1>3, <2>1, UnwrittenFacts, LinesElsewhere DEF Batch
<1>5. Full' = Full
  <2>1. buffers' = buffers
    BY <1>1
  <2> QED
    BY <1>3, <2>1, UnwrittenFacts, LinesElsewhere DEF Full
<1>6. Current' = Append(Current, n)
  BY <1>1, <1>2, UnwrittenFacts DEF Current
<1> DEFINE p == Batch \o Full
<1>7. p \in Seq(Nat) /\ Current \in Seq(Nat) /\ InFlight = p \o Current
  BY InFlightParts, ConcatProperties
<1>8. InFlight' = p \o Append(Current, n)
  BY <1>4, <1>5, <1>6, InFlightPartsNext
<1> HIDE DEF p, n
<1>9. InFlight' = Append(InFlight, n)
  BY <1>2, <1>7, <1>8, ConcatAppend
<1> QED
  BY <1>1, <1>9 DEF Enters, n

LEMMA FlowAppendToNext ==
  ASSUME FlowInv, FlowInv', AppendToNext
  PROVE  IF ResetsObject THEN Overwrites ELSE Enters
<1> DEFINE n == appended + 1
           pushed == IF ResetsObject THEN <<>> ELSE Current
<1>1. /\ buffers' = Append(buffers, currentBuffer) /\ buffersToWrite' = buffersToWrite
      /\ written' = written /\ appended' = n /\ NewLine
      /\ content' = [AfterPush EXCEPT ![currentBuffer'] = Append(@, n)]
      /\ ~HasRoom /\ ~Cuts
  BY DEF AppendToNext, Pushed, backVars, NewLine, CanAppend, Cuts
<1>2. /\ currentBuffer \in Buffers /\ currentBuffer' \in Buffers
      /\ currentBuffer' # currentBuffer /\ content[currentBuffer'] = <<>>
      /\ currentBuffer' \notin Range(buffers) \cup Range(buffersToWrite)
      /\ currentBuffer # Null /\ currentBuffer' # Null /\ n \in Nat
  <2>1. n \in Nat
    BY DEF FlowInv, IInv, TypeOK
  <2> QED
    BY <2>1, NextFacts, LoggingAssumption
<1>3. \A b \in Buffers :
        content'[b] = IF b = currentBuffer' THEN Append(AfterPush[b], n) ELSE AfterPush[b]
  BY <1>1, <1>2, UnwrittenFacts DEF AfterPush
<1>4. /\ AfterPush[currentBuffer] = pushed /\ AfterPush[currentBuffer'] = <<>>
      /\ \A b \in Buffers : b # currentBuffer => AfterPush[b] = content[b]
  BY <1>2, UnwrittenFacts DEF AfterPush, Current
<1>5. /\ \A b \in Range(Unwritten) : content[b] = content'[b]
      /\ \A b \in Range(buffers) : content[b] = content'[b]
  BY <1>2, <1>3, <1>4, UnwrittenFacts, PushedFacts DEF FlowInv
<1>6. Batch' = Batch
  <2>1. Unwritten' = Unwritten
    BY <1>1 DEF Unwritten
  <2> QED
    BY <1>5, <2>1, UnwrittenFacts, LinesElsewhere DEF Batch
<1>7. Full' = Full \o pushed
  <2> DEFINE one == <<currentBuffer>>
  <2>1. one \in Seq(Buffers) /\ buffers' = buffers \o one /\ buffers \in Seq(Buffers)
    BY <1>1, <1>2, UnwrittenFacts, AppendIsConcat
  <2>2. content' \in [Buffers -> Seq(Nat)]
    BY DEF FlowInv, IInv, TypeOK
  <2>3. Lines(content', one) = content'[currentBuffer]
    BY <1>2, <2>2, LinesOfOne
  <2> HIDE DEF one
  <2>4. Lines(content', buffers \o one) = Lines(content', buffers) \o Lines(content', one)
    BY <2>1, <2>2, LinesConcat
  <2>5. Lines(content', buffers) = Full
    BY <1>5, <2>1, LinesElsewhere DEF Full
  <2>6. content'[currentBuffer] = pushed
    BY <1>2, <1>3, <1>4
  <2> QED
    BY <2>1, <2>3, <2>4, <2>5, <2>6 DEF Full
<1>8. Current' = <<n>>
  <2>1. content'[currentBuffer'] = Append(<<>>, n)
    BY <1>2, <1>3, <1>4
  <2>2. Append(<<>>, n) = <<n>>
    OBVIOUS
  <2> QED
    BY <1>2, <2>1, <2>2 DEF Current
<1> DEFINE p == Batch \o Full
<1>9. /\ Batch \in Seq(Nat) /\ Full \in Seq(Nat) /\ Current \in Seq(Nat)
      /\ p \in Seq(Nat) /\ InFlight = p \o Current
  BY InFlightParts, ConcatProperties
<1>10. pushed \in Seq(Nat)
  BY <1>9, EmptySeq
<1>11. InFlight' = (Batch \o (Full \o pushed)) \o <<n>>
  BY <1>6, <1>7, <1>8, InFlightPartsNext
<1> HIDE DEF n, pushed
<1>12. Batch \o (Full \o pushed) = p \o pushed /\ p \o pushed \in Seq(Nat)
  <2>1. (Batch \o Full) \o pushed = Batch \o (Full \o pushed)
    <3>1. Associates(Batch, Full, pushed)
      BY <1>9, <1>10, ThreeParts
    <3> QED
      BY <3>1 DEF Associates
  <2> QED
    BY <1>9, <1>10, <2>1, ConcatProperties
<1>13. InFlight' = Append(p \o pushed, n)
  BY <1>2, <1>11, <1>12, AppendIsConcat
<1> HIDE DEF p
<1>14. CASE ResetsObject
  <2>1. p \o pushed = p
    BY <1>9, <1>14, ConcatEmptySeq DEF pushed
  <2>2. Leaks = Range(Current)
    <3>1. appended' # appended
      BY <1>1, <1>2 DEF n
    <3> QED
      BY <1>1, <1>2, <1>14, <3>1 DEF Leaks, EmptiesPushed, Current
  <2>3. InFlight = p \o Current /\ InFlight' = Append(p, n)
    BY <1>9, <1>13, <2>1
  <2>4. \E a, c \in Seq(Nat) : InFlight = a \o c /\ InFlight' = Append(a, n) /\ Leaks = Range(c)
    BY <1>9, <2>2, <2>3
  <2> QED
    BY <1>1, <1>14, <2>4 DEF Overwrites, n
<1>15. CASE ~ResetsObject
  BY <1>1, <1>9, <1>13, <1>15 DEF Enters, n, pushed
<1> QED
  BY <1>14, <1>15

LEMMA FlowSwapBuffers == ASSUME FlowInv, FlowInv', SwapBuffers PROVE Unmoved
<1>1. /\ content' = content /\ buffersToWrite' = Append(buffers, currentBuffer)
      /\ buffers' = buffersToWrite /\ currentBuffer' = newBuffer1
      /\ written' = written /\ file' = file /\ appended' = appended
      /\ backendPc \in {"collect", "waiting"}
  BY DEF SwapBuffers, MayTake, TakeBuffers
<1>2. /\ buffersToWrite = <<>> /\ newBuffer1 # Null /\ content[newBuffer1] = <<>>
      /\ currentBuffer \in Buffers /\ currentBuffer # Null /\ written = 0
  BY <1>1 DEF FlowInv, IInv, HandInv, OnceInv, TypeOK, CountInv
<1>3. /\ Batch \in Seq(Nat) /\ Full \in Seq(Nat) /\ Current \in Seq(Nat)
      /\ InFlight = (Batch \o Full) \o Current
  BY InFlightParts
<1>4. Batch = <<>>
  <2>1. Unwritten = <<>>
    BY <1>2, EmptySeq, SubSeqEmpty DEF Unwritten
  <2> QED
    BY <2>1, LinesOfNone DEF Batch
<1>5. Full' = <<>> /\ Current' = <<>>
  BY <1>1, <1>2, LinesOfNone DEF Full, Current
<1>6. Batch' = Full \o Current
  <2> DEFINE one == <<currentBuffer>>
             taken == Append(buffers, currentBuffer)
  <2>1. /\ one \in Seq(Buffers) /\ taken = buffers \o one /\ taken \in Seq(Buffers)
        /\ buffers \in Seq(Buffers) /\ content \in [Buffers -> Seq(Nat)]
    BY <1>2, UnwrittenFacts, AppendIsConcat, AppendProperties
  <2>2. Lines(content, one) = Current
    BY <1>2, <2>1, LinesOfOne DEF Current
  <2> HIDE DEF one
  <2>3. Lines(content, buffers \o one) = Full \o Current
    BY <2>1, <2>2, LinesConcat DEF Full
  <2> HIDE DEF taken
  <2>4. Unwritten' = taken
    <3>1. Unwritten' = SubSeq(taken, 1, Len(taken))
      BY <1>1, <1>2 DEF Unwritten, taken
    <3> QED
      BY <2>1, <3>1, SubSeqFull
  <2> QED
    BY <1>1, <2>1, <2>3, <2>4 DEF Batch
<1> DEFINE t == Full \o Current
<1>7. t \in Seq(Nat) /\ Batch \o Full = Full
  BY <1>3, <1>4, ConcatProperties, ConcatEmptySeq
<1>8. InFlight = t
  BY <1>3, <1>7
<1>9. InFlight' = (t \o <<>>) \o <<>>
  BY <1>5, <1>6, InFlightPartsNext
<1> HIDE DEF t
<1>10. InFlight' = t
  BY <1>7, <1>9, ConcatEmptySeq
<1> QED
  BY <1>1, <1>8, <1>10 DEF Unmoved

LEMMA FlowTrim ==
  ASSUME FlowInv, FlowInv', Trim
  PROVE  IF Len(buffersToWrite) > HighWater THEN CutOut ELSE Unmoved
<1>1. /\ buffers' = buffers /\ currentBuffer' = currentBuffer /\ written' = written
      /\ file' = file /\ appended' = appended /\ written = 0
      /\ backendPc = "trim" /\ backendPc' = "write"
      /\ content' = [b \in Buffers |->
           IF b \in Range(buffersToWrite) /\ b \notin Range(buffersToWrite') THEN <<>>
                                                                            ELSE content[b]]
  BY DEF Trim, Destroy, frontVars, FlowInv, CountInv
<1>2. CASE ~(Len(buffersToWrite) > HighWater)
  <2>1. buffersToWrite' = buffersToWrite
    BY <1>2 DEF Trim
  <2>2. content' = content
    BY <1>1, <2>1, UnwrittenFacts
  <2>3. Unmoved
    BY <1>1, <2>1, <2>2, FlowQuiet
  <2> QED
    BY <1>2, <2>3
<1>3. CASE Len(buffersToWrite) > HighWater
  <2> DEFINE n == 2
             kept == SubSeq(buffersToWrite, 1, n)
             rest == SubSeq(buffersToWrite, n + 1, Len(buffersToWrite))
  <2>1. /\ buffersToWrite \in Seq(Buffers) /\ buffers \in Seq(Buffers)
        /\ content \in [Buffers -> Seq(Nat)] /\ n \in 0..Len(buffersToWrite)
    BY <1>3, UnwrittenFacts, LoggingAssumption
  <2>2. buffersToWrite' = kept
    BY <1>3 DEF Trim, FirstTwo
  <2>12. Leaks = Range(Lines(content, rest))
    BY <1>1, <1>3 DEF Leaks, Cuts, LinesIn, Lines, Contents
  <2> HIDE DEF n
  <2>3. kept \in Seq(Buffers) /\ rest \in Seq(Buffers) /\ kept \o rest = buffersToWrite
    BY <2>1, SplitAt
  <2>4. Range(kept) \subseteq Range(buffersToWrite) /\ Len(kept) = n
    BY <2>1, PrefixProperties
  <2> HIDE DEF kept, rest
  <2>5. Batch = Lines(content, kept) \o Lines(content, rest)
    <3>1. Unwritten = kept \o rest
      BY <1>1, <2>1, <2>3, SubSeqFull DEF Unwritten
    <3> QED
      BY <2>1, <2>3, <3>1, LinesConcat DEF Batch
  <2>6. Batch' = Lines(content, kept)
    <3>1. Unwritten' = kept
      BY <1>1, <2>2, <2>3, SubSeqFull DEF Unwritten
    <3>2. \A b \in Range(kept) : content[b] = content'[b]
      <4>1. Range(kept) \subseteq Buffers
        BY <2>3, RangeOfSeq
      <4> QED
        BY <1>1, <2>2, <4>1
    <3> QED
      BY <2>3, <3>1, <3>2, LinesElsewhere DEF Batch
  <2>7. Full' = Full
    <3>1. Range(buffers) \subseteq Buffers /\ Range(buffers) \cap Range(buffersToWrite) = {}
      <4>1. Null \notin Range(buffers) /\ Range(buffers) \subseteq Buffers
        BY <2>1, RangeOfSeq, LoggingAssumption
      <4> QED
        BY <4>1 DEF FlowInv, IInv, Unshared, FrontBuffers, BackBuffers
    <3>2. \A b \in Range(buffers) : content[b] = content'[b]
      BY <1>1, <3>1
    <3> QED
      BY <1>1, <2>1, <3>2, LinesElsewhere DEF Full
  <2>8. Current' = Current
    <3>1. CASE currentBuffer = Null
      BY <1>1, <3>1 DEF Current
    <3>2. CASE currentBuffer # Null
      BY <1>1, <3>2, PushedFacts DEF Current, FlowInv
    <3> QED
      BY <3>1, <3>2
  <2> DEFINE p == Lines(content, kept)
             q == Lines(content, rest)
             r == Full \o Current
  <2>9. p \in Seq(Nat) /\ q \in Seq(Nat) /\ Full \in Seq(Nat) /\ Current \in Seq(Nat)
    BY <2>1, <2>3, LinesType, InFlightParts
  <2> HIDE DEF p, q
  <2>10. InFlight = p \o (q \o r) /\ r \in Seq(Nat)
    <3>1. r \in Seq(Nat)
      BY <2>9, ConcatProperties
    <3>2. InFlight = ((p \o q) \o Full) \o Current
      BY <2>5, InFlightParts DEF p, q
    <3>3. Regroups(p, q, Full, Current)
      BY <2>9, FourParts
    <3> QED
      BY <3>1, <3>2, <3>3 DEF Regroups
  <2>11. InFlight' = p \o r
    <3>1. InFlight' = (p \o Full) \o Current
      BY <2>6, <2>7, <2>8, InFlightPartsNext DEF p
    <3>2. Regroups(p, Full, Current, Current)
      BY <2>9, FourParts
    <3> QED
      BY <3>1, <3>2 DEF Regroups
  <2> HIDE DEF r
  <2>13. Leaks = Range(q)
    BY <2>12 DEF q
  <2>14. CutOut
    BY <1>1, <2>9, <2>10, <2>11, <2>13 DEF CutOut
  <2> QED
    BY <1>3, <2>14
<1> QED
  BY <1>2, <1>3

LEMMA FlowWriteBuffer == ASSUME FlowInv, FlowInv', WriteBuffer PROVE WritesOut
<1> DEFINE n == written + 1
           b == buffersToWrite[n]
           w == content[b]
           one == <<b>>
<1>1. /\ buffers' = buffers /\ currentBuffer' = currentBuffer /\ content' = content
      /\ buffersToWrite' = buffersToWrite /\ written' = n
      /\ file' = file \o w /\ appended' = appended /\ written < Len(buffersToWrite)
  BY DEF WriteBuffer, MoreToWrite, frontVars
<1>2. /\ buffersToWrite \in Seq(Buffers) /\ content \in [Buffers -> Seq(Nat)]
      /\ written \in Nat /\ Len(buffersToWrite) \in Nat
  <2>1. buffersToWrite \in Seq(Buffers) /\ content \in [Buffers -> Seq(Nat)]
    BY UnwrittenFacts
  <2>2. written \in Nat
    BY DEF FlowInv, IInv, TypeOK
  <2> QED
    BY <2>1, <2>2
<1>3. /\ n \in 1..Len(buffersToWrite) /\ b \in Buffers
      /\ w \in Seq(Nat) /\ one \in Seq(Buffers) /\ Lines(content, one) = w
  <2>1. n \in 1..Len(buffersToWrite)
    BY <1>1, <1>2
  <2>2. b \in Buffers
    BY <1>2, <2>1
  <2> HIDE DEF n, b
  <2>3. w \in Seq(Nat) /\ one \in Seq(Buffers)
    BY <1>2, <2>2
  <2>4. Lines(content, <<b>>) = content[b]
    BY <1>2, <2>2, LinesOfOne
  <2> QED
    BY <2>1, <2>2, <2>3, <2>4
<1>4. Unwritten = one \o Unwritten' /\ Unwritten' \in Seq(Buffers)
  <2> DEFINE l == Len(buffersToWrite)
             rest == SubSeq(buffersToWrite, n + 1, l)
  <2>1. Unwritten = SubSeq(buffersToWrite, n, l) /\ Unwritten' = rest
    BY <1>1 DEF Unwritten
  <2>2. one = SubSeq(buffersToWrite, n, n)
    BY <1>2, <1>3
  <2>3. n \in 0..l /\ n \in 1..(l + 1) /\ l \in n..l /\ n \in (n - 1)..l
    BY <1>2, <1>3
  <2>4. rest \in Seq(Buffers)
    BY <1>2, <2>3, SplitAt
  <2>5. SubSeq(buffersToWrite, n, n) \o rest = SubSeq(buffersToWrite, n, l)
    BY <1>2, <2>3, ConcatAdjacentSubSeq
  <2> QED
    BY <2>1, <2>2, <2>4, <2>5
<1> HIDE DEF n, b, w, one
<1>5. Batch = w \o Batch'
  <2> DEFINE rest == Unwritten'
  <2>1. Lines(content, one \o rest) = Lines(content, one) \o Lines(content, rest)
    BY <1>2, <1>3, <1>4, LinesConcat
  <2> QED
    BY <1>1, <1>3, <1>4, <2>1 DEF Batch
<1>6. Full' = Full /\ Current' = Current
  BY <1>1 DEF Full, Current
<1>7. /\ Batch' \in Seq(Nat) /\ Full \in Seq(Nat) /\ Current \in Seq(Nat)
      /\ InFlight = ((w \o Batch') \o Full) \o Current
      /\ InFlight' = (Batch' \o Full) \o Current
  BY <1>5, <1>6, InFlightParts, InFlightPartsNext
<1> DEFINE rest == Batch'
<1>8. w \in Seq(Nat) /\ rest \in Seq(Nat) /\ Full \in Seq(Nat) /\ Current \in Seq(Nat)
  BY <1>3, <1>7
<1> HIDE DEF rest
<1>9. Regroups(w, rest, Full, Current)
  BY <1>8, FourParts
<1>10. InFlight = w \o InFlight'
  BY <1>7, <1>9 DEF Regroups, rest
<1> QED
  BY <1>1, <1>3, <1>10 DEF WritesOut

LEMMA FlowRecycle == ASSUME FlowInv, FlowInv', Recycle PROVE Unmoved
<1>1. /\ buffers' = buffers /\ currentBuffer' = currentBuffer /\ written' = 0
      /\ file' = file /\ appended' = appended /\ ~(written < Len(buffersToWrite))
      /\ buffersToWrite' = <<>>
      /\ \A b \in Buffers : b \notin Range(buffersToWrite) => content'[b] = content[b]
  BY DEF Recycle, MoreToWrite, Destroy, frontVars
<1>2. /\ buffersToWrite \in Seq(Buffers) /\ buffers \in Seq(Buffers)
      /\ written = Len(buffersToWrite)
  BY <1>1, UnwrittenFacts DEF FlowInv, IInv, TypeOK, CountInv
<1>3. Unwritten = <<>> /\ Unwritten' = <<>>
  BY <1>1, <1>2, SubSeqEmpty DEF Unwritten
<1>4. Batch' = Batch
  BY <1>3, LinesOfNone DEF Batch
<1>5. Full' = Full
  <2>1. Range(buffers) \subseteq Buffers /\ Range(buffers) \cap Range(buffersToWrite) = {}
    <3>1. Null \notin Range(buffers) /\ Range(buffers) \subseteq Buffers
      BY <1>2, RangeOfSeq, LoggingAssumption
    <3> QED
      BY <3>1 DEF FlowInv, IInv, Unshared, FrontBuffers, BackBuffers
  <2>2. \A b \in Range(buffers) : content[b] = content'[b]
    BY <1>1, <2>1
  <2> QED
    BY <1>1, <1>2, <2>2, LinesElsewhere DEF Full
<1>6. Current' = Current
  <2>1. CASE currentBuffer = Null
    BY <1>1, <2>1 DEF Current
  <2>2. CASE currentBuffer # Null
    BY <1>1, <2>2, PushedFacts DEF Current, FlowInv
  <2> QED
    BY <2>1, <2>2
<1> QED
  BY <1>1, <1>4, <1>5, <1>6, SamePartsUnmoved

(* Every step moves the pipe in one of these ways, or not at all.          *)
LEMMA FlowStep ==
  ASSUME FlowInv, FlowInv', [Next]_vars
  PROVE  Unmoved \/ Enters \/ Overwrites \/ CutOut \/ WritesOut
<1>1. CASE StartThread \/ LatchReleased \/ Stop \/ Boot \/ TestRunning \/ WaitForFull
             \/ UNCHANGED vars
  BY <1>1, FlowQuiet DEF StartThread, LatchReleased, Stop, Boot, TestRunning, WaitForFull,
       frontVars, backVars, vars
<1>2. CASE AppendToNext
  BY <1>2, FlowAppendToNext
<1> QED
  BY <1>1, <1>2, FlowOnceInit, FlowAppendToCurrent, FlowSwapBuffers, FlowTrim,
     FlowWriteBuffer, FlowRecycle DEF Next, Frontend, Backend

LEMMA PipeTypes ==
  ASSUME FlowInv, FlowInv'
  PROVE  /\ InFlight \in Seq(Nat) /\ file \in Seq(Nat) /\ appended \in Nat
         /\ InFlight' \in Seq(Nat) /\ file' \in Seq(Nat) /\ appended' \in Nat
<1>1. file \in Seq(Nat) /\ file' \in Seq(Nat) /\ appended \in Nat /\ appended' \in Nat
  BY DEF FlowInv, IInv, TypeOK
<1>2. InFlight \in Seq(Nat)
  <2> DEFINE p == Batch \o Full
  <2>1. p \in Seq(Nat)
    BY InFlightParts, ConcatProperties
  <2>2. InFlight = p \o Current /\ Current \in Seq(Nat)
    BY InFlightParts
  <2> HIDE DEF p
  <2> QED
    BY <2>1, <2>2, ConcatProperties
<1>3. InFlight' \in Seq(Nat)
  <2> DEFINE p == (Batch \o Full)'
  <2>1. p \in Seq(Nat)
    BY InFlightPartsNext, ConcatProperties
  <2>2. InFlight' = p \o Current' /\ Current' \in Seq(Nat)
    BY InFlightPartsNext
  <2> HIDE DEF p
  <2> QED
    BY <2>1, <2>2, ConcatProperties
<1> QED
  BY <1>1, <1>2, <1>3

------------------------------------------------------------------------------
(* The logger is a pipe.                                                   *)

(* What is in the file and behind it in the buffers stands in the order of *)
(* append, and each line only once.                                        *)
Ordered ==
  /\ Increasing(file \o InFlight)
  /\ Range(file \o InFlight) \subseteq 1..appended

LEMMA OrderedStep ==
  ASSUME FlowInv, FlowInv', Ordered, [Next]_vars
  PROVE  Ordered'
<1> DEFINE all == file \o InFlight
           n == appended + 1
<1>1. /\ InFlight \in Seq(Nat) /\ file \in Seq(Nat) /\ appended \in Nat
      /\ InFlight' \in Seq(Nat) /\ file' \in Seq(Nat) /\ appended' \in Nat
  BY PipeTypes
<1>2. all \in Seq(Nat) /\ Increasing(all) /\ Range(all) \subseteq 1..appended
  BY <1>1, ConcatProperties DEF Ordered
<1>3. n \in Nat /\ 1..n = (1..appended) \cup {n} /\ \A x \in 1..appended : x < n
  BY <1>1
<1>4. ASSUME NEW s \in Seq(Nat), Increasing(s), Range(s) \subseteq 1..appended
      PROVE  Increasing(Append(s, n)) /\ Range(Append(s, n)) \subseteq 1..n
  <2> HIDE DEF n
  <2>1. Increasing(Append(s, n))
    BY <1>3, <1>4, IncreasingAppend
  <2>2. Range(Append(s, n)) = Range(s) \cup {n}
    BY <1>3, RangeAppend
  <2> QED
    BY <1>3, <1>4, <2>1, <2>2
<1>5. CASE Unmoved
  BY <1>2, <1>5 DEF Unmoved, Ordered
<1>6. CASE Enters
  <2>1. file' = file /\ InFlight' = Append(InFlight, n) /\ appended' = n
    BY <1>6 DEF Enters, NewLine
  <2> HIDE DEF n
  <2>2. file \o Append(InFlight, n) = Append(all, n)
    BY <1>1, <1>3, ConcatAppend, SMTT(20)
  <2> HIDE DEF all
  <2> QED
    BY <1>2, <1>4, <2>1, <2>2 DEF Ordered
<1>7. CASE Overwrites
  <2>1. PICK p \in Seq(Nat), q \in Seq(Nat) : InFlight = p \o q /\ InFlight' = Append(p, n)
    BY <1>7 DEF Overwrites
  <2>2. file' = file /\ appended' = n
    BY <1>7 DEF Overwrites, NewLine
  <2> DEFINE fp == file \o p
  <2>3. fp \in Seq(Nat)
    BY <1>1, ConcatProperties
  <2>4. all = fp \o q
    <3>1. Regroups(file, p, q, q)
      BY <1>1, FourParts
    <3> QED
      BY <2>1, <3>1 DEF Regroups
  <2> HIDE DEF n
  <2>5. file \o Append(p, n) = Append(fp, n)
    <3>1. file \in Seq(Nat) /\ p \in Seq(Nat) /\ n \in Nat
      BY <1>1, <1>3
    <3>2. file \o Append(p, n) = Append(file \o p, n)
      BY <3>1, ConcatAppend, SMTT(20)
    <3> QED
      BY <3>2
  <2> HIDE DEF fp, all
  <2>6. Increasing(fp)
    BY <1>2, <2>3, <2>4, IncreasingConcat
  <2>7. Range(all) = Range(fp) \cup Range(q)
    BY <2>3, <2>4, RangeConcat
  <2>8. Increasing(Append(fp, n)) /\ Range(Append(fp, n)) \subseteq 1..n
    BY <1>2, <1>4, <2>3, <2>6, <2>7
  <2> QED
    BY <2>1, <2>2, <2>5, <2>8 DEF Ordered
<1>8. CASE CutOut
  <2>1. PICK p \in Seq(Nat), q \in Seq(Nat), r \in Seq(Nat) :
          InFlight = p \o (q \o r) /\ InFlight' = p \o r
    BY <1>8 DEF CutOut
  <2>2. file' = file /\ appended' = appended
    BY <1>8 DEF CutOut
  <2> DEFINE fp == file \o p
             qr == q \o r
             pr == p \o r
  <2>3. fp \in Seq(Nat) /\ qr \in Seq(Nat) /\ pr \in Seq(Nat)
    BY <1>1, ConcatProperties
  <2>4. Range(qr) = Range(q) \cup Range(r)
    BY RangeConcat
  <2>5. all = fp \o qr
    <3> HIDE DEF qr
    <3>1. Regroups(file, p, qr, qr)
      BY <1>1, <2>3, FourParts
    <3> QED
      BY <2>1, <3>1 DEF Regroups, qr
  <2>6. file \o pr = fp \o r
    <3>1. Regroups(file, p, r, r)
      BY <1>1, FourParts
    <3> QED
      BY <3>1 DEF Regroups
  <2>7. Increasing(fp \o r)
    <3> HIDE DEF fp, all
    <3> QED
      BY <1>2, <2>3, <2>5, IncreasingCut
  <2> HIDE DEF fp, qr, pr, all
  <2>8. Range(all) = Range(fp) \cup Range(qr)
    BY <2>3, <2>5, RangeConcat
  <2>9. Range(fp \o r) = Range(fp) \cup Range(r)
    BY <2>3, RangeConcat
  <2> QED
    BY <1>2, <2>1, <2>2, <2>4, <2>6, <2>7, <2>8, <2>9 DEF Ordered, pr
<1>9. CASE WritesOut
  <2>1. PICK w \in Seq(Nat) : file' = file \o w /\ InFlight = w \o InFlight'
    BY <1>9 DEF WritesOut
  <2> DEFINE rest == InFlight'
  <2>2. rest \in Seq(Nat)
    BY <1>1
  <2> HIDE DEF rest
  <2>3. Regroups(file, w, rest, rest)
    BY <1>1, <2>2, FourParts
  <2>4. (file \o InFlight)' = all
    BY <2>1, <2>3 DEF Regroups, rest
  <2> QED
    BY <1>2, <1>9, <2>4 DEF WritesOut, Ordered
<1> QED
  BY <1>5, <1>6, <1>7, <1>8, <1>9, FlowStep

LEMMA OrderedInductive == Spec => []Ordered
<1>1. Init => Ordered
  <2> SUFFICES ASSUME Init PROVE Ordered
    OBVIOUS
  <2>1. BuffersInFlight = <<>> /\ file = <<>>
    BY SubSeqEmpty, ConcatEmptySeq, EmptySeq DEF Init, BuffersInFlight
  <2>2. InFlight = <<>>
    BY <2>1, LinesOfNone DEF InFlight, LinesIn, Lines, Contents
  <2>3. file \o InFlight = <<>>
    BY <2>1, <2>2
  <2> QED
    BY <2>3 DEF Ordered, Increasing, Range
<1>2. FlowInv /\ FlowInv' /\ Ordered /\ [Next]_vars => Ordered'
  BY OrderedStep
<1> QED
  BY <1>1, <1>2, FlowInductive, PTL DEF Spec

(* What the steps that leak nothing have in common.                        *)
LEMMA NothingLeaks ==
  ASSUME FlowInv, [Next]_vars, ~(Trim /\ Len(buffersToWrite) > HighWater),
         ~(AppendToNext /\ ResetsObject)
  PROVE  Leaks = {}
<1>1. ~Cuts
  BY DEF Cuts, Next, Frontend, Backend, OnceInit, StartThread, LatchReleased, AppendToCurrent,
       AppendToNext, Stop, Boot, TestRunning, WaitForFull, SwapBuffers, TakeBuffers,
       WriteBuffer, Recycle, vars, backVars
<1>2. ~EmptiesPushed
  BY DEF EmptiesPushed, Next, Frontend, Backend, OnceInit, StartThread, LatchReleased,
       AppendToCurrent, Stop, Boot, TestRunning, WaitForFull, SwapBuffers, TakeBuffers, Trim,
       WriteBuffer, Recycle, vars, backVars
<1> QED
  BY <1>1, <1>2 DEF Leaks

(* Lines in order are no two the same, so what is taken out is missing.    *)
LEMMA TakenOut ==
  ASSUME FlowInv, FlowInv', Ordered, NEW p \in Seq(Nat), NEW q \in Seq(Nat),
         NEW r \in Seq(Nat), InFlight = p \o (q \o r)
  PROVE  /\ Range(InFlight) = Range(p) \cup (Range(q) \cup Range(r))
         /\ Range(q) \subseteq 1..appended
         /\ Range(q) \cap (Range(p) \cup Range(r) \cup Range(file)) = {}
<1> DEFINE qr == q \o r
           pqr == p \o qr
<1>1. file \in Seq(Nat) /\ qr \in Seq(Nat) /\ Range(qr) = Range(q) \cup Range(r)
  BY PipeTypes, RangeConcat, ConcatProperties
<1>2. InFlight = pqr
  OBVIOUS
<1>3. Increasing(q \o r) => \A x \in Range(q), y \in Range(r) : x < y
  BY IncreasingConcat
<1> HIDE DEF qr
<1>4. pqr \in Seq(Nat) /\ Range(pqr) = Range(p) \cup Range(qr)
  BY <1>1, RangeConcat, ConcatProperties
<1>5. Increasing(p \o qr) => Increasing(qr) /\ \A x \in Range(p), y \in Range(qr) : x < y
  BY <1>1, IncreasingConcat
<1> HIDE DEF pqr
<1>6. Increasing(file \o pqr) =>
        Increasing(pqr) /\ \A x \in Range(file), y \in Range(pqr) : x < y
  BY <1>1, <1>4, IncreasingConcat
<1>7. Range(file \o pqr) = Range(file) \cup Range(pqr)
  BY <1>1, <1>4, RangeConcat
<1>8. /\ \A x \in Range(file), y \in Range(pqr) : x < y
      /\ \A x \in Range(p), y \in Range(qr) : x < y
      /\ \A x \in Range(q), y \in Range(r) : x < y
      /\ Range(pqr) \subseteq 1..appended
  BY <1>2, <1>3, <1>5, <1>6, <1>7 DEF Ordered, pqr, qr
<1>9. Range(q) \subseteq 1..appended /\ \A x \in 1..appended : ~(x < x)
  BY <1>1, <1>4, <1>8, PipeTypes
<1> QED
  BY <1>1, <1>2, <1>4, <1>8, <1>9

LEMMA LeakStep ==
  ASSUME FlowInv, FlowInv', Ordered, [Next]_vars
  PROVE  Lost' = Lost \cup Leaks
<1> DEFINE n == appended + 1
<1>1. /\ InFlight \in Seq(Nat) /\ file \in Seq(Nat) /\ appended \in Nat
      /\ InFlight' \in Seq(Nat) /\ file' \in Seq(Nat) /\ appended' \in Nat
  BY PipeTypes
<1>2. n \in Nat /\ 1..n = (1..appended) \cup {n} /\ n \notin 1..appended
  BY <1>1
<1>3. CASE Overwrites
  <2>1. PICK p \in Seq(Nat), q \in Seq(Nat) :
          InFlight = p \o q /\ InFlight' = Append(p, n) /\ Leaks = Range(q)
    BY <1>3 DEF Overwrites
  <2>2. file' = file /\ appended' = n
    BY <1>3 DEF Overwrites, NewLine
  <2> HIDE DEF n
  <2>3. Range(Append(p, n)) = Range(p) \cup {n}
    BY <1>2, RangeAppend
  <2>4. <<>> \in Seq(Nat) /\ q \o <<>> = q /\ Range(<<>>) = {}
    BY EmptySeq, ConcatEmptySeq DEF Range
  <2> DEFINE none == <<>>
  <2>5. none \in Seq(Nat) /\ InFlight = p \o (q \o none) /\ Range(none) = {}
    BY <2>1, <2>4
  <2> HIDE DEF none
  <2>6. /\ Range(InFlight) = Range(p) \cup (Range(q) \cup Range(none))
        /\ Range(q) \subseteq 1..appended
        /\ Range(q) \cap (Range(p) \cup Range(none) \cup Range(file)) = {}
    BY <2>5, TakenOut
  <2> QED
    BY <1>2, <2>1, <2>2, <2>3, <2>5, <2>6 DEF Lost
<1>4. CASE CutOut
  <2>1. PICK p \in Seq(Nat), q \in Seq(Nat), r \in Seq(Nat) :
          InFlight = p \o (q \o r) /\ InFlight' = p \o r /\ Leaks = Range(q)
    BY <1>4 DEF CutOut
  <2>2. file' = file /\ appended' = appended
    BY <1>4 DEF CutOut
  <2>3. Range(InFlight') = Range(p) \cup Range(r)
    BY <2>1, RangeConcat
  <2>4. /\ Range(InFlight) = Range(p) \cup (Range(q) \cup Range(r))
        /\ Range(q) \subseteq 1..appended
        /\ Range(q) \cap (Range(p) \cup Range(r) \cup Range(file)) = {}
    BY <2>1, TakenOut
  <2> QED
    BY <2>1, <2>2, <2>3, <2>4 DEF Lost
<1>5. ASSUME Unmoved \/ Enters \/ WritesOut PROVE Lost' = Lost
  <2>1. CASE Unmoved
    BY <2>1 DEF Unmoved, Lost
  <2>2. CASE Enters
    <3>1. appended' = n /\ file' = file /\ InFlight' = Append(InFlight, n)
      BY <2>2 DEF Enters, NewLine
    <3> HIDE DEF n
    <3>2. Range(InFlight') = Range(InFlight) \cup {n}
      BY <1>1, <1>2, <3>1, RangeAppend
    <3> QED
      BY <1>2, <3>1, <3>2 DEF Lost
  <2>3. CASE WritesOut
    <3>1. PICK w \in Seq(Nat) : file' = file \o w /\ InFlight = w \o InFlight'
      BY <2>3 DEF WritesOut
    <3>2. Range(file') = Range(file) \cup Range(w)
      BY <1>1, <3>1, RangeConcat
    <3> DEFINE rest == InFlight'
    <3>3. Range(w \o rest) = Range(w) \cup Range(rest)
      BY <1>1, RangeConcat
    <3>4. Range(InFlight) \cup Range(file) = Range(InFlight') \cup Range(file')
      BY <3>1, <3>2, <3>3
    <3> QED
      BY <2>3, <3>4 DEF WritesOut, Lost
  <2> QED
    BY <1>5, <2>1, <2>2, <2>3
<1>6. CASE Trim /\ Len(buffersToWrite) > HighWater
  BY <1>4, <1>6, FlowTrim
<1>7. CASE AppendToNext /\ ResetsObject
  BY <1>3, <1>7, FlowAppendToNext
<1>8. CASE ~(Trim /\ Len(buffersToWrite) > HighWater) /\ ~(AppendToNext /\ ResetsObject)
  <2>1. Leaks = {}
    BY <1>8, NothingLeaks
  <2> QED
    BY <1>3, <1>4, <1>5, <2>1, FlowStep
<1> QED
  BY <1>6, <1>7, <1>8

(* A line is lost nowhere but where append empties the full buffer and     *)
(* where threadFunc cuts a backlog of more than HighWater buffers: not at  *)
(* the swap, in the recycling or between the batch and the file.  The cut  *)
(* loses all lines from the third buffer on and none of the first two; a   *)
(* line once lost never turns up again.                                    *)
THEOREM LinesLeakOnlyThere == Spec => LeaksOnlyThere
<1>1. FlowInv /\ FlowInv' /\ Ordered /\ [Next]_vars => [Lost' = Lost \cup Leaks]_vars
  BY LeakStep
<1> QED
  BY <1>1, FlowInductive, OrderedInductive, PTL DEF Spec, LeaksOnlyThere

(* Of two sequences in order, one is what a leak leaves of the other as    *)
(* soon as it has no line the other has not.                               *)
LEMMA OrderedLeftOf ==
  ASSUME NEW s \in Seq(Nat), NEW t \in Seq(Nat), Increasing(s), Increasing(t),
         Range(t) \subseteq Range(s)
  PROVE  Pipe!LeftOf(t, s)
<1>1. ASSUME NEW i \in DOMAIN t, NEW j \in DOMAIN t, i < j,
             NEW k \in DOMAIN s, NEW l \in DOMAIN s, t[i] = s[k], t[j] = s[l]
      PROVE  k < l
  <2>1. s[k] < s[l]
    BY <1>1 DEF Increasing
  <2>2. k \in Nat /\ l \in Nat /\ s[k] \in Nat /\ s[l] \in Nat
    OBVIOUS
  <2>3. ASSUME ~(k < l) PROVE s[l] <= s[k]
    <3>1. k = l \/ l < k
      BY <2>2, <2>3
    <3> QED
      BY <2>2, <3>1 DEF Increasing
  <2> QED
    BY <2>1, <2>2, <2>3
<1> QED
  BY <1>1 DEF Pipe!LeftOf, Pipe!Range, Range

LEMMA PipeStep ==
  ASSUME FlowInv, FlowInv', Ordered, Ordered', [Next]_vars
  PROVE  [Pipe!Next]_(Pipe!vars)
<1> DEFINE n == appended + 1
<1>1. /\ InFlight \in Seq(Nat) /\ file \in Seq(Nat) /\ appended \in Nat
      /\ InFlight' \in Seq(Nat) /\ file' \in Seq(Nat) /\ appended' \in Nat
  BY PipeTypes
<1>2. /\ Increasing(InFlight)
      /\ Range(InFlight) \subseteq 1..appended /\ Range(file) \subseteq 1..appended
  <2>1. Range(file \o InFlight) = Range(file) \cup Range(InFlight)
    BY <1>1, RangeConcat
  <2> QED
    BY <1>1, <2>1, IncreasingConcat DEF Ordered
<1>3. Increasing(InFlight') /\ Range(InFlight') \subseteq 1..appended'
  <2> DEFINE f == file'
             g == InFlight'
  <2>1. f \in Seq(Nat) /\ g \in Seq(Nat)
    BY <1>1
  <2>2. Increasing(f \o g) /\ Range(f \o g) \subseteq 1..appended'
    BY DEF Ordered
  <2> HIDE DEF f, g
  <2>3. Range(f \o g) = Range(f) \cup Range(g) /\ Increasing(g)
    BY <2>1, <2>2, RangeConcat, IncreasingConcat
  <2> QED
    BY <2>2, <2>3 DEF g
(* A new line behind what is left of the others is an Accept.              *)
<1>4. ASSUME NewLine, NEW p \in Seq(Nat), InFlight' = Append(p, n),
             Increasing(p), Range(p) \subseteq Range(InFlight)
      PROVE  Pipe!Next
  <2>1. n \in 1..MaxLines /\ file' = file /\ \A m \in 1..appended : m < n
    BY <1>1, <1>4, LoggingAssumption DEF NewLine
  <2>2. \A m \in Range(InFlight) \cup Range(file) : m < n
    BY <1>2, <2>1
  <2> HIDE DEF n
  <2>3. SubSeq(InFlight', 1, Len(InFlight') - 1) = p
    BY <1>4, <2>1, FrontOfAppend
  <2>4. Pipe!LeftOf(p, InFlight)
    BY <1>1, <1>2, <1>4, OrderedLeftOf
  <2>5. Pipe!Accept(n)
    BY <1>4, <2>1, <2>2, <2>3, <2>4 DEF Pipe!Accept, Pipe!Range, Range
  <2> QED
    BY <2>1, <2>5 DEF Pipe!Next
<1>5. CASE Unmoved
  BY <1>5 DEF Unmoved, Pipe!vars
<1>6. CASE Enters
  BY <1>1, <1>2, <1>4, <1>6 DEF Enters
<1>7. CASE Overwrites
  <2>1. PICK p \in Seq(Nat), q \in Seq(Nat) : InFlight = p \o q /\ InFlight' = Append(p, n)
    BY <1>7 DEF Overwrites
  <2>2. Increasing(p) /\ Range(InFlight) = Range(p) \cup Range(q)
    BY <1>2, <2>1, RangeConcat, IncreasingConcat
  <2> QED
    BY <1>4, <1>7, <2>1, <2>2 DEF Overwrites
<1>8. CASE CutOut
  <2>1. PICK p \in Seq(Nat), q \in Seq(Nat), r \in Seq(Nat) :
          InFlight = p \o (q \o r) /\ InFlight' = p \o r
    BY <1>8 DEF CutOut
  <2> DEFINE qr == q \o r
  <2>2. qr \in Seq(Nat) /\ Range(qr) = Range(q) \cup Range(r)
    BY RangeConcat, ConcatProperties
  <2> HIDE DEF qr
  <2>3. Range(p \o qr) = Range(p) \cup Range(qr) /\ Range(p \o r) = Range(p) \cup Range(r)
    BY <2>2, RangeConcat
  <2>4. Range(InFlight') \subseteq Range(InFlight)
    BY <2>1, <2>2, <2>3 DEF qr
  <2>5. Pipe!LeftOf(InFlight', InFlight)
    <3> DEFINE g == InFlight'
    <3>1. g \in Seq(Nat) /\ Increasing(g) /\ Range(g) \subseteq Range(InFlight)
      BY <1>1, <1>3, <2>4
    <3> HIDE DEF g
    <3>2. Pipe!LeftOf(g, InFlight)
      BY <1>1, <1>2, <3>1, OrderedLeftOf
    <3> QED
      BY <3>2 DEF g
  <2>6. InFlight' \in Seq(1..MaxLines)
    <3>1. appended' \in Nat /\ appended' <= MaxLines
      BY <1>1 DEF FlowInv, CountInv
    <3>2. Range(InFlight') \subseteq 1..MaxLines
      BY <1>3, <3>1, LoggingAssumption
    <3> DEFINE g == InFlight'
               T == 1..MaxLines
    <3>3. g \in Seq(Nat) /\ Range(g) \subseteq T
      BY <1>1, <3>2
    <3> HIDE DEF g, T
    <3>4. g \in Seq(T)
      BY <3>3, RangeInSeq
    <3> QED
      BY <3>4 DEF g, T
  <2>7. file' = file
    BY <1>8 DEF CutOut
  <2> QED
    BY <2>5, <2>6, <2>7 DEF Pipe!Leak, Pipe!Next
<1>9. CASE WritesOut
  <2>1. PICK w \in Seq(Nat) : file' = file \o w /\ InFlight = w \o InFlight'
    BY <1>9 DEF WritesOut
  <2> DEFINE rest == InFlight'
             k == Len(w)
  <2>2. rest \in Seq(Nat)
    BY <1>1
  <2> HIDE DEF rest
  <2>3. CASE w = <<>>
    <3>1. file' = file /\ InFlight = rest
      BY <1>1, <2>1, <2>2, <2>3, ConcatEmptySeq DEF rest
    <3> QED
      BY <3>1 DEF rest, Pipe!vars
  <2>4. CASE w # <<>>
    <3>1. SubSeq(w \o rest, 1, Len(w)) = w /\ Len(w) \in 0..Len(w \o rest)
      BY <2>2, PrefixOfConcat
    <3>2. SubSeq(w \o rest, Len(w) + 1, Len(w \o rest)) = rest
      BY <2>2, SuffixOfConcat
    <3>3. k \in Nat /\ k # 0
      BY <2>4, EmptySeq
    <3> HIDE DEF k
    <3>4. /\ k \in 1..Len(InFlight) /\ SubSeq(InFlight, 1, k) = w
          /\ SubSeq(InFlight, k + 1, Len(InFlight)) = InFlight'
      BY <1>1, <2>1, <3>1, <3>2, <3>3 DEF rest, k
    <3>5. Pipe!Write(k)
      BY <2>1, <3>4 DEF Pipe!Write
    <3> QED
      BY <3>4, <3>5 DEF Pipe!Next
  <2> QED
    BY <2>3, <2>4
<1> QED
  BY <1>5, <1>6, <1>7, <1>8, <1>9, FlowStep

(* The logger implements the leaking pipe: whatever the logging threads    *)
(* and the backend do, lines come out in the order of append, none twice   *)
(* and none that was not logged.                                           *)
THEOREM LoggerIsAPipe == Spec => ImplementsLogPipe
<1>1. Init => Pipe!Init
  <2> SUFFICES ASSUME Init PROVE Pipe!Init
    OBVIOUS
  <2>1. BuffersInFlight = <<>> /\ file = <<>>
    BY SubSeqEmpty, ConcatEmptySeq, EmptySeq DEF Init, BuffersInFlight
  <2>2. InFlight = <<>>
    BY <2>1, LinesOfNone DEF InFlight, LinesIn, Lines, Contents
  <2> QED
    BY <2>1, <2>2 DEF Pipe!Init
<1>2. FlowInv /\ FlowInv' /\ Ordered /\ Ordered' /\ [Next]_vars => [Pipe!Next]_(Pipe!vars)
  BY PipeStep
<1> QED
  BY <1>1, <1>2, FlowInductive, OrderedInductive, PTL
  DEF Spec, ImplementsLogPipe, Pipe!Spec
==============================================================================
