----------------------------- MODULE AsyncLogging -----------------------------
(***************************************************************************)
(* base/AsyncLogging.{h,cpp}, with output() and once_init() of Logging.cpp *)
(* and the start of the backend thread.                                    *)
(*                                                                         *)
(* Any thread appends its line to the current buffer under mutex_.  A full *)
(* buffer is pushed on buffers_ and replaced by the spare one or by a new  *)
(* one.  The backend thread takes all buffers at once, gives back its two  *)
(* empty ones, and writes what it took without holding the mutex.          *)
(*                                                                         *)
(* Buffers are objects that several shared_ptrs may name, so they have an  *)
(* identity here and their content is kept beside them.  A line is its     *)
(* number in the order of append; which thread logged it is left out, for  *)
(* all that append does is inside one critical section.                    *)
(*                                                                         *)
(* append empties the buffer it has just pushed: "currentBuffer_->reset()" *)
(* is FixedBuffer::reset on the object, not shared_ptr::reset on the       *)
(* pointer.  ResetsObject makes the question a parameter: TRUE is the code *)
(* as it stands, FALSE the code with "currentBuffer_.reset()".             *)
(***************************************************************************)
EXTENDS Naturals, Sequences, SequencesExt

CONSTANTS
  Buffers,       \* the buffer objects the heap can hold
  Null,          \* the value of an empty shared_ptr
  Cap,           \* how many lines fill a buffer
  MaxLines,      \* bound: lines logged in all
  HighWater,     \* 25 in the code: a longer backlog is cut down to two buffers
  ResetsObject

ASSUME LoggingAssumption ==
  /\ Null \notin Buffers
  /\ Cap \in Nat \ {0}
  /\ MaxLines \in Nat
  /\ HighWater \in Nat /\ HighWater >= 2
  /\ ResetsObject \in BOOLEAN

VARIABLES
  once,          \* how far pthread_once(once_init) is
  running,       \* running_
  content,       \* content[b]: the lines in buffer b
  currentBuffer, nextBuffer, buffers,        \* shared, under mutex_
  newBuffer1, newBuffer2, buffersToWrite,    \* the backend's own
  backendPc,     \* where the backend is in threadFunc()
  written,       \* how many of buffersToWrite it has handed to the file
  file,          \* the lines in the file
  appended       \* how many lines have been appended

frontVars == <<currentBuffer, nextBuffer, buffers>>
backVars == <<newBuffer1, newBuffer2, buffersToWrite, written, file>>
vars == <<once, running, content, frontVars, backVars, backendPc, appended>>

BackendPoints ==
  {"none", "boot", "test", "collect", "waiting", "trim", "write", "exited"}

TypeOK ==
  /\ once \in {"never", "creating", "latch", "done"}
  /\ running \in BOOLEAN
  /\ content \in [Buffers -> Seq(Nat)]
  /\ currentBuffer \in Buffers \cup {Null}
  /\ nextBuffer \in Buffers \cup {Null}
  /\ buffers \in Seq(Buffers)
  /\ newBuffer1 \in Buffers \cup {Null}
  /\ newBuffer2 \in Buffers \cup {Null}
  /\ buffersToWrite \in Seq(Buffers)
  /\ backendPc \in BackendPoints
  /\ written \in Nat
  /\ file \in Seq(Nat)
  /\ appended \in Nat

Referenced == {currentBuffer, nextBuffer, newBuffer1, newBuffer2}
              \cup Range(buffers) \cup Range(buffersToWrite)

(* new Buffer: a block of the heap that nobody refers to.  Which one makes *)
(* no difference to anything; that there is one is a bound of the model.   *)
Free == Buffers \ Referenced
NewBuffer == CHOOSE b \in Free : TRUE
SecondNewBuffer == CHOOSE b \in Free \ {NewBuffer} : TRUE
HeapHolds(n) == IF n = 1 THEN Free # {} ELSE Free \ {NewBuffer} # {}

Init ==
  /\ once = "never"
  /\ running = FALSE
  /\ content = [b \in Buffers |-> <<>>]
  /\ currentBuffer = Null
  /\ nextBuffer = Null
  /\ buffers = <<>>
  /\ newBuffer1 = Null
  /\ newBuffer2 = Null
  /\ buffersToWrite = <<>>
  /\ backendPc = "none"
  /\ written = 0
  /\ file = <<>>
  /\ appended = 0

------------------------------------------------------------------------------
(* output(): the first thread to log runs once_init, the others wait.      *)

(* new AsyncLogging with its two buffers, and start() as far as running_.  *)
OnceInit ==
  /\ once = "never"
  /\ once' = "creating"
  /\ running' = TRUE
  /\ HeapHolds(2)
  /\ currentBuffer' = NewBuffer
  /\ nextBuffer' = SecondNewBuffer
  /\ UNCHANGED <<content, buffers, backVars, backendPc, appended>>

(* Thread::start: if pthread_create fails it returns as if nothing were    *)
(* the matter, and start() goes on to wait for the latch either way.       *)
StartThread ==
  /\ once = "creating"
  /\ once' = "latch"
  /\ backendPc' \in {"boot", "none"}
  /\ UNCHANGED <<running, content, frontVars, backVars, appended>>

(* latch_.wait() returns, start() and pthread_once with it.                *)
LatchReleased ==
  /\ once = "latch"
  /\ backendPc \notin {"none", "boot"}
  /\ once' = "done"
  /\ UNCHANGED <<running, content, frontVars, backVars, backendPc, appended>>

CanAppend == once = "done" /\ appended < MaxLines

HasRoom == Len(content[currentBuffer]) < Cap

(* "currentBuffer_->avail() > len"                                         *)
AppendToCurrent ==
  /\ CanAppend
  /\ HasRoom
  /\ appended' = appended + 1
  /\ content' = [content EXCEPT ![currentBuffer] = Append(@, appended')]
  /\ UNCHANGED <<once, running, frontVars, backVars, backendPc>>

(* buffers_ once the full buffer is pushed; a faulty version forgets it.   *)
NotPushed == buffers
Pushed == Append(buffers, currentBuffer)

(* The other reset(): with ResetsObject FALSE this is the code as it       *)
(* stands, with TRUE the repaired code.                                    *)
AfterOtherPush == IF ResetsObject THEN content ELSE [content EXCEPT ![currentBuffer] = <<>>]

(* What is in the buffers after push_back and reset().                     *)
AfterPush == IF ResetsObject THEN [content EXCEPT ![currentBuffer] = <<>>] ELSE content

(* The current buffer is full: it is pushed (and emptied), and the line    *)
(* goes into the spare buffer, or a new one if there is none.              *)
AppendToNext ==
  /\ CanAppend
  /\ ~HasRoom
  /\ nextBuffer = Null => HeapHolds(1)
  /\ appended' = appended + 1
  /\ buffers' = Pushed
  /\ currentBuffer' = IF nextBuffer # Null THEN nextBuffer ELSE NewBuffer
  /\ nextBuffer' = Null
  /\ content' = [AfterPush EXCEPT ![currentBuffer'] = Append(@, appended')]
  /\ UNCHANGED <<once, running, backVars, backendPc>>

(* stop(), up to its join.                                                 *)
Stop ==
  /\ once = "done"
  /\ running
  /\ running' = FALSE
  /\ UNCHANGED <<once, content, frontVars, backVars, backendPc, appended>>

------------------------------------------------------------------------------
(* threadFunc(), one action per stretch other threads can come between.    *)

(* Count the latch down, open the file, allocate two buffers.              *)
Boot ==
  /\ backendPc = "boot"
  /\ backendPc' = "test"
  /\ HeapHolds(2)
  /\ newBuffer1' = NewBuffer
  /\ newBuffer2' = SecondNewBuffer
  /\ UNCHANGED <<once, running, content, frontVars, buffersToWrite, written,
                 file, appended>>

(* A faulty loop condition: running_ is not looked at again.               *)
NeverStop ==
  /\ backendPc = "test"
  /\ backendPc' = "collect"
  /\ UNCHANGED <<once, running, content, frontVars, backVars, appended>>

(* while (running_)                                                        *)
TestRunning ==
  /\ backendPc = "test"
  /\ backendPc' = IF running THEN "collect" ELSE "exited"
  /\ UNCHANGED <<once, running, content, frontVars, backVars, appended>>

(* With nothing pushed the backend waits, and gives up mutex_ meanwhile.   *)
WaitForFull ==
  /\ backendPc = "collect"
  /\ buffers = <<>>
  /\ backendPc' = "waiting"
  /\ UNCHANGED <<once, running, content, frontVars, backVars, appended>>

(* Take everything, the current buffer included, and hand back empty ones. *)
TakeBuffers(batch) ==
  /\ backendPc' = "trim"
  /\ buffersToWrite' = batch
  /\ buffers' = buffersToWrite
  /\ currentBuffer' = newBuffer1
  /\ newBuffer1' = Null
  /\ nextBuffer' = IF nextBuffer = Null THEN newBuffer2 ELSE nextBuffer
  /\ newBuffer2' = IF nextBuffer = Null THEN Null ELSE newBuffer2
  /\ UNCHANGED <<once, running, content, written, file, appended>>

(* From the wait the thread comes back by a signal, by the timeout or for  *)
(* no reason, and does not look again.  In a faulty version it waits for   *)
(* a full buffer.                                                          *)
FullOnly == backendPc \in {"collect", "waiting"} /\ buffers # <<>>
MayTake ==
  \/ backendPc = "waiting"
  \/ backendPc = "collect" /\ buffers # <<>>

(* Faulty versions take the spare buffer, or put the newest lines first.   *)
SwapSpare == MayTake /\ TakeBuffers(Append(buffers, nextBuffer))
SwapNewestFirst == MayTake /\ TakeBuffers(<<currentBuffer>> \o buffers)
SwapBuffers == MayTake /\ TakeBuffers(Append(buffers, currentBuffer))

(* What is left of the buffers when the batch is destroyed but for kept.   *)
Destroy(kept) ==
  content' = [b \in Buffers |->
    IF b \in Range(buffersToWrite) /\ b \notin kept THEN <<>> ELSE content[b]]

FirstTwo(s) == SubSeq(s, 1, 2)

(* A backlog of more than HighWater buffers is erased but for two.         *)
Trim ==
  /\ backendPc = "trim"
  /\ backendPc' = "write"
  /\ buffersToWrite' = IF Len(buffersToWrite) > HighWater THEN FirstTwo(buffersToWrite)
                                                          ELSE buffersToWrite
  /\ Destroy(Range(buffersToWrite'))
  /\ UNCHANGED <<once, running, frontVars, newBuffer1, newBuffer2, written,
                 file, appended>>

(* for (size_t i = 0; i < buffersToWrite.size(); ++i), or one too few.     *)
OneTooFew == written + 1 < Len(buffersToWrite)
MoreToWrite == written < Len(buffersToWrite)

WriteBuffer ==
  /\ backendPc = "write"
  /\ MoreToWrite
  /\ file' = file \o content[buffersToWrite[written + 1]]
  /\ written' = written + 1
  /\ UNCHANGED <<once, running, content, frontVars, newBuffer1, newBuffer2,
                 buffersToWrite, backendPc, appended>>

(* The buffer below the back of the batch, or the back without pop_back.   *)
WithoutPop(kept) == kept[Len(kept)]
AfterPop(kept) == kept[Len(kept) - 1]

(* The last two of the (at most two) buffers kept become the new empty     *)
(* ones, as far as they are needed; the rest is destroyed.                 *)
Recycle ==
  /\ backendPc = "write"
  /\ ~MoreToWrite
  /\ backendPc' = "test"
  /\ LET kept == IF Len(buffersToWrite) > 2 THEN FirstTwo(buffersToWrite) ELSE buffersToWrite
     IN  /\ newBuffer1' = kept[Len(kept)]
         /\ newBuffer2' = IF newBuffer2 = Null THEN AfterPop(kept) ELSE newBuffer2
  /\ Destroy({})
  /\ buffersToWrite' = <<>>
  /\ written' = 0
  /\ UNCHANGED <<once, running, frontVars, file, appended>>

------------------------------------------------------------------------------
Frontend ==
  \/ OnceInit \/ StartThread \/ LatchReleased
  \/ AppendToCurrent \/ AppendToNext \/ Stop

Backend ==
  \/ Boot \/ TestRunning \/ WaitForFull \/ SwapBuffers
  \/ Trim \/ WriteBuffer \/ Recycle

Next == Frontend \/ Backend

Spec == Init /\ [][Next]_vars

(* The backend is scheduled, and a wait lasts flushInterval_ seconds at    *)
(* most.  Nobody is obliged to log or to stop the logger.                  *)
FairSpec == Spec /\ WF_vars(Backend)

------------------------------------------------------------------------------
(* Properties.                                                             *)

(* The assertions of threadFunc() hold where they stand, and append never  *)
(* dereferences an empty pointer.  The one before "newBuffer2 = back()"    *)
(* needs two buffers in hand whenever the spare one had to be replaced.    *)
AssertionsHold ==
  /\ backendPc = "boot" => running
  /\ backendPc \in {"collect", "waiting"} =>
       /\ newBuffer1 # Null /\ content[newBuffer1] = <<>>
       /\ newBuffer2 # Null /\ content[newBuffer2] = <<>>
       /\ buffersToWrite = <<>>
  /\ backendPc \in {"trim", "write"} =>
       Len(buffersToWrite) >= IF newBuffer2 = Null THEN 2 ELSE 1
  /\ once = "done" => currentBuffer # Null

FrontBuffers == {currentBuffer, nextBuffer} \cup Range(buffers)
BackBuffers == {newBuffer1, newBuffer2} \cup Range(buffersToWrite)

(* The backend writes and resets its buffers without mutex_, which is a    *)
(* data race unless append can reach none of them; and a buffer that two   *)
(* pointers name would be written twice or emptied unwritten.              *)
Unshared ==
  /\ FrontBuffers \cap BackBuffers \subseteq {Null}
  /\ currentBuffer = nextBuffer => currentBuffer = Null
  /\ newBuffer1 = newBuffer2 => newBuffer1 = Null
  /\ {currentBuffer, nextBuffer} \cap Range(buffers) = {}
  /\ {newBuffer1, newBuffer2} \cap Range(buffersToWrite) = {}
  /\ IsInjective(buffers)
  /\ IsInjective(buffersToWrite)

(* The lines on their way to the file, oldest first.                       *)
BuffersInFlight ==
  SubSeq(buffersToWrite, written + 1, Len(buffersToWrite)) \o buffers
  \o (IF currentBuffer = Null THEN <<>> ELSE <<currentBuffer>>)
LinesIn(bs) == FlattenSeq([i \in DOMAIN bs |-> content[bs[i]]])
InFlight == LinesIn(BuffersInFlight)

(* Lines reach the file in the order of append, each at most once.         *)
Pipe == INSTANCE LogPipe WITH Lines <- 1..MaxLines, pending <- InFlight
ImplementsLogPipe == Pipe!Spec

(* Of every batch only the last buffer still has its lines: each full one  *)
(* was emptied by append as it was pushed.                                 *)
FullBuffersArriveEmpty ==
  \A i \in 1..(Len(buffersToWrite) - 1) : content[buffersToWrite[i]] = <<>>

Lost == (1..appended) \ (Range(InFlight) \cup Range(file))

(* What a step loses: a backlog that is cut loses the lines of all but two *)
(* buffers, and a full buffer that is pushed, because reset() empties the  *)
(* object, loses its own.                                                  *)
Cuts == backendPc = "trim" /\ backendPc' = "write" /\ Len(buffersToWrite) > HighWater
EmptiesPushed == ResetsObject /\ appended' # appended /\ ~HasRoom
Leaks ==
  IF Cuts THEN Range(LinesIn(SubSeq(buffersToWrite, 3, Len(buffersToWrite))))
  ELSE IF EmptiesPushed THEN Range(content[currentBuffer])
  ELSE {}

(* These lines are lost, no other ever is, and none comes back.            *)
LeaksOnlyThere == [][Lost' = Lost \cup Leaks]_vars

(* While the backend runs nothing stays in the pipe for good.              *)
PipeDrains ==
  \A n \in 1..MaxLines :
    n \in Range(InFlight) ~> (n \notin Range(InFlight) \/ backendPc = "exited")

(* stop() comes back from its join.                                        *)
StopReturns == (once = "done" /\ ~running) ~> backendPc = "exited"
==============================================================================
