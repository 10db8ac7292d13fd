# jinyi in TLA+

jinyi is a small multi-threaded web server in C++, written to learn from muduo
and linyacool's WebServer: one event loop per thread, an acceptor that hands
connections to a pool of loops, a logger with a backend thread. This directory
models its loops and threads, the acceptor, a connection from the first byte to
the close, the timers and the logger, model-checks them with TLC and proves the most
important invariants with TLAPS.

## How the source is read

The source does not compile as it stands (missing semicolons, misspelt names, a
missing header, a class whose declaration was overwritten by another one). The
reading here is always the same:

- what the compiler would reject and what has one plausible repair is read as the
  repair;
- what the compiler accepts is modelled exactly as written, however odd;
- what is missing altogether (`LogFile`, a `readn` for the eventfd) is modelled
  from how it is used.

Repairs that matter to the models: `EPOLLLET` (HttpData.cpp:228)
is `EPOLLET`; `Condition` holds a reference to the mutex (by
value it would be a copy of a noncopyable object, and a different mutex);
`pthread_cond_timewait` is `pthread_cond_timedwait`; `Epoll::poll` tests
`activeChannels` where it says `req_data`; `startLoop` returns the pointer its body
returns, and the destructor nothing; `once_init` assigns to `AsyncLogger_`;
`currentBuffer_->reset(new Buffer)` in the branch without a spare buffer is
`currentBuffer_.reset(new Buffer)`, for `FixedBuffer::reset` has no parameter. The
other `currentBuffer_->reset()`, one line above, *does* compile, and is modelled as
what it is: a reset of the buffer. `FixedBuffer::current`, which has an empty body,
returns `cur_`. The condition of `handNewConn`'s loop (Server.cpp:44) has its
parentheses in the wrong place and is read as `accept(...) > 0`; `acceptChannel_`,
never set, as a new Channel.

The timers need more than that, and three gaps are not of a kind a compiler would find:
`Epoll::add_timer` makes a holder and queues nothing, `HttpData::linkTimer` is empty (its
member is commented out), and `Timer::clearReq` calls `HttpData::reset()` where it should reset its
pointer, which calls it back. `TimerQueue` has them as they are and, by its constant
`RepairSets`, with `"queue"`, `"link"` and `"drop"` repaired one after the other.

## Inventory

| component | files | state | operations |
|---|---|---|---|
| EventLoop | net/EventLoop | `looping_`, `quit_`, `pendingFunctors_` under `mutex_`, `callingPendingFunctors_`, eventfd | `loop`, `runInLoop`, `queueInLoop`, `wakeup`, `handleRead`, `doPendingFunctors`, `quit` |
| Epoll, Channel | net/Epoll, net/Channel | `fd2chan_`; per channel `events_`, `revents_`, `lastEvents_`, four handlers | `epoll_add/mod/del`, `poll`, `handleEvent` |
| EventLoopThread | net/EventLoopThread | `loop_` under `mutex_`, a Thread | `startLoop`, `threadFunc`, destructor |
| EventLoopThreadPool | net/EventLoopThreadPool | `loops_`, `next_` | `start`, `getNextLoop` |
| Server | net/Server | listening descriptor and its channel; outside it the kernel's queue and the descriptors | constructor, `start`, `handNewConn`, `handThisConn` |
| HttpData | net/HttpData | buffers, parser state, `connectionState_`, `keepAlive_`, `error_` | `handleRead`, `handleWrite`, `handleConn`, `handleClose`, the parser |
| Timer, TimerQueue | net/Timer | deadlines in a heap, `deleted_`, a pointer to the connection | `addTimer`, `handleExpiredTimer`, `isValid`, `clearReq`, the destructor |
| Util | net/Util | none | `readn`, `writen`, socket options |
| Thread, CountDownLatch | base/ | `started_`, `tid_`, a count under a mutex | `start`, `join`, `wait`, `countDown` |
| MutexLock, Condition | base/ | a pthread mutex, a pthread condition | the RAII guard, `wait`, `waitForSeconds`, `notify` |
| AsyncLogging, Logging | base/ | current and spare buffer, vector of full ones; `running_`; a `pthread_once` | `append`, `threadFunc`, `start`, `stop`; `output` |
| LogStream, FixedBuffer | base/ | a buffer of fixed size | `<<`, `convert`, `append`, `avail` |
| FileUtil | base/ | a FILE | `AppendFile::append`, `write` |

Interactions. The server's loop runs `handNewConn` from its acceptor's channel and
asks the pool for a loop. A connection's channel calls HttpData, which changes its
event mask and calls back into its loop (`updatePoller`, `runInLoop`,
`removeFromPoller`), which calls Epoll. Foreign threads reach a loop only through
`runInLoop`, `queueInLoop` and `quit`, that is through a mutex, plain flags and an
eventfd. EventLoopThread owns a thread whose stack holds the loop. Every thread
may log; all of them meet in `AsyncLogging::append`.

What is hard. (1) Sleeping and waking: a functor or a quit must not be left behind
by a loop that goes to sleep. (2) Lifetimes: the loop lives on another thread's
stack and is handed out by address. (3) The start of threads: a latch, a
condition and an assertion on the tid. (4) Buffers that change hands between
threads by moving shared pointers, and are written without the mutex. (5) Event
masks, one-shot and edge-triggered registration, and a parser that is called on
pieces of a request. (6) Limits: descriptors that run out, a backlog, a buffer a line
does not fit into, a file that takes a part of what it is given. (7) Time: a clock that wraps
around under deadlines that do not, and a timer that outlives what it was for. All seven are modelled.
`PROJECT.json` lists the hazards line by line with the properties that watch them.

What makes each component correct. EventLoop: it never sleeps on work, executes
every functor once and in order, ends when told to. EventLoopThread: the address it
hands out is a live loop's, the destructor returns. Thread: the tid is known when
`start` returns. AsyncLogging: lines reach the file in order and at most once,
buffers have one owner, nothing is lost without need. Pool: loops take turns.
Server: an accepted descriptor ends with a connection or closed. HttpData:
answers are those to the peer's requests, in their order, and complete; a connection
is always watched for what it needs, or closed. TimerQueue: no timer fires early, an expired one is
found, and it closes no connection that has been active since. LogStream and
FileUtil: a line is made of whole pieces, a number reads back, a file gets a text
in order. Epoll: what it reports is registered.

## Modules

| module | models | extends |
|---|---|---|
| `TaskQueue` | abstract: a queue of functors executed in order, once | |
| `EventLoop` | EventLoop, with `Epoll::poll` and `Channel::handleEvent` | |
| `EventLoopThread` | EventLoopThread, Thread, CountDownLatch around a whole EventLoop | `EventLoop` |
| `LogPipe` | abstract: a pipe of lines that may leak | |
| `AsyncLogging` | AsyncLogging, `output`, `once_init` | |
| `HttpParser` | HttpData's parser, as operators | |
| `Connection` | HttpData's handlers, Channel's masks, epoll's entry, `readn` and `writen`, the socket, the peer | `HttpParser` |
| `Acceptor` | Server and EventLoopThreadPool, the acceptor's masks and its entry in epoll, the kernel's queue, the descriptors, the clients | |
| `TimerQueue` | Timer and TimerQueue, with what HttpData and Epoll do with timers, the clock | |
| `LogStream` | the text of a line: LogStream, FixedBuffer, Logger's use of them, as functions | |
| `AppendFile` | AppendFile::append, as a function | |
| `Logging` | the way of a line: LogStream, AsyncLogging and AppendFile in one instance | all three |
| `MC...` | model values for TLC | |
| `SequenceLemmas` | lemmas about sequences, recursion and induction on numbers | |
| `...Proofs` | theorems about the module named (`EventLoopProofs` about EventLoopThread too, `ConnectionOutputProofs` about Connection) | |

**EventLoop.** `loopPc` is the place of the loop's thread in `loop()`,
`doPendingFunctors` and the handlers they call. One action is one stretch of code
between two points where another thread's step could matter: taking `mutex_`,
releasing it, reading `quit_`, the `epoll_wait`, the eventfd. `queueInLoop` is
`QueueInLoop` (the caller is on its way to the mutex, and waits if it is taken), `Lock`
(it gets it), `Emplace` (releases it and reads the flag) and
`Wakeup` (the write); `quit` is `Quit` and `Wakeup`. The flag is read after the
mutex is released, but on a foreign thread the other half of the condition is
already true and on the loop's own thread nobody else writes it, so that step need
not be split. `wakeupFd` is "the counter is positive", `ready` is epoll's ready
list; being edge-triggered, a channel leaves the list when it is reported, and an
eventfd that was drained in the meantime is not reported. `"conn"` stands for
every other channel; its handler may call the loop any number of times. The two
plain bools `quit_` and `callingPendingFunctors_` are taken as single reads and
writes. The comments call `quit_` atomic; it is not declared so, and a compiler
might keep it in a register, but `poll()` is opaque and forces the reload.

`ConnHandlers` is the set of channels that were given a connHandler_. As written it
is `{"conn"}`; the wakeup channel has none, `handleEvent` calls it all the same,
and the empty `std::function` throws. `{"conn", "wakeup"}` is the loop with the
missing call added, which is what everything else about the loop is checked on:
as written nothing of interest happens after the first wakeup.

**EventLoopThread** adds the owner (`ownerPc`: `startLoop`, the destructor) and the
thread around the loop (`childPc`: `runInThread`, `threadFunc`) and lets the steps
of EventLoop happen while the loop's object exists. `CountDownLatch::wait` tests
its count in a loop under the mutex that `countDown` holds and broadcasts under, so
it is a guard. The wait for `loop_` is kept as test, wait, signal and spurious
return. The critical sections of `startLoop` and `threadFunc` are atomic. Nobody takes the
address back: once `startLoop` has returned it (`HandedOut`), the other threads may begin a
call at any time, also after `loop()` has returned and after the loop is gone (`UseLoop`),
and a call may be anywhere on its way when that happens. `~MutexLock` locks the mutex before it destroys
it and never unlocks it (`ReturnFunc`), so it waits for whoever is inside a critical section, and leaves whoever
waits for the mutex, or comes later, waiting. A call on a destroyed loop works on a dead
stack frame, which is undefined; `TouchDestroyed` follows the outcomes that nobody else notices: it
ends, or, as long as it has not taken the mutex, it hangs.

**AsyncLogging** gives buffers an identity, because the defect it has is about two
names for one buffer. `append` is one action (all of it is one critical section);
the backend's turn is six. A line is a number in the order of append. `Cap` counts
lines per buffer in place of bytes. `ResetsObject` is TRUE for the code as it
stands, FALSE for the code with `currentBuffer_.reset()`. `pthread_once` is
`once`; the thread's own latch is folded into `StartThread` and `LatchReleased`,
for nothing between the two latches is visible to anybody.

**HttpParser** maps the members a parser function reads to those it writes. Text is
a sequence of tokens: the characters the parser looks for stand for themselves,
a word is one token ("rest" is a word that lost its first character), "long" is a
run beyond the 255 characters a value may have. What the parser does to a text depends
on nothing else, except that a value's length is counted across tokens in the code.
The member `hState_` survives from call to call and the positions do not, as in
the code; a key whose beginning was in an earlier piece therefore starts one
character in front of the text ("garbage"). `nowReadPos_` is always 0. The
`CASE` of `Step` has the machine's states in the source's order.

**Connection** follows one connection through `Channel::handleEvent`. `pc` is the
handler about to run: `read` is `handleRead` up to the end of its `do`, `flush` the
rest of it, which may start over with `read`, as the code does by recursion. Between
two actions the peer may do anything; within one there is one system call that matters
(`readn` until EAGAIN, `writen`, `epoll_ctl`). `inbox` and `outbox` are the socket,
the latter with room for `SndCap` units. An answer has two units, header and
body, so that a write can stop in between; an error page is one.
`interest` is what the kernel watches, `events` and `lastEvents` the two masks of
Channel that are supposed to agree with it, `edge` the descriptor's place on the
ready list: it is put there when something it is watched for happens, or when
`EPOLL_CTL_MOD` finds something, and leaves it when it is reported. A one-shot
entry that has fired is watched for nothing. `made` is a history variable, the
output of all successful requests. `Reply` is what the peer expects for a request, whose file is
named by its `Target`: `index.html` for the root, and never the query. `HttpData` is one record, `http`, for the
stages of `handleRead` hand it on; the stages are operators from record to record.

**Acceptor.** Everything but the clients runs on the base loop's thread, so an action
is a stretch between two system calls in whose result a client can make a difference: `Poll`,
one turn of `handNewConn`'s loop (`AcceptClient`), its end (`AcceptFails`) and
`handThisConn` (`UpdatePoller`). `AcceptFails` is always possible, since `accept` fails for passing
reasons too and the loop does not look at errno. `holder` is the process's table of descriptors;
`accept` takes the lowest free one, and since nobody ever closes or hands over a
connection below `MAXFDS`, the code has no action that frees one. Line 71 sets
`EPOLLIN || EPOLLET`, which is 1, that is `EPOLLIN`: the acceptor is edge-triggered up to its
first turn and level-triggered from then on. `ready` follows epoll's ready list as
in Connection. The start is modelled with its failures: `socket_bind_listen` returning
-1, no threads, a `startLoop` that hangs, an `epoll_ctl` that is refused.

**TimerQueue.** One loop's timers. `turn` is `poll` and the handlers, `expire` is
`handleExpiredTimer`, one turn of its loop an action; the clock may tick between any
two. `reading` is the clock after `% 10000` (`Period`), in whole units. A
Timer is destroyed when it is popped, and its destructor closes the connection it still holds.
`Top` is the top of the heap: of several timers with the least deadline any. `seperateTimer` is `Separated`,
`DroppedHold` and `timer' = NoTimer`; where `clearReq` is not repaired it is
`Recurse`, the stack overflow. `timer` stands for the weak pointer: it finds its timer while that is in the queue
(`Locked`). `age`, `born` and `timeout` are history. `handleExpired` is entered
whenever the loop's turn ends; that `poll` returns only when a channel is reported, never because a
timer is due, is why nothing obliges `EnterExpired` to happen.

**LogStream** and **AppendFile** are pure functions, checked against what is expected of them over
bounded inputs. A buffer is the text in it. What `convert` writes is
spelled out digit by digit, with C++'s division (towards zero) made from TLA+'s;
other text is a few tokens, as long as it matters. `LogLine` folds a Logger's pieces into
its buffer. `AppendToFile` takes the answers of the stream (`taken[i]`: how much the
i-th `fwrite` would take) as an argument, so that all of them can be tried. **Logging** puts the
three together: `FileGetsBuffer` evaluates `AppendToFile` in every state
in which the backend is about to write a buffer, on that buffer's lines.

**Faulty variants.** Next to some definitions stands a variant no action uses, such
as `MustWakeForeign` beside `MustWake`. Substituted for it, it breaks the property
`PROJECT.json` pairs it with: it shows the property can tell right from wrong.

## Runs

| run | what it asks | bounds | states |
|---|---|---|---|
| `loop_repaired` | does the loop sleep on work, lose, repeat or reorder functors, ignore a quit? | 2 foreign threads, 3 functors | 81308 |
| `wakeup_kills_loop` | does a wakeup leave the loop alive? No. | the same | stops at the error |
| `thread_lifecycle` | start, hand-over, quit, join, destruction, with callers throughout and behind the end; which calls return? | owner, 1 more caller, 2 functors | 10903 |
| `thread_start` | has the function been entered when `start` returns? No. | the same | stops at the error |
| `logging_as_written` | who owns the buffers, do the assertions hold, what does a full buffer hold when it is written? | 9 buffers, 2 lines each, 9 lines, high water 2 | 22656 |
| `logging_repaired` | order, loss and progress of lines once the reset is repaired; is a line whole, does the file get a buffer in order? | the same; Logger's buffer 36 with 12 kept free for a number, up to 2 pieces of a user; streams of up to 4 calls of at most 2 bytes | 14530 |
| `connection_pieces` | is output lost or reordered, does the connection wait for the right event, is a reset noticed? | 3 pairs of pipelined requests, cut anywhere, 2 units of socket, FIN and reset at any time | 458469 |
| `connection_polite` | does a peer get the replies it asked for, at every moment those due, and is the connection kept as asked? | 6 scripts of up to 3 requests, 1 unit of socket | 117 |
| `line_parsed_early` | is a request line read as a whole? No. | the same scripts, cut anywhere | stops at the error |
| `peer_close_forgotten` | is a finished peer's connection closed? Not always. | the same scripts, with FIN and reset | stops at the error |
| `acceptor` | do the loops take turns, is a waiting client overlooked or kept waiting, what becomes of descriptors? | 3 loops, 5 clients, a queue of 3, 2 or 5 free descriptors of which 3 are below `MAXFDS` | 12022 |
| `timers` | is a connection closed early, late, never, or though it was active? | 2 connections, 3 timers, a clock of 3 readings, timeouts 1 and 2, as written and with 1, 2 and 3 repairs | 478342 |

Why the bounds are enough. Two foreign threads can be in any two places of their
calls while the loop is in a third; three functors allow one that is executed, one
in the batch and one pending, and a functor that queues a functor. Functors are
handed over once each (`sent`), which bounds the calls; `quit` and the handlers are
unbounded. Nine lines of two to a buffer fill four buffers, two more than the
high-water mark of 2 (25 in the code), so that backlogs are cut; the backend and
the front together never name more than nine buffers within that, so the heap never runs out
(`HeapHolds` is true whenever it is asked). The proofs hold for every value.
A connection serves its requests one after the other and keeps nothing but `method_`
and `keepAlive_` from one to the next: two pipelined requests show each as a first
and a second one, and three polite ones a request with both neighbours. They
cover GET, HEAD and another method, files found, missing and unreadable, the root, a name with a query,
with and without Keep-Alive. A socket of one or two units is smaller than two answers, so
that it fills up within and between answers.
Three loops tell a rotation from an alternation, and five clients go round once and begin
again; with two descriptors they run out before `MAXFDS`, with five `MAXFDS` is
reached first, and two clients are refused. Three timers let one connection have an old and a new one and another
connection a third; with a clock of three readings and timeouts of one and two a
deadline may lie before, at or behind the wrap, and two may be equal. Ages stop
counting at the clock's period, by when the clock has wrapped over any timer; no property looks further. A Logger's
line has 7 to 17 characters of its own, so that two pieces of a user, of up to 14
characters, fit, nearly fit or overrun 36; the numbers surround the
rounding of `/` and `%`, the powers of ten and the ends of a 32-bit int.
Four calls of at most two bytes can write a buffer of four bytes in every way
there is, and stop in every place.

Deadlock is checked where the system cannot stop (`loop_repaired`: a handler may
always run again and the loop can always be called). It is not
checked for the logger, which stops when told to, nor for the thread, which ends or,
after a failed `pthread_create` or a forgotten quit, waits for ever; nor for a
connection, which is closed in the end or waits for a peer that has nothing to say;
nor for the acceptor, which may fail to come up and sleeps when all clients have
come. It is checked for the timers.

Fairness is weak fairness of the loop's own thread, of every call once it has
begun (on a destroyed loop only of its `wakeup`), of the owner and the child thread, of the logging backend, of the
connection's loop, of the acceptor's start and loop. The code justifies it by the operating system's scheduler; the backend's wait also ends by
its timeout. A thread that waits for a mutex is not favoured by weak fairness, nor by
pthreads. A critical section here is one `emplace_back` or `swap`, and the finitely many
functors bound how often foreign threads can be first; the loop's own thread can be first
at every one of its turns, for ever, and `CallsReturn` says so instead of assuming that the mutex is fair. Nobody is obliged to call, log, quit
or destroy, and no descriptor to become ready, save for the peers of two
specifications of Connection named next. One fairness is strong: `accept` may fail for a passing reason
(`ECONNABORTED`, no memory) whenever it is called, but not every time for ever, so
`AcceptClient`, which is enabled again and again, happens. The timers have no fairness
at all: the loop turns only when a channel is reported, so that nothing can be said of when a timer is popped,
and `LateOnlyByWrap` speaks of the turns that come.

`LoopMoves`, the fair step of a connection's loop, is named by what only the loop
changes (`pc`, and `edge` being cleared): it is enabled exactly when one of the
server's actions is. The peer reads what it is sent in `ReaderSpec`, makes
its requests in `PoliteSpec`, and owes nothing in `FairSpec`.

### What the runs show

- As written, the first `wakeup()` ends the process: `WakeupSurvived` fails (finding 1).
- With that repaired the loop is right: `SleepsOnlyWhenIdle`, `QueuedRuns`,
  `QuitStops`, and it implements `TaskQueue` with the batch in progress ahead of
  what is pending as the queue.
- `Thread::start` does not wait for the function, only for the tid: `StartWaitsForFunc`
  fails against the comment of CountDownLatch.h (finding 2). `startLoop` makes up for
  it with its own condition: `LoopHandedOutLive`, `StartLoopReturns`.
- `DestroyReturns` needs `loop()` to have been entered. If `quit()` comes first it is
  forgotten and the destructor hangs: `ForgottenQuitHangs` (finding 4).
- The end of a loop does not catch a caller inside `queueInLoop`'s critical section, for
  `~MutexLock` waits for it: `CallsReturn`, which a destructor that does not lock would
  violate. A caller still waiting for the mutex then, or coming later, may hang for good, since the mutex is
  destroyed locked; the comment at MutexLock.h:22 says as much. That is the one
  exception beside a caller the loop's thread is always ahead of, and TLC finds `CallsReturn`
  violated when either is taken out.
- As written, of every batch of log buffers only the last one still has its lines:
  `FullBuffersArriveEmpty` (finding 3). Ownership and assertions are right all the
  same, and with the reset repaired so are order and progress; the only loss left is
  the intended cut of a backlog, of all lines but those of its first two buffers
  (`LeaksOnlyThere`).
- A connection used as most browsers do (a whole request in one segment, then
  wait) is right: `AnsweredSoFar`, `Served`, `KeptAsAsked`, also through a socket that
  takes one unit at a time. It is closed with all replies given, and only after a complaint or
  when no request asked to be kept alive. `handleWrite`'s and `handleConn`'s masks, `lastEvents_` and the one-shot
  registration fit together: `WaitsForRightThing`.
- A peer that cuts or pipelines its requests never gets an answer out of order or one it did
  not ask for (`AnswersInOrder`, `InOrder`), but it may get a 400, or nothing at
  all: a malformed line is skipped in silence, one that has not arrived as a whole is
  taken for parsed (`LineParsedWhole`, finding 5), the positions of a split header are lost, and the
  first character behind a blank line is eaten. `WaitsForRightThing` holds all the
  same: after a malformed line the connection waits for input, and nobody answers.
- A connection can be forgotten in two ways, named in `Forgotten`: output owed to a
  peer that has finished (`PeerCloseHandled`, finding 6), and a reset while only output is
  awaited, which is reported without EPOLLIN and which `handleEvent` ignores.
  `ResetNoticed` shows there is no third.
- The loops take turns (`TurnsBalanced`), also when a connection is refused after its loop was chosen. No
  client is left waiting by a base loop that sleeps (`NobodyLeftWaiting`,
  `ClientsAccepted`), though `handNewConn` ends its loop on any error: line 71's `||`
  makes the mask differ from the registered one, so `epoll_mod` looks again, and from then on the acceptor
  is level-triggered. With the mask that was meant, `epoll_mod` would find it
  unchanged and do nothing, and a client could wait for ever; that is the mutant.
- An accepted descriptor is never made non-blocking, handed over or closed
  (`NeglectedForGood`, finding 7). When they have run out `accept` fails at once, and the
  level-triggered acceptor keeps the base loop busy without end.
- No timer closes its connection early, in spite of the clock (`NeverEarly`), and with the three
  gaps closed none closes a connection that has been active since
  (`OnlyIdleClosed`). But a deadline at or beyond the wrap of the clock is never
  reached (`WrapForgets`, finding 8); a timer past its timeout that `handleExpired` leaves in the
  queue is always one the clock has wrapped over (`LateOnlyByWrap`): nothing else in the
  heap, deleted or not, is in its way.
  With a queue and a link but `clearReq` as it is, the first activity of a
  connection ends in the recursion (`Recurse`).
- A log line loses whole pieces and only near the end of its buffer, and every int reads back
  (`LinesWhole`); a file gets a buffer in order, but `append` gives up when the second or
  a later `fwrite` takes nothing, and the file then has what the calls before took (`FileGetsBuffer`).
- Seen while modelling, and in the model: an empty file is answered with 404 (mmap
  refuses length 0), HEAD of favicon.ico gets a body, a HEAD of a name with GET in it may be taken
  for a GET, and a request without any header line is never complete.

## Proofs

TLAPS checks, for every value of the constants that satisfies the modules'
assumptions (the special values are none of the ordinary ones; `Cap` is positive;
`HighWater` is at least 2; `Owner` is one of the callers; the socket takes at least
one unit, a stream at least one call; no integer has more digits than
`kMaxNumericSize` leaves room for beside its sign and the NUL; the clock has at least one reading and `AgeBound` is no less than `Period` or any timeout):

| theorem | module | argument |
|---|---|---|
| `TypeCorrect`, `NoLostWakeup` | `EventLoopProofs` | `IInv` below |
| `Refinement` | `EventLoopProofs` | `IInv` and `OnceInv`; every step is a step of `TaskQueue` or changes neither its queue nor its history |
| `HandedOutLive`, `AssertionsNeverFail` | `EventLoopProofs` | `TInv`: the child's place decides the latch, the tid and `loop_`, the owner's place bounds the child's, and only the destructor quits |
| `ThreadTypeCorrect`, `SleepsWellInThread`, `ThreadRefinement` | `EventLoopProofs` | a step of the composition is a step of EventLoop, leaves its variables alone, or is one of the two at the end (`EndStep`: `~MutexLock` locks for good, a call on a destroyed loop ends), which keep `IInv` and `OnceInv` |
| `ForgottenForGood` | `EventLoopProofs` | `Forgotten` below |
| `TypeCorrect`, `NoSharedBuffer`, `AssertionsNeverFail` | `AsyncLoggingProofs` | `IInv`: how far the start is, what the backend holds, the spare buffer, and `Unshared` itself |
| `FullBuffersLost` | `AsyncLoggingProofs` | with the reset as written, `Emptied`: every pushed buffer but the last of the backend's batch is empty |
| `LinesLeakOnlyThere`, `LoggerIsAPipe` | `AsyncLoggingProofs` | `FlowInv` below |
| `AppendIsOrderly`, `BuffersReachFile` | `LoggingProofs` | the writes' loop, below |
| `LinesAreWhole` | `LoggingProofs` | digits and pieces, below |
| `TypeCorrect` | `ConnectionProofs` | `CInv`, and `MemberInv`: the parser leaves members of their types, below |
| `WatchedForRightThing` | `ConnectionProofs` | `CInv` below |
| `OutputInOrder` | `ConnectionOutputProofs` | `OutputInv` below |
| `AnswersBelongToRequests` | `ConnectionOutputProofs` | `AInv` below, for a peer of `PlainTraffics` |
| `PolitePeerIsAnswered` | `ConnectionOutputProofs` | `PoliteInv` below, for a `PolitePeer` |
| `TypeCorrect`, `LoopsTakeTurns`, `WaitingIsSeen` | `AcceptorProofs` | `TurnsInv`: `next_` points behind the loops that have had their turn; `MaskInv` below |
| `DescriptorsAreKept` | `AcceptorProofs` | `BlockingInv`: only descriptor 0 is ever made non-blocking, and it is never a client's |
| `TypeCorrect`, `ClosesInTime`, `ForgottenAtWrap`, `PoppedInTime`, `OnlyLatestCloses` | `TimerQueueProofs` | `HoldInv`, `LinkInv`, `AgeInv` below |

`SleepsOnlyWhenIdle` speaks of the loop while it sleeps; it is not inductive, since it
says nothing of the turn before. `AnnounceInv` does: from the swap to the next
`epoll_wait` whatever is pending has been announced, by a readable eventfd or by a
caller about to write it, or, on the loop's own thread, by a functor about to.
That in turn needs `LockInv` (one holder of the mutex, and a functor in the hands of everybody who waits for it) and `PhaseInv` (the flag
brackets `doPendingFunctors`; a handler that queues without a wakeup does so before
the swap). For the logger, `AssertionsHold` needs the link between the two sides of
the hand-over: the spare buffer is only gone after a full one was pushed
(`SpareInv`), so a batch that costs the backend both its buffers holds at least two.

`ForgottenQuitHangs` is a liveness property of another kind: it says that something
never happens again, and needs no fairness. `Forgotten` (the destructor joins, the
loop has been entered and has not seen a quit) is closed under every step, because the only caller
of `quit()` is the destructor and it has been and gone (`TInv`).

What the logger holds is the concatenation of its buffers: the batch yet to be
written, the full ones, the current one. `FlowInv` adds to `IInv` that a buffer no pointer names
is empty (`StaleInv`, or else the heap would put lines back in) and that `written` counts within the batch
(`CountInv`). Under it every step appends one line to that sequence, takes a beginning of
it to the file, drops a piece of it at one of the two leaks, or moves buffers without
changing it (`FlowStep`); both theorems follow from these four and from `Ordered`: the file
and what is behind it stand in the order of `append`, so no line is there twice and a
piece that is dropped is gone. The lemmas about `FlattenSeq`, a
recursive fold of the library, rest on `Recursion` and `Induction` of `SequenceLemmas`: the set of the
numbers at which a statement holds is given to the well-foundedness of the naturals, which needs no operator as a
parameter. The loop of `AppendFile::append` goes the same way, backwards: from the
i-th write on, the file gets the rest of the text, or as much as the stream takes until it refuses.

`LinesWhole` is about functions. `convert` divides until nothing is left: its function is defined on all
integers, and such a one exists because every integer has a chain of quotients that ends
(`QuotientNearer`, `EndlessRecursion`). The digits it writes are read back by induction along the chain
(`EveryNumberReads`), C's remainder of a negative number included, and there are no more of them
than `HasDigits` counts (`DigitsBound`). The pieces of a line are folded over one by one: what `FixedBuffer::append`
takes is a choice of the pieces offered, all of them while they and a number more would fit
(`LineFills`, `LinesAreMade`). Folds over sets, as in the value of a row of digits, rest on `SetRecursion`.

`WaitsForRightThing` speaks of a connection at rest. `CInv` says what must hold while its
handlers run: the descriptor is registered for one of three masks, the one Channel
remembers, or spent if it was one-shot (`MaskInv`); what it is watched for and is
there already is on the ready list, unless a handler is about to drain or to fill
the socket (`BusyInv`), and `handleConn`, which skips `epoll_ctl` when the mask has not
changed, hands that over to the sleeping loop (`IdleInv`). Of the parser the proof uses only
that a stage keeps the connection state and never takes back an error.
`TypeOK` needs more of it: a turn of `parseHeaders`'s loop leaves a state, a
key and a value that the machine knows and stays within the text (`Reached`), and the loop, a recursive function of the
position, is such turns in a row.
`OutputInv` adds the bookkeeping of `InOrder`: what has been delivered is a beginning
of all output, with at most an error answer behind it, and a connection without
error that nobody has reset has the rest in `outBuffer_`. It needs to know that an
error ends the connection (`handleRead` is not entered again) and that the parser only ever adds
at the end, or complains.

`AInv` is about what is answered. A place is a request and a position in its text. What the server
has received and not parsed is a piece of the peer's text without gaps: it can be
marked with places, each the next of the one before and the last just in front of what has not been sent
(`Marks`), save that the first token may have lost its first character. That survives being cut,
being skipped a line, a lost position of a key and an eaten character. A line that parses
begins with the verb of a plain request and ends at its end of line, so the method and
the file it gives are those of one request (`LineIsRequest`), and all requests answered so far
begin before it (`KnownAt`); so the answer, if there is one, belongs to a later request than all before
(`HistoryInv`). The hypothesis `PlainTraffics` says that no name contains a blank, a carriage return or a
verb, and that nobody asks for the header of favicon.ico alone. A URI has no blank or line end. The other two
exclusions are needed: in a HEAD of `/GET/p1` the code takes the name's verb for the request's and answers with
all of `p1`, and to a HEAD of favicon.ico it sends a body (TLC finds both when such a request is added). The run's own peers satisfy it, which TLC checks (`RequestsArePlain`).

A `PolitePeer` sends whole plain requests with verbs the parser knows, waits for the answer before it sends the next, and
does not leave: the run's peers do, which TLC checks (`RequestsArePlain`, `VerbsAreKnown`), and no more is asked of them,
neither that they read nor how many units the socket takes. `WholeRequest` runs the parser on such a
request: `parseURI` takes its first line, nine turns of the loop in `parseHeaders` take its header and the
blank line, and `analysisRequest` adds its reply, or `handleError` is called with a 404.
`PoliteInv` then says that what has been delivered and what is in `outBuffer_` are together the replies to the
requests read so far; that `inBuffer_` is empty, and the parser's members are fresh unless a
request is being answered (`AnswerInv`); that the socket holds one whole request or none, and one only when
nothing is on its way to the peer (`PeerInv`, `AllAnswered`); and which of its two ways `handleEvent` goes
(`TurnInv`). Together with `CInv` that gives `AnsweredSoFar`: a loop with nothing to do has left neither a request unread
nor output unsent, and a connection is closed with its last reply given. `Served` adds only that the loop and
the peer keep going.

The acceptor's `MaskInv` is about the turn from edge to level: clients that wait are on the
ready list, or the loop is in `handNewConn` with the edge-triggered mask still
registered, which `EPOLLIN` will differ from. For the timers, `HoldInv` says a deleted one holds nothing, so that
whoever closes a connection was not deleted and its deadline had come; `AgeInv` relates deadline,
clock and age over at most one wrap, exactly up to the first, so that the top of the heap, not due, speaks for
all timers behind it (`PoppedInTime`); `LinkInv` says that a timer that holds a connection is the one the connection
knows, which holds once everything is repaired.

Only model-checked: the properties that need fairness, for fairness is out of the
prover's reach, and with them the second half of `NeglectedForGood`, whose first half
is `DescriptorsAreKept`. Every invariant the passing runs check is proved.
What cannot be proved for good reason is the other direction of `AnswersInOrder`, that a
request has an answer at all: for a peer that cuts or pipelines it is false, for a polite one it is
`AnsweredSoFar`, and with fairness `Served`.

## Not modelled, and what is left

- Two descriptors in one `fd2chan_`, and a number that is used by two connections
  in turn. The code never registers an accepted descriptor, so there is
  nothing to translate; the models know one connection and the acceptor.
- Of a connection: who owns the HttpData object, `HttpVersion_` and the MIME type
  (they decide nothing), and the reset a kernel sends when a socket is closed with
  unread input. Its timers are in `TimerQueue`; as written none exists, so `Connection` has none.
- `epoll_mod`'s error branch (Epoll.cpp:62-66), which forgets the channel: the kernel does not refuse
  `EPOLL_CTL_MOD` for a descriptor that is registered, and these are.
- `Timer::update` and Timer's copy constructor, which nobody calls. `Timer::update` would change a
  deadline under the heap.
- `quit()` writing to the eventfd of a loop that has already been destroyed, a failed `pthread_create`
  behind `AsyncLogging`'s latch, and the lines appended after the backend's last
  swap: the models contain these steps, and no property promises anything about them.
- `handle_for_sigpipe` and the socket options, which no other state depends on; opening, flushing and closing a
  file; thread names and the cached tid; the destructor's `pthread_detach`.
- The text of floating-point numbers (`snprintf`'s), of time and tid, and of HTML pages.
- `LogFile`, which is not in the repository.
