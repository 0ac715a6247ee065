# A TLA+ development of kernel4gameserver

kernel4gameserver is a small kernel for game servers: a process that loads
application modules, runs their timers and their TCP connections on one main
thread, and keeps the sockets on worker threads. This directory holds TLA+
specifications of its core, configurations that check them with TLC on small
instances, and proofs for TLAPS. `PROJECT.json` maps every definition to the
lines it stands for and lists components, hazards, runs and theorems.

Paths below are relative to the repository; `kernel/` and `Public/` lie in
`src/src/`.

    tlc -config MCTimer.cfg MCTimer      # a run
    tlapm TimerProofs.tla                # the proofs of a component

## 1. The system

One process. The **main thread** runs `Kernel::Loop`: on each turn it polls the
engine's own epoll (accepts, connects), reads the event queue of every net
worker and calls the sessions back, then runs the timers that are due. All
application code runs here, in callbacks. A **net worker** thread
(`epollWorker::Run`) waits on an epoll of its own, receives, sends what the
socket would not take at once, closes, and queues events for the main thread.
A **logger thread** writes the lines the main thread hands over.

    application modules        OnConnected / OnRecv / OnDisconnect / OnTime
          |  ^                 Send / Close / StartTimer / KillTimer / Log*
          v  |
    main thread --- Timermgr (timer wheel, main thread only)
       |     |----- epoller (listening and connecting sockets)
       |     |----- TQueue<LOGStream*> ------------> logger thread
       |   CPipe: status, m_bNeedSend, two TStreams
       v     ^
    epollWorker thread --- TQueue<ioevent> ---> main thread

| component | state | operations | what makes it correct | hard to get right |
|---|---|---|---|---|
| `TQueue` (`Public/TQueue.h`) | slots, a flag per slot, two indexes, two counters | `Add`, `TryAdd`, `Read`, `IsEmpty` | a bounded FIFO: nothing torn, lost, duplicated, reordered | two threads, no lock, only the flags; index and counter change in separate steps |
| `TStream` (`Public/TStream.h`) | buffer, `m_read`, `m_write`, `m_max`, read lock | `in`, `out`, `buff`, `size`, `clear`, `LockRead` | a byte sequence; what a reader looks at does not move | writer decides without the lock, moves the bytes under it |
| epoll connection (`kernel/net/epoll/CPipe`, `SPipe`, `epollWorker`) | status, socket, turn flag `m_bNeedSend`, streams, epoll registration, event queue | accept, `Send`, `Close`, the worker's receive, send, close, the delivery of events | sent chunks leave in order, received data is shown, the session is told its end once and last | two threads, edge-triggered epoll, a status changed by both |
| epoll engine (`epoller`) | listening and connecting sockets, pool of pipes, workers | `AddServer`, `AddClient`, `DealEvent`, `Destory` | each connect is answered, and truly; a pipe serves one session | a connecting socket is watched by two epolls; a session dials again while its failure is handled |
| timer wheel (`kernel/timermgr`) | cursor, slots, nodes | `StartTimer`, `KillTimer`, `Processing` | due, never early, without drift, as often as asked, none lost | callbacks start timers while the wheel is scanned; rounding; width of the uptime |
| `TPool` (`Public/TPool.h`) | blocks, free list, status per unit | `Create`, `Recover` | no unit handed out twice, none lost | two threads; status tested outside the lock; units come back as they were |
| logger (`kernel/logger`) | file, its size and age, queue and pool of lines | `Log`, writer thread, rotation, `Destory` | lines reach a file in order, and a file that is open | recycled streams keep their text; files that do not open |
| kernel lifecycle (`kernel/Kernel.cpp`, `main.cpp`) | shutdown flag, singletons | start-up order, `Loop`, `Shutdown`, `Destory` | nothing used after it is gone | threads run while their owners are destroyed |
| module manager (`kernel/logicmgr`) | modules by name | load, `Initialize`, `Launched`, `FindModule` | all modules initialised before one is launched | callbacks before the loop runs |
| iocp engine (`kernel/net/iocp`) | as the epoll engine, on Windows | posted receives and sends, completions | as for the epoll connection | recycled pipes, outstanding operations |
| event bundler (`Public/TBundler.h`) | registrations, pending deletions | bind, unbind, fire, reflush | a callback is called while bound only | unbinding while firing |
| argument lists (`Public/CArgs.h`, `CData.h`) | typed values in a buffer | append, read | what is read is what was written | offsets at the limit of the buffer |
| gate, clients (`logic/`) | sessions, link counters | samples: echo, load generation | `OnConnected` and `OnDisconnect` alternate, as their assertions say | calls into the kernel from callbacks |
| configuration, threads and locks, tools | | | | thin wrappers |
| abandoned code (`kernel/log/Logger.cpp`, `epoll/ITcpServer.cpp`) | | | | in no build |

`PROJECT.json` lists the hazards line by line, with the properties that cover
them or the reason why none does yet.

## 2. Modules

Component and contract are kept apart: the contract says what users rely on,
the component how the code does it, and the component is shown to implement
the contract through `INSTANCE ... WITH`. Definitions whose comment begins with
"Mutant:" are plausible mistakes in the definition that follows, against which
the properties were tried; no specification uses them.

| module | is about | uses | proofs |
|---|---|---|---|
| `TQueue` | `Public/TQueue.h` | `BoundedFifo` (contract) | `TQueueProofs` |
| `TStream` | `Public/TStream.h` | `ByteStream` (contract) | `TStreamProofs` |
| `Timer` | `kernel/timermgr` | `TimerContract` | `TimerProofs` |
| `EpollPipe` | one connection of `kernel/net/epoll` | `SessionContract` | `EpollPipeProofs` |
| `TPool` | `Public/TPool.h` | | `PoolProofs` |
| `EpollEngine` | many connections: `epoller.cpp`, `SPipe.cpp` | `TPool` | `EngineProofs` |
| `Logger` | `kernel/logger` | `TPool` | `KernelProofs` |
| `Kernel` | `Kernel.cpp`, `main.cpp`, `logicmgr`, lives of the threads | extends `Logger` | `KernelProofs` |
| `IocpPipe` | one connection of `kernel/net/iocp` | `SessionContract` | `IocpProofs` |

The event queues and the log queue are bounded FIFOs in these modules because
`TQueue` is shown to implement one; the streams of a connection are sequences
because `TStream` is shown to implement one. `Timer` and the connections meet
in the application only, which calls both.

### TQueue, BoundedFifo

`TQueue` has one action for every access to memory the other side can see
(`AddStore`, `AddPublish`, `AddCount`, `AddReturn`, ...; likewise for `Read`
and `IsEmpty`), so all interleavings of two threads are there. Threads are
elements of `Producers` and `Consumers`; `wpc`, `rpc` hold each one's place.
`lock` and `size` are the template parameters. `RCount`, `WCount` are taken
modulo `CountMod`, the 2^32 of `u32`. Each thread's stores are taken to become
visible in program order, which an unoptimised x86 build gives and the C++
standard does not promise.

`BoundedFifo` has one step for each call. The mapping takes the occupied slots
from the head on as the sequence, and a call as done once its flag is written.

| property | says |
|---|---|
| `SlotOwnership` | a slot is never written and read at once |
| `Contiguous` | occupied slots are those from head to tail: no hole, no stale flag |
| `ImplementsFifo` | every call takes effect in one step between start and return |
| `DrainedMeansReturned` | when `IsEmpty` lets the logger stop, only unreturned calls have items inside |
| `AddReturns`, `EveryItemIsTaken` | `Add` does not wait for ever; what is added is read |

### TStream, ByteStream

One writer, readers that take turns under `m_pRlock`. `in` is cut where it
looks at the room (`InFits`, `InCompacts`, `InGrows`, no lock), where it moves
the bytes (`Compact`, `Grow`, under the lock), where it copies (`InCopy`) and
where it publishes (`InPublish`). `Look` is `size()` and `buff()`: the reader
holds a pointer into the buffer until `Out`. Grown or cleared bytes are
`Unset`. A copy onto itself (see findings) is taken to go upwards. Assumed of
the callers: readers touch the stream under the lock (the epoll engine does; a
pending `WSASend` of the iocp engine does not), consume no more than
they were shown, and `clear` comes when the connection is over. Sizes do not
overflow `s32`.

`ByteStream` is a sequence and, for each reader, what it is being shown.
`ImplementsByteStream` says that compaction and growth neither lose nor change
a byte and do not move what a reader looks at; `CopyFits` that room measured
without the lock is still there when the copy comes.

### EpollPipe, SessionContract

One accepted connection from `SPipe::DoAccept` to `OnDisconnect`. Variables
are those of `CPipe` (`status`, `needSend`, `out` for `m_oSendStream`,
`stream` for what `m_oRecvStream` holds, ...), the socket (`wire`, `unread`,
`inbox`, `peer`), its epoll entry (`mask`, `mode`, `armed`), the event queue,
and each thread's place and locals. Data comes in numbered chunks. Main thread
and worker interleave at every access to shared state: `Send` is `CallSend`,
`SendLocks`, `SendTakes`/`SendBlocks`/`SendFails`/`SendDrained`,
`SendShortens`; the worker's round is `EpollWait`, then the receive, send,
hang-up and post stages, each cut at its lock and system calls.

The event queue is the bounded FIFO `TQueue` is shown to be, and the streams
are the byte sequences `TStream` is shown to be. `recv`, `send`, epoll and the
peer are external and modelled as the calls meet them:
edge-triggered entries become ready on a change, `EPOLLONESHOT` disarms,
`EPOLL_CTL_ADD` and `MOD` poll at once; `send` takes what fits, blocks, fails
once after a reset and then raises SIGPIPE. The peer sends, reads, and ends
by FIN or RST. A failed assertion (`TASSERT` aborts in the Linux build, which
defines `_DEBUG`) or a signal ends the process: `halted` says where.

The application sends and closes between turns and in `OnConnected` and
`OnRecv`. It may close more than once, and does not send after its own
`Close`.

`SessionContract` is the session's side: `OnConnected`, then `OnRecv` with what
has come, then `OnDisconnect`, once, after the peer's end and everything it has
sent, or after the session's own `Close`. The mapping counts what the session
has been shown as what has arrived less what lies in the socket or unseen in
the stream.

| property | says |
|---|---|
| `StreamInOrder` | socket and stream together hold each chunk once, in order, though two threads send |
| `StreamIsWatched` | a chunk neither thread is sending has a ready or blocked epoll entry that will get it sent: the hand-off by `m_bNeedSend` loses no wake-up |
| `ReceiptAnnounced` | data `OnRecv` has not been called with is announced by an event, queued or on its way |
| `CloseFlushes` | a `Close` is not reported before what was sent has left |
| `KeepsSession` | the session is called as its contract says |
| `SentChunksLeave`, `CloseIsReported`, `DataIsShown`, `FinIsReported` | what is sent leaves; a close, data, the peer's end reach the session |

`KeepsSession` needs a peer that ends with a FIN: after a reset the worker may
meet the error in `DoSend`, queue a BREAK, and still receive. `breaks > 1`
after a `Close` is the first finding on `CPipe.cpp` below, and the mapping lets
it pass so that the run says what holds besides.

### Timer, TimerContract

Everything is on the main thread but nothing is atomic: `Processing` is cut at
every callback (`OnStart`, `OnTime`, `OnTerminate`), in which the application
may start further timers and the clock goes on. `slots` maps a slot number to
its list, most recent first; `node` holds the `TimeNode` objects. `ToS32` is
the conversion to `s32`, which `Processing` applies to the uptime and
`StartTimer` to interval, delay and loop after its assertion on the interval;
`Divided` is C++ division, to a slot number in an `s32`. The clock does not
step back (`GetTimeMillisecond` is the wall clock; nothing in the repository
says what a step back should do).

`TimerContract` keeps a promise per running timer: due date, period, calls
left. `EveryTimerIsAhead` says that each running timer is listed once, in the
slot of its due date, at or after the cursor; `NeverEarly`, that no callback
comes before its date; `KeepsContract`, that dates do not drift and the number
of calls is the one asked for (0 means for ever, as -1 does); `DueTimerRuns`
and `ProcessingEnds`, that neither timers nor the scan starve.

### TPool, EpollEngine

`TPool` is the free list and the status of each unit, numbered as they are
allocated: `Create` takes the head, `Recover` asserts the status and appends.
Both users keep its calls apart from each other (one thread, or the pool's
lock), so each is one step; the status that `Recover` tests before it locks is
changed by the user of the unit only.

`EpollEngine` is how connections come and go: sessions that dial
(`DialAtOnce`, `DialRefused`, `DialPending` are the three outcomes of
`AddClient`), a server that accepts until the backlog is empty, `DealEvent`
with the batch `epoll_wait` has returned, the failure of an attempt cut before
and after `OnConnectFailed` (a session may dial again inside), and the worker
that closes what the peer has ended. `sk` holds a socket with its entries in
both epolls; entries outlive their pipes. There is one worker, because
`BalancingWorker` compares counts that nothing changes and always answers the
first. `answers` and `told` are what each socket's attempt was answered and
what each session was told last. What goes over a connection is in
`EpollPipe`. Failures of `socket`, `setsockopt`, `bind` and `listen`, which
assert or answer false before anything is kept, are left out.

| property | says |
|---|---|
| `PoolSound` | the pool's books are right, and a pipe in the pool has neither host nor socket nor events on their way |
| `NoForeignPipe` | `m_pPipe` of a session is in use and its own, also after it has dialled in `OnConnectFailed` |
| `AnswerIsTrue` | the first answer to an attempt is what the network said |
| `AttemptIsAnswered`, `BacklogIsAccepted` | every attempt is answered, no connection is left in the backlog, although edges are reported once |

The run has peers that end with a FIN. With `Ends = {"fin", "rst"}`
`PoolSound` fails: the entry a connected socket keeps in the engine's epoll
then reports an error, and `DealEvent` takes the connection for a failed
attempt and releases its pipe. That is the same missing `EPOLL_CTL_DEL` that
`epoll_engine_connects_twice` shows, and it is left there.

### Logger, Kernel

`Logger` follows a line from `Log` through pool and queue to the file. `file`
is reduced to whether it is open and to what `m_lOpenTick` and `m_lFileSize`
say of it: `"zero"`, as `FILEClose` leaves them, `"recent"`, or `"past"` an hour
or the size. `FILEOpen` may fail; failing `fclose` and `fwrite` meet the
assertions of `Logger.h`. A `LOGStream` keeps its old text when it comes back
from the pool: `text` is a sequence of lines, of which the last is the new one,
and the whole of it is written each time the stream is used. So lines are
repeated in the files, and the property about them is the order of their turns.
`Logger::Terminate` is called by nobody, so the thread does not leave `Run`.

`Kernel` is the life of the process: `Initialize` starts the workers, loads
the modules, calls `Initialize` and then `Launched` of each, and starts the
logger; `Loop` clears the flag, and on each turn reads the events of the
workers; `Destory` deletes the managers, ends and deletes the workers and
deletes the logger while its thread runs. A worker is reduced to its status,
its place and the length of its queue. What a thread does to a freed object is
undefined: `FreedStep` ends the process or does not come.

| property | says |
|---|---|
| `StreamsAccounted` | a log stream is with the main thread, in the queue, with the logger thread or in the pool, and in one of them only |
| `LinesInOrder` | the turns of the lines come in the order of `Log`; by its end a line is in a file or given up for want of one, and none is in a file before an earlier one that is not given up |
| `WritesToFile` | whatever opening has failed before, nothing is written to a closed file |
| `EndedThreadsAreDone` | a worker for which `Terminate` answers true is not deleted under its thread |
| `ShutdownEnds` | `Shutdown` in the loop ends the process, unless `Terminate` waits for a worker that waits in `Add` for the main thread (`Stuck`) |

### IocpPipe

The Windows engine, from `AddClient` or the completed accept to
`OnDisconnect`, for the first connection of a pipe. `port` is the completion
port, in which what `PostQueuedCompletionStatus` posts and what the system
completes come in one order; `recvOp` and `sendOp` are what the system does
with `m_pRecvEvent` and `m_pSendEvent`. The worker's round is cut where `Out`
frees the lock before it looks at the status, where `DoRecv` posts the next
receive, and at `Add`. An attempt that `DoConnect` refuses at once
(`AddClientFails`) gives its pipe back as it was. `WSASend` reads the send
stream through a pointer it keeps after the lock is freed; the model counts the
chunks and leaves their bytes alone. The pool, the accepts `SPipe` posts, and
`Terminate` are left out.

| property | says |
|---|---|
| `SendTurn` | the send operation is in one pair of hands exactly while `m_bNeedPostOPT` is down, and no chunk of a working connection waits without it |
| `KeepsSession` | the session is called as `SessionContract` says, unless the peer resets |
| `EndIsReported` | the peer's end is reported, and a `Close` that finds something unsent |

## 3. Runs

| run | specification and bounds | shows |
|---|---|---|
| `tqueue` | `FairSpec`; 3 slots, 2 items, counters modulo 4 | all of the TQueue table |
| `tstream` | `Spec`; 2 readers, buffer of 2, writes of 0, 1 and 3 bytes, 5 bytes inside | both stream properties |
| `timer` | `FairSpec`; 2 nodes, slot 2 ms, interval 4, delays 0 and 3, loops -1, 0 and 2, clock steps 1 and 3 up to 8 | all of the timer properties |
| `epoll_pipe` | `Spec`; send buffer and queue of 2, 4 chunks out, 2 in, 2 closes, FIN and RST | the safety of the two streams |
| `epoll_pipe_live` | `FairSpec`; send buffer and queue of 1, 3 chunks out, 1 in, 1 close, FIN | the session's contract and the four liveness properties |
| `epoll_engine` | `FairSpec`; 2 dialling sessions, 3 sockets, blocks of 1 pipe, a server, FIN | all of the EpollEngine table |
| `kernel` | `FairSpec`; 3 lines, queue and blocks of 1, 2 workers with 1 slot and 2 events, up to 2 modules | all of the Logger and Kernel table |
| `iocp` | `FairSpec`; 4 chunks out, 3 in, queue of 1, sends of up to 2 | all of the IocpPipe table |
| `timer_uptime_wraps` | `FairSpec`; `S32` = 8, the clock stops before slot numbers wrap | violated: `DueTimerRuns` |
| `epoll_disconnect_twice` | `Spec`; 1 close, peer stays | violated: `DisconnectsOnce` |
| `epoll_send_after_fin` | `Spec`; 1 chunk each way, FIN | violated: `SendsEstablished` |
| `epoll_engine_connects_twice` | `Spec`; 1 session, 1 socket | violated: `ConnectsOnce` |

Every property of a run is violated when one of its module's "Mutant"
definitions takes the place of the definition below it; `PROJECT.json` says
which.

**Why the bounds are enough.** A ring of three slots is the smallest with a
slot that is neither head nor tail, and wraps many times in a behaviour, as
the counters do at 4; two items tell a torn or stale slot from the right one.
The stream of two bytes meets every branch of `in`: fits, compacts, grows by
one unit and by more. A send buffer of two is filled by four chunks with some
left behind, and a chunk can be added at any point of the drain; a queue of
one makes the worker wait in `Post`. Two closes are needed because the first
may meet the worker sending and the second may not. In the timer runs an
interval of two slots, a delay that falls into the present slot and one into
the next, and a clock that jumps by more than a slot, make `Processing` late
and in time, with two nodes in one slot and in different ones. With at most
`MaxNow` = 8 a timer runs up to twice in one scan. Three sockets let one attempt
fail, its session dial again inside `OnConnectFailed` on a pipe of a second
block, and a third connection take the pipe that came back, while the first
socket's entry is still in the epoll. Three lines are one being written, one
in the full queue and one waiting in `Add`, and streams of blocks of one are
used again at once. Two workers let one be ended while the other waits in
`Add`. Four chunks and sends of two let the worker send twice in a row with
some left, and be done between two calls of `Send`.

The bounds are constants (`MaxOut`, `MaxIn`, `MaxClose`, `Sockets`, `Lines`,
`MaxEvents`, `MaxModules`, `MaxNow`, `MaxContent`) that guard the environment's
or the application's actions. The theorems of section 4 do not depend on them.

Deadlock is checked for the queue, the stream and the timers. It is not for
the connections and the process: a connection that has ended, or a process
that has exited or aborted, is at rest.

**Fairness.** `TQueue`: weak fairness of each thread's steps inside a call,
and of the reader's polling, because `Kernel::Loop` and `Logger::Run` call
`Read` on every turn; no producer has to call `Add`. Strong fairness of taking
a mutex (only used with `lock`) and of calling `Read`, which `IsEmpty` may
interrupt. `Timer`: weak fairness of `Processing` (called on every turn of the
loop; callbacks return) and of the clock. `EpollPipe`: weak fairness of each
thread and of the peer reading what it is sent; the liveness run leaves out
the peer's reset, after which chunks may never leave. `EpollEngine`: weak
fairness of each thread and of the network, which answers a SYN or lets it
time out. `Kernel`: weak fairness of the main thread, of the logger thread and
of each worker inside its round; events need not come, `Shutdown` need not be
called. `IocpPipe`: weak fairness of each thread and of the system, which
completes what can be completed. No call of the application is fair anywhere.

## 4. What is proved

All theorems hold for every value of the constants that satisfies the named
assumptions of the module.

* **TQueueProofs.** `OwnershipInv` adds to the type invariant that at most one
  thread per side is past the lock (from the assumption that without mutexes
  there is one thread per side, or from the mutex), that an index in use is
  inside the ring, and that a tested flag stays as tested (`TestedFlagHolds`).
  A writer in its slot has seen the flag down and a reader has seen it up, so
  `NoTornItem` (`SlotOwnership`) follows. `RingInv` adds the shape of the ring:
  `RingContiguous`. `FifoInv` adds what the calls in progress hold, and
  `Refinement` maps every step to a step of `BoundedFifo` or none. `Counted`
  says that the counters differ by the items inside and the calls between flag
  and counter, modulo `CountMod`; for one reader (`OneReader`, the logger
  thread) what `IsEmpty` has loaded is still current when it compares, and
  `DrainedIsReturned` follows. With several readers the counter loaded could
  come round before it is compared. The proof
  covers the queue with mutexes and any number of threads, which no run does:
  the kernel only instantiates the one without.
* **TStreamProofs.** `CopyFits` is not inductive: `StreamInv` adds what the
  writer has concluded from its look at the room (`RoomIsMade`; readers only
  consume, so the room can only have grown), that a reader at the stream holds
  the lock and its pointer is still good (`ReaderHolds`), and that the bytes
  between the ends are written (`BytesInPlace`). `TypeCorrect`,
  `RoomForEveryCopy` and `Refinement` follow; the last needs the bytes counted
  from `m_read`, which moving them does not change.
* **TimerProofs.** The hypothesis `DatesFit` says that an `s32` can number the
  slots of all due dates, 497 days with slots of 20 ms, and that it holds the
  arguments of `StartTimer`, up to 24.8 days: then their narrowing changes
  nothing (`StartTimerFits`). Without the second part the theorems are false
  (section 5). `TimerInv` relates
  slots, cursor and due dates: the cursor never passes the scan target, which
  is never ahead of the clock (`TargetNotAhead`, whether or not the uptime
  fits the `s32` of `Processing`); a re-armed node lands at least one slot
  further on (an interval is at least a slot, from the assertion in
  `StartTimer`), and a new one not before the slot of the present time, which
  the cursor has not reached. `NoTimerLost` and `NoTimerEarly` follow: the
  wrap after 24.8 days stops timers (`timer_uptime_wraps`) but loses none and
  runs none early. `LeftInv` adds that a node has calls left until its last
  `OnTime` returns, and is the current node from then until `OnTerminate` has
  returned. `ContractKept`, the refinement of `TimerContract`, needs it to show
  that no node is called once too often, and `NeverEarly` that each call is due.
  `ScansGetCloser` gives the measure behind `ProcessingEnds`: slots to go, whether the
  slot at the cursor is still to be taken, nodes taken from it, calls left of
  the current node, in this order; every step of `Processing` makes it smaller
  and a callback, which may start timers, cannot make it larger.
  `ScansCatchUp` says that a scan leaves no timer that was due in a slot before
  that of its tick (`NoTimerEarly` is the other side); it needs a tick an `s32`
  holds, and is false after the wrap.
* **PoolProofs.** Lemmas on `TPool` for its two users: `Create` and `Recover`
  keep every unit free once or in use (`Sound`), for blocks of any size.
* **EngineProofs.** `TInv` adds to the types that an event of the batch with a
  connection names a pipe. `PInv` is `Sound` for the pipes and
  `NoForeignPipe`: a session's pipe is in use with that host, and what
  `Create` answers is in nobody's hands, so relating it disturbs no other
  session; `FailureReturns` clears `m_pPipe` of the host of the pipe that goes
  back, and of no other. `PoolAccounted` and `SessionsKeepTheirPipes` follow,
  also for peers that reset connections. Under `FinOnly` (peers end with FIN)
  `PipeInv`, `SocketInv` and `BatchInv` add what a socket leads to: a refused
  one to its pipe until its one event has been handled (`Leads`), any other
  until the worker has closed it; a pipe that an event, the worker or a
  returning `FailureReturns` names is in use. `PoolKeptSound` and `FirstAnswerIsTrue` follow.
  An epoll that reports an edge once forgives no missed one: `BacklogIsNotMissed`
  (any peers) says where the main thread will find a connection that waits in
  the backlog, `AttemptsAreNotMissed` where it will find an attempt without an
  answer (`FinOnly`).
* **KernelProofs.** `HandsInv` says who holds a log stream and that the hands
  differ; `MainInv` what the main thread has reached (workers started, modules
  loaded, who may be ended); `ThreadInv` that a worker's status says where its
  thread is: STOPED and started means not yet run, or done. Together they are
  inductive and give `LogStreamsAreAccounted` and `EndedWorkersAreDone` for any
  number of lines, workers and events. `NothingWrittenToClosedFile`
  (`WritesToFile`) needs one fact more, `ClosedIsOld`: a file that is not open
  counts as old, so that before a line is written the file is opened, or the
  line is dropped. `LinesReachFilesInOrder` (`LinesInOrder`) numbers the lines
  through the hands: those whose turn is over come before the one the logger
  thread holds, that before those in the queue, and those before the one the
  main thread is adding (`Numbered`). What a stream brings besides its own line
  is old, because it was in one pair of hands when it was written; so a write
  adds one new line, the next, and repeats others (`NoneOvertakes`).
  `WaitsAreAnswered` is what lies behind `ShutdownEnds`: once
  `Initialize` has returned, a full queue of the logger has a thread that reads
  it, and a worker that `Terminate` waits for is there and told to stop, or is
  done. Before that it is false: a `Log` in a module's `Initialize` waits for a
  thread that has not been started, for ever if the queue is full.
* **EpollPipeProofs.** `TInv` is the types with the books of received chunks
  (`Books`) and who is at the send stream (`AtStream`): the lock is held
  exactly while a thread is between `send` and the shortening of the stream.
  `Order` numbers the chunks through socket and stream, leaving out what has
  been taken but not yet shortened (`Off`); every step keeps it, and
  `ChunksInOrder` follows. `Closing` says what a status and a BREAK tell
  about the stream, `Watched` who empties it: while the peer is there, the
  entry of a stream with chunks is edge-triggered and watches for room, and
  it is ready, or the socket full, or the worker on its way to `DoSend`, or the
  turn with `Send`. They give `WorkerIsWoken` (`StreamIsWatched`) and
  `CloseSendsFirst` (`CloseFlushes`); `Receipt` gives `ReceiptIsAnnounced`.
  `SessionKept` is the refinement of `SessionContract`, under `FinOnly`: once a
  BREAK is queued the worker receives nothing any more (`OneBreak`), because it
  has closed the socket (`Ended`) or the status keeps it from receiving
  (`Phases`), so that everything has been shown when the BREAK is handled
  (`AllShown`). `NothingIsMissed`, under `FinOnly` as well, is the safety part
  of `DataIsShown`, `FinIsReported`, `SentChunksLeave` and `CloseIsReported`:
  what has come, the end of the peer, what waits to be sent and a `Close` each
  have a BREAK on its way, a worker that will look, or an entry that watches
  for it (`Entry` and `Woken` say how a status leaves the entry).
* **IocpProofs.** A connection is `Before`, where dialling is at one place at a
  time, or `Made`. Of a connection made, `RecvTurn` and `Turn` say that the
  receive and the send operation are each in one pair of hands (the system's,
  the port's, the worker's), `Awaited` that on a connection that works the send
  operation is under way or free, and free only with nothing to send; `Over`
  that the worker relates to an open connection and that a closed one has one
  BREAK, its last event; `Chunks` counts received chunks through port and
  streams, and `Told` says that the unseen ones have an event on its way. No
  part is inductive alone: one BREAK needs that nothing is under way when
  `related` falls, which the turns say. `TypeCorrect`,
  `SendOperationTakesTurns` and `SessionKept`, the refinement of
  `SessionContract`, follow for any sizes, also with resets. Three theorems are
  about what no completion would report. `OperationsGoOn`: a connection that
  works is receiving, and one that has ended has told or will tell it, with one
  operation left behind at most unless the session closed it. `CloseHeard`: after
  a `Close` no receive is posted and nothing is added to what is to be sent, and
  every completion closes the socket with a BREAK to post, or has the send
  operation under way, or the stream empty with the look at the status to come,
  which ends the connection; there is one that will hear until then
  (`StaysHeard`, `CompletionsEnd`). Only the first receive after an accept
  (`iocpworker.cpp:184`) may be refused unheard. `LatePacketsAreDropped`: the operation left behind changes nothing
  when its packet comes, until the pipe is used again. The exception in the first
  was found by proving: `Out` looks at the status after it has freed
  the lock (`iocp/CPipe.cpp:105`), so a session that sends and closes in
  between leaves both operations behind, and the chunk it sent may be lost.

Every invariant that a run checks is proved. Only model-checked is the
liveness, `EndIsReported` of `IocpPipe` with it: fairness and `ENABLED` are
outside the prover's reach. What liveness rests on besides fairness is proved
where it is an invariant or a step property: `ScansGetCloser`, `NothingIsMissed`,
`OperationsGoOn`, `CloseHeard`, `BacklogIsNotMissed`, `AttemptsAreNotMissed`
and `WaitsAreAnswered`.

## 5. Disagreements between code and text

Shown by a run:

1. `timermgr/Timermgr.cpp:93`: the uptime in an `s32` turns negative after
   24.8 days, and no timer due later ever runs, against "-1 is forever"
   (`API/IKernel.h:88`). Run `timer_uptime_wraps`.
2. `epoll/CPipe.cpp:168`: one `Close` may be reported twice; the gate asserts
   that it is connected when told (`ClientConnectSink.h:72`). Run
   `epoll_disconnect_twice`.
3. `epoll/CPipe.cpp:94`: a session may send before it is told that the worker
   has closed; `Send` asserts an established pipe (`CPipe.cpp:52`). `Close` is
   exposed in the same way. Run `epoll_send_after_fin`.
4. `epoll/epoller.cpp:200`: a connected socket stays in the engine's epoll, and
   its next edge calls `DoConnect` again, whose assertion (`CPipe.cpp:139`)
   fails. Run `epoll_engine_connects_twice`.

Stated in the modules, violated when added to the component's configuration,
or when the constants are given such a value, and not worth a run each:

5. `kernel/Kernel.cpp:118`: `KillTimer` answers true and does nothing, against
   the comments on `OnTerminate` (`API/IKernel.h:68-69`): `KillEndsTimer`.
6. `epoll/SPipe.cpp:53`: the status set again after registration lets the
   worker close twice, against the assertion in `DoClose` (`CPipe.cpp:92`):
   `ClosesOpenSocket`.
7. `Public/TStream.h:95`: compaction copies overlapping ranges with a function
   whose parameters are `__restrict` (`Public/Tools.h:30`):
   `CopiesDoNotOverlap`.
8. `logger/Logger.cpp:66,97`: a `LOGStream` is neither emptied when it is
   recovered nor when it is created again, and `Run` writes all of it
   (`Logger.cpp:59,62`): every reuse writes all earlier lines of the stream
   again, so files and streams grow. `LinesOnce` says what one would expect of
   a log and is violated as soon as a stream is used again; no text promises it.
9. `timermgr/Timermgr.cpp:45`: `StartTimer` takes `s64` and hands the arguments
   on as `s32` (`TimeNode.cpp:21,32`). With a delay of `S32` or a little more
   `EveryTimerIsAhead` and `KeepsContract` are violated (the node lies behind
   the cursor); with a multiple of 2 `S32` and a little more the timer runs that
   much too early; an interval of 2 `S32` passes the assertion, becomes 0 and
   keeps the scan in one slot. No text bounds the arguments.

Modelled, without a text that promises otherwise: `Terminate` may wait for ever
for a worker that waits in `Add` (`epollWorker.h:29`, `Stuck` of `Kernel`); a
`Shutdown` during start-up is forgotten (`Kernel.cpp:71`); a connection that
was made never returns its pipe to the pool, and a `Close` that has sent
everything leaves the socket open (`CPipe.cpp:170`); the lines still queued
when the logger is deleted are lost (`Kernel.cpp:60`).

## 6. Not modelled

The bulk of the repository's lines is the vendored google protobuf library
with its generated tests, and tinyxml. No part of the kernel's behaviour is in
them, and they are left out entirely; of the kernel's own code (`kernel/` and
what it uses of `Public/`) the parts below are left out.

* **configuration**: two XML files read once before anything runs.
* **threads, locks, tools**: wrappers of the platform; what they do is part of
  the modules whose threads use them. `GetTimeMillisecond` is the clock of
  `Timer`.
* **event bundler** (`TBundler.h`): the gate includes it and binds nothing, the
  kernel does not use it; how callers would mix `unbind`, `bind` and
  `reflush` with a call under way can be read nowhere.
* **argument lists** (`CArgs.h`, `CData.h`): sequential, without callers in the
  kernel.
* **gate, clients**: samples. What they do with a connection (send in
  `OnRecv`, dial from a timer) the models let any session do, and their
  assertions are what two of the findings quote.
* **abandoned code** (`kernel/log/Logger.cpp`, `epoll/ITcpServer.cpp`,
  `timermgr/TimerHandler.h`): in no build.
* In modelled components: data on a dialled epoll connection apart from an
  accepted one (after `DoConnect` it is the same code); the pool, the posted
  accepts and the bytes under a pending `WSASend` of the iocp engine, whose
  buffer a later `Send` may move or free (`iocp/CPipe.cpp:118`,
  `TStream.h:91-98`); `Logger::Terminate`, which nothing calls;
  failures of system calls that assert at once.

What would come next: the second life of a pipe in the iocp engine, which
`Clear` does not separate from the first (`iocpworker.cpp:60`).
