# A TLA+ development for the HPS fiber server

HPS is a C++ network server built on stackful fibers: an N:M scheduler, an
epoll reactor with timers on top of it, hooked system calls that turn blocking
socket calls into waits of a fiber, and a TCP/HTTP stack that uses all of it.
This directory holds TLA+ modules translated from `src/src/`, the TLC
configurations that check them on small instances, and proofs for TLAPS.

The code is written for `-O0` with assertions on; a failed `ASSERT` ends the
process.

## 1. The system

| Part | State | Operations | Interacts with |
|---|---|---|---|
| `Scheduler` (scheduler.*) | `m_tasks`, active and idle thread counts, `m_stopping`, `m_autoStop`, the locals of `run()` in each thread | `schedule`, `run`, `start`, `stop`, `switchTo`, virtual `tickle`, `stopping`, `idle` | resumes fibers; subclassed by `IOManager` |
| `Fiber` (fiber.*) | `m_state`, `m_cb`, a context | `reset`, `call`, `back`, `YieldToReady`, `YieldToHold`, `MainFunc` | called by `run()`; its pointer travels through the task list, fd contexts and timers |
| `IOManager` (iomanager.*) | `m_fdContexts`, `m_pendingEventCount`, the tickle pipe, the epoll instance | `addEvent`, `delEvent`, `cancelEvent`, `cancelAll`, `idle`, `tickle`, `stopping` | is the scheduler and the timer manager of every hooked call |
| `TimerManager`, `Timer` (timer.*) | a set ordered by `m_next`, `m_tickled`, `m_previouseTime` | `addTimer`, `addConditionTimer`, `cancel`, `refresh`, `reset`, `getNextTimer`, `listExpiredCb` | `idle` sleeps until the next timer and schedules the expired ones |
| Hooks (hook.*) | per-call `timer_info` | `do_io` (read, write, accept, ...), `connect_with_timeout`, `sleep`s, `close`, `fcntl`, `ioctl`, `setsockopt` | timers, fd events, `FdManager` |
| `FdManager` (fd_manager.*) | `FdCtx` per descriptor | `get`, `del`, timeouts and non-blocking flags | hooks |
| `Thread`, locks (thread.*, mutex.*) | pthread handles, semaphores | constructor hand-over, `join`, lock/unlock | everything |
| `Socket`, `TcpServer` (socket.*, tcp_server.*) | `m_sock`, `m_isConnected`; listening sockets, `m_isStop` | `bind`, `listen`, `accept`, `connect`, `send`, `recv`, `cancel*`, `close`; `start`, `startAccept`, `stop` | hooks, two `IOManager`s |
| Streams, `ByteArray` | a list of nodes, position, size | fixed-size and variable-length reads and writes | sockets |
| HTTP (http/) | parser state, requests, a pool of connections, servlets | `recvRequest`, `sendResponse`, `recvResponse`, `getConnection`, `ReleasePtr`, dispatch | streams |
| Config, Log, Env, Util, Address, Uri | registries, appenders, text | look-up, listeners, formatting, parsing | everything |

What is hard here is the bottom of this table's upper half. A fiber's pointer is
handed from thread to thread through three containers with three different
locks; fiber states and most members are read without one; a wake-up may come
before the fiber it is for has left its stack; threads sleep on information
that is out of date a moment later; timers, events, cancellation and `close()`
race for the same waiting fiber; and `stop()` has to find the moment when
nothing is left to do. The list of places is `hazards` in `PROJECT.json`.

Correct means, per component:

- Scheduler: a fiber is on one stack at a time; what is submitted runs, once, to
  its end; the counters that `stopping()` trusts are exact; `stop()` returns and
  leaves nothing behind.
- IOManager: the three records of a wait (context, kernel, counter) agree; every
  waiter is woken once, by whatever ends the wait; a lost tickle costs time only.
- TimerManager: the ordered set stays a set; some thread wakes up for the earliest
  timer; no callback runs early or after a successful `cancel()`.
- Hooks: a call blocks like the system call it replaces: it ends with data, an
  error, or its own timeout.
- TcpServer: no descriptor leaks or has two owners, its `FdCtx` describes the file
  that is open at its number, and `stop()` ends the accept loops.
- ByteArray: to its user it is a sequence of bytes with a position; a typed value
  comes back as it was written.
- URI and HTTP parsers: what is accepted is what the RFC allows, a component is
  the part of the text the RFC says, and a message ends with its last byte
  however its bytes are cut into reads.
- Connection pool: an answer goes to the request it answers; a connection has one
  holder until it is deleted; the count is exact.

## 2. Modules

| Module | Models | State and actions |
|---|---|---|
| `Scheduler` | scheduler.\*, the part of fiber.\* it drives | one action per step of `run()` between two accesses to shared memory: `Take`/`Miss` (the scan under `m_mutex`), `CallFiber`/`CallCb`/`DropFinished`, `Back`, `Uncount`, `Requeue`/`Hold`/`Ended`, `Leave`/`EnterIdle`/`Idle`/`ExitIdle`; user code: `YieldToReady`, `Await`, `SwitchTo`, `Finish`; wake-ups: `Wake`; callers: `ScheduleCb`, `ScheduleFiber`, `ScheduleFinished`; the owner: `Start`, `StopAuto`, `StopMark`, `StopCallRoot`, `StopRootReturned`, `StopJoin` |
| `TaskPool` | nothing: the abstract specification | jobs are submitted, resumed by one thread, suspended, signalled, done |
| `Reactor` | `IOManager` as a subclass of `Scheduler` | extends `Scheduler` with `tickle` (every caller of `schedule` may owe one), the reads of `stopping()`, `epoll_wait`, timers and events turned into tasks |
| `TimerManager` | timer.\*, the sleep in `idle` | `NewTimer` and `AddTimer` (clock read before the lock), `Tickle`, `Cancel`, `Refresh`, `Reset`, `GetNextTimer`, `Interrupted`, `WakeUp`, `ListExpiredCb`, `ScheduleCbs`, and a clock that ticks and is set back |
| `FdEvents` | fd contexts and epoll registrations | `AddLookup`/`AddGrow`/`AddFails`/`AddEvent`, `CancelEvent`, `DelEvent`, `CancelAll`, `EpollWait`, `SkipReport`, `HandleReport`, `CloseBegin`/`CloseEnd`, `Open` |
| `HookIO` | `do_io`, `connect_with_timeout`, `close` | the fiber's call (`BeginIo`, `BeginConnect`, `TryIo`, `TryConnect`, `AddTimer`, `AddEvent`, `AddFails`, `Woken`, `LookIo`, `LookConnect`, `AskError`), the timer callback in steps, other cancellers, the peer, `close` in three steps |
| `TcpServer` | tcp_server.\*, the listening side of socket.\*, fd_manager.\*, the hooks that use it | `Bind` with any subset of addresses failing, `Start`, the accept fibers (`Loop`, `AcceptOk`/`AcceptFails`/`AcceptBlocks`/`AcceptWaits`, `GetLookup`/`GetCreate`, `InitClient`), `Stop` and its task in five steps, the handlers (`HandlerWaits`, `SetFl`, `Ioctl`, `ClientDel`, `ClientCloseF`), `Destroy`; peers that `Connect` |
| `UriMachine` | uri.rl.cc | the generated automaton as a table: a switch per state |
| `UriParser` | `Uri::Create`, the actions of uri.rl | `cs`, `mark`, the components; beside them the RFC's reading of the same text |
| `ByteSeq` | nothing: the abstract specification | a sequence of bytes, a position, what was read |
| `ByteCodec` | the integer codecs of bytearray.cc | zigzag, variable-length and fixed-size encodings as operators |
| `ByteArray` | bytearray.\*, `SocketStream::read/write` on one | the node list and `m_cur`; a loop iteration of `write()`/`read()` per step, the typed readers and writers (integers; strings behind a Varint and behind a fixed-size length), `setPosition`, `clear`, `read()` at a position, the functions that hand out buffers |
| `ResponseMachine` | httpclient_parser.rl.cc | the automaton as a table |
| `RecvResponse` | `HttpConnection::recvResponse`, `HttpResponseParser` | `phase` (head; size, data, chunk; buffered, rest), the parser and its callbacks, the bytes in the buffer and those left to read, a server that sends a response byte by byte, reads that end anywhere |
| `RequestMachine` | http11_parser.rl.cc, the states of a request | the automaton as a table |
| `RecvRequest` | `HttpSession::recvRequest`, `HttpRequestParser` | `phase` (head, buffered, rest), the parser and its callbacks, the bytes in the buffer and those left to read, a client that sends a request and perhaps the start of the next |
| `Parsers` | - | the three above side by side: a behavior is an input of one of them |
| `ConnectionPool` | `HttpConnectionPool`, `HttpServer::handleClient` | `GetConnection`, `Connect`/`ConnectFails`, `SendRequest` (one `write()` of `writeFixSize`)/`SendFails`/`SendKills`, `ReadResponse`/`ReadHeadOnly`/`RecvFails`, `ReleasePtr`; the server's `Answer`, `RequestTimeout`, `CloseSession`; `PartArrives`, `ResetArrives`, `NetReset` |
| `MC*` | - | symmetry sets and values for TLC |
| `SchedulerProofs`, `ReactorProofs`, `TimerManagerProofs`, `FdEventsProofs`, `HookIOProofs`, `TcpServerProofs`, `ConnectionPoolProofs`, `ByteArrayProofs` | - | the theorems about the module of that name |

`Reactor` composes with `Scheduler` by extension: every action of the run loop
is reused, strengthened with the tickle it owes. `TimerManager`, `FdEvents` and
`HookIO` each look at one of the things `Reactor` keeps abstract (a set of
timers, a set of waiting fibers) in the detail of the code. `TcpServer` composes
four components over one set of descriptor numbers: the server, its sockets, the
`FdCtx` table and the waits of `FdEvents`, reduced to one waiter per number.
`ConnectionPool` composes both ends of HTTP; that a body may be left unread is
what `RecvResponse` shows of the byte level.

What the modules abstract from:

- A job stands for a `std::function`; it yields, waits, migrates, submits other
  jobs, returns or throws as it likes, at most `MaxYields` times before the end.
- A fiber that waits has given its pointer to exactly one waker. That is how
  `hook.cc` uses `addEvent` and `addTimer`; `FdEvents` shows it for events.
- The scheduler's `m_mutex` makes the scan one step. `tickle()`, the counters'
  decrements, the fiber states and `stopping()`'s reads are steps of their own.
- Fiber stacks, contexts, ids, names and log lines have no state here.
- `Scheduler::run` is entered once per thread: one `start()` ... `stop()` cycle.
- Time in `TimerManager` is a small clock; `MAX_TIMEOUT`, the hour of the rollover
  test and the range of `int` are constants with the order they have in the code.
- In `FdEvents` one fiber waits for each event of an fd, so it is named by the two.
- In the automata, characters that no state tells apart share a name. The tables
  were compared edge by edge with the `goto`s of the generated code. The texts
  themselves are not stored: `UriParser` knows a position by the RFC's
  landmarks, `RecvResponse` and `RecvRequest` know of the text from `mark` on
  whether it is the word or the number that matters. So the texts are not
  bounded, and the runs cover every length.
- In `RecvRequest` and `RecvResponse`, `int64_t` has 6 bits and `int` 5, so that a
  number of two digits may fit both, one of them, only `uint64_t`, or nothing. The
  peer sends what RFC 7230 allows, within limits: at most one header frames the
  message, there is no folded header line, and no blank in a chunk's line. Methods
  are known, known with more letters, unknown, too long, or tokens that are not
  capitals and digits; their spelling does not matter.
- In `ConnectionPool` a request goes out in parts, as `send()` takes them; a response
  is one message, of which `recvResponse` takes all or the head. A body that stays
  in the connection may be refused by the next `recvResponse` or taken for a
  response: both happen in the model.
- `ByteArray` has bytes of 3 bits and words of 5, so that a variable-length
  integer has a partial last group, as 32 and 64 bits have, and lengths of `LenBits`
  bits in front of a string, which a string of two bytes does not fit.
- In `TcpServer`, `stop()` is called once, after `start()`: the task of a later call
  finds no socket, and two calls at the same time, which would race on `m_socks`
  without a lock, are left out. A `bind()` that fails drops the sockets that it and earlier calls made.

## 3. Runs

All configurations switch the deadlock check off: a stopped scheduler, an
exhausted clock or a fiber that waits for a peer that never answers are legal
ends.

| Run | Instance | Shows |
|---|---|---|
| scheduler | 2 threads (one root), 2 fibers, 2 jobs, 1 yield each, a pin, fair | `OneExecutor`, `ActiveCount`, `ResetAllowed`; `IInv`, the invariant of the proofs, with the types; `StopLosesNothing`; `ImplementsTaskPool`, the refinement of `TaskPool`; `NobodyWaitsForever` (`EveryJobEnds`, `StopReturns`) |
| reactor | 2 threads (one root), 2 fibers, 2 jobs, a pin | `PendingCoversWaits`, `StopLeavesPinned` |
| reactor_live | 2 pool threads, 1 fiber, 1 job, fair | `NobodyWaitsForever` |
| reactor_stopped | as reactor, no pins | violated: `StoppedMeansNoEvents` |
| timers | 2 timers, 1 thread, 2 clients, clock 1..3, set back by 2 (an "hour" is 1) | `SetConsistent` (`TypeOK`, `TimerInSet`, `KeysCurrent`), `SleepersCovered`, `CancelIsFinal`, `NotEarly` |
| fd_events | fds 2 and 4, vector of 2, 1 thread | `PendingExact`, `RecordsAgree` (`TypeOK`, `WaitersHeld`, `KernelAgrees`), `CancelReaches` |
| hook | 2 calls, 3 timers, others cancel or close or not, with and without a timeout, fair peer | `OwnTimeout`, `OneTimerSet`, `ResultTrue` (`NeverEagain`, `ConnectedIsConnected`), `CallEnds` |
| hook_timeout_lost | 2 calls, a timeout | violated: `TimeoutWakes` |
| tcp_server | 2 addresses, 1 connection, 3 descriptors, 1 or 2 accept threads, 2 binds, fair | `FdsOwned`, `CtxDescribesFile`, `NeverBlocksThread`, `OneAfterStop`, `StopEndsAccept` |
| byte_array | nodes of 2 bytes, at most 5 bytes, 1 typed value at a time | `CursorExact` (with the types), `CrashOnlyAtEnd`, `BuffersExact`, `TypedExact`, `ImplementsByteSeq` |
| connection_pool | 2 clients with 2 calls each, 2 connections, 3 requests per connection | `AnswersItsRequest`, `PoolExact` (`TypeOK`, `HeldOnce`, `TotalExact`), `FirstSendSpared` |
| parsers | every text; requests with a length of 2 digits, cut into any number of reads, all in one of their parts; responses with lengths and chunk sizes of 2 digits, cut anywhere | `UriAccepted`, `UriComponents`, `RequestFramed`, `RequestRead`, `ResponseFramed`, `ResponseRead` |

The violated ones are disagreements between the code and a comment, an assertion
or the documentation; `findings` in `PROJECT.json` quotes both:

- an `IOManager` with more than one thread can stop while a fiber waits for an
  event: nobody will resume it, and the pointers to itself on its stack keep it
  alive, so it leaks;
- a timeout that expires before the event is registered is lost.

More weaknesses showed up while modelling. The model has them, and they limit
what the passing properties say; most are listed as hazards.

Scheduler, reactor and hooks:

- a task pinned to a thread that has left `run()` is never taken. It stays in the
  list when `stop()` returns, or keeps another thread from seeing `stopping()`, and
  then `stop()` does not return (`StopLosesNothing`, `StopLeavesPinned` and
  `NobodyWaitsForever` except such tasks);
- a report of two events, one of which was cancelled meanwhile, triggers both and
  fails the `ASSERT` of `triggerEvent` (the action sets `aborted`, and nothing
  happens after it);
- two fibers that grow the fd table at once can shrink it, and what waits beyond
  its end can no longer be cancelled (`CancelReaches` holds until a shrink);
- a timer more than 2^31 ms away makes the timeout of `epoll_wait` negative, which
  is no limit at all (the periods of the runs stay below `IntMax`);
- an interrupted `epoll_wait` is called again with the full timeout, so every signal
  makes the thread late for the timers by what it had slept (`SleepersCovered`
  allows exactly that, `lost`);
- `connect` takes a cancellation by another fiber for success, and also an `addEvent`
  that fails: it does not wait then, finds no error on the socket and returns 0
  during the handshake (`ConnectedIsConnected` excepts both);
- an event registered between `close()`'s `cancelAll` and its system call can no
  longer be cancelled, by a timeout either (`CallEnds` is stated without `close`);
- timers and events are polled only by a thread that finds no task, so an endless
  supply of tasks starves them (the liveness runs have a finite amount of work).

Server and buffers:

- with two accept threads, an accept fiber can register its event between the
  cancellation and the close of its socket by `stop()`, and waits for ever
  (`StopEndsAccept` is stated for one thread);
- `ioctl(FIONBIO, 0)` reaches the kernel, where `fcntl` keeps `O_NONBLOCK`: the next
  read blocks the thread (`NeverBlocksThread` excepts it);
- `read()` of no bytes at the end of the capacity dereferences a null `m_cur`; the
  readers of strings do it for an empty string. `read()` at a position starts from
  `m_cur` with the offset of the other position, so it runs off the list when
  `m_position` is at the end, or in a later node;
- `writeStringF16` and `writeStringF32` narrow `size()` to 16 and 32 bits, so a longer
  string does not come back (`TypedExact` excepts it);
- `m_endian` is an `int8_t` and `LITTLE_ENDIAN` is 1234, so `setIsLittleEndian` has no
  effect on the bytes; both directions agree, and values come back;
- `writeToFile`, `read` at a position and `getReadBuffers` at a position compute node
  and offset differently, and `BuffersExact` says for which positions they agree.

URIs:

- an IPv6 literal needs exactly the counts that the RFC has as upper bounds, and
  an octet from 200 to 249 starts with the byte 2 (`2` without quotes in uri.rl); the
  `v` of an IPvFuture must be small;
- an empty port before a path makes `Create` throw `std::logic_error`;
- a userinfo with a digit behind its first colon, `u:1x@h`, loses what is before it
  (`UriComponents` says which text the port is, not what `atoi` makes of it);
- the path of a relative reference, or of `http:/p`, is lost.

HTTP:

- both parsers forget, at the end of a read, where the current element began. An
  element in two reads is dropped, refused or taken for its second part. The
  session's buffer has 100 bytes, so a longer request is always cut. `Misled` in
  `RecvResponse` and `RecvRequest` lists what makes a message of the model lose its
  frame in this way; the other properties name the part of the line;
- some responses lose their frame without a cut (`Unfit`): trailers after the chunks,
  a coding before `chunked`, a body up to the end of the connection, a body announced
  in a response to HEAD or a 304, a chunk whose size with its CRLF is too large for an
  `int`, a length too large for an `int64_t`. So do requests with such a length, or
  with chunks;
- a body whose rest is too long for an `int` is read and then refused, and `resize()`
  may throw before;
- a method is compared by prefix, so `GETX` is `GET`; a method with another character
  than capitals and digits, `M-SEARCH` for one, is refused, and so is a quoted value
  in a chunk's extension;
- a query in two reads is another text or throws `std::length_error`, because
  `query_start` is not reset with the other pointers;
- a blank after a length, a coding or keep-alive hides it;
- an empty `Connection` as the last header of a response leads to final states that
  do not count as finished, and may fail an assert;
- a request path that starts with `//` is taken for an authority, and refused if it
  is none; the path of an absolute URI keeps its authority;
- `HTTP_CTL` is written as a difference, so control characters may be in a token;
- what follows a request's body in the buffer, the start of the next request of a
  client that does not wait, is dropped;
- nothing in the pool expires (`m_createTime` is never set, and both tests are
  inverted) and `m_maxSize` is not read;
- a connection whose send failed goes back into the pool, with half a request in it
  perhaps; the next send on it raises `SIGPIPE`, which nobody ignores, or completes
  the request for the server;
- a request that goes out in two sends to a server that has closed raises `SIGPIPE`
  with the second (`FirstSendSpared` is about the first one);
- a body that `recvResponse` left in the connection may be the next client's answer
  (`AnswersItsRequest` excepts connections in which one was left).

**Bounds.** Two threads are enough for every race of the scheduler that is known
to involve a taker and a holder; a third party (a waker, a caller of `schedule`,
the owner in `stop()`) is always there in addition. Two fibers and two jobs let a
thread's `task_fiber` be lost to a yield and replaced, a job be queued behind
another, and one job submit the other. A yield lets a fiber be resumed by the
other thread. For the timers, two timers and two clients suffice to
have a front insertion suppressed by `m_tickled`, and the clock runs as long as
the longest sleep and is set back by more than the rollover limit. In `FdEvents` two events and a stale report give every overlap
of a report with a removal, whoever removes; `Fds = {2, 4}` are two sizes that
`fd * 1.5` orders, and `MaxMade` lets a context be replaced once. In `HookIO` a
late callback of the first call meets the second; three timers are never
exhausted by two calls that nobody cancels, so `CallEnds` is not blocked by the
bound. In `TcpServer` three numbers for two listening sockets and a connection
make every close followed by a reuse of the number, and the second `bind` meets
what the first has left. In `ByteArray` five bytes are two and a half nodes: every
border, and a value over three nodes. In the parsers the
digits of numbers are bounded: the lengths are 0, 1, 6, 10 and 11, which fit an
`int`, 16, 60 and 61, which do not, the last two no `int64_t` either, and 66, which
nothing holds; the chunks 0, 1, 10 and 14, which has no room for the 2 of its CRLF, and larger ones. `MaxCuts`
bounds the parts of a message that a read ends in, not the reads: what a cut loses
is the part it is in, and the properties excuse a part only for a cut in it. In a
request a method with more letters, chunks and a blank after a value are counted
with these parts. The properties hold with `MaxCuts = 2` as well, in three times the
time. In
`ConnectionPool` the calls of both clients bring a connection to its request limit
and back to a client that shared it, and two connections let one be idle or be
replaced while the other is lent. The theorems hold for all values of these bounds (`MaxYields`,
`MaxCalls`, `MaxTimers`, `MaxMade`, `MaxBinds`, `MaxClock`, `MaxSize`, `MaxTyped` are any
natural numbers).

**Fairness.** `scheduler` and `reactor_live` assume weak fairness of each
thread's own steps (the operating system schedules threads), of user code (a job
goes on to its next yield or end), of wake-ups or of the events and the passing of
time behind them, and of the owner's steps once it is inside `stop()`. Nothing is
assumed of callers: work and `stop()` need not come. In `Reactor` the return of
`epoll_wait` after its timeout is part of the thread's fairness: the code never
passes more than `MAX_TIMEOUT` there for timers within the range of `int`, and no
signal interrupts the thread for ever before it is over. In
`HookIO` the peer answers and the idle thread reports it; timers need not expire.
In `TcpServer` a thread of the accept worker goes on with its fiber (weak fairness
of the accept fibers and of the stop task), and the stop task gets a thread if one
is free again and again (strong fairness of `StopBegin`): it is in the scheduler's
list, which every thread scans from the front. Peers need not connect.

## 4. Proofs

Every module named `...Proofs` has the same plan. The component's module ends with
an inductive invariant (`IInv`; `RInv` in `Reactor`), a conjunction of named parts.
There is one lemma per action (`TakeInv`, `CallCbInv`, ...), with a step per part
that the action can disturb; `NextInv` puts them together, and a theorem
`Spec => []IInv` follows. The properties of the runs are consequences of it. TLC
checked each invariant on the runs' instances before it was proved; the run
`scheduler` keeps `IInv` among its properties.

The sets of threads, fibers, timers, clients, descriptors and so on are parameters.
What is assumed of them is that some are finite, that null values are not members,
that numbers are natural numbers, and what the code or its environment fixes: a
scheduler has a thread (`ASSERT(threads > 0)`: `Workers # {}`, `Threads # {}`),
`MAX_TIMEOUT` fits into an `int`, the clock starts more than an hour after its zero
and after `m_maxAliveTime`, and the fds that fibers wait for start at 2. For
`ByteArray` a node has room for a byte, a byte has two bits or more, and the data
are of the types that the writers take (`ArrayConstants`, `CodecConstants`). The
assumptions are named in the modules, and TLC evaluates them in every run.

### Scheduler

| Theorem | Statement |
|---|---|
| `Accounted` | `Spec => []IInv` |
| `TypeCorrect` | `Spec => []TypeOK` |
| `OneExecutorPerFiber` | `Spec => []OneExecutor` |
| `ActiveThreadsCounted` | `Spec => []ActiveCount` |
| `TaskFiberIsSpare` | `Spec => []ResetAllowed` |
| `NothingAbandoned` | `Spec => [](LeaveInvs /\ NotAbandoned /\ JobInvs)` |
| `StopIsComplete` | `Spec => []StopLosesNothing` |
| `SchedulerIsTaskPool` | `Spec => ImplementsTaskPool` |

`OneExecutor` is not inductive: it says nothing about the pointers in the list and
with the wakers, from which the next holder comes. `IInv` adds them. A fiber is
named by at most one of: a list entry, a waker, a local of one thread - except
that a thread which is parking a fiber may share it with one claim, and then the
state is `EXEC` (`HeldStates`), which is what the scan tests. `OneClaim` says that
list entries and wakers exclude each other, `Owners` that threads do, `NoDangling`
and `Bound` that a fiber somebody can reach exists and has a function. `Shapes`
ties the two locals of `run()` to the program point, `Outside` keeps the root
thread's locals untouched before `stop()`, and `Counts` carries the two counters;
`CountStep` is the lemma about cardinality behind it.

For `StopLosesNothing` two more groups are needed. `LeaveInvs` and `NotAbandoned` say
that an entry for any thread is `Served`, unless it wakes up a fiber that waited:
whoever adds it scans the list himself later, or it was there when `stopping()`
looked at the list, which is then not empty. So no thread is the last to leave with
such an entry behind it.
`JobInvs` says where a function that was submitted and has not ended is: in the
list, in a thread's local or bound to one fiber. When all threads are out, only the
list entries with a pin and the fibers that wait are left.

The refinement maps `CallFiber` and `CallCb` to `Resume`, `Back` to `Suspend` or to
nothing when the function has ended, `Finish` to `Suspend` of a job that is done,
`Wake` to `Signal` or to nothing when the waker comes before the fiber has left its
stack, `ScheduleCb` and `ScheduleFiber` to submissions, and every other step to
nothing. The status of a job is read off the list, the threads and the fibers
(`JobStatus`), so each case is an argument about where the one pointer to the job's
fiber has gone, and rests on `IInv` and `JobInvs`.

### Reactor

`ReactorAccounted` (`RSpec => []RInv`), `WaitsAreCounted` (`PendingCoversWaits`),
`StopLeavesNothingElse` (`StopLeavesPinned`), `ReactorOneExecutor` (`OneExecutor`).
`RInv` is `IInv` and `LeaveInvs` of `Scheduler`, whose lemmas apply because the
actions are reused, with `RTypeOK`, `PendingCoversWaits` and `AllSeen`: an entry for
any thread is served, since a timer or an event becomes a task on a thread that is
inside `idle()` and scans the list after it. `StopLeavesPinned` then does not depend
on the order of the three reads of `stopping()`. Fibers are finitely many
(`FibersAssumption`), since the counter counts them.

### TimerManager

`TimersAccounted`, `SetIsConsistent` (`SetConsistent`), `CancelledForGood`
(`CancelIsFinal`), `SleepersWakeInTime` (`SleepersCovered`), `NeverEarly` (the action
property `NotEarly`). The part of the invariant for the sleepers is `Covered`:
`m_tickled` is set together with a tickle and reset by a thread that is awake, so
while it is set a wake-up is on its way, and a front insertion that does not tickle
relies on that one; otherwise some sleeping thread wakes up in time, or late by what
it `lost` when signals made it start its sleep anew. `refresh` makes
a timer later only if the timer was started in the past (`Started`), so a clock that
was set back is excepted, as in the property. `SleepersWakeInTime` assumes
`PeriodsFit`, that every period fits into the `int` of `epoll_wait`'s timeout: from
2^31 ms on it is false in the code.

### FdEvents

`ContextsAccounted`, `WaitsAgree` (`RecordsAgree`), `PendingCounted`
(`PendingExact`), `WaitsReached` (`CancelReaches`). Besides the properties, `IInv` says
that a context that `addEvent` has found stays in its place (`FoundStays`) and that
the contexts in the vector have been made (`VectorMade`). The lemma `TakenAway` relates the
counter's decrement to the cardinality of what leaves a context; with it, all
removals but `delEvent` are cases of `TriggerInv`.

### HookIO

`CallsAccounted`, `TimeoutIsOwn` (`OwnTimeout`), `TimerTakenBack` (`OneTimerSet`),
`ResultIsTrue` (`ResultTrue`). A callback that runs late belongs to an earlier call
and marks that one only (`TimersOwned`, `MarksOwned`). It may cancel the event of the
present call: `do_io` retries, and `connect` cannot meet it, being the first call
that sets a timer (`ConnectFirst`). `ResultTrue` excepts a wait that another fiber
cancelled and one that could not be registered (`refused`), which the code takes for
a connection.

### TcpServer

`ServerAccounted`, `DescriptorsOwned` (`FdsOwned`), `ContextsDescribe`
(`CtxDescribesFile`), `HooksNeverBlock` (`NeverBlocksThread`), `LastAccept`
(`OneAfterStop`). An open descriptor is the `m_sock` of its own file or the `nfd` of
one accept fiber (`SocksOpen`, `FilesKnown`, `JustAccepted`). `close()` takes the
context out of the table before it gives the number back (`NoCtxLeft`); therefore a
context that is found is the one of the open file. `Listed` says that `m_socks` has
each bound socket once, `StartedOnce` that the accept fibers are those of one start.

### ConnectionPool

`PoolAccounted`, `ResponsesMatch` (`AnswersItsRequest`), `PoolIsExact` (`PoolExact`),
`FirstSendIsSpared` (`FirstSendSpared`). `Holding`, `Waiting` and
`Reachable` say that a connection is with one client or once in `m_conns` and never
lost, which gives the count. `OwnTraffic` is what the answers need: a connection in
which no body and no half request was left carries nothing, unless its client waits
for a response, and then that one request or its response. It is preserved because a
client that gives up waiting closes the connection before it releases it.
`BrokenAwaited` says the like of a peer that is gone: a client that provoked the reset
still sends or waits, will fail and close, so the next client does not meet it.

### ByteArray

`ArrayAccounted`, `CursorIsExact` (`CursorExact`), `CrashesOnlyAtEnd`
(`CrashOnlyAtEnd`), `BuffersAreExact` (`BuffersExact`), `ValuesComeBack`
(`TypedExact`), and the refinement, `ArrayIsByteSeq` (`ImplementsByteSeq`), for nodes
of any size, any widths of bytes and words, and any data. The code's 8, 32 and 64
bits and its `m_baseSize` are instances.

The proof goes through the borders of the nodes once. `SeenIs` describes the sequence
that the user sees byte by byte: the i-th byte lies at position i - 1 of the list or is
still in `buf`. Each operation is then described in these terms (`Still` for an
iteration of `write()` or `read()`, `Wrote`, `Fetched`, `Returned`, `Moved`), which
takes that `m_cur` is the node of `m_position` and that the room or the bytes for the
rest of the loop are there (`CursorExact`, `Locals`). The invariant and the steps of
the refinement only use the descriptions. For `TypedExact`, `Written` says that the
bytes of the last typed value are in their place, `Readers` which bytes a reader has
got, and `Decoding` that a reader of a Varint has the lower bits of the number,
`c % Pow2[i]`, and that the Varint of the upper ones, `c \div Pow2[i]`, is in front of
it: the next byte moves one group from the one to the other (`VarintStep`). That
`m_endian` is an `int8_t`, which never equals `BYTE_ORDER`, is used too: the bytes of a
fixed-size value do not depend on calls of `setIsLittleEndian` (`EndianIs`).

`Pow2`, `Varint`, `Cells`, `FileCells` and `Lowest` are recursive functions. The
induction theorems of the library have an operator as a parameter, which the provers
cannot instantiate. `StrongInduction` and `Recursion` say the same of sets and of
functions: a set of numbers that has n if it has all smaller ones is `Nat`, and a
definition that goes from d to `next[d]` along decreasing numbers has a solution. With
them, what the codecs and the loops over the nodes compute is proved for every input.

### Only model-checked

- Liveness (`NobodyWaitsForever`, `CallEnds`, `StopEndsAccept`): fairness and `ENABLED`
  are out of the prover's reach.
- The properties of `Parsers`: its machines are automata with a finite number of
  states, all of which TLC visits, and a proof would repeat that.
- The two violated properties.

## 5. Not modelled, and the plan

Not modelled, with the reason:

- `Config` and `Log`: registries under one lock, and conversions from and to YAML
  and log patterns. What is left without text is a map, and callbacks under its
  lock.
- HTTP messages and servlets: data, formatting and a list of patterns for `fnmatch`.
- `Address`: conversions of `sockaddr` and `getaddrinfo`; `SSLSocket`: OpenSSL.
- `Thread`, `Semaphore`, locks: wrappers of pthread, used as atomic sections.
- `Env`, `util`: command line, files, backtraces.
- In http11_parser.rl.cc the states of an IP literal (47-172), which are the ones of
  uri.rl.cc with the same grammar, and of the JSON and XML messages of mongrel2
  (194-347, 349), which no client of this server sends.
- A restart: `start()` after `stop()` of a `Scheduler` or a `TcpServer`.

`components` in `PROJECT.json` says of each part which operations are left out.

What is next, in this order:

1. Servlet dispatch, with servlets added and removed while requests are handled.
2. The constructor hand-over of `Thread`, and a second `start()`.

The modules stand for about half of the lines of `src/src/`; most of what is left
is text conversion, the two groups of states above, and headers.
