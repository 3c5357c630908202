# A TLA+ model of DrawTextServer

DrawTextServer is a TCP server that receives an image and a text in one binary
packet, draws the text into the image, and sends the image back. Every client
connection is a chain of asynchronous operations (boost::asio) whose handlers
are run by any of the server's threads; the drawing is done by one worker
thread behind a lock-free queue. This directory holds TLA+ modules of that
program, configurations that check them with TLC, and proofs that TLAPS checks.
File names below are relative to `src/`.

## The system

| component | source | state | operations | interacts with |
|---|---|---|---|---|
| server session `serversocket_t` | `src/server.cpp` 18-658 | socket, two timers, buffers, flags, `m_thcode`, `m_proctimecnt`, `m_resumemtx` | `do_first`, the handlers `OnReceivedBin`, `OnProcessTimeout`, `OnSent`, `OnBusy`, `OnConnectTimeout`, `OnDisconnected`, `Cancel`, `Close`, `do_notify` | the image processor (submit, poll, collect, ready handler), the pools of `TServer` |
| server `TServer` | `src/server.cpp` 660-1139, `include/server.h` | state machine with its counter, one pool of active and one of closed sockets per thread, acceptor, `m_connmtx` | `Start`, `Stop`, `process_iooperations`, `OnConnected`, `do_accept`, `do_reaccept`, `removeSocket` | its thread group, the sessions |
| image processor of the server | `src/image_sproc.cpp` | free slots, request queue, request and response stock, time stamps | `process_output_data`, `isAvailable`, `get_input_data`, `Process` | sessions, its worker thread |
| managed threads | `include/mng_thread.h` | flags and a count, shared by the threads of a group | constructor, `StartLoop`, `StopLoop`, `threadFunction`, destructor | server, processor and client loops; watchdog |
| watchdog | `src/watchdog.cpp` | timer, tickets, one mark per ticket, two counts | `start_wd`, `stop_wd`, `registerThread`, `unregisterThread`, `reset_wd`, the timer's signal | every managed thread |
| completers, packets | `src/processor.cpp`, `include/processor.h`, `src/packet.cpp`, `src/comb_packet.cpp` | parser state of one packet, the count of transfers | `do_completer`, `make_packet`, `validate_packet`, `parse_packet` | reads of server and client |
| client and its processor | `src/client.cpp`, `include/client.h`, `src/image_cproc.cpp` | per connection: socket, timer, buffers, state; the flags between its two threads; a count of results | `Connect`, `ConnectAsync`, the handlers, `Process_iooperations`, `process_output_data` | the server, its managed thread |
| ticket spinlock | `include/utility.h` | two counters | `lock`, `unlock` | watchdog (`slock_reg`), sessions (`m_resumemtx`) |
| logger | `src/logger.cpp`, `include/common.h` | chain of two loggers with queues of fragments, two mutexes, the file | `start_log`, `stop_log`, `write_log`, `pushfifo_log`, the macros `OUT`, `DBGOUT` | everything |
| error log | `src/error.cpp` | a flag that is given up after some attempts, the file | `show_errmsg` | everything, the signal handler too |
| control, configuration, main | `src/control.cpp`, `src/configure.cpp`, `src/main.cpp` | the options, the command loop, the flag a signal sets | `main`, `exec`, the commands, construction and destruction | server or client |

What is hard about it: there is no strand, so two handlers of one connection
may run at once on two threads; flags that stop a connection are tested only at
the start of a handler; one timer guards three operations in turn and the busy
message as well; a slot of the processor travels through two queues and three
threads; threads are started as a group and stopped with time limits; a socket
names its pool by a code that changes when the thread of that pool stops; the
watchdog's counts are shared by threads that come and go at any time, and a
signal handler takes its lock on top of any of them; a packet comes in pieces
and several packets in one piece; the client's main thread and its own thread
share buffers with no lock, only a flag; the log file outlives the program; and
objects are destroyed in front of the threads that use them.

What makes the components correct:

* processor: a slot is never lost or handed out twice; the worker and the
  connections never dereference an empty slot; a connection receives the reply
  to its own request, and it does receive it;
* session: a pending operation is guarded by a timeout; the reply is written
  once; the notification of the worker is not lost; a closed connection is
  released;
* server: each thread keeps one accept chain; the limit holds; every served
  socket is known to the thread that has to cancel it; `Stop` ends and leaves
  nothing behind;
* thread group: the count is exact; the group starts together; destruction
  ends;
* watchdog: a thread that hangs is reported, one that feeds is not; its lock is
  a fair lock, also with handlers on top of its holders;
* completers: a read ends exactly at the end of a packet, however it is cut
  into pieces, and a wrong packet is refused;
* client: the two threads never work on one buffer together; a command ends,
  and a SUCCESS is one;
* logs: console and file say the same; the files stay within their limits over
  restarts; nobody waits for ever;
* program: no thread uses what main has destroyed; the failure of a thread ends
  the program.

## The modules

**`ImageProcessor`** models `servimgProcessor_t`. `freeIdx` and `requestQueue`
are the two lock-free queues, `requestStock`, `responseStock` and `repTimeout`
the arrays indexed by slot. Every access to one of them is a step: a submission
is `PopIndex`, `StoreRequest`, `ClearTimeout`, `Enqueue`; the worker's pass is
`PopRequest`, `TakeRequest`, `StoreReply`, `LoadTimeout`/`AgeReply` for each
slot, `PublishReply`, `Notify`; a connection polls with `Check` and `Poll` and
collects with `TakeReply` and `ReleaseIndex`. A connection may close at
any point, and the processor is not told. A request is abstracted to its connection, and whether
it can be drawn is chosen.

**`ServerSession`** models one `serversocket_t`: the operations under way, the
timers, and what each thread is executing. `Begin` is a thread taking a
completion (the flags are tested there), and the handlers are separate later
steps, so that the socket can be closed in between. `OnReceivedBin` and
`OnProcessTimeout` are split once more under `m_resumemtx` (`Decide`, `Wait`,
`SendBusy`), because the worker may publish the reply between `isAvailable` and
the arming of the wait, and the wait may end before the BUSY is written. The processor is reduced to the state of this connection's
request. `ThreadStop` is the owner thread leaving its loop.

**`Server`** models `TServer`: the main thread in `Start` and `Stop`, the
threads in `process_iooperations`, the state machine with its counter, the
accept chains and the pools. A thread tests the state between two polls
(`Poll`, `PollReturns`) and runs handlers within one whatever the state has
become; an exception comes from the first `do_accept` or from any place of a
handler (`Throws`), and the store of the new state is a step of its own
(`Catch`), as it is in `Stop` (`StopCounter`, `StopLoop`). A session is reduced to a served socket that some
handler closes. Sockets that nothing refers to any more are reused.

**`ThreadGroup`** models the grouped `managedThread_t`: the constructors that
pulse `m_isExiting`, `StartLoop`, the wait, function and both exits of
`threadFunction`, and the destructors that join or give up.

**`Watchdog`** models `watchdog.cpp`. Every operation runs under `slock_reg` and
is one step. The operator `reset_wd_impl` is shared by feeding, registering and
unregistering, as in the code.

**`Packets`** holds the layout of binary and text packets as a stream of cells,
and where each packet of a stream starts and ends. **`Framing`** is what a
reader wants of a completer: asked after each piece, it answers `more`, `done`
or `error`, and the answer depends on the bytes alone. **`Completer`** models
`binpack_completer_t` and `compound_completer_t`: `Transfer` is a piece and the
call of `do_completer` over a buffer with some old contents (`memory`), and each turn of the function's switch is an action
(`noSign` to `unRec`, with the fall-through and the offset of the next packet).
It refines `Framing` (`FramingOf`, property `FramingSpec`). The promise ends
(`loose`) when a piece ends inside a packet that is not the first, or goes on
behind a binary packet: there the code compares the count of all bytes with the
size of one packet.

**`Client`** models `client_connection_action` with `TClient` and
`clientImgProcessor_t`. The main thread composes the requests, gives the order
(`m_do_start_all_operations`), sets `m_isworking` after it, and waits; the
client's thread opens the sockets, runs the handlers of all connections and
disconnects what is left. `op` is the pending operation of a connection, `wire`
what the server has sent, `taken` what lies in the read buffer.

**`Lock`** is a fair lock: a queue of those who asked. **`TicketLock`** models
`ticketspinlock_t`, whose `unlock` is a load and a store, and is proved to
implement `Lock`. **`Signals`** instantiates it for `slock_reg`: its clients are
the frames of the threads, two for each, its own and that of the signal handler
of the watchdog's timer, which runs on top. The frames call operations of the
watchdog and report errors through `show_errmsg`, behind the flag that is given
up; a call of the timer that fails is reported under `slock_reg` (`Fails`). **`Logger`** models the console and the file logger with their recursive
mutex, their queues and the mutex of the output, called by two threads and by
the signal handler, over several boots of the program with the same file. Its
`slock_reg` is `Lock`, which `Signals` shows to be implemented.

**`Application`** models the program from `main` to its exit: `start_log`, the
controller with its client or its server, the thread each owns (started
individually, with the registration that comes after the start), the command
loop, the signal that a failing thread raises, and the destructors in their
order, with the waits they give up.

**`Request`** and **`Handover`** are contracts: small specifications that two
modules implement, each from its side. `Request` is one connection's request as
the session and the processor both see it: submitted and fetched under
`m_resumemtx`, published and notified by the worker. `Handover` is what the main
thread and the client's thread do to the flags between them for one attempt:
the order, `m_isworking`, the poll, the end. **`Threads`** declares the threads
of the server for `Server` and `ThreadGroup`.

**`MCCompleter`** gives `Completer` its streams. Every `M_proofs` module extends
its module `M` and TLAPS; those of `Server`, `Signals` and `Client` also prove
what the program below them relies on (`ThreadGroup`, `TicketLock`,
`Completer`).

The modules are composed by contracts, so that each can be checked alone. Three
of these are specifications, and both sides are proved to keep to them:

* `Request`: `ImageProcessor` implements it for each of its connections
  (`ImplementsRequest`, checked and proved), and `ServerSession` implements it
  too. What the session leaves out of the processor is what `Request` leaves
  open.
* `Handover`: `Client` implements it, which knows connections, and `Application`
  does, which knows construction and destruction.
* `Lock`: `TicketLock` implements it, `Signals` does with its frames and
  handlers on top, and `Logger` uses it for its `slock_reg`.

The others are properties that one module shows and another takes for granted:
`Server` takes from `ServerSession` that a cancelled session ends
(`ClosedIsReleased`); `ServerSession` takes from `ImageProcessor` that a
submitted request is answered (`EveryRequestAnswered`); `Server` takes from
`ThreadGroup` that the threads are started together and joined or given up;
`Client` takes from `Completer` that a read ends at the end of a packet;
`Watchdog` takes from `Signals` that `slock_reg` is a lock; `Application` takes
start and stop of the group from `Server` and `ThreadGroup`; `Logger` takes from
`Application` that no thread logs when the log is stopped (`LogOutlivesThreads`).

## The runs

| run | what is checked | instance |
|---|---|---|
| `image_processor` | conservation of slots, no empty dereference, own reply, every open connection answered, refinement of `Request` | 3 connections, 2 slots: slots run out and are reused |
| `session` | guard of pending operations, no lost wakeup, one response, closed is released, stalled is closed | 2 threads, 2 wait cycles that time out |
| `server` | one accept chain, limit, served is tracked, stopped is empty, `Stop` returns | 2 threads, 3 sockets, limit 2 |
| `thread_group` | exact count and complete group, destruction ends, the start returns unless a thread was caught | 3 threads |
| `watchdog` | exact counts and tickets, no false alarm, a period ends only when all have fed - each while no counted thread has left | 3 threads, 3 tickets |
| `completer` | refinement of `Framing`, no byte looked at before it came, offset and type of the last packet | all streams of one and two packets over 8 packets and some of three, in all pieces; buffer of 12, zeroed or not, 4 transfers |
| `client` | the main thread composes only when all is quiet, an operation has its buffer, SUCCESS is earned, a command ends | 2 connections, 2 attempts, one BUSY |
| `signals` | refinement of `Lock`, one writer of the error log, the log's limit, everything ends unless trapped | 2 threads, 3 calls of `lock`, 2 signals |
| `logger` | the file follows the console, the file's limit, everything returns unless trapped | 2 threads, 2 boots with a crash between, 2 calls, 1 signal, a debug build |
| `application` | nobody uses a destroyed object, a lost thread is final, a failure ends the program | 2 threads in the group, 2 attempts |

Two more runs show where the program departs from what its comments, assertions
or tests say; each is a finding in `PROJECT.json`:

| run | departure |
|---|---|
| `stopped_thread` | a handler queued while its thread stops removes its socket under the code -1, which indexes the pools |
| `server_start` | the reset of the counter after the store of the state loses an arrival, and `Start` fails |

### Observations without a run

The models follow the code in all of these; the properties that would otherwise
fail name the case and leave it out, so that none of them catches it. What is
left uncovered for this reason is said, hazard by hazard, in the notes of
`PROJECT.json`.

* `OnBusy` cancels `m_timer`, which may by then guard the response
  (`server.cpp` 410): hence `cycles = 0` in `GuardedWithoutBusy` and
  `StalledIsClosed`.
* Bytes behind a request restart the read and its timer (`server.cpp` 198), and
  may do so for ever: hence `trailing` in `StalledIsClosed`.
* The cycle counter (`server.cpp` 278) and the loop commented "decrease timeout"
  (`image_sproc.cpp` 176-182) write `x = x ? x-- : ...`, which assigns the old
  value: the number of wait cycles is not limited, a reply nobody fetches keeps
  its slot.
* A socket may enter the pool of a thread that has left (`server.cpp` 967);
  `Stop` may then go on serving for ever: hence `late` in `StopReturns` and in
  the last part of `StoppedIsEmpty`.
* `OnConnected` reads the code of its socket again after it has tested it
  (`server.cpp` 959, 967). When the thread of that socket has left in between the
  code is -1, and the vectors of the pools are indexed with it. That is
  undefined; of what it may do, `Server` takes that any size is found and that
  no pool is changed: the connection is delayed, or gets its session, and a
  socket that belongs to no pool waits for the next. `ServedIsTracked` and
  `OneAcceptChain` say nothing of such sockets (`code # NoThCode`); in the
  session the same index is a finding.
* A thread that throws makes the server invalid while the others serve
  (`server.cpp` 922), and its pool is not cancelled. `StopReturns` says that
  `Stop` ends all the same, then in `invalid`; `StoppedIsEmpty` is about a server
  that was stopped.
* A waiting thread that sees the pulse of `m_isExiting` meant for a later
  constructor leaves, and `StartLoop` never returns (`mng_thread.h` 358): hence
  `caught`.
* A thread that fed and left stays counted (`watchdog.cpp` 275); later a thread
  that feeds is reported. A thread that registered before the watchdog was
  started (again) holds ticket 0, uncounted, and leaves a count too low (254).
  Hence `skewed`, for both.
* A signal handler that interrupts the holder of the lock it wants, or somebody
  who waits in front of it, waits for ever (`watchdog.cpp` 108): hence `Trapped`.
* In the client: a thread that finishes before the main thread sets
  `m_isworking` leaves it set (`client.cpp` 103, `missed`); an address that
  cannot be opened throws and ends the client's thread, and `Connect` waits for
  it; when more comes behind an answer that was read, the completer that has
  finished ends each further read at once, again and again (`Overrun`);
  an image that comes in one read with a BUSY is looked for at the start of the
  buffer and dropped (`image_cproc.cpp` 156); `m_nsucces` is not reset between
  attempts, hence the first attempt in `SuccessIsEarned`; the copy of the
  configuration takes the number of attempts for the delay (`client.h` 38).
  `OnConnected` could find its buffers destroyed by a timeout (`client.cpp`
  635); `BufferBehindOperation` shows that it does not on an open socket.
* `--compare` and `--stop` are branches of one chain of `else if`
  (`configure.cpp` 65-76), the client ignores `--host` and `--port`, and
  `--start` is stored and never used.
* `Stop` tests the state for `invalid` and then for `running` (`server.cpp`
  833-848): a server that becomes invalid in between is not joined by `Stop` but
  by the destructor of the group, behind that of the processor. This is the
  case `ProcessorOutlivesGroup` leaves out.
* An exception in the thread of the processor is told to nobody.
* A group that has lost a thread to an exception is not started again: the next
  `Start` finds the server invalid. An inexact count would only show in a later
  group; `GroupIsComplete` therefore has the count itself in it.
* The parser looks at bytes behind those received when a piece ends inside a
  packet behind another one. The server zeroes its buffer; the client, after a
  BUSY, takes a new one and zeroes only as many bytes as that reply had
  (`client.cpp` 672-692): what is looked at then is not initialized. Both are
  among the `Memories` of the run, and both are `loose`, where nothing is
  promised. `Completer_TypeOK` shows a difference: the parser's place stays
  within what has come in a buffer of zeros, and not in the other.
* A log file that cannot be opened is not written to, and the destructor of the
  file logger closes it all the same, `fclose(nullptr)` (`logger.cpp` 277). That
  is undefined; `stop_log` may end the program there, as `Crash` does.
* Fragments of two threads may come before one message (`LOG << a << b` is
  several calls): `FileFollowsConsole` says only that both logs mix them alike.

### Bounds

* `ImageProcessor`: every connection submits one request, as the sessions do.
* `ServerSession!MaxCycles` bounds the wait cycles that end by timeout, and at
  most one expired completion of `m_timer` is outstanding. Two cycles give two
  busy writes at once, beside the response.
* `Server`: after a socket has entered the pool of a thread that had left
  (`late`), `Start` is not called again, because the sockets left behind would
  accumulate. `Await` lets `Start` give up only when every thread has arrived:
  its three seconds are taken to be enough for that. Two threads suffice for
  every race between a handler and the owner of its socket; the limit of 2 lets
  one socket of a thread be served while the next waits at the limit. With three
  sockets the other thread has one then, and a handler that needs another waits
  until one is free; more sockets do not end within minutes, and the theorems
  hold for any number.
* `Watchdog`: no thread registers once `m_totalthreads` has wrapped below zero;
  a period is long enough for every thread that feeds to feed; `stop_wd`
  forgets the marks, which `start_wd` sets before they are used. `MaxThreads`
  is at least the number of threads, as the callers choose it, and fits the
  `unsigned char` of the counts.
* `Completer`: fields are one or two cells wide and the data two at most (2,000,000
  bytes in the code), so that a piece may end at every cell; what matters is whether a piece ends inside the
  signature, the header, the data, at an end, or behind it. Twelve cells hold
  two packets or three short ones; a text longer than the buffer fills it. The
  `Memories` are a zeroed buffer, one full of terminators, and one that holds old
  packets behind a zeroed beginning; behind what is given there the model takes
  zeros.
* `Client!MaxBusy` bounds the BUSY messages of a connection. Two connections
  have one finish, fail or stall while the other runs. The number of attempts
  is taken to be positive: zero would wrap.
* `Signals`: `MaxTicket` calls of `lock`: a holder, one who waits, and a handler
  on top; `MaxSignals` lets a handler run on both threads, or twice on one. A
  message fits the error log alone.
* `Logger`: two calls and one signal; a queue of one fragment, where the code
  has 8, so that a full queue happens; two boots, so that a second program finds
  what a killed one left.
* `Application`: nothing but the number of threads and of attempts.

### Fairness

All conditions are weak fairness of steps of threads that the
operating system schedules; nothing is asked of clients, servers at the other
end, the network or a function that may hang.

* `ImageProcessor`: the worker's loop and each connection's steps, including
  its retry timer; closing and submitting are not fair.
* `ServerSession`: threads go on polling, timers expire, the worker works.
* `Server`: the main thread goes on, since the destructors of the threads wait
  for a bounded time; handlers that a thread has taken are run, delays expire,
  and a socket that was cancelled ends its session. The threads of the group
  promise nothing: `Stop` gives them up.
* `ThreadGroup`: threads run, and the main thread finishes a construction or
  destruction it began; a thread's function returns when `isRunning` is false,
  which `process_iooperations` does; giving up is not fair.
* `Completer`: a call of `do_completer` runs to its end.
* `Client`: both threads run, and a timer that is armed expires.
* `Signals`, `Logger`: a frame goes on with what it has begun, when no handler
  lies on top of it; calls and signals are not fair.
* `Application`: the main thread runs, which includes that the user goes on to
  press keys or ends the input; a thread that has left its function comes to its
  end. The functions of threads are not fair: the destructors give them up.

`Watchdog` has safety properties only.

## The proofs

Each proof module takes its module's named assumptions on the constants, which
TLC evaluates in the runs, and no other, and proves its theorems for every
value of them: any number of threads, connections, slots, tickets and attempts,
any sizes of packets and messages. Each has the same shape: the invariants the
runs check are not inductive alone; `IInv` strengthens them; `InitIInv` and
`NextIInv` show it inductive, with one step per action; temporal steps combine
the two.

* `ImageProcessor_proofs`: `TypeCorrect`, `SlotsAreConserved`,
  `StocksAreAlwaysFilled`, `ReplyIsItsOwn`, `ContractIsKept` (the refinement of
  `Request`, for each connection), `RequestsAreKept`. The strengthening says where each
  slot is (the free queue, the request queue, the worker, or with a reply),
  which connection owns it there, and that the time stamp of a slot is positive
  only between `PublishReply` and `ClearTimeout` of its next user. The ignored
  results of `bounded_push` need the one counting argument, `PushSucceeds`: a
  queue of distinct slots that misses one has room for it.
  `RequestsAreKept` says that the request of an open connection is always in one
  of the places from which it goes on, never dropped between two queues.
* `ServerSession_proofs`: `NoLostWakeup`, `OneResponse`,
  `GuardedWithoutBusy`, `Spec_ImplementsRequest`, `Spec_SessionGoesOn`. A session has one token: it reads the request, or waits
  for the reply, or is in one handler that decides between the two (`TokenInv`);
  the state of the request goes with it (`RequestInv`); from `isAvailable` to
  the arming of the wait the handler holds the lock that `do_notify` needs
  (`LockInv`). The guard of the timer needs to know that the operations follow
  each other (`ChainInv`): the handler that cancels `m_timer` has the only
  operation behind it, as long as no busy message is on its way.
  `SessionGoesOn` needs to know who holds `m_resumemtx` and that the worker owes
  its call (`HolderInv`), and that each handler leaves an operation, a wait or a
  closed socket (`AliveInv`).
* `Server_proofs`: `TypeOK`, `OneAcceptChain`, `WithinLimit`,
  `ServedIsTracked`, `StoppedIsEmpty`, `Spec_DrainIsFinite`. `PhaseInv` says where the main thread and
  the threads can be at the same time, `CountInv` that only threads that were
  counted are counted. Pools and codes say the same, and a socket is in one
  place: with a pool, with one handler, or with a session (`SocketInv`); the
  thread that gets the next socket owns the connection, or has left
  (`RegisterInv`). The limit holds because `m_connmtx` is held from the look at
  the pool to the accept, and what was seen there stays true (`LimitInv`). That
  a thread has one chain (`ChainInv`) is what makes a handler's step local: it
  takes the chain of its connection with it. `StopInv` is what a stopped server
  leaves for the next start.
  `DrainIsFinite`: when `Stop` runs what is left in the `io_service`, no socket
  waits for a client, and none names a pool any more, unless one came `late`.
  The module also holds the proofs about the threads of the server as a group
  (`ThreadGroup`, whose definitions are named `Group...`): `CountIsExact`,
  `GroupIsComplete`, `Group_GoesOn`. `GroupPhases` says which flags the main
  thread has set in each of its phases and where the threads may be then.
* `Watchdog_proofs`: `CountIsExact`, `NoFalseAlarmUnlessSkewed`, and the action
  property `PeriodEndsWhenAllFed`. `Counted` relates marks, counts and the set
  of those who fed; the lemmas about it follow a mark through feeding,
  registering and unregistering. The period ends when two cardinalities agree,
  hence two sets.
* `Client_proofs`, first part: `ComposesInQuiet`, `BufferBehindOperation`,
  `SuccessIsEarned`, `Spec_ImplementsHandover`, `Spec_NoDeadlock`. `QuietInv` carries the hand-over: whenever the main thread
  may compose, nothing of the attempt is left; `CountInv` relates the count of
  results to those saved.
* `Client_proofs`, second part, the stream: the lemma `StreamLayout` says where the
  packets of a stream begin and end, and what lies there, for every sequence of
  packets. `Stream` is a fold over the packets; the inductions over their number
  are made with a least counterexample (`Least`), since the theorems of the
  library that take a predicate as a parameter cannot be used.
* `Client_proofs`, third part, the completers: `NoFieldBeyondReceived`,
  `LastPacketIsKnown`, and `Completer_ImplementsFraming`: each step of a
  completer is a step of `Framing` or changes nothing there. The heart is
  `Tight`: as long as the promise holds, a packet that the parser looks at
  either lies at the front of the stream, or has come whole with only texts in
  front of it. So the comparison of all the bytes with the size of one packet
  does no harm (`Position`), and what the parser finds in the buffer is what the
  sender wrote (`Contents`, `Signature`, `LengthField`, `Checksum`,
  `Terminator`). `Progress` says where a call stands between the turns of the
  switch. Two facts about the constants came out of the proof and are in the
  assumptions: a text is never shorter than the signature, because the
  terminator is not (four bytes both), and the buffer has at least one byte.
* `Signals_proofs`: `ImplementsLock`, `OneWriter`, `LogFits`,
  `Spec_OnlyTrapsHang`, and of the ticket
  lock itself `MutualExclusion` and that it refines `Lock`. The tickets not yet
  served are those of the active clients, one each (`TicketsInUse`); the
  abstract queue is these clients in the order of their tickets, and each step
  maps to asking, leaving or a stutter. `ImplementsLock` instantiates this for
  frames: a handler takes steps of the lock like any other client, and stands on
  its frame otherwise.
* `Logger_proofs`: `FileFollowsConsole`, `FileFits`, `Spec_NoDeadlock`. A frame inside `write_log`
  has `m_mtx`, so only one message is between console and file; the file is
  behind the console by that message and by nothing otherwise; and
  `m_file_buff_size` is never less than what the file has, since what is on its
  way was counted before. The file's limit is proved for messages that fit the
  file (`MessagesFit`), also for files that an earlier program left too long.
* `Application_proofs`: `RunsWithinItsObject`, `ProcessorOutlivesGroup`,
  `LogOutlivesThreads`, `LostThreadIsFinal`, `Spec_ImplementsHandover`,
  `Spec_WaitsForClientOnly`. The invariant says of each thread
  how far construction and destruction must have come for it to be where it is.
  That a lost thread is final speaks of all later states: a server with a lost
  thread is `Doomed` (invalid, or on the way to the destructors that find the
  thread), which `LostInv` shows, and no step leaves that (`DoomedStays`).

### The safety halves of the liveness properties

A liveness property fails in one of two ways: everyone waits on everyone, or
someone goes on for ever without getting there. TLAPS cannot state fairness or
`ENABLED`, but the first way is excluded by an invariant: somebody can take the
next step, or nothing is waited for that need not come. That is proved for every
value of the constants:

| liveness property (TLC) | its half (TLAPS) | what it says |
|---|---|---|
| `EveryRequestAnswered` | `NoRequestLost` | a request that was submitted is queued, is the worker's, or is answered |
| `ClosedIsReleased`, `StalledIsClosed` | `SessionGoesOn` | a session that has to end needs no client for its next step |
| `StopReturns` | `DrainIsFinite` | when `Stop` runs what is left, no socket waits for a client or an accept |
| `DestroyEnds`, `StartsUnlessCaught` | `GroupGoesOn` | destructors, `StartLoop` and threads do not wait on each other |
| `CommandEnds` | `NoDeadlock` of the client | while a command is under way, one of the two threads or a timer goes on, unless the thread has died, was missed, or met an `Overrun` |
| `EverythingEnds` | `OnlyTrapsHang` | while a thread has something to do, some thread can go on, or a handler waits for what its own thread holds |
| `EverythingReturns` | `NoDeadlock` of the logger | `m_mtx`, `m_loggermtx` and `slock_reg` are not waited for in a circle, unless a handler traps its own thread |
| `FailureEndsProgram` | `WaitsForClientOnly` | the main thread waits for ever only for the client's thread |

The state predicates that stand for "can take a step" (`CanGo`, `GoesOn`,
`MainGoes` and so on) repeat the guards of the actions. That they imply the
`ENABLED` of these actions cannot be proved here; TLC, asked with the
configurations of the runs, has found no state where they do not. What is left to fairness is that
whoever can go does so, and that it leads to the end.

Where a proof module shows type correctness the run does not check it again.

Only model-checked are:

* the liveness properties themselves, which need fairness and `ENABLED`
  (`EveryRequestAnswered`, `ClosedIsReleased`, `StalledIsClosed`, `StopReturns`,
  `DestroyEnds`, `StartsUnlessCaught`, `CommandEnds`, `EverythingEnds`,
  `EverythingReturns`, `FailureEndsProgram`), and of `FramingSpec` that every
  call returns;
* the two departures, where the program does not do what is said of it.

## Not modelled

* The text protocol of the session and of the client, with `text_completer_t`:
  no shipped processor selects it. `TClient::isStarted` and the handler
  statistics.
* The exceptions inside handlers of a session, `do_first` among them (`Server`
  has those of the handlers of the server), the garbage pools of the server
  (lifetimes that `shared_ptr` keeps), what `do_resolve` asks of the network.
* What an index of -1 may do besides: fail the assertion, spin on a lock found
  beside the vector, or write into its neighbours.
* In `Server`, a `Start` that fails before it has started a thread; `Application`
  has it (`StartThrows`).
* The parking of threads and detached construction, which the program does not
  use, and what a detached thread does to an object that is destroyed.
* `try_lock` of the ticket lock, which nobody calls; the converters, which move
  memory.
* The loggers that are not chosen (`socketLogger`, `emptyLogger`), failing
  allocations in the log, and release builds of it (`Debug` is a constant).
* The contents of buffers: the message of `m_response_busy` replaced while it is
  written (`server.cpp` 531), the size arithmetic inside a packet
  (`comb_packet.cpp` 98), the values of checksums.
* Drawing and reading of pictures, tests and mocks, the patch of boost, build
  files, diagrams.
