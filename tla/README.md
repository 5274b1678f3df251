# Verification of A Tiny Network Library

TLA+ models of the library under `src/`, checked with TLC and proved about with
TLAPS. The library is a muduo-style network library in C++: one event loop per thread, a pool of I/O loops, TCP connections with
output buffers, an HTTP server on top, an asynchronous logger with rolling log
files, and a pool of MySQL connections.

## 1. The system

| Component | Source | State it keeps | Operations |
|---|---|---|---|
| EventLoop | `net/EventLoop.cc` | `quit_`, `callingPendingFunctors_`, `pendingFunctors_` under `mutex_`, the eventfd, `activeChannels_` | `loop`, `doPendingFunctors`, `runInLoop`, `queueInLoop`, `quit`, `wakeup`, `handleRead` |
| Epoller, Channel | `net/Epoller.cc`, `net/Channel.cc` | interest and `index_` of each channel, `channels_`, the kernel's interest list | `updateChannel`, `removeChannel`, `epollWait`, `handleEvent`, `enableReading` ... `disableAll`, `remove` |
| EventLoopThread, EventLoopThreadPool, Thread | `net/EventLoopThread*.cc`, `base/Thread.cc` | `loop_` under `mutex_`, `loops_`, `next_` | `start`, `startLoop`, `threadFunc`, `getNextLoop`, destructors |
| TcpConnection | `net/TcpConnection.cc` | `state_`, the channel's interest, `outputBuffer_` | `send`, `shutdown`, `connectEstablished`, `connectDestroyed`, `handleRead/Write/Close` |
| TcpServer | `net/TcpServer.cc` | `connections_` | `newConnection`, `removeConnection(InLoop)`, destructor |
| Acceptor | `net/Acceptor.cc` | the listening socket and its channel | `listen`, `handleRead`, destructor |
| Buffer | `net/Buffer.cc`, `net/Buffer.h` | the vector and two indices | `append`, `readFd`, `retrieve`, `makeSpace` |
| HttpServer, HttpRequest | `http/HttpServer.cc`, `http/HttpRequest.cc` | the parser's state, headers, form data | `onMessage`, `parseRequest`, `onDealRequest` |
| HttpResponse | `http/HttpResponse.cc`, `defaultHttpCallback`, `example/httpServerTest.cc` | code, message, type, body, whether to close | `appendHeaderToBuffer`, `appendBodyToBuffer`, the callbacks that fill it in |
| AsyncLogging, FixedBuffer | `log/AsyncLogging.cc` | `currentBuffer_`, `nextBuffer_`, `bufferVec_`, `running_`, the backend's spare buffers | `append`, `threadFunc`, `stop` |
| LogFile | `log/LogFile.cc` | the open file, `count_`, `startOfPeriod_`, `lastRoll_`, `lastFlush_` | `append`, `rollFile`, `flush` |
| ConnectionPool | `mysql/ConnectionPool.cc` | `connectionQueue_`, `currentConnCount_` under `mutex_` | `getConnection` and its deleter, `produceConnection`, `recycleConnection` |

How they meet:

- Threads talk to a loop through `pendingFunctors_` and the eventfd only. The
  acceptor runs on the main loop; `newConnection` hands each connection to an
  I/O loop with `runInLoop(connectEstablished)`; a closed connection travels
  back to the main loop (`removeConnectionInLoop`) and once more to its I/O
  loop (`connectDestroyed`). `~TcpServer` takes the last leg directly.
- A connection's channel calls `handleRead`, `handleWrite` and `handleClose`
  on the I/O thread; user code and other threads call `send` and `shutdown`.
- `HttpServer::onMessage` runs on the I/O thread on the connection's input
  Buffer.
- Any thread logs: `AsyncLogging::append` fills buffers, its thread writes
  them with `LogFile::append`.
- Clients of the connection pool, a producer and a recycler share one mutex
  and one condition variable.

What is hard here: a functor queued while the loop is between the swap and
`epoll_wait`; `quit()` at the same place; a loop that is a local variable of
its thread and is used through a pointer; partial writes with a shutdown
pending; a close that crosses two loops while the server is being destroyed; a
buffer exchange that must never run out; a timed wait racing a notification;
descriptors that are used again while their channels are still on the way out;
requests cut anywhere by TCP; several readings of one clock. `PROJECT.json`
lists these hazards with the line where each one bites.

## 2. Modules

Every module states its abstraction at its head; history variables are marked
"history" where they are declared. Operators whose name ends in `_Something`
and whose comment begins with "Mutant" are wrong variants of the operator that
follows them; nothing uses them in the specification, they are there to see
that a property notices.

- `EventLoop.tla` - `loop()` step by step, down to each read and write of a
  field that another thread touches, and the calls of other threads as two
  steps (the write, then the eventfd). `TaskQueue.tla` is the abstract
  specification: one FIFO queue of functors. `Abstract` in `EventLoop.tla` is
  the refinement mapping: what is left of the batch being run, followed by
  `pendingFunctors_`.
- `EventLoopThreadPool.tla` - the owner that starts, asks and destroys the
  pool, and each `threadFunc`, with the loop cut down to `quit_`, the eventfd
  and the test of `while (!quit_)`. A callback may quit its own loop, before
  `loop()` or in any round. `~EventLoopThread` reads `loop_` twice
  (`DtorTestsLoop`, `DtorReadsLoop`); if the thread nulls it in between, the
  program ends (`Crashed`) or goes on with the pointer it tested, as compiled.
- `Epoller.tla` - `updateChannel` and `removeChannel` as operators on an epoller
  (`channels_`, the interest list, the errors `epoll_ctl` has answered) and a
  channel (`fd_`, `index_`, `events_`). It has no state of its own: `TcpServer`
  keeps one epoller per loop and instantiates it. `TcpConnection` needs only
  whether its one channel is registered and for what.
- `TcpConnection.tla` - one connection: the functors queued for it, the
  channel's handlers, user callbacks that send and shut down, other threads
  doing the same in separate steps for the test of `state_`, the store and the
  functor. The kernel takes any part of a write; the peer closes or resets; the
  server removes the connection or ends. `ByteStream.tla` is the abstract
  specification: a one-way stream that takes each message whole or loses it,
  those of one source in their order, lets the bytes leave in that order, once
  each, and ends only behind all of them unless the connection is down. Its
  `taken` is what `sendInLoop` accepted, its `wire` what the kernel took, its
  `offered` the messages on their way: for each thread, what the functors in the
  queue bring of its (`BroughtBy`), and the one its call is about to queue.
- `TcpServer.tla` - several connections over the main loop and the I/O loops,
  or over the main loop alone (`setThreadNum(0)`): the acceptor, accept, close,
  removal through two loops, the end of the main loop, `~TcpServer` and the quit
  and join of every I/O thread. User code sends and shuts down, in one step in a
  callback and on other threads in steps: `SendTests` and `ShutdownTests` find
  `kConnected`, `SendQueues` and `ShutdownStores` go on later, whatever has
  happened to the connection. Of what is sent only its trace in epoll is kept:
  `SendInLoop` may switch EPOLLOUT on, `HandleWrite` switches it off.
  `overwritten` has the connections for which `shutdown()` stored
  `kDisconnecting` over `kDisconnected`, `late` those whose channel `sendInLoop`
  put back after `connectDestroyed`. Each loop has an epoller; the process has a few
  descriptors left, `accept` answers with the least free one or fails, and a
  descriptor is free again when the last `shared_ptr` to its connection is gone,
  which may be a functor's that has run and waits for the end of the round.
- `Buffer.tla` - the vector, `readerIndex_` and `writerIndex_`, cell by cell.
  The bytes are numbered in the order they are put in, so that order and loss
  can be seen.
- `HttpRequest.tla` - the request line by its words, the tables of
  `CommonConfig.h` that a path and its suffix are looked up in, and the body of
  a form byte for byte, escapes included. `HttpResponse.tla` - an answer as the
  lines it is sent in, and what the two callbacks fill in. `HttpServer.tla` -
  the turns of `parseRequest`'s loop on tokens (request line, header, CRLF,
  text of a body), then what `onMessage` and `onDealRequest` do, over the other
  two. The client sends texts of any of `Kinds`, one after the other
  (`ClientSends`), and TCP delivers any part. A text is a request with its body,
  which may have several lines, or, with `inBody`, goes on with the body of the
  request before by a line that reads like a request line: `parseRequest` drops
  a body to its first CRLF and parses what follows. `Files` maps the paths that
  exist to their contents. A Buffer is a token sequence, which is what
  `Buffer.tla` implements.
- `AsyncLogging.tla` - `append` as a critical section, the backend with its
  timed wait, the exchange, writing, recycling of spare buffers, and `stop()`.
  `begins` (history) numbers the message each buffer not yet written begins
  with, so that order and loss can be stated buffer by buffer.
- `LogFile.tla` - one `append()` in the steps between which the clock can
  move; the stdio buffer and the disk are separate. A file is known by the name
  `getLogFileName` makes of the clock: `LocalTime` is any function, since local
  time without its zone gives the hour that comes twice the same names, and a
  file of a name that exists is gone on with (mode "a").
- `ConnectionPool.tla` - clients, deleter, producer, recycler. A critical
  section is one step unless the thread sleeps in it or deletes one by one.
- `MC*.tla` extend these for TLC; `*_proofs.tla` hold the theorems.

## 3. Runs

The run of each module checks its type invariant together with the facts the
other properties rely on (`Inv`), the safety properties, and the liveness
properties under the stated fairness.

| Run | What it shows | Bounds |
|---|---|---|
| `EventLoop` | FIFO refinement of `TaskQueue`; no lost wakeup; no sleep after `quit()`; queued functors run and `quit()` ends the loop without the poll timeout | 2 callers, 3 functors |
| `Pool` | published loops exist; loops handed out are built and in turn; an object goes only after its thread; `loop_` is null when the destructor uses it only if a callback quit the loop; `startLoop` and the destructor return | 3 threads, 2 picks of each loop |
| `AsyncLogging` | every message in exactly one place, in order; spares never run out; what does not fill a buffer is written too; `stop()` returns | 5 messages, buffers of one |
| `TcpConnection` | refinement of `ByteStream`; EPOLLOUT iff bytes wait; every `shutdown` and every accepted byte leaves | 2 threads, 2 messages of 2 bytes, high-water mark 3 |
| `TcpServer` | no freed channel in an Epoller, but one in `late`; `channels_`, interest list and `index_` agree and no `epoll_ctl` fails; up then down, each once, but down again perhaps for one in `overwritten`; destruction follows a close; a client that waits for a descriptor is accepted; `~TcpServer` returns | 1 I/O loop or none, 2 connections, 1 or 2 descriptors, 2 calls on one connection |
| `ConnectionPool` | one owner per connection; the queue ordered by age; the size within bounds; an emptied queue is refilled | 3 clients, `maxConnCount_` 4, clock up to 2 |
| `Buffer` | the readable part is the bytes put in and not taken out; the vector grows only when it must | prepend 1, initial 2, extra buffer 2, 9 bytes |
| `HttpServer` | callbacks see requests in order, those of the client with their own headers, whatever bodies hold; answers can be told apart and name the right type; nothing after a closing answer; a whole request is answered and its form understood; the parser loop ends | up to 3 texts of 9 kinds, 2 files |
| `LogFile` | no byte lost or repeated, each file in order, also those opened again; oversized files and old days are rolled in time | 6 bytes, 8 seconds in which local time goes back twice, days of 3 seconds, `checkEveryN_` 2 |
| `Pool_join` | violated, see below | 1 thread |
| `ConnectionPool_full` | violated, see below | 1 client, 1 to 2 connections |
| `HttpServer_split` | violated, see below | 1 request |

Why the bounds are enough. Three functors fill the batch, the vector and one
in between; two callers race each other and the loop. Five messages to one-message buffers
are more than the four buffers the logger starts with, so that `new Buffer`
happens and the batch is longer than two. Two messages of two bytes give every
mixture of written, partly written and waiting; the mark of three is crossed
by the second. Two connections share the I/O loop or the main loop, and with one descriptor the
second gets the first one's, also while the first one's channel is back in the
list; two calls are what it takes to be closed twice, a `shutdown()` that
overwrites and a `send` that switches EPOLLOUT on again. That it makes no
difference how many I/O loops share the connections is proved, not run. A
maximum of four connections leaves room to grow and shrink although the counter
starts at twice the minimum, and three clients can empty a pool that counts as
full. The Buffer's sizes make each branch of `makeSpace`,
`readFd` and `retrieve` reachable several times in a row. Three requests are
one more than the pipelined pair, so that a third one meets what two have left
behind; their kinds differ in method, version, `Connection`, form, path and in
whether the request line is good. What `postDataOf` makes of a form is a pure
function: TLC evaluates `FormsAreUnderstood` in `MCHttpServer.tla` for all forms
of one or two pairs of keys and values of at most two characters, among them
every character the parser treats specially. Days of three seconds let a day begin between any two steps of an
`append()`, and two-byte files let size and day compete. Deadlock is switched
off where the system legitimately stops (a loop that has quit, a logger that
is stopped, a client that sends no more, the end of the clock); it is checked
for `Buffer` and for the connection pool.

Bounds in the models: `MaxPicks`, `MaxBytes` (Buffer, LogFile), `MaxClock`
(ConnectionPool, LogFile), `MaxRequests`, `MaxFds`, `MaxCalls`; the finite sets of functors,
messages and connections bound the rest. A functor or message is used once.

### Fairness

Each liveness property is checked under `FairSpec`. Threads inside library
code keep running (weak fairness of the loop's, the backend's, the owner's and
the destructor's steps) and callbacks return. Strong fairness is used where a
step competes for a mutex or a socket: a thread that wants the pool's mutex
again and again gets it, a socket whose peer reads becomes writable again and
again, a close epoll keeps reporting is handled, and a listening socket that is
readable again and again is accepted from while a descriptor is free.
Level-triggered epoll justifies the latter three. Nothing else is fair: no caller has to call, no
descriptor to become ready, no peer to leave, and `epoll_wait` never has to
time out - so what is shown to happen does not lean on `kPollTimeMs`. The one
timeout that is fair is `cond_.wait_for` in the logger's backend and in
`getConnection`, because the standard library promises it.

### What the code does otherwise than it says

- `Pool_join`: `loop()` begins with `quit_ = false` (EventLoop.cc:66). A
  `~EventLoopThread` that runs after `startLoop` has returned and before the
  thread has entered `loop()` stores `quit_` too early; the eventfd costs one
  round, and `join()` waits for ever. The run `Pool` therefore destroys the
  pool only after each loop has entered `loop()` (`WaitsForLoop`).
- `ConnectionPool_full`: `addConnection` and the constructor's own loop both
  count (ConnectionPool.cc:17 and 109), so the counter is too high by
  `minConnCount_` for ever. With the configured 8 and 16 the producer believes
  the pool to be full from the start.
- `HttpServer_split`: every `onMessage` makes a fresh HttpRequest, while
  `parseRequest` has already taken complete lines out of the Buffer. A good
  request that arrives in two pieces is answered 400.

Seen while modelling, in the models' behaviours but not a run of its own:

- a functor the loop thread queues before `loop()` is announced by no wakeup
  (`early` in `EventLoop.tla`);
- `~EventLoopThread` tests `loop_` at `EventLoopThread.cc:18` and reads it again
  at line 20, without the mutex `threadFunc` nulls it under: when a callback has
  quit the loop, a null pointer may be dereferenced between the two
  (`DtorReadsLoop`). `CrashesOnSelfQuit` says that it happens in no other case;
- `quit()` stores `quit_` before it writes to the eventfd: the loop may be
  destroyed in between (`DtorStoresQuit` ... `DtorWakesLoop`);
- `stop()` drops what is appended while the backend writes its last batch;
- `shutdown()` tests and stores `state_` in two steps, so `kDisconnected` can
  be overwritten by `kDisconnecting` (`overwritten`); a `send` that tested
  `state_` before may then write after the FIN, or put the closed channel back
  into epoll, so that `handleClose` tells the user of the end again and the
  connection is removed and destroyed a second time;
- `connectDestroyed` of a connection in `kDisconnecting` tells the user nothing
  and keeps `events_`, and a queued `send` registers the removed channel once
  more if EPOLLOUT is not among them (`late`); nothing removes it again, so the
  Epoller knows a channel that is freed with the connection;
- functors queued behind a quitting loop's last round never run,
  `connectDestroyed` included;
- `wait_for` in `getConnection` starts anew with every notification, so the
  two seconds are no upper bound;
- `HttpServer` handles one request per read: a second one in the same read
  waits for more data; HEAD, PUT and DELETE are accepted in the request line
  and then swallow everything that follows as headers; a form's body is read
  by its length whether it has arrived or not; a body is dropped together with
  everything up to the next CRLF, or with the whole Buffer if there is none, so
  that the lines of a body behind its first, or what of it arrives later, are
  taken for requests and may be given to the callback as such
  (`HttpRequest.cc:152-158`);
- the status line is put together in 32 bytes, and a status message of 17 bytes
  or more would lose its line end (`HttpResponse.cc:6`); the repository has none;
- when the descriptors run out, `Acceptor::handleRead` only logs and is called
  again at once for as long as the listening socket is readable;
- `CommonConfig.h:67-68` lacks a comma, so that the page names `/welcome` and
  `/chat` are one, `/welcome/chat`;
- a log file is named by local time without the zone: when summer time ends a
  roll may open a file of an hour ago again, or the current one; nothing is lost
  or mixed, but `writtenBytes_` starts at 0, so that the file may grow to more
  than `rollSize_` (`RollFile`);
- `LogFile::append` flushes at its end in any case, which makes
  `flushInterval_` and the comment at LogFile.cc:40 (flushes are rare) moot.

## 4. Proofs

TLC's runs are about the instances above; the theorems hold for all values of
the constants, under the modules' named assumptions on them. Each rests on an
inductive invariant that TLC checks first, as `Inv` of the module's run or
together with the other invariants of that run; `SendsInv` and the parts of
`HttpServer`'s `IInv`, which are stated next to the proofs, held on the
instances of those runs too before they were proved.

Every safety property and both refinements that a run checks are stated by a
theorem. Recursion over data stays within reach because the models use recursive
functions and the folds of the community modules: `InductionOverNat` does
induction for a set of naturals, from the well-foundedness of `<`, so that no
operator has to be passed to a theorem.

- `EventLoop_proofs.tla`. `Inv` is inductive: types; `callingPendingFunctors_`
  set exactly in `doPendingFunctors`; the local batch empty outside it; no lost
  wakeup; no sleep after quit. The two middle parts are needed because the test
  in `queueInLoop` is only right if the flag is, and because the refinement
  mapping needs the swap to meet an empty batch. `InvHolds`,
  `NeverLosesAWakeup` and `NeverSleepsAfterQuit` follow for any number of
  threads and functors. `EventLoopIsATaskQueue` shows that every step is a step
  or a stutter of `TaskQueue`, from two lemmas on concatenation.
- `EventLoopThreadPool_proofs.tla`. `PoolInvHolds` and `ThreadsEndFirst`, for
  any number of threads, with one lemma per conjunct instead of one per action:
  each says which few actions disturb it. The strengthening records who asked a
  loop to quit (its own callback, or the destructor that has reached it), without
  which the end of a loop says nothing about the destructor's position, nor
  about whose fault a null `loop_` is (`CrashesOnSelfQuit`).
- `AsyncLogging_proofs.tla`. `SparesAlwaysSuffice` and `InvHolds`: no null
  buffer is dereferenced and no `back()` of an empty vector taken. The
  strengthening `BatchIsLocal` says what the backend holds while it is outside
  the lock; without it the count of spare buffers at the exchange is unknown.
  `EveryMessageOnceInOrder` is inductive together with it: the buffers not yet
  written, oldest first, form a line; an append or an exchange adds a buffer at
  its end (`AddedToLine`), the backend writes the one at its front
  (`WriteBufferOrder`), and recycling finds nothing in flight.
- `TcpConnection_proofs.tla`. `ConnectionInvHolds` and `WritesWhileBytesWait`
  are inductive together: the bytes need no more than themselves, what the
  channel is registered for needs that `connectEstablished` runs first and only
  once (`Unestablished`). `SendInLoopKeeps` is the lemma both a functor and a user callback
  use; cutting a message in two and joining the parts again (`CutInTwo`,
  `JoinAssociates`) is what a partial write comes down to.
  `ConnectionIsAByteStream` proves the refinement of `ByteStream`. It needs
  `SendsInv` besides: a message that has been sent and has not passed
  `sendInLoop` is in the call of its thread or in exactly one functor, and a
  connection in `kDisconnected` has been closed or destroyed - without the
  latter a message lost there would be lost on a sound connection. What is on
  its way is `FlattenSeq` of what each functor brings; lemmas on both ends of
  it (`FlattenAppend`, `FlattenCons`) carry a message from `Offer` to `Take`.
  `BringsSame` says that the queue may grow or shrink by functors that carry no
  message, which settles all steps but four (`QuietStep`): the two halves of
  `send()` (`SendTestsOffers`, `SendQueuesKeeps`), its functor (`RunSendTakes`)
  and a `send()` in a callback (`SendFromCallbackTakes`). That the FIN is last
  comes from `WritingIffPending`. `ConnAssumption` names no thread "unsent" or
  "passed", the two marks of `sender`; it says nothing of the code.
- `TcpServer_proofs.tla`. `ServerInvHolds`, `EpollAlwaysAgrees`,
  `AnnouncedOnce` and `NoChannelDangles`, for any number of loops, connections,
  descriptors and calls. What a loop has still to run is its line: the batch, then the
  queue; the swap leaves it as it is (`LineSwap`). `Life(c)` collects what the
  invariant says of one connection - in the map, on its way to
  `connectDestroyed`, or destroyed, and how often it was announced - so that a
  step is shown to carry one connection on and to leave every other alone
  (`LifeGoesOn`). Calls of `send()` and `shutdown()` need that only a connection
  that is up is called (`Called`), and that `kDisconnected` is left only through
  `overwritten`: the two exceptions, `overwritten` and `late`, are named in the
  statements, and the theorems say that there is no third. That a channel is in epoll only on its own loop and under its
  own descriptor is needed for `NoDanglingChannel`, and needs in turn that a
  descriptor is not used again while a functor holds its connection.
- `ConnectionPool_proofs.tla`. `PoolInvHolds` and `ConnectionsHaveOneOwner`
  together, then `PoolStaysWithinBounds`, which counts: the recycler deletes
  only while more than `minConnCount_` connections are idle, and a queue without
  repetitions is as long as the set it holds (`DistinctCount`). The producer
  stays below the maximum because its counter is too high, not although it is.
- `HttpServer_proofs.tla`, the parser and the Buffer it parses.
  - `FormIsReadAsMeant`: what `parseRequest` makes of an encoded form is what
    the client meant by it, for every form over all bytes. `IsLoop` states the
    loop over the body as a relation between a turn and the next;
    `AllIsRead` is an induction over the pairs, `TextTurns` one over the bytes
    of a key or a value.
  - `InvAlways`, `NothingAfterClose` and `WholeRequestsAreAnswered`, for any
    kinds of requests, any number of them, any files and any pieces TCP makes of
    them. The invariant `IInv` looks at everything not parsed yet, the Buffer
    and what is still to arrive, as one token sequence (`Left`). `StreamInv`:
    a text whose line is left is left whole, and the lines stand in the order
    they were sent. `ReqInv`: the text in the parser stands between those dealt
    with and those left, and for a GET or POST that is no text of a body the
    tokens next in `Left` are exactly those the parser's state waits for
    (`Stage`), whatever an earlier body has left behind. `DealtInv`, `SentInv` and `WholeInv`
    say what has been handed to the callback, what has been answered, and which
    requests arrived whole and are answered or about to be. Without `ReqInv`
    nothing relates the parser's state to the text that follows, and an answer
    could be to a mixture of two requests.
  - `BufferIsAByteQueue` (`BufferSpec => []BufferInv`) and
    `GrowsOnlyWhenItMust`, for every prepend area, initial size and extra
    buffer. One lemma per operation says what it adds to or takes from the
    bytes held (`ResizedKeeps`, `MovedToFrontKeeps`, `EnsureWritableMakesRoom`,
    `WrittenAdds`, `ReadInAdds`, `RetrievedTakes`); the theorem follows.
- `LogFile_proofs.tla`. `FilesInvHolds`, `LargeFilesAreRolled` and
  `NewDayIsNoticed`, for any sizes, periods, clock and local time.
  `FlushKept` says that the bytes of stdio are all younger than those of any
  file, so that a file opened again stays in order. `SizeIsChecked` and
  `DayIsChecked` say what each position inside `append()` knows of the two
  checks; the latter needs that a day is never taken for a later one
  (`PeriodOfMonotone`).

Only model-checked: liveness (`QueuedIsRun`, `QuitEndsLoop`, `StartReturns`,
`DestroyReturns`, `EventuallyWritten`, `StopReturns`, `ShutdownSendsFin`,
`AcceptedIsWritten`, `ClosedIsDestroyed`, `WaitingIsAccepted`, `DtorReturns`,
`EmptyIsRefilled`, `HandlerReturns`). It rests on fairness, hence on ENABLED,
which the prover does not handle.

## 5. Not modelled

- Memory of the callers of `send(const std::string&)`, which queues a raw
  pointer to the string and to the connection; the model keeps the message.
- In `TcpServer`, a connection freed while a functor of `send` or `shutdown`
  still has its raw pointer, and calls once the server is gone: user code is
  taken to hold the connection until they have run. The functors of the
  write-complete and high-water callbacks, which only hold it longer. Partial
  writes, which change nothing there. A `shutdown()` between the test and the
  store of `state_` in `connectDestroyed`, whose store is lost.
- Errors of `epoll_wait`, and `SIGPIPE`, which is taken to be ignored.
- A log disk that fails for good: `FileUtil::append` would not return.
- In `HttpServer`: a cut inside a token, a form without a Content-Length (its
  `stol` of an empty string throws) or not encoded as a browser does, text in a
  body that is read as a header of another name, queries, dates, status
  messages, and how long a file is.
- The destructor of the connection pool at program exit, and the MySQL client,
  of which the pool uses only when a connection was last used.
- `Socket`, `InetAddress`, `Timestamp` and `Thread`'s naming, which are thin
  wrappers; the format of a log line (`Logger`, `LogStream`), which no other
  part reads.
- JWT, Base64 and picojson: the library does not use them itself, and the last
  is third-party code.
- `main()` of the examples and tests, which only wires objects together.

## 6. Plan

Written in this order: the event loop and its abstract queue, the thread pool,
the logger, the connection, the server, the connection pool, the buffer, the
HTTP server, the log file; then the Epoller with descriptors that are used
again and the server over it, the abstract byte stream, request and response of
HTTP; then the proofs module by module, the refinement of `ByteStream` and the
parser of `HttpServer` last. Left to do:

1. the HTTP server over `TcpConnection` instead of over a sequence of answers;
2. that `HttpServer`'s use of a token sequence is what `Buffer` gives it, as a
   refinement;
3. safety parts of the liveness arguments that can be proved on their own, such
   as a bound on what one round of a loop leaves undone.
