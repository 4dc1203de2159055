# A TLA+ verification of Network_lirbary

This directory models the core of the repository: the asynchronous logger of
`lib_logger` and its rotating log file, the event loop, connections, client,
buffers and stream protocols of `lib_network`, and the order management server
that is built from them. The models are translated from the C++ sources,
model-checked with TLC on small instances, and the safety properties of the
logger, the log file, the event loop, connections, the client, the order server,
the rate limiter and the buffers are proved with TLAPS for every value of their
parameters.

## 1. The system

| part | state | operations | interacts with |
|---|---|---|---|
| `AsyncLogger` | bounded queue, policy, counters, sinks, worker thread | `Enqueue`, `EnqueueWithTimeout`, `SetOverflowPolicy`, `Shutdown`, worker loop | any logging thread; sinks |
| `Logger`, `LogManager` | registry of loggers, thread-local sequence number | `Log`, `LogApp`, `GetLogger`, `Shutdown` | `AsyncLogger` |
| sinks | open file, size, connection | `Write`, `Flush`, rotation | called by the worker and by `Shutdown` |
| `EventLoop` | `running_`, `handlers_`, `pending_tasks_`, eventfd | `Run`, `Stop`, `AddFd`, `ModifyFd`, `RemoveFd`, `RunInLoop` | poller, callbacks, any thread that posts |
| `EpollPoller` | epoll set | `Add`, `Modify`, `Remove`, `Poll` | kernel |
| `Reactor` | `connections_`, `ddos_protection_`, `tls_context_` | `RegisterServer` and its accept callback, `SetDdosConfig` | loop, `Connection`, protocol handlers |
| `Connection` | `state_`, `fd_`, input and output buffer, `ssl_` | `Send`, `HandleRead`, `HandleWrite`, `HandleClose`, `Shutdown`, `ForceClose`, `Connect` | loop, socket, handlers, other threads through `Send` |
| `Server` | runner thread, `running_` | `Start`, `Stop`, `Wait`, `ReloadConfig` | reactor |
| `Client` | loop thread, promise of `Connect` | `Connect`, `Disconnect`, `Send` | loop, `Connection` |
| protocol handlers (TCP, RPC, HTTP, WebSocket, HTTP/2, gRPC, UDP, QUIC) | parser state, some per connection, some per handler | `OnConnection`, `OnMessage`, context `Write` and `Close` | `Connection` |
| `TokenBucket`, `CircuitBreaker`, `DdosProtection` | tokens, failure count and state, counts per address | `Consume`, `AllowRequest`, `OnSuccess`, `OnFailure`, `AllowConnection` | accept loop, callers |
| buffers and pools | indices into a vector, free lists | `Append`, `Retrieve`, `Acquire`, `Release` | everything |
| order management server (`apps/server`) | orders, subscribers, publisher thread | request handler, `PlaceOrder`, `Subscribe`, `PublishTick`, `Start`, `Stop` | `Server`, stream contexts |
| configuration, metrics, tracing, other applications | - | - | - |

What is hard in it:

* **Concurrency.** Callers of the logger, its worker and `Shutdown` share one
  mutex and two condition variables, but `running_` and Shutdown's notification
  bypass the mutex. Other threads reach the loop only through `RunInLoop`, whose
  push and wake-up are two steps, as are the loop's read and swap.
* **Stale references.** A batch of events holds raw handler pointers while its
  callbacks close, free and accept.
* **Partial progress.** A write is cut anywhere; what is left waits for
  `EPOLLOUT`, which is requested and taken back in different calls.
* **Streams.** A frame arrives in pieces or with others, and each parser resumes
  from another place: the buffer, the connection's context, or members of the
  handler that all connections share.
* **Storage.** A buffer is compacted, grown, moved and passed on through a pool
  while it holds unread bytes; a log file is renamed in several calls, any of
  which may fail or be the last one of the process.
* **Ends.** Shutting down the logger, stopping the loop and closing a connection
  race with everything above.

What makes the parts correct, in the same order: every accepted log entry is
written once and in order or counted as lost, and nobody waits for ever; every
posted task runs once and in order, no event outlives its handler, `Stop` stops;
the peer receives exactly the bytes sent, in order, buffered output is
eventually sent, and no close is left half done or done twice; a handler receives each
message whole, once and in order, and no more of them than its rate limit
allows; a buffer gives back what was put into it, in order, and does not grow
without need; backups hold the log in order and only its oldest part is ever
lost; market data reaches the connection it was written for, in order, and
the registry knows every open connection.

## 2. Modules

| module | models | notes |
|---|---|---|
| `LogPipe` | what an asynchronous log promises | abstract specification |
| `AsyncLogger` | `async_logger.cc`, entry creation of `logger.cc` | implements `LogPipe` |
| `AsyncLoggerProofs` | | theorems about `AsyncLogger` |
| `EventLoop` | `event_loop.cc`, `epoll_poller.cc`, accept loop of `reactor.cc`, `Start` and `Stop` of `server.cc` | |
| `EventLoopProofs` | | theorems about `EventLoop` |
| `Connection` | an accepted connection of `connection.cc`, from `accept4` on, with the accept and the callback of `reactor.cc` and the threads that close it | relies on what `EventLoop` shows of tasks and dispatch |
| `ConnectionProofs` | | theorems about `Connection` |
| `Client` | `Connect` and `Disconnect` of `client.cc` with the loop's thread and the connecting half of `connection.cc` | |
| `ClientProofs` | | theorems about `Client` |
| `Framing` | the `OnMessage` of the TCP, RPC, HTTP, WebSocket and gRPC handlers, the `OnDataReceived` of the five client protocols, `token_bucket.cc` | relies on `Connection` for the byte stream |
| `FramingProofs` | | theorems about `Framing`: types, delivery of messages, rate limit |
| `OrderServer` | `apps/server/main.cc` over `reactor.cc`, `ddos_protection.cc` and the sending half of `connection.cc` | composes what `EventLoop`, `Connection` and `Framing` show |
| `OrderServerProofs` | | theorems about `OrderServer` |
| `ByteQueues` | what the library takes a buffer for | abstract specification |
| `Buffer` | `buffer.cc` over `buffer_pool.cc` | implements `ByteQueues`; `Connection` and `Framing` use the queue |
| `BufferProofs` | | theorems about `Buffer`, the refinement among them |
| `FileSink` | `sinks/file_sink.cc` | what `AsyncLogger` calls a sink, with its disk |
| `FileSinkProofs` | | theorems about `FileSink` |
| `MC...` | | model values for TLC |

Definitions keep the names of the code; `PROJECT.json` maps each to its lines.
Definitions introduced by a comment "Mutant:" are plausible bugs that no
specification uses: with one in place of the definition it follows the shape of,
TLC finds the property named for it in `PROJECT.json` violated.

### AsyncLogger

One step is one critical section of `queue_mutex_`, one lock-free access of
`running_`, or one notification. `prod[p]` says where a producer's call is:
before the mutex (`lock`), waiting (`wait`), notified but without the mutex
(`woken`), the same with a deadline (`...Timed`). Two things are finer than
critical sections because the code lets other threads in between:

* `Enqueue` reads `running_` before it locks, so `EnqueueBegin` and `Enqueue`
  are two steps;
* the worker evaluates the predicate of its `wait_for` and then falls asleep,
  still holding the mutex. Producers cannot get in between, `Shutdown` can,
  since it takes no mutex (`falling`).

`EnqueueWithTimeout` reads `overflow_policy_` twice; its third disjunct is the
case in which `SetOverflowPolicy` changes it in between. A deadline may pass at
any time, a condition variable may wake its waiter at any time. The sinks are
the sequence they have received. `completed` and `refused` are history
variables, which no guard reads.

What liveness can be asked for depends on who competes. A woken caller needs the
mutex and tests the predicate again (`async_logger.cc:128`); if others have taken
the place by then it sleeps again, and with producers that never stop this may go
on for ever for one of them, however fair the mutex is. So `CallsReturn` says no
more than the code gives: as long as the logger runs and somebody is in a call,
some call returns. It counts returned calls up to the bound, but its argument
does not use the bound: it is the worker that makes room, and `QueuedIsHandled`
says that it goes on. (That each blocked call returns holds in an instance with
finitely many calls, and is not claimed.)

### EventLoop

Descriptors are reused and handlers have identities that are not, so that a
dangling handler pointer is a mismatch between an event and `handlers_`. `Poll`
returns all ready descriptors in any order, level-triggered (`EpollPoller::Add`
drops `EPOLLET`), is interrupted, or fails. A wake-up is the two steps push and
write, `HandleRead` the three steps read, swap, and run. A connection's callback
may close its own connection and nothing else, which is all that callbacks in
this library do; its inside is the module `Connection`. The kernel may hand out
any free descriptor. `RunInLoop` on the loop's own thread just calls the task
and is not an action.

### Connection

The accept comes first: `SetSsl` begins the handshake at once, before the
connection is in `connections_`, its disconnect callback set and its descriptor
registered (`connection.cc:135`, `reactor.cc:89`). A handshake that fails there
closes the descriptor and nobody is told; `AddFd` of descriptor -1 fails, and
the loop hears no more of the connection (`AcceptedClosed`, `pc` =
`unregistered`).

The callback that `Reactor::RegisterServer` installs is a program counter over
its three parts, `EPOLLIN`, `EPOLLOUT`, `EPOLLHUP`, with flags that were sampled
when the event was reported; between the parts the peer and the kernel move.
`OnMessage` is any sequence of `Send`, `Shutdown` and `ForceClose`. Sent bytes
carry their message and position, so that `StreamIntact` sees losses,
repetitions and overtaking. A TLS write keeps, as OpenSSL does by default, the
identity of the buffer that has to be presented again (`retry`) and what of it
is already under way (`progress`). `Send` and `HandleWrite` present different
buffers, so a TLS write that met a full socket ends in an error and a closed
connection (`WriteFails`; `connection.cc:284`): the properties about output
count a closed connection among the ways it may end.

Other threads get hold of a connection once its handler has seen it (`known`).
They send through `RunInLoop`, but they close it themselves: a context's `Close`
calls `ForceClose` on the thread it is called on. `HandleClose` takes no lock, so
each thread has a place in it (`closing`): past the test, with the state set and
the descriptor removed from the loop, after `close(2)`; then `fd_` becomes -1 and
the callback runs. `CloseIsWhole` has two parts: `NeverHalfClosed` holds for any
number of such threads, `ClosedOnce` as long as none of them has closed the
connection (`outsider`). `Shutdown`, whose test and assignment another thread's close may come between, is
two steps for the same reason.

### Client

The thread that calls `Connect` and `Disconnect` and the thread that runs the
loop each have a program counter, `caller` and `loop`; the loop's is the event
callback that `Connect` installs, with the flags sampled by `Poll`. Two orders
in the code are kept because they matter: the descriptor is registered before
`connect(2)`, and `state_` is set after it. A stream socket that was never
connected is reported writable and hung up, as Linux does (`SocketFlags`; the
callback does not tell `EPOLLERR` from `EPOLLHUP`, nor does the model).
`HandleClose` is three steps, since both threads may run it at once: state and
`RemoveFd`, `close(2)`, `fd_ = -1`. `resolutions` and `closes` count what happened to the
promise and the descriptor; a closed descriptor is one with `closes` above zero.

### Framing

One handler (or one client) with its connections. The frames of each peer are
chosen at the start, any number of bytes arrive at once, and one step is one
turn of the loop inside `OnMessage`. A byte is a pair of frame number and
position, so that what reaches the user's handler can be compared with what was
sent. Where a parser waits for all bytes of a field before it looks at any, one
byte stands for the field; the two-byte length prefix (`HeaderBytes`) is cut in
the middle. Bytes that are read as something they were not written as may say
anything (`HeaderAt`), which is how losing track of the stream is modelled.

The kinds of frames are what the parsers tell apart: `message`, `junk` (does
not parse, or is no request for an upgrade), `control` (another opcode or frame
type), `close`, `huge` (a length near 2^32), and for gRPC a DATA frame that holds
the first part of a message that is longer than a frame (`part`), the rest of
that one (`rest`), or two messages (`pair`). The sum `4 + length` of the RPC
handler is taken modulo `Wrap`, which stands for 2^32. Lengths over `MaxLength`
stand for those over 100 MB (1 GB for WebSocket), payloads of `LongSize` and more
for those whose length WebSocket writes in a second field.

Most parsers are correct only for some streams and some ways in which their
bytes arrive. `FittingArrival` says for each protocol which, and `disorder`
counts the events from the first other one on. `MessagesDelivered` is stated for
the TCP handler and the RPC client whatever arrives (`AnyArrival`), for the others
while `disorder` is 0; the properties about types and the rate for all states.
After the first event that does not fit, at most `MaxDisorder` are followed.

What does not fit is not thereby right. Four of the streams that
`MessagesDelivered` excepts are ones that documents, comments or responses of the
code promise to serve. The module models what the code does with them; no property
about them holds, and no run checks one:

* **gRPC** (`grpc_handler.cc:47`): each DATA frame is decoded from a buffer of its
  own. A message over several frames is never delivered: its first part is dropped
  and the rest is read as a message that begins in its middle. Of two messages in
  one frame the second is lost. `grpc_codec.cc:40` says "Wait for full payload",
  `grpc_codec.h:37` "false if more data needed", and `CONFIGURATION.md:33-35`
  offers messages of up to 100 MB.
* **WebSocket** (`websocket_handler.cc:80`): the upgrade flag belongs to the
  handler, so a connection that is accepted takes back the upgrade of the others,
  whose frames stay in their buffers from then on. `CONFIGURATION.md:160-183`
  configures a server for a "massive number of idle connections".
* **HTTP** (`http_handler.cc:171`): nothing takes a context back from `kDone`, so
  one request per connection is served, and a later arrival serves it again.
  `http_handler.cc:22` and `:42` answer "Connection: keep-alive", and the
  project's client asks for it (`http_protocol.h:39`).
* **TCP client** (`tcp_protocol.h:37`): dropping the buffer drops the beginning of
  frames whose rest is yet to come, and what comes is read as lengths and
  payloads. The line before it says "clear buffer to recover".

Of the rest no document of the repository says more than the code does; they are
conditions of `MessagesDelivered` only, so it does not catch them:

* **WebSocket** (`frame_parser.cc:23`, `websocket_handler.cc:80`): the parser
  remembers its state when bytes are missing, but the handler retrieves nothing
  and passes the same bytes again, which are then read as the next field. A
  frame must arrive whole, and what arrives together with the upgrade request
  waits for the next arrival.
* **RPC** (`rpc_handler.cc:69`): a length near 2^32 wraps, and the handler goes
  on in the middle of the frame.
* **HTTP client** (`http_protocol.h:60`): the body is what has arrived.
* **WebSocket client** (`websocket_protocol.h:60`): one frame per arrival, and
  lengths above 125 are not decoded; what arrives with the status line is dropped.

### OrderServer

Three threads. The loop thread accepts, reads, runs the request handler one
request at a time, and runs posted tasks; the publisher thread takes its mutex
and writes a tick to each subscribed context; the main thread starts the
publisher, waits for the loop to end, and stops it. A context holds its
connection weakly, a posted task strongly: `Alive` says when `conn_.lock()`
succeeds, and `held` is the reference a publisher has between `lock` and
`Send`. `Connection` objects are not reused, descriptors are, lowest first as
the kernel gives them; `sockets` is the kernel's view and decides who receives.
Messages name the connection they were written for, so that `RightPeer` sees a
tick that reaches the next owner of a descriptor.

`DisconnectCallback` is literal: it erases the entry of `c->Fd()`, which is -1
by then. The registry therefore keeps closed connections until their number is
reused, and with them their output buffers, to which ticks are still appended;
and the gauge overstates. `RegistryCovers` is the half that holds: no open
connection is lost, and the gauge does not understate. `conn_counts_` never
falls, so an address is refused for good after `max_conn_per_ip` connections.
The rate limiter may drop any request; a dropped request counts as done in
`NobodyWaitsForever`, which is about threads and requests that are under way and
promises no response to what the limiter drops. Requests arrive whole here;
their bytes are the subject of `Framing`.

### Buffer

One operation is one step: a buffer belongs to one thread, and each operation of
the pool holds its mutex throughout. Bytes are numbered as they are appended, so
that `ByteQueues` sees one that is lost, repeated or left over from a former
owner. A vector is its contents and its capacity; in the pool only the capacity
is kept, since `Acquire` clears what it hands out. Growth is that of
`std::vector` (doubling, or more if needed). `need` is a history variable: the
most that a buffer was asked for or had to hold. Callers are assumed to retrieve
no more than is readable, which the code asserts.

A pooled vector comes back with size 0, however large its capacity
(`buffer_pool.cc:17`), so the first `Append` after reuse always goes through
`MakeSpace`; a pooled vector that is too small is dropped, not put back
(`:20`). Neither breaks the queue.

### FileSink

File 0 is `path_`, file *n* the backup with suffix *n*. An entry is a number and
has a length out of `Sizes`; `ends` is the offset in its file at which it ends,
from which `file_size` is taken and against which `current_size_` is judged.
What was written is in the stream's buffer (`buffered`) or in the file
(`disk`), and how much is flushed early is arbitrary. `Rotate` is one step for
each of its calls, `close`, `remove`, each `rename`, `Open`; each may throw, upon
which the code goes on at `Open` (`Throws`), and the process may die before each
(`Crash`). The next process finds the files as they are and may have another
`max_backups`. `Open` may fail, after which entries are counted but not written,
and `file_size` may throw after it has opened the file. Errors of the stream,
which the code never looks at, are left out; so are two sinks on one path.

What the properties say about the code: `Write` tests the size before it knows how
long the entry is (`file_sink.cc:20`), so `rotation_size` is where a file stops
growing and not its maximum; `FilesBounded` says that every entry but the last of
a file ends below it. A process that dies
between two renames leaves a gap that later rotations do not close, so that each
such death may cost one backup (`BackupsKept`); lowering `max_backups` leaves
files that nothing removes any more and that are then older than what is removed
(`OnlyOldestLost`); with `max_backups` 0 one backup is kept all the same.

## 3. Runs

| run | instance | result |
|---|---|---|
| `async_logger` | 2 producers, 2 calls each, queue of 2, batches of 1, all policies | 51,325 states, all properties hold |
| `async_logger_enqueue_returns` | `BLOCK`, queue of 1 | `EnqueueReturns` is violated |
| `async_logger_nothing_left_behind` | `BLOCK`, queue of 1 | `NothingLeftBehind` is violated |
| `event_loop` | 2 posters, 2 tasks, 3 connections on 2 descriptors | 381,049 states, all properties hold |
| `event_loop_stop` | 1 poster, 1 task, 1 connection | `StopStops` is violated |
| `connection` | 3 messages of 2 bytes, socket of 3 bytes, plain and TLS, one other thread that closes | 703,863 states, all properties hold |
| `client` | 2 attempts, stream and datagram sockets | 6,559 states, all properties hold |
| `framing` | 2 connections with 3 frames and 1, payloads of 0, 2 and 3 bytes, 10 protocols, with and without rate limit | 3,718,344 states, all properties hold |
| `order_server` | 2 connections of one address or two, 2 descriptors, 4 scripts of requests, 2 ticks | 358,921 states, all properties hold |
| `buffer` | 2 buffers, a pool of 1 vector, sizes 1 and 2, appends of up to 3 bytes, 6 bytes | 205,626 states, all properties hold |
| `file_sink` | 5 entries of length 1 or 3, rotation size 2, `max_backups` 0, 1 or 3, up to 2 deaths in `Rotate` | 5,141,443 states, all properties hold |
| `client_reported` | 1 attempt, stream socket | `ReportedConnectionWorks` is violated |

Why the bounds are enough to be interesting. Logger: four entries against a
queue of two make the queue overflow with both producers blocked, batches
smaller than the queue leave something for Shutdown's drain, and one `notify_all`
wakes two callers for one place. Loop: three connections on two descriptors
force reuse of a number within a batch; two posters interleave their two-step
posts. Connection: a socket of three bytes cuts the second message in half, the
third then meets a non-empty output buffer; one other thread can be at any place
of `HandleClose` while the loop is at any place of its callback. Client: the second attempt meets
every way the first can have ended. Framing: three frames let one arrive in
pieces between two others; a payload of three exceeds `MaxLength`, one of two
needs WebSocket's second length and one of zero has none; a preface, the first
part of a message and its rest are a split message; the second connection
is accepted in the middle of the first one's frames, and with a bucket of one
token the two compete for it before and after a tick. Order server: one of the
scripts subscribes twice, one has two connections subscribe, and one has a
client choose an id that is also generated; with one connection per address,
connections of one address meet the refusal and those of two the reuse of a
descriptor while ticks for its former owner are posted. Buffer: an append of
three bytes to a vector of one or two that was partly read meets growth and
compaction, and one pooled vector is too small for one request and large enough
for another. File sink: an entry of three fills a file by itself, two of one fill it together,
and one of three after one of one exceeds it; five entries can be four rotations,
so that with three backups the oldest is removed; two deaths can hit the same
rotation twice. Deadlock checking is on for `buffer`, whose objects can always
be destroyed and made again, and off for the others, which may stop for good:
bounded inputs run out.

Properties that belong together are checked as one, with the parts named in the
modules: `WorkGoesOn`, `MessagesDelivered`, `MarketDataInOrder`,
`NobodyWaitsForever`, `RetentionHeld`.

Fairness:

* Logger: the worker and the thread in `Shutdown` run (weak fairness).
  Producers get strong fairness for taking `queue_mutex_`, since they compete
  with a worker that takes and releases it again and again; the mutex of the
  platform does not starve a waiter for ever. Nobody has to log, change the
  policy or shut down.
* Loop: the loop thread runs, a poster between push and wake-up goes on, a
  thread inside `Stop` goes on. Nothing makes `epoll_wait` be interrupted or
  fail, a peer act, or `Stop` be called.
* Connection: the loop thread runs; a posted `Send` runs if the loop is between
  callbacks again and again (strong fairness: `TaskRuns` of `EventLoop` is the
  reason, the eventfd is one descriptor of every batch); a thread inside
  `HandleClose` goes on; the peer reads. No thread has to close.
  Liveness is relative to a peer that reads, as `OutputDrains` says.
* Client: both threads run, and the network answers a connection request, at the
  latest by its timeout. Nobody has to call `Connect` or `Disconnect`, and no
  peer has to close. `AttemptEnds` leaves out a peer that closes as soon as it
  has accepted, for which `Connect` can in fact wait for ever.
* Order server: the three threads run (weak fairness). Requests and ticks are
  bounded here; with an endless supply of ticks `SubscribeReturns` would also
  need a mutex that does not starve the loop's thread, as in the logger, where
  the publisher's sleep of 100 ms makes that a mild demand. No peer has to ask
  or to close, and the loop does not have to end.

## 4. What the violations show

1. **Callers blocked at shutdown stay blocked** (`async_logger.cc:57`).
   `Shutdown` notifies `queue_cv_` but not `space_cv_`. The predicate of a
   blocked `Enqueue` tests `!running_`, but nobody wakes it to test it.
2. **An accepted entry can be lost at shutdown** (`async_logger.cc:85`).
   `running_` is tested before the mutex; the push may come after the drain.
   `Enqueue` returned true.
3. **A stop request can be lost** (`event_loop.cc:113`). `Run` sets `running_`
   on its own thread; a `Stop` before that is overwritten, and the join in
   `Server::Stop` does not return. `StopOfRunningLoop`, which leaves out that
   window, holds.
4. **Connect reports a connection that it then closes** (`client.cc:115`). The
   loop samples the flags of the unconnected socket, `OUT` and `HUP`; by the time
   it handles them the state is `kConnecting`, `SO_ERROR` is 0, the promise
   becomes true, and `HUP` closes the connection.

Two more disagreements are visible in the models, but no run is spent on them; the
properties name them as exceptions:

* **A descriptor can be closed twice** (`connection.cc:309`). The test with which
  `HandleClose` begins and the assignment that should "prevent double close" are
  not one step, and a context's `Close` on another thread can be between them when
  the loop finds the peer gone. `close(2)` is then called twice on a number that
  may have a new owner, and the callback runs twice. `ClosedOnce` is stated for as
  long as no other thread has closed the connection; without `~outsider` TLC finds
  it violated.
* **Streams that a document promises to serve are not served**: the four of
  section 2 (Framing).

## 5. Theorems

All but the two refinements (`Refinement`, `LoggerImplementsLog`) are of the form
`Spec => []P`, all without fairness and without bounds on the constants other than
their `ConstantsAssumption`, except for two: sizes are positive naturals, 0 allowed
where the code allows it; descriptors are finitely many, and in the event loop none
of a connection is the eventfd or the listening socket. `AcceptedOrdersKept` has one
hypothesis more, `AnyId`: every positive number is an order id. That is so in the
code, whose map takes any; the instance that TLC checks has fewer.

* **Logger** (`AsyncLoggerProofs`). `TypeCorrect` first. `Inv` adds the life
  cycle to the bounds and the accounting: `Lifecycle` says that the drain comes
  after the worker's exit, that sinks are cleared last, and that `batch` and
  `remaining` are empty except where their thread is working on them. Without it
  `ProcessedIsWritten` is not inductive (a worker could still hold a batch when
  the sinks are gone), and neither is the accounting (a non-empty `batch` would
  be overwritten by `Collect`). `Invariance` proves `Inv`; `QueueStaysBounded`,
  `StatisticsAlwaysAddUp` and `ProcessedAlwaysWritten` follow.
  `PerThreadOrderHolds` needs `LogIsFresh` too: no entry in the log is younger
  than the call its thread is making. The heart is that every step either leaves
  `written \o Pending` alone, drops one entry of it, or appends the entry of the
  current call; for that, `batch` or `remaining` must be empty when entries move
  past them, which `Lifecycle` gives. The algebra of sequences that this takes
  is in two lemmas, `EntryConcat` and `ConcatAppend` (`TaskConcat` in the
  event loop's proofs), so that no leaf reasons about concatenation and state
  at once. `LoggerImplementsLog` maps the abstract log's pending entries to
  `batch \o remaining \o queue_`: a push accepts (in place of the oldest, or of
  itself, where the policy discards), handing a batch to the sinks delivers from
  the front because nothing is ahead of it, and everything else moves entries
  within `Pending` without changing it.
* **Event loop** (`EventLoopProofs`). `NoWakeupIsLost` is inductive with the
  types. `NoEventIsStale` needs that a batch reports each descriptor once: a
  callback that closes its own connection removes the only event of that
  descriptor, and an accept takes a descriptor without handler, for which no
  event is left. `TasksStayInOrder` needs that `tasks` is empty when the pending
  tasks are swapped in, and that a thread's tasks are numbered up to what it has
  posted.
* **Connection** (`ConnectionProofs`). `StreamIntact` says that received, socketed
  and unsent bytes are together what was sent. A write takes any number of bytes
  from the front of the unsent ones, so the lemmas about cutting sequences
  (`CutIsWhole`, `SuffixOfConcat`, `SuffixOfSuffix`) carry it; what they need of the
  state is `Within`: an unfinished TLS write has no more under way than the output
  buffer holds. `FlushArmed` is inductive with the types, since `EPOLLOUT` is taken
  back only where the buffer was found empty. `NeverLeftHalfClosed` is for any set of
  closing threads and needs `Accounted`: a thread that has taken the descriptor from
  the loop (`Removing`) goes on to close it; a descriptor that is forgotten was closed
  and reported, or its accept never set a callback; and a connection that is
  `kDisconnected`, or not registered though past its accept, is closed or has such a
  thread. `ClosesOnce` needs `Alone`, which holds until another thread has closed and
  ties the counts to the place in `HandleClose`: past the test the state is not yet
  set, after `close(2)` and before the report the count is one and `fd_` still open,
  and nothing sets the state back, also when the handshake failed inside `SetSsl`.
  `ClosesWhole` joins the two.
* **Client** (`ClientProofs`). Two threads without a lock; each conjunct of `Inv` says
  what one may rely on of the other. `Untouched`: before `connect(2)` there is
  nothing to close. `DatagramIsQuiet`: the loop never closes a datagram socket nor
  sets its promise, which `Connect` sets itself. `Unresolved`: a promise is unset in
  `kConnecting`, up to the error that is about to close the connection, so that the
  late flags of an unconnected socket cannot set it twice. `SomebodyCloses`: a
  connection that is `kDisconnected` is closed or a thread is past the test and
  will close it, which is why `Disconnect` may do nothing and `DisconnectCloses`
  (through `StoppedIsClosing`) still holds after the join.
* **Order server** (`OrderServerProofs`). `RightPeer` and `RegistryCovers` rest
  on `Agrees`: for every open connection, the kernel's socket and the registry's
  entry under its descriptor are its own. Hence no two open connections have one
  descriptor, the map from open connections to registry entries is injective
  (`OpenAreRegistered`), and the gauge, which is set to one less than the size of
  the registry when one of them closes, still covers the others (`Gauge`). A tick
  for a closed connection finds descriptor -1 and is not sent (`SendsToOwner`),
  which is why reuse of its number does no harm. `Busy` and `Locked` say that the
  loop's thread is in a request that its script has and that the publisher writes
  only with its mutex; the types need them. One lemma for each group of actions
  shows that `Inv` is kept, and `Invariance` collects them. `OrdersKept` needs
  `Ledger`: an id that was answered is below `id_counter_`, so that `GenerateId`
  does not give it again, and only ticks are posted, so that a response is sent
  where its order is placed. `MarketDataInOrder` needs an account of the copies of
  each tick. A connection is owed (`Owed`) what it got and what is posted for it;
  the publisher has been through the first `Due(t)` subscriptions with tick `t`.
  `Bounded`: nobody is owed more than its subscriptions among those; `Level`: an
  open connection is owed no less, and of no later tick less than of an earlier
  one; `SubsAcked`: at most the subscription being made is not acknowledged; and
  the loop's thread, which makes it, is also the one that delivers posted ticks.
  `Posting` and `Arriving` carry the order through the queue of tasks. Counting is
  by the cardinality of sets of positions (`CountNext`, `CountAppend`, `CountTail`).
* **Rate limit** (`FramingProofs`). `RateHeld` bounds what was admitted by the
  clock, but tokens are added when a request asks, not when time passes.
  `BucketInv` therefore counts up to `last_refill_`: tokens and admitted requests
  together are at most the capacity and what the rate gave until then, and tokens
  and the requests admitted since the last tick at most the capacity.
  `ConsumeKeeps` shows it for `Consume`, `HandlersConsume` that every handler
  touches the bucket through nothing else.
* **Messages** (`FramingProofs`). The bytes of a stream are the concatenation of its
  frames, `FlattenSeq`, which is recursive, and the library's induction theorems
  cannot be used. But a set of natural numbers has a least element because finite
  sets are well-founded (`LeastOf`), which gives induction for sets
  (`InductionOn`), and with it `StreamIsWhole`: in a stream each byte is followed
  by the rest of its frame and then by the next frame (`Follows`). What is left of
  such a stream when bytes are retrieved is such a stream (`WholeDrops`), and no
  other fact about streams is needed. `TypeCorrect` has it in its invariant
  (`Streaming`), since a header that is read has a type only if its byte names a
  frame. `FittingMessagesDelivered` proves `MessagesDelivered`: for the TCP handler and
  the RPC client for every stream and every cut (`AnyFits`: no event of theirs counts
  as disorder), for the other protocols for what fits them, which is said in section
  2 and is not all that they are used for. The invariant is `OrderInv`, for each
  connection as long as `disorder` is 0: `Plain`, that what has arrived is of the
  kinds that fit (for gRPC no parts and no pairs of messages, `PlainStays`);
  `Parsing`, where the protocol's parser stands (`Place`
  is the first byte that is not retrieved; for HTTP/2, for instance, it is behind
  the header of the frame whose header the session keeps, or, if that frame has no
  payload, already at the next one); `Intact`, that the payloads handed on are those
  of the messages among the frames passed that were not refused (`Served`); `Waits`,
  that between calls the buffer lacks at least a byte of its frame; and `Fresh`, that
  nothing has happened before a connection is accepted. There is one lemma per
  handler (`PrefixedKeeps` for the five with a length prefix, `GrpcKeeps`,
  `HttpKeeps`, `WebSocketKeeps`, `HttpClientKeeps`, `WebSocketClientKeeps`): a turn
  serves the frame at the place, or nothing. `OthersKept` is for the other
  connections of the handler, which share the WebSocket parser and upgrade flag;
  `ArrivalParses` shows that `FittingArrival` is what each parser needs.

* **Buffers** (`BufferProofs`). The work is in lemmas about single vectors:
  `ResizeKeeps` and `CompactKeeps` leave the readable bytes as they are,
  `EnsureKeeps` makes the room that the assertion in `HasWritten` needs,
  `CopyInAppends` and `AppendKeeps` put the new bytes behind them, and
  `RetrieveTakes` removes as many as asked for. With them `TypeOK`, which
  includes the order of the indices, is inductive by itself, and
  `GrowthBounded` with it: `MakeSpace` resizes only when unread and new bytes
  together exceed the vector, so the vector is at most twice as long as they are.
  `Refinement` (`Spec => ImplementsQueues`) shows that every step of `Buffer` is
  one of `ByteQueues` on the readable bytes; it needs no more than `TypeOK`.
* **Log file** (`FileSinkProofs`). `BackupsInOrder` and `OnlyOldestLost` are not
  inductive: in the middle of a rotation it matters which files are empty.
  `Vacated` says that the target of the next rename is empty once the loop has
  begun, so that a rename overwrites nothing; `NoneAbove` that no file lies beyond
  `max_backups` (unless it was lowered), so that what `RemoveOldest` removes is the
  oldest; `Bounded` that entries are numbered up to the counter, so that what
  `Write` adds is the youngest. `RemoveKeeps`, `RenameKeeps`, `PutKeeps` show on
  files alone what a call does to the order, `Invariance` puts them together,
  with failures and deaths at every step. `RetentionHeld` needs two counts.
  `Sized`: without failures `current_size_` is where the newest entry of file and
  buffer together ends (`End(Written)`), also after a restart, and none of them ends
  later (`NoneEndsLater`); so when `Write` finds it below `rotation_size_`, all end
  below it, and the entry it adds is the last that need not. `EndIsNat` and
  `NewestExists` show that there is a newest. `Counted`: no suffix
  exceeds the number of backups by more than the gaps, one for each death and one
  for the rename under way; so if the suffix `max_backups` is in use, which is when
  a rotation removes a file, there are enough backups to lose one.

Only model-checked: the liveness properties (`WorkGoesOn`, `ShutdownReturns`,
`TaskRuns`, `StopOfRunningLoop`, `PeerCloseIsNoticed`, `OutputDrains`, `AttemptEnds`,
`NobodyWaitsForever`), since fairness and `ENABLED` are out of the prover's reach.

## 6. Not modelled

Undefined behaviour of plain members shared between threads (`EventLoop::running_`
and `thread_id_`, `handlers_` under `Client::Disconnect`, `state_` and `fd_`) is
modelled as if each access were atomic. Memory reclamation other than of
handlers and connections, allocation failure, and the death of the process by
SIGPIPE (no code ignores it) are left out. A number that is closed twice
(`ClosedOnce`; `Client` counts it in `closes` without a property) is not followed
into the connection that may own it by then. Of a connection also left out are a
context's `Shutdown` on other threads, and what stays behind of one whose
handshake failed in its accept: its callback never runs, so its registry entry
and its share of the gauge remain. Bytes that come with the last of the handshake
inside `SetSsl` are read there and wait until more arrive, which no property is
about. `PROJECT.json` gives the reason for
every component that is not modelled or only partly; in short:

* *constructed or called by nothing*: `CircuitBreaker`, `ConfigHotReload`,
  `Server::ReloadConfig`, `DdosProtection::AllowRequest`,
  `OrderManager::CancelOrder`, the object pool, the io_uring poller;
* *no state, or no control that depends on it*: UDP and QUIC handlers, protocol
  factories, metrics, tracing, `Result`, the data an HTTP/2 stream collects;
* *formats*: configuration files, log layout, HPACK, certificates, what the
  protocols write;
* *raw mode* of the TCP handler, which passes on what has arrived;
* *other applications*: load generators and examples.

The largest part of the implementation by lines, the vendored `json.hpp` of
25,712 lines out of 35,111, is third-party code.

## 7. Plan

All modules of the plan exist; `CircuitBreaker` is the part with the most
interesting interleavings among those that nothing uses, and comes next should
the library begin to construct one. Every safety property that a run checks is
proved, for every value of the constants that the named assumptions allow;
liveness is left to TLC.
