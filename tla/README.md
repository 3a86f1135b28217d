# A verification of MyMuduoDemo in TLA+

MyMuduoDemo is a small reactor-style TCP server in C++: event loops over epoll,
one loop per thread, a TCP server with an optional pool of I/O loops, an HTTP
request parser on top, and an asynchronous logger beside it. This directory
holds TLA+ modules for the parts in which something can go wrong between two
steps, TLC configurations that check them on small instances, and proofs that
hold for every instance. `PROJECT.json` maps each definition to the lines it
models and lists runs, theorems, hazards and findings.

## 1. The system

| component | state | operations | talks to |
|---|---|---|---|
| `EventLoop` | `quit_flag_`, `calling_pend_functors_flag_`, `wakeup_fd_`, `active_channel_list_`, `pending_functors_` (under `mutex_`) | `Loop`, `Quit`, `RunInLoop`, `QueueInLoop`, `Wakeup`, `DoPendingFunctors`, channel table | any thread (functors); its `EpollPoller`; channels (callbacks) |
| `Channel`, `EpollPoller` | fd, events, `event_handling_`, `run_in_loop_flag_`; `channels_map_`, the epoll set | `HandleEvent`; `Poll`, `AddChannel`, `RemoveChannel`, `ModifyChannel` | kernel; owner by callbacks bound to raw `this` |
| `Acceptor` | listening socket, `idlefd_` | `HandleReadEvent` | kernel; `TcpServer::HandleConnection` |
| `TcpServer` | `connection_map_`, pool | `HandleConnection`, `RemoveConnection(InLoop)` | `EventLoopThreadPool::NextLoop`, functors to I/O loops |
| `TcpConnection` | `state_`, socket, channel, two `Buffer`s | `ConnectionEstablished`, `HandleRead/Write/Close/Error`, `Send`, `Shutdown`, `StartRead/StopRead` | its loop; server (close callback); user (message callback) |
| `EventLoopThreadPool` | `loops_pool_`, `threads_pool_`, `next_` | `Start`, `ThreadFunc`, `NextLoop`, destructor | one `EventLoop` per thread |
| `AsyncLogging`, `LogFile` | `current_buffer_`, `buffers_vector_`, `running_flag_`, two condition variables; a `FILE` | constructor, `Append`, `ThreadFunc`, destructor | all threads that log |
| `Buffer` | vector, `read_index_`, `write_index_` | `ReadFd`, `ReadByLine`, `Append`, `WriteFd` | socket, parser |
| `HttpRequest`, `HttpServer` | `parse_state_`, `method_`, ... of a `thread_local` object | `HandleMessage`, `ParseRequest` | connection's input buffer |
| `CircularBuffer` | vector, two indices that wrap | `Append`, `ReadBytesBy`, `ParseLine`, `ReadFd` | nobody yet |
| `TimerSchedule`, `Timer`, `Timestamp` | a heap of timers | `AddTimer`, `HandleTimer` | its channel is commented out in `EventLoop::Init` |
| `Logger`, `LogStream` | a `FixedBuffer` of `kSmallBuffer` bytes per LOG statement | constructor (header), `operator<<`, destructor | `AsyncLogging::Append` |
| `HttpResponse`, `Echo`, `main` | formatting and wiring | | |

What is hard here: hand-over between threads through a queue and an eventfd
that are not updated together; objects owned by `shared_ptr` but called through
raw pointers, some of them from inside themselves; the lock-free reads of
`loops_pool_`; condition variables waited on without a predicate; input that
arrives in any pieces; indices at the end of a buffer; a send that takes a part
of the data or fails; calls on a connection that another thread is closing. What
makes each part correct:

- **loop**: every functor is run once, in order, and no wakeup and no quit is lost;
- **server**: a connection is released only after it was taken out of its loop,
  the tables agree, requests are answered and descriptors come back;
- **output**: the calls of a thread take effect in its order, a Shutdown ends the
  stream, a closed connection stays closed;
- **pool**: loops are handed out evenly and in range, the destructor returns;
- **logger**: each line reaches the file once, in order;
- **parser**: a complete request is recognised, an incomplete one is not;
- **circular buffer**: it is a queue of bytes.

## 2. The modules

| module | models |
|---|---|
| `EventLoop` | one loop, its thread, its callers. Implements `TaskQueue` |
| `TaskQueue` | what callers are promised: a FIFO that takes functors at any time and runs them while open |
| `TcpServer` | Acceptor, TcpServer, TcpConnection, Channel, EpollPoller over one or more loops. Implements `ConnectionLife` |
| `ConnectionLife` | the phases of a connection as seen from outside |
| `ConnectionOutput` | `SendInLoop`, `Shutdown`, `StartRead`, `StopRead` of an established connection, called by its loop and by other threads; the output `Buffer` |
| `EventLoopThreadPool` | the pool, its owner, its threads |
| `LogStream` | what a LOG statement's pieces make of a line (operators only) |
| `AsyncLogging` | the logger, its owner, the appending threads, the writer; the lines are `LogStream`'s |
| `HttpRequest` | `ReadFd`, `ReadByLine` and `ParseRequest` over a thread's successive connections |
| `CircularBuffer` | the circular buffer. Implements `ByteQueue` |
| `ByteQueue` | a queue of bytes out of which lines may be taken |
| `EventLoopProofs`, `TcpServerProofs`, `EventLoopThreadPoolProofs`, `ConnectionOutputProofs`, `AsyncLoggingProofs`, `HttpRequestProofs`, `CircularBufferProofs` | theorems about the module each is named for, and their proofs |
| `LogStreamProofs` | lemmas about `LogStream`'s operators, which `AsyncLoggingProofs` uses |
| `MC*` | values of the constants for TLC |

The models fit together like the program does. `TcpServer` takes from
`EventLoop` that a loop's functors are a FIFO its thread will look at
(`ImplementsTaskQueue`, `NoLostWakeup`, `DueTaskRuns`); so does
`ConnectionOutput`, which looks at one of `TcpServer`'s connections between
`ConnectionEstablished` and its end. `AsyncLogging` extends `LogStream`.
`EventLoopThreadPool` takes `QuitReturns` from `EventLoop`. `HttpRequest` is what
the message callback of `TcpServer`'s `HandleRequest` does.

### State and actions against the code

*EventLoop.* `loopPc` walks through `Loop()`: test of `quit_flag_`, `epoll_wait`,
the handlers, the swap, the batch. A call from another thread is two actions,
since the code pushes (or sets the flag) under the mutex and writes the eventfd
after it: `QueueFromCaller` or `Quit`, then `Wakeup`. `readable` is whether the
eventfd's counter is above 0. `calling_pend_functors_flag_` is neither
initialised nor ever set by the code: `Init` lets it have either value. The
loop thread itself calls in from handlers and functors (`InCallback`). A handler
is otherwise only a moment at which the loop thread may call in.

*TcpServer.* Objects exist as long as somebody refers to them, so the model
keeps the holders (`connMap`, `queue`, `batch`, the handler's stack `held`,
`chanMap`) and derives `Alive` and `ChannelAlive`; the descriptor is free when
the connection is not `Alive`. A batch is destroyed as a whole (`EndBatch`), as
the local vector is. `HandleEvent` is cut where other threads can come between:
`BeginEvent`, one of `HandleRequest`, `HandleEndOfInput`, `HandleError` (each
with the whole of `HandleClose`), `DropReferences`, `EndEvent`. Using a destroyed
object is `UseDestroyed`: it goes on, or everything stops. `RunInLoop` is
inlined as in the code: on the spot in the own thread, else an entry of the
queue. `Poll` returns any of the ready channels that fill `events_`, or all of
them if they do not, and doubles `events_` (`capacity`) when it was filled; the
eventfd takes one of the places.

*ConnectionOutput.* A call from another thread is two or three steps: the test of
`state_` in that thread (`SendFromUser`, `ShutdownFromUser`), for `Shutdown` the
assignment of `kDisconnecting` (`SetDisconnecting`), and the push of the functor
(`QueueInLoop`), kept meanwhile in `call[u]`; `HandleClose` may come between any of them.
In the loop's own thread it is one step. `watch` is `watch_events_` of the channel,
which nothing passes on to the epoll (no caller calls `UpdateChannel`); `readFlag` may begin
with either value, as no constructor sets it. `stream` is the kernel's side: open,
ended by us, reset by the peer, or broken, on which a `send` raises SIGPIPE
(`process = "killed"`). `buffer` keeps the indices as `Append` does, which moves
none. `HandleWrite` is no action: it runs on EPOLLOUT only, for which the code
never asks; `NeverWriting` shows it. The functors hold a raw `this` and a raw data
pointer; that both live until the functor has run, and `SendInLoop`'s assertion
of `kConnected`, are taken from the callers.

*EventLoopThreadPool.* Registration is `Lock` and `Register`, so that the
unlocked reads of `NextLoop` and of the destructor can fall between them. Those
reads are a data race: `TakeRaced`, `AdvanceRaced` and `Die` are its outcomes,
and `raced` remembers that it happened.

*AsyncLogging.* `Append` is one action, because it holds `mutex_` throughout. The
writer's lock/wait/take is one of `LockAndTake`, `LockAndWait`, then
`WakeNotified` or `WakeTimeout`. `fwrite` may pass any prefix of what it holds on;
`Flush` all of it. A write may also fail (`FailedWrite`) and pass a prefix on, keep
what follows it up to some line and drop the rest, since C leaves open what
stays in the `FILE`: `LogFile::Append` then gives up this buffer and the writer
goes on with the next. `lost` remembers what was dropped.

*LogStream.* A statement is its header and its pieces, each with a length; `Put`
is `operator<<`: text goes straight to `FixedBuffer::Append`, a number is tested for room
first. `AsyncLogging` derives each line (`Logged`, `Length`) from its `Statement`.

*HttpRequest.* Bytes are counted in items, and a message may end after any of them:
CR, LF, and the pieces of text between which a cut makes a difference. A method is one
or two pieces (a cut inside `GET` leaves `GE` in `method_`), a header field its name, its
colon and its value. `HEAD` stands for every method but GET and POST. A field without a
value, sent so or cut off behind its colon, makes `substr` throw, which nobody catches
(`pc = "terminated"`). `ReadFd` keeps the code's `write_index_`, which does not move past the first
size of the buffer. `LineOk(e)` is `ReadByLine` for a line that ends at `e`, `ReadLine` one
pass of `ParseRequest`'s loop. A search that starts behind its end is undefined
behaviour (`ReadPastEnd`): it only reads and copies, so it ends the process, or the loop goes on over
whatever lies there, perhaps a blank line, and leaves the parser as that makes it to the
next connection; what it returned is not known (`pc = "undefined"`).

*CircularBuffer.* Bytes in an array of `size`, with the two indices and the
arithmetic of the code; `Resized` and `Written` are its `resize`/`memcpy` pairs.

## 3. The runs

| run | instance | question, and what it shows |
|---|---|---|
| `event_loop` | 2 callers, 3 functors | Conservation, no lost wakeup, no lost quit, refinement of `TaskQueue`, and three liveness properties. All hold, for either value of the uninitialised flag |
| `server` | 3 clients, 2 descriptors, `events_` of one entry at first; no pool (what `main.cc` starts) or one I/O thread | callbacks find their connection alive, `~Channel`'s asserts hold, tables and states agree, the map holds each open connection and a closed one only until its queued removal runs, a request is answered only while connected, `ConnectionLife` is implemented |
| `server_live` | 2 clients; no pool or 2 I/O loops | requests are answered, descriptors come back |
| `server_lifetime` | 2 clients, no pool | **violated**: see findings |
| `server_names` | 3 clients, 2 of one name | **violated**: see findings |
| `output` | 2 threads and the loop, sends of twice the buffer, 3 calls under way | write events are never asked for; `read_flag_` agrees with the channel once set; a thread's Shutdown does not overtake its sends; a closed connection stays closed but for a Shutdown that tested before; Shutdown ends the stream |
| `output_assert` | 1 thread | **violated**: see findings |
| `thread_pool` | 0 to 3 threads, at most 3 takes of a loop between two registrations | round robin is even and in range except after a race; the destructor returns if registration followed creation and all loops run |
| `logging` | 4 statements, one with a piece that does not fit; buffers of two short lines or one long one; 1 failing write | lines are in one place and in order, only a piece without room is missing from one, nothing is lost half-way, lines reach the file or are dropped by the failure, constructor and destructor return |
| `http_request` | 9 requests, shorter than, equal to and longer than the buffer, cut at every item: inside the method, a field, a CRLF; GETs, one with an empty field, one behind a stray CRLF, two in one message, a POST, another method | whether a whole GET is good depends only on the thread's first line, and on a new parser it is; a first good request is complete; parsing ends |
| `http_complete` | the same, less what follows undefined behaviour | **violated**: see findings |
| `circular_buffer` | 3 bytes growing to 7 or 8, appends of 1 or 2 | refinement of `ByteQueue` at all positions of the indices |

### Bounds, and why they are enough

For the safety properties and refinements of the passing runs none of these bounds
matters: section 4 has theorems without them. They matter to the liveness
properties, and to showing that the cases the properties speak of happen.

- `EventLoop`: two callers are needed for a wakeup to be swallowed on behalf of
  another; three functors allow one in the batch, one in the vector, one on its
  way.
- `TcpServer`: three clients for two descriptors make the acceptor run out of
  them, a descriptor get reused while the earlier user is being forgotten, and
  a batch hold functors of two connections. A client connects once; as the
  server closes after one read, more would repeat this. Two loops show every
  interleaving of accepting and I/O; a third adds nothing the two I/O loops share
  but the base queue, which `server_live` has. The pool is a variable that `Init` chooses from
  `Pools`, so one run covers both ways of starting the server. At most four
  channels (three connections and the acceptor) and the eventfd are ready at once;
  `EventInitSize` (the code's 16) is 1 in `server` and `server_live`, so that
  `epoll_wait` returns some of them, fills `events_` and doubles it more than
  once, and 16 in the two runs that look for a violation.
- `ConnectionOutput`: `MaxPending` (3) calls of two threads put a Send and a Shutdown
  of one thread beside a call of the other, in the queue and before it. With `InitialSize` 2 and
  data of 4, what a short send leaves (1 to 3) fits, fills the buffer exactly or does
  not fit.
- `EventLoopThreadPool`: `MaxThreads` (3) is the least in which two loops can
  register out of order beside one in order; `MaxPicks` (3) lets `next_` wrap
  at each size.
- `AsyncLogging`: four lines fill two buffers and begin a third. Only `LargeBuffer` minus the
  length of a line matters to the code, so 3 stands for its 4 MB, and `SmallBuffer` 3
  for the 4 KB of a statement (the larger must not be below it). `MaxFailures` (1): a
  second failure meets the same writer with fewer lines.
- `HttpRequest`: a buffer of 17 items puts requests on both sides of the buffer's size, and
  exactly on it (a GET of two fields is that long). A message that ends exactly there is the one
  defined way in which a request that is not a GET leaves its thread's parser to the next. After a request the parser's state is all that is left, so the
  reachable sequences of connections are exhausted, not cut.
- `CircularBuffer`: `MaxSize` (8) lets the vector grow once from every pair of
  indices; growth depends on them, not on how often it happened before. Two byte
  values: LF, and CR, which is also a text character and `resize`'s filling.

### Deadlock

Deadlock is checked in `event_loop` (where `Stopped` is the legitimate end) and in
`circular_buffer`. Elsewhere the system may stop: a server whose clients are silent, a destroyed pool
or logger, a destructor that hangs (which the liveness properties say when it
does not), a process that threw or read beyond a buffer, a connection nobody uses, a process that was
aborted or killed.

### Fairness

A thread that can take a step takes it: weak fairness of each loop's, writer's
and destructor's next step, as the operating system's scheduler gives. Nothing
forces a client, a caller or an appending thread to begin anything, but a caller inside
`QueueInLoop` or `Quit` finishes it. `Poll` of `EventLoop` is fair only when the
eventfd is readable: `epoll_wait` has no timeout, and spurious returns (a signal)
are possible but not promised. In `AsyncLogging` the timed wait ends by its
timeout; nothing makes a write fail. In `ConnectionOutput` the loop runs its functors (what
`DueTaskRuns` says of it) and a thread inside a call finishes it, while the
process runs. Callbacks and functors return.

## 4. The proofs

Every invariant, every action property and every refinement that a passing run
checks is also a theorem, for all values of the constants. Of most liveness
properties, whose own proof is out of reach, the safety half is proved: what the
waiting thread waits for is there, or on its way. These halves are stated in the
proof modules, and no run checks them separately. Beside the
assumptions that the modules state of their constants (`ThreadsAssumption`, `ServerAssumption`,
`PoolAssumption`, `LoggingAssumption` with `SmallBufferAssumption`, `RequestAssumption`, `BufferAssumption`,
`OutputAssumption`: types, sizes above 0, and that the loop is not one of the
callers; of requests, how they begin), one hypothesis is taken, named in the theorems that need
it: `DistinctNames`, see below.

`EventLoopProofs`: `TypeCorrect`, `ConservationHolds`, `NoWakeupIsLost`,
`QuitIsSeen` and `RefinesTaskQueue`, for any number of callers and functors.
The inductive invariant `Inv` is `TypeOK`, `Conservation`, the fact that the
local vector of `DoPendingFunctors` is empty outside it (`BatchOnlyInRun`: the swap
overwrites it, so `Conservation` alone is not inductive), and that only queued
functors are due (`DueWasQueued`: a functor about to be pushed is not due yet, so the
push of another thread's functor cannot pass for its wakeup). `NoLostWakeup` and
`QuitIsNotSleptOver` are inductive relative to it. Between the read of the
eventfd and the swap the wakeup is gone while functors still wait; that the loop
is still ahead of its swap there is why `NoLostWakeup` claims nothing of
`loopPc = "handle"`, and why `due` counts a functor pushed by a handler but not,
with the flag false, one pushed by a functor. The refinement follows from
`Conservation`: a step changes `queued` by an append, or `executed` by the head of
the batch, which is the functor `queued` holds at that place, or neither.

`TcpServerProofs`: `TypeCorrect`, `CallbackOwnersLive`, `TablesAlwaysAgree`,
`ConnectionsAlwaysTracked`, `AnsweredOnlyWhenConnected`, `ChannelDtorAssertsHold` and
`RefinesConnectionLife`, for any clients, descriptors, pool and size of the events
array. Hypothesis: `DistinctNames`, that no two connections get the same name. The
code does not ensure it, and without it `ChannelDtorAsserts` is false (`server_names`,
finding 2); `MCTcpServer` asserts it, so that the runs meet the hypothesis. The
argument: a loop calls a connection only while `state_` is `kConnected`
(`WatchedAreConnected`, `ListedAreWatched`), then `connection_map_` holds it, and the map loses
it only after `state_` is `kDisconnected`. Two queues lie between
those steps, so the invariant says what they hold: a queued `ConnectionEstablished`
finds a `kConnecting` connection of that loop, a queued
`RemoveConnectionInLoop` a `kDisconnected` one (`FunctorsDue`), and no connection waits to be
established twice (`EstablishedOnce`, else the first would falsify what the second finds). Two
living connections have two descriptors (`FdsUnique`), which makes the table lookups by
descriptor reach the right connection. The refinement follows: each holder that
lets go of a connection changes its phase only if it was the last one.
`ConnectionsTracked` also needs the converse of `FunctorsDue`, that what waits for a functor
has it in a queue (`HandOversPending`): it is the safety half of `DescriptorReleased`.
That of `RequestAnswered` is `RequestsServedOrWithdrawn`: a connection is closed only after
its answer, a reset, or an end of input with nothing unread. It needs `EventsTrue`,
that the events a loop still holds stand for something its client really sent,
across rounds in which other connections are closed. `LoopsNeverStuck` says that
no thread stops inside a round: the acceptor is listed only while a connection
waits and a lowest free descriptor exists, or none is free at all; `HandleEvent` runs for one
connection, alive when its callback is entered. The server's runs turn TLC's deadlock check off,
since with all clients gone the server rests in `epoll_wait`; this theorem says that it rests nowhere
else, unless finding 1 has ended the process.

`EventLoopThreadPoolProofs`: `PoolTypeCorrect`, `NextStaysInPool` and
`HandoutIsEven`, for any number of threads and takes. To `NextInPool`
the inductive invariant adds what holds between `TakeNext` and `Advance`: the
vector may have grown since, never shrunk, and `Advance` reduces by the size it
finds then; and, for the type of the destructor's index, that a thread is joined only below
`thread_num_`. `EvenHandout` compares counts, and says nothing of where `next_` stands;
inductive is `Turn`: going round from the place at which the pool last grew,
the loops up to `next_` have been taken once more than the rest. A registration
between the two halves of `NextLoop` clears the counts, whence `Fresh`; and a thread
is in `loops_pool_` once (`Distinct`), or its count would belong to two places.
`OrderlyDestructorAsksFirst` is the safety half of `DestructorReturns`, about every
behaviour from the moment its premise holds: the thread being joined has been
asked or has returned, and no loop is used that is not there. `OrderlyStop` adds why this lasts:
no thread registers any more, nor enters `Loop()`, which would forget the Quit.

`ConnectionOutputProofs`: `OutputTypeCorrect`, `WritingIsNeverAskedFor`,
`ReadFlagAgreesAlways`, `ShutdownStaysBehind` and `DisconnectedStays`, for any number
of threads, calls and lengths. That `write_index_` never moves makes the output
buffer look empty with room for ever (`BufferStaysEmpty`), so `Send` never takes the branch
of `EnableWriting`; `NeverWriting` in turn is what makes `StartReadInLoop` always set both
sides of `ReadFlagAgrees`. `OwnSendsPrecedeShutdown` is not inductive: it needs that a
Shutdown anywhere under way has left `kConnected` behind (`ShutdownLeavesConnected`, so that no Send
of the thread can begin), and that in the queue and in `call` no Send of a thread
is behind its Shutdown (`SendsInFront`). `ShutdownIsNeverForgotten` is the safety half of
`ShutdownEndsStream`: between the assignment of `kDisconnecting` and the end of the stream a
`ShutdownInLoop` is under way, and `NeverWriting` is why it has its effect when it runs. The bound on the queue in `TypeOK` needs `Bounded`, which
counts a call once, in its thread or in the queue.

`AsyncLoggingProofs`, on the lemmas of `LogStreamProofs`: `LoggerTypeCorrect`,
`LinesAlwaysInOrder`, `NothingEverLeftHalfWay` and `MissingPieceNeverFits`, for any
statements, sizes of both buffers and number of failing writes. `LinesInOrder` says that
`FILE`, buffers and `current_buffer_`, laid end to end, are the appended lines less
the dropped ones. To be inductive it needs that a line is appended once
(`AppendedOnce`: dropping one line must not drop another), that only appended lines are
dropped (`DroppedWereAppended`: a line not appended yet must not count as dropped),
and that the writer's buffers are empty when the swap overwrites them (`WriterIdle`).
`MissingPieceDidNotFit` is a fact about `LoggedPieces`, shown piece by piece. `FoldLeft` and `FlattenSeq`
are recursive functions of the library; the library's induction theorems cannot be
used with these provers, so that such a function exists is shown from the least
size without one (`NatMin`, which rests on the well-foundedness of < on Nat), and after
that each is used through one step at a time. Of the constructor, both outcomes are
theorems: one that waits in time has the notification or its sender before it
(`AwaitedNotificationArrives`, the safety half of `ConstructorReturns`), and one that has missed
it never returns (`MissedNotificationHangs`), short of a spurious wakeup.

`HttpRequestProofs`: `ParserTypeCorrect`, `WholeGetAlwaysGood` and
`FirstGoodAlwaysComplete`, for any requests, well formed or not, any cuts and size of the buffer.
What a message must be for `WholeGetIsGood` to speak of it is in the property
(`WholeGet`: a target, a blank line, a value in every field, room in the buffer; a body or
another request may follow), and what the thread's other messages are is left open.
The invariant says where the parser stands in the message: behind a CRLF, or past what was
written (`AtLine`), with the method that goes with its state (`MethodKnown`). `FreshOnTrack` then
says that a new parser is past the headers only behind a blank line or with nothing left to read:
a blank line read behind a CRLF is CR LF CR LF in the message, and one that is
blank because the text stops leaves `read_index_` beyond `write_index_`. `WholeGetOnTrack` is about
a whole GET met by a parser in any state with `method_` "GET": while headers are expected their end is still
ahead (`HeadersAhead`), since a line with text that went on to it would hold a CRLF
(`HeaderLineEnds`), and no line before it ends with its colon.
`EveryLineMovesOn` is the safety half of `ParsingEnds`: whatever
the bytes, each line moves `read_index_` on, and never further than two behind `write_index_`.

`CircularBufferProofs`: `BufferTypeCorrect`, `RefinesByteQueue` and
`AppendPutsItsData`, for any sizes, bytes and indices. Every index that is
reduced by `size()` is below twice the size, so the remainder is one comparison (`Modulo`).
An append that grows is a move of the wrapped part followed by an append that fits.
`AppendPutsItsData` says more than the refinement, which
asks only that some data was put at the end.

**Only model-checked**: the liveness properties `DueTaskRuns`, `TakenTaskRuns`,
`QuitReturns`, `RequestAnswered`, `DescriptorReleased`, `DestructorReturns` (of the pool and of the logger),
`LineReachesFile`, `ConstructorReturns`, `ParsingEnds` and `ShutdownEndsStream`. Their
proofs need fairness and ENABLED, which the provers do not handle. Beside the halves
named above, `NoWakeupIsLost` is that of `DueTaskRuns`, `ConservationHolds` of `TakenTaskRuns`,
`QuitIsSeen` of `QuitReturns` and `LinesAlwaysInOrder` of `LineReachesFile`. The logger's
`DestructorReturns` has none: its join waits for a thread whose every wait has a timeout.

## 5. Findings

1. **A channel is destroyed under its own `HandleEvent`** (`server_lifetime`,
   `TcpConnection.cc:139`). On one loop `HandleClose` removes the channel and
   drops the last reference to the connection while `Channel::HandleEvent` is
   still running; it then writes `event_handling_`, and `Loop()` reads `fd()`, in
   freed memory. `~Channel` asserts `!event_handling_`, but `HandleClose` has
   cleared the flag for it. With a pool the same happens when the base loop is quick.
2. **Two clients may have one name** (`server_names`, `TcpServer.cc:47`): address
   and port are joined without a separator, and the second client's entry in
   `connection_map_` destroys the first's connection while it is registered:
   `assert(!run_in_loop_flag_)` of `~Channel` fails.
3. **A parser once complete stays complete** (`http_complete`,
   `HttpServer.cc:31`): the `thread_local` `HttpRequest` is never reset, so any
   first line of any later connection is a `GOOD_REQUEST`, though
   `HttpRequest.h:40` says that means a complete and correct request.
4. **An exact fit aborts** (`output_assert`, `TcpConnection.cc:177`): what a short
   send leaves goes to the output buffer; if it fills it exactly nothing is grown, and
   `assert(WriteableBytes() > len)` at `Buffer.h:52` fails (the build is Debug).

Known weaknesses the passing properties are worded around, none contradicting
a comment or test of the repository: a constructor of `AsyncLogging` that misses
its notification hangs; a pool whose threads registered out of order, or not
all, cannot be destroyed safely; lines appended after the writer's last swap are lost;
a functor queued by a functor may wait for the next event; what a short send leaves
is never sent (`NeverWriting` says why); `StopRead` does not reach the epoll; a Send that follows
another thread's Shutdown ends the process by SIGPIPE; a Shutdown that tested `state_`
before a close overwrites `kDisconnected`; a header field without a value, sent so
(`Accept:` and a CRLF is legal) or cut off behind its colon, throws out of
`ParseRequest` and ends the process; `method_` is set by the first line a
thread ever takes and never again, so after a POST, another method, a method cut off or a blank
line in that place the thread calls no request good; and at the end of most messages that are not
a GET the parser searches behind its buffer.

## 6. Not modelled

- `HandleWrite`, `Buffer::WriteFd` and `Channel::UpdateChannel`: they run on EPOLLOUT
  only, which is never asked for (`NeverWriting`). The message callback in
  `TcpServer` answers and the connection closes; output is `ConnectionOutput`'s.
- `TimerSchedule`: nothing runs it (its channel is commented out in `EventLoop::Init`
  and nobody calls `RunAt`). `Timer` and `Timestamp` with it.
- A failing `fopen`, the error return of `CircularBuffer::ReadFd` (nobody calls it), a spurious return of the
  constructor's wait in `AsyncLogging`, pieces of 2 GB and more.
- Text: what numbers, timestamps and headers look like; `HttpResponse`, which
  nobody uses; header values (the parser's maps).
- `~TcpServer` and other ends of the program: `main` never leaves its loop. Who
  keeps a connection and its data alive for a Send from another thread is
  outside the repository.
- `TcpServer` starts with a pool whose loops have all registered (that they may
  not have is `EventLoopThreadPool`'s subject), and does not model exit.
- `RefuseConnection` is one step, and `idlefd_` is no variable: between the calls of
  `Acceptor.cc:84-87` a model's other threads could only give descriptors back, since nobody
  but the acceptor takes any. In the program the logger's thread opens its file once, and
  could take the spare descriptor in that place; this hazard is listed and not checked.
- A method, a target or a value cut inside one of its pieces: such a line is the shorter piece,
  and goes the same way.
- `webbench` (vendored) and the commented-out old `HttpRequest`.

## 7. Plan

Done, in this order: `EventLoop` and its proofs, `TcpServer`, `AsyncLogging`,
`EventLoopThreadPool` and its proofs, `HttpRequest`, `CircularBuffer`,
`ConnectionOutput` and its proofs, `LogStream` with failing writes, the growing events
array; then the theorems about `TcpServer`, the even handout of the pool, the
logger, the parser, the circular buffer, and the type of `ConnectionOutput`; and
the safety halves of the liveness properties.

Next:

1. `TimerSchedule`, should its channel ever be added to the loop.
2. What `HttpRequest.h:33` says of `LINE_OPEN` against what `ReadByLine` returns.

Running the checks: `tlc -config MCEventLoop.cfg MCEventLoop.tla` and so on; `tlapm
EventLoopProofs.tla`, and the same for the other seven proof modules.
