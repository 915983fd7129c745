# Verification of the coroutine demonstrations

TLA+ models of the programs in this repository, the TLC runs that check them on
small instances, and TLAPS proofs for every instance. The repository is a
collection of demonstrations, each a program of its own: a multi-lookup whose
binary searches hide cache misses from each other (2018), an echo server and its
load generator (2017), and a TCP throughput benchmark on a Windows completion
port, written with callbacks and with coroutines (2015).

`tlc -config X.cfg M` checks a run, `tlapm M.tla` a module's proofs.
`PROJECT.json` lists runs, mutants, hazards, theorems and, for every definition,
the source lines that it stands for.

## 1. Inventory

### 2018_CppCon/src - multi-lookup (one thread)

| Part | State | Operations | Correct when |
|---|---|---|---|
| `scheduler_queue` (coro_infra.h:8-34) | ring of 256 handles, `head`, `tail`; global | `push_back`, `pop_front`, `try_pop_front`, `run` | it holds each suspended search once, and nothing else |
| `throttler`, `root_task` (coro_infra.h:103-166) | `limit`, an `unsigned` | `spawn`, `on_task_done`, `run`, destructor | at most `streams` searches are queued; nobody resumes a dead handle |
| prefetch awaitable (coro_infra.h:36-61) | none | `await_suspend` = push the own handle, transfer to the front | the order push-then-pop never pops an empty ring |
| `tcalloc` (coro_infra.h:66-99) | free list, statistics | `alloc`, `free` | frames come from the list; memory is bounded |
| `CoroBinarySearch`, `CoroMultiLookup` (coro.h) | frame (first, len), two counters | probe, suspend, answer | every key is answered once, rightly |
| `Frame`, `SmMultiLookup` (sm.h) | vector of frames, `i`, `result` | init, run, round-robin scan, drain | no frame without a search is run; result = naive result |
| `naive_binary_search` (naive.h) | - | a pure function | the reference |
| nanotest.cpp, rng.h | command line, timing | calls the three with random inputs | compares their sums |

Hard here: two of three callers of `pop_front` do not look whether the ring is
empty, a full ring looks like an empty one, the ring and the allocator survive
from one call to the next, and sm.h's inner scan never looks at a frame's state.

### 2017_CppCon/live - echo server and load generator

| Part | State | Operations | Correct when |
|---|---|---|---|
| client `session` (myclient.cpp:78-200) | socket, two swapped buffers, `unwritten_count_`, byte counters | `handle_connect`, `handle_read`, `handle_write`, `stop`, `close_socket` | no byte lost or doubled; never idle; drains after `stop` |
| `handler_allocator` (handler_allocator.hpp) | one block, `in_use_` | allocate, deallocate | one operation per allocator at a time; a handler that fits finds the block free |
| `client`, `stats`, `main` (myclient.cpp:39-74, 203-302) | list of sessions, timer, threads, sums | `handle_timeout`, `run()` in several threads, joins, destructors, printing | it ends after the timer; no session is deleted in use; sums are complete |
| server `session` (myserver.cpp:21-85) | socket, one buffer | `start`, `handle_read`, `handle_write`, `destroy` | echoes in order; deleted once, when idle |
| `server` (myserver.cpp:87-119) | acceptor, next session | `start_accept`, `handle_accept` | goes on accepting |
| `session`, `server` of hard1, hard2 (await_adapters.h) | coroutine frames with an awaiter per operation | `await_suspend` starts the operation, its handler stores the outcome and resumes | as the session above; the frame ends with its connection |
| `session`, `server` of easy (boost_coro.h, future_adapter.h, use_boost_future.h) | frames, promises and futures | `await_ready`, then `then()`, against the handler that sets the value | no result is missed between the two |
| `noisy_clock`, `Callback` (stop1.cpp) | a frame, the handler that owns it, a timer | move, call, destruction of the handler | resumed once per suspension, though the wait may be abandoned |
| over1, over2, first | a counter | loops that measure | - |

Client and server talk over a TCP connection; within a process, handlers are
run by the threads of an `io_context`. The client's session has a strand, the
server's has none: only that it has one operation at a time keeps its handlers
apart. Hard here: the read and the write of the client overlap and either
handler may be the one that swaps the buffers; a stop or an error may come with
any combination of operations in progress; the client reads nothing while it has a
block to write and one that waits, and the server nothing while it echoes, so that
a block that the kernels cannot hold makes both wait in a write; `main` deletes the sessions once
every thread has left `run()`; a handler may run on another thread before the
coroutine that started its operation has suspended; a session runs in the accept
handler's thread until its first suspension; nothing but an exception ends a
coroutine's endless loop.

### 2015_CppCon/SuperLean - throughput benchmark

| Part | State | Operations | Correct when |
|---|---|---|---|
| PAL.cpp, PAL.h | completion port, threads, `syncCompletion`, `WorkTracker` | sockets, `AssociateHandle`, the pool's loop, `Stop` | one packet per completion, or none if it was inline; the count is exact |
| Improved.cpp | `tcp_reader`, `tcp_writer`, `Server`: a connection and one OVERLAPPED each | `OnConnect`, `OnRead`, `OnAccept`, `OnWrite`, `run` | one owner per object; the last reader ends the process |
| Traditional.cpp | the same, with a handler object on the heap for each operation | the same, and `o.release()` after each launch | as Improved.cpp; no handler is freed before its packet, or called twice |
| Awaitable.cpp | coroutine frames | `TcpReader`, `ServeClient`, `Server`, awaiters | a frame is resumed once per suspension, destroyed in the end |
| main.cpp | - | picks one of the three | - |

Hard here: an operation may complete inline, or on another thread before the
call that launched it has returned; objects have no locks; handlers delete
their own object in the middle of a loop; `await_resume` counts a read as a full
buffer whatever came; `run()` may give up while all of this goes on.

### The rest

`2016_Jax` (a generator and its LLVM lowering), the papers in the root
directory and the slides contain no further concurrent program; they are listed
in `PROJECT.json` as not modelled.

## 2. The modules

| Module | Models | Uses |
|---|---|---|
| `MultiLookup` | the abstract specification: each pending lookup is answered once, rightly, eventually | |
| `CoroLookup` | coro.h on coro_infra.h | `SearchAlgorithms`, instantiates `MultiLookup` |
| `SearchAlgorithms` | naive.h and one round of its loop | |
| `SmLookup` | sm.h | `SearchAlgorithms`, instantiates `MultiLookup` |
| `ClientSession` | `session` of myclient.cpp with its two allocators | |
| `ServerSession` | `session` of myserver.cpp | |
| `EchoSystem` | one client session and one server session on one TCP connection | extends `ClientSession`, instantiates `ServerSession` |
| `BenchClient` | the whole of myclient.cpp around its session: threads, timer, joins, statistics | extends `EchoSystem` |
| `EchoServers` | myserver, easy, hard1 and hard2 with their acceptors, for several connections and threads | instantiates `ServerSession` |
| `StopTimer` | stop1.cpp | |
| `IocpStreams` | Improved.cpp on PAL.cpp | |
| `TraditionalStreams` | Traditional.cpp: the handlers' lives | extends `IocpStreams` |
| `AwaitableStreams` | Awaitable.cpp on PAL.cpp | |
| `MCCoroLookup`, `MCSmLookup`, `MCEchoServers` | inputs for the runs | |
| `SearchAlgorithms_proof`, `CoroLookup_proof`, `SmLookup_proof`, `EchoServers_proof`, `StopTimer_proof`, `AwaitableStreams_proof` | the proofs about the module of that name | TLAPS |
| `Echo_proof` | the proofs about `EchoSystem` and `BenchClient` | TLAPS |
| `Streams_proof` | the proofs about `IocpStreams` and `TraditionalStreams` | TLAPS |

Beside a definition there may stand a *mutant* of it, marked as such: the same
operator with a plausible bug. Mutants are not used by the specifications. Each
property has one that breaks it, and so is known to depend on the code.

### CoroLookup

An action is what runs between two suspensions. `main` is where the body of
`CoroMultiLookup` stands, `running` the coroutine on top of it. `Create` is the
call of `CoroBinarySearch` (frame allocation and initial suspension),
`SpawnThrottled` and `SpawnPush` the two halves of `throttler::spawn`,
`RunToPrefetch` a coroutine that goes on to its next probe - push, pop and
symmetric transfer in one step, as `await_suspend` does them - and `RunToEnd`
its answer, `on_task_done` and the return of the frame. `RunPop` and `RunEnd`
are `scheduler_queue::run`, which is called twice: by `t.run()` and again by the
destructor of the throttler. The resumption of a handle that has no live frame
is undefined behaviour and leads to `main = "undefined"`. `Init` lets an earlier
call have left the ring anywhere, with stale handles in its slots and frames in
the allocator's list. Elements are integers, iterators positions; a key is what
tells tasks apart, so a task is the position of its key.

### SmLookup

One action per round of the loops of `SmMultiLookup`: `LoopInit`, `ScanStep` and
`ScanDone` (the inner `for(;;)`), and the drain loop. Running a frame without a
search in it leads to `pc = "undefined"`. `v` is not empty: `&v[0]` (sm.h:83) needs
an element. coro.h uses `begin()` and `end()`, and `CoroLookup` has empty vectors.

### EchoSystem

Each handler of the client runs on a strand and each handler of the server is
alone with its session, so a handler is one action; everything between two
handlers interleaves. The kernel's part (`ConnectCompletes`, `ReadCompletes`,
`WriteSome`, ...) is modelled from how the code uses it: a read takes any prefix
of what has arrived, a write is sent in pieces, a reset loses what is on the
way. The kernels keep at most `Window` bytes for a connection, each way: a write to a
peer that does not read comes to a halt, as it does in TCP. Bytes are numbered
1..BlockSize so that their order shows. The counters of
the statistics grow for ever; the model keeps their difference. `Faults` says
what may go wrong: the connection is refused, an option cannot be set, the
client is stopped, the network resets the connection. `ReadHandlerSize` and
`WriteHandlerSize` are what the operations ask of their `handler_allocator`, which
serves them from its 1024 bytes if these are free and enough, and else from the heap.

With a large block client and server can wait for each other. `handle_read` starts
no operation while the block before is still being written (myclient.cpp:145-146),
and the server reads again only when its echo is sent (myserver.cpp:41-58). If a
block exceeds what the kernels hold both ways and two bytes (one in each side's
hands), both writes can block, until the timer stops the client. That is `Clogged`.
`RestsWhenOver` and `EchoKeepsGoing` say that this is the only such state and that
it needs `BlockSize > 2 * Window + 2`. No comment or document of the repository
promises more, so it is a limit of these programs and no finding.

### BenchClient

`BenchClient` puts the session of `EchoSystem` into its process. `SessionHandler`
is one of its handlers, run by any thread that is still in `run()`;
`HandleTimeout` is `client::handle_timeout`; `MainLeaves` and `WorkerLeaves` are
the returns of `run()`, which need that no handler and no operation is left
(`HasWork`). After the joins `DeleteSessions` is `~client` and the `~session`
in it, which adds the counters to the sums, and `PrintStats` prints them.

### EchoServers

One module for four programs, because they differ in few places: who waits for
an operation's outcome. `at` is where a session's code stands. In hard1 and hard2
an operation suspends the session at once; in easy it returns a future, and
`AwaitReady` and `Then` are two steps (boost_coro.h:51-67) between which the
handler may set the value; in myserver.cpp there is no frame and `at` is what the
next handler does. `Handler` stores the outcome and resumes a session that waits;
`Continue` is `await_resume` and the next operation, or the exception
(`Throws`), after which `Destroy` frees the frame. `Returns` says when the
acceptor gets its thread back. `Busy < threads` limits how many handlers run at
once. The clients take their echoes: the kernels have room for a buffer whenever a
server writes, and a write ends (`room <- BufSize` in the refinement). A client that
does not read is what `EchoSystem` is about. hard2's `server()` is itself a coroutine, which an error of `async_accept`
ends (`HandleAcceptError`).

### StopTimer

The `Callback` objects are slots, since the library may move a handler any number
of times (`Move`), destroy what it moved from (`DestroyTemporary`), call it
(`TakeTimer`, `Call`, `Returned`) or drop it. A slot holds the number of the
suspension that its coroutine handle is for; resuming for another one, or using
the timer after its end, sets `undefined`. `DestroyTimer` and `DestroyIo` are the
destructors at the end of main's scope, in their order.

### IocpStreams, TraditionalStreams and AwaitableStreams

The bytes are all the same in these programs and only counted: a connection is
the number of bytes between a writer and its reader. `rop` and `wop` are the
OVERLAPPED structures: unused, with the kernel, or in a packet in the port's
queue. In `IocpStreams` a handler's action takes a packet, and each turn of its
loop is an action, so that other threads get in between the turns; the place of
each object's code is kept (`place`, `wplace`). Whether a receive or send
completes at once is free; `ReportsInline` and `SkipOnSuccess` are the two
places in PAL.cpp that must agree about what follows from it. With `"at once"` in
`Faults` a ConnectEx or AcceptEx may also end in the call itself, or fail there: both
are a `panic_if` (PAL.cpp:187-193, 357-363) and the process ends (`Unexpected`). An
AcceptEx may also end with the error of a connection that was reset while it
waited, which Improved.cpp:296 panics about and Awaitable.cpp:119 ignores. In
`AwaitableStreams` a coroutine runs from one suspension to the next in steps of
one operation each; `serving` says that the thread of `Server` is still inside
the `ServeClient` that it called, before its first suspension.

In both, a step that launches an operation also publishes it: from then on the
packet may be taken by another thread. That is the point at which the launching
code gives the object up; what it does afterwards touches only locals, which is
what `OneOwner` is about.

`TraditionalStreams` repeats only the actions in which a handler is made, freed,
released or called, and adds its state to them; what concerns no handler
(`Elsewhere`) it takes over. `ImplementsImproved` is the refinement: with the
handlers hidden each step is one of `IocpStreams`.

## 3. The runs

| Run | Shows | Instance |
|---|---|---|
| `coro_lookup` | with fewer streams than slots: the ring is exactly the suspended searches, no dead handle is resumed, memory is bounded, and `CoroLookup` implements `MultiLookup`, liveness included; it finds as many keys as naive.h | N = 4, streams 1-3, vectors up to 4 elements (empty, duplicates), up to 5 keys |
| `coro_overflow` | finding: with as many streams as slots the lookups are never answered | N = 4, 4 streams |
| `sm_lookup` | the state machines run no stray frame, agree with naive.h and implement `MultiLookup` | streams 1-3, up to 6 keys |
| `echo` | until a stop or a reset no byte is lost, doubled or reordered and the counters are exact; no buffer has two operations; the echo goes on and rests only after an error, unless a block that does not fit makes both sides write | block 7, 2 bytes in the kernels each way, server buffer 2 |
| `bench_client` | the whole client under all faults: the echo does not stall, a timeout drains the session in any state and the client prints, no thread leaves `run()` too early, the two sums agree up to a block; no heap allocation for a handler that fits; the server's session is deleted once and eventually | block 2, 1 byte in the kernels each way, server buffer 1, a read handler that is too large and a write handler that just fits, main and 2 workers |
| `echo_servers` | each session of the four servers refines `ServerSession`, bytes come back in order, a client that stays is served, an idle server owes nothing, no frame outlives its connection | 2 clients that send 2 and 1 bytes, buffer 2, 1-2 threads, at most one error of `async_accept` |
| `stop_timer` | a coroutine is resumed once per suspension however its handler is moved, called or dropped, and its frame goes | intervals 1-2, stop after 1-3, at most 2 moves |
| `iocp_pool` | `sync = 0`, with resets, connects and accepts that end at once, and an early end: all bytes are counted, who leaves without an error has them all, somebody can always go on until the end, and the last reader ends the process | 2 readers, 3 bytes, buffers 2, window 3 |
| `traditional` | both modes, resets, connects and accepts that end at once, and an early end: one owner per object, no handler is freed before its packet or called twice, and `TraditionalStreams` implements `IocpStreams` | 2 readers, 2 bytes, buffers 1, window 1 |
| `iocp_sync` | finding: bytes of inline completions are dropped | 1 reader |
| `iocp_timeout` | finding: a `run()` that gives up panics | 1 reader |
| `awaitable` | both modes, with the same faults: one owner per frame, no reader counts less than it was given or more than a buffer for each byte, readers end, writers are destroyed, and nothing rests before that | 2 readers, 3 bytes, buffers 2, window 2 |

Why the bounds are enough. The ring wraps with N = 4 and starts at every
position; 5 keys with 1-3 streams reach the throttle, the free list and a ring
that is full but for one slot. In `echo` a block of 7 is the smallest that does not
fit into two windows of 2 and the hands of both sides: client and server do get to
wait for each other, and with one byte less they would not. Reads are shorter than
the block, writes go in pieces, and both orders of the two handlers occur.
`bench_client` needs no order, only counts; there a block of 2 against a window and a
buffer of 1 still makes writes of part of a block, and it always fits, so that
`EchoKeepsGoing` holds without the exception. In `echo_servers` one client sends more than one byte, so that
its session goes round its loop and its order shows; with two clients and two
threads the acceptor serves one while the other's handlers run, and with one
thread `easy` must not keep it. `MaxAcceptErrors` bounds what the code retries
for ever. In `stop_timer` two moves put a handler into a third place and leave two
empty ones behind; the longest stop outlasts a whole wait. With 2 readers
the last one differs from the others, two handlers run at once, and the accept
loop goes round. `received` in `IocpStreams` saturates at `Bytes + ReaderSize`,
beyond what a correct reader can be given, so that the runs stay finite in the
mode in which the code loses count. `Window` bounds what the kernel keeps for a
connection, as its buffers do; the proofs have it and the sizes of blocks and
buffers as parameters. `Modes = {TRUE}` gives both modes, since `sync` is
also switched off when a provider has no IFS handles (PAL.cpp). Nearly all of
the safety properties are proved for every instance as well (section 5).

The type invariants (`CoroTypes`, `EchoTypes` and so on) and what
`unwritten_count_` counts (`EchoUnwritten`) are proved and so need no run.

Deadlock is not reported in the runs because the programs really stop: the
lookups return, the sessions end, the processes exit. That they do not stop too
early is what the liveness properties say, and, with no fairness assumed, the
properties about states in which nothing can go on: `RestsWhenOver`,
`IdleWhenServed`, `RestsWhenFreed`. What can go on is stated there from the
guards of the actions, since TLAPS knows no ENABLED; a lost wakeup, a forgotten
accept or a session that waits for itself would be such a state.

### Fairness

- The lookups are one thread in straight-line code, and so is stop1.cpp with one
  `io_context`: `WF_vars(Next)`.
- `EchoSystem`: an `io_context` with a thread in `run()` runs a handler that is
  ready, and the kernel ends an operation that can end; one weak fairness
  condition for each of client handlers, client operations, server handlers,
  server operations, the posted destroy, and accept. Nothing says that the
  client is ever stopped or the connection reset, and fairness does not let a write
  go on for which the kernel has no room.
- `BenchClient`: the same, and the threads go on (`Process`). The posted
  `close_socket` has a condition of its own, because a strand runs its handlers in
  the order in which they came: the session's other handlers cannot keep it
  waiting. The timer need not expire: `ClientReports` says what follows if it does.
- `EchoServers`: one condition for the acceptor, and for each connection one for
  its session and one for its kernel operations - `io_context` queues
  handlers in order, so none waits for ever. Clients need do nothing, and send
  finitely many bytes.
- `IocpStreams`, `TraditionalStreams`, `AwaitableStreams`: `WF_vars(Work)` - some
  thread or the kernel goes on as long as one can. It is weaker than fairness to
  each thread or connection; the progress of each reader follows because the
  others run out of work (a window is full, a reader has its bytes). Resets and
  the end of the two minutes of `os_sleep` are outside of it.

## 4. Findings

1. `coro_overflow`: nanotest says `<streams>: 1 - whatever`. With 256 or more
   streams (and keys) `scheduler_queue` fills completely, looks empty, and the
   lookups in it are never answered; the program's own check reports a bug.
2. `iocp_sync`: the ReadMe says that with `sync = 1` synchronous completions are
   handled inline. Those in `OnConnect`'s loop are not handled at all, and those
   in `OnRead`'s loop count as a full buffer. A reader can so stay in `OnConnect`'s
   loop for as long as its bytes come at once: `EndsByItself` is checked for
   `sync = 0` only.
3. `iocp_timeout`: when `os_sleep` returns first, `~Server` closes the listener
   under the pending AcceptEx, whose error packet makes a pool thread panic
   (`Accept failed`, exit code 1) unless the main thread exits first. Nothing but the
   early end is allowed to go wrong in that run. Awaitable.cpp keeps its listener in
   `Server()`'s frame, which nobody destroys.

## 5. The proofs

TLAPS checks all of it, for every value of the constants: any number of
readers, connections, threads and streams, any size of block, buffer, ring and
window, any faults. Each module first proves that an inductive invariant holds
(`Init` establishes it, one lemma per action or group of actions preserves it),
and then reads the properties off it.

**`SearchAlgorithms_proof`.** A round of the loop stays inside, narrows, and misses
no key (`RoundNarrows`). `NaiveFinds` is the correctness of the whole loop, for
vectors of every length: its recursive function has a solution
(`FindsSolves`), namely whether the key is in the part, and no other
(`SolvesFinds`). The second is an induction over the length of the part. It is
carried out on a shortest part where two solutions differ (`LeastNatural`, from the
well-foundedness of the naturals), because the library's induction theorems take
an operator as their parameter. The two theorems `SmResultIsNaive` and
`CoroFoundIsNaive` then need that a count goes up with each answer that is a hit,
in whatever order the answers come (`CountAnswered`, `SmCounts`, `CoroCounts`):
nanotest's comparison of the three sums can never fail.

**`CoroLookup_proof`.** The only assumption beyond types is `StreamsFit`, stream
counts below N, which finding 1 shows to be needed. The safety properties are not
inductive: that `pop_front` finds a live handle needs that the number of
occupied slots, `limit` and the running coroutine add up to `streams`
(`Budget`), which needs to know where the caller stands (`Caller`) and that
the running coroutine is not in the ring (`RunningLive`). `Searches` says that
what is left of a search still contains the key if v does; `Heap` and
`Answers` tie the counters to the frames. `CoroTypes`, `CoroRing`,
`CoroNoDeadResume`, `CoroAllocs` and `CoroAllAnswered` are the run's invariants;
`CoroRefines` says that `Init` and every step map to `MultiLookup`'s, the safety
half of the refinement. `CoroFoundIsNaive` compares the result with naive.h.

**`SmLookup_proof`.** `SmMultiLookup` fills its frames from the last to the first
(`Filled`), because `i` starts at the end; from then on each frame is
refilled as soon as it is free (`Turns`), and no two searches share a key
(`Distinct`). A round of the drain loop that found no work has seen every frame
over (`Drained`). From this `SmNoStrayRun`; `SmAllAnswered`, that nothing is
pending at the end; `SmResultIsNaive`; and `SmRefines`, the safety half of the
refinement.

**`Echo_proof`.** First part (`EchoInvariant`): the bytes are bytes
(`WireOK`); nothing happens before the connection (`BeforeConnect`); after an
error at most one operation is left, with a count that does not let its handler
start both (`AfterFailure`); and the server's session has one operation, or one
posted destroy, or is gone (`ServerInv`). Second part (`BytesInvariant`): the bytes
in the client's two buffers, on the way there, in the server and on the way back
are, read in that order, a rotation of the block. A handler that swaps the
buffers, a piece sent or received, and the server's echo each move the cut in the
ring or leave it (`RotateAgain`, `FrontMoved`). `BufferEmptied` (the server
reads only when it has sent all) and `ErrorsEnd` are what makes it inductive.
Properties: `EchoBuffers`, `EchoUnwritten`, `EchoStorage`, `EchoDeletedOnce`,
`EchoNothingLost`, `EchoCounters`, and `EchoNeverIdle`, that a healthy client
always has an operation.

`EchoRestsWhenOver` goes further: one of the operations or handlers can go on.
It adds what an operation with the kernel still lacks and that a handler is
given at least one byte (`ClientAttended`, `ServerAttended`), and that an error
which one operation has met is met by the other (`FailsForBoth`). The bytes decide
the rest: if nobody writes, the block would have to be nowhere, and if both write and
neither can, it fills both windows (`WithinWindow`) and has a byte or more on each
side, which is `Clogged`. `NothingSent` is about the moments before the first byte.

In the whole client a step of the process is a step of the session or leaves
it alone, so both invariants carry over (`BenchSession`, `BenchBytes`). `Balance`
says that what was written, is being written or waits to be is the first block
and all that was read, and what an error can lose of it: that gives
`BenchStats`. `BenchNoneLeftBehind` rests on `WorkEnds`: once no work is
left none can begin.

**`EchoServers_proof`.** `SessionInv` ties where a session stands to the operation
and the outcome its awaiter holds - in particular that `easy`'s `Then` never
misses an outcome that came after `AwaitReady`; `AcceptInv` says that a connection
is in the backlog, or accepted, or served, never two of them: with `TypeOK` these
are `ServersInvariant`. `ServersRefine`:
every session of every server, step by step, is one of `ServerSession`.
`ServersInOrder` adds where the one buffer of a session is free (`BufFree`) and
that what is sent back, in it and under way is, read in that order, what the
client has sent: each step moves a cut in that sequence. `ServersIdleServed`
adds that a session with a read to handle has bytes in its buffer (`BufFull`), that
the acceptor is with a session only while this one is in its first steps
(`ServingInv`), and that a connection nobody serves yet is in the backlog or in
the accept (`WaitingInv`). Then each place where a session can stand has a
step, but for one that waits for its client.

**`StopTimer_proof`.** `OneCallback`: the suspension that is due to be resumed
belongs to exactly one `Callback`, the one that the timer's wait has or the one
about to be called; all others are empty. `AfterStop`: when the io_context is
stopped only the destructor of the handler in its queue can still resume, and it
resumes a coroutine that then ends. Together `StopResumedOnce`.

**`Streams_proof`.** For Improved.cpp: packets fit their buffers (`Lengths`),
`workCount` is the number of readers that have not deleted themselves (`Tracked`),
and with `sync = 0` every byte is counted (`CountedByPackets`), with `OneOwner`
itself inductive beside them. `StreamsDone` adds `EndInv`, that the process ends
exactly with the last reader, and `ServedInv`, that a reader whose connection has
not failed has met no error, so that it leaves its loops only with all its bytes.

`StreamsNeverStuck` says that nobody waits for everybody. It adds what
a reader waits for (`Waits`: a connect or a receive, and a receive only of a
connection that was made), that an accepted
connection is with somebody (`Attended`, kept because what becomes of a
connection goes one way, `Forward`), that the server has an AcceptEx in progress
while run() sleeps (`Arms`, `Started`), and that `nReaders * 2 + 8` threads are
more than can be busy (`ThreadFree`). Then a reader that is left can go on, or
its writer can, because what the reader has not read is not in its way.

For Traditional.cpp the steps map to those of Improved.cpp
(`TraditionalRefines`), so all of that holds of it too, and `HandlersInv` adds
which handler each operation holds (`TraditionalHandlers`); `TraditionalDone` is
`StreamsDone` through the refinement.

**`AwaitableStreams_proof`.** The invariant is a conjunction over readers: what a
frame awaits agrees with what its OVERLAPPED does and how far its connection is
(`Awaits`), a connection moves from the backlog to the AcceptEx to its
ServeClient (`Served`), and nothing happens before `Server()` was called
(`Before`). Since a step touches one reader or two, it is proved in a form with
one formula per reader (`EachIInv`, `Parts`). `AwaitableCounted` bounds from both
sides how far a reader's count is off (Awaitable.cpp:56): a reader may well end
without its bytes. `AwaitableRestsFreed` needs that a connection is always with
somebody and a writer freed only for cause (`Attended`), which every step keeps
because what becomes of a connection goes one way (`Forward`).

Only model-checked: everything that is live (the liveness half of the
refinements to `MultiLookup`, `EchoKeepsGoing`, `ServerCleansUp`, `ClientReports`,
`Served`, `FramesFreed`, `FrameGoes`, `EndsByItself`, `EveryReaderEnds`,
`WritersDestroyed`), which is out of the prover's reach. Every other property
of the passing runs is proved. `RestsWhenOver`, `IdleWhenServed`,
`RestsWhenFreed` and `NeverStuck` are the part of it that can be proved: where a program is not
done, something can go on. That it then gets done is what TLC checks.

## 6. Not modelled, and why

- The driver programs, random numbers, command lines, time measurement,
  printing: no state that a property could be about. Their arguments are the
  constants of the modules.
- `tcalloc` compares block sizes the wrong way round (coro_infra.h:78); only one
  size is ever asked for, and the model has one.
- PAL.cpp's array of 64 thread handles overflows with more than 28 readers
  (PAL.cpp:166); main.cpp has 1, and the models count no thread handles.
- over1.cpp, over2.cpp: one thread posts one handler a million times, to measure it;
  first.cpp has one coroutine that never suspends. The parts under `#if 0` are not
  compiled.
- The generators of 2016_Jax: one caller, one frame, no interleaving; they show
  what a compiler makes of the source.
- A client with several sessions: they share nothing but the timer and the sums.
- The depth of the stack when `then` continues inline in easy.cpp, and the values
  of futures other than whether they are errors.
- Boost.Asio, Winsock and the completion port are external: modelled by what the
  code relies on. How much memory a handler takes is a parameter.
- Clients of the echo servers that do not read what comes back, other than
  myclient.cpp itself.
- Errors of the other calls in PAL.cpp (bind, listen, the creation of sockets and
  ports), each of which ends the program at once.
- Weak memory and data races: handlers of one object never overlap (`OneOwner`,
  the strand, `DeletedOnce`), so the models' atomic handlers leave out no
  interleaving of their members; the atomic counters are one step each.

## 7. The plan

Done, in this order: the lookups and their abstract specification, because every
property of theirs can be proved; the echo sessions and their composition; the
completion port with its callback and coroutine clients; the proofs about
`CoroLookup` and `EchoSystem`; then the rest of the client (`BenchClient`), the
four echo servers with their acceptors (`EchoServers`), the abandoned timer
(`StopTimer`), the handlers of Traditional.cpp (`TraditionalStreams`); and the
proofs about each of these, `SmLookup`, `IocpStreams` and `AwaitableStreams`, and
of `EchoSystem`'s bytes; then naive.h for vectors of every length, the sums that
nanotest compares, the order of the servers' bytes, what the end of the streams
means, and the states in which an echo, a server, the readers or the coroutines
rest.

Left:

1. The same for `StopTimer`: that nothing rests there before main has ended.
2. Several sessions in `BenchClient`, which would sum over the sessions what is
   now proved of one.
3. Liveness for every value of the constants, which waits for a prover.
