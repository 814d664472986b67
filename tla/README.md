# A TLA+ model of ayafileio

ayafileio gives asyncio programs file I/O with completions of the kernel or of a
thread pool.  Its core is C++ (`src/core`, `src/backend`, `src/bindings/python`); these
modules model the parts of it whose correctness depends on the order in which threads,
callbacks and system calls run.

## Inventory

The program has one event-loop thread per loop, which calls into the extension, and
completing threads: workers of a process-wide pool, the io_uring reaper, IOCP workers or
Dispatch queues.

| Part | State | Operations | Talks to | What is hard | What makes it correct |
|---|---|---|---|---|---|
| Thread backend (`backend/thread`, `core/io_backend`) | `running_`, `fd_`, `m_pending`, `m_close_wake`, deadline | read, read_at, write, readinto, seek, tell, truncate, flush, close, destructor, completion | pool (tasks), operation (completion) | close against tasks in flight; count and semaphore are two steps; a deadline; closed() tested before counting | descriptor released only when drained, no lost wake-up, exact count, close returns |
| Result delivery (`bindings/python/result_batcher`, `py_future`, `py_async_file`) | `m_batch`, `m_dispatch_pending`, `m_outstanding`, `submitted_`, `remaining_`, futures | submit, push, flush, drain, flush_if_idle, read_many, cancel | asyncio (`call_soon_threadsafe`) | several completing threads, inline completion, failing callbacks, a loop that closes | one drain per flag, no result lost or left behind, read_many answers once at its end |
| Global pool (`core/global_thread_pool`) | `m_running_workers`, `m_target`, `m_workers`, `m_tasks`, stop | ensure_started, enqueue, target_workers, worker loop, shutdown | backends, configure(), cleanup() | atomics read outside the mutex; resize while resizing | count equals live workers, target reached, tasks run |
| File state (`core/file_state`, `file_lifecycle`, `platform/native_file`) | `file_pos_`, `cached_size_`, the file | plan_read, plan_read_at, reserve_write, seek, apply_truncate, size refresh, pread, pwrite, ftruncate | every backend | place taken at the call, bytes moved later in any order; a cache of the size; other processes | disjoint ranges, no lost write, no false end of file, behaves as a file |
| io_uring (`backend/linux`) | ring, overflow list, reaper, poll of `event_fd` | submit, reap, inline harvest, close, cleanup | delivery | full queue, reaper stop, two harvesters | each completion delivered once, nothing stuck in overflow |
| IOCP (`backend/windows`) | sessions, requests, quarantine, workers | submit, packet, release, close | delivery, sweep | synchronous completion against packet, stale packets | each request resolved once and freed after its packet |
| Dispatch I/O (`backend/macos`) | channel, serial queue, duplicate descriptor, count | inline, channel and parallel reads, write, close | pool, delivery, GIL | handlers against close, two timeouts, chunks that end on several workers | as the thread backend; the buffer outlives its writers |
| Registry of batchers, loop contexts | cache by loop address, retired batchers | find, retire, flush_idle, next_timeout | delivery | reuse of an address | a loop gets its own batcher |
| Configuration | one record under a lock | configure, reset, getters | all | read-modify-write | no lost update |
| Buffers, requests (`core/buffer`, `core/buffer_pool`, `core/io_request`) | size-class buckets, thread-local caches, free lists | acquire, release, move, reset, give away, clear, refresh_config | backends, results | taken by one thread, given back by another; limits that change; threads that end | one owner, no leak, large enough |
| Opening (`core/backend_registry`, `py_open_async`, `py_whole`, constructors) | descriptors, configured backend, in-flight count | open, wrap, aopen, whole read, fallback to the thread pool | all backends, pool, delivery | a step fails after the file was opened; two backends try one after the other; other processes | one owner per descriptor, the count exact, one true answer per call |
| Python handle and text | read-ahead, newline state | read, readline, chunk, write | native handle | newline across chunks | text as `io.TextIOWrapper` gives it |
| Probes, diagnostics, tools | tables | — | — | — | not modelled |

`PROJECT.json` lists the components with their status and, under "hazards", what in this
code a test would hardly reach, each at its line.

## Modules

| Module | Models |
|---|---|
| `CloseBarrier` | abstract: what closing a file promises |
| `ThreadBackend` | one `ThreadIOBackend`: submission, workers, completion, close_impl, destructor |
| `ResultBatcher` | delivery of results to one event loop, with read_many |
| `ResultBatcherProofs` | theorems about `ResultBatcher` |
| `GlobalThreadPool` | the pool |
| `ThreadProofs` | theorems about `ThreadBackend` and `GlobalThreadPool` |
| `FileBytes` | the bytes of a file under pwrite, ftruncate, pread |
| `PlainFile` | abstract: a file object without a cache, for a program that awaits its calls |
| `FileIO` | `FileState` with the calls and tasks that use it |
| `FileIOProofs` | theorems about `FileIO` |
| `Uring` | one io_uring instance with the files that share it |
| `UringProofs` | theorems about `Uring` |
| `Iocp` | sessions, requests and completion packets |
| `IocpProofs` | theorems about `Iocp` |
| `Gcd` | one `MacOSGCDBackend` |
| `Registry` | batchers by loop address, and the settings configure() gives them |
| `RegistryProofs` | theorems about `Registry` |
| `Opening` | how files come to be open, on every platform, and whole-file reads |
| `HandleProofs` | theorems about `Gcd` and `Opening` |
| `Buffers` | memory of requests and results: pool, thread caches, `Buffer`, request memory |
| `BuffersProofs` | theorems about `Buffers` |

The modules are separate because the code separates them.  `ThreadBackend` reduces the
pool to "at most NumWorkers tasks are in progress" and delivery to its last step,
`GlobalThreadPool` has tasks without content, `FileIO` has calls whose bytes matter and no
close.  The handshake of `m_pending` and `m_close_wake` is taken apart in `ThreadBackend`
only; `Uring` and `Gcd`, which use the same code (core/io_backend.cpp), take it as one step.
`ThreadBackend`, `Uring` (for each of its files) and `Gcd` implement `CloseBarrier`,
`FileIO` implements `PlainFile`.  Definitions of the form "Mutant of X" are variants of X
with a plausible fault; no specification uses them.

### ThreadBackend

Every variable is a member of the object (or the control state of a thread): `running`,
`fd`, `pending`, `wake` are `running_`, `fd_`, `m_pending` and the permits of
`m_close_wake`; `stage[o]` is how far an operation is, `cpc[c]` where a call of
`close_impl()` is.  A step is one atomic operation or one piece of code that touches no
shared state: `Enter` (closed()), `FinishInline`, `Enqueue` / `EnqueueThrows`, `StartTask`,
`Execute`, `Uncount` (fetch_sub), `Signal` (release), `Deliver`; `BeginClose`
(compare_exchange), `TestPending`, `Acquire` / `GiveUp`, `ReleaseFd`, `ResetFd`, `Destroy`.
`make_req*` and `m_pending.fetch_add` are one step with the hand-over to the pool: no
other thread sees the request before.  A system call may succeed or fail; on a descriptor
number that has been closed it may hit another file ("foreign").

`OneCaller` says that calls on the object do not overlap: one event loop owns the handle
and `close()` blocks its thread.  The run has it TRUE, the proofs need it only where they
say so.  `OwnsFd` is `m_owns_fd`.  `MayThrow` lets handing a task to the pool throw; the
count is then not taken back (stage "leaked").

`DrainedWhenReleased` stops at the decrement of `m_pending`: between `fetch_sub` and
`m_close_wake.release()` (core/io_backend.cpp:8-9) the closing thread may already have
left, and the destructor may have run.  The model shows that window (stages "uncounted"
and "signalled" are allowed there); it is listed as a hazard.

### ResultBatcher

`phase[a]` is where the completion of an operation (or the idle sweep) is; `batch`,
`dispatch`, `outstanding`, `submitted`, `remaining` are `m_batch`, `m_dispatch_pending`,
`m_outstanding`, `submitted_`, `remaining_`; `drains` counts the callbacks scheduled on the
loop.  Each section under `m_mtx` and each atomic is a step; completing threads run
concurrently, and the GIL orders nothing (the extension can be built free-threaded,
src/CMakeLists.txt:203).  The loop thread does one thing at a time: submit, loop over the
spans of a read_many, harvest inline, drain, cancel, close.

Abstractions: `m_has_pending` is "the batch is not empty" (the code sets and clears them together
under the mutex); the adaptive threshold is any number up to the cap, since the median of measured
intervals can be anything; time is absent: the idle sweep may run whenever the batch is not empty
and `timed` holds, which says that some IOCP worker is awake or waits with a time limit.
`WaitForPackets` is the choice of that limit (iocp_worker.cpp:127-134,
result_batcher.cpp:334-336): no limit if it finds the batch empty.  A push by an IOCP worker or
while one is awake leaves `timed` TRUE, one by a pool thread (flush, aopen, whole read) posts
nothing to the port, so each push keeps or sets it; `call_soon_threadsafe` fails at most once per
completion.  `finished()`, which only a native open that was refused needs, is in `Opening`, the
setters that configure() calls are in `Registry`.

### GlobalThreadPool

`workers` and `target` are the two atomics (`m_running_workers`, `m_target`), `wpc` where each
`worker_loop` is, `resize` the locals of a `target_workers` call in progress.  The mutex is held
during a resize, so `Unlocked` guards what takes it.  Threads that have exited may be created
again and `Spawn` takes the first free names: they are interchangeable.  `Create` makes them one
by one, and the next may throw: then the target of a growth is set and its count is not, a first
start leaves threads that no count knows.  `shutdown()` takes no mutex; cleanup() calls it, and
configure() does not run beside it.  `MaxResizes` bounds resizes, which follow each other at any
pace.

`slips` is a history variable: "threw" (a thread could not be created), "forgotten" (a growth
stored a count read before a worker retired) and "stale" (a worker retired for a target that had
been raised meanwhile).  The code guards against none of these, and the properties say what each
can do: only "forgotten" makes the count too high, only "threw" too low, and the target is missed
only after one of the three.

### FileIO

`file` is what is on disk, `pos` and `cached` are `file_pos_` and `cached_size_`, `call[o]`
the read or write and the place it has reserved.  `Read`, `ReadAt`, `Write`, `WriteAt`,
`Seek` and `Truncate`/`ApplyTruncate` run on the loop thread, `PerformRead`,
`PerformWrite`, `AskSize` and `StoreSize` on workers in any order.  A byte is the call
that wrote it, so an overwritten or misplaced byte is visible.  `append` is `append_mode_`,
either value from the start, `oAppend` whether the descriptor has O_APPEND: the POSIX branch of
native_file.hpp sets it in append mode, a wrapped descriptor may bring it along, and the Windows
branch ignores it (:89-110), so that pwrite goes to the reserved offset (:178-196).  `Landing` is
where a write lands, given that flag.  `KnowsSize` the constructor that wraps a
descriptor (it stores the size) against the one that opens a path (it does so in append
mode only), `OneAtATime` a program that awaits each call — its answers are then forgotten
at the next call, so that any number of calls fits a small state — and `Shared` another
process that appends.  A failing fstat and the wrap-around of 64-bit offsets are left out.

### Uring

`sq`, `overflow`, `kernel` and `cq` are where a request can be: prepared, waiting for room,
taken, completed.  `rpc` follows `reaper_loop`: `TestStop`, `WaitCqe`, `ReapAll`,
`DrainOne`/`DrainSubmit`/`DrainEnds` (`uring_drain_overflow`), `Rearm` (the poll of
`event_fd`), `Deliver`; `lpc` is the loop's thread: `Submit` or `SubmitOpen`, then
`TryHarvestInline` and `DeliverInline`, or a close (`BeginClose`, `EndClose`).  Inline
harvest and reaper take from the same completion queue.  With SQPOLL a kernel thread
(`SqThread`) takes what has been prepared, without it io_uring_submit() does.  A completion
is one step from the count to the delivery.  `SubmitMayFail` lets io_uring_submit() fail,
`PollMayFail` lets the poll end because the thread that armed it exits, `ReaperMayFail` lets
io_uring_wait_cqe() answer an error other than EINTR and EEXIST, which ends the reaper for good
(`ReaperFails`, io_uring_backend.cpp:119-120).

### Iocp

A request is a block of memory that is used again, and a packet names a session and a block:
`req[b]` says which operation the block stands for now, `shelf` and `free` count its entries in
quarantine and in the free lists, `packets` is what the ports hold.  `loop` is the thread that
submits: `Enter`, `FinishInline`, `Flush`, `Count`, the three outcomes of ReadFile/WriteFile, and
for a success the three steps `SyncUncount`, `SyncResolve`, `SyncDeliver`; or that closes:
`BeginClose`, `Cancel`, `CloseSession`.  `worker[s]` is `ProcessOne`, `WorkerUncount`,
`WorkerDeliver`; `Flush` hands its task to the pool or, if that throws (iocp_submit.cpp:316-321),
leaves both counts too high (stage "leaked"); `Reclaim` is the end of the quarantine, `all` the
console handler, which closes every session beside whatever runs.  `Duplicates` and `Stray` say
which packets the kernel posts beyond the documented ones; the quarantine is there for these.  It
is a number of milliseconds in the code; in the model a block is not used again while a packet for
it is on its way, which is what that number is meant to give.

### Gcd

`route[o]` says how a request is served: read at once from resident pages, by the
Dispatch I/O channel, by one task of the pool, or by a task per chunk.  `queue` is the
object's serial queue, on which the channel's handlers, its cleanup handler and the barrier of
close_impl() run; `io` is what libdispatch does.  `cpc` follows close_impl(): `WaitEnds`,
`StopChannel`, `AwaitCleanup`, `EnterBarrier`, `PassBarrier`, `ReleaseFd`.  Handlers take the
GIL to complete a future; `gil` says that the caller of close_impl() keeps it.

### Registry

`get_or_create()` is `Find`/`Miss` (lookup, which retires the batcher of a dead loop),
`Construct`, `SetCandidate` (the settings it takes over) and `Insert` (second lookup); `look[l]` is a
stack of such calls, since building makes Python objects and a finaliser may call again.
`NewLoop` and `Collect` reuse an address.  `Get` to `Return` are the steps of configure(): copy,
change, store, and one setter of one batcher at a time.  `LoadMax` and `StoreThreshold` are
the two halves of `update_adaptive_locked`.  Two settings, with two values each, stand for all.

### Opening

`desc` is the descriptor table of the process, with the call that opened each number and what
for; `call[c]` is one call of the program with its control point.  A constructor of
`FileHandle` goes through `Open...` or `Wrap...` of a backend, then `InitChannel` (macOS) or
`CreateSession` (Windows), each of which may fail; `FallBack` is the `catch` of
core/backend_registry.cpp:78 and :95.  `OpenAsync` tries the native open (`SubmitNative`,
`KernelOpens`, `CompleteNative`), which answers FALSE on other backends (`FinishNative`),
and then the pool (`EnqueueOpen`, `RunOpen`).  `ReadWhole` is followed by `OpenWhole`,
`StatWhole`, `AllocateWhole`, `ReadSome`, `CloseWhole`.  `Complete`, `CompleteInline` and `Drain` are
the delivery reduced to the count and the flush of the last operation.  Other processes
create and resize the file (`OtherCreates`, `OtherResizes`), the program closes descriptors
it has lent (`ForeignClose`), configure() changes the backend between any two steps.
`astray` records that a number was closed that was not the caller's.

### Buffers

`store` is all the memory: the size of each block, the thread-local caches, the buckets of
`m_pools`, `m_total` and the cached limit.  A `Buffer` is a block, whether it is of the pool, and
how much was asked for; requests and results (`Completion`) have one each.  `Acquired`
is `Buffer::pool` (the cache, `FirstFit`, then the bucket `lower_bound` finds, then malloc),
`Reset` the destructor; `MakeReq`, `MakeHeapReq`, `MakeViewReq` are the `make_req*` functions,
`CompleteRead` the completion that moves the Buffer into the Completion before REQ_FREE,
`Complete` the others, `DropResult` the end of the Completion on the loop, `ThreadExit` the
end of a thread with its `thread_local` vectors.  Any thread may complete what another has submitted.
A call on the pool is one step: what it reads outside `m_mutex` belongs to its thread.  The sizes
asked of the pool are any, as its interface allows; in this tree the flush of io_uring asks for
0 bytes and the writes of Dispatch I/O for theirs.

## Runs

All runs pass:

| Run | Instance | Shows |
|---|---|---|
| ThreadBackend | 3 operations, 1 close(), destructor, 2 workers, one caller, owned fd, submissions that throw | exact count, no lost wake-up, every operation ends, close returns without its deadline unless a submission threw, refinement of CloseBarrier |
| ResultBatcher | 3 operations, worker and inline completion, cancel, loop.close | one drain per flag, nothing stranded with the in-flight count at zero, every entry leaves the batch |
| ResultBatcherSweep | 1 operation, 1 read_many of 2 spans, sweep, all failures | no result lost, read_many answers at its end only, the idle trigger works while a worker is awake or its wait has a limit |
| GlobalThreadPool | 2 tasks, 3 threads, sizes 1 and 3, 2 resizes at any pace, threads that cannot be created, shutdown | the count errs only on the side of what has slipped, target reached unless something slipped, tasks run unless shut down or the count forgot |
| FileIO | all calls awaited, append mode or not, O_APPEND or not, sizes 1 and 2, offsets to 3, I/O errors | refines PlainFile: the cached size is invisible |
| FileIOShared | 3 calls in flight, append mode or not, O_APPEND or not, another process appending, errors | disjoint ranges, no write lost unless appended without O_APPEND, no false end of file |
| Uring | 2 requests, 2 files, submission queue of 1, inline harvest of 1, with and without SQPOLL, a poll that ends unasked, a wait that fails | each request in one place and counted once, what is in the ring is delivered unless the reaper is told to stop or has failed, the reaper stops, each file refines CloseBarrier |
| Iocp | 2 operations, 2 sessions, 2 blocks, packets twice and late, flushes that cannot be submitted, close of one and of all sessions | a packet ends its own operation and only once, blocks are never shared, a handle is closed drained or after the deadline, closing ends, without its deadline unless a flush was lost |
| Gcd | 2 requests of 4 routes, 2 chunks, throwing submissions, both timeouts | count, chunks and channel settled when close and completion rely on it, close returns, the channel's requests are answered and its descriptor is closed if its I/O ends, refinement of CloseBarrier |
| Registry | 2 loops, 1 address, 2 batchers, nesting of 2, 2 configuring threads | a loop gets its own batcher, no batcher lost or destroyed twice, settings reach all active batchers when nothing runs beside configure() |
| Opening | 2 calls of any kind, 3 platforms, 3 descriptors, modes "w" and "x" | one owner per descriptor through every failure and fallback (but for a whole read without its buffer), only a disowned object on macOS the first to close what is not its own, exact in-flight count, true answers, every future answered |
| Buffers | 2 threads, 2 requests, 1 result, 3 blocks, sizes 0, 6 and 10 in classes of 4, 8 and 16, caches and free lists of 1 entry, limits 1 and 2 | one owner for every block and every request, nothing leaks or is used after it was freed, blocks are large enough, `m_total` is exact |

### What else the models show of the code

These lie outside the assumptions of the passing runs.  Each can be seen by changing the
constant, or adding the property, that is named.

Thread backend:

- An operation between the closed() test and the increment of `m_pending`
  (thread_io_backend.cpp:125) is not seen by a close on another thread, which releases the
  descriptor under it (`ImplementsBarrier` with `OneCaller = FALSE`, one operation suffices).
- A second close() beside the first returns at once (:335), while the first still waits.
- A submission that throws keeps `m_pending` raised (:137): only the deadline ends the close.
- The deadline passes with tasks queued, which then run on the number of a closed descriptor
  (`result = "foreign"`); `CloseBarrier` permits it when overdue.

Delivery:

- The last operation in flight may be a span of read_many: its `op_completed()` answer is
  ignored (py_future.cpp:375) and a pushed result stays (`LastOpFlushes` with
  `Batches # {}`).
- Where nobody sweeps (every backend but IOCP) the idle timeout of result_batcher.hpp:25
  does not exist: a result below the threshold waits for the slowest operation in flight
  (`IdleTrigger` does not speak of it, since `timed` is FALSE there).
- With IOCP the same happens to a result that a pool thread pushes while every worker waits
  INFINITE, having found no batch (result_batcher.cpp:334-336, iocp_worker.cpp:127-134): no packet
  comes for it.  `IdleTrigger` without its premise `timed` fails in `ResultBatcherSweep`.
- A submission that throws after `submitted()` leaves `m_outstanding` too high for ever
  (`SubmitThrows`; `thrown` in `Opening`); from then on only the threshold and the sweep flush.

Pool:

- Shrink, then grow while a worker retires: the plain store of the new size
  (global_thread_pool.cpp:71) forgets the retirement ("forgotten"): the count stays above the
  number of threads, though global_thread_pool.hpp:28 says that it is their number.  The next
  shrink may then retire all of them, and tasks stay in the queue.
- A worker that has read a small target and retires after the pool has been told to grow
  takes the pool below its target for good ("stale").
- A thread constructor that throws leaves the count below the number of threads ("threw",
  :34-48 and :63-71): a later growth makes too many.

File state:

- A file opened by path starts with a cached size of zero (thread_io_backend.cpp:60): after
  a write, a read to the end stops at what was written (`ReadsToEof` with `KnowsSize = FALSE`).
- The size is read and stored in two steps (thread_io_backend.cpp:106): a write_at in
  between is forgotten and a later read to the end stops short (`ReadsToEof`).
- A short write leaves a gap before the next one (`WriteLoops` with "short" in `Faults`).
- A `write_at()` in flight has raised the cached size: a concurrent `read()` plans over
  bytes that are not there yet, delivers fewer, and has moved the position over all.
- On Windows there is no O_APPEND: the offset of an append is the cached size, which a
  read at the end of the file sets back while an append is in flight; the next append then
  overwrites it.  tests/python/test_backend_conformance.py:207-219 expects every append at the end;
  `WritesKept` excuses append mode without the flag (`append => oAppend`).

io_uring:

- Only the reaper drains the overflow list.  If the inline harvest takes the last
  completion, the reaper sleeps (io_uring_backend.cpp:179) and the request in the list is
  submitted when something else completes, perhaps never: docs/CHANGES.md:533 promises
  otherwise (`Resubmitted`, one file and SQPOLL suffice).
- The answer of io_uring_submit() is ignored (uring_pool.cpp:155): `TakenIsDelivered` fails
  with `SubmitMayFail = TRUE`.
- The poll of `event_fd` is not armed again when the submission queue is full
  (io_uring_backend.cpp:138-146); the join in stop_reaper() then waits for ever.
  `StopReturns` excuses this case.
- An error of io_uring_wait_cqe() ends the reaper (io_uring_backend.cpp:120) and nothing starts
  another: what is in flight is delivered only by inline harvests, and a close ends by its deadline.
  `TakenIsDelivered` excuses a reaper that has failed.

IOCP:

- With a packet that comes although FILE_SKIP_COMPLETION_PORT_ON_SUCCESS is set, before the
  submitting thread has resolved the request (iocp_submit.cpp:117-119), both complete it
  (`EndsItsOwn` with `Stray = "early"`).
- A submit_flush whose ensure_started() or enqueue() throws after the counts were raised
  (iocp_submit.cpp:316-321) is counted for ever: the close of that session ends by its deadline
  only.  `SubmitCloseReturns` excuses these sessions, `PacketsAccounted` counts such flushes in.
- The console handler may close a handle between unavailable() and ReadFile; and it clears
  the map while submit_close() waits, which then ends by its deadline.  Shutdown drops
  packets that no worker has dequeued.

Dispatch I/O:

- `_close_impl()` (py_async_file.hpp:33, called at exit) keeps the GIL.  A handler on the
  queue waits for the GIL to complete its future, the cleanup handler waits behind it, its
  timeout passes, and `dispatch_barrier_sync` (macos_gcd_backend.cpp:423) never returns.
  docs/CHANGES.md:754 says the GIL is released there (`ChannelCloseReturns` with
  `GilHeld = {TRUE}`, one operation suffices).
- try_inline_read passes on the -1 of pread, so that its error is always number 1
  (macos_gcd_backend.cpp:382-384).
- If the cleanup handler misses its timeout (:419), handlers come after the object is gone.
- A chunk that reads less than asked in the middle of a parallel read is summed up with
  the later ones (:189-193).
- If handing over a chunk throws after another was handed over (:179), the read is never
  completed and stays counted.
- A write whose channel operation is made from a copied buffer keeps the copy (:282-284).

Settings:

- Two overlapping configure() calls lose an update (py_config.cpp:79-148); a batcher built
  during one misses it, against docs/CHANGES.md:398 (`SettingsAlwaysReach`); a
  recomputation of the threshold brings an old cap back until the next push.

Opening:

- A whole read whose buffer cannot be allocated (py_whole.cpp:50) throws past the close() of
  the file it has opened: `lost` in `Owned`.
- With a descriptor to own on macOS, a failing init_channel() closes it and the thread pool
  then wraps the closed number: closed twice, perhaps another file's by then.  `Disowned` in
  `Owned` is such an object; the run reaches it and the second close.
- An exclusive open whose native backend gives up after the creation is tried again by the
  thread pool and answers FileExistsError for the file it has created: `refused` in
  `Truthful`.

Buffers:

- `drain_buffer_pool()` clears the shared pool only: every thread keeps up to eight buffers
  in its cache, though README.md:349 says that all are released (`PoolClear` leaves
  `store.cache`).
- A released buffer goes to the cache of the thread first, so `total_buffers()` stays 0 after
  the release in tests/core/test_main.cpp:52-53, which asserts otherwise.
- What a thread has cached when it ends is never freed: the vectors hold raw pointers
  (buffer_pool.hpp:114, io_request.cpp:12).  `lostBlocks` in `MemoryAccounted`.
- A small write of Dispatch I/O gives its buffer away (macos_gcd_backend.cpp:284) after
  `dispatch_data_create` with the default destructor has copied it: also in `lostBlocks`.
- `lower_bound` may find an empty bucket (buffer_pool.hpp:52); memory is then allocated
  although a larger bucket has a block.  It takes pooled blocks of several classes, which only
  direct users of the pool make.

The type invariants of `ThreadBackend`, `GlobalThreadPool`, `FileIO` and `Buffers` are
proved for every instance (below), so that no run repeats them.

### Bounds

Three operations give every pairing of a first, a last and one in between in the count, the
semaphore and the batch; close and the destructor give a winner and a loser.  A threshold of two
is the least that a single result does not reach, a width of two the least with a last span and
another.  Three threads allow a pool of one, two and three.  File lengths up to three hold two
adjacent calls and a gap.  A submission queue of one is full after one request, so that the second
overflows, and beside the poll; an inline harvest of one leaves something to the reaper.  Two
blocks are fewer than the packets of two operations that come twice.  Two chunks have a last and
another.  Two loops are a dead one and its successor at one address.  Two calls of `Opening` are
one that fails and one that takes the number it has closed; three descriptors are the least for an
object with its duplicate and another; a size of two allows a short pread.  In `Buffers` three
blocks are one in use, one in a cache and one in a bucket; a cache of one is full after one
release, a limit of one after two.  All bounds are CONSTANTS of the cfg files: `MaxThreshold` and
`MaxResizes` in the guards, `MaxLen` for offsets, `MaxBatchers` and `MaxNest`.  Deadlock is
checked for `Buffers`, whose program never ends; every other model may come to rest (all calls
made, nobody obliged to make another).

### Fairness

A thread inside a call goes on, workers run, the pool takes the tasks it is given, queues run
their blocks, callbacks scheduled on an open loop run, and an IOCP worker wakes from a wait with a
time limit (not from one without: `Sweep` then is not enabled).  No program is obliged to call
anything.  Beyond that:

- ThreadBackend: no deadline need pass; `CloseReturns` holds through completions alone.
- ResultBatcher: in `FairSpec` operations in flight end.
- Uring: the kernel ends the requests it has taken, its SQ thread runs, the deadline of a close
  passes; the poll ends only when asked to stop.
- Iocp: a request in the kernel need not end unless it is cancelled or its handle is closed.
- Gcd: the first deadline passes; I/O of the channel need not end (`IoEnds` is a premise
  of `ChannelFinishes` alone).
- Opening: the kernel ends the opens of io_uring; objects need not be destroyed.

## Proofs

`ThreadProofs` proves about `ThreadBackend`, for any finite set of operations, any
set of close calls and any positive number of workers (the named assumptions of the
module):

- `TypeCorrect`: the types; `PendingExact`, `Wakeups`: the invariants of the run;
- `Drained`: the descriptor is released late enough, which the run checks as part of
  `ImplementsBarrier`;
- `Refinement`: if calls do not overlap, every behaviour is one of `CloseBarrier`.

None of the invariants that need close_impl() is inductive alone.  `Inv` joins the type
invariant and `PendingIsExact` with `OneCloser` (the compare_exchange admits one thread, so
nobody else can take the permit a closer waits for), `NoLostWakeup`, `ReleaseIsLate`
(nothing goes before the wait is over), `GateHolds` (one caller: with `running_` cleared
nobody is between closed() and `m_pending`, and after the wait nothing is counted) and
`ClosedIsDone` (needed to tell a refused operation from one that has left).  `GateHolds`
uses `PendingIsExact`: the test `m_pending > 0` speaks of operations only through it.
`CountedChange` relates one step of one operation to the cardinality of `Counted`; the
rest is one lemma per conjunct, one step per action.

`ResultBatcherProofs` proves about `ResultBatcher`, for any finite sets of operations and of
read_many calls, any width, with or without inline completion, sweep, throwing submissions
and failures (again the named assumptions of the module):

- `OneDrainAlways`: while the loop is open, `m_dispatch_pending` stands for exactly one drain;
- `NothingLostAlways`: while the loop is open, an answered operation keeps its result.

Here `Inv` joins the two with the types they need (`Shape`), `DiscardWhenClosed` (only a
refused `call_soon_threadsafe` of a closed loop empties the batch, and a loop does not open
again: without it `Discard` could drop results of an open loop) and `SpansAhead` (the spans
read_many has not come to are untouched: without it failing the rest of a read_many could
wipe out the span that is about to push, or a thread that is scheduling a drain).
`OneDrain` relates `drains` to the cardinality of `Scheduling`, which `BeginsOne` and
`EndsOne` move by one thread at a time; `NothingLost` goes through `Carried`, what a step has
to do to lose nothing, and `CarriedKeeps`.

The module goes on from that invariant:

- `TypeCorrect`: the types; `m_outstanding` is exactly the number of operations whose `submitted_`
  flag is set (`Counts`), leaked ones included, so it is never counted below zero;
- `AnswersAtTheEnd`: `ReadManyWaits`, for read_many calls of any width;
- `NothingStranded`: `NoStrandedResult`, for a program that makes single calls, where neither
  submitting nor Python fails (`OnlySingles`).

`Lefts` ties `remaining_` to the set of spans whose slot is empty; the span that takes it from one
to zero therefore finds its read_many untouched (`Untouched`), and `Answers` says that from there
the answer has one way: it is being finished by one span, in the batch, or given.  `NothingStranded`
needs the count to be exact from the other side, with no flag set that nobody will look at
(`NoneLeaked`): then a completion that counts down to more than zero leaves another operation in flight.
With a leaked flag or a failed `call_soon_threadsafe` it does not hold, and with read_many a span may be
the last to count down and not flush; these need the idle sweep (`IdleTrigger`).

`ThreadProofs` also proves about `GlobalThreadPool`, for any finite set of threads, any
sizes up to their number and any number of tasks and resizes:

- `PoolTypeCorrect`: the types, overlapping resizes included, so that the worker count does not
  wrap: a thread about to retire has seen more workers than it wants, and wants at least one;
- `CountCorrect`: `CountIsLive`, with resizes at any pace and threads that cannot be created.

`CountIsLive` is two bounds: the count is at most the number of live threads unless a resize has
forgotten a retirement, and at least that number unless creating a thread has thrown.  It says
nothing while the pool is shut down; `Counting` fills that in (zero between the exchange and the
joining).  The step that needs it is `Grow`, which stores a size computed from a count read before:
`Resizing` shows that until a retirement is forgotten nobody has retired in between.  Who does so
all the same read a target before that of the resize; `WorkCounts` says that a step of a thread
moves the count away from the number of threads in this way only, `CreateCounts` what creating
threads does to that number when it ends with an exception, `OtherCounts` the rest.  `slips` keeps
which of these have happened, so that each bound is lost to its own cause and to no other.

`FileIOProofs` proves about `FileIO`:

- `TypeCorrect`: the types, for every program and any `Calls`;
- `Disjoint`, `WritesAreKept`: for a program that reads, reads at offsets and writes, with any
  number of calls in flight (`ReadsAndWrites`), calls that share the position never share a
  byte, and every byte that a write() has transferred is in the file, in append mode only if the
  descriptor has O_APPEND;
- `EndIsTrue`: for every program, other processes, failures and a size that was never stored
  included, a read is answered with no bytes only if the file ends there (`NoFalseEof`);
- `PlainFileImplemented`: for any sizes, offsets and number of calls, every behaviour is one of
  `PlainFile` if (`Awaits`) the program awaits its calls, nobody else writes the file, no system
  call transfers less than asked, and the file is opened with its size stored (as for appending),
  is empty then, or is never written to.  A file opened by its path for reading and writing does
  not meet the last part (thread_io_backend.cpp:60 stores no size).

Calls that share the position take a range each and leave the position behind it
(`BehindPosition`); without that nothing keeps the next range off the earlier ones.  For the
bytes, `Kept` says that what a write has transferred stands within the range it took (in append
mode, at the end of the file at that moment), and `OverlayBytes` what one pwrite does to every
byte.  With write_at, seek or truncate two calls may be given the same bytes, hence the
assumption.

The refinement takes `Awaits` because it is false without each of its parts: with two calls in
flight, another process that writes, writing to a file whose size was not stored, or system calls
that transfer less than asked, the cached size may differ from the size of the file, and a plain
file has no such cache.  Its invariant `Awaited` says that at most one call is under way
(`OneCall`) and that the cached size is that of the file except while a call is about to refresh
it (`SizeKnown`).  Then each step of `FileIO` is one of `PlainFile` or none (`PlainStep`): a call
that is planned begins, the system call that performs it transfers the same bytes at the same
place (`ReadEnds`, `WriteEnds`, by `SameBytes`), a failed one leaves the file alone, and
refreshing the size is not seen.  The mapping is spelled out in `FileIO` (`Cursor`, `InFlight`,
`Turn`, `Transferred`).

`HandleProofs` proves about `Gcd`, for any finite sets of requests and chunks, any way of calling
close_impl(), with or without throwing submissions:

- `AlwaysSettled`: the invariant of the run, all its parts;
- `Refinement`: every behaviour is one of `CloseBarrier`.

The invariant has two layers.  `Inv` is about requests: `Groups` (the counter of a group is the
number of its unsettled tasks, and larger for ever if some were never queued, so that only a
complete group can reach zero), `Serial` (the queue runs one block at a time, so a request taken off
the count by a handler is that of the head block) and `Closing` (after the first wait nothing is
counted, or the deadline has passed).  Each step is one of a few `Kinds` as far as the count
and the close are concerned; `CountStep`, `ClosingStep` and the refinement are proved from the kinds.
`Rest` is about the channel: `Lines` (the cleanup handler is submitted once and behind every
other handler, the barrier behind all), `Served` (a counted request of the channel has its I/O or its
last handler to come) and `Descriptors`; together they leave nothing on the queue when
close_impl() returns.

`BuffersProofs` proves about `Buffers`, for any number of threads, requests, results, any finite
set of blocks, any sizes and limits:

- `OwnersDiffer`, `BlocksAccounted`, `BuffersFit`: the three invariants of the run;
- `TypeCorrect`: the types.

The argument has three layers.  Caches, buckets and free lists are lists without duplicates:
`AddTo`, `TakeFrom` and `Emptied` say what appending, removing and clearing does to such a
family.  Above them `ChosenIsTaken` and `ResetIsGiven` state what the pool promises of a
well-formed store: a block that is taken was free and is large enough, one that is given back
is kept or freed, and no other block moves.  `Inv` is `Owned` and `Recycled`, the first
about blocks and the second about request memory, with one lemma per kind of step: take, reset,
move, give away, thread exit, clear.  `MemoryAccounted` could not be proved without
`OneOwner`: that a reset frees one block and no other rests on nobody else holding it.

`UringProofs` proves about `Uring`, for any number of requests, files and entries of the queues,
with or without SQPOLL, failing submissions and a poll that ends unasked:

- `RequestsAccounted`: `RingAccounted`, the types included;
- `FilesKeepTheBarrier`: every behaviour is one of `CloseBarrier` for each of the files.

`InOnePlace` is not inductive, and even the types are not without it.  `Places` adds `PollOnce` (the
poll is in one place or in the hand of the reaper, which arms it again: were it armed twice, the
reaper would take its completion for a request) and `Batches` (who takes a batch has delivered
the one before, so none is overwritten).  The harvest is a prefix without the poll (`HarvestedIs`,
`Parted`), the reaper's batch is all but the poll (`Removed`); there is one lemma per action.
`PendingIsExact` follows from the places (what is delivered was submitted and not yet delivered),
and the refinement from the count and from `Made`, by which a request that leaves a file is
counted for the file that made it.

`IocpProofs` proves about `Iocp`, for any requests, sessions and blocks of request memory:

- `PacketsEndTheirOwn`, `BlocksAndCounts`: the invariants `EndsItsOwn` and `PacketsAccounted` (types,
  blocks, and the pending count of every session, in which a flush whose submission threw stays);
- `ClosesDrained`: `DrainedWhenClosed`.

All three assume that no stray packet comes while a request is being submitted (`Stray # "early"`).
With such packets a worker ends a request that the submitting thread still handles, and `Iocp`
shows what becomes of it; no invariant covers both.  `BlockInOnePlace` says where the memory of a
request may be (in use, in quarantine until its packet has come, free), `LoopHolds` and `WorkersHold`
that a thread which has a request in hand is alone with it, `Requests` and
`Stages` how the state of a request, its block and its counts go together, `Packets` that a packet
under way has a request that waits for it, and `Counts` that the three counters are the
cardinalities of the requests they stand for.  An address that comes back is the point of
`EndsItsOwn`: that the packet of the old request is not taken for the new one's needs all of them.

`RegistryProofs` proves `LoopsOwn`, the invariant `RightBatcher` of `Registry` with its types, for
any loops, addresses, threads and bounds.  `RightBatcher` does not say why the batcher a call
is about to insert is right; `Inv` does.  `Stacks`: a call that has built a candidate keeps its loop
alive, so when it inserts, the address still belongs to that loop, and no other call of the stack has
the same candidate.  `Homes`: a loop lives at one address, and what its handles hold was made for
that address, so a batcher that is stale at the address of a living loop is held by nobody
(`StaleIsUnheld`) and retiring it takes it from nobody.  `Placed`: a batcher is a candidate, active,
retired or destroyed.  `Settings` is needed only because a setter of configure() writes to a batcher it
copied earlier, which must be one that was built.  `BatchersKeep` covers all steps of
configure() and of the pushes at once.

`SettingsArrive` proves `SettingsReach`: after a configure() or reset_config() beside which no
other such call, no creation and no push ran, and until the next, the record is what was asked and
every active batcher has both values, with its threshold within the cap.  `Reach` says why while
the call is under way: its copy of the record is the record (`Alone`, `Asking`), every batcher
that does not have the new value yet is still to be visited (`Refreshing`), and one that is being
made has read the record before the call and is found by it, or after (`Settled`).  If anything
ran beside the call (`raced`) an older value may come last; then the property says nothing until a
later call.

`HandleProofs` goes on with `Opening`, for any number of calls, descriptors and sizes, any builds and
modes (`OpeningAssumption`):

- `OpeningOwned`: `Owned`, the types included, a descriptor handed over on macOS among the
  cases: an open descriptor has one owner, and until a `Disowned` object is destroyed nobody but its
  owner closes it (`OwnedSoFar`); the first such close is that of such an object (`FirstAstray`).
  Nothing is said about what follows it, and a read whose buffer could not be had leaks (`lost`);
- `OpeningCounts`, `OpeningTruthful`: `OutstandingExact` and `Truthful`.

`Owned` is not inductive: it does not say which descriptor a call has at which point.  `OwnFd`
does (the argument while it is being wrapped, the opened file afterwards, none in between and none
once a native backend that refused the argument has closed it), and `FdsAreRight` says that the
descriptor table agrees with it in both directions; so what `GivesUp`, `Destroy` and `CloseWhole`
close is the caller's, and the number that is free is nobody's.  Only destroying a disowned object
leaves `FdsAreRight` (`Strays`), and that has happened for good (`AstrayStays`).  That the retry
of the thread pool does not wrap a number that is gone needs `Backed`: which backends a call can
have behind it on which build.  `Fields`, `ReadsRight` and `CreatorRight` say of the record of one
call what its fields mean at each point, with the creator and the size of the file: an untouched
reader's total is the size, and a call that has still to open cannot have created the file unless
it was refused.  All of it is a conjunction over calls, so a step is proved by what it makes of
one record (`Moves`, `QuietMoves`; `Fits` is the obligation of the action), while `LocalStays`
keeps the others through a creation, a truncation or a resize, and `CountMoves` the count.  One
lemma per action, `FileOpenStep` for the six that open by the path.

Model-checked only: the liveness properties and `ReadsToEof`.
Liveness and ENABLED are outside what the prover does.

## Not modelled, and the plan

Left out of modelled parts: the table of io_uring instances per loop with its reference counts (a
stale instance is found by an identity of the loop, under one mutex), the handle table of IOCP,
the mapping of a file on macOS (only asks which pages are resident), the validation of options,
the leak of a request whose path cannot be copied (native_open.cpp:53), `FileState` in the
backends other than the thread pool (they call the same functions at the same places).

Not modelled:

- text streams and the Python handle: sequential code on one loop, whose questions are about
  characters, which the modules abstract;
- probes of the platform, diagnostics, benchmarks and tools: not part of what the library
  promises;
- the memory orders of the atomics: each is taken as sequentially consistent.

What is left of the plan are compositions: the delivery half of `Opening` with `ResultBatcher`;
handle, pool and shutdown; the window between `fetch_sub` and `release()`
(core/io_backend.cpp:8-9) with the destructor.
