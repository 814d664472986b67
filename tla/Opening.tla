------------------------------- MODULE Opening -------------------------------
(***************************************************************************)
(* How a file comes to be open: AsyncFile(path), AsyncFile(fd), aopen()    *)
(* and read_bytes(); the choice of a backend and the fallback to the       *)
(* thread pool (core/backend_registry.cpp); the constructors of the four   *)
(* backends; the native asynchronous open of io_uring.  What becomes of    *)
(* the descriptors when one of the steps fails, of the count of operations *)
(* in flight, and of what a whole-file read answers.                       *)
(*                                                                         *)
(* All calls name one file, which other processes may create and resize.   *)
(* A constructor runs on the loop's thread, on a worker of the pool or on  *)
(* the reaper, without the GIL.  The result of an aopen() travels through  *)
(* the batcher; ResultBatcher models that, here it is pushed, flushed by   *)
(* the last operation in flight and drained.                               *)
(***************************************************************************)
EXTENDS Integers, FiniteSets

CONSTANTS
  NumCalls,     \* calls of the program
  MaxFd,        \* descriptors a process may have, numbered from 1
  MaxSize,      \* bound on the size of the file
  Platforms,    \* builds; "other" has no native backend or its probe fails
  Modes,        \* of the calls that open
  Nobody, Other \* the file does not exist; another process created it

ASSUME OpeningAssumption ==
  /\ NumCalls \in Nat /\ MaxFd \in Nat \ {0} /\ MaxSize \in Nat
  /\ Platforms \subseteq {"linux", "macos", "windows", "other"}
  /\ Modes \subseteq {"r", "w", "x"}
  /\ Nobody # Other /\ {Nobody, Other} \cap (1 .. NumCalls) = {}

VARIABLES
  platform,     \* the build
  backend,      \* Config::backend
  desc,         \* the descriptor table: who opened it, for what
  creator,      \* who created the file
  size,         \* its size while some call reads it whole, else 0
  call,         \* [Calls -> the call, see NoCall]
  outstanding,  \* m_outstanding of the loop's batcher
  batch,        \* calls whose answer waits in the batcher
  drain,        \* a drain is scheduled on the loop
  thrown,       \* calls that threw after submitted()
  lost,         \* whole reads that threw with their file open
  astray        \* a close() hit a descriptor that was not the caller's

env == <<platform, backend>>
fs == <<creator, size>>
delivery == <<outstanding, batch, drain, thrown>>
ghosts == <<lost, astray>>
openingVars == <<env, desc, fs, call, delivery, ghosts>>

Backends == {"io_uring", "dispatch_io", "iocp", "thread_pool"}
Fds == 1 .. MaxFd
Calls == 1 .. NumCalls   \* in the order in which they are made
Its(c, kind) == [call |-> c, kind |-> kind]
Unused == Its(Nobody, "free")
Foreign == Its(Other, "foreign")

\* op: what was called, "native" for an aopen() that io_uring took; backend: the
\* one being tried; arg: the descriptor to wrap; fd, chan: the numbers held;
\* 0 stands for none; owns: m_owns_fd; refused: the native backend gave up
\* after the file had been opened; touched: the file was resized since fstat.
NoCall == [op |-> "none", mode |-> "r", pc |-> "new", backend |-> "thread_pool",
           arg |-> 0, fd |-> 0, chan |-> 0, owns |-> TRUE, answer |-> "none",
           refused |-> FALSE, touched |-> FALSE,
           total |-> 0, filled |-> 0]

OpeningInit == /\ platform \in Platforms /\ backend = "auto"
               /\ desc = [n \in Fds |-> Unused]
               /\ creator \in {Nobody, Other} /\ size = 0
               /\ call = [c \in Calls |-> NoCall]
               /\ outstanding = 0 /\ batch = {} /\ drain = FALSE /\ thrown = {}
               /\ lost = {} /\ astray = FALSE
------------------------------------------------------------------------------
(* The registry of backends.                                               *)

\* register_builtin_backends: what the build tries before the thread pool.
Native == CASE platform = "linux"   -> "io_uring"
            [] platform = "macos"   -> "dispatch_io"
            [] platform = "windows" -> "iocp"
            [] platform = "other"   -> "thread_pool"

\* BackendRegistry::effective_backend.
Effective == IF backend = "thread_pool" THEN backend ELSE Native

\* BackendRegistry::wrap: Windows does not ask.
WrapsWith == IF platform = "windows" THEN "iocp" ELSE Effective

\* configure({"backend": ...}).
Configure == /\ backend' \in {"auto", "thread_pool"} \ {backend}
             /\ UNCHANGED <<platform, desc, fs, call, delivery, ghosts>>
------------------------------------------------------------------------------
(* Descriptors and the file.                                               *)

Free == {n \in Fds : desc[n] = Unused}
Lowest == {n \in Free : \A m \in Free : n <= m}   \* one number or none

\* The call with its fields as in r, at pc; what it needs no more is dropped.
At(r, pc) == CASE pc = "done" -> [NoCall EXCEPT !.pc = pc]
               [] pc = "built" -> [r EXCEPT !.pc = pc, !.backend = NoCall.backend, !.arg = 0]
               [] OTHER -> [r EXCEPT !.pc = pc]

Goes(c, r, pc) == call' = [call EXCEPT ![c] = At(r, pc)]

\* close(n) by c, which believes the number is its own.
Close(c, n) == /\ desc' = [desc EXCEPT ![n] = Unused]
               /\ astray' = (astray \/ desc[n] # Its(c, "file"))

Permits(mode) == CASE mode = "r" -> creator # Nobody
                   [] mode = "w" -> TRUE
                   [] mode = "x" -> creator = Nobody

\* c has asked for the size of the file and not yet read it to the end.
Reading(c) == call[c].pc \in {"alloc", "read"}

\* The size once c does not read any more.
SizeAfter(c) == size' = IF \E d \in Calls \ {c} : Reading(d) THEN size ELSE 0

\* platform::file_open and the open() of the constructors: the lowest free
\* number or an error, which is EEXIST if an exclusive open finds the file.
\* Truncation makes the file empty for all who read it.
FileOpen(c, next, denied) ==
  \/ \E n \in Lowest :
       /\ Permits(call[c].mode)
       /\ desc' = [desc EXCEPT ![n] = Its(c, "file")]
       /\ creator' = IF creator = Nobody THEN c ELSE creator
       /\ size' = IF call[c].mode = "r" THEN size ELSE 0
       /\ call' = [d \in Calls |->
            IF d = c THEN [call[c] EXCEPT !.pc = next, !.fd = n]
            ELSE [call[d] EXCEPT !.touched = @ \/ (Reading(d) /\ call[c].mode = "w")]]
  \/ /\ Goes(c, [call[c] EXCEPT !.answer =
            IF call[c].mode = "x" /\ creator # Nobody THEN "exists" ELSE "error"], denied)
     /\ UNCHANGED <<desc, fs>>

\* Another process creates, extends or truncates the file.
OtherCreates == /\ creator = Nobody
                /\ creator' = Other
                /\ UNCHANGED <<env, desc, size, call, delivery, ghosts>>

OtherResizes == /\ \E c \in Calls : Reading(c)
                /\ size' \in (0 .. MaxSize) \ {size}
                /\ call' = [c \in Calls |-> [call[c] EXCEPT !.touched = @ \/ Reading(c)]]
                /\ UNCHANGED <<env, desc, creator, delivery, ghosts>>

\* The program closes a descriptor that it has lent to an object.
ForeignClose(n) == /\ desc[n] = Foreign
                   /\ desc' = [desc EXCEPT ![n] = Unused]
                   /\ UNCHANGED <<env, fs, call, delivery, ghosts>>
------------------------------------------------------------------------------
(* The constructors of the backends.                                       *)

AtOpen(c, k) == call[c].pc = "open" /\ call[c].backend = k
AtWrap(c, k) == call[c].pc = "wrap" /\ call[c].backend = k

OpenUring(c) == /\ AtOpen(c, "io_uring")
                /\ FileOpen(c, "built", "failed")
                /\ UNCHANGED <<env, delivery, ghosts>>

OpenThread(c) == /\ AtOpen(c, "thread_pool")
                 /\ FileOpen(c, "built", "failed")
                 /\ UNCHANGED <<env, delivery, ghosts>>

OpenGcd(c) == /\ AtOpen(c, "dispatch_io")
              /\ FileOpen(c, "init_channel", "failed")
              /\ UNCHANGED <<env, delivery, ghosts>>

OpenIocp(c) == /\ AtOpen(c, "iocp")
               /\ FileOpen(c, "create_session", "failed")
               /\ UNCHANGED <<env, delivery, ghosts>>

\* The constructors that take a descriptor keep its number.
Keeps(c, k, next) == /\ AtWrap(c, k)
                     /\ Goes(c, [call[c] EXCEPT !.fd = call[c].arg], next)
                     /\ UNCHANGED <<env, desc, fs, delivery, ghosts>>

WrapUring(c) == Keeps(c, "io_uring", "built")
WrapGcd(c) == Keeps(c, "dispatch_io", "init_channel")

\* On Windows the thread pool wraps nothing.
WrapThread(c) ==
  IF platform = "windows"
  THEN /\ AtWrap(c, "thread_pool")
       /\ Goes(c, call[c], "failed")
       /\ UNCHANGED <<env, desc, fs, delivery, ghosts>>
  ELSE Keeps(c, "thread_pool", "built")

\* A descriptor that is to be owned is closed first, whatever follows; then
\* the file is opened again, or the handle duplicated.
WrapIocp(c) ==
  /\ AtWrap(c, "iocp")
  /\ LET n == call[c].arg
         table == IF call[c].owns THEN [desc EXCEPT ![n] = Unused] ELSE desc
     IN /\ astray' = (astray \/ (call[c].owns /\ desc[n] # Its(c, "file")))
        /\ \/ \E m \in Fds :
                 /\ table[m] = Unused
                 /\ desc' = [table EXCEPT ![m] = Its(c, "file")]
                 /\ Goes(c, [call[c] EXCEPT !.fd = m, !.owns = TRUE], "create_session")
           \/ desc' = table /\ Goes(c, call[c], "failed")
  /\ UNCHANGED <<env, fs, delivery, lost>>

\* The constructor throws after the file was opened: it closes what it owns.
GivesUp(c) == /\ IF call[c].owns THEN Close(c, call[c].fd) ELSE UNCHANGED <<desc, astray>>
              /\ Goes(c, [call[c] EXCEPT !.fd = 0, !.refused = TRUE], "failed")

\* MacOSGCDBackend::init_channel: dup() and dispatch_io_create() may fail.
InitChannel(c) ==
  /\ call[c].pc = "init_channel"
  /\ \/ \E n \in Lowest :
           /\ desc' = [desc EXCEPT ![n] = Its(c, "chan")]
           /\ Goes(c, [call[c] EXCEPT !.chan = n], "built")
           /\ UNCHANGED astray
     \/ GivesUp(c)
  /\ UNCHANGED <<env, fs, delivery, lost>>

\* Mutant of CreateSession: the exception does not close the handle.
CreateSessionLeaks(c) ==
  /\ call[c].pc = "create_session"
  /\ \/ Goes(c, call[c], "built")
     \/ Goes(c, [call[c] EXCEPT !.fd = 0, !.refused = TRUE], "failed")
  /\ UNCHANGED <<env, desc, fs, delivery, ghosts>>

\* The call of create_session() in the constructors of WindowsIOBackend.
CreateSession(c) ==
  /\ call[c].pc = "create_session"
  /\ \/ Goes(c, call[c], "built") /\ UNCHANGED <<desc, astray>>
     \/ GivesUp(c)
  /\ UNCHANGED <<env, fs, delivery, lost>>

\* BackendRegistry::open and wrap: what the native backend throws is caught
\* and the thread pool tries the same path or the same number again, though
\* Dispatch may have closed it (GivesUp).
FallBack(c) ==
  /\ call[c].pc = "failed"
  /\ IF call[c].backend = "thread_pool"
     THEN Goes(c, call[c], "raised")
     ELSE Goes(c, [call[c] EXCEPT !.backend = "thread_pool"],
               IF call[c].arg = 0 THEN "open" ELSE "wrap")
  /\ UNCHANGED <<env, desc, fs, delivery, ghosts>>
------------------------------------------------------------------------------
(* Calls that block the loop's thread.                                     *)

Building == {"open", "wrap", "init_channel", "create_session", "failed", "built", "raised"}
Blocking == {"open", "wrap", "adopt"}
LoopIdle == \A c \in Calls : /\ call[c].pc \notin {"try", "second"}
                             /\ call[c].op \in Blocking => call[c].pc \notin Building

Begins(c) == LoopIdle /\ call[c].pc = "new" /\ \A d \in 1 .. c - 1 : call[d].pc # "new"

\* PyAsyncFile(path, mode).
Open(c) == /\ Begins(c)
           /\ \E m \in Modes :
                 Goes(c, [NoCall EXCEPT !.op = "open", !.mode = m, !.backend = Effective], "open")
           /\ UNCHANGED <<env, desc, fs, delivery, ghosts>>

\* PyAsyncFile(fd, mode, owns_fd) of a descriptor that the program has opened.
Wrap(c) == \E n \in Lowest, owned \in BOOLEAN :
  /\ Begins(c)
  /\ Goes(c, [NoCall EXCEPT !.op = IF owned THEN "adopt" ELSE "wrap", !.arg = n,
                            !.owns = owned, !.backend = WrapsWith], "wrap")
  /\ desc' = [desc EXCEPT ![n] = IF owned THEN Its(c, "file") ELSE Foreign]
  /\ UNCHANGED <<env, fs, delivery, ghosts>>

\* The constructor returns or throws.
Return(c) == /\ call[c].op \in Blocking
             /\ \/ call[c].pc = "built" /\ Goes(c, [call[c] EXCEPT !.answer = "file"], "held")
                \/ call[c].pc = "raised" /\ Goes(c, call[c], "done")
             /\ UNCHANGED <<env, desc, fs, delivery, ghosts>>

\* ~PyAsyncFile: close_impl() of the backend, which ThreadBackend, Uring, Iocp
\* and Gcd model.  The copy of the number that Dispatch uses goes later.
Destroy(c) == /\ call[c].pc \in {"held", "dropped"}
              /\ IF call[c].owns THEN Close(c, call[c].fd) ELSE UNCHANGED <<desc, astray>>
              /\ Goes(c, call[c], IF call[c].chan = 0 THEN "done" ELSE "cleanup")
              /\ UNCHANGED <<env, fs, delivery, lost>>

\* The cleanup handler of the channel.
CleanUp(c) == /\ call[c].pc = "cleanup"
              /\ desc' = [desc EXCEPT ![call[c].chan] = Unused]
              /\ astray' = (astray \/ desc[call[c].chan] # Its(c, "chan"))
              /\ Goes(c, call[c], "done")
              /\ UNCHANGED <<env, fs, delivery, lost>>
------------------------------------------------------------------------------
(* Calls that answer a future.                                             *)

Futures == {"aopen", "native", "whole"}

\* op_completed(); flush() if this was the last and something waits in p.
OpCompleted(p) == /\ outstanding' = outstanding - 1
                  /\ drain' = (drain \/ (outstanding = 1 /\ p # {}))

\* What follows submitted() throws: start_reaper(), the pool.
Throws(c) == /\ thrown' = thrown \union {c}
             /\ Goes(c, call[c], "done")
             /\ UNCHANGED <<env, desc, fs, batch, drain, ghosts>>

\* py_open_async, up to the first submitted().
OpenAsync(c) ==
  /\ Begins(c)
  /\ \E m \in Modes : Goes(c, [NoCall EXCEPT !.op = "aopen", !.mode = m], "try")
  /\ outstanding' = outstanding + 1
  /\ UNCHANGED <<env, desc, fs, batch, drain, thrown, ghosts>>

\* Mutant of FinishNative: finished() is not called.
FinishNativeForgets(c) ==
  /\ call[c].pc = "try"
  /\ Goes(c, call[c], "second")
  /\ UNCHANGED <<env, desc, fs, delivery, ghosts>>

\* try_native_aopen answers FALSE: not this backend, or no instance.
FinishNative(c) == /\ call[c].pc = "try"
                   /\ OpCompleted(batch)
                   /\ Goes(c, call[c], "second")
                   /\ UNCHANGED <<env, desc, fs, batch, thrown, ghosts>>

\* submit_native_aopen; Uring models the queue.
SubmitNative(c) ==
  /\ call[c].pc = "try" /\ Effective = "io_uring"
  /\ \/ /\ Goes(c, [call[c] EXCEPT !.op = "native"], "kernel")
        /\ UNCHANGED <<env, desc, fs, delivery, ghosts>>
     \/ Throws(c) /\ UNCHANGED outstanding

\* The second operation of py_open_async and its task.
EnqueueOpen(c) ==
  /\ call[c].pc = "second"
  /\ outstanding' = outstanding + 1
  /\ \/ /\ Goes(c, call[c], "queued")
        /\ UNCHANGED <<env, desc, fs, batch, drain, thrown, ghosts>>
     \/ Throws(c)

\* The task builds a FileHandle, with the backend configured by then.
RunOpen(c) == /\ call[c].op = "aopen" /\ call[c].pc = "queued"
              /\ Goes(c, [call[c] EXCEPT !.backend = Effective], "open")
              /\ UNCHANGED <<env, desc, fs, delivery, ghosts>>

\* IORING_OP_OPENAT ends, well or not.
KernelOpens(c) == /\ call[c].pc = "kernel"
                  /\ FileOpen(c, "opened", "raised")
                  /\ UNCHANGED <<env, delivery, ghosts>>

\* complete_native_aopen: the factory wraps the descriptor, with the backend
\* configured by then.
CompleteNative(c) ==
  /\ call[c].pc = "opened"
  /\ Goes(c, [call[c] EXCEPT !.arg = call[c].fd, !.backend = WrapsWith], "wrap")
  /\ UNCHANGED <<env, desc, fs, delivery, ghosts>>

\* py_read_whole_async.
ReadWhole(c) ==
  /\ Begins(c)
  /\ outstanding' = outstanding + 1
  /\ LET r == [NoCall EXCEPT !.op = "whole"]
     IN \/ Goes(c, r, "queued") /\ UNCHANGED thrown
        \/ Goes(c, r, "done") /\ thrown' = thrown \union {c}
  /\ UNCHANGED <<env, desc, fs, batch, drain, ghosts>>

\* read_whole_blocking: open, fstat, a buffer of that size, pread until it is
\* full or the file ends, close.  Without memory for the buffer the exception
\* passes the close() by.
OpenWhole(c) == /\ call[c].op = "whole" /\ call[c].pc = "queued"
                /\ FileOpen(c, "stat", "raised")
                /\ UNCHANGED <<env, delivery, ghosts>>

StatWhole(c) ==
  /\ call[c].pc = "stat"
  /\ \/ /\ size' \in IF \E d \in Calls : Reading(d) THEN {size} ELSE 0 .. MaxSize
        /\ Goes(c, [call[c] EXCEPT !.total = size'], "alloc")
        /\ UNCHANGED <<desc, astray>>
     \/ /\ Close(c, call[c].fd)
        /\ Goes(c, [call[c] EXCEPT !.answer = "error"], "raised")
        /\ UNCHANGED size
  /\ UNCHANGED <<env, creator, delivery, lost>>

AllocateWhole(c) ==
  /\ call[c].pc = "alloc"
  /\ \/ /\ Goes(c, call[c], "read") /\ UNCHANGED lost
        /\ UNCHANGED size
     \/ /\ Goes(c, [call[c] EXCEPT !.answer = "error"], "raised")
        /\ lost' = lost \union {c}
        /\ SizeAfter(c)
  /\ UNCHANGED <<env, desc, creator, delivery, astray>>

ReadSome(c) ==
  /\ call[c].pc = "read"
  /\ \E k \in 1 .. MaxSize :
       /\ call[c].filled + k <= call[c].total
       /\ call[c].filled + k <= size
       /\ Goes(c, [call[c] EXCEPT !.filled = @ + k], "read")
  /\ UNCHANGED <<env, desc, fs, delivery, ghosts>>

\* Mutant of CloseWhole: one pread is taken for all.
CloseWholeEarly(c) ==
  /\ call[c].pc = "read"
  /\ call[c].filled > 0 \/ call[c].total = 0 \/ size <= call[c].filled
  /\ Close(c, call[c].fd) /\ SizeAfter(c)
  /\ Goes(c, call[c], "data")
  /\ UNCHANGED <<env, creator, delivery, lost>>

CloseWhole(c) ==
  /\ call[c].pc = "read"
  /\ \/ /\ call[c].filled = call[c].total \/ size <= call[c].filled
        /\ Goes(c, call[c], "data")
     \/ Goes(c, [call[c] EXCEPT !.answer = "error"], "raised")   \* a pread failed
  /\ Close(c, call[c].fd) /\ SizeAfter(c)
  /\ UNCHANGED <<env, creator, delivery, lost>>
------------------------------------------------------------------------------
(* Delivery.                                                               *)

Finished(c) == call[c].op \in Futures /\ call[c].pc \in {"built", "data", "raised"}

\* The call with what its future is to be given, in the batch.
Answered(c, pc) == Goes(c, [call[c] EXCEPT !.answer =
  CASE call[c].pc = "built" -> "file" [] call[c].pc = "data" -> "data" [] OTHER -> @], pc)

\* Mutant of Complete: the last operation does not flush.
CompleteQuietly(c) == /\ Finished(c)
                      /\ batch' = batch \union {c}
                      /\ outstanding' = outstanding - 1
                      /\ Answered(c, "batched")
                      /\ UNCHANGED <<env, desc, fs, drain, thrown, ghosts>>

\* PyOperation::complete: push(), op_completed() and, after the last, flush();
\* the calls do not reach the threshold.
Complete(c) == /\ Finished(c)
               /\ batch' = batch \union {c}
               /\ outstanding' = outstanding - 1
               /\ drain' = (drain \/ outstanding = 1)
               /\ Answered(c, "batched")
               /\ UNCHANGED <<env, desc, fs, thrown, ghosts>>

\* What becomes of an answer: a future that has been cancelled refuses it, and
\* a file in it is destroyed.
Given(r, cancelled) == IF r.answer # "file" THEN "done"
                       ELSE IF cancelled THEN "dropped" ELSE "held"

\* A native open that the loop's thread harvests in passing.
CompleteInline(c) ==
  /\ LoopIdle /\ Finished(c) /\ call[c].op = "native"
  /\ OpCompleted(batch)
  /\ LET r == [call[c] EXCEPT !.answer = IF call[c].pc = "built" THEN "file" ELSE @]
     IN \E cancelled \in BOOLEAN : Goes(c, r, Given(r, cancelled))
  /\ UNCHANGED <<env, desc, fs, batch, thrown, ghosts>>

\* The drain of the batcher, a callback of the loop.
Drain == /\ drain /\ LoopIdle
         /\ drain' = FALSE /\ batch' = {}
         /\ \E cancelled \in SUBSET batch :
              call' = [c \in Calls |-> IF c \in batch
                                      THEN At(call[c], Given(call[c], c \in cancelled))
                                      ELSE call[c]]
         /\ UNCHANGED <<env, desc, fs, outstanding, thrown, ghosts>>

\* A constructor goes on, in whatever thread.
Construct(c) == \/ OpenUring(c) \/ OpenThread(c) \/ OpenGcd(c) \/ OpenIocp(c)
                \/ WrapUring(c) \/ WrapThread(c) \/ WrapGcd(c) \/ WrapIocp(c)
                \/ InitChannel(c) \/ CreateSession(c) \/ FallBack(c)

\* A thread inside a call, a task or a callback goes on; the kernel ends opens.
Step(c) == \/ Construct(c) \/ Return(c)
           \/ FinishNative(c) \/ SubmitNative(c) \/ EnqueueOpen(c) \/ RunOpen(c)
           \/ KernelOpens(c) \/ CompleteNative(c)
           \/ OpenWhole(c) \/ StatWhole(c) \/ AllocateWhole(c) \/ ReadSome(c) \/ CloseWhole(c)
           \/ Complete(c) \/ CompleteInline(c)

OpeningNext == \/ \E c \in Calls : \/ Open(c) \/ Wrap(c) \/ OpenAsync(c) \/ ReadWhole(c)
                                    \/ Step(c) \/ Destroy(c) \/ CleanUp(c)
               \/ Drain \/ Configure \/ OtherCreates \/ OtherResizes
               \/ \E n \in Fds : ForeignClose(n)

OpeningSpec == OpeningInit /\ [][OpeningNext]_openingVars

FairOpening == OpeningSpec /\ WF_openingVars(Drain) /\ \A c \in Calls : WF_openingVars(Step(c))
------------------------------------------------------------------------------
OpeningTypeOK ==
  /\ platform \in Platforms /\ backend \in {"auto", "thread_pool"}
  /\ desc \in [Fds -> {Unused, Foreign} \union [call : Calls, kind : {"file", "chan"}]]
  /\ creator \in Calls \union {Nobody, Other} /\ size \in 0 .. MaxSize
  /\ \A c \in Calls : /\ DOMAIN call[c] = DOMAIN NoCall
                       /\ call[c].backend \in Backends
                       /\ {call[c].arg, call[c].fd, call[c].chan} \subseteq 0 .. MaxFd
  /\ outstanding \in Nat /\ batch \subseteq Calls /\ thrown \subseteq Calls

InFlight(c) == call[c].op \in Futures
               /\ call[c].pc \in Building \union {"try", "kernel", "opened", "queued", "stat",
                                                "alloc", "read", "data"}

Live(c) == \/ call[c].pc \in {"init_channel", "create_session", "opened", "wrap", "built",
                             "stat", "alloc", "read", "held", "dropped"}
           \/ call[c].pc = "batched" /\ call[c].answer = "file"

\* Dispatch refused the descriptor it was to own, and closed it; the thread
\* pool wrapped the number all the same.
Disowned(c) == call[c].op = "adopt" /\ call[c].refused

\* Every descriptor the library has opened or was given is held by a call
\* under way or by an object; the one exception is a whole read that could
\* not get its buffer.
NoLeak == \A n \in Fds, c \in Calls :
  /\ desc[n] = Its(c, "file") =>
       \/ Live(c) /\ call[c].owns /\ n \in {call[c].fd, call[c].arg}
       \/ c \in lost
  /\ desc[n] = Its(c, "chan") =>
       call[c].chan = n /\ (Live(c) \/ call[c].pc = "cleanup")

\* An object that owns its descriptor has it, unless it was disowned.
NoDangling == \A c \in Calls :
  call[c].pc \in {"built", "held", "dropped"} /\ call[c].owns /\ ~Disowned(c) =>
    desc[call[c].fd] = Its(c, "file")

\* Until some number has been closed that was not the caller's.
OwnedSoFar == OpeningTypeOK /\ (~astray => NoLeak /\ NoDangling)

\* Only objects on macOS that were disowned close such a number first.
FirstAstray ==
  ~astray /\ astray' => platform = "macos" /\ \E c \in Calls : Disowned(c)

\* Through every failure and fallback each descriptor has one owner, and no
\* number is closed that belongs to somebody else by then, but for the number
\* of a disowned object on macOS and what follows when it is closed.
Owned == [][OwnedSoFar /\ OwnedSoFar' /\ FirstAstray]_openingVars

\* m_outstanding counts the operations in flight -- and for ever those whose
\* submission threw after submitted().
OutstandingExact ==
  outstanding = Cardinality({c \in Calls : InFlight(c)}) + Cardinality(thrown)

\* What a call answers is so: a whole read of a file that nobody resizes
\* meanwhile has all its bytes; an exclusive open that succeeds created the
\* file, and one that finds a file did not create it itself, unless the native
\* backend gave up in between.
Truthful == \A c \in Calls :
  LET r == call[c]
  IN /\ r.answer = "data" => r.touched \/ r.filled = r.total
     /\ r.answer = "file" /\ r.mode = "x" => creator = c
     /\ r.answer = "exists" => creator # c \/ r.refused

\* Every open or read that answers a future does so, unless a submission threw
\* and the count never reaches zero again.
AllAnswered == \A c \in Calls :
  InFlight(c) ~> (call[c].pc \in {"held", "dropped", "cleanup", "done"} \/ thrown # {})
=============================================================================
