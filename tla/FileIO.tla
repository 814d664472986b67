-------------------------------- MODULE FileIO --------------------------------
(***************************************************************************)
(* Positions, sizes and bytes of one file handle: core/file_state.*, its   *)
(* use by the read, write, seek and truncate calls of the thread backend   *)
(* (the io_uring, Dispatch I/O and IOCP backends share the class and the   *)
(* order of the steps) and the system calls of platform/native_file.hpp.   *)
(*                                                                         *)
(* The loop thread makes the calls; a call reserves its place under the    *)
(* mutex of FileState, a pool worker performs it later, in any order, and  *)
(* after a short read or a failed write stores the size it asks for.       *)
(***************************************************************************)
EXTENDS FileBytes

CONSTANTS
  Ops,          \* calls of read and write
  Calls,        \* the kinds of call the program makes
  Sizes,        \* byte counts of reads and writes
  MaxLen,       \* bound on offsets and on what a call may make of the file
  StartLen,     \* the length of the file when it is opened
  Appending,    \* what append_mode_ may be: a set of BOOLEANs
  KnowsSize,    \* TRUE: the constructor stores the size in cached_size_
  OneAtATime,   \* TRUE: the program awaits every call
  Shared,       \* TRUE: another process appends to the file
  Faults,       \* what a system call may do: "error", "short"
  Hole,         \* a byte that was never written
  Other         \* a byte written by another process

ASSUME SizesArePositive == Sizes \subseteq Nat \ {0}
ASSUME MaxLenIsNat == MaxLen \in Nat
ASSUME StartFits == StartLen \in 0..MaxLen
ASSUME BytesDiffer == Hole # Other /\ Hole \notin Ops /\ Other \notin Ops
ASSUME ModesAreBoolean == Appending \subseteq BOOLEAN
ASSUME CallsAreKnown ==
  Calls \subseteq {"read", "readAt", "write", "writeAt", "seek", "truncate"}

VARIABLES
  append,   \* append_mode_, fixed when the file is opened
  oAppend,  \* the descriptor has O_APPEND: the kernel places the writes
  file,     \* the bytes of the file
  pos,      \* file_pos_
  cached,   \* cached_size_
  call,     \* [Ops -> the read or write and how far it is]
  stat,     \* [Ops -> the size a worker has asked for and not yet stored]
  answer,   \* [Ops -> the bytes transferred]
  cutting   \* size of the truncate() that has still to apply_truncate, or None

vars == <<append, oAppend, file, pos, cached, call, stat, answer, cutting>>

None == -1
Start == [i \in 1..StartLen |-> Other]
Places == 0..MaxLen
Stages == {"new", "queued", "refresh", "store", "done"}
Unused == [stage |-> "new", kind |-> "none", sequential |-> FALSE,
           asked |-> 0, at |-> 0, len |-> 0]

\* A file opened by path in append mode has O_APPEND on POSIX, none on Windows,
\* where the flag is ignored; a descriptor that is wrapped has what the program
\* gave it.  (One with O_APPEND that is not wrapped for appending is left out.)
Flags == IF append THEN BOOLEAN ELSE {FALSE}

Init == /\ append \in Appending
        /\ oAppend \in Flags
        /\ file = Start
        /\ pos = IF append THEN Len(Start) ELSE 0
        /\ cached = IF KnowsSize \/ append THEN Len(Start) ELSE 0
        /\ call = [o \in Ops |-> Unused]
        /\ stat = [o \in Ops |-> 0]
        /\ answer = [o \in Ops |-> <<>>]
        /\ cutting = None

\* No read or write is under way.
Quiet == \A o \in Ops : call[o].stage \in {"new", "done"}

\* The loop thread is free and the program makes a call.
LoopFree == cutting = None /\ (OneAtATime => Quiet)
Callable(o) == LoopFree /\ call[o].stage = "new"

\* A program that awaits its calls has done with a call and its answer before
\* the next, and may make any number of calls.
Ended(o) == IF OneAtATime THEN [call EXCEPT ![o] = Unused]
                          ELSE [call EXCEPT ![o].stage = "done"]
Taken == IF OneAtATime THEN [o \in Ops |-> <<>>] ELSE answer
------------------------------------------------------------------------------
(* FileState.                                                              *)

\* Mutant: the cached size is taken for the end of the file.
EndSeenCached(at) == cached

\* plan_read, plan_read_at: at the cached end of the file the size is asked
\* for again.
EndSeen(at) == IF cached <= at THEN Len(file) ELSE cached

\* Mutant: the position is left for the worker to move.
PlanReadInPlace(o, sequential, at, asked) ==
  LET left == Most(0, EndSeen(at) - at)
      n == IF asked = ToEof THEN left ELSE Least(asked, left)
  IN  /\ cached' = EndSeen(at)
      /\ call' = IF n = 0 /\ OneAtATime THEN call
                 ELSE [call EXCEPT ![o] =
                         [stage |-> IF n = 0 THEN "done" ELSE "queued", kind |-> "read",
                          sequential |-> sequential, asked |-> asked, at |-> at, len |-> n]]
      /\ answer' = Taken
      /\ UNCHANGED pos

\* plan_read_locked.
PlanRead(o, sequential, at, asked) ==
  LET left == Most(0, EndSeen(at) - at)
      n == IF asked = ToEof THEN left ELSE Least(asked, left)
  IN  /\ cached' = EndSeen(at)
      /\ pos' = IF sequential /\ n > 0 THEN at + n ELSE pos
      /\ call' = IF n = 0 /\ OneAtATime THEN call
                 ELSE [call EXCEPT ![o] =
                         [stage |-> IF n = 0 THEN "done" ELSE "queued", kind |-> "read",
                          sequential |-> sequential, asked |-> asked, at |-> at, len |-> n]]
      /\ answer' = Taken

\* Mutant: the position is left where it was.
ReserveWriteInPlace(o, position, n) ==
  LET at == IF position # None THEN position ELSE IF append THEN cached ELSE pos
  IN  /\ at + n <= MaxLen
      /\ cached' = Most(cached, at + n)
      /\ call' = [call EXCEPT ![o] =
                    [stage |-> "queued", kind |-> "write", sequential |-> position = None,
                     asked |-> n, at |-> at, len |-> n]]
      /\ answer' = Taken
      /\ UNCHANGED pos

\* reserve_write.
ReserveWrite(o, position, n) ==
  LET at == IF position # None THEN position ELSE IF append THEN cached ELSE pos
  IN  /\ at + n <= MaxLen
      /\ pos' = IF position = None THEN at + n ELSE pos
      /\ cached' = Most(cached, at + n)
      /\ call' = [call EXCEPT ![o] =
                    [stage |-> "queued", kind |-> "write", sequential |-> position = None,
                     asked |-> n, at |-> at, len |-> n]]
      /\ answer' = Taken

\* seek, to `target'; a negative one is refused.
SeekTo(target) == /\ target <= MaxLen
                  /\ pos' = IF target < 0 THEN pos ELSE target
------------------------------------------------------------------------------
(* The calls.                                                              *)

Read(o) ==
  /\ "read" \in Calls
  /\ Callable(o)
  /\ \E asked \in Sizes \union {0, ToEof} : PlanRead(o, TRUE, pos, asked)
  /\ UNCHANGED <<file, stat, cutting>>

ReadAt(o) ==
  /\ "readAt" \in Calls
  /\ Callable(o)
  /\ \E asked \in Sizes \union {ToEof}, at \in Places : PlanRead(o, FALSE, at, asked)
  /\ UNCHANGED <<file, stat, cutting>>

Write(o) ==
  /\ "write" \in Calls
  /\ Callable(o)
  /\ \E n \in Sizes : ReserveWrite(o, None, n)
  /\ UNCHANGED <<file, stat, cutting>>

\* Refused in append mode.
WriteAt(o) ==
  /\ "writeAt" \in Calls
  /\ ~append
  /\ Callable(o)
  /\ \E n \in Sizes, at \in Places : ReserveWrite(o, at, n)
  /\ UNCHANGED <<file, stat, cutting>>

\* From the start, from the position, or from the end, which is asked for.
Seek ==
  /\ "seek" \in Calls
  /\ LoopFree
  /\ \E d \in -MaxLen..MaxLen :
       \/ SeekTo(d) /\ UNCHANGED cached
       \/ SeekTo(pos + d) /\ UNCHANGED cached
       \/ SeekTo(Len(file) + d) /\ cached' = Len(file)
  /\ answer' = Taken
  /\ UNCHANGED <<file, call, stat, cutting>>

\* file_truncate ...
Truncate ==
  /\ "truncate" \in Calls
  /\ LoopFree
  /\ \E n \in Places : /\ file' = Resize(file, n, Hole)
                       /\ cutting' = n
  /\ answer' = Taken
  /\ UNCHANGED <<pos, cached, call, stat>>

\* Mutant: the position is cut, the cached size is not.
CutPosition ==
  /\ cutting # None
  /\ pos' = Least(pos, cutting)
  /\ cutting' = None
  /\ UNCHANGED <<file, cached, call, stat, answer>>

\* ... then apply_truncate, on the same thread.
ApplyTruncate ==
  /\ cutting # None
  /\ cached' = cutting
  /\ pos' = Least(pos, cutting)
  /\ cutting' = None
  /\ UNCHANGED <<file, call, stat, answer>>
------------------------------------------------------------------------------
(* The tasks, run by pool workers.                                         *)

\* file_pread; a short read asks for the size, an error does not.
PerformRead(o) ==
  LET got == Slice(file, call[o].at, call[o].len)
  IN  /\ call[o].stage = "queued"
      /\ call[o].kind = "read"
      /\ \/ /\ answer' = [answer EXCEPT ![o] = got]
            /\ call' = IF Len(got) < call[o].len THEN [call EXCEPT ![o].stage = "refresh"] ELSE Ended(o)
         \/ /\ "error" \in Faults
            /\ call' = Ended(o)
            /\ UNCHANGED answer
      /\ UNCHANGED <<file, pos, cached, stat, cutting>>

\* Where the bytes of a write land: O_APPEND puts them at the end of the file,
\* without it they go to the offset that was reserved, in append mode too.
Landing(o) == IF oAppend THEN Len(file) ELSE call[o].at

\* file_pwrite; an error asks for the size, a short write does not.
PerformWrite(o) ==
  /\ call[o].stage = "queued"
  /\ call[o].kind = "write"
  /\ \/ \E n \in IF "short" \in Faults THEN 1..call[o].len ELSE {call[o].len} :
          LET bytes == [i \in 1..n |-> o]
          IN  /\ file' = Overlay(file, Landing(o), bytes, Hole)
              /\ answer' = [answer EXCEPT ![o] = bytes]
              /\ call' = Ended(o)
     \/ /\ "error" \in Faults
        /\ call' = [call EXCEPT ![o].stage = "refresh"]
        /\ UNCHANGED <<file, answer>>
  /\ UNCHANGED <<pos, cached, stat, cutting>>

\* refresh_after_short_read: the size is read ...
AskSize(o) ==
  /\ call[o].stage = "refresh"
  /\ stat' = [stat EXCEPT ![o] = Len(file)]
  /\ call' = [call EXCEPT ![o].stage = "store"]
  /\ UNCHANGED <<file, pos, cached, answer, cutting>>

\* ... and stored, under the mutex.
StoreSize(o) ==
  /\ call[o].stage = "store"
  /\ cached' = stat[o]
  /\ stat' = [stat EXCEPT ![o] = 0]
  /\ call' = Ended(o)
  /\ UNCHANGED <<file, pos, answer, cutting>>

\* Another process appends a byte.
Grow ==
  /\ Shared
  /\ Len(file) < MaxLen
  /\ file' = Append(file, Other)
  /\ UNCHANGED <<pos, cached, call, stat, answer, cutting>>
------------------------------------------------------------------------------
Next ==
  \/ \E o \in Ops : \/ Read(o) \/ ReadAt(o) \/ Write(o) \/ WriteAt(o)
                    \/ PerformRead(o) \/ PerformWrite(o) \/ AskSize(o) \/ StoreSize(o)
  \/ Seek
  \/ Truncate
  \/ ApplyTruncate
  \/ Grow

Spec == Init /\ [][Next /\ UNCHANGED <<append, oAppend>>]_vars
------------------------------------------------------------------------------
(* Properties.                                                             *)

\* The state stays within its types: no call makes the position negative
\* (a refused seek() leaves it alone).
TypeOK ==
  /\ append \in BOOLEAN
  /\ oAppend \in Flags
  /\ file \in Seq(Ops \union {Hole, Other})
  /\ pos \in Nat
  /\ cached \in Nat
  /\ call \in [Ops -> [stage : Stages, kind : {"none", "read", "write"},
                       sequential : BOOLEAN, asked : Nat \union {ToEof},
                       at : Nat, len : Nat]]
  /\ stat \in [Ops -> Nat]
  /\ answer \in [Ops -> Seq(Ops \union {Hole, Other})]
  /\ cutting \in Nat \union {None}

\* Calls that share the file position never share a byte, in whatever order
\* the workers perform them: two reads in flight deliver different bytes and
\* two writes in flight do not overwrite each other.  (In append mode a range
\* starts at the cached size, whatever the position.)
RangesDisjoint ==
  \A o, p \in Ops :
    /\ ~append
    /\ o # p
    /\ call[o].sequential /\ call[p].sequential
    /\ call[o].len > 0 /\ call[p].len > 0
    => \/ call[o].at + call[o].len <= call[p].at
       \/ call[p].at + call[p].len <= call[o].at

\* The bytes of every write() that has succeeded are in the file, without
\* append mode on every platform, with it wherever the descriptor has O_APPEND:
\* then they survive whatever seeks, reads, other writes and other processes
\* do (tests/python/test_backend_conformance.py:207-219: a write in append
\* mode always lands at the end of the file).  Nothing is said of append mode
\* without the flag, which Windows never sets.
WritesKept ==
  (append => oAppend) =>
  \A o \in Ops : call[o].kind = "write" /\ call[o].stage = "done" =>
    \E at \in 0..(Len(file) - Len(answer[o])) : Slice(file, at, Len(answer[o])) = answer[o]

\* A read is answered with no bytes only if the file ends at or before its
\* offset: the cached size is never taken for the end of the file (the
\* silent short read of test_backend_conformance.py:81-86).
NoFalseEof ==
  [][\A o \in Ops :
       /\ call'[o].kind = "read"
       /\ call'[o].asked # 0
       /\ answer'[o] = <<>>
       /\ \/ call[o].stage = "new" /\ call'[o].stage = "done"
          \/ call[o].stage = "queued" /\ call'[o].stage = "refresh"
       => Len(file) <= call'[o].at]_vars

\* python/ayafileio/_async_file.py:208, size < 0 reads up to the end of the
\* file: with nothing in flight, such a read is planned up to the end.
ReadsToEof ==
  [][\A o \in Ops :
       /\ Quiet
       /\ call[o].stage = "new"
       /\ call'[o].kind = "read"
       /\ call'[o].asked = ToEof
       => call'[o].at + call'[o].len >= Len(file)]_vars

\* python/ayafileio/_async_file.py:497-498, a caller who needs the whole
\* payload loops on the return value: so when a write() has transferred some
\* bytes, the next write() goes just behind them.
WriteLoops ==
  [][\A o \in Ops :
       /\ OneAtATime
       /\ call[o].kind = "write" /\ call[o].sequential
       /\ answer'[o] # answer[o]
       /\ answer'[o] # <<>>
       => pos' = call[o].at + Len(answer'[o])]_vars

\* What the handle shows of itself to such a program: the position, the call
\* in progress and what the last one has transferred.
Cursor == IF cutting = None THEN pos ELSE Least(pos, cutting)

InFlight == {o \in Ops : call[o].stage = "queued"}

Turn == IF InFlight = {}
        THEN [kind |-> "none", at |-> 0, len |-> 0, op |-> Hole]
        ELSE LET o == CHOOSE p \in InFlight : TRUE
             IN  [kind |-> call[o].kind, at |-> call[o].at, len |-> call[o].len, op |-> o]

Transferred == IF \A o \in Ops : answer[o] = <<>> THEN <<>>
               ELSE answer[CHOOSE o \in Ops : answer[o] # <<>>]

Plain == INSTANCE PlainFile WITH
  appends <- append, content <- file, cursor <- Cursor, turn <- Turn, answer <- Transferred

\* A program that awaits every call cannot tell the handle from an ordinary
\* file object: the cached size (file_state.hpp) is invisible.
ImplementsPlainFile == Plain!Spec
==============================================================================
