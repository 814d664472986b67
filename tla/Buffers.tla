------------------------------- MODULE Buffers -------------------------------
(***************************************************************************)
(* Memory of the requests: the Buffer of core/buffer.cpp, the pool and the *)
(* thread-local caches of core/buffer_pool.hpp, the request memory of      *)
(* core/io_request.cpp, and the paths of core/io_backend.cpp on which they *)
(* change hands: the thread that submits takes a block, the thread that    *)
(* completes gives it back to a cache of its own.                          *)
(*                                                                         *)
(* A block is a piece of malloc()ed memory; a PoolBuf and its data are one *)
(* block.  External buffers (Python bytes and views) belong to their owner *)
(* and are not blocks: a request that holds one has an empty Buffer here.  *)
(* A call on the pool is one step: all it reads outside m_mutex is the     *)
(* cache of the calling thread.                                            *)
(***************************************************************************)
EXTENDS Naturals, Sequences, SequencesExt, FiniteSets

CONSTANTS
    Threads,      \* submitting threads, workers, reapers, the loop's thread
    Requests,     \* pieces of memory of the size of an IORequest
    Results,      \* Completion objects on their way to the loop
    Blocks,       \* pieces of buffer memory; their number bounds the model
    None,
    Asked,        \* sizes in bytes the callers ask for
    MinClass,     \* MIN_CLASS of pool_size_class()
    Powers,       \* the powers of two, as far as the sizes need them
    BufferSize,   \* m_cached_buffer_size of the file
    TcMax,        \* TC_MAX
    MaxEntries,   \* max_entries of request_mem_release()
    MayFail,      \* memory for a request may be refused
    Maxes         \* values configure() gives buffer_pool_max

Classes == Powers \cup {MinClass}

ASSUME SizesAreNaturals ==
    /\ MinClass \in Nat \ {0} /\ BufferSize \in Nat /\ TcMax \in Nat
    /\ MaxEntries \in Nat /\ Powers \subseteq Nat \ {0} /\ Asked \subseteq Nat
    /\ MayFail \in BOOLEAN
    /\ Maxes \subseteq Nat \ {0} /\ Maxes # {}
ASSUME MemoryIsFinite == IsFiniteSet(Blocks)
ASSUME HoldersDiffer == None \notin Blocks /\ Requests \cap Results = {}
ASSUME EverySizeHasAClass ==
    \A n \in Asked : n <= MinClass \/ \E c \in Powers : n <= c /\ c < 2 * n

VARIABLES
    store,        \* the blocks and where the free ones are kept, see Stores
    buffer,       \* the Buffer of every request and result
    type,         \* "none" while the memory holds no IORequest
    freelist,     \* request_freelist() of every thread
    lostBlocks,   \* blocks nothing of this code reaches any more
    lostRequests  \* request memory nothing reaches any more

vars == <<store, buffer, type, freelist, lostBlocks, lostRequests>>

Holders == Requests \cup Results
Buffers == [block : Blocks \cup {None}, pooled : BOOLEAN, asked : Nat]
NoBuckets == [c \in Classes |-> <<>>]
NoBuffer == [block |-> None, pooled |-> FALSE, asked |-> 0]

\* size: bytes of an allocated block, 0 for memory that is not allocated.
\* cache: the thread-local caches.  keys, pools: m_pools, where a bucket exists
\* from the first release of its size on.  total, max: m_total, m_cached_max.
Stores == [size : [Blocks -> Nat], cache : [Threads -> Seq(Blocks)],
           keys : SUBSET Classes, pools : [Classes -> Seq(Blocks)],
           total : Nat, max : Nat]

\* The types of the variables.
TypeOK ==
    /\ store \in Stores
    /\ buffer \in [Holders -> Buffers]
    /\ type \in [Requests -> {"none", "Read", "Other"}]
    /\ freelist \in [Threads -> Seq(Requests)]
    /\ lostBlocks \subseteq Blocks
    /\ lostRequests \subseteq Requests

------------------------------------------------------------------------------
\* The pool.

SizeClass(n) ==
    IF n <= MinClass THEN MinClass
    ELSE CHOOSE c \in Powers : n <= c /\ c < 2 * n

Unallocated(st) == {b \in Blocks : st.size[b] = 0}

Allocated(st, n, bytes, pooled) ==
    {[store |-> [st EXCEPT !.size[b] = bytes],
      buffer |-> [block |-> b, pooled |-> pooled, asked |-> n]] : b \in Unallocated(st)}

\* Mutant of FirstFit: the front of the cache, whatever its size.
AnyCached(st, t, n) == IF st.cache[t] = <<>> THEN {} ELSE {1}

\* The first entry of the thread's cache that is large enough.
FirstFit(st, t, n) ==
    {i \in DOMAIN st.cache[t] : /\ st.size[st.cache[t][i]] >= n
                                /\ \A j \in 1..(i - 1) : st.size[st.cache[t][j]] < n}

\* lower_bound() of the map: the first bucket of at least n, empty or not.
LowerBound(st, n) ==
    {c \in st.keys : c >= n /\ \A d \in st.keys : d >= n => c <= d}

FromCache(st, t, n) ==
    {[store |-> [st EXCEPT !.cache[t] = RemoveAt(@, i)],
      buffer |-> [block |-> st.cache[t][i], pooled |-> TRUE, asked |-> n]] :
        i \in FirstFit(st, t, n)}

Filled(st, n) == {c \in LowerBound(st, n) : st.pools[c] # <<>>}

FromPool(st, n) ==
    {[store |-> [st EXCEPT !.pools[c] = Front(@), !.total = @ - 1],
      buffer |-> [block |-> Last(st.pools[c]), pooled |-> TRUE, asked |-> n]] :
        c \in Filled(st, n)}

\* Buffer::pool(n) on thread t: the store afterwards and the Buffer.
Acquired(st, t, n) ==
    IF FirstFit(st, t, n) # {} THEN FromCache(st, t, n)
    ELSE IF Filled(st, n) # {} THEN FromPool(st, n)
    ELSE Allocated(st, n, SizeClass(n), TRUE)

\* Buffer::heap(n).
Heap(st, n) == Allocated(st, n, n, FALSE)

Filed(st, b) ==
    [st EXCEPT !.keys = @ \cup {st.size[b]}, !.pools[st.size[b]] = Append(@, b),
               !.total = @ + 1]

Freed(st, b) == [st EXCEPT !.size[b] = 0]

PoolReleased(st, b) == IF st.total >= st.max THEN Freed(st, b) ELSE Filed(st, b)

Released(st, t, b) ==
    IF Len(st.cache[t]) < TcMax THEN [st EXCEPT !.cache[t] = Append(@, b)]
    ELSE PoolReleased(st, b)

\* Mutant of Reset: memory that is not of the pool is forgotten.
ResetPooled(st, t, buf) ==
    IF buf.block # None /\ buf.pooled THEN Released(st, t, buf.block) ELSE st

\* Buffer::reset(), which is also what ~Buffer() does, on thread t.
Reset(st, t, buf) ==
    IF buf.block = None THEN st
    ELSE IF buf.pooled THEN Released(st, t, buf.block)
    ELSE Freed(st, buf.block)

\* Mutant of Moved: the source keeps its pointer.
Copied(from, to) == [buffer EXCEPT ![to] = buffer[from]]

\* A move leaves the Buffer it takes from empty.
Moved(from, to) == [buffer EXCEPT ![to] = buffer[from], ![from] = NoBuffer]

------------------------------------------------------------------------------
\* Requests.

Listed == UNION {Range(freelist[t]) : t \in Threads}

NewMemory == {r \in Requests : type[r] = "none"} \ (Listed \cup lostRequests)

\* request_mem_acquire(): the memory it may return.
Reusable(t) == IF freelist[t] = <<>> THEN NewMemory ELSE {Last(freelist[t])}

\* make_shell(): IORequest r of the given type, constructed by thread t.
MakeShell(t, r, ty) ==
    /\ r \in Reusable(t)
    /\ type' = [type EXCEPT ![r] = ty]
    /\ freelist' = [freelist EXCEPT ![t] = IF @ = <<>> THEN @ ELSE Front(@)]
    /\ UNCHANGED lostRequests

\* REQ_FREE of a request whose Buffer is buf: the destructor, then the memory.
Free(t, r, buf) ==
    /\ store' = Reset(store, t, buf)
    /\ type' = [type EXCEPT ![r] = "none"]
    /\ freelist' = [freelist EXCEPT ![t] = IF Len(@) < MaxEntries THEN Append(@, r) ELSE @]
    /\ UNCHANGED <<lostBlocks, lostRequests>>

\* The Buffer make_req() starts with.
Chosen(t, n) == IF n <= BufferSize THEN Acquired(store, t, n) ELSE Heap(store, n)

\* make_req(): a Buffer, a shell, and the move of the one into the other.
MakeReq(t, r, n) ==
    \E a \in Chosen(t, n) :
        /\ MakeShell(t, r, "Other")
        /\ store' = a.store
        /\ buffer' = [buffer EXCEPT ![r] = a.buffer]
        /\ UNCHANGED lostBlocks

\* make_shell() throws for want of memory: the Buffer goes back.
MakeReqFails(t, n) ==
    \E a \in Chosen(t, n) :
        /\ MayFail /\ freelist[t] = <<>>
        /\ store' = Reset(a.store, t, a.buffer)
        /\ UNCHANGED <<buffer, type, freelist, lostBlocks, lostRequests>>

\* make_req_read_bytes() with the allocate_read_buffer() of core (type Read),
\* and the path of an open through io_uring (type Other).
MakeHeapReq(t, r, n, ty) ==
    \E a \in Heap(store, n) :
        /\ n > 0
        /\ MakeShell(t, r, ty)
        /\ store' = a.store
        /\ buffer' = [buffer EXCEPT ![r] = a.buffer]
        /\ UNCHANGED lostBlocks

\* make_req_held_write(), make_req_readinto(): the caller's memory.
MakeViewReq(t, r) ==
    /\ MakeShell(t, r, "Other")
    /\ UNCHANGED <<store, buffer, lostBlocks>>

\* release_buffer_ownership(): the block is the caller's business from now on.
ReleaseOwnership(r) ==
    /\ type[r] = "Other"
    /\ buffer[r].block # None
    /\ lostBlocks' = lostBlocks \cup {buffer[r].block}
    /\ buffer' = [buffer EXCEPT ![r] = NoBuffer]
    /\ UNCHANGED <<store, type, freelist, lostRequests>>

\* The completion of a read takes the Buffer with it.
CompleteRead(t, r, c) ==
    /\ type[r] = "Read"
    /\ buffer[c] = NoBuffer
    /\ buffer' = Moved(r, c)
    /\ Free(t, r, NoBuffer)

\* Every other completion, a failed read included.
Complete(t, r) ==
    /\ type[r] # "none"
    /\ Free(t, r, buffer[r])
    /\ buffer' = [buffer EXCEPT ![r] = NoBuffer]

\* The Completion has been converted to a Python object and is destroyed.
DropResult(t, c) ==
    /\ buffer[c] # NoBuffer
    /\ store' = Reset(store, t, buffer[c])
    /\ buffer' = [buffer EXCEPT ![c] = NoBuffer]
    /\ UNCHANGED <<type, freelist, lostBlocks, lostRequests>>

\* The thread_local vectors are destroyed, what their pointers point to is not.
ThreadExit(t) ==
    /\ store.cache[t] # <<>> \/ freelist[t] # <<>>
    /\ lostBlocks' = lostBlocks \cup Range(store.cache[t])
    /\ lostRequests' = lostRequests \cup Range(freelist[t])
    /\ store' = [store EXCEPT !.cache[t] = <<>>]
    /\ freelist' = [freelist EXCEPT ![t] = <<>>]
    /\ UNCHANGED <<buffer, type>>

Pooled(st) == UNION {Range(st.pools[c]) : c \in Classes}

\* pool_clear(), which drain_buffer_pool() calls.
PoolClear ==
    /\ store' = [store EXCEPT !.size = [b \in Blocks |->
                                           IF b \in Pooled(store) THEN 0 ELSE @[b]],
                              !.keys = {}, !.pools = NoBuckets, !.total = 0]
    /\ UNCHANGED <<buffer, type, freelist, lostBlocks, lostRequests>>

\* refresh_config() after a configure().
RefreshConfig ==
    /\ \E m \in Maxes : store' = [store EXCEPT !.max = m]
    /\ UNCHANGED <<buffer, type, freelist, lostBlocks, lostRequests>>

Init ==
    /\ store \in {[size |-> [b \in Blocks |-> 0], cache |-> [t \in Threads |-> <<>>],
                   keys |-> {}, pools |-> NoBuckets, total |-> 0, max |-> m] : m \in Maxes}
    /\ buffer = [h \in Holders |-> NoBuffer]
    /\ type = [r \in Requests |-> "none"]
    /\ freelist = [t \in Threads |-> <<>>]
    /\ lostBlocks = {}
    /\ lostRequests = {}

Next ==
    \/ \E t \in Threads, r \in Requests, n \in Asked :
        MakeReq(t, r, n) \/ \E ty \in {"Read", "Other"} : MakeHeapReq(t, r, n, ty)
    \/ \E t \in Threads, r \in Requests : MakeViewReq(t, r) \/ Complete(t, r)
    \/ \E t \in Threads, n \in Asked : MakeReqFails(t, n)
    \/ \E r \in Requests : ReleaseOwnership(r)
    \/ \E t \in Threads, r \in Requests, c \in Results : CompleteRead(t, r, c)
    \/ \E t \in Threads, c \in Results : DropResult(t, c)
    \/ \E t \in Threads : ThreadExit(t)
    \/ PoolClear
    \/ RefreshConfig

Spec == Init /\ [][Next]_vars

------------------------------------------------------------------------------
Cached(st) == UNION {Range(st.cache[t]) : t \in Threads}
Kept(st) == Cached(st) \cup Pooled(st)
Held == {buffer[h].block : h \in Holders} \ {None}

\* No block is in two caches, twice in one, in a cache and in a bucket, or in
\* a bucket of another size: what two callers would get the same memory from.
Sorted(st) ==
    /\ \A t \in Threads : IsInjective(st.cache[t])
    /\ \A t, u \in Threads : t # u => Range(st.cache[t]) \cap Range(st.cache[u]) = {}
    /\ \A c \in Classes : IsInjective(st.pools[c])
    /\ \A c \in Classes : \A b \in Range(st.pools[c]) : st.size[b] = c
    /\ Cached(st) \cap Pooled(st) = {}

\* As far as blocks go.
Owner ==
    /\ Sorted(store)
    /\ Held \cap Kept(store) = {}
    /\ \A h, k \in Holders : buffer[h].block = buffer[k].block => h = k \/ buffer[h].block = None
    /\ lostBlocks \cap (Held \cup Kept(store)) = {}

\* Memory of a request is in one free list, once, and not in use.
OneRequest ==
    /\ \A t \in Threads : IsInjective(freelist[t])
    /\ \A t, u \in Threads : t # u => Range(freelist[t]) \cap Range(freelist[u]) = {}
    /\ \A r \in Listed : type[r] = "none" /\ buffer[r] = NoBuffer
    /\ Listed \cap lostRequests = {}

\* A block has one owner: one Buffer, or one entry of one list; and so has the
\* memory of a request.  The moves of Buffer and the paths on which another
\* thread than the submitting one gives memory back keep it so.
OneOwner == Owner /\ OneRequest

\* m_total, which release() compares with the limit, is what the buckets hold.
TotalIsExact == store.total = Cardinality(Pooled(store))

\* Nothing is used after it was freed, and nothing leaks but what the lists of
\* a finished thread held and what release_ownership() gave away; and the
\* count by which the pool stays within its limit is right.
MemoryAccounted ==
    /\ {b \in Blocks : store.size[b] > 0} = Held \cup Kept(store) \cup lostBlocks
    /\ TotalIsExact

\* A request can be filled to the size it was made for, whichever cache or
\* bucket its block comes from: the copy into it relies on that.
BigEnough == \A h \in Holders : buffer[h].block # None =>
                buffer[h].asked <= store.size[buffer[h].block]
==============================================================================
