---------------------------- MODULE KVCacheManager ----------------------------
(***************************************************************************)
(* kvcached's block manager (kvcached/kvcached/kv_cache_manager.py) on top *)
(* of the page pool that the C++ page allocator implements (PagePool).     *)
(*                                                                         *)
(* A page of PageSize bytes holds the blocks that lie entirely inside it.  *)
(* The manager keeps the pages it took from the pool in two dictionaries,  *)
(* avail_pages and full_pages, counts the free blocks of the former, may   *)
(* hold reserved blocks back, and follows a limit that kvctl writes to     *)
(* shared memory.  Its lock is an RLock with asynchronous scheduling and   *)
(* nothing at all otherwise.                                               *)
(*                                                                         *)
(* _alloc is modelled step by step, one step per iteration of its loop, so *)
(* that an exception leaves it half done.  Free lists are sets.            *)
(***************************************************************************)
EXTENDS Integers, FiniteSets

CONSTANTS
    NumPages, PageSize,  \* the pages of the pool and their size
    BlockSize,           \* block_mem_size
    Clients,             \* scheduler threads
    PostInit, Nobody,    \* the _post_init thread; no lock holder
    AsyncSched,          \* RLock or NoOpLock
    MultiProcess,        \* world_size > 1 or worker IPC
    EnablePrealloc,      \* KVCACHED_PAGE_PREALLOC_ENABLED
    ReserveNull,         \* reserve_null_block
    Reserves,            \* the client also calls try_to_reserve
    MaxNeed,             \* bound on need_size
    Limits,              \* the sizes per layer that kvctl writes
    DirectLimits,        \* the sizes resize is called with
    AvailPhysical,       \* answers of get_avail_physical_pages + reserved pages
    Failures,            \* which of "map" and "unmap" may throw
    CreationTimesOut     \* the KV tensors may take longer than KV_TENSOR_WAIT_TIMEOUT

ASSUME SizesAssumption   == NumPages \in Nat /\ PageSize \in Nat \ {0} /\ BlockSize \in Nat \ {0}
ASSUME ThreadsAssumption == IsFiniteSet(Clients) /\ PostInit \notin Clients /\ Nobody \notin Clients \cup {PostInit}
ASSUME LockAssumption    == AsyncSched \/ Cardinality(Clients) = 1   \* a no-op lock: one scheduler thread
ASSUME FlagsAssumption   == {AsyncSched, MultiProcess, EnablePrealloc, ReserveNull, Reserves, CreationTimesOut} \subseteq BOOLEAN
ASSUME InputsAssumption  == MaxNeed \in Nat \ {0} /\ Limits \cup DirectLimits \subseteq Nat \ {0} /\ AvailPhysical \subseteq Nat

VARIABLES
    available, held, withdrawn, freeCount, limit,  \* the page pool
    availPages, fullPages,   \* avail_pages, full_pages
    freeBlocks,              \* freeBlocks[p]: free_list of the InternalPage p
    numAvail,                \* num_avail_blocks
    reservedBlocks, nullBlock,
    allocated,               \* blocks the client holds
    dropped,                 \* blocks taken from a page and forgotten by an exception
    inShrink, targetBlocks,  \* in_shrink, target_num_blocks (0: None)
    shmLimit, resizeTarget,  \* total_size per layer in shared memory; resize_target_ (0: -1)
    preallocStarted, initDone,
    lock,                    \* holder of _lock
    pc, call, need, got      \* per thread: position, operation, remaining_need, ret_index

poolVars  == <<available, held, withdrawn, freeCount, limit>>
pageVars  == <<availPages, fullPages, freeBlocks, numAvail>>
blockVars == <<reservedBlocks, nullBlock, allocated, dropped>>
limitVars == <<inShrink, targetBlocks, shmLimit, resizeTarget>>
initVars  == <<preallocStarted, initDone>>
callVars  == <<lock, pc, call, need, got>>
vars == <<poolVars, pageVars, blockVars, limitVars, initVars, callVars>>

Pool == INSTANCE PagePool

Pages   == 0 .. NumPages - 1
Threads == Clients \cup {PostInit}
AtMost(a, b) == IF a < b THEN a ELSE b
InitialMem == NumPages * PageSize

\* get_block_range: the blocks that do not straddle the ends of page p
firstBlock(p) == (p * PageSize + BlockSize - 1) \div BlockSize
endBlock(p)   == ((p + 1) * PageSize) \div BlockSize
Blocks(p)     == firstBlock(p) .. endBlock(p) - 1
\* get_num_blocks: what the manager takes every page to hold
blocksPerPage == PageSize \div BlockSize
\* get_page_id
pageOf(b) == (b * BlockSize) \div PageSize

Init ==
    /\ Pool!Init
    /\ availPages = {} /\ fullPages = {} /\ numAvail = 0
    /\ freeBlocks = [p \in Pages |-> {}]
    /\ reservedBlocks = {} /\ nullBlock = {} /\ allocated = {} /\ dropped = {}
    /\ inShrink = FALSE /\ targetBlocks = 0
    /\ shmLimit = InitialMem /\ resizeTarget = 0
    /\ preallocStarted = FALSE /\ initDone = FALSE
    /\ lock = Nobody
    /\ pc = [t \in Threads |-> IF t = PostInit THEN "creating" ELSE "idle"]
    /\ call = [t \in Threads |-> "alloc"]
    /\ need = [t \in Threads |-> 0]
    /\ got = [t \in Threads |-> {}]

-----------------------------------------------------------------------------
(* Helpers *)

Goto(t, label) == pc' = [pc EXCEPT ![t] = label]

\* A public method enters and leaves through @synchronized
Enter(t) == IF AsyncSched THEN lock = Nobody /\ lock' = t ELSE UNCHANGED lock
Leave    == IF AsyncSched THEN lock' = Nobody ELSE UNCHANGED lock
Unlocked == ~AsyncSched \/ lock = Nobody

\* _start_prealloc_thread is put off in multi-process mode
deferPrealloc == ~ReserveNull /\ MultiProcess

\* start_prealloc_thread starts the preallocation thread and the watcher of
\* the limit, or nothing at all when preallocation is disabled
preallocRuns == preallocStarted /\ EnablePrealloc

\* two mutants of available_size: the pages of the limit are all taken to be
\* free; a pending shrink is overlooked
availableSize_of_limit(physical) ==
    numAvail + Cardinality(reservedBlocks)
      + IF inShrink THEN 0 ELSE AtMost(limit, physical) * blocksPerPage

\* available_size, for one answer of the physical memory query
availableSize(physical) ==
    numAvail + Cardinality(reservedBlocks)
      + IF inShrink THEN 0 ELSE AtMost(freeCount, physical) * blocksPerPage

\* _get_num_alloced_blocks
numAlloced ==
    (Cardinality(fullPages) + Cardinality(availPages)) * blocksPerPage - numAvail
      + Cardinality(reservedBlocks)

\* PageAllocator::resize to n pages.  It also refuses a shrink when pages it
\* needs are in the hands of the preallocation thread, or in no list since an
\* unmap failed.
PoolResize(n, ok) ==
    \/ ok /\ n = limit /\ UNCHANGED poolVars
    \/ ok /\ n > limit /\ Pool!Raise /\ limit' = n
    \/ ok /\ n < limit /\ n >= limit - freeCount /\ Pool!Lower /\ limit' = n
    \/ ~ok /\ n < limit /\ (n < limit - freeCount \/ preallocRuns \/ "unmap" \in Failures)
       /\ UNCHANGED poolVars

\* resize: done; started; or an exception, of the assertion on reserved blocks
\* or of the unmap calls that a shrink makes
ResizeDone(mem) ==
    /\ PoolResize(mem \div PageSize, TRUE)
    /\ inShrink' = FALSE /\ targetBlocks' = IF inShrink THEN 0 ELSE targetBlocks
ResizeStarts(mem) ==
    /\ PoolResize(mem \div PageSize, FALSE) /\ reservedBlocks = {}
    /\ inShrink' = TRUE /\ targetBlocks' = mem \div BlockSize
ResizeRaises(mem) ==
    /\ \/ PoolResize(mem \div PageSize, FALSE) /\ reservedBlocks # {}
       \/ mem \div PageSize < limit /\ "unmap" \in Failures /\ UNCHANGED poolVars
    /\ UNCHANGED <<inShrink, targetBlocks>>

-----------------------------------------------------------------------------
(* _alloc, for alloc, try_to_reserve and the null block *)

\* alloc: the lock is taken first, then initialisation is waited for
AllocEnter(t) ==
    /\ pc[t] = "idle" /\ Enter(t)
    /\ \E n \in 1 .. MaxNeed : need' = [need EXCEPT ![t] = n]
    /\ call' = [call EXCEPT ![t] = "alloc"]
    /\ Goto(t, "alloc_wait")
    /\ UNCHANGED <<poolVars, pageVars, blockVars, limitVars, initVars, got>>

\* try_to_reserve, once its own capacity check has succeeded
ReserveEnter(t) ==
    /\ pc[t] = "idle" /\ Reserves /\ Enter(t) /\ initDone
    /\ \E n \in 1 .. MaxNeed, physical \in AvailPhysical :
         /\ availableSize(physical) >= n
         /\ need' = [need EXCEPT ![t] = n]
    /\ call' = [call EXCEPT ![t] = "reserve"]
    /\ Goto(t, "alloc_wait")
    /\ UNCHANGED <<poolVars, pageVars, blockVars, limitVars, initVars, got>>

\* An exception or a refusal ends the call.  What _alloc had collected is
\* dropped; _post_init sets its event in any case.
Abort(t) ==
    /\ Leave
    /\ dropped' = dropped \cup got[t]
    /\ got' = [got EXCEPT ![t] = {}] /\ need' = [need EXCEPT ![t] = 0]
    /\ Goto(t, IF t = PostInit THEN "done" ELSE "idle")
    /\ initDone' = (initDone \/ t = PostInit)
    /\ UNCHANGED <<preallocStarted, call>>

\* _wait_post_init, then the resize target of the watcher is polled
AllocPoll(t) ==
    /\ pc[t] = "alloc_wait" /\ (initDone \/ t = PostInit)
    /\ IF resizeTarget > 0
         THEN \/ /\ ResizeDone(resizeTarget) \/ ResizeStarts(resizeTarget)
                 /\ Goto(t, "alloc_check")
                 /\ UNCHANGED <<dropped, initVars, lock, call, need, got>>
              \/ ResizeRaises(resizeTarget) /\ Abort(t)
         ELSE /\ Goto(t, "alloc_check")
              /\ UNCHANGED <<poolVars, dropped, inShrink, targetBlocks, initVars, lock, call, need, got>>
    /\ UNCHANGED <<pageVars, reservedBlocks, nullBlock, allocated, shmLimit, resizeTarget>>

\* mutants: all reserved blocks are taken; the blocks stay reserved
AllocCheck_all(t) ==
    /\ pc[t] = "alloc_check"
    /\ \E physical \in AvailPhysical : availableSize(physical) >= need[t]
    /\ reservedBlocks' = {}
    /\ got' = [got EXCEPT ![t] = reservedBlocks]
    /\ need' = [need EXCEPT ![t] = @ - Cardinality(reservedBlocks)]
    /\ Goto(t, "alloc_take")
    /\ UNCHANGED <<poolVars, pageVars, nullBlock, allocated, dropped, limitVars, initVars, lock, call>>
AllocCheck_keeps(t) ==
    /\ pc[t] = "alloc_check"
    /\ \E physical \in AvailPhysical : availableSize(physical) >= need[t]
    /\ \E blocks \in SUBSET reservedBlocks :
         /\ Cardinality(blocks) = AtMost(Cardinality(reservedBlocks), need[t])
         /\ got' = [got EXCEPT ![t] = blocks]
         /\ need' = [need EXCEPT ![t] = @ - Cardinality(blocks)]
    /\ Goto(t, "alloc_take")
    /\ UNCHANGED <<poolVars, pageVars, blockVars, limitVars, initVars, lock, call>>

\* The capacity check; reserved blocks are used first
AllocCheck(t) ==
    /\ pc[t] = "alloc_check"
    /\ \E physical \in AvailPhysical : availableSize(physical) >= need[t]
    /\ \E blocks \in SUBSET reservedBlocks :
         /\ Cardinality(blocks) = AtMost(Cardinality(reservedBlocks), need[t])
         /\ reservedBlocks' = reservedBlocks \ blocks
         /\ got' = [got EXCEPT ![t] = blocks]
         /\ need' = [need EXCEPT ![t] = @ - Cardinality(blocks)]
    /\ Goto(t, "alloc_take")
    /\ UNCHANGED <<poolVars, pageVars, nullBlock, allocated, dropped, limitVars, initVars, lock, call>>

AllocRefused(t) ==
    /\ pc[t] = "alloc_check"
    /\ \E physical \in AvailPhysical : availableSize(physical) < need[t]
    /\ Abort(t)
    /\ UNCHANGED <<poolVars, pageVars, reservedBlocks, nullBlock, allocated, limitVars>>

\* a mutant: a page without free blocks stays in avail_pages
Draw_never_full(t, p, list, blocks) ==
    /\ freeBlocks' = [freeBlocks EXCEPT ![p] = list \ blocks]
    /\ availPages' = availPages \cup {p} /\ UNCHANGED fullPages
    /\ got' = [got EXCEPT ![t] = @ \cup blocks]
    /\ need' = [need EXCEPT ![t] = @ - Cardinality(blocks)]
\* One iteration: blocks is cut off the free list of page p
Draw(t, p, list, blocks) ==
    /\ freeBlocks' = [freeBlocks EXCEPT ![p] = list \ blocks]
    /\ IF list = blocks
         THEN fullPages' = fullPages \cup {p} /\ availPages' = availPages \ {p}
         ELSE availPages' = availPages \cup {p} /\ UNCHANGED fullPages
    /\ got' = [got EXCEPT ![t] = @ \cup blocks]
    /\ need' = [need EXCEPT ![t] = @ - Cardinality(blocks)]

AllocFromPage(t) ==
    /\ pc[t] = "alloc_take" /\ need[t] > 0
    /\ \E p \in availPages : \E blocks \in SUBSET freeBlocks[p] :
         /\ Cardinality(blocks) = AtMost(Cardinality(freeBlocks[p]), need[t])
         /\ Draw(t, p, freeBlocks[p], blocks)
         /\ numAvail' = numAvail - Cardinality(blocks)
    /\ UNCHANGED <<poolVars, blockVars, limitVars, initVars, lock, pc, call>>

\* alloc_page succeeds.  A fresh page gives its lowest blocks; before anything
\* else ran the pool gives page 0.  A page without blocks is parked as full.
AllocFetch(t) ==
    /\ pc[t] = "alloc_take" /\ need[t] > 0 /\ availPages = {}
    /\ \E p \in available :
         LET count == AtMost(Cardinality(Blocks(p)), need[t]) IN
         /\ t = PostInit => \A q \in available : p <= q
         /\ Pool!Take /\ held' = held \cup {p}
         /\ Draw(t, p, Blocks(p), firstBlock(p) .. firstBlock(p) + count - 1)
         /\ numAvail' = numAvail + Cardinality(Blocks(p)) - count
    /\ UNCHANGED <<blockVars, limitVars, initVars, lock, pc, call>>

\* alloc_page throws: no page is free, the page cannot be mapped, or those
\* counted as free are in no list and there is no preallocation to wait for
AllocFetchFails(t) ==
    /\ pc[t] = "alloc_take" /\ need[t] > 0 /\ availPages = {}
    /\ available = {} \/ "map" \in Failures \/ ("unmap" \in Failures /\ ~EnablePrealloc)
    /\ Abort(t)
    /\ UNCHANGED <<poolVars, pageVars, reservedBlocks, nullBlock, allocated, limitVars>>

\* alloc_page waits: pages are counted as free, but the preallocation thread has
\* them in hand or an unmap that failed lost them.  What it has collected so far
\* stays with the call, and so does the lock.
AllocBlocks(t) ==
    /\ pc[t] = "alloc_take" /\ need[t] > 0 /\ availPages = {} /\ available # {}
    /\ preallocRuns \/ (EnablePrealloc /\ "unmap" \in Failures)
    /\ Goto(t, "alloc_blocked")
    /\ UNCHANGED <<poolVars, pageVars, blockVars, limitVars, initVars, lock, call, need, got>>

\* A notify of the allocator wakes it, and it looks at its lists again.  Nothing
\* here says that one comes: see WaitersServed of PageAllocator.
AllocUnblocks(t) ==
    /\ pc[t] = "alloc_blocked"
    /\ Goto(t, "alloc_take")
    /\ UNCHANGED <<poolVars, pageVars, blockVars, limitVars, initVars, lock, call, need, got>>

AllocReturn(t) ==
    /\ t \in Clients /\ pc[t] = "alloc_take" /\ need[t] = 0
    /\ IF call[t] = "reserve"
         THEN reservedBlocks' = reservedBlocks \cup got[t] /\ UNCHANGED allocated
         ELSE allocated' = allocated \cup got[t] /\ UNCHANGED reservedBlocks
    /\ preallocStarted' = (preallocStarted \/ deferPrealloc)
    /\ got' = [got EXCEPT ![t] = {}]
    /\ Leave /\ Goto(t, "idle")
    /\ UNCHANGED <<poolVars, pageVars, nullBlock, dropped, limitVars, initDone, call, need>>

-----------------------------------------------------------------------------
(* _post_init *)

TensorsCreated ==
    /\ pc[PostInit] = "creating"
    /\ IF ReserveNull
         THEN Goto(PostInit, "null") /\ UNCHANGED initVars
         ELSE /\ Goto(PostInit, "done") /\ initDone' = TRUE
              /\ preallocStarted' = (preallocStarted \/ ~deferPrealloc)
    /\ UNCHANGED <<poolVars, pageVars, blockVars, limitVars, lock, call, need, got>>

\* a mutant: the event is set on success only
CreationTimeout_silent ==
    /\ pc[PostInit] = "creating" /\ CreationTimesOut
    /\ Goto(PostInit, "done")
    /\ UNCHANGED <<poolVars, pageVars, blockVars, limitVars, initVars, lock, call, need, got>>
\* KV_TENSOR_WAIT_TIMEOUT: the exception is logged, the event is set
CreationTimeout ==
    /\ pc[PostInit] = "creating" /\ CreationTimesOut
    /\ Goto(PostInit, "done") /\ initDone' = TRUE
    /\ UNCHANGED <<poolVars, pageVars, blockVars, limitVars, preallocStarted, lock, call, need, got>>

\* _reserve_null_block calls the synchronized _alloc(1, _skip_wait=True)
NullEnter ==
    /\ pc[PostInit] = "null" /\ Enter(PostInit)
    /\ need' = [need EXCEPT ![PostInit] = 1]
    /\ Goto(PostInit, "alloc_wait")
    /\ UNCHANGED <<poolVars, pageVars, blockVars, limitVars, initVars, call, got>>

NullReturn ==
    /\ pc[PostInit] = "alloc_take" /\ need[PostInit] = 0
    /\ nullBlock' = got[PostInit] /\ got' = [got EXCEPT ![PostInit] = {}]
    /\ preallocStarted' = (preallocStarted \/ nullBlock' = {0})
    /\ initDone' = TRUE
    /\ Leave /\ Goto(PostInit, "done")
    /\ UNCHANGED <<poolVars, pageVars, reservedBlocks, allocated, dropped, limitVars, call, need>>

-----------------------------------------------------------------------------
(* free, and free_reserved, which frees through it *)

\* The blocks go back to their pages; pages that became empty go back to the
\* pool.  An exception of free_pages skips what follows.
FreeBlocks(t, blocks) ==
    LET touched   == {pageOf(b) : b \in blocks} \cap (availPages \cup fullPages)
        freed     == {b \in blocks : pageOf(b) \in touched}
        list(p)   == freeBlocks[p] \cup {b \in blocks : pageOf(b) = p}
        emptied   == {p \in touched : list(p) = Blocks(p)}
        oldEmpty  == UNION {Blocks(p) : p \in emptied}
    IN  /\ freeBlocks' = [p \in Pages |-> IF p \in emptied THEN {} ELSE
                                          IF p \in touched THEN list(p) ELSE freeBlocks[p]]
        /\ fullPages' = fullPages \ touched
        /\ availPages' = (availPages \cup touched) \ emptied
        /\ numAvail' = numAvail + Cardinality(freed) - Cardinality(oldEmpty)
        /\ IF emptied = {} THEN UNCHANGED poolVars ELSE Pool!Give /\ held' = held \ emptied
        /\ \/ /\ Goto(t, IF inShrink THEN "freed" ELSE "free_return")
              /\ IF AsyncSched THEN lock' = t ELSE UNCHANGED lock
           \/ /\ emptied # {} /\ "unmap" \in Failures
              /\ UNCHANGED <<pc, lock>>

Free(t) ==
    /\ pc[t] = "idle" /\ Unlocked /\ initDone
    /\ \E blocks \in (SUBSET allocated) \ {{}} :
         /\ FreeBlocks(t, blocks)
         /\ allocated' = allocated \ blocks
    /\ call' = [call EXCEPT ![t] = "free"]
    /\ UNCHANGED <<reservedBlocks, nullBlock, dropped, limitVars, initVars, need, got>>

\* KVCACHED_SANITY_CHECK is off: with it, free would refuse these blocks
FreeReserved(t) ==
    /\ pc[t] = "idle" /\ Unlocked /\ initDone /\ reservedBlocks # {}
    /\ FreeBlocks(t, reservedBlocks)
    /\ call' = [call EXCEPT ![t] = "free_reserved"]
    /\ UNCHANGED <<blockVars, limitVars, initVars, need, got>>

\* The end of free while a shrink is pending; the answer of resize is ignored
\* (a mutant: free sets the limit itself instead of calling resize)
ShrinkCheck_direct(t) ==
    /\ pc[t] = "freed"
    /\ IF numAlloced <= targetBlocks
         THEN /\ limit' = (targetBlocks * BlockSize) \div PageSize
              /\ inShrink' = FALSE /\ targetBlocks' = 0
              /\ UNCHANGED <<available, held, withdrawn, freeCount>>
         ELSE UNCHANGED <<poolVars, inShrink, targetBlocks>>
    /\ Goto(t, "free_return")
    /\ UNCHANGED <<pageVars, blockVars, shmLimit, resizeTarget, initVars, lock, call, need, got>>
ShrinkCheck(t) ==
    /\ pc[t] = "freed"
    /\ IF numAlloced <= targetBlocks
         THEN /\ \E ok \in BOOLEAN : PoolResize((targetBlocks * BlockSize) \div PageSize, ok)
              /\ inShrink' = FALSE /\ targetBlocks' = 0
         ELSE UNCHANGED <<poolVars, inShrink, targetBlocks>>
    /\ Goto(t, "free_return")
    /\ UNCHANGED <<pageVars, blockVars, shmLimit, resizeTarget, initVars, lock, call, need, got>>

\* ... unless it throws: the shrink stays pending, what is reserved stays listed
ShrinkRaises(t) ==
    /\ pc[t] = "freed" /\ numAlloced <= targetBlocks
    /\ (targetBlocks * BlockSize) \div PageSize < limit /\ "unmap" \in Failures
    /\ Leave /\ Goto(t, "idle")
    /\ UNCHANGED <<poolVars, pageVars, blockVars, limitVars, initVars, call, need, got>>

FreeReturn(t) ==
    /\ pc[t] = "free_return"
    /\ reservedBlocks' = IF call[t] = "free_reserved" THEN {} ELSE reservedBlocks
    /\ Leave /\ Goto(t, "idle")
    /\ UNCHANGED <<poolVars, pageVars, nullBlock, allocated, dropped, limitVars, initVars, call, need, got>>

-----------------------------------------------------------------------------
(* resize called directly, clear, and the limit in shared memory *)

Resize(t) ==
    /\ pc[t] = "idle" /\ Unlocked /\ initDone
    /\ \E mem \in DirectLimits : ResizeDone(mem) \/ ResizeStarts(mem)
    /\ UNCHANGED <<pageVars, blockVars, shmLimit, resizeTarget, initVars, callVars>>

\* clear first stops the preallocation thread under a name that the binding
\* does not define: every call ends there
ClearEnter(t) ==
    /\ pc[t] = "idle" /\ Enter(t)
    /\ Goto(t, "clear")
    /\ UNCHANGED <<poolVars, pageVars, blockVars, limitVars, initVars, call, need, got>>

ClearFails(t) ==
    /\ pc[t] = "clear" /\ initDone
    /\ Leave /\ Goto(t, "idle")
    /\ UNCHANGED <<poolVars, pageVars, blockVars, limitVars, initVars, call, need, got>>

\* kvctl limit
SetLimit ==
    /\ \E mem \in Limits : mem # shmLimit /\ shmLimit' = mem
    /\ UNCHANGED <<poolVars, pageVars, blockVars, inShrink, targetBlocks, resizeTarget, initVars, callVars>>

\* resize_watcher compares the shared limit with the initial size
watched == IF shmLimit = InitialMem THEN 0 ELSE shmLimit

WatchLimit ==
    /\ preallocRuns /\ resizeTarget # watched
    /\ resizeTarget' = watched
    /\ UNCHANGED <<poolVars, pageVars, blockVars, inShrink, targetBlocks, shmLimit, initVars, callVars>>

-----------------------------------------------------------------------------
Begin(t) == AllocEnter(t) \/ ReserveEnter(t) \/ Free(t) \/ FreeReserved(t) \/ Resize(t) \/ ClearEnter(t)

Alloc(t) == \/ AllocPoll(t) \/ AllocCheck(t) \/ AllocRefused(t) \/ AllocFromPage(t)
            \/ AllocFetch(t) \/ AllocFetchFails(t)

Continue(t) == Alloc(t) \/ AllocReturn(t) \/ ShrinkCheck(t) \/ ShrinkRaises(t) \/ FreeReturn(t) \/ ClearFails(t)

PostInitStep == TensorsCreated \/ CreationTimeout \/ NullEnter \/ Alloc(PostInit) \/ NullReturn

Next ==
    \/ \E t \in Clients : Begin(t) \/ Continue(t)
    \/ \E t \in Threads : AllocBlocks(t) \/ AllocUnblocks(t)
    \/ PostInitStep
    \/ SetLimit \/ WatchLimit

Spec == Init /\ [][Next]_vars

\* Running threads go on; nothing forces a call, and _post_init's loop ends.
\* A thread that waits in alloc_page is not running.
Fairness == WF_vars(PostInitStep) /\ \A t \in Clients : WF_vars(Continue(t))
FairSpec == Spec /\ Fairness

-----------------------------------------------------------------------------
(* Properties *)

AllBlocks == UNION {Blocks(p) : p \in Pages}

TypeOK ==
    /\ available \subseteq Pages /\ held \subseteq Pages /\ withdrawn \subseteq Pages
    /\ freeCount \in Int /\ limit \in Int
    /\ availPages \subseteq Pages /\ fullPages \subseteq Pages
    /\ freeBlocks \in [Pages -> SUBSET AllBlocks] /\ numAvail \in Nat
    /\ reservedBlocks \subseteq AllBlocks /\ nullBlock \subseteq AllBlocks
    /\ allocated \subseteq AllBlocks /\ dropped \subseteq AllBlocks
    /\ inShrink \in BOOLEAN /\ targetBlocks \in Nat
    /\ shmLimit \in Nat /\ resizeTarget \in Nat
    /\ preallocStarted \in BOOLEAN /\ initDone \in BOOLEAN
    /\ lock \in Threads \cup {Nobody}
    /\ pc \in [Threads -> {"creating", "null", "done", "idle", "alloc_wait", "alloc_check",
                           "alloc_take", "alloc_blocked", "freed", "free_return", "clear"}]
    /\ call \in [Threads -> {"alloc", "reserve", "free", "free_reserved"}]
    /\ need \in [Threads -> 0 .. MaxNeed] /\ got \in [Threads -> SUBSET AllBlocks]

\* Blocks taken out of the free lists, wherever they are now.  The blocks
\* free_reserved is returning are still in the reserved list until it ends.
returning == \E t \in Clients : pc[t] \in {"freed", "free_return"} /\ call[t] = "free_reserved"
taken == allocated \cup nullBlock \cup dropped \cup (UNION {got[t] : t \in Threads})
           \cup IF returning THEN {} ELSE reservedBlocks

\* Every block of a page the manager holds is in its free list or taken, never
\* both; nobody has a block of a page that is not held (it may be unmapped).
\* The client's blocks, the reserved ones and the null block are different.
BlocksAccounted ==
    /\ taken \cup UNION {freeBlocks[p] : p \in Pages} = UNION {Blocks(p) : p \in held}
    /\ \A p \in Pages : freeBlocks[p] \subseteq Blocks(p) \ taken
    /\ allocated \cap (reservedBlocks \cup nullBlock) = {} /\ nullBlock \cap reservedBlocks = {}
    /\ \A t \in Threads : got[t] \cap (allocated \cup reservedBlocks \cup nullBlock) = {}

\* The two dictionaries hold exactly the pages taken from the pool, sorted by
\* whether they have free blocks; an empty page is not kept; num_avail_blocks is
\* the sum that the incremental updates of _alloc and free are meant to keep.
PagesTracked ==
    /\ availPages \cup fullPages = held /\ availPages \cap fullPages = {}
    /\ \A p \in fullPages : freeBlocks[p] = {}
    /\ \A p \in availPages : freeBlocks[p] # {} /\ freeBlocks[p] # Blocks(p)
    /\ numAvail = Cardinality(UNION {freeBlocks[p] : p \in availPages})

\* An allocation that passed the capacity check does not run out of pages, also
\* while it waits for one.
CapacityCheckSuffices ==
    \A t \in Threads :
        pc[t] \in {"alloc_take", "alloc_blocked"} /\ need[t] > 0 => availPages # {} \/ available # {}

\* A call of alloc comes to an end, by an answer, a refusal or an exception, and
\* gives the lock up, whatever fails and while another thread resizes.  Checked
\* with preallocation disabled: with it, the wait of alloc_page has no end after
\* an unmap that failed, or with the interpreter lock held (WaitersServed).
AllocReturns == \A t \in Clients : pc[t] = "alloc_wait" ~> pc[t] = "idle"

\* The manager uses the pool through its four operations only.
UsesPool == Pool!Spec

===============================================================================
