---------------------------- MODULE PageAllocator ----------------------------
(***************************************************************************)
(* The C++ page allocator of kvcached (kvcached/csrc/page_allocator.cpp).  *)
(*                                                                         *)
(* A KV cache of NumPages pages per layer is virtual memory; a page is     *)
(* backed by physical memory only while it is mapped.  The allocator keeps *)
(* three lists: free pages (unmapped), reserved pages (mapped ahead of     *)
(* use) and reclaimed pages (withdrawn by a shrink).  Its mutex lock_ is   *)
(* released while pages are mapped or unmapped, so a page being worked on  *)
(* is in no list: it is in a local vector of one thread, here hand[t].     *)
(*                                                                         *)
(* Each action is one critical section of lock_, or the map/unmap call     *)
(* between two of them together with the section that follows it.  Page    *)
(* lists are sets: which page a pop returns is left open, which includes   *)
(* the order the deques keep (and makes reset_free_page_order a no-op).    *)
(***************************************************************************)
EXTENDS Integers, FiniteSets

CONSTANTS
    NumPages,        \* mem_size_per_layer / page_size at construction
    Callers,         \* the threads that call the allocator
    Prealloc,        \* the preallocation thread
    MinReserved,     \* KVCACHED_MIN_RESERVED_PAGES
    MaxReserved,     \* KVCACHED_MAX_RESERVED_PAGES
    DeferFreeUnmap,  \* KVCACHED_DEFER_FREE_UNMAP
    EnablePrealloc,  \* enable_page_prealloc_
    ResizeTargets,   \* the limits, in pages, that resize is called with
    AvailPhysical,   \* the answers of get_avail_physical_pages
    Failures         \* which of "map" and "unmap" may throw

ASSUME NumPagesAssumption   == NumPages \in Nat
ASSUME ReservedAssumption   == MinReserved \in Nat /\ MaxReserved \in Nat
ASSUME ThreadsAssumption    == IsFiniteSet(Callers) /\ Prealloc \notin Callers
ASSUME FlagsAssumption      == DeferFreeUnmap \in BOOLEAN /\ EnablePrealloc \in BOOLEAN
ASSUME TargetsAssumption    == ResizeTargets \subseteq Nat
ASSUME EnvironmentAssumption == AvailPhysical \subseteq Nat /\ Failures \subseteq {"map", "unmap"}

VARIABLES
    free, reserved, reclaimed,  \* the three page lists
    inUse,             \* pages handed to the KV cache manager and not given back
    leaked,            \* pages dropped by an exception: in no list, held by nobody
    hand,              \* hand[t]: the pages in a local vector of thread t
    mapped,            \* pages backed by physical memory (FTensorAllocator)
    numFree, numTotal, \* num_free_pages_, num_total_pages_
    needed, running,   \* prealloc_needed_, prealloc_running_
    waiting,           \* threads blocked in cond_.wait
    pc,                \* where each thread is
    target,            \* target[t]: new_num_pages of a resize that must unmap first
    measured,          \* measured[t]: the usage alloc_page read without the lock
    published          \* the usage last written to the shared MemInfoStruct

lists    == <<free, reserved, reclaimed, inUse, leaked, hand, mapped>>
counters == <<numFree, numTotal>>
signals  == <<needed, running, waiting>>
usage    == <<measured, published>>
vars     == <<lists, counters, signals, pc, target, usage>>

Threads == Callers \cup {Prealloc}
AtMost(a, b) == IF a < b THEN a ELSE b

\* min_reserved_pages_ and max_reserved_pages_, fixed by the constructor
minReserved == AtMost(NumPages, MinReserved)
maxReserved == AtMost(NumPages, MaxReserved)

PageSets == {s \in SUBSET Nat : IsFiniteSet(s)}
Usages == [used : Int, prealloc : Nat]
NoUsage == [used |-> 0, prealloc |-> 0]

Init ==
    /\ free = 0 .. NumPages - 1
    /\ reserved = {} /\ reclaimed = {} /\ inUse = {} /\ leaked = {} /\ mapped = {}
    /\ hand = [t \in Threads |-> {}]
    /\ numFree = NumPages /\ numTotal = NumPages
    /\ needed = FALSE /\ running = FALSE /\ waiting = {}
    /\ pc = [t \in Threads |-> IF t = Prealloc THEN "off" ELSE "idle"]
    /\ target = [t \in Threads |-> 0]
    /\ measured = [t \in Threads |-> NoUsage]
    /\ published = NoUsage

-----------------------------------------------------------------------------
(* Helpers *)

Goto(t, label) == pc' = [pc EXCEPT ![t] = label]
Hold(t, pages) == hand' = [hand EXCEPT ![t] = pages]
NotifyAll      == waiting' = {}

get_num_inuse_pages == numTotal - numFree

\* update_memory_usage, called with the lock held at the end of a section
Publish == published' = [used |-> numTotal' - numFree', prealloc |-> Cardinality(reserved')]

-----------------------------------------------------------------------------
(* alloc_page.  A caller at "alloc" is at the top of the while loop. *)

AllocCall(t) ==
    /\ pc[t] = "idle"
    /\ Goto(t, "alloc")
    /\ UNCHANGED <<lists, counters, signals, target, usage>>

AllocReserved(t) ==
    /\ pc[t] = "alloc" /\ t \notin waiting
    /\ \E p \in reserved :
         /\ reserved' = reserved \ {p}
         /\ inUse' = inUse \cup {p}
    /\ numFree' = numFree - 1
    /\ IF Cardinality(reserved') < minReserved
         THEN needed' = TRUE /\ NotifyAll
         ELSE UNCHANGED <<needed, waiting>>
    /\ UNCHANGED numTotal
    /\ Publish
    /\ Goto(t, "idle")
    /\ UNCHANGED <<free, reclaimed, leaked, hand, mapped, running, target, measured>>

AllocFree(t) ==
    /\ pc[t] = "alloc" /\ t \notin waiting
    /\ reserved = {}
    /\ \E p \in free : free' = free \ {p} /\ Hold(t, {p})
    /\ numFree' = numFree - 1
    /\ Goto(t, "alloc_map")
    /\ UNCHANGED <<reserved, reclaimed, inUse, leaked, mapped, numTotal, signals, target, usage>>

\* "No free pages left", or "Inconsistent page allocator state": throws
AllocExhausted(t) ==
    /\ pc[t] = "alloc" /\ t \notin waiting
    /\ reserved = {} /\ free = {}
    /\ numFree <= 0 \/ ~EnablePrealloc
    /\ Goto(t, "idle")
    /\ UNCHANGED <<lists, counters, signals, target, usage>>

AllocWait(t) ==
    /\ pc[t] = "alloc" /\ t \notin waiting
    /\ reserved = {} /\ free = {}
    /\ numFree > 0 /\ EnablePrealloc
    /\ waiting' = waiting \cup {t}
    /\ UNCHANGED <<lists, counters, needed, running, pc, target, usage>>

\* map_pages succeeds outside the lock
AllocMapped(t) ==
    /\ pc[t] = "alloc_map"
    /\ mapped' = mapped \cup hand[t]
    /\ Goto(t, IF EnablePrealloc THEN "alloc_trigger" ELSE "alloc_measure")
    /\ UNCHANGED <<free, reserved, reclaimed, inUse, leaked, hand, counters, signals, target, usage>>

\* Mutant: the page goes back, the counter does not
AllocMapFailed_uncounted(t) ==
    /\ pc[t] = "alloc_map" /\ "map" \in Failures
    /\ free' = free \cup hand[t] /\ Hold(t, {})
    /\ NotifyAll
    /\ Goto(t, "idle")
    /\ UNCHANGED <<reserved, reclaimed, inUse, leaked, mapped, counters, needed, running, target, usage>>

AllocMapFailed(t) ==
    /\ pc[t] = "alloc_map" /\ "map" \in Failures
    /\ free' = free \cup hand[t] /\ Hold(t, {})
    /\ numFree' = numFree + 1
    /\ NotifyAll
    /\ Goto(t, "idle")
    /\ UNCHANGED <<reserved, reclaimed, inUse, leaked, mapped, numTotal, needed, running, target, usage>>

\* trigger_preallocation
AllocTrigger(t) ==
    /\ pc[t] = "alloc_trigger"
    /\ needed' = TRUE /\ NotifyAll
    /\ Goto(t, "alloc_measure")
    /\ UNCHANGED <<lists, counters, running, target, usage>>

\* update_memory_usage called without the lock: the counters are read ...
AllocMeasure(t) ==
    /\ pc[t] = "alloc_measure"
    /\ measured' = [measured EXCEPT ![t] =
                      [used |-> get_num_inuse_pages, prealloc |-> Cardinality(reserved)]]
    /\ Goto(t, "alloc_publish")
    /\ UNCHANGED <<lists, counters, signals, target, published>>

\* ... and written to the shared record later; then the page is returned
AllocPublish(t) ==
    /\ pc[t] = "alloc_publish"
    /\ published' = measured[t]
    /\ measured' = [measured EXCEPT ![t] = NoUsage]
    /\ inUse' = inUse \cup hand[t] /\ Hold(t, {})
    /\ Goto(t, "idle")
    /\ UNCHANGED <<free, reserved, reclaimed, leaked, mapped, counters, signals, target>>

-----------------------------------------------------------------------------
(* free_pages (and free_page, its one-page form) *)

\* How many of n freed pages stay mapped in the reserved list
numToReserve(n) ==
    IF DeferFreeUnmap THEN n
    ELSE IF Cardinality(reserved) >= maxReserved THEN 0
    ELSE AtMost(n, maxReserved - Cardinality(reserved))

\* Mutant: only the pages that stay reserved are counted as free again
FreePages_miscounted(t) ==
    /\ pc[t] = "idle"
    /\ \E pages \in (SUBSET inUse) \ {{}} : \E kept \in SUBSET pages :
         /\ Cardinality(kept) = numToReserve(Cardinality(pages))
         /\ inUse' = inUse \ pages
         /\ numFree' = numFree + Cardinality(kept)
         /\ reserved' = reserved \cup kept
         /\ UNCHANGED numTotal
         /\ IF kept = pages
              THEN Publish /\ NotifyAll /\ UNCHANGED <<hand, pc>>
              ELSE Hold(t, pages \ kept) /\ Goto(t, "free_unmap") /\ UNCHANGED <<published, waiting>>
    /\ UNCHANGED <<free, reclaimed, leaked, mapped, needed, running, target, measured>>

FreePages(t) ==
    /\ pc[t] = "idle"
    /\ \E pages \in (SUBSET inUse) \ {{}} : \E kept \in SUBSET pages :
         /\ Cardinality(kept) = numToReserve(Cardinality(pages))
         /\ inUse' = inUse \ pages
         /\ numFree' = numFree + Cardinality(pages)
         /\ reserved' = reserved \cup kept
         /\ UNCHANGED numTotal
         /\ IF kept = pages
              THEN Publish /\ NotifyAll /\ UNCHANGED <<hand, pc>>
              ELSE Hold(t, pages \ kept) /\ Goto(t, "free_unmap") /\ UNCHANGED <<published, waiting>>
    /\ UNCHANGED <<free, reclaimed, leaked, mapped, needed, running, target, measured>>

\* Mutant: the pages return to the free list still mapped
FreeUnmapped_mapped(t) ==
    /\ pc[t] = "free_unmap"
    /\ free' = free \cup hand[t] /\ Hold(t, {})
    /\ UNCHANGED <<reserved, counters>>
    /\ Publish
    /\ NotifyAll
    /\ Goto(t, "idle")
    /\ UNCHANGED <<reclaimed, inUse, leaked, mapped, needed, running, target, measured>>

FreeUnmapped(t) ==
    /\ pc[t] = "free_unmap"
    /\ mapped' = mapped \ hand[t]
    /\ free' = free \cup hand[t] /\ Hold(t, {})
    /\ UNCHANGED <<reserved, counters>>
    /\ Publish
    /\ NotifyAll
    /\ Goto(t, "idle")
    /\ UNCHANGED <<reclaimed, inUse, leaked, needed, running, target, measured>>

\* unmap_pages throws out of free_pages, trim or resize: nothing puts the
\* pages back in a list.  The FTensor rollback leaves them mapped.
UnmapFailed(t) ==
    /\ pc[t] \in {"free_unmap", "trim_unmap", "resize_unmap"} /\ "unmap" \in Failures
    /\ leaked' = leaked \cup hand[t] /\ Hold(t, {})
    /\ Goto(t, "idle")
    /\ target' = [target EXCEPT ![t] = 0]
    /\ UNCHANGED <<free, reserved, reclaimed, inUse, mapped, counters, signals, usage>>

-----------------------------------------------------------------------------
(* trim *)

\* Mutant: the reserved list is copied but not cleared
Trim_uncleared(t) ==
    /\ pc[t] = "idle"
    /\ UNCHANGED <<reserved, counters>>
    /\ IF reserved = {}
         THEN Publish /\ UNCHANGED <<hand, pc>>
         ELSE Hold(t, reserved) /\ Goto(t, "trim_unmap") /\ UNCHANGED published
    /\ UNCHANGED <<free, reclaimed, inUse, leaked, mapped, signals, target, measured>>

Trim(t) ==
    /\ pc[t] = "idle"
    /\ reserved' = {}
    /\ UNCHANGED counters
    /\ IF reserved = {}
         THEN Publish /\ UNCHANGED <<hand, pc>>
         ELSE Hold(t, reserved) /\ Goto(t, "trim_unmap") /\ UNCHANGED published
    /\ UNCHANGED <<free, reclaimed, inUse, leaked, mapped, signals, target, measured>>

\* the last section of trim notifies nobody
TrimUnmapped(t) ==
    /\ pc[t] = "trim_unmap"
    /\ mapped' = mapped \ hand[t]
    /\ free' = free \cup hand[t] /\ Hold(t, {})
    /\ UNCHANGED <<reserved, counters>>
    /\ Publish
    /\ Goto(t, "idle")
    /\ UNCHANGED <<reclaimed, inUse, leaked, signals, target, measured>>

-----------------------------------------------------------------------------
(* resize(n).  The calls that return without a change are left out: a target
   below the pages in use, the present limit, and a shrink that finds neither
   enough free pages nor a reserved one. *)

\* Ids of the pages an expansion creates once the reclaimed ones are used up
newPages(count) == numTotal .. numTotal + count - 1

Expand(t, n) ==
    /\ pc[t] = "idle"
    /\ n >= get_num_inuse_pages /\ n > numTotal
    /\ \E reused \in SUBSET reclaimed :
         /\ Cardinality(reused) = AtMost(Cardinality(reclaimed), n - numTotal)
         /\ reclaimed' = reclaimed \ reused
         /\ free' = free \cup reused \cup newPages(n - numTotal - Cardinality(reused))
    /\ numFree' = numFree + (n - numTotal)
    /\ numTotal' = n
    /\ UNCHANGED reserved
    /\ Publish
    /\ UNCHANGED <<inUse, leaked, hand, mapped, signals, pc, target, measured>>

\* Mutant: the limit becomes the (negative) difference
Reclaim_swapped(available, n) ==
    \E taken \in SUBSET available :
      /\ Cardinality(taken) = numTotal - n
      /\ free' = available \ taken
      /\ reclaimed' = reclaimed \cup taken
      /\ numFree' = numFree - (numTotal - n)
      /\ numTotal' = n - numTotal

\* Move numTotal - n pages from the back of the free list to the reclaimed list
Reclaim(available, n) ==
    \E taken \in SUBSET available :
      /\ Cardinality(taken) = numTotal - n
      /\ free' = available \ taken
      /\ reclaimed' = reclaimed \cup taken
      /\ numFree' = numFree - (numTotal - n)
      /\ numTotal' = n

ShrinkFree(t, n) ==
    /\ pc[t] = "idle"
    /\ n >= get_num_inuse_pages /\ n < numTotal
    /\ Cardinality(free) >= numTotal - n
    /\ Reclaim(free, n)
    /\ UNCHANGED <<reserved, inUse, leaked, hand, mapped, signals, pc, target, usage>>

\* Too few free pages: take every reserved page and unmap it first
ShrinkReserved(t, n) ==
    /\ pc[t] = "idle"
    /\ n >= get_num_inuse_pages /\ n < numTotal
    /\ Cardinality(free) < numTotal - n /\ reserved # {}
    /\ Hold(t, reserved) /\ reserved' = {}
    /\ target' = [target EXCEPT ![t] = n]
    /\ Goto(t, "resize_unmap")
    /\ UNCHANGED <<free, reclaimed, inUse, leaked, mapped, counters, signals, usage>>

\* Second section: the limit is recomputed, then reached or given up.  The
\* usage is published between the two, before the counters change.
ShrinkUnmapped(t) ==
    LET available == free \cup hand[t]
        n         == target[t]
        possible  == n <= numTotal /\ Cardinality(available) >= numTotal - n
    IN  /\ pc[t] = "resize_unmap"
        /\ mapped' = mapped \ hand[t] /\ Hold(t, {})
        /\ IF possible
             THEN Reclaim(available, n)
             ELSE free' = available /\ UNCHANGED <<reclaimed, counters>>
        /\ published' = [used |-> get_num_inuse_pages, prealloc |-> Cardinality(reserved)]
        /\ target' = [target EXCEPT ![t] = 0]
        /\ Goto(t, "idle")
        /\ UNCHANGED <<reserved, inUse, leaked, signals, measured>>

-----------------------------------------------------------------------------
(* start_prealloc_thread and stop_prealloc_thread.  The thread pointer is not
   protected by lock_, so one caller at a time controls the thread. *)

StartPrealloc(t) ==
    /\ pc[t] = "idle" /\ EnablePrealloc
    /\ pc[Prealloc] = "off" /\ \A u \in Callers : pc[u] # "join"
    /\ pc' = [pc EXCEPT ![Prealloc] = "loop"]
    /\ running' = TRUE /\ needed' = TRUE /\ NotifyAll
    /\ UNCHANGED <<lists, counters, target, usage>>

\* Mutant: the sleeping thread is not told
StopPrealloc_silent(t) ==
    /\ pc[t] = "idle" /\ EnablePrealloc
    /\ pc[Prealloc] # "off" /\ \A u \in Callers : pc[u] # "join"
    /\ running' = FALSE
    /\ Goto(t, "join")
    /\ UNCHANGED <<lists, counters, needed, waiting, target, usage>>

StopPrealloc(t) ==
    /\ pc[t] = "idle" /\ EnablePrealloc
    /\ pc[Prealloc] # "off" /\ \A u \in Callers : pc[u] # "join"
    /\ running' = FALSE /\ NotifyAll
    /\ Goto(t, "join")
    /\ UNCHANGED <<lists, counters, needed, target, usage>>

StopJoined(t) ==
    /\ pc[t] = "join" /\ pc[Prealloc] = "off"
    /\ Goto(t, "idle")
    /\ UNCHANGED <<lists, counters, signals, target, usage>>

-----------------------------------------------------------------------------
(* prealloc_worker *)

WorkerWait ==
    /\ pc[Prealloc] = "loop" /\ Prealloc \notin waiting
    /\ running /\ ~needed
    /\ waiting' = waiting \cup {Prealloc}
    /\ UNCHANGED <<lists, counters, needed, running, pc, target, usage>>

WorkerExit ==
    /\ pc[Prealloc] = "loop" /\ Prealloc \notin waiting
    /\ ~running
    /\ Goto(Prealloc, "off")
    /\ UNCHANGED <<lists, counters, signals, target, usage>>

\* to_reserve, given the physical memory that is left
toReserve(avail) ==
    IF Cardinality(reserved) >= minReserved THEN 0
    ELSE AtMost(minReserved - Cardinality(reserved), AtMost(Cardinality(free), avail))

WorkerTake ==
    /\ pc[Prealloc] = "loop" /\ Prealloc \notin waiting
    /\ running /\ needed
    /\ needed' = FALSE
    /\ \E avail \in AvailPhysical : \E pages \in SUBSET free :
         /\ Cardinality(pages) = toReserve(avail)
         /\ free' = free \ pages /\ Hold(Prealloc, pages)
         /\ IF pages = {} THEN UNCHANGED pc ELSE Goto(Prealloc, "map")
    /\ UNCHANGED <<reserved, reclaimed, inUse, leaked, mapped, counters, running, waiting, target, usage>>

\* Mutant: threads waiting for pages are not told
WorkerMapped_silent ==
    /\ pc[Prealloc] = "map"
    /\ mapped' = mapped \cup hand[Prealloc]
    /\ reserved' = reserved \cup hand[Prealloc] /\ Hold(Prealloc, {})
    /\ UNCHANGED counters
    /\ Publish
    /\ Goto(Prealloc, "loop")
    /\ UNCHANGED <<free, reclaimed, inUse, leaked, needed, running, waiting, target, measured>>

WorkerMapped ==
    /\ pc[Prealloc] = "map"
    /\ mapped' = mapped \cup hand[Prealloc]
    /\ reserved' = reserved \cup hand[Prealloc] /\ Hold(Prealloc, {})
    /\ UNCHANGED counters
    /\ Publish
    /\ NotifyAll
    /\ Goto(Prealloc, "loop")
    /\ UNCHANGED <<free, reclaimed, inUse, leaked, needed, running, target, measured>>

\* Mutant: the same when mapping fails
WorkerMapFailed_silent ==
    /\ pc[Prealloc] = "map" /\ "map" \in Failures
    /\ free' = free \cup hand[Prealloc] /\ Hold(Prealloc, {})
    /\ Goto(Prealloc, "loop")
    /\ UNCHANGED <<reserved, reclaimed, inUse, leaked, mapped, counters, needed, running, waiting, target, usage>>

WorkerMapFailed ==
    /\ pc[Prealloc] = "map" /\ "map" \in Failures
    /\ free' = free \cup hand[Prealloc] /\ Hold(Prealloc, {})
    /\ NotifyAll
    /\ Goto(Prealloc, "loop")
    /\ UNCHANGED <<reserved, reclaimed, inUse, leaked, mapped, counters, needed, running, target, usage>>

-----------------------------------------------------------------------------
\* A call begins, or runs to completion in one section
Begin(t) ==
    \/ AllocCall(t) \/ FreePages(t) \/ Trim(t) \/ StartPrealloc(t) \/ StopPrealloc(t)
    \/ \E n \in ResizeTargets : Expand(t, n) \/ ShrinkFree(t, n) \/ ShrinkReserved(t, n)

\* A call in progress goes on
Continue(t) ==
    \/ AllocReserved(t) \/ AllocFree(t) \/ AllocExhausted(t) \/ AllocWait(t)
    \/ AllocMapped(t) \/ AllocMapFailed(t) \/ AllocTrigger(t) \/ AllocMeasure(t) \/ AllocPublish(t)
    \/ FreeUnmapped(t) \/ TrimUnmapped(t) \/ ShrinkUnmapped(t) \/ UnmapFailed(t) \/ StopJoined(t)

WorkerStep == WorkerWait \/ WorkerExit \/ WorkerTake \/ WorkerMapped \/ WorkerMapFailed

Next == (\E t \in Callers : Begin(t) \/ Continue(t)) \/ WorkerStep

Spec == Init /\ [][Next]_vars

\* Threads that are not blocked keep running; nothing forces a new call.
Fairness == WF_vars(WorkerStep) /\ \A t \in Callers : WF_vars(Continue(t))
FairSpec == Spec /\ Fairness

-----------------------------------------------------------------------------
(* Properties *)

AllocLabels  == {"alloc_map", "alloc_trigger", "alloc_measure", "alloc_publish"}
UnmapLabels  == {"free_unmap", "trim_unmap", "resize_unmap"}
CallerLabels == {"idle", "alloc", "join"} \cup AllocLabels \cup UnmapLabels
WorkerLabels == {"off", "loop", "map"}

\* Pages a caller has taken out of the pool, and pages counted as free that
\* are in no list because a thread is mapping or unmapping them.
beingAllocated == UNION {hand[t] : t \in {u \in Threads : pc[u] \in AllocLabels}}
inTransit      == UNION {hand[t] : t \in {u \in Threads : pc[u] \notin AllocLabels}}

\* The counted pages: everything num_free_pages_ stands for; and the others
\* that are not withdrawn, in the client's hands or on the way there
pool == free \cup reserved \cup leaked \cup inTransit
held == inUse \cup beingAllocated

TypeOK ==
    /\ numFree \in Int /\ numTotal \in Nat
    /\ needed \in BOOLEAN /\ running \in BOOLEAN
    /\ waiting \subseteq Threads
    /\ pc \in [Threads -> CallerLabels \cup WorkerLabels]
    /\ \A t \in Threads : pc[t] \in IF t = Prealloc THEN WorkerLabels ELSE CallerLabels
    /\ free \in PageSets /\ reserved \in PageSets /\ reclaimed \in PageSets
    /\ inUse \in PageSets /\ leaked \in PageSets /\ mapped \in PageSets
    /\ hand \in [Threads -> PageSets]
    /\ target \in [Threads -> Nat]
    /\ measured \in [Threads -> Usages] /\ published \in Usages

\* A thread holds pages only between two critical sections: one page while it
\* allocates, a batch while it unmaps or (the worker) maps.
HandShape ==
    /\ \A t \in Callers : pc[t] \in {"idle", "alloc", "join"} => hand[t] = {}
    /\ \A t \in Callers : pc[t] \in AllocLabels => \E p \in Nat : hand[t] = {p}
    /\ pc[Prealloc] # "map" => hand[Prealloc] = {}

listed == free \cup reserved \cup reclaimed \cup inUse \cup leaked

\* Every page is in exactly one place: a list, the manager's hands, or the
\* local vector of one thread.  No page is handed out twice and none is lost
\* while threads map and unmap outside the lock.
PageConservation ==
    /\ listed \cup UNION {hand[t] : t \in Threads} = 0 .. NumPages - 1
    /\ \A t \in Threads : hand[t] \cap listed = {}
    /\ \A t, u \in Threads : t # u => hand[t] \cap hand[u] = {}
    /\ free \cap (reserved \cup reclaimed \cup inUse \cup leaked) = {}
    /\ reserved \cap (reclaimed \cup inUse \cup leaked) = {}
    /\ reclaimed \cap (inUse \cup leaked) = {}
    /\ inUse \cap leaked = {}

\* The counters tell the truth although the lists do not hold every page:
\* num_free_pages_ counts the pages nobody allocated, in a list or in transit,
\* and num_total_pages_ the pages a shrink has not withdrawn.
CountersExact ==
    /\ numFree = Cardinality(pool)
    /\ numTotal = NumPages - Cardinality(reclaimed)

\* A page the engine writes to, or may be given without a map call, is mapped;
\* a page of the free or the reclaimed list holds no physical memory.
MappedWhereUsed ==
    /\ inUse \cup reserved \subseteq mapped
    /\ (free \cup reclaimed) \cap mapped = {}

\* The same for the pages in a thread's hands: allocated pages are mapped before
\* alloc_page announces anything, pages to unmap are still mapped.
MappedInHand ==
    /\ \A t \in Callers :
         /\ pc[t] \in (AllocLabels \ {"alloc_map"}) \cup UnmapLabels => hand[t] \subseteq mapped
         /\ pc[t] = "alloc_map" => hand[t] \cap mapped = {}
    /\ pc[Prealloc] = "map" => hand[Prealloc] \cap mapped = {}

\* A caller blocked in alloc_page is owed a notify: some thread holds pages
\* whose next critical section ends in cond_.notify_all.
NoLostWakeup ==
    waiting \cap Callers # {} =>
        \E t \in Threads : hand[t] # {} /\ pc[t] \in {"map", "free_unmap"}

\* alloc_page does not sleep for ever: it is woken to look at the lists again
\* ("Wait for background preallocation").
WaitersServed == \A t \in Callers : t \in waiting ~> t \notin waiting

\* stop_prealloc_thread returns: a thread that waits, or is about to, notices and
\* is joined.  One that maps meanwhile is excluded: the binding joins with the
\* interpreter lock held, which that thread's callback needs.
StopReturns == \A t \in Callers : pc[t] = "join" /\ pc[Prealloc] # "map" ~> pc[t] = "idle"

-----------------------------------------------------------------------------
(* The abstract page pool this allocator implements *)

Pool == INSTANCE PagePool WITH
          available <- pool,
          held      <- held,
          withdrawn <- reclaimed,
          freeCount <- numFree,
          limit     <- numTotal

PoolSpec == Pool!Spec

=============================================================================
