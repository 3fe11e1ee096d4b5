-------------------------- MODULE PageAllocator_proof --------------------------
(* Proofs about PageAllocator, for every number of pages, callers and limits:
   its pages, its counters, that it implements the abstract page pool, and that
   nobody waits in vain. *)
EXTENDS PageAllocator, FiniteSetTheorems, TLAPS

-----------------------------------------------------------------------------
(* Finite sets of pages *)

LEMMA PageSetOps ==
    ASSUME NEW S \in PageSets, NEW T \in PageSets
    PROVE  /\ S \cup T \in PageSets
           /\ S \ T \in PageSets
BY FS_Union, FS_Difference DEF PageSets

LEMMA PageSetFacts ==
    ASSUME NEW S \in PageSets
    PROVE  /\ S \in SUBSET Nat /\ IsFiniteSet(S)
           /\ Cardinality(S) \in Nat
           /\ \A R \in SUBSET S : R \in PageSets
BY FS_Subset, FS_CardinalityType DEF PageSets

LEMMA PageSetBasics ==
    /\ {} \in PageSets
    /\ \A p \in Nat : {p} \in PageSets
    /\ \A a \in Nat, b \in Int : a .. b \in PageSets
<1>1. {} \in PageSets
  BY FS_EmptySet DEF PageSets
<1>2. \A p \in Nat : {p} \in PageSets
  BY FS_Singleton DEF PageSets
<1>3. ASSUME NEW a \in Nat, NEW b \in Int PROVE a .. b \in PageSets
  <2>1. IsFiniteSet(a .. b)
    BY FS_Interval
  <2> QED
    BY <2>1 DEF PageSets
<1> QED
  BY <1>1, <1>2, <1>3

-----------------------------------------------------------------------------
(* Type correctness *)

LEMMA InitType == Init => TypeOK
<1> SUFFICES ASSUME Init PROVE TypeOK OBVIOUS
<1>1. 0 .. NumPages - 1 \in PageSets /\ {} \in PageSets
  BY NumPagesAssumption, PageSetBasics
<1>2. hand \in [Threads -> PageSets] /\ target \in [Threads -> Nat]
  BY <1>1 DEF Init
<1>3. NoUsage \in Usages
  BY DEF NoUsage, Usages
<1>4. measured \in [Threads -> Usages] /\ published \in Usages
  BY <1>3 DEF Init
<1>5. /\ pc \in [Threads -> CallerLabels \cup WorkerLabels]
      /\ \A t \in Threads : pc[t] \in IF t = Prealloc THEN WorkerLabels ELSE CallerLabels
  BY DEF Init, CallerLabels, WorkerLabels
<1>6. /\ free \in PageSets /\ reserved \in PageSets /\ reclaimed \in PageSets
      /\ inUse \in PageSets /\ leaked \in PageSets /\ mapped \in PageSets
  BY <1>1 DEF Init
<1>7. numFree \in Int /\ numTotal \in Nat
  BY NumPagesAssumption DEF Init
<1>8. waiting \subseteq Threads /\ needed \in BOOLEAN /\ running \in BOOLEAN
  BY DEF Init
<1> QED
  BY <1>2, <1>4, <1>5, <1>6, <1>7, <1>8 DEF TypeOK

\* Moving one thread to another label keeps pc well typed
LEMMA GotoType ==
    ASSUME TypeOK, NEW t \in Threads, NEW label, Goto(t, label),
           label \in IF t = Prealloc THEN WorkerLabels ELSE CallerLabels
    PROVE  /\ pc' \in [Threads -> CallerLabels \cup WorkerLabels]
           /\ \A u \in Threads : pc'[u] \in IF u = Prealloc THEN WorkerLabels ELSE CallerLabels
BY DEF TypeOK, Goto

\* Giving one thread a set of pages keeps hand well typed
LEMMA HoldType ==
    ASSUME TypeOK, NEW t \in Threads, NEW pages \in PageSets, Hold(t, pages)
    PROVE  hand' \in [Threads -> PageSets]
BY DEF TypeOK, Hold

\* What is published at the end of a critical section is a usage
LEMMA PublishType ==
    ASSUME numTotal' \in Int, numFree' \in Int, reserved' \in PageSets, Publish
    PROVE  published' \in Usages
BY PageSetFacts DEF Publish, Usages

\* Withdrawing pages keeps the lists and the counters well typed
LEMMA ReclaimType ==
    ASSUME TypeOK, NEW available \in PageSets, NEW n \in Nat, Reclaim(available, n)
    PROVE  free' \in PageSets /\ reclaimed' \in PageSets /\ numFree' \in Int /\ numTotal' \in Nat
<1>1. PICK taken \in SUBSET available :
        /\ free' = available \ taken
        /\ reclaimed' = reclaimed \cup taken
        /\ numFree' = numFree - (numTotal - n)
        /\ numTotal' = n
  BY DEF Reclaim
<1>2. taken \in PageSets
  BY PageSetFacts
<1>3. free' \in PageSets /\ reclaimed' \in PageSets
  BY <1>1, <1>2, PageSetOps DEF TypeOK
<1>4. numFree' \in Int /\ numTotal' \in Nat
  BY <1>1 DEF TypeOK
<1> QED
  BY <1>3, <1>4

LEMMA NextType == TypeOK /\ [Next]_vars => TypeOK'
<1> SUFFICES ASSUME TypeOK, [Next]_vars PROVE TypeOK' OBVIOUS
<1> USE DEF TypeOK, lists, counters, signals, usage
<1>e. {} \in PageSets
  BY PageSetBasics
<1>1. ASSUME NEW t \in Callers, AllocCall(t) PROVE TypeOK'
  BY <1>1, GotoType, ThreadsAssumption DEF AllocCall, Threads, CallerLabels
<1>2. ASSUME NEW t \in Callers, AllocReserved(t) PROVE TypeOK'
  <2>1. PICK p \in reserved : reserved' = reserved \ {p} /\ inUse' = inUse \cup {p}
    BY <1>2 DEF AllocReserved
  <2>2. {p} \in PageSets
    BY <2>1, PageSetBasics, PageSetFacts
  <2>3. reserved' \in PageSets /\ inUse' \in PageSets
    BY <2>1, <2>2, PageSetOps
  <2>4. numFree' \in Int /\ published' \in Usages
    BY <1>2, <2>3, PublishType DEF AllocReserved
  <2> QED
    BY <1>2, <2>3, <2>4, GotoType, ThreadsAssumption
    DEF AllocReserved, NotifyAll, Threads, CallerLabels
<1>3. ASSUME NEW t \in Callers, AllocFree(t) PROVE TypeOK'
  <2>1. PICK p \in free : free' = free \ {p} /\ Hold(t, {p})
    BY <1>3 DEF AllocFree
  <2>2. {p} \in PageSets
    BY <2>1, PageSetBasics, PageSetFacts
  <2>3. free' \in PageSets /\ hand' \in [Threads -> PageSets]
    BY <2>1, <2>2, PageSetOps, HoldType DEF Threads
  <2> QED
    BY <1>3, <2>3, GotoType, ThreadsAssumption DEF AllocFree, Threads, CallerLabels, AllocLabels
<1>4. ASSUME NEW t \in Callers, AllocExhausted(t) PROVE TypeOK'
  BY <1>4, GotoType, ThreadsAssumption DEF AllocExhausted, Threads, CallerLabels
<1>5. ASSUME NEW t \in Callers, AllocWait(t) PROVE TypeOK'
  BY <1>5 DEF AllocWait, Threads
<1>6. ASSUME NEW t \in Callers, AllocMapped(t) PROVE TypeOK'
  <2>1. mapped' \in PageSets
    BY <1>6, PageSetOps DEF AllocMapped, Threads
  <2> QED
    BY <1>6, <2>1, GotoType, ThreadsAssumption DEF AllocMapped, Threads, CallerLabels, AllocLabels
<1>7. ASSUME NEW t \in Callers, AllocMapFailed(t) PROVE TypeOK'
  <2>1. free' \in PageSets /\ hand' \in [Threads -> PageSets]
    BY <1>7, <1>e, PageSetOps, HoldType DEF AllocMapFailed, Threads
  <2> QED
    BY <1>7, <2>1, GotoType, ThreadsAssumption DEF AllocMapFailed, NotifyAll, Threads, CallerLabels
<1>8. ASSUME NEW t \in Callers, AllocTrigger(t) PROVE TypeOK'
  BY <1>8, GotoType, ThreadsAssumption DEF AllocTrigger, NotifyAll, Threads, CallerLabels, AllocLabels
<1>9. ASSUME NEW t \in Callers, AllocMeasure(t) PROVE TypeOK'
  <2>1. [used |-> get_num_inuse_pages, prealloc |-> Cardinality(reserved)] \in Usages
    BY PageSetFacts DEF Usages, get_num_inuse_pages
  <2>2. measured' \in [Threads -> Usages]
    BY <1>9, <2>1 DEF AllocMeasure
  <2> QED
    BY <1>9, <2>2, GotoType, ThreadsAssumption DEF AllocMeasure, Threads, CallerLabels, AllocLabels
<1>10. ASSUME NEW t \in Callers, AllocPublish(t) PROVE TypeOK'
  <2>1. NoUsage \in Usages
    BY DEF NoUsage, Usages
  <2>2. measured' \in [Threads -> Usages] /\ published' \in Usages
    BY <1>10, <2>1 DEF AllocPublish, Threads
  <2>3. inUse' \in PageSets /\ hand' \in [Threads -> PageSets]
    BY <1>10, <1>e, PageSetOps, HoldType DEF AllocPublish, Threads
  <2> QED
    BY <1>10, <2>2, <2>3, GotoType, ThreadsAssumption DEF AllocPublish, Threads, CallerLabels
<1>11. ASSUME NEW t \in Callers, FreePages(t) PROVE TypeOK'
  <2>1. PICK pages \in SUBSET inUse, kept \in SUBSET inUse :
          /\ kept \subseteq pages
          /\ inUse' = inUse \ pages
          /\ numFree' = numFree + Cardinality(pages)
          /\ reserved' = reserved \cup kept
          /\ UNCHANGED numTotal
          /\ IF kept = pages
               THEN Publish /\ NotifyAll /\ UNCHANGED <<hand, pc>>
               ELSE Hold(t, pages \ kept) /\ Goto(t, "free_unmap") /\ UNCHANGED <<published, waiting>>
    BY <1>11 DEF FreePages
  <2>2. pages \in PageSets /\ kept \in PageSets
    BY <2>1, PageSetFacts
  <2>3. inUse' \in PageSets /\ reserved' \in PageSets /\ pages \ kept \in PageSets
    BY <2>1, <2>2, PageSetOps
  <2>6. numFree' \in Int
    BY <2>1, <2>2, PageSetFacts
  <2>4. CASE kept = pages
    <3>1. published' \in Usages
      BY <2>1, <2>3, <2>4, <2>6, PublishType
    <3> QED
      BY <1>11, <2>1, <2>3, <2>4, <2>6, <3>1 DEF FreePages, NotifyAll
  <2>5. CASE kept # pages
    <3>1. hand' \in [Threads -> PageSets]
      BY <2>1, <2>3, <2>5, HoldType DEF Threads
    <3> QED
      BY <1>11, <2>1, <2>3, <2>5, <2>6, <3>1, GotoType, ThreadsAssumption
      DEF FreePages, Threads, CallerLabels, UnmapLabels
  <2> QED
    BY <2>4, <2>5
<1>12. ASSUME NEW t \in Callers, FreeUnmapped(t) PROVE TypeOK'
  <2>1. free' \in PageSets /\ mapped' \in PageSets /\ hand' \in [Threads -> PageSets]
    BY <1>12, <1>e, PageSetOps, HoldType DEF FreeUnmapped, Threads
  <2>2. published' \in Usages
    BY <1>12, PublishType DEF FreeUnmapped
  <2> QED
    BY <1>12, <2>1, <2>2, GotoType, ThreadsAssumption DEF FreeUnmapped, NotifyAll, Threads, CallerLabels
<1>13. ASSUME NEW t \in Callers, UnmapFailed(t) PROVE TypeOK'
  <2>1. leaked' \in PageSets /\ hand' \in [Threads -> PageSets]
    BY <1>13, <1>e, PageSetOps, HoldType DEF UnmapFailed, Threads
  <2> QED
    BY <1>13, <2>1, GotoType, ThreadsAssumption DEF UnmapFailed, Threads, CallerLabels
<1>14. ASSUME NEW t \in Callers, Trim(t) PROVE TypeOK'
  <2>1. CASE reserved = {}
    <3>1. published' \in Usages
      BY <1>14, <2>1, <1>e, PublishType DEF Trim
    <3> QED
      BY <1>14, <1>e, <2>1, <3>1 DEF Trim
  <2>2. CASE reserved # {}
    <3>1. hand' \in [Threads -> PageSets]
      BY <1>14, <2>2, HoldType DEF Trim, Threads
    <3> QED
      BY <1>14, <1>e, <2>2, <3>1, GotoType, ThreadsAssumption DEF Trim, Threads, CallerLabels, UnmapLabels
  <2> QED
    BY <2>1, <2>2
<1>15. ASSUME NEW t \in Callers, TrimUnmapped(t) PROVE TypeOK'
  <2>1. free' \in PageSets /\ mapped' \in PageSets /\ hand' \in [Threads -> PageSets]
    BY <1>15, <1>e, PageSetOps, HoldType DEF TrimUnmapped, Threads
  <2>2. published' \in Usages
    BY <1>15, PublishType DEF TrimUnmapped
  <2> QED
    BY <1>15, <2>1, <2>2, GotoType, ThreadsAssumption DEF TrimUnmapped, Threads, CallerLabels
<1>16. ASSUME NEW t \in Callers, NEW n \in ResizeTargets, Expand(t, n) PROVE TypeOK'
  <2>1. n \in Nat
    BY TargetsAssumption
  <2>2. PICK reused \in SUBSET reclaimed :
          /\ reclaimed' = reclaimed \ reused
          /\ free' = free \cup reused \cup newPages(n - numTotal - Cardinality(reused))
    BY <1>16 DEF Expand
  <2>3. reused \in PageSets /\ Cardinality(reused) \in Nat
    BY PageSetFacts
  <2>4. newPages(n - numTotal - Cardinality(reused)) \in PageSets
    BY <2>1, <2>3, PageSetBasics DEF newPages
  <2>5. reclaimed' \in PageSets /\ free' \in PageSets
    BY <2>2, <2>3, <2>4, PageSetOps
  <2>6. numFree' \in Int /\ numTotal' \in Nat /\ published' \in Usages
    BY <1>16, <2>1, PublishType DEF Expand
  <2> QED
    BY <1>16, <2>5, <2>6 DEF Expand
<1>17. ASSUME NEW t \in Callers, NEW n \in ResizeTargets, ShrinkFree(t, n) PROVE TypeOK'
  BY <1>17, ReclaimType, TargetsAssumption DEF ShrinkFree
<1>18. ASSUME NEW t \in Callers, NEW n \in ResizeTargets, ShrinkReserved(t, n) PROVE TypeOK'
  <2>1. hand' \in [Threads -> PageSets] /\ target' \in [Threads -> Nat]
    BY <1>18, HoldType, TargetsAssumption DEF ShrinkReserved, Threads
  <2> QED
    BY <1>18, <1>e, <2>1, GotoType, ThreadsAssumption DEF ShrinkReserved, Threads, CallerLabels, UnmapLabels
<1>19. ASSUME NEW t \in Callers, ShrinkUnmapped(t) PROVE TypeOK'
  <2>1. hand' \in [Threads -> PageSets] /\ mapped' \in PageSets /\ free \cup hand[t] \in PageSets
    BY <1>19, <1>e, PageSetOps, HoldType DEF ShrinkUnmapped, Threads
  <2>2. free' \in PageSets /\ reclaimed' \in PageSets /\ numFree' \in Int /\ numTotal' \in Nat
    BY <1>19, <2>1, ReclaimType DEF ShrinkUnmapped, Threads
  <2>3. published' \in Usages
    BY <1>19, PageSetFacts DEF ShrinkUnmapped, Usages, get_num_inuse_pages
  <2>4. target' \in [Threads -> Nat]
    BY <1>19 DEF ShrinkUnmapped
  <2> QED
    BY <1>19, <2>1, <2>2, <2>3, <2>4, GotoType, ThreadsAssumption DEF ShrinkUnmapped, Threads, CallerLabels
<1>20. ASSUME NEW t \in Callers, StartPrealloc(t) PROVE TypeOK'
  <2>1. Goto(Prealloc, "loop")
    BY <1>20 DEF StartPrealloc, Goto
  <2> QED
    BY <1>20, <2>1, GotoType, ThreadsAssumption DEF StartPrealloc, NotifyAll, Threads, WorkerLabels
<1>21. ASSUME NEW t \in Callers, StopPrealloc(t) PROVE TypeOK'
  BY <1>21, GotoType, ThreadsAssumption DEF StopPrealloc, NotifyAll, Threads, CallerLabels
<1>22. ASSUME NEW t \in Callers, StopJoined(t) PROVE TypeOK'
  BY <1>22, GotoType, ThreadsAssumption DEF StopJoined, Threads, CallerLabels
<1>23. ASSUME WorkerWait PROVE TypeOK'
  BY <1>23 DEF WorkerWait, Threads
<1>24. ASSUME WorkerExit PROVE TypeOK'
  BY <1>24, GotoType DEF WorkerExit, Threads, WorkerLabels
<1>25. ASSUME WorkerTake PROVE TypeOK'
  <2>1. PICK pages \in SUBSET free :
          /\ free' = free \ pages /\ Hold(Prealloc, pages)
          /\ IF pages = {} THEN UNCHANGED pc ELSE Goto(Prealloc, "map")
    BY <1>25 DEF WorkerTake
  <2>2. free' \in PageSets /\ pages \in PageSets
    BY <2>1, PageSetOps, PageSetFacts
  <2>3. hand' \in [Threads -> PageSets]
    BY <2>1, <2>2, HoldType DEF Threads
  <2>4. CASE pages = {}
    BY <1>25, <2>1, <2>2, <2>3, <2>4 DEF WorkerTake
  <2>5. CASE pages # {}
    BY <1>25, <2>1, <2>2, <2>3, <2>5, GotoType DEF WorkerTake, Threads, WorkerLabels
  <2> QED
    BY <2>4, <2>5
<1>26. ASSUME WorkerMapped PROVE TypeOK'
  <2>1. reserved' \in PageSets /\ mapped' \in PageSets /\ hand' \in [Threads -> PageSets]
    BY <1>26, <1>e, PageSetOps, HoldType DEF WorkerMapped, Threads
  <2>2. published' \in Usages
    BY <1>26, <2>1, PublishType DEF WorkerMapped
  <2> QED
    BY <1>26, <2>1, <2>2, GotoType DEF WorkerMapped, NotifyAll, Threads, WorkerLabels
<1>27. ASSUME WorkerMapFailed PROVE TypeOK'
  <2>1. free' \in PageSets /\ hand' \in [Threads -> PageSets]
    BY <1>27, <1>e, PageSetOps, HoldType DEF WorkerMapFailed, Threads
  <2> QED
    BY <1>27, <2>1, GotoType DEF WorkerMapFailed, NotifyAll, Threads, WorkerLabels
<1>28. CASE UNCHANGED vars
  BY <1>28 DEF vars
<1> QED
  BY <1>1, <1>2, <1>3, <1>4, <1>5, <1>6, <1>7, <1>8, <1>9, <1>10, <1>11, <1>12, <1>13, <1>14,
     <1>15, <1>16, <1>17, <1>18, <1>19, <1>20, <1>21, <1>22, <1>23, <1>24, <1>25, <1>26, <1>27, <1>28
  DEF Next, Begin, Continue, WorkerStep

(* The allocator's state is always well typed: lists and hands are finite sets
   of page ids, and every thread is at a label of its own kind. *)
THEOREM TypeCorrect == Spec => []TypeOK
<1> QED
  BY InitType, NextType, PTL DEF Spec

-----------------------------------------------------------------------------
(* What a thread holds *)

LEMMA HandShapeStep == TypeOK /\ HandShape /\ [Next]_vars => HandShape'
<1> SUFFICES ASSUME TypeOK, HandShape, [Next]_vars PROVE HandShape' OBVIOUS
<1> USE ThreadsAssumption DEF HandShape, lists, Threads, Goto, Hold, AllocLabels, UnmapLabels
<1>t. /\ pc \in [Threads -> CallerLabels \cup WorkerLabels] /\ hand \in [Threads -> PageSets]
  BY DEF TypeOK
<1>1. ASSUME NEW t \in Callers, AllocCall(t) PROVE HandShape'
  BY <1>1, <1>t DEF AllocCall
<1>2. ASSUME NEW t \in Callers, AllocReserved(t) PROVE HandShape'
  BY <1>2, <1>t DEF AllocReserved
<1>3. ASSUME NEW t \in Callers, AllocFree(t) PROVE HandShape'
  <2>1. PICK p \in free : Hold(t, {p})
    BY <1>3 DEF AllocFree
  <2>2. p \in Nat
    BY PageSetFacts DEF TypeOK
  <2> QED
    BY <1>3, <1>t, <2>1, <2>2 DEF AllocFree
<1>4. ASSUME NEW t \in Callers, FreePages(t) PROVE HandShape'
  BY <1>4, <1>t DEF FreePages
<1>5. ASSUME NEW t \in Callers, Trim(t) PROVE HandShape'
  BY <1>5, <1>t DEF Trim
<1>6. ASSUME NEW t \in Callers,
             AllocExhausted(t) \/ AllocWait(t) \/ AllocMapped(t) \/ AllocMapFailed(t)
               \/ AllocTrigger(t) \/ AllocMeasure(t) \/ AllocPublish(t) \/ StopJoined(t)
      PROVE  HandShape'
  BY <1>6, <1>t DEF AllocExhausted, AllocWait, AllocMapped, AllocMapFailed, AllocTrigger, AllocMeasure,
                    AllocPublish, StopJoined
<1>7. ASSUME NEW t \in Callers,
             FreeUnmapped(t) \/ UnmapFailed(t) \/ TrimUnmapped(t) \/ ShrinkUnmapped(t)
      PROVE  HandShape'
  BY <1>7, <1>t DEF FreeUnmapped, UnmapFailed, TrimUnmapped, ShrinkUnmapped
<1>8. ASSUME NEW t \in Callers, NEW n \in ResizeTargets,
             Expand(t, n) \/ ShrinkFree(t, n) \/ ShrinkReserved(t, n)
      PROVE  HandShape'
  BY <1>8, <1>t DEF Expand, ShrinkFree, ShrinkReserved
<1>9. ASSUME NEW t \in Callers, StartPrealloc(t) \/ StopPrealloc(t) PROVE HandShape'
  BY <1>9, <1>t DEF StartPrealloc, StopPrealloc
<1>10. ASSUME WorkerStep PROVE HandShape'
  BY <1>10, <1>t DEF WorkerStep, WorkerWait, WorkerExit, WorkerTake, WorkerMapped, WorkerMapFailed
<1>11. CASE UNCHANGED vars
  BY <1>11 DEF vars
<1> QED
  BY <1>1, <1>2, <1>3, <1>4, <1>5, <1>6, <1>7, <1>8, <1>9, <1>10, <1>11 DEF Next, Begin, Continue

LEMMA HandsInvariant == Spec => []HandShape
<1>1. Init => HandShape
  BY ThreadsAssumption DEF Init, HandShape, Threads, AllocLabels
<1> QED
  BY <1>1, HandShapeStep, TypeCorrect, PTL DEF Spec

-----------------------------------------------------------------------------
(* Every page stays in exactly one place *)

LimitExact == numTotal = NumPages - Cardinality(reclaimed)

\* Removing a subset, or adding a disjoint set, changes the size by its size
LEMMA CardinalityMinus ==
    ASSUME NEW S \in PageSets, NEW R \in SUBSET S
    PROVE  Cardinality(S \ R) = Cardinality(S) - Cardinality(R)
<1>1. S \cap R = R
  OBVIOUS
<1> QED
  BY <1>1, FS_Difference DEF PageSets

LEMMA CardinalityPlus ==
    ASSUME NEW S \in PageSets, NEW R \in PageSets, S \cap R = {}
    PROVE  Cardinality(S \cup R) = Cardinality(S) + Cardinality(R)
<1>1. Cardinality(S) \in Nat /\ Cardinality(R) \in Nat /\ Cardinality({}) = 0
  BY PageSetFacts, FS_EmptySet
<1>2. Cardinality(S \cup R) = Cardinality(S) + Cardinality(R) - Cardinality(S \cap R)
  BY FS_Union DEF PageSets
<1>3. Cardinality(S \cap R) = 0
  BY <1>1
<1> HIDE DEF PageSets
<1> QED
  BY <1>1, <1>2, <1>3

\* With limits below the initial one an expansion is served by the reclaimed list
LEMMA ExpansionReuses ==
    ASSUME ResizeTargets \subseteq 0 .. NumPages, TypeOK, LimitExact,
           NEW n \in ResizeTargets, n > numTotal, NEW reused \in SUBSET reclaimed,
           Cardinality(reused) = AtMost(Cardinality(reclaimed), n - numTotal)
    PROVE  /\ Cardinality(reused) = n - numTotal
           /\ newPages(n - numTotal - Cardinality(reused)) = {}
<1>1. /\ n \in Nat /\ n <= NumPages /\ numTotal \in Nat /\ NumPages \in Nat
      /\ Cardinality(reclaimed) \in Nat
  BY PageSetFacts, NumPagesAssumption DEF TypeOK
<1>2. Cardinality(reused) = n - numTotal
  BY <1>1 DEF AtMost, LimitExact
<1> QED
  BY <1>1, <1>2 DEF newPages

LEMMA ConservationStep ==
    ASSUME ResizeTargets \subseteq 0 .. NumPages,
           TypeOK, HandShape, PageConservation, LimitExact, [Next]_vars
    PROVE  PageConservation'
<1> USE ThreadsAssumption DEF PageConservation, HandShape, listed, lists, Threads, Goto, Hold, AllocLabels, UnmapLabels
<1>t. /\ pc \in [Threads -> CallerLabels \cup WorkerLabels] /\ hand \in [Threads -> PageSets]
  BY DEF TypeOK
<1>1. ASSUME NEW t \in Callers, AllocReserved(t) PROVE PageConservation'
  BY <1>1, <1>t DEF AllocReserved
<1>2. ASSUME NEW t \in Callers, AllocFree(t) PROVE PageConservation'
  BY <1>2, <1>t DEF AllocFree
<1>3. ASSUME NEW t \in Callers, AllocMapFailed(t) \/ AllocPublish(t) PROVE PageConservation'
  BY <1>3, <1>t DEF AllocMapFailed, AllocPublish
<1>4. ASSUME NEW t \in Callers,
             AllocCall(t) \/ AllocExhausted(t) \/ AllocWait(t) \/ AllocMapped(t)
               \/ AllocTrigger(t) \/ AllocMeasure(t) \/ StopJoined(t) \/ StartPrealloc(t) \/ StopPrealloc(t)
      PROVE  PageConservation'
  BY <1>4, <1>t DEF AllocCall, AllocExhausted, AllocWait, AllocMapped, AllocTrigger, AllocMeasure,
                    StopJoined, StartPrealloc, StopPrealloc
<1>5. ASSUME NEW t \in Callers, FreePages(t) PROVE PageConservation'
  BY <1>5, <1>t DEF FreePages
<1>6. ASSUME NEW t \in Callers, FreeUnmapped(t) \/ TrimUnmapped(t) PROVE PageConservation'
  BY <1>6, <1>t DEF FreeUnmapped, TrimUnmapped
<1>7. ASSUME NEW t \in Callers, UnmapFailed(t) PROVE PageConservation'
  BY <1>7, <1>t DEF UnmapFailed
<1>8. ASSUME NEW t \in Callers, Trim(t) PROVE PageConservation'
  BY <1>8, <1>t DEF Trim
<1>9. ASSUME NEW t \in Callers, NEW n \in ResizeTargets, Expand(t, n) PROVE PageConservation'
  <2>1. PICK reused \in SUBSET reclaimed :
          /\ Cardinality(reused) = AtMost(Cardinality(reclaimed), n - numTotal)
          /\ reclaimed' = reclaimed \ reused
          /\ free' = free \cup reused \cup newPages(n - numTotal - Cardinality(reused))
    BY <1>9 DEF Expand
  <2>2. newPages(n - numTotal - Cardinality(reused)) = {}
    BY <1>9, <2>1, ExpansionReuses DEF Expand
  <2> QED
    BY <1>9, <1>t, <2>1, <2>2 DEF Expand
<1>10. ASSUME NEW t \in Callers, NEW n \in ResizeTargets, ShrinkFree(t, n) PROVE PageConservation'
  BY <1>10, <1>t DEF ShrinkFree, Reclaim
<1>11. ASSUME NEW t \in Callers, NEW n \in ResizeTargets, ShrinkReserved(t, n) PROVE PageConservation'
  BY <1>11, <1>t DEF ShrinkReserved
<1>12. ASSUME NEW t \in Callers, ShrinkUnmapped(t) PROVE PageConservation'
  <2>1. CASE Reclaim(free \cup hand[t], target[t])
    BY <1>12, <1>t, <2>1 DEF ShrinkUnmapped, Reclaim
  <2>2. CASE free' = free \cup hand[t] /\ UNCHANGED reclaimed
    BY <1>12, <1>t, <2>2 DEF ShrinkUnmapped
  <2> QED
    BY <1>12, <2>1, <2>2 DEF ShrinkUnmapped, counters
<1>13. ASSUME WorkerWait \/ WorkerExit PROVE PageConservation'
  BY <1>13, <1>t DEF WorkerWait, WorkerExit
<1>14. ASSUME WorkerTake PROVE PageConservation'
  BY <1>14, <1>t DEF WorkerTake
<1>15. ASSUME WorkerMapped PROVE PageConservation'
  BY <1>15, <1>t DEF WorkerMapped
<1>16. ASSUME WorkerMapFailed PROVE PageConservation'
  BY <1>16, <1>t DEF WorkerMapFailed
<1>17. CASE UNCHANGED vars
  BY <1>17 DEF vars
<1> QED
  BY <1>1, <1>2, <1>3, <1>4, <1>5, <1>6, <1>7, <1>8, <1>9, <1>10, <1>11, <1>12, <1>13, <1>14,
     <1>15, <1>16, <1>17
  DEF Next, Begin, Continue, WorkerStep

LEMMA LimitStep ==
    ASSUME ResizeTargets \subseteq 0 .. NumPages,
           TypeOK, PageConservation, LimitExact, [Next]_vars
    PROVE  LimitExact'
<1> USE DEF LimitExact, lists, counters
<1>t. numTotal \in Nat /\ reclaimed \in PageSets /\ Cardinality(reclaimed) \in Nat /\ NumPages \in Nat
  BY PageSetFacts, NumPagesAssumption DEF TypeOK
<1>1. ASSUME NEW t \in Callers, NEW n \in ResizeTargets, Expand(t, n) PROVE LimitExact'
  <2>1. PICK reused \in SUBSET reclaimed :
          /\ Cardinality(reused) = AtMost(Cardinality(reclaimed), n - numTotal)
          /\ reclaimed' = reclaimed \ reused
    BY <1>1 DEF Expand
  <2>2. Cardinality(reused) = n - numTotal
    BY <1>1, <2>1, ExpansionReuses DEF Expand
  <2>3. Cardinality(reclaimed \ reused) = Cardinality(reclaimed) - Cardinality(reused)
    BY <1>t, CardinalityMinus
  <2> QED
    BY <1>1, <1>t, <2>1, <2>2, <2>3, TargetsAssumption DEF Expand
<1>2. ASSUME NEW available \in PageSets, NEW n \in Nat, Reclaim(available, n), available \cap reclaimed = {}
      PROVE  LimitExact'
  <2>1. PICK taken \in SUBSET available :
          /\ Cardinality(taken) = numTotal - n
          /\ reclaimed' = reclaimed \cup taken
          /\ numTotal' = n
    BY <1>2 DEF Reclaim
  <2>2. Cardinality(reclaimed \cup taken) = Cardinality(reclaimed) + Cardinality(taken)
    BY <1>t, <1>2, PageSetFacts, CardinalityPlus
  <2> QED
    BY <1>t, <2>1, <2>2
<1>3. ASSUME NEW t \in Callers, NEW n \in ResizeTargets, ShrinkFree(t, n) PROVE LimitExact'
  BY <1>2, <1>3, TargetsAssumption DEF ShrinkFree, TypeOK, PageConservation
<1>4. ASSUME NEW t \in Callers, ShrinkUnmapped(t) PROVE LimitExact'
  <2>1. CASE Reclaim(free \cup hand[t], target[t])
    <3>1. free \cup hand[t] \in PageSets /\ target[t] \in Nat /\ (free \cup hand[t]) \cap reclaimed = {}
      BY PageSetOps DEF TypeOK, PageConservation, Threads, listed
    <3> QED
      BY <1>2, <2>1, <3>1
  <2>2. CASE UNCHANGED <<reclaimed, counters>>
    BY <2>2
  <2> QED
    BY <1>4, <2>1, <2>2 DEF ShrinkUnmapped
<1>5. CASE UNCHANGED <<reclaimed, numTotal>>
  BY <1>5
<1>6. ASSUME NEW t \in Callers,
             \/ AllocCall(t) \/ AllocReserved(t) \/ AllocFree(t) \/ AllocExhausted(t) \/ AllocWait(t)
             \/ AllocMapped(t) \/ AllocMapFailed(t) \/ AllocTrigger(t) \/ AllocMeasure(t) \/ AllocPublish(t)
      PROVE  UNCHANGED <<reclaimed, numTotal>>
  BY <1>6 DEF AllocCall, AllocReserved, AllocFree, AllocExhausted, AllocWait, AllocMapped, AllocMapFailed,
              AllocTrigger, AllocMeasure, AllocPublish
<1>7. ASSUME NEW t \in Callers,
             \/ FreePages(t) \/ FreeUnmapped(t) \/ UnmapFailed(t) \/ Trim(t) \/ TrimUnmapped(t)
             \/ StartPrealloc(t) \/ StopPrealloc(t) \/ StopJoined(t)
             \/ \E n \in ResizeTargets : ShrinkReserved(t, n)
      PROVE  UNCHANGED <<reclaimed, numTotal>>
  BY <1>7 DEF FreePages, FreeUnmapped, UnmapFailed, Trim, TrimUnmapped, StartPrealloc, StopPrealloc,
              StopJoined, ShrinkReserved
<1>8. ASSUME WorkerStep PROVE UNCHANGED <<reclaimed, numTotal>>
  BY <1>8 DEF WorkerStep, WorkerWait, WorkerExit, WorkerTake, WorkerMapped, WorkerMapFailed
<1>9. CASE UNCHANGED vars
  BY <1>9 DEF vars
<1> QED
  BY <1>1, <1>3, <1>4, <1>5, <1>6, <1>7, <1>8, <1>9 DEF Next, Begin, Continue

(* While limits stay within the initial one, no page is ever lost, duplicated
   or held by two parties, however calls and the worker interleave and
   whichever map and unmap calls fail. *)
THEOREM PagesConserved ==
    ASSUME ResizeTargets \subseteq 0 .. NumPages
    PROVE  Spec => []PageConservation
<1>1. Init => PageConservation /\ LimitExact
  BY FS_EmptySet, NumPagesAssumption DEF Init, PageConservation, LimitExact, listed, Threads
<1>2. TypeOK /\ HandShape /\ PageConservation /\ LimitExact /\ [Next]_vars
        => (PageConservation /\ LimitExact)'
  BY ConservationStep, LimitStep
<1> QED
  BY <1>1, <1>2, TypeCorrect, HandsInvariant, PTL DEF Spec

-----------------------------------------------------------------------------
(* Physical memory *)

MappingInv == MappedWhereUsed /\ MappedInHand

LEMMA MappingStep ==
    ASSUME ResizeTargets \subseteq 0 .. NumPages,
           TypeOK, HandShape, PageConservation, LimitExact, MappingInv, [Next]_vars
    PROVE  MappingInv'
<1> USE ThreadsAssumption
    DEF MappingInv, MappedWhereUsed, MappedInHand, PageConservation, HandShape, listed, lists, Threads,
        Goto, Hold, AllocLabels, UnmapLabels
<1>t. /\ pc \in [Threads -> CallerLabels \cup WorkerLabels] /\ hand \in [Threads -> PageSets]
  BY DEF TypeOK
<1>1. ASSUME NEW t \in Callers, AllocReserved(t) PROVE MappingInv'
  BY <1>1, <1>t DEF AllocReserved
<1>2. ASSUME NEW t \in Callers, AllocFree(t) PROVE MappingInv'
  BY <1>2, <1>t DEF AllocFree
<1>3. ASSUME NEW t \in Callers, AllocMapFailed(t) \/ AllocPublish(t) PROVE MappingInv'
  BY <1>3, <1>t DEF AllocMapFailed, AllocPublish
<1>4. ASSUME NEW t \in Callers, AllocMapped(t) PROVE MappingInv'
  BY <1>4, <1>t DEF AllocMapped
<1>5. ASSUME NEW t \in Callers,
             AllocCall(t) \/ AllocExhausted(t) \/ AllocWait(t)
               \/ AllocTrigger(t) \/ AllocMeasure(t) \/ StopJoined(t) \/ StartPrealloc(t) \/ StopPrealloc(t)
      PROVE  MappingInv'
  BY <1>5, <1>t DEF AllocCall, AllocExhausted, AllocWait, AllocTrigger, AllocMeasure,
                    StopJoined, StartPrealloc, StopPrealloc
<1>6. ASSUME NEW t \in Callers, FreePages(t) PROVE MappingInv'
  BY <1>6, <1>t DEF FreePages
<1>7. ASSUME NEW t \in Callers, FreeUnmapped(t) \/ TrimUnmapped(t) PROVE MappingInv'
  BY <1>7, <1>t DEF FreeUnmapped, TrimUnmapped
<1>8. ASSUME NEW t \in Callers, UnmapFailed(t) \/ Trim(t) PROVE MappingInv'
  BY <1>8, <1>t DEF UnmapFailed, Trim
<1>9. ASSUME NEW t \in Callers, NEW n \in ResizeTargets, Expand(t, n) PROVE MappingInv'
  <2>1. PICK reused \in SUBSET reclaimed :
          /\ Cardinality(reused) = AtMost(Cardinality(reclaimed), n - numTotal)
          /\ reclaimed' = reclaimed \ reused
          /\ free' = free \cup reused \cup newPages(n - numTotal - Cardinality(reused))
    BY <1>9 DEF Expand
  <2>2. newPages(n - numTotal - Cardinality(reused)) = {}
    BY <1>9, <2>1, ExpansionReuses DEF Expand
  <2> QED
    BY <1>9, <1>t, <2>1, <2>2 DEF Expand
<1>10. ASSUME NEW t \in Callers, NEW n \in ResizeTargets, ShrinkFree(t, n) PROVE MappingInv'
  BY <1>10, <1>t DEF ShrinkFree, Reclaim
<1>11. ASSUME NEW t \in Callers, NEW n \in ResizeTargets, ShrinkReserved(t, n) PROVE MappingInv'
  BY <1>11, <1>t DEF ShrinkReserved
<1>12. ASSUME NEW t \in Callers, ShrinkUnmapped(t) PROVE MappingInv'
  <2>1. CASE Reclaim(free \cup hand[t], target[t])
    BY <1>12, <1>t, <2>1 DEF ShrinkUnmapped, Reclaim
  <2>2. CASE free' = free \cup hand[t] /\ UNCHANGED reclaimed
    BY <1>12, <1>t, <2>2 DEF ShrinkUnmapped
  <2> QED
    BY <1>12, <2>1, <2>2 DEF ShrinkUnmapped, counters
<1>13. ASSUME WorkerWait \/ WorkerExit \/ WorkerTake PROVE MappingInv'
  BY <1>13, <1>t DEF WorkerWait, WorkerExit, WorkerTake
<1>14. ASSUME WorkerMapped \/ WorkerMapFailed PROVE MappingInv'
  BY <1>14, <1>t DEF WorkerMapped, WorkerMapFailed
<1>15. CASE UNCHANGED vars
  BY <1>15 DEF vars
<1> QED
  BY <1>1, <1>2, <1>3, <1>4, <1>5, <1>6, <1>7, <1>8, <1>9, <1>10, <1>11, <1>12, <1>13, <1>14, <1>15
  DEF Next, Begin, Continue, WorkerStep

(* Every page the KV cache manager holds, and every page alloc_page hands out
   without a map call, is backed by physical memory; free pages are not. *)
THEOREM MappedPages ==
    ASSUME ResizeTargets \subseteq 0 .. NumPages
    PROVE  Spec => []MappedWhereUsed
<1>1. Init => PageConservation /\ LimitExact /\ MappingInv
  BY FS_EmptySet, NumPagesAssumption, ThreadsAssumption
  DEF Init, PageConservation, LimitExact, listed, Threads, MappingInv, MappedWhereUsed, MappedInHand,
      AllocLabels, UnmapLabels
<1>2. TypeOK /\ HandShape /\ PageConservation /\ LimitExact /\ MappingInv /\ [Next]_vars
        => (PageConservation /\ LimitExact /\ MappingInv)'
  BY ConservationStep, LimitStep, MappingStep
<1>3. MappingInv => MappedWhereUsed
  BY DEF MappingInv
<1> QED
  BY <1>1, <1>2, <1>3, TypeCorrect, HandsInvariant, PTL DEF Spec

-----------------------------------------------------------------------------
(* What a step does to the pool: it leaves it alone, takes one page out, puts
   pages back, or withdraws or restores pages; and it moves the counters by
   as much. *)

Stable == UNCHANGED <<pool, held, reclaimed, numFree, numTotal>>

Takes ==
    /\ \E p \in pool : pool' = pool \ {p} /\ held' = held \cup {p}
    /\ numFree' = numFree - 1
    /\ UNCHANGED <<reclaimed, numTotal>>

Gives ==
    /\ \E pages \in (SUBSET held) \ {{}} :
         held' = held \ pages /\ pool' = pool \cup pages /\ numFree' = numFree + Cardinality(pages)
    /\ UNCHANGED <<reclaimed, numTotal>>

Withdraws ==
    /\ \E pages \in (SUBSET pool) \ {{}} :
         /\ pool' = pool \ pages /\ reclaimed' = reclaimed \cup pages
         /\ numFree' = numFree - Cardinality(pages)
    /\ UNCHANGED held

Restores ==
    /\ \E pages \in (SUBSET reclaimed) \ {{}} :
         /\ reclaimed' = reclaimed \ pages /\ pool' = pool \cup pages
         /\ numFree' = numFree + Cardinality(pages)
    /\ UNCHANGED held

Effect == Stable \/ Takes \/ Gives \/ Withdraws \/ Restores

\* Membership in the two unions over threads
LEMMA InHands ==
    /\ \A p : p \in beingAllocated <=> \E t \in Threads : pc[t] \in AllocLabels /\ p \in hand[t]
    /\ \A p : p \in inTransit <=> \E t \in Threads : pc[t] \notin AllocLabels /\ p \in hand[t]
BY DEF beingAllocated, inTransit

LEMMA InHandsNext ==
    /\ \A p : p \in beingAllocated' <=> \E t \in Threads : pc'[t] \in AllocLabels /\ p \in hand'[t]
    /\ \A p : p \in inTransit' <=> \E t \in Threads : pc'[t] \notin AllocLabels /\ p \in hand'[t]
BY DEF beingAllocated, inTransit

\* A step of thread t that moves between labels of the same side (allocating or
\* not) changes only one of the unions, by what t takes up or puts down.
LEMMA HandMoves ==
    ASSUME TypeOK, PageConservation, NEW t \in Threads,
           NEW pages, NEW label, Hold(t, pages), Goto(t, label)
    PROVE  /\ pc[t] \notin AllocLabels /\ label \notin AllocLabels
                => beingAllocated' = beingAllocated /\ inTransit' = (inTransit \ hand[t]) \cup pages
           /\ pc[t] \in AllocLabels /\ label \notin AllocLabels
                => beingAllocated' = beingAllocated \ hand[t] /\ inTransit' = inTransit \cup pages
           /\ pc[t] \notin AllocLabels /\ label \in AllocLabels
                => beingAllocated' = beingAllocated \cup pages /\ inTransit' = inTransit \ hand[t]
<1>1. /\ pc \in [Threads -> CallerLabels \cup WorkerLabels] /\ hand \in [Threads -> PageSets]
      /\ \A u, v \in Threads : u # v => hand[u] \cap hand[v] = {}
  BY DEF TypeOK, PageConservation
<1>2. /\ pc'[t] = label /\ \A u \in Threads \ {t} : pc'[u] = pc[u]
      /\ hand'[t] = pages /\ \A u \in Threads \ {t} : hand'[u] = hand[u]
  BY <1>1 DEF Goto, Hold
<1>3. ASSUME pc[t] \notin AllocLabels, label \notin AllocLabels
      PROVE  beingAllocated' = beingAllocated /\ inTransit' = (inTransit \ hand[t]) \cup pages
  BY <1>1, <1>2, <1>3, InHands, InHandsNext
<1>4. ASSUME pc[t] \in AllocLabels, label \notin AllocLabels
      PROVE  beingAllocated' = beingAllocated \ hand[t] /\ inTransit' = inTransit \cup pages
  BY <1>1, <1>2, <1>4, InHands, InHandsNext
<1>5. ASSUME pc[t] \notin AllocLabels, label \in AllocLabels
      PROVE  beingAllocated' = beingAllocated \cup pages /\ inTransit' = inTransit \ hand[t]
  BY <1>1, <1>2, <1>5, InHands, InHandsNext
<1> QED
  BY <1>3, <1>4, <1>5

\* A step that changes nobody's hands and no thread's side changes neither
LEMMA HandsKept ==
    ASSUME UNCHANGED hand,
           \A t \in Threads : pc'[t] \in AllocLabels <=> pc[t] \in AllocLabels
    PROVE  beingAllocated' = beingAllocated /\ inTransit' = inTransit
BY InHands, InHandsNext

LEMMA PoolEffect ==
    ASSUME ResizeTargets \subseteq 0 .. NumPages,
           TypeOK, HandShape, PageConservation, LimitExact, [Next]_vars
    PROVE  Effect
<1> USE ThreadsAssumption DEF Effect, lists, counters, Threads
<1>t. /\ pc \in [Threads -> CallerLabels \cup WorkerLabels] /\ hand \in [Threads -> PageSets]
      /\ free \in PageSets /\ reserved \in PageSets /\ reclaimed \in PageSets
      /\ numTotal \in Nat /\ numFree \in Int /\ NumPages \in Nat
  BY NumPagesAssumption DEF TypeOK
<1>d. /\ \A t \in Threads : hand[t] \cap listed = {}
      /\ \A t, u \in Threads : t # u => hand[t] \cap hand[u] = {}
      /\ free \cap (reserved \cup reclaimed \cup inUse \cup leaked) = {}
      /\ reserved \cap (reclaimed \cup inUse \cup leaked) = {}
      /\ reclaimed \cap (inUse \cup leaked) = {}
      /\ inUse \cap leaked = {}
  BY DEF PageConservation
<1>w. pc[Prealloc] \notin AllocLabels /\ {"loop", "map", "off"} \cap AllocLabels = {}
  BY DEF TypeOK, WorkerLabels, AllocLabels
<1>i. \A t \in Callers : pc[t] \in {"idle", "alloc", "join"} => pc[t] \notin AllocLabels /\ hand[t] = {}
  BY DEF HandShape, AllocLabels
<1>u. \A t \in Callers : pc[t] \in UnmapLabels => pc[t] \notin AllocLabels
  BY DEF AllocLabels, UnmapLabels
<1>l. "idle" \notin AllocLabels /\ UnmapLabels \cap AllocLabels = {} /\ "alloc_map" \in AllocLabels
  BY DEF AllocLabels, UnmapLabels
<1>1. ASSUME NEW t \in Callers, AllocReserved(t) PROVE Effect
  <2>1. PICK p \in reserved : reserved' = reserved \ {p} /\ inUse' = inUse \cup {p}
    BY <1>1 DEF AllocReserved
  <2>2. beingAllocated' = beingAllocated /\ inTransit' = inTransit
    BY <1>1, <1>t DEF AllocReserved, beingAllocated, inTransit, AllocLabels, Goto
  <2>3. p \notin free \cup leaked \cup inTransit
    BY <1>d, <2>1, InHands DEF listed
  <2>4. pool' = pool \ {p} /\ held' = held \cup {p} /\ p \in pool
    BY <1>1, <2>1, <2>2, <2>3 DEF pool, held, AllocReserved
  <2> QED
    BY <1>1, <2>4 DEF Takes, AllocReserved
<1>2. ASSUME NEW t \in Callers, AllocFree(t) PROVE Effect
  <2>1. PICK p \in free : free' = free \ {p} /\ Hold(t, {p})
    BY <1>2 DEF AllocFree
  <2>2. Goto(t, "alloc_map") /\ pc[t] \notin AllocLabels /\ hand[t] = {} /\ t \in Threads
    BY <1>2, <1>i DEF AllocFree
  <2>3. beingAllocated' = beingAllocated \cup {p} /\ inTransit' = inTransit \ hand[t]
    BY <2>1, <2>2, <1>l, HandMoves
  <2>4. p \notin reserved \cup leaked \cup inTransit
    BY <1>d, <2>1, InHands DEF listed
  <2>5. pool' = pool \ {p} /\ held' = held \cup {p} /\ p \in pool
    BY <1>2, <2>1, <2>2, <2>3, <2>4 DEF pool, held, AllocFree
  <2> QED
    BY <1>2, <2>5 DEF Takes, AllocFree
<1>3. ASSUME NEW t \in Callers, AllocMapFailed(t) PROVE Effect
  <2>1. PICK p \in Nat : hand[t] = {p}
    BY <1>3 DEF AllocMapFailed, AllocLabels, HandShape
  <2>2. Goto(t, "idle") /\ Hold(t, {}) /\ pc[t] \in AllocLabels /\ t \in Threads
    BY <1>3 DEF AllocMapFailed, AllocLabels
  <2>3. beingAllocated' = beingAllocated \ hand[t] /\ inTransit' = inTransit \cup {}
    BY <2>2, <1>l, HandMoves
  <2>4. p \notin inUse /\ p \in beingAllocated
    BY <1>d, <2>1, <2>2, InHands DEF listed
  <2>5. pool' = pool \cup {p} /\ held' = held \ {p} /\ p \in held
    BY <1>3, <2>1, <2>3, <2>4 DEF pool, held, AllocMapFailed
  <2>6. Cardinality({p}) = 1 /\ {p} \in (SUBSET held) \ {{}}
    BY <2>5, FS_Singleton
  <2>7. numFree' = numFree + Cardinality({p}) /\ UNCHANGED <<reclaimed, numTotal>>
    BY <1>3, <2>6 DEF AllocMapFailed
  <2> QED
    BY <2>5, <2>6, <2>7 DEF Gives
<1>4. ASSUME NEW t \in Callers, AllocPublish(t) PROVE Effect
  <2>1. Goto(t, "idle") /\ Hold(t, {}) /\ pc[t] \in AllocLabels /\ t \in Threads
    BY <1>4 DEF AllocPublish, AllocLabels
  <2>2. beingAllocated' = beingAllocated \ hand[t] /\ inTransit' = inTransit \cup {}
    BY <2>1, <1>l, HandMoves
  <2>3. hand[t] \subseteq beingAllocated
    BY <2>1, InHands
  <2> QED
    BY <1>4, <2>2, <2>3 DEF Stable, pool, held, AllocPublish
<1>5. ASSUME NEW t \in Callers,
             AllocCall(t) \/ AllocExhausted(t) \/ AllocWait(t) \/ AllocMapped(t)
               \/ AllocTrigger(t) \/ AllocMeasure(t) \/ StopJoined(t) \/ StartPrealloc(t) \/ StopPrealloc(t)
      PROVE  Effect
  <2>1. /\ UNCHANGED hand
        /\ \A u \in Threads : pc'[u] \in AllocLabels <=> pc[u] \in AllocLabels
    BY <1>5, <1>t DEF AllocCall, AllocExhausted, AllocWait, AllocMapped, AllocTrigger, AllocMeasure,
                      StopJoined, StartPrealloc, StopPrealloc, AllocLabels, Goto
  <2>2. UNCHANGED <<free, reserved, reclaimed, inUse, leaked, numFree, numTotal>>
    BY <1>5 DEF AllocCall, AllocExhausted, AllocWait, AllocMapped, AllocTrigger, AllocMeasure,
                StopJoined, StartPrealloc, StopPrealloc
  <2>3. Stable
    BY <2>1, <2>2, HandsKept DEF Stable, pool, held
  <2> QED
    BY <2>3
<1>6. ASSUME NEW t \in Callers, FreePages(t) PROVE Effect
  <2>1. PICK pages \in (SUBSET inUse) \ {{}} : \E kept \in SUBSET pages :
          /\ inUse' = inUse \ pages
          /\ numFree' = numFree + Cardinality(pages)
          /\ reserved' = reserved \cup kept
          /\ IF kept = pages
               THEN UNCHANGED <<hand, pc>>
               ELSE Hold(t, pages \ kept) /\ Goto(t, "free_unmap")
    BY <1>6 DEF FreePages
  <2>k. PICK kept \in SUBSET pages :
          /\ inUse' = inUse \ pages
          /\ numFree' = numFree + Cardinality(pages)
          /\ reserved' = reserved \cup kept
          /\ IF kept = pages
               THEN UNCHANGED <<hand, pc>>
               ELSE Hold(t, pages \ kept) /\ Goto(t, "free_unmap")
    BY <2>1
  <2>2. pc[t] \notin AllocLabels /\ hand[t] = {} /\ t \in Threads /\ "free_unmap" \notin AllocLabels
    BY <1>6, <1>i DEF FreePages, AllocLabels
  <2>3. beingAllocated' = beingAllocated /\ inTransit' = inTransit \cup (pages \ kept)
    <3>1. CASE kept = pages
      BY <2>k, <3>1, HandsKept
    <3>2. CASE kept # pages
      BY <2>k, <2>2, <3>2, HandMoves
    <3> QED
      BY <3>1, <3>2
  <2>4. pages \cap beingAllocated = {}
    BY <1>d, InHands DEF listed
  <2>5. pool' = pool \cup pages /\ held' = held \ pages /\ pages \in (SUBSET held) \ {{}}
    BY <1>6, <2>1, <2>k, <2>3, <2>4 DEF pool, held, FreePages
  <2> QED
    BY <1>6, <2>k, <2>5 DEF Gives, FreePages
<1>7. ASSUME NEW t \in Callers, FreeUnmapped(t) \/ TrimUnmapped(t) \/ UnmapFailed(t) PROVE Effect
  <2>1. Goto(t, "idle") /\ Hold(t, {}) /\ pc[t] \notin AllocLabels /\ t \in Threads
    BY <1>7 DEF FreeUnmapped, TrimUnmapped, UnmapFailed, AllocLabels
  <2>2. beingAllocated' = beingAllocated /\ inTransit' = (inTransit \ hand[t]) \cup {}
    BY <2>1, <1>l, HandMoves
  <2>3. hand[t] \subseteq inTransit
    BY <2>1, InHands
  <2>4. free \cup leaked \cup hand[t] = free' \cup leaked' /\ UNCHANGED <<reserved, reclaimed, inUse, numFree, numTotal>>
    BY <1>7 DEF FreeUnmapped, TrimUnmapped, UnmapFailed
  <2> QED
    BY <2>2, <2>3, <2>4 DEF Stable, pool, held
<1>8. ASSUME NEW t \in Callers, Trim(t) \/ \E n \in ResizeTargets : ShrinkReserved(t, n) PROVE Effect
  <2>1. /\ pc[t] \notin AllocLabels /\ hand[t] = {} /\ t \in Threads
        /\ {"trim_unmap", "resize_unmap"} \cap AllocLabels = {}
    BY <1>8, <1>i DEF Trim, ShrinkReserved, AllocLabels
  <2>2. \/ reserved = {} /\ UNCHANGED <<hand, pc>>
        \/ Hold(t, reserved) /\ (Goto(t, "trim_unmap") \/ Goto(t, "resize_unmap"))
    BY <1>8 DEF Trim, ShrinkReserved
  <2>3. beingAllocated' = beingAllocated /\ inTransit' = inTransit \cup reserved
    <3>1. CASE reserved = {} /\ UNCHANGED <<hand, pc>>
      BY <3>1, HandsKept
    <3>2. CASE Hold(t, reserved) /\ Goto(t, "trim_unmap")
      BY <2>1, <3>2, HandMoves
    <3>3. CASE Hold(t, reserved) /\ Goto(t, "resize_unmap")
      BY <2>1, <3>3, HandMoves
    <3> QED
      BY <2>2, <3>1, <3>2, <3>3
  <2>4. reserved' = {} /\ UNCHANGED <<free, leaked, reclaimed, inUse, numFree, numTotal>>
    BY <1>8 DEF Trim, ShrinkReserved
  <2> QED
    BY <2>3, <2>4 DEF Stable, pool, held
<1>9. ASSUME NEW t \in Callers, NEW n \in ResizeTargets, Expand(t, n) PROVE Effect
  <2>1. PICK reused \in SUBSET reclaimed :
          /\ Cardinality(reused) = AtMost(Cardinality(reclaimed), n - numTotal)
          /\ reclaimed' = reclaimed \ reused
          /\ free' = free \cup reused \cup newPages(n - numTotal - Cardinality(reused))
    BY <1>9 DEF Expand
  <2>2. n > numTotal /\ numFree' = numFree + (n - numTotal) /\ UNCHANGED <<reserved, inUse, leaked, hand, pc>>
    BY <1>9 DEF Expand
  <2>3. Cardinality(reused) = n - numTotal /\ newPages(n - numTotal - Cardinality(reused)) = {}
    BY <2>1, <2>2, ExpansionReuses
  <2>4. beingAllocated' = beingAllocated /\ inTransit' = inTransit
    BY <2>2, HandsKept
  <2>5. reused # {}
    <3>1. n \in Nat /\ n - numTotal # 0
      BY <1>t, <2>2
    <3> QED
      BY <2>3, <3>1, FS_EmptySet
  <2>6. pool' = pool \cup reused /\ held' = held
    BY <2>1, <2>2, <2>3, <2>4 DEF pool, held
  <2> QED
    BY <2>1, <2>2, <2>3, <2>5, <2>6 DEF Restores
<1>10. ASSUME NEW t \in Callers, NEW n \in ResizeTargets, ShrinkFree(t, n) PROVE Effect
  <2>1. PICK taken \in SUBSET free :
          /\ Cardinality(taken) = numTotal - n
          /\ free' = free \ taken
          /\ reclaimed' = reclaimed \cup taken
          /\ numFree' = numFree - Cardinality(taken)
    BY <1>10 DEF ShrinkFree, Reclaim
  <2>2. n < numTotal /\ UNCHANGED <<reserved, inUse, leaked, hand, pc>>
    BY <1>10 DEF ShrinkFree
  <2>3. beingAllocated' = beingAllocated /\ inTransit' = inTransit
    BY <2>2, HandsKept
  <2>4. taken # {}
    <3>1. n \in Nat /\ numTotal - n # 0
      BY <1>t, <2>2
    <3> QED
      BY <2>1, <3>1, FS_EmptySet
  <2>5. taken \cap (reserved \cup leaked \cup inTransit) = {}
    BY <1>d, InHands DEF listed
  <2>6. pool' = pool \ taken /\ held' = held /\ taken \in (SUBSET pool) \ {{}}
    BY <2>1, <2>2, <2>3, <2>4, <2>5 DEF pool, held
  <2> QED
    BY <2>1, <2>6 DEF Withdraws
<1>11. ASSUME NEW t \in Callers, ShrinkUnmapped(t) PROVE Effect
  <2>1. /\ Goto(t, "idle") /\ Hold(t, {}) /\ pc[t] \notin AllocLabels /\ t \in Threads
        /\ UNCHANGED <<reserved, inUse, leaked>>
    BY <1>11 DEF ShrinkUnmapped, AllocLabels
  <2>2. beingAllocated' = beingAllocated /\ inTransit' = (inTransit \ hand[t]) \cup {}
    BY <2>1, <1>l, HandMoves
  <2>3. hand[t] \subseteq inTransit
    BY <2>1, InHands
  <2>4. \A p \in inTransit \ hand[t] : p \notin hand[t] \cup listed
    BY <1>d, InHands
  <2>5. CASE free' = free \cup hand[t] /\ UNCHANGED <<reclaimed, numFree, numTotal>>
    BY <2>1, <2>2, <2>3, <2>5 DEF Stable, pool, held
  <2>6. CASE target[t] <= numTotal /\ Reclaim(free \cup hand[t], target[t])
    <3>1. PICK taken \in SUBSET (free \cup hand[t]) :
            /\ Cardinality(taken) = numTotal - target[t]
            /\ free' = (free \cup hand[t]) \ taken
            /\ reclaimed' = reclaimed \cup taken
            /\ numFree' = numFree - (numTotal - target[t])
            /\ numTotal' = target[t]
      BY <2>6 DEF Reclaim
    <3>2. taken \cap (reserved \cup leaked \cup (inTransit \ hand[t])) = {}
      BY <1>d, <2>4 DEF listed
    <3>3. pool' = pool \ taken /\ held' = held /\ taken \in SUBSET pool
      BY <2>1, <2>2, <2>3, <3>1, <3>2 DEF pool, held
    <3>4. CASE taken = {}
      <4>1. target[t] = numTotal
        <5>1. target[t] \in Nat /\ Cardinality(taken) = 0
          BY <3>4, FS_EmptySet DEF TypeOK
        <5> QED
          BY <3>1, <5>1, <1>t
      <4> QED
        BY <3>1, <3>3, <3>4, <4>1, <1>t DEF Stable
    <3>5. CASE taken # {}
      BY <3>1, <3>3, <3>5 DEF Withdraws
    <3> QED
      BY <3>4, <3>5
  <2> QED
    BY <1>11, <2>5, <2>6 DEF ShrinkUnmapped
<1>12. ASSUME WorkerWait \/ WorkerExit PROVE Effect
  <2>1. UNCHANGED hand /\ \A u \in Threads : pc'[u] \in AllocLabels <=> pc[u] \in AllocLabels
    BY <1>12, <1>t, <1>w DEF WorkerWait, WorkerExit, Goto
  <2> QED
    BY <1>12, <2>1, HandsKept DEF Stable, pool, held, WorkerWait, WorkerExit
<1>13. ASSUME WorkerTake PROVE Effect
  <2>1. PICK pages \in SUBSET free : free' = free \ pages /\ Hold(Prealloc, pages)
    BY <1>13 DEF WorkerTake
  <2>2. (UNCHANGED pc \/ Goto(Prealloc, "map")) /\ hand[Prealloc] = {} /\ Prealloc \in Threads
    BY <1>13 DEF WorkerTake, HandShape
  <2>3. Goto(Prealloc, "map") \/ Goto(Prealloc, "loop")
    BY <1>13, <1>t, <2>2 DEF Goto, WorkerTake
  <2>4. beingAllocated' = beingAllocated /\ inTransit' = (inTransit \ hand[Prealloc]) \cup pages
    BY <1>w, <2>1, <2>2, <2>3, HandMoves
  <2>5. pool' = pool /\ held' = held
    BY <1>13, <2>1, <2>2, <2>4 DEF pool, held, WorkerTake
  <2> QED
    BY <1>13, <2>5 DEF Stable, WorkerTake
<1>14. ASSUME WorkerMapped \/ WorkerMapFailed PROVE Effect
  <2>1. Goto(Prealloc, "loop") /\ Hold(Prealloc, {}) /\ Prealloc \in Threads
    BY <1>14 DEF WorkerMapped, WorkerMapFailed
  <2>2. beingAllocated' = beingAllocated /\ inTransit' = (inTransit \ hand[Prealloc]) \cup {}
    BY <1>w, <2>1, HandMoves
  <2>3. hand[Prealloc] \subseteq inTransit
    BY <1>w, <2>1, InHands
  <2>4. /\ free' \cup reserved' = free \cup reserved \cup hand[Prealloc]
        /\ UNCHANGED <<reclaimed, leaked, inUse, numFree, numTotal>>
    BY <1>14 DEF WorkerMapped, WorkerMapFailed
  <2> QED
    BY <2>2, <2>3, <2>4 DEF Stable, pool, held
<1>15. CASE UNCHANGED vars
  <2>1. UNCHANGED <<free, reserved, reclaimed, inUse, leaked, hand, pc, numFree, numTotal>>
    BY <1>15 DEF vars
  <2> QED
    BY <2>1, HandsKept DEF Stable, pool, held
<1> QED
  BY <1>1, <1>2, <1>3, <1>4, <1>5, <1>6, <1>7, <1>8, <1>9, <1>10, <1>11, <1>12, <1>13, <1>14, <1>15
  DEF Next, Begin, Continue, WorkerStep

-----------------------------------------------------------------------------
(* The counters *)

\* The three parts of the pool are disjoint sets of pages
LEMMA PoolParts ==
    ASSUME TypeOK, PageConservation
    PROVE  /\ pool \in PageSets /\ held \in PageSets /\ reclaimed \in PageSets
           /\ pool \cap held = {} /\ pool \cap reclaimed = {} /\ held \cap reclaimed = {}
<1>1. /\ listed \cup UNION {hand[t] : t \in Threads} = 0 .. NumPages - 1
      /\ \A t \in Threads : hand[t] \cap listed = {}
      /\ \A t, u \in Threads : t # u => hand[t] \cap hand[u] = {}
      /\ free \cap (reserved \cup reclaimed \cup inUse \cup leaked) = {}
      /\ reserved \cap (reclaimed \cup inUse \cup leaked) = {}
      /\ reclaimed \cap (inUse \cup leaked) = {}
      /\ inUse \cap leaked = {}
  BY DEF PageConservation
<1>2. 0 .. NumPages - 1 \in PageSets
  BY PageSetBasics, NumPagesAssumption
<1>3. pool \subseteq 0 .. NumPages - 1 /\ held \subseteq 0 .. NumPages - 1
  BY <1>1, InHands DEF pool, held, listed
<1>4. pool \in PageSets /\ held \in PageSets
  BY <1>2, <1>3, PageSetFacts
<1>5. beingAllocated \cap inTransit = {}
  <2> SUFFICES ASSUME NEW p \in beingAllocated, p \in inTransit PROVE FALSE
    OBVIOUS
  <2>1. PICK t \in Threads : pc[t] \in AllocLabels /\ p \in hand[t]
    BY InHands
  <2>2. PICK u \in Threads : pc[u] \notin AllocLabels /\ p \in hand[u]
    BY InHands
  <2> QED
    BY <1>1, <2>1, <2>2
<1>6. (beingAllocated \cup inTransit) \cap listed = {}
  BY <1>1, InHands
<1> QED
  BY <1>1, <1>4, <1>5, <1>6 DEF pool, held, listed, TypeOK

LEMMA CountersInit == Init => CountersExact
<1> SUFFICES ASSUME Init PROVE CountersExact
  OBVIOUS
<1>1. inTransit = {}
  BY InHands DEF Init
<1>2. pool = 0 .. NumPages - 1
  BY <1>1 DEF Init, pool
<1>3. Cardinality(0 .. NumPages - 1) = NumPages /\ Cardinality({}) = 0
  BY FS_Interval, FS_EmptySet, NumPagesAssumption
<1> QED
  BY <1>2, <1>3, NumPagesAssumption DEF Init, CountersExact

LEMMA CountersStep ==
    ASSUME ResizeTargets \subseteq 0 .. NumPages,
           TypeOK, HandShape, PageConservation, CountersExact, [Next]_vars
    PROVE  CountersExact'
<1>1. LimitExact /\ numFree = Cardinality(pool)
  BY DEF CountersExact, LimitExact
<1>2. LimitExact' /\ Effect
  BY <1>1, LimitStep, PoolEffect
<1>3. /\ pool \in PageSets /\ held \in PageSets /\ reclaimed \in PageSets
      /\ pool \cap held = {} /\ pool \cap reclaimed = {}
      /\ \A S \in SUBSET held : S \in PageSets
      /\ \A S \in SUBSET reclaimed : S \in PageSets
  BY PoolParts, PageSetFacts
<1>9. LimitExact' /\ numFree' = Cardinality(pool') => CountersExact'
  BY DEF CountersExact, LimitExact
<1>4. CASE Stable
  BY <1>1, <1>2, <1>4, <1>9 DEF Stable
<1>5. CASE Takes
  <2>1. PICK p \in pool : pool' = pool \ {p} /\ numFree' = numFree - 1
    BY <1>5 DEF Takes
  <2>2. Cardinality(pool \ {p}) = Cardinality(pool) - Cardinality({p}) /\ Cardinality({p}) = 1
    BY <1>3, <2>1, CardinalityMinus, FS_Singleton
  <2> QED
    BY <1>1, <1>2, <1>9, <2>1, <2>2
<1>6. CASE Gives
  <2>1. PICK pages \in SUBSET held : pool' = pool \cup pages /\ numFree' = numFree + Cardinality(pages)
    BY <1>6 DEF Gives
  <2>2. pages \in PageSets /\ pool \cap pages = {}
    BY <1>3, <2>1
  <2>3. Cardinality(pool \cup pages) = Cardinality(pool) + Cardinality(pages)
    BY <1>3, <2>2, CardinalityPlus
  <2> QED
    BY <1>1, <1>2, <1>9, <2>1, <2>3
<1>7. CASE Withdraws
  <2>1. PICK pages \in SUBSET pool : pool' = pool \ pages /\ numFree' = numFree - Cardinality(pages)
    BY <1>7 DEF Withdraws
  <2>2. Cardinality(pool \ pages) = Cardinality(pool) - Cardinality(pages)
    BY <1>3, <2>1, CardinalityMinus
  <2> QED
    BY <1>1, <1>2, <1>9, <2>1, <2>2
<1>8. CASE Restores
  <2>1. PICK pages \in SUBSET reclaimed : pool' = pool \cup pages /\ numFree' = numFree + Cardinality(pages)
    BY <1>8 DEF Restores
  <2>2. pages \in PageSets /\ pool \cap pages = {}
    BY <1>3, <2>1
  <2>3. Cardinality(pool \cup pages) = Cardinality(pool) + Cardinality(pages)
    BY <1>3, <2>2, CardinalityPlus
  <2> QED
    BY <1>1, <1>2, <1>9, <2>1, <2>3
<1> QED
  BY <1>2, <1>4, <1>5, <1>6, <1>7, <1>8 DEF Effect

(* num_free_pages_ and num_total_pages_ are exact at every instant, also while
   pages are in the hands of a thread that works outside the lock. *)
THEOREM CountersAreExact ==
    ASSUME ResizeTargets \subseteq 0 .. NumPages
    PROVE  Spec => []CountersExact
<1>1. TypeOK /\ HandShape /\ PageConservation /\ CountersExact /\ [Next]_vars => CountersExact'
  BY CountersStep
<1> QED
  BY <1>1, CountersInit, TypeCorrect, HandsInvariant, PagesConserved, PTL DEF Spec

-----------------------------------------------------------------------------
(* The refinement *)

LEMMA PoolInit == Init => Pool!Init
<1> SUFFICES ASSUME Init PROVE Pool!Init
  OBVIOUS
<1>1. inTransit = {} /\ beingAllocated = {}
  BY InHands DEF Init
<1> QED
  BY <1>1 DEF Init, Pool!Init, pool, held

LEMMA PoolStep ==
    ASSUME Effect, CountersExact'
    PROVE  [Pool!Next]_(Pool!vars)
<1>c. numFree' = Cardinality(pool') /\ numTotal' = NumPages - Cardinality(reclaimed')
  BY DEF CountersExact
<1>1. Pool!Counted
  BY <1>c DEF Pool!Counted, Cardinality, Pool!Cardinality
<1>2. CASE Stable
  BY <1>2 DEF Stable, Pool!vars
<1>3. CASE Takes
  BY <1>1, <1>3 DEF Takes, Pool!Take, Pool!Next
<1>4. CASE Gives
  BY <1>1, <1>4 DEF Gives, Pool!Give, Pool!Next
<1>5. CASE Withdraws
  BY <1>1, <1>5 DEF Withdraws, Pool!Lower, Pool!Next
<1>6. CASE Restores
  BY <1>1, <1>6 DEF Restores, Pool!Raise, Pool!Next
<1> QED
  BY <1>2, <1>3, <1>4, <1>5, <1>6 DEF Effect

(* The allocator with its lists, lock, threads, failures and limits implements
   the abstract pool: a client sees one atomic take, give, lower or raise. *)
THEOREM ImplementsPool ==
    ASSUME ResizeTargets \subseteq 0 .. NumPages
    PROVE  Spec => PoolSpec
<1>1. Init => Pool!Init
  BY PoolInit
<1>2. TypeOK /\ HandShape /\ PageConservation /\ CountersExact /\ CountersExact' /\ [Next]_vars
        => [Pool!Next]_(Pool!vars)
  <2>1. CountersExact => LimitExact
    BY DEF CountersExact, LimitExact
  <2> QED
    BY <2>1, PoolEffect, PoolStep
<1> QED
  BY <1>1, <1>2, TypeCorrect, HandsInvariant, PagesConserved, CountersAreExact, PTL
  DEF Spec, PoolSpec, Pool!Spec

-----------------------------------------------------------------------------
(* Waiting for the worker *)

\* While nothing is leaked, a waiting caller is still in alloc_page
WaitInv ==
    /\ leaked = {}
    /\ \A t \in Callers : t \in waiting => pc[t] = "alloc"
    /\ NoLostWakeup

\* A caller that is alone and finds both lists empty although pages are counted
\* as free: the worker has them.
LEMMA WorkerHasPages ==
    ASSUME NEW c, Callers = {c}, TypeOK, HandShape, CountersExact, leaked = {}, AllocWait(c)
    PROVE  hand[Prealloc] # {} /\ pc[Prealloc] = "map"
<1>1. pc[c] = "alloc" /\ reserved = {} /\ free = {} /\ numFree > 0 /\ numFree = Cardinality(pool)
  BY DEF AllocWait, CountersExact
<1>2. hand[c] = {}
  BY <1>1 DEF HandShape
<1>3. pool = inTransit
  BY <1>1 DEF pool
<1>4. pool # {}
  <2> SUFFICES ASSUME pool = {} PROVE FALSE
    OBVIOUS
  <2>1. Cardinality(pool) = 0
    BY FS_EmptySet
  <2> QED
    BY <1>1, <2>1
<1>5. PICK p : p \in inTransit
  BY <1>3, <1>4
<1>6. PICK t \in Threads : p \in hand[t]
  BY <1>5, InHands
<1>7. t = Prealloc
  BY <1>2, <1>6 DEF Threads
<1> QED
  BY <1>6, <1>7 DEF HandShape

LEMMA WaitStep ==
    ASSUME NEW c, Callers = {c}, "unmap" \notin Failures,
           TypeOK, HandShape, CountersExact, WaitInv, [Next]_vars
    PROVE  WaitInv'
<1> USE ThreadsAssumption
<1>t. pc \in [Threads -> CallerLabels \cup WorkerLabels] /\ c \in Threads /\ Prealloc \in Threads /\ c # Prealloc
  BY DEF TypeOK, Threads
<1>w. leaked = {} /\ (c \in waiting => pc[c] = "alloc") /\ NoLostWakeup
  BY DEF WaitInv
<1>s. ASSUME leaked' = {}, c \notin waiting' PROVE WaitInv'
  BY <1>s DEF WaitInv, NoLostWakeup
<1>1. ASSUME Begin(c) PROVE WaitInv'
  <2>1. pc[c] = "idle" /\ leaked' = {} /\ (waiting' = waiting \/ waiting' = {})
    BY <1>w, <1>1 DEF Begin, AllocCall, FreePages, Trim, StartPrealloc, StopPrealloc, Expand, ShrinkFree,
                      ShrinkReserved, NotifyAll, lists, signals
  <2> QED
    BY <1>w, <1>s, <2>1
<1>2. ASSUME AllocWait(c) PROVE WaitInv'
  <2>1. UNCHANGED <<leaked, hand, pc>> /\ waiting' = waiting \cup {c} /\ pc[c] = "alloc"
    BY <1>2 DEF AllocWait, lists
  <2>2. hand[Prealloc] # {} /\ pc[Prealloc] = "map"
    BY <1>w, <1>2, WorkerHasPages
  <2>3. NoLostWakeup'
    BY <1>t, <2>1, <2>2 DEF NoLostWakeup
  <2> QED
    BY <1>w, <2>1, <2>3 DEF WaitInv
<1>3. ASSUME AllocReserved(c) \/ AllocFree(c) \/ AllocExhausted(c) PROVE WaitInv'
  <2>1. c \notin waiting /\ leaked' = {} /\ (waiting' = waiting \/ waiting' = {})
    BY <1>w, <1>3 DEF AllocReserved, AllocFree, AllocExhausted, NotifyAll, lists, signals
  <2> QED
    BY <1>s, <2>1
<1>4. ASSUME AllocMapped(c) \/ AllocMapFailed(c) \/ AllocTrigger(c) \/ AllocMeasure(c) \/ AllocPublish(c)
               \/ FreeUnmapped(c) \/ TrimUnmapped(c) \/ ShrinkUnmapped(c) \/ StopJoined(c)
      PROVE  WaitInv'
  <2>1. pc[c] # "alloc" /\ leaked' = {} /\ (waiting' = waiting \/ waiting' = {})
    BY <1>w, <1>4 DEF AllocMapped, AllocMapFailed, AllocTrigger, AllocMeasure, AllocPublish, FreeUnmapped,
                      TrimUnmapped, ShrinkUnmapped, StopJoined, NotifyAll, lists, signals
  <2> QED
    BY <1>w, <1>s, <2>1
<1>5. ~UnmapFailed(c)
  BY DEF UnmapFailed
<1>6. ASSUME WorkerWait \/ WorkerExit \/ WorkerTake PROVE WaitInv'
  <2>1. /\ pc[Prealloc] = "loop" /\ leaked' = {}
        /\ waiting' = waiting \/ waiting' = waiting \cup {Prealloc}
    BY <1>w, <1>6 DEF WorkerWait, WorkerExit, WorkerTake, lists, signals
  <2>2. c \notin waiting
    BY <1>t, <1>w, <2>1 DEF NoLostWakeup, Threads
  <2> QED
    BY <1>t, <1>s, <2>1, <2>2
<1>7. ASSUME WorkerMapped \/ WorkerMapFailed PROVE WaitInv'
  <2>1. waiting' = {} /\ leaked' = {}
    BY <1>w, <1>7 DEF WorkerMapped, WorkerMapFailed, NotifyAll
  <2> QED
    BY <1>s, <2>1
<1>8. CASE UNCHANGED vars
  BY <1>8 DEF WaitInv, NoLostWakeup, vars, lists, signals
<1> QED
  BY <1>1, <1>2, <1>3, <1>4, <1>5, <1>6, <1>7, <1>8 DEF Next, Continue, WorkerStep

(* A caller that is alone never waits in alloc_page for pages nobody is going
   to announce: when it sleeps, the preallocation thread has pages in hand and
   notifies when they are mapped, or when mapping fails.  With a page lost by a
   failed unmap, which stays counted as free, it would. *)
THEOREM WaitsForTheWorker ==
    ASSUME NEW c, Callers = {c}, "unmap" \notin Failures, ResizeTargets \subseteq 0 .. NumPages
    PROVE  Spec => []NoLostWakeup
<1>1. Init => WaitInv
  BY DEF Init, WaitInv, NoLostWakeup
<1>2. TypeOK /\ HandShape /\ CountersExact /\ WaitInv /\ [Next]_vars => WaitInv'
  BY WaitStep
<1>3. WaitInv => NoLostWakeup
  BY DEF WaitInv
<1> QED
  BY <1>1, <1>2, <1>3, TypeCorrect, HandsInvariant, CountersAreExact, PTL DEF Spec

=============================================================================
