------------------------- MODULE KVCacheManager_proof -------------------------
(* Proofs about kvcached's block manager: it loses and duplicates no block,
   its dictionaries and its counter agree, an allocation that passed the
   capacity check does not run out of pages, and the pool is used through its
   operations only. *)
EXTENDS KVCacheManager, FiniteSetTheorems, TLAPS

TakeLabels   == {"alloc_take", "alloc_blocked"}
AllocLabels  == {"alloc_wait", "alloc_check"} \cup TakeLabels
ClientLabels == AllocLabels \cup {"idle", "freed", "free_return", "clear"}
PostLabels   == AllocLabels \cup {"creating", "null", "done"}
AllLabels    == ClientLabels \cup PostLabels
\* where a thread is past its wait and reads or writes the manager's state
BodyLabels   == {"alloc_check", "freed", "free_return"} \cup TakeLabels
Outside      == {"idle", "creating", "null", "done"}

\* The RLock, or, without it, the order of _post_init and the one client
LockShape ==
    /\ \A t \in Clients : pc[t] \in ClientLabels
    /\ pc[PostInit] \in PostLabels /\ (initDone <=> pc[PostInit] = "done")
    /\ AsyncSched => \A t \in Threads : pc[t] \notin Outside => lock = t
    /\ \A t \in Clients : pc[t] \in BodyLabels => initDone

\* Who may have collected or reserved blocks
CallShape ==
    /\ \A t \in Threads : pc[t] \notin TakeLabels => got[t] = {}
    /\ nullBlock # {} => pc[PostInit] = "done"
    /\ ~Reserves => reservedBlocks = {} /\ \A t \in Threads : call[t] # "reserve"

\* The pool's pages, and its counters
PoolShape ==
    /\ available \cap (held \cup withdrawn) = {} /\ held \cap withdrawn = {}
    /\ freeCount = Cardinality(available)

\* A block that an exception lost is nowhere else
DroppedApart ==
    /\ dropped \cap (allocated \cup reservedBlocks \cup nullBlock) = {}
    /\ \A t \in Threads : got[t] \cap dropped = {}

IInv ==
    /\ TypeOK /\ LockShape /\ CallShape /\ PoolShape
    /\ PagesTracked /\ BlocksAccounted /\ DroppedApart

\* An exception of free_pages leaves the blocks of free_reserved both free and
\* reserved: what is said of blocks holds where that does not happen.
UnmapSucceeds == "unmap" \in Failures => ~Reserves

\* Blocks that do not fill their page exactly make available_size too large
BlocksFillPages == PageSize % BlockSize = 0

\* What a running allocation still needs is in pages it has or can fetch
NeedCovered ==
    \A t \in Threads : pc[t] \in TakeLabels => need[t] <= numAvail + freeCount * blocksPerPage


-----------------------------------------------------------------------------
(* Pages and blocks *)

LEMMA Numbers ==
    /\ NumPages \in Nat /\ PageSize \in Nat /\ PageSize # 0 /\ BlockSize \in Nat /\ BlockSize # 0
    /\ InitialMem \in Nat /\ MaxNeed \in Nat /\ MaxNeed # 0
    /\ \A l \in Limits \cup DirectLimits : l \in Nat /\ l # 0
    /\ \A n \in AvailPhysical : n \in Nat
    /\ Pages = 0 .. NumPages - 1
BY SizesAssumption, InputsAssumption DEF InitialMem, Pages

LEMMA Division ==
    ASSUME NEW a \in Nat, NEW d \in Nat \ {0}
    PROVE  /\ a \div d \in Nat /\ d * (a \div d) <= a /\ a < d * (a \div d) + d
           /\ \A q \in Nat : d * q <= a /\ a < d * q + d => a \div d = q
BY SMT

LEMMA BlockRange ==
    ASSUME NEW p \in Pages
    PROVE  firstBlock(p) \in Nat /\ endBlock(p) \in Nat /\ Blocks(p) \subseteq Nat
<1>1. p * PageSize + BlockSize - 1 \in Nat /\ (p + 1) * PageSize \in Nat
  BY Numbers
<1> QED
  BY <1>1, Numbers, Division DEF firstBlock, endBlock, Blocks

\* get_page_id finds the page of each of its blocks
LEMMA PageOfBlock ==
    ASSUME NEW p \in Pages, NEW b \in Blocks(p)
    PROVE  pageOf(b) = p
<1> DEFINE low == p * PageSize + BlockSize - 1
           high == (p + 1) * PageSize
<1>1. low \in Nat /\ high \in Nat /\ p \in Nat /\ b \in Nat
  BY Numbers, BlockRange
<1>2. b >= low \div BlockSize /\ b + 1 <= high \div BlockSize
  BY <1>1, BlockRange DEF Blocks, firstBlock, endBlock
<1>3. low < BlockSize * (low \div BlockSize) + BlockSize /\ BlockSize * (high \div BlockSize) <= high
      /\ low \div BlockSize \in Nat /\ high \div BlockSize \in Nat
  BY <1>1, Numbers, Division
<1>4. BlockSize * (low \div BlockSize) <= BlockSize * b /\ BlockSize * (b + 1) <= BlockSize * (high \div BlockSize)
  <2> HIDE DEF low, high
  <2> QED
    BY <1>1, <1>2, <1>3, Numbers
<1>5. p * PageSize <= b * BlockSize /\ b * BlockSize + BlockSize <= (p + 1) * PageSize
  BY <1>1, <1>3, <1>4, Numbers
<1>6. PageSize * p <= b * BlockSize /\ b * BlockSize < PageSize * p + PageSize /\ b * BlockSize \in Nat
  BY <1>1, <1>5, Numbers
<1> QED
  BY <1>1, <1>6, Numbers, Division DEF pageOf

LEMMA PagesDisjoint ==
    ASSUME NEW p \in Pages, NEW q \in Pages, p # q
    PROVE  Blocks(p) \cap Blocks(q) = {}
BY PageOfBlock

LEMMA IntervalSize ==
    ASSUME NEW a \in Int, NEW b \in Int
    PROVE  Cardinality(a .. b - 1) = IF a < b THEN b - a ELSE 0
<1>1. b - 1 \in Int /\ (a > b - 1 <=> ~(a < b)) /\ b - 1 - a + 1 = b - a
  OBVIOUS
<1> DEFINE c == b - 1
<1>2. c \in Int /\ (a > c <=> ~(a < b)) /\ c - a + 1 = b - a
  BY <1>1
<1> HIDE DEF c
<1>3. Cardinality(a .. c) = IF a > c THEN 0 ELSE c - a + 1
  BY <1>2, FS_Interval
<1>4. Cardinality(a .. c) = IF a < b THEN b - a ELSE 0
  BY <1>2, <1>3
<1> QED
  BY <1>4 DEF c

LEMMA RunSize ==
    ASSUME NEW a \in Int, NEW n \in Nat
    PROVE  Cardinality(a .. a + n - 1) = n
<1>1. a + n \in Int /\ a .. a + n - 1 = a .. (a + n) - 1
  OBVIOUS
<1> DEFINE b == a + n
<1>2. b \in Int /\ n = (IF a < b THEN b - a ELSE 0) /\ a .. a + n - 1 = a .. b - 1
  BY <1>1
<1> HIDE DEF b
<1>3. Cardinality(a .. b - 1) = IF a < b THEN b - a ELSE 0
  BY <1>2, IntervalSize, Zenon
<1> QED
  BY <1>2, <1>3

LEMMA FiniteBlocks ==
    /\ IsFiniteSet(AllBlocks) /\ \A S : S \subseteq AllBlocks => IsFiniteSet(S) /\ Cardinality(S) \in Nat
    /\ \A p \in Pages : Blocks(p) \subseteq AllBlocks
    /\ IsFiniteSet(Pages) /\ \A S : S \subseteq Pages => IsFiniteSet(S) /\ Cardinality(S) \in Nat
<1>1. \A p \in Pages : Blocks(p) \subseteq AllBlocks
  BY DEF AllBlocks
<1>2. ASSUME NEW p \in Pages, NEW b \in Blocks(p)
      PROVE  b \in 0 .. NumPages * PageSize
  <2>1. p \in Nat /\ p + 1 <= NumPages /\ b \in Nat /\ (p + 1) * PageSize \in Nat
    BY Numbers, BlockRange
  <2>2. b < ((p + 1) * PageSize) \div BlockSize
    BY <2>1, BlockRange DEF Blocks, endBlock
  <2>3. BlockSize * (((p + 1) * PageSize) \div BlockSize) <= (p + 1) * PageSize
        /\ ((p + 1) * PageSize) \div BlockSize \in Nat
    BY <2>1, Numbers, Division
  <2>4. (p + 1) * PageSize <= NumPages * PageSize
    BY <2>1, Numbers
  <2>5. ((p + 1) * PageSize) \div BlockSize <= BlockSize * (((p + 1) * PageSize) \div BlockSize)
    BY <2>3, Numbers
  <2>6. ((p + 1) * PageSize) \div BlockSize <= NumPages * PageSize /\ NumPages * PageSize \in Nat
    BY <2>1, <2>3, <2>4, <2>5, Numbers
  <2> QED
    BY <2>1, <2>2, <2>3, <2>6
<1>3. AllBlocks \subseteq 0 .. NumPages * PageSize /\ NumPages * PageSize \in Int
  BY <1>2, Numbers DEF AllBlocks
<1>4. IsFiniteSet(0 .. NumPages * PageSize) /\ IsFiniteSet(Pages)
  BY <1>3, Numbers, FS_Interval
<1>5. IsFiniteSet(AllBlocks)
  BY <1>3, <1>4, FS_Subset
<1>6. ASSUME NEW U, IsFiniteSet(U), NEW S, S \subseteq U PROVE IsFiniteSet(S) /\ Cardinality(S) \in Nat
  BY <1>6, FS_Subset, FS_CardinalityType
<1> QED
  BY <1>1, <1>4, <1>5, <1>6

\* Blocks join a set of free blocks and others leave it
LEMMA JoinAndLeave ==
    ASSUME NEW F, F \subseteq AllBlocks, NEW A, A \subseteq AllBlocks, NEW B, B \subseteq F \cup A, A \cap F = {}
    PROVE  Cardinality((F \cup A) \ B) = Cardinality(F) + Cardinality(A) - Cardinality(B)
<1>1. IsFiniteSet(F) /\ IsFiniteSet(A) /\ IsFiniteSet(B) /\ IsFiniteSet(F \cup A)
  BY FiniteBlocks
<1>2. Cardinality(F) \in Nat /\ Cardinality(A) \in Nat /\ Cardinality(B) \in Nat /\ Cardinality(F \cup A) \in Nat
  BY <1>1, FS_CardinalityType
<1>3. Cardinality(F \cup A) = Cardinality(F) + Cardinality(A) - Cardinality(F \cap A)
  BY <1>1, FS_Union
<1>4. F \cap A = {} /\ (F \cup A) \cap B = B
  OBVIOUS
<1>5. Cardinality((F \cup A) \ B) = Cardinality(F \cup A) - Cardinality(B)
  BY <1>1, <1>4, FS_Difference
<1> QED
  BY <1>2, <1>3, <1>4, <1>5, FS_EmptySet

\* A block is taken once
LEMMA TakenIs ==
    \A b : b \in taken <=> \/ b \in allocated \/ b \in nullBlock \/ b \in dropped
                           \/ \E t \in Threads : b \in got[t]
                           \/ ~returning /\ b \in reservedBlocks
BY DEF taken

LEMMA TakenIsNext ==
    \A b : b \in taken' <=> \/ b \in allocated' \/ b \in nullBlock' \/ b \in dropped'
                            \/ \E t \in Threads : b \in got'[t]
                            \/ ~returning' /\ b \in reservedBlocks'
BY DEF taken

-----------------------------------------------------------------------------
(* Mutual exclusion *)

LEMMA OneClient ==
    ~AsyncSched => \A t, u \in Clients : t = u
<1> SUFFICES ASSUME ~AsyncSched PROVE \A t, u \in Clients : t = u
  OBVIOUS
<1>1. PICK c : Clients = {c}
  BY LockAssumption, ThreadsAssumption, FS_Singleton
<1> QED
  BY <1>1

LEMMA Alone ==
    ASSUME LockShape, NEW t \in Threads, NEW u \in Threads, t # u, pc[t] \in BodyLabels
    PROVE  pc[u] \notin BodyLabels
<1>1. CASE AsyncSched
  BY <1>1 DEF LockShape, BodyLabels, Outside, TakeLabels
<1>2. CASE ~AsyncSched
  BY <1>2, OneClient DEF LockShape, BodyLabels, Threads, TakeLabels
<1> QED
  BY <1>1, <1>2

\* ... also from a thread that is through with its wait
LEMMA AlonePolling ==
    ASSUME LockShape, NEW t \in Threads, NEW u \in Threads, t # u,
           pc[t] = "alloc_wait", initDone \/ t = PostInit
    PROVE  pc[u] \notin BodyLabels
<1>1. CASE AsyncSched
  BY <1>1 DEF LockShape, BodyLabels, Outside, TakeLabels
<1>2. CASE ~AsyncSched
  BY <1>2, OneClient, ThreadsAssumption DEF LockShape, BodyLabels, Threads, TakeLabels
<1> QED
  BY <1>1, <1>2

\* ... and from one that calls a method without waiting for the lock
LEMMA AloneUnlocked ==
    ASSUME LockShape, NEW t \in Clients, pc[t] = "idle", Unlocked, initDone
    PROVE  \A u \in Threads : pc[u] \notin BodyLabels
<1>1. CASE AsyncSched
  BY <1>1, ThreadsAssumption DEF LockShape, BodyLabels, Outside, Unlocked, Threads, TakeLabels
<1>2. CASE ~AsyncSched
  BY <1>2, OneClient, ThreadsAssumption DEF LockShape, BodyLabels, Threads, TakeLabels
<1> QED
  BY <1>1, <1>2

-----------------------------------------------------------------------------
(* The page pool *)

PoolStep == [Pool!Next]_(Pool!vars)

\* Every step is one of the pool's four operations or leaves the pool alone
LEMMA StepsOfPool ==
    ASSUME [Next]_vars
    PROVE  PoolStep
<1> USE DEF PoolStep, Pool!Next, Pool!vars, poolVars
<1>r. ASSUME NEW n, NEW ok, PoolResize(n, ok) PROVE PoolStep
  BY <1>r DEF PoolResize
<1>1. ASSUME NEW mem, ResizeDone(mem) \/ ResizeStarts(mem) \/ ResizeRaises(mem) PROVE PoolStep
  BY <1>1, <1>r DEF ResizeDone, ResizeStarts, ResizeRaises
<1>f. ASSUME NEW t, NEW blocks, FreeBlocks(t, blocks) PROVE PoolStep
  BY <1>f DEF FreeBlocks
<1>2. ASSUME NEW t \in Threads, Alloc(t) PROVE PoolStep
  <2>1. CASE AllocPoll(t)
    BY <2>1, <1>1 DEF AllocPoll
  <2>2. CASE AllocFetch(t)
    BY <2>2 DEF AllocFetch
  <2>3. CASE AllocCheck(t) \/ AllocRefused(t) \/ AllocFromPage(t) \/ AllocFetchFails(t)
    BY <2>3 DEF AllocCheck, AllocRefused, AllocFromPage, AllocFetchFails
  <2> QED
    BY <1>2, <2>1, <2>2, <2>3 DEF Alloc
<1>3. ASSUME NEW t \in Clients, Begin(t) PROVE PoolStep
  <2>1. CASE Free(t) \/ FreeReserved(t)
    BY <2>1, <1>f DEF Free, FreeReserved
  <2>2. CASE Resize(t)
    BY <2>2, <1>1 DEF Resize
  <2>3. CASE AllocEnter(t) \/ ReserveEnter(t) \/ ClearEnter(t)
    BY <2>3 DEF AllocEnter, ReserveEnter, ClearEnter
  <2> QED
    BY <1>3, <2>1, <2>2, <2>3 DEF Begin
<1>4. ASSUME NEW t \in Clients, Continue(t) PROVE PoolStep
  <2>1. CASE ShrinkCheck(t)
    BY <2>1, <1>r DEF ShrinkCheck
  <2>2. CASE AllocReturn(t) \/ ShrinkRaises(t) \/ FreeReturn(t) \/ ClearFails(t)
    BY <2>2 DEF AllocReturn, ShrinkRaises, FreeReturn, ClearFails
  <2> QED
    BY <1>2, <1>4, <2>1, <2>2 DEF Continue, Threads
<1>5. CASE PostInitStep
  <2>1. CASE TensorsCreated \/ CreationTimeout \/ NullEnter \/ NullReturn
    BY <2>1 DEF TensorsCreated, CreationTimeout, NullEnter, NullReturn
  <2> QED
    BY <1>2, <1>5, <2>1 DEF PostInitStep, Threads
<1>w. CASE \E t \in Threads : AllocBlocks(t) \/ AllocUnblocks(t)
  BY <1>w DEF AllocBlocks, AllocUnblocks
<1>6. CASE SetLimit \/ WatchLimit \/ UNCHANGED vars
  BY <1>6 DEF SetLimit, WatchLimit, vars
<1> QED
  BY <1>3, <1>4, <1>5, <1>6, <1>w DEF Next

\* The manager is a client of the pool: its specification implies the pool's.
THEOREM ManagerUsesPool == Spec => UsesPool
<1>1. Init => Pool!Init
  BY DEF Init
<1>2. [Next]_vars => [Pool!Next]_(Pool!vars)
  BY StepsOfPool DEF PoolStep
<1> QED
  BY <1>1, <1>2, PTL DEF Spec, UsesPool, Pool!Spec

LEMMA PoolKept ==
    ASSUME TypeOK, PoolShape, PoolStep
    PROVE  /\ available' \subseteq Pages /\ held' \subseteq Pages /\ withdrawn' \subseteq Pages
           /\ freeCount' \in Int /\ limit' \in Int
           /\ PoolShape'
<1>t. /\ available \subseteq Pages /\ held \subseteq Pages /\ withdrawn \subseteq Pages
      /\ freeCount \in Int /\ limit \in Int
  BY DEF TypeOK
<1>1. CASE UNCHANGED Pool!vars
  BY <1>1, <1>t DEF Pool!vars, PoolShape
<1>2. CASE Pool!Next
  <2>1. available' \subseteq Pages /\ held' \subseteq Pages /\ withdrawn' \subseteq Pages
        /\ available' \cap (held' \cup withdrawn') = {} /\ held' \cap withdrawn' = {}
    BY <1>2, <1>t DEF PoolShape, Pool!Next, Pool!Take, Pool!Give, Pool!Lower, Pool!Raise
  <2>2. freeCount' = Cardinality(available') /\ limit' = NumPages - Cardinality(withdrawn')
    <3>1. Pool!Counted
      BY <1>2, Zenon DEF Pool!Next, Pool!Take, Pool!Give, Pool!Lower, Pool!Raise
    <3> QED
      BY <3>1 DEF Pool!Counted, Cardinality, Pool!Cardinality
  <2>3. Cardinality(available') \in Nat /\ Cardinality(withdrawn') \in Nat
    BY <2>1, FiniteBlocks
  <2>4. freeCount' \in Int /\ limit' \in Int
    BY <2>2, <2>3, Numbers
  <2> QED
    BY <2>1, <2>2, <2>4 DEF PoolShape
<1> QED
  BY <1>1, <1>2 DEF PoolStep

-----------------------------------------------------------------------------
(* What allocating and freeing do to the pages *)

LEMMA Types ==
    ASSUME TypeOK
    PROVE  /\ available \subseteq Pages /\ held \subseteq Pages /\ availPages \subseteq Pages /\ fullPages \subseteq Pages
           /\ freeBlocks \in [Pages -> SUBSET AllBlocks] /\ numAvail \in Nat
           /\ reservedBlocks \subseteq AllBlocks /\ nullBlock \subseteq AllBlocks
           /\ allocated \subseteq AllBlocks /\ dropped \subseteq AllBlocks
           /\ need \in [Threads -> 0 .. MaxNeed] /\ got \in [Threads -> SUBSET AllBlocks]
           /\ pc \in [Threads -> AllLabels] /\ call \in [Threads -> {"alloc", "reserve", "free", "free_reserved"}]
           /\ Clients \subseteq Threads /\ PostInit \in Threads /\ MaxNeed \in Nat
<1>1. pc \in [Threads -> AllLabels] /\ call \in [Threads -> {"alloc", "reserve", "free", "free_reserved"}]
  BY DEF TypeOK, AllLabels, ClientLabels, PostLabels, AllocLabels, TakeLabels
<1>2. Clients \subseteq Threads /\ PostInit \in Threads /\ MaxNeed \in Nat
  BY Numbers DEF Threads
<1> QED
  BY <1>1, <1>2 DEF TypeOK

FreeSet == UNION {freeBlocks[p] : p \in Pages}

\* Only pages in avail_pages have free blocks
LEMMA FreeBlocksTracked ==
    ASSUME TypeOK, PagesTracked, BlocksAccounted
    PROVE  /\ \A p \in Pages \ availPages : freeBlocks[p] = {}
           /\ \A p \in Pages : freeBlocks[p] \subseteq Blocks(p)
           /\ \A b : b \in taken \/ b \in FreeSet <=> \E p \in held : b \in Blocks(p)
           /\ taken \cap FreeSet = {}
           /\ FreeSet \subseteq AllBlocks /\ taken \subseteq AllBlocks
           /\ numAvail = Cardinality(FreeSet)
<1>1. /\ \A p \in Pages : freeBlocks[p] \subseteq Blocks(p) \ taken
      /\ taken \cup FreeSet = UNION {Blocks(p) : p \in held}
      /\ availPages \cup fullPages = held /\ held \subseteq Pages
      /\ \A p \in fullPages : freeBlocks[p] = {}
      /\ numAvail = Cardinality(UNION {freeBlocks[p] : p \in availPages})
  BY Types DEF BlocksAccounted, PagesTracked, FreeSet
<1>2. \A b : b \in taken \/ b \in FreeSet <=> \E p \in held : b \in Blocks(p)
  BY <1>1
<1>3. ASSUME NEW p \in Pages \ availPages, NEW b \in freeBlocks[p] PROVE FALSE
  <2>1. p \notin held
    BY <1>1, <1>3
  <2>2. b \in FreeSet /\ b \in Blocks(p)
    BY <1>1 DEF FreeSet
  <2>3. PICK q \in held : b \in Blocks(q)
    BY <1>2, <2>2
  <2> QED
    BY <1>1, <2>1, <2>2, <2>3, PagesDisjoint
<1>4. \A p \in Pages \ availPages : freeBlocks[p] = {}
  BY <1>3
<1>5. UNION {freeBlocks[p] : p \in availPages} = FreeSet
  BY <1>4, Types DEF FreeSet
<1>6. taken \cap FreeSet = {} /\ FreeSet \subseteq AllBlocks
  BY <1>1, FiniteBlocks DEF FreeSet
<1>7. taken \subseteq AllBlocks
  BY <1>1, <1>2, FiniteBlocks
<1> QED
  BY <1>1, <1>2, <1>4, <1>5, <1>6, <1>7

\* One iteration of _alloc's loop, on a page it has or one it fetches
DrawStep(t, p, list, blocks) ==
    /\ pc[t] = "alloc_take" /\ need[t] > 0 /\ p \in Pages
    /\ list \subseteq Blocks(p) /\ blocks \subseteq list
    /\ Cardinality(blocks) = AtMost(Cardinality(list), need[t])
    /\ \/ p \in availPages /\ list = freeBlocks[p] /\ UNCHANGED poolVars
       \/ p \in available /\ list = Blocks(p) /\ Pool!Take
    /\ held' = held \cup {p}
    /\ Draw(t, p, list, blocks)
    /\ numAvail' = numAvail + Cardinality(list) - Cardinality(freeBlocks[p]) - Cardinality(blocks)
    /\ UNCHANGED <<blockVars, limitVars, initVars, lock, pc, call>>

LEMMA AllocDraws ==
    ASSUME IInv, NEW t \in Threads, AllocFromPage(t) \/ AllocFetch(t)
    PROVE  \E p, list, blocks : DrawStep(t, p, list, blocks)
<1> USE Types DEF IInv
<1>0. need[t] \in Nat /\ numAvail \in Nat
  OBVIOUS
<1>1. CASE AllocFromPage(t)
  <2>1. PICK p \in availPages : \E blocks \in SUBSET freeBlocks[p] :
          /\ Cardinality(blocks) = AtMost(Cardinality(freeBlocks[p]), need[t])
          /\ Draw(t, p, freeBlocks[p], blocks)
          /\ numAvail' = numAvail - Cardinality(blocks)
    BY <1>1 DEF AllocFromPage
  <2>b. PICK blocks \in SUBSET freeBlocks[p] :
          /\ Cardinality(blocks) = AtMost(Cardinality(freeBlocks[p]), need[t])
          /\ Draw(t, p, freeBlocks[p], blocks)
          /\ numAvail' = numAvail - Cardinality(blocks)
    BY <2>1
  <2>2. p \in Pages /\ p \in held /\ freeBlocks[p] \subseteq Blocks(p)
    BY FreeBlocksTracked DEF PagesTracked
  <2>3. Cardinality(freeBlocks[p]) \in Nat /\ Cardinality(blocks) \in Nat
    BY <2>2, FiniteBlocks
  <2>4. numAvail' = numAvail + Cardinality(freeBlocks[p]) - Cardinality(freeBlocks[p]) - Cardinality(blocks)
    BY <1>0, <2>b, <2>3
  <2>5. held' = held \cup {p}
    BY <1>1, <2>2 DEF AllocFromPage, poolVars
  <2>6. DrawStep(t, p, freeBlocks[p], blocks)
    BY <1>1, <2>b, <2>2, <2>4, <2>5 DEF DrawStep, AllocFromPage
  <2> QED
    BY <2>6
<1>2. CASE AllocFetch(t)
  <2> DEFINE count(p) == AtMost(Cardinality(Blocks(p)), need[t])
             fresh(p) == firstBlock(p) .. firstBlock(p) + count(p) - 1
  <2>1. PICK p \in available :
          /\ Pool!Take /\ held' = held \cup {p}
          /\ Draw(t, p, Blocks(p), fresh(p))
          /\ numAvail' = numAvail + Cardinality(Blocks(p)) - count(p)
    BY <1>2 DEF AllocFetch
  <2>2. p \in Pages /\ p \notin held
    BY DEF PoolShape
  <2>3. freeBlocks[p] = {} /\ Cardinality(freeBlocks[p]) = 0
    BY <2>2, FreeBlocksTracked, FS_EmptySet DEF PagesTracked
  <2>4. /\ Cardinality(Blocks(p)) \in Nat
        /\ Cardinality(Blocks(p)) = IF firstBlock(p) > endBlock(p) - 1 THEN 0 ELSE endBlock(p) - firstBlock(p)
        /\ firstBlock(p) \in Nat /\ endBlock(p) \in Nat
    <3>1. firstBlock(p) \in Int /\ endBlock(p) \in Int /\ firstBlock(p) \in Nat /\ endBlock(p) \in Nat
      BY <2>2, BlockRange
    <3>2. Cardinality(Blocks(p)) = IF firstBlock(p) < endBlock(p) THEN endBlock(p) - firstBlock(p) ELSE 0
      BY <3>1, IntervalSize, Zenon DEF Blocks
    <3> QED
      BY <2>2, <3>1, <3>2, FiniteBlocks
  <2>5. count(p) \in Nat /\ count(p) <= Cardinality(Blocks(p))
    BY <1>0, <2>4 DEF AtMost
  <2>6. fresh(p) \subseteq Blocks(p)
    BY <2>4, <2>5 DEF Blocks
  <2>7. Cardinality(fresh(p)) = count(p)
    <3>1. firstBlock(p) \in Int /\ count(p) \in Nat
      BY <2>4, <2>5
    <3> HIDE DEF count
    <3> QED
      BY <3>1, RunSize, Zenon
  <2>8. numAvail' = numAvail + Cardinality(Blocks(p)) - Cardinality(freeBlocks[p]) - Cardinality(fresh(p))
    <3> HIDE DEF count, fresh
    <3> QED
      BY <1>0, <2>1, <2>3, <2>4, <2>5, <2>7
  <2>9. DrawStep(t, p, Blocks(p), fresh(p))
    <3>1. pc[t] = "alloc_take" /\ need[t] > 0 /\ UNCHANGED <<blockVars, limitVars, initVars, lock, pc, call>>
      BY <1>2 DEF AllocFetch
    <3>2. Cardinality(fresh(p)) = AtMost(Cardinality(Blocks(p)), need[t])
      BY <2>7
    <3> HIDE DEF count, fresh
    <3> QED
      BY <2>1, <2>2, <2>6, <2>8, <3>1, <3>2 DEF DrawStep
  <2> QED
    BY <2>9
<1> QED
  BY <1>1, <1>2

\* What free and free_reserved do: blocks return to their pages, and the pages
\* that become empty return to the pool
FreeStep(blocks, emptied) ==
    LET touched == {pageOf(b) : b \in blocks}
        list(p) == freeBlocks[p] \cup {b \in blocks : pageOf(b) = p}
    IN  /\ touched \subseteq held
        /\ emptied = {p \in touched : list(p) = Blocks(p)}
        /\ freeBlocks' = [p \in Pages |-> IF p \in emptied THEN {} ELSE
                                          IF p \in touched THEN list(p) ELSE freeBlocks[p]]
        /\ fullPages' = fullPages \ touched
        /\ availPages' = (availPages \cup touched) \ emptied
        /\ numAvail' = numAvail + Cardinality(blocks) - Cardinality(UNION {Blocks(p) : p \in emptied})
        /\ held' = held \ emptied

LEMMA BlocksOfHeld ==
    ASSUME IInv, NEW blocks, blocks \subseteq taken
    PROVE  /\ \A b \in blocks : pageOf(b) \in held /\ pageOf(b) \in Pages /\ b \in Blocks(pageOf(b))
           /\ blocks \subseteq AllBlocks /\ blocks \cap FreeSet = {}
<1>1. ASSUME NEW b \in blocks PROVE pageOf(b) \in held /\ pageOf(b) \in Pages /\ b \in Blocks(pageOf(b))
  <2>1. PICK p \in held : b \in Blocks(p)
    BY FreeBlocksTracked DEF IInv
  <2> QED
    BY <2>1, PageOfBlock, Types DEF IInv
<1> QED
  BY <1>1, FreeBlocksTracked DEF IInv

LEMMA Frees ==
    ASSUME IInv, NEW t, NEW blocks, blocks \subseteq taken, FreeBlocks(t, blocks)
    PROVE  \E emptied : FreeStep(blocks, emptied)
<1> DEFINE touched == {pageOf(b) : b \in blocks}
           list(p) == freeBlocks[p] \cup {b \in blocks : pageOf(b) = p}
           emptied == {p \in touched : list(p) = Blocks(p)}
<1>1. touched \subseteq held
  BY BlocksOfHeld
<1>2. touched \cap (availPages \cup fullPages) = touched
  BY <1>1 DEF IInv, PagesTracked
<1>3. {b \in blocks : pageOf(b) \in touched} = blocks
  OBVIOUS
<1>4. /\ freeBlocks' = [p \in Pages |-> IF p \in emptied THEN {} ELSE
                                        IF p \in touched THEN list(p) ELSE freeBlocks[p]]
      /\ fullPages' = fullPages \ touched
      /\ availPages' = (availPages \cup touched) \ emptied
      /\ numAvail' = numAvail + Cardinality(blocks) - Cardinality(UNION {Blocks(p) : p \in emptied})
      /\ IF emptied = {} THEN UNCHANGED poolVars ELSE Pool!Give /\ held' = held \ emptied
  BY <1>2, <1>3 DEF FreeBlocks
<1>5. held' = held \ emptied
  <2> HIDE DEF emptied
  <2> QED
    BY <1>4 DEF poolVars
<1>6. FreeStep(blocks, emptied)
  BY <1>1, <1>4, <1>5 DEF FreeStep
<1> QED
  BY <1>6

\* After a step: what the two dictionaries and the counter must satisfy
LEMMA TrackedNext ==
    ASSUME NEW F, F = (UNION {freeBlocks[p] : p \in Pages})',
           availPages' \subseteq Pages,
           \A p \in Pages : p \notin availPages' => freeBlocks'[p] = {},
           numAvail' = Cardinality(F)
    PROVE  numAvail' = Cardinality((UNION {freeBlocks[p] : p \in availPages})')
<1>1. (UNION {freeBlocks[p] : p \in availPages})' = F
  OBVIOUS
<1> QED
  BY <1>1

LEMMA FreeKeeps ==
    ASSUME IInv, NEW blocks, blocks \subseteq taken, NEW emptied, FreeStep(blocks, emptied)
    PROVE  /\ PagesTracked' /\ availPages' \subseteq Pages /\ fullPages' \subseteq Pages
           /\ freeBlocks' \in [Pages -> SUBSET AllBlocks]
           /\ \A p \in Pages : freeBlocks'[p] \subseteq Blocks(p)
           /\ taken' = taken \ blocks =>
                /\ taken' \cap FreeSet' = {}
                /\ taken' \cup FreeSet' = (UNION {Blocks(p) : p \in held})'
<1> DEFINE touched == {pageOf(b) : b \in blocks}
           list(p) == freeBlocks[p] \cup {b \in blocks : pageOf(b) = p}
           gone == UNION {Blocks(p) : p \in emptied}
<1>1. /\ touched \subseteq held
      /\ emptied = {p \in touched : list(p) = Blocks(p)}
      /\ freeBlocks' = [p \in Pages |-> IF p \in emptied THEN {} ELSE
                                        IF p \in touched THEN list(p) ELSE freeBlocks[p]]
      /\ fullPages' = fullPages \ touched
      /\ availPages' = (availPages \cup touched) \ emptied
      /\ numAvail' = numAvail + Cardinality(blocks) - Cardinality(gone)
      /\ held' = held \ emptied
  BY DEF FreeStep
<1>2. /\ freeBlocks \in [Pages -> SUBSET AllBlocks]
      /\ held \subseteq Pages /\ touched \subseteq Pages /\ emptied \subseteq touched
      /\ availPages \cup fullPages = held /\ availPages \cap fullPages = {}
      /\ \A p \in fullPages : freeBlocks[p] = {}
      /\ \A p \in availPages : freeBlocks[p] # {} /\ freeBlocks[p] # Blocks(p)
  BY <1>1, Types DEF IInv, PagesTracked
<1>3. /\ \A b \in blocks : pageOf(b) \in held /\ b \in Blocks(pageOf(b)) /\ b \in AllBlocks
      /\ blocks \cap FreeSet = {} /\ blocks \subseteq AllBlocks
  BY BlocksOfHeld
<1>4. /\ \A p \in Pages \ availPages : freeBlocks[p] = {}
      /\ \A p \in Pages : freeBlocks[p] \subseteq Blocks(p)
      /\ \A b : b \in taken \/ b \in FreeSet <=> \E p \in held : b \in Blocks(p)
      /\ taken \cap FreeSet = {} /\ FreeSet \subseteq AllBlocks
      /\ numAvail = Cardinality(FreeSet)
  BY FreeBlocksTracked DEF IInv
<1>5. \A p \in Pages : list(p) \subseteq Blocks(p) /\ list(p) \subseteq AllBlocks
  BY <1>3, <1>4, FiniteBlocks
<1>6. /\ freeBlocks' \in [Pages -> SUBSET AllBlocks]
      /\ \A p \in Pages : freeBlocks'[p] \subseteq Blocks(p)
  <2> HIDE DEF list, touched
  <2> QED
    BY <1>1, <1>2, <1>4, <1>5
<1>7. \A p \in touched : list(p) # {} /\ p \in Pages
  BY <1>2
<1>8. /\ \A p \in emptied : p \in Pages /\ freeBlocks'[p] = {}
      /\ \A p \in touched \ emptied : freeBlocks'[p] = list(p) /\ list(p) # {} /\ list(p) # Blocks(p)
      /\ \A p \in Pages \ touched : freeBlocks'[p] = freeBlocks[p]
  <2> HIDE DEF list, touched
  <2> QED
    BY <1>1, <1>2, <1>7
<1>9. \A p \in Pages : p \notin availPages' => freeBlocks'[p] = {}
  <2> HIDE DEF list, touched
  <2> QED
    BY <1>1, <1>2, <1>4, <1>8
<1>10. FreeSet' = (FreeSet \cup blocks) \ gone
  <2>1. ASSUME NEW b PROVE b \in FreeSet' <=> \E p \in Pages : b \in freeBlocks'[p]
    BY DEF FreeSet
  <2>2. ASSUME NEW b \in FreeSet' PROVE b \in (FreeSet \cup blocks) \ gone
    <3>1. PICK p \in Pages : b \in freeBlocks'[p]
      BY <2>2, <2>1
    <3>2. p \notin emptied /\ b \in Blocks(p) /\ b \in list(p)
      BY <1>6, <1>8, <3>1
    <3>3. b \notin gone
      BY <1>2, <3>2, PagesDisjoint
    <3>4. b \in FreeSet \cup blocks
      BY <3>2 DEF FreeSet
    <3> QED
      BY <3>3, <3>4
  <2>3. ASSUME NEW b \in (FreeSet \cup blocks) \ gone PROVE b \in FreeSet'
    <3>1. PICK p \in Pages : b \in list(p)
      BY <1>2, <1>3, <2>3 DEF FreeSet
    <3>2. p \notin emptied
      BY <1>5, <2>3, <3>1
    <3>3. b \in freeBlocks'[p]
      BY <1>8, <3>1, <3>2
    <3> QED
      BY <2>1, <3>3
  <2> QED
    BY <2>2, <2>3
<1>11. gone \subseteq FreeSet \cup blocks
  BY <1>1, <1>2 DEF FreeSet
<1>12. numAvail' = Cardinality(FreeSet')
  <2> HIDE DEF gone
  <2> QED
    BY <1>1, <1>3, <1>4, <1>10, <1>11, JoinAndLeave
<1>13. availPages' \cup fullPages' = held' /\ availPages' \cap fullPages' = {} /\ availPages' \subseteq Pages /\ fullPages' \subseteq Pages
  <2> HIDE DEF list, touched
  <2> QED
    BY <1>1, <1>2
<1>14. /\ \A p \in fullPages' : freeBlocks'[p] = {}
       /\ \A p \in availPages' : freeBlocks'[p] # {} /\ freeBlocks'[p] # Blocks(p)
  <2> HIDE DEF list, touched
  <2> QED
    BY <1>1, <1>2, <1>8, <1>13
<1>15. numAvail' = Cardinality((UNION {freeBlocks[p] : p \in availPages})')
  BY <1>9, <1>12, <1>13, TrackedNext DEF FreeSet
<1>16. PagesTracked'
  BY <1>13, <1>14, <1>15 DEF PagesTracked
<1>17. ASSUME taken' = taken \ blocks
       PROVE  taken' \cap FreeSet' = {} /\ taken' \cup FreeSet' = (UNION {Blocks(p) : p \in held})'
  <2>1. taken' \cup FreeSet' = (taken \cup FreeSet) \ gone /\ taken' \cap FreeSet' = {}
    <3> HIDE DEF gone
    <3> QED
      BY <1>4, <1>10, <1>11, <1>17
  <2>2. ASSUME NEW b PROVE b \in taken' \cup FreeSet' <=> \E p \in held' : b \in Blocks(p)
    BY <1>1, <1>2, <1>4, <2>1, PagesDisjoint
  <2> QED
    BY <2>1, <2>2
<1> QED
  BY <1>6, <1>13, <1>16, <1>17

LEMMA DrawKeeps ==
    ASSUME IInv, NEW t \in Threads, NEW p, NEW list, NEW blocks, DrawStep(t, p, list, blocks)
    PROVE  /\ PagesTracked' /\ availPages' \subseteq Pages /\ fullPages' \subseteq Pages
           /\ freeBlocks' \in [Pages -> SUBSET AllBlocks]
           /\ \A q \in Pages : freeBlocks'[q] \subseteq Blocks(q)
           /\ blocks \subseteq AllBlocks /\ blocks \cap taken = {}
           /\ taken' = taken \cup blocks =>
                /\ taken' \cap FreeSet' = {}
                /\ taken' \cup FreeSet' = (UNION {Blocks(q) : q \in held})'
<1>1. /\ p \in Pages /\ list \subseteq Blocks(p) /\ blocks \subseteq list /\ need[t] > 0
      /\ Cardinality(blocks) = AtMost(Cardinality(list), need[t])
      /\ \/ p \in availPages /\ list = freeBlocks[p]
         \/ p \in available /\ list = Blocks(p)
      /\ held' = held \cup {p}
      /\ freeBlocks' = [freeBlocks EXCEPT ![p] = list \ blocks]
      /\ IF list = blocks
           THEN fullPages' = fullPages \cup {p} /\ availPages' = availPages \ {p}
           ELSE availPages' = availPages \cup {p} /\ UNCHANGED fullPages
      /\ numAvail' = numAvail + Cardinality(list) - Cardinality(freeBlocks[p]) - Cardinality(blocks)
  BY DEF DrawStep, Draw
<1>2. /\ freeBlocks \in [Pages -> SUBSET AllBlocks]
      /\ available \subseteq Pages /\ held \subseteq Pages /\ available \cap held = {}
      /\ availPages \cup fullPages = held /\ availPages \cap fullPages = {}
      /\ \A q \in fullPages : freeBlocks[q] = {}
      /\ \A q \in availPages : freeBlocks[q] # {} /\ freeBlocks[q] # Blocks(q)
      /\ need[t] \in Nat /\ numAvail \in Nat
  BY Types DEF IInv, PagesTracked, PoolShape
<1>4. /\ \A q \in Pages \ availPages : freeBlocks[q] = {}
      /\ \A q \in Pages : freeBlocks[q] \subseteq Blocks(q)
      /\ \A b : b \in taken \/ b \in FreeSet <=> \E q \in held : b \in Blocks(q)
      /\ taken \cap FreeSet = {} /\ FreeSet \subseteq AllBlocks
      /\ numAvail = Cardinality(FreeSet)
  BY FreeBlocksTracked DEF IInv
<1> DEFINE fresh == list \ freeBlocks[p]
<1>5. /\ freeBlocks[p] \subseteq list /\ list \subseteq AllBlocks /\ blocks \subseteq AllBlocks /\ fresh \subseteq AllBlocks
      /\ p \in available => freeBlocks[p] = {}
  BY <1>1, <1>2, <1>4, FiniteBlocks
<1>6. \A b \in fresh : b \notin taken /\ b \notin FreeSet
  <2> SUFFICES ASSUME NEW b \in fresh, b \in taken \/ b \in FreeSet PROVE FALSE
    OBVIOUS
  <2>1. PICK q \in held : b \in Blocks(q)
    BY <1>4
  <2>2. p \in available /\ b \in Blocks(p)
    BY <1>1
  <2> QED
    BY <1>2, <2>1, <2>2, PagesDisjoint
<1>7. \A b \in freeBlocks[p] : b \notin taken /\ b \in FreeSet
  BY <1>1, <1>4 DEF FreeSet
<1>8. blocks \cap taken = {} /\ blocks \subseteq FreeSet \cup fresh
  BY <1>1, <1>6, <1>7
<1>9. FreeSet' = (FreeSet \cup fresh) \ blocks
  <2>1. ASSUME NEW b PROVE b \in FreeSet' <=> \E q \in Pages : b \in freeBlocks'[q]
    BY DEF FreeSet
  <2>2. freeBlocks'[p] = list \ blocks /\ \A q \in Pages : q # p => freeBlocks'[q] = freeBlocks[q]
    BY <1>1, <1>2
  <2>3. ASSUME NEW b \in FreeSet' PROVE b \in (FreeSet \cup fresh) \ blocks
    <3>1. PICK q \in Pages : b \in freeBlocks'[q]
      BY <2>1, <2>3
    <3>2. CASE q = p
      BY <2>2, <3>1, <3>2 DEF FreeSet
    <3>3. CASE q # p
      <4>1. b \in freeBlocks[q] /\ b \in Blocks(q) /\ b \notin Blocks(p)
        BY <1>1, <1>4, <2>2, <3>1, <3>3, PagesDisjoint
      <4> QED
        BY <1>1, <4>1 DEF FreeSet
    <3> QED
      BY <3>2, <3>3
  <2>4. ASSUME NEW b \in (FreeSet \cup fresh) \ blocks PROVE b \in FreeSet'
    <3>1. CASE b \in list
      BY <1>1, <2>1, <2>2, <2>4, <3>1
    <3>2. CASE b \notin list
      <4>1. PICK q \in Pages : b \in freeBlocks[q]
        BY <2>4, <3>2 DEF FreeSet
      <4>2. q # p
        BY <1>5, <3>2, <4>1
      <4> QED
        BY <2>1, <2>2, <4>1, <4>2
    <3> QED
      BY <3>1, <3>2
  <2> QED
    BY <2>3, <2>4
<1>10. Cardinality(fresh) = Cardinality(list) - Cardinality(freeBlocks[p])
  <2>1. list \cap freeBlocks[p] = freeBlocks[p] /\ IsFiniteSet(list)
    BY <1>5, FiniteBlocks
  <2> QED
    BY <2>1, FS_Difference
<1>11. numAvail' = Cardinality(FreeSet')
  <2>1. fresh \cap FreeSet = {}
    BY <1>6
  <2>2. Cardinality((FreeSet \cup fresh) \ blocks) = Cardinality(FreeSet) + Cardinality(fresh) - Cardinality(blocks)
    <3> HIDE DEF fresh
    <3> QED
      BY <1>4, <1>5, <1>8, <2>1, JoinAndLeave
  <2>3. Cardinality(list) \in Nat /\ Cardinality(freeBlocks[p]) \in Nat /\ Cardinality(blocks) \in Nat
    BY <1>5, FiniteBlocks
  <2> HIDE DEF fresh
  <2> QED
    BY <1>1, <1>2, <1>4, <1>9, <1>10, <2>2, <2>3
<1>12. /\ freeBlocks' \in [Pages -> SUBSET AllBlocks]
       /\ \A q \in Pages : freeBlocks'[q] \subseteq Blocks(q)
  BY <1>1, <1>2, <1>4, <1>5
<1>13. list # blocks => list \ blocks # {} /\ list \ blocks # Blocks(p)
  <2> SUFFICES ASSUME list # blocks PROVE blocks # {}
    BY <1>1
  <2>1. Cardinality(list) \in Nat /\ Cardinality(blocks) \in Nat /\ IsFiniteSet(list) /\ IsFiniteSet(blocks)
    BY <1>5, FiniteBlocks
  <2>2. list # {}
    BY <1>1
  <2>3. Cardinality(list) > 0
    BY <2>1, <2>2, FS_EmptySet
  <2>4. Cardinality(blocks) > 0
    BY <1>1, <1>2, <2>1, <2>3 DEF AtMost
  <2> QED
    BY <2>4, FS_EmptySet
<1>14. /\ availPages' \cup fullPages' = held' /\ availPages' \cap fullPages' = {}
       /\ availPages' \subseteq Pages /\ fullPages' \subseteq Pages
  BY <1>1, <1>2
<1>15. /\ \A q \in fullPages' : freeBlocks'[q] = {}
       /\ \A q \in availPages' : freeBlocks'[q] # {} /\ freeBlocks'[q] # Blocks(q)
       /\ \A q \in Pages : q \notin availPages' => freeBlocks'[q] = {}
  <2>1. freeBlocks'[p] = list \ blocks /\ \A q \in Pages : q # p => freeBlocks'[q] = freeBlocks[q]
    BY <1>1, <1>2
  <2>2. CASE list = blocks
    BY <1>1, <1>2, <1>4, <1>14, <2>1, <2>2
  <2>3. CASE list # blocks
    BY <1>1, <1>2, <1>4, <1>13, <1>14, <2>1, <2>3
  <2> QED
    BY <2>2, <2>3
<1>16. numAvail' = Cardinality((UNION {freeBlocks[q] : q \in availPages})')
  BY <1>11, <1>14, <1>15, TrackedNext DEF FreeSet
<1>17. PagesTracked'
  BY <1>14, <1>15, <1>16 DEF PagesTracked
<1>18. ASSUME taken' = taken \cup blocks
       PROVE  taken' \cap FreeSet' = {} /\ taken' \cup FreeSet' = (UNION {Blocks(q) : q \in held})'
  <2>1. taken' \cup FreeSet' = taken \cup FreeSet \cup fresh /\ taken' \cap FreeSet' = {}
    BY <1>4, <1>6, <1>8, <1>9, <1>18
  <2>2. ASSUME NEW b PROVE b \in taken' \cup FreeSet' <=> \E q \in held' : b \in Blocks(q)
    <3>1. CASE p \in held
      <4>1. held' = held /\ list = freeBlocks[p]
        BY <1>1, <1>2, <3>1
      <4> QED
        BY <1>4, <2>1, <4>1
    <3>2. CASE p \notin held
      <4>1. list = Blocks(p) /\ freeBlocks[p] = {}
        BY <1>1, <1>2, <1>5, <3>2
      <4> QED
        BY <1>1, <1>4, <2>1, <4>1
    <3> QED
      BY <3>1, <3>2
  <2> QED
    BY <2>1, <2>2
<1> QED
  BY <1>5, <1>8, <1>12, <1>14, <1>17, <1>18

-----------------------------------------------------------------------------
(* Program points and the lock *)

\* How free takes the lock and where it goes, or that it left with an exception
LEMMA FreeMoves ==
    ASSUME NEW t, NEW blocks, FreeBlocks(t, blocks)
    PROVE  \/ /\ Goto(t, "freed") \/ Goto(t, "free_return")
              /\ AsyncSched => lock' = t
              /\ ~AsyncSched => lock' = lock
           \/ UNCHANGED <<pc, lock>> /\ "unmap" \in Failures
BY Zenon DEF FreeBlocks

LEMMA AbortMoves ==
    ASSUME TypeOK, NEW t \in Threads, Abort(t)
    PROVE  /\ pc'[t] = IF t = PostInit THEN "done" ELSE "idle"
           /\ \A u \in Threads : u # t => pc'[u] = pc[u] /\ got'[u] = got[u]
           /\ got'[t] = {} /\ dropped' = dropped \cup got[t] /\ call' = call
           /\ initDone' = (initDone \/ t = PostInit)
           /\ AsyncSched => lock' = Nobody
BY Types DEF Abort, Leave, Goto

\* The labels a step moves between, for the threads that do not move and the one that does
Moved(t, label) ==
    /\ pc'[t] = label /\ \A u \in Threads : u # t => pc'[u] = pc[u]

LEMMA Moves ==
    ASSUME TypeOK, NEW t \in Threads, NEW label, Goto(t, label)
    PROVE  Moved(t, label)
BY Types DEF Goto, Moved

\* Going to wait for a page, and being woken, change nothing but the label
LEMMA WaitMoves ==
    ASSUME TypeOK, NEW t \in Threads, AllocBlocks(t) \/ AllocUnblocks(t)
    PROVE  /\ pc[t] \in TakeLabels /\ \E label \in TakeLabels : Goto(t, label) /\ Moved(t, label)
           /\ UNCHANGED <<poolVars, pageVars, blockVars, limitVars, initVars, lock, call, need, got>>
BY Moves DEF AllocBlocks, AllocUnblocks, TakeLabels

LEMMA ShapeStep ==
    ASSUME IInv, [Next]_vars
    PROVE  LockShape'
<1> USE Types, ThreadsAssumption DEF IInv, AllocLabels, TakeLabels, ClientLabels, PostLabels, BodyLabels, Outside
<1>c. \A t \in Clients : t # PostInit /\ t \in Threads
  BY DEF Threads
<1>p. ASSUME NEW t \in Threads, NEW label, Moved(t, label),
             t \in Clients => label \in ClientLabels /\ (label \in BodyLabels => initDone'),
             t = PostInit => label \in PostLabels,
             initDone' <=> pc'[PostInit] = "done", initDone => initDone',
             AsyncSched => \/ lock' = lock /\ (label \in Outside \/ pc[t] \notin Outside)
                           \/ lock = Nobody /\ lock' = t
                           \/ pc[t] \notin Outside /\ label \in Outside
      PROVE  LockShape'
  <2>1. /\ \A u \in Clients : pc'[u] \in ClientLabels /\ (pc'[u] \in BodyLabels => initDone')
        /\ pc'[PostInit] \in PostLabels
    BY <1>p, <1>c DEF LockShape, Moved
  <2>2. ASSUME AsyncSched, NEW u \in Threads, pc'[u] \notin Outside PROVE lock' = u
    <3>1. CASE u = t
      BY <1>p, <2>2, <3>1 DEF LockShape, Moved
    <3>2. CASE u # t
      <4>1. pc[u] \notin Outside /\ lock = u
        BY <1>p, <2>2, <3>2 DEF LockShape, Moved
      <4>2. u # Nobody
        BY DEF Threads
      <4> QED
        BY <1>p, <2>2, <3>2, <4>1, <4>2 DEF LockShape
    <3> QED
      BY <3>1, <3>2
  <2> QED
    BY <1>p, <2>1, <2>2 DEF LockShape
<1>u. ASSUME UNCHANGED <<pc, lock, initDone>> PROVE LockShape'
  BY <1>u DEF LockShape
<1>1. ASSUME NEW t \in Threads, Abort(t), pc[t] \in AllocLabels PROVE LockShape'
  <2>1. Moved(t, IF t = PostInit THEN "done" ELSE "idle")
    BY <1>1, AbortMoves DEF Moved
  <2>2. initDone' <=> pc'[PostInit] = "done"
    BY <1>1, <2>1, AbortMoves DEF LockShape, Moved
  <2>3. CASE t = PostInit
    BY <1>1, <1>c, <1>p, <2>1, <2>2, <2>3, AbortMoves
  <2>4. CASE t # PostInit
    BY <1>1, <1>c, <1>p, <2>1, <2>2, <2>4, AbortMoves
  <2> QED
    BY <2>3, <2>4
<1>2. ASSUME NEW t \in Threads, Alloc(t) PROVE LockShape'
  <2>1. ASSUME UNCHANGED <<lock, initDone>>, NEW label, Moved(t, label),
               pc[t] \in AllocLabels, label \in {"alloc_check", "alloc_take"}, initDone \/ t = PostInit
        PROVE LockShape'
    BY <2>1, <1>c, <1>p DEF LockShape, Moved
  <2>2. CASE AllocPoll(t)
    <3>1. CASE Abort(t)
      BY <1>1, <2>2, <3>1 DEF AllocPoll
    <3>2. CASE ~Abort(t)
      <4>1. Goto(t, "alloc_check") /\ UNCHANGED <<lock, initDone>> /\ pc[t] = "alloc_wait" /\ (initDone \/ t = PostInit)
        BY <2>2, <3>2 DEF AllocPoll, initVars
      <4> QED
        BY <2>1, <4>1, Moves
    <3> QED
      BY <3>1, <3>2
  <2>3. CASE AllocCheck(t)
    <3>1. Goto(t, "alloc_take") /\ UNCHANGED <<lock, initDone>> /\ pc[t] = "alloc_check"
      BY <2>3 DEF AllocCheck, initVars
    <3>2. initDone \/ t = PostInit
      BY <3>1 DEF LockShape, Threads
    <3> QED
      BY <2>1, <3>1, <3>2, Moves
  <2>4. CASE AllocRefused(t) \/ AllocFetchFails(t)
    BY <1>1, <2>4 DEF AllocRefused, AllocFetchFails
  <2>5. CASE AllocFromPage(t) \/ AllocFetch(t)
    BY <1>u, <2>5 DEF AllocFromPage, AllocFetch, initVars
  <2> QED
    BY <1>2, <2>2, <2>3, <2>4, <2>5 DEF Alloc
<1>3. ASSUME NEW t \in Clients, Begin(t) PROVE LockShape'
  <2>1. CASE AllocEnter(t) \/ ReserveEnter(t) \/ ClearEnter(t)
    <3>1. /\ pc[t] = "idle" /\ (Goto(t, "alloc_wait") \/ Goto(t, "clear"))
          /\ UNCHANGED initDone /\ Enter(t)
      BY <2>1 DEF AllocEnter, ReserveEnter, ClearEnter, initVars
    <3>2. PICK label \in {"alloc_wait", "clear"} : Goto(t, label)
      BY <3>1
    <3> QED
      BY <1>c, <1>p, <3>1, <3>2, Moves DEF Enter, LockShape, Moved
  <2>2. CASE Free(t) \/ FreeReserved(t)
    <3>1. /\ pc[t] = "idle" /\ Unlocked /\ initDone /\ initDone' = initDone
          /\ \E blocks : FreeBlocks(t, blocks)
      BY <2>2 DEF Free, FreeReserved, initVars
    <3>2. CASE UNCHANGED <<pc, lock>>
      BY <1>u, <3>1, <3>2
    <3>3. CASE ~UNCHANGED <<pc, lock>>
      <4>1. PICK label \in {"freed", "free_return"} :
              Goto(t, label) /\ (AsyncSched => lock' = t)
        BY <3>1, <3>3, FreeMoves
      <4> QED
        BY <1>c, <1>p, <3>1, <4>1, Moves DEF Unlocked, LockShape, Moved
    <3> QED
      BY <3>2, <3>3
  <2>3. CASE Resize(t)
    BY <1>u, <2>3 DEF Resize, callVars, initVars
  <2> QED
    BY <1>3, <2>1, <2>2, <2>3 DEF Begin
<1>4. ASSUME NEW t \in Clients, Continue(t) PROVE LockShape'
  <2>1. CASE AllocReturn(t) \/ ShrinkRaises(t) \/ FreeReturn(t) \/ ClearFails(t)
    <3>1. pc[t] \in {"alloc_take", "freed", "free_return", "clear"} /\ Goto(t, "idle") /\ UNCHANGED initDone
      BY <2>1 DEF AllocReturn, ShrinkRaises, FreeReturn, ClearFails, initVars
    <3> QED
      BY <1>c, <1>p, <3>1, Moves DEF LockShape, Moved
  <2>2. CASE ShrinkCheck(t)
    <3>1. pc[t] = "freed" /\ Goto(t, "free_return") /\ UNCHANGED <<lock, initDone>>
      BY <2>2 DEF ShrinkCheck, initVars
    <3> QED
      BY <1>c, <1>p, <3>1, Moves DEF LockShape, Moved
  <2> QED
    BY <1>2, <1>c, <1>4, <2>1, <2>2 DEF Continue
<1>5. CASE PostInitStep
  <2>1. CASE TensorsCreated \/ CreationTimeout
    <3>1. PICK label \in {"null", "done"} :
            Goto(PostInit, label) /\ pc[PostInit] = "creating" /\ UNCHANGED lock /\ (initDone' <=> label = "done")
      BY <2>1 DEF TensorsCreated, CreationTimeout, initVars, LockShape
    <3> QED
      BY <1>c, <1>p, <3>1, Moves DEF LockShape, Moved
  <2>2. CASE NullEnter
    <3>1. Goto(PostInit, "alloc_wait") /\ pc[PostInit] = "null" /\ UNCHANGED initDone /\ Enter(PostInit)
      BY <2>2 DEF NullEnter, initVars
    <3> QED
      BY <1>c, <1>p, <3>1, Moves DEF LockShape, Moved, Enter
  <2>3. CASE NullReturn
    <3>1. Goto(PostInit, "done") /\ pc[PostInit] = "alloc_take" /\ initDone' /\ Leave
      BY <2>3 DEF NullReturn
    <3> QED
      BY <1>c, <1>p, <3>1, Moves DEF LockShape, Moved, Leave
  <2> QED
    BY <1>2, <1>5, <2>1, <2>2, <2>3 DEF PostInitStep
<1>w. CASE \E t \in Threads : AllocBlocks(t) \/ AllocUnblocks(t)
  <2>1. PICK t \in Threads : AllocBlocks(t) \/ AllocUnblocks(t)
    BY <1>w
  <2>2. PICK label \in TakeLabels : Moved(t, label)
    BY <2>1, WaitMoves
  <2>3. pc[t] \in TakeLabels /\ UNCHANGED <<lock, initDone>>
    BY <2>1, WaitMoves DEF initVars
  <2>4. (t \in Clients => initDone) /\ (initDone' <=> pc'[PostInit] = "done")
    BY <1>c, <2>2, <2>3 DEF LockShape, Moved, TakeLabels
  <2> QED
    BY <1>c, <1>p, <2>2, <2>3, <2>4 DEF TakeLabels
<1>6. CASE SetLimit \/ WatchLimit \/ UNCHANGED vars
  BY <1>u, <1>6 DEF SetLimit, WatchLimit, vars, callVars, initVars
<1> QED
  BY <1>3, <1>4, <1>5, <1>6, <1>w DEF Next

-----------------------------------------------------------------------------
(* Blocks *)

\* Who is returning reserved blocks
LEMMA ReturningIs ==
    ASSUME LockShape, NEW t \in Threads, pc[t] \in BodyLabels
    PROVE  returning <=> t \in Clients /\ pc[t] \in {"freed", "free_return"} /\ call[t] = "free_reserved"
BY Alone DEF returning, BodyLabels, Threads, TakeLabels

\* A step by t that is then not returning reserved blocks
LEMMA NotReturningNext ==
    ASSUME NEW t \in Threads,
           \A u \in Threads : u # t => pc'[u] = pc[u] /\ call'[u] = call[u],
           \A u \in Threads : u # t => pc[u] \notin {"freed", "free_return"},
           pc'[t] \notin {"freed", "free_return"} \/ call'[t] # "free_reserved"
    PROVE  ~returning'
BY DEF returning, Threads

\* What the blocks that are not free may do in one step
BlocksApart ==
    /\ allocated \cap (reservedBlocks \cup nullBlock) = {} /\ nullBlock \cap reservedBlocks = {}
    /\ \A t \in Threads : got[t] \cap (allocated \cup reservedBlocks \cup nullBlock) = {}

LEMMA Accounts ==
    BlocksAccounted <=>
        /\ taken \cup FreeSet = UNION {Blocks(p) : p \in held}
        /\ \A p \in Pages : freeBlocks[p] \subseteq Blocks(p) \ taken
        /\ BlocksApart
BY DEF BlocksAccounted, FreeSet, BlocksApart

LEMMA AccountsNext ==
    ASSUME taken' \cap FreeSet' = {}, taken' \cup FreeSet' = (UNION {Blocks(p) : p \in held})',
           \A p \in Pages : freeBlocks'[p] \subseteq Blocks(p), BlocksApart'
    PROVE  BlocksAccounted'
BY DEF BlocksAccounted, FreeSet, BlocksApart

\* A step that leaves pages alone and moves blocks among their holders only
LEMMA AccountsKept ==
    ASSUME BlocksAccounted, UNCHANGED <<freeBlocks, held>>, taken' = taken, BlocksApart'
    PROVE  BlocksAccounted'
BY DEF BlocksAccounted, BlocksApart

LEMMA TrackedKept ==
    ASSUME PagesTracked, UNCHANGED <<availPages, fullPages, freeBlocks, numAvail, held>>
    PROVE  PagesTracked'
BY DEF PagesTracked

\* Everything but the pages, after a step
Elsewhere == BlocksApart /\ DroppedApart /\ CallShape

Residence == <<reservedBlocks, nullBlock, allocated, dropped, got>>

\* A step that moves no block
LEMMA NothingMoves ==
    ASSUME IInv, UNCHANGED Residence, returning' = returning,
           \A t \in Threads : pc[t] \in TakeLabels => pc'[t] \in TakeLabels,
           pc[PostInit] = "done" => pc'[PostInit] = "done",
           ~Reserves => \A t \in Threads : call'[t] # "reserve"
    PROVE  Elsewhere' /\ taken' = taken
<1>1. BlocksApart' /\ DroppedApart' /\ taken' = taken
  BY DEF IInv, BlocksAccounted, BlocksApart, DroppedApart, taken, Residence
<1>2. CallShape'
  BY DEF IInv, CallShape, Residence, TakeLabels
<1> QED
  BY <1>1, <1>2 DEF Elsewhere

\* ... by a thread at t, between labels where it is returning no blocks
LEMMA QuietMove ==
    ASSUME IInv, NEW t \in Threads, NEW label, Moved(t, label), UNCHANGED Residence,
           pc[t] \notin TakeLabels \/ label \in TakeLabels, pc[t] # "done",
           label \notin {"freed", "free_return"}, pc[t] \notin {"freed", "free_return"},
           \A u \in Threads : u # t => call'[u] = call[u],
           call'[t] = call[t] \/ Reserves \/ call'[t] # "reserve"
    PROVE  Elsewhere' /\ taken' = taken
<1>1. returning' = returning
  <2>1. (\E u \in Clients : pc'[u] \in {"freed", "free_return"} /\ call'[u] = "free_reserved")
          <=> (\E u \in Clients : pc[u] \in {"freed", "free_return"} /\ call[u] = "free_reserved")
    BY DEF Moved, Threads
  <2> QED
    BY <2>1, Zenon DEF returning
<1>2. /\ \A u \in Threads : pc[u] \in TakeLabels => pc'[u] \in TakeLabels
      /\ pc[PostInit] = "done" => pc'[PostInit] = "done"
  BY Types DEF Moved, IInv
<1>3. ~Reserves => \A u \in Threads : call'[u] # "reserve"
  BY DEF IInv, CallShape, TakeLabels
<1> QED
  BY <1>1, <1>2, <1>3, NothingMoves

\* An exception drops what the call had collected
LEMMA AbortDrops ==
    ASSUME IInv, NEW t \in Threads, Abort(t), pc[t] \in AllocLabels,
           UNCHANGED <<reservedBlocks, nullBlock, allocated>>
    PROVE  Elsewhere' /\ taken' = taken
<1>1. /\ pc'[t] \in {"done", "idle"} /\ (t = PostInit => pc'[t] = "done")
      /\ \A u \in Threads : u # t => pc'[u] = pc[u] /\ got'[u] = got[u]
      /\ got'[t] = {} /\ dropped' = dropped \cup got[t] /\ call' = call
  BY AbortMoves DEF IInv
<1>2. returning' = returning
  <2>1. (\E u \in Clients : pc'[u] \in {"freed", "free_return"} /\ call'[u] = "free_reserved")
          <=> (\E u \in Clients : pc[u] \in {"freed", "free_return"} /\ call[u] = "free_reserved")
    BY <1>1 DEF Threads, AllocLabels, TakeLabels
  <2> QED
    BY <2>1, Zenon DEF returning
<1>3. taken' = taken
  BY <1>1, <1>2, TakenIs, TakenIsNext
<1>4. \A u \in Threads : u # t => got[u] \cap got[t] = {}
  BY Alone DEF IInv, CallShape, BodyLabels, TakeLabels
<1>5. BlocksApart' /\ DroppedApart'
  BY <1>1, <1>4 DEF IInv, BlocksAccounted, BlocksApart, DroppedApart
<1>6. CallShape'
  BY <1>1, Types DEF IInv, CallShape, TakeLabels
<1> QED
  BY <1>3, <1>5, <1>6 DEF Elsewhere

LEMMA CheckReserves ==
    ASSUME IInv, NEW t \in Threads, AllocCheck(t)
    PROVE  Elsewhere' /\ taken' = taken
<1> USE Types DEF IInv
<1>1. PICK blocks \in SUBSET reservedBlocks :
        reservedBlocks' = reservedBlocks \ blocks /\ got' = [got EXCEPT ![t] = blocks]
  BY DEF AllocCheck
<1>2. /\ pc[t] = "alloc_check" /\ Moved(t, "alloc_take") /\ got[t] = {} /\ call' = call
      /\ UNCHANGED <<nullBlock, allocated, dropped>>
  BY Moves DEF AllocCheck, CallShape, TakeLabels
<1>3. got'[t] = blocks /\ \A u \in Threads : u # t => got'[u] = got[u] /\ got[u] = {}
  BY <1>1, <1>2, Alone DEF BodyLabels, CallShape, TakeLabels
<1>4. ~returning /\ ~returning'
  <2>1. ~returning
    BY <1>2, ReturningIs DEF BodyLabels, TakeLabels
  <2>2. \A u \in Threads : u # t => pc[u] \notin {"freed", "free_return"}
    BY <1>2, Alone DEF BodyLabels, TakeLabels
  <2>3. ~returning'
    BY <1>2, <2>2, NotReturningNext DEF Moved
  <2> QED
    BY <2>1, <2>3
<1>5. taken' = taken
  BY <1>1, <1>2, <1>3, <1>4, TakenIs, TakenIsNext
<1>6. BlocksApart' /\ DroppedApart'
  BY <1>1, <1>2, <1>3 DEF BlocksAccounted, BlocksApart, DroppedApart
<1>7. CallShape'
  BY <1>1, <1>2, <1>3 DEF CallShape, Moved, TakeLabels
<1> QED
  BY <1>5, <1>6, <1>7 DEF Elsewhere

LEMMA DrawCollects ==
    ASSUME IInv, NEW t \in Threads, NEW p, NEW list, NEW blocks, DrawStep(t, p, list, blocks)
    PROVE  Elsewhere' /\ taken' = taken \cup blocks
<1> USE Types DEF IInv
<1>1. /\ pc[t] = "alloc_take" /\ UNCHANGED <<reservedBlocks, nullBlock, allocated, dropped, pc, call>>
      /\ got' = [got EXCEPT ![t] = @ \cup blocks]
  BY DEF DrawStep, Draw, blockVars
<1>2. blocks \cap taken = {}
  BY DrawKeeps
<1>3. ~returning /\ returning' = returning
  BY <1>1, ReturningIs DEF BodyLabels, returning, TakeLabels
<1>4. got'[t] = got[t] \cup blocks /\ \A u \in Threads : u # t => got'[u] = got[u]
  BY <1>1
<1>5. taken' = taken \cup blocks
  BY <1>1, <1>3, <1>4, TakenIs, TakenIsNext
<1>6. \A b \in blocks : b \notin allocated /\ b \notin reservedBlocks /\ b \notin nullBlock /\ b \notin dropped
  BY <1>2, <1>3, TakenIs
<1>7. BlocksApart' /\ DroppedApart'
  BY <1>1, <1>4, <1>6 DEF BlocksAccounted, BlocksApart, DroppedApart
<1>8. CallShape'
  BY <1>1, <1>4 DEF CallShape, TakeLabels
<1> QED
  BY <1>5, <1>7, <1>8 DEF Elsewhere

\* _alloc hands over what it collected: to the client, to the reserved list, or
\* as the null block
LEMMA ReturnHandsOver ==
    ASSUME IInv, NEW t \in Threads, NEW label, Moved(t, label), pc[t] = "alloc_take",
           label \notin {"freed", "free_return"}, t = PostInit => label = "done",
           UNCHANGED <<dropped, call>>, got' = [got EXCEPT ![t] = {}],
           \/ allocated' = allocated \cup got[t] /\ UNCHANGED <<reservedBlocks, nullBlock>>
           \/ reservedBlocks' = reservedBlocks \cup got[t] /\ Reserves /\ UNCHANGED <<allocated, nullBlock>>
           \/ nullBlock' = got[t] /\ t = PostInit /\ UNCHANGED <<allocated, reservedBlocks>>
    PROVE  Elsewhere' /\ taken' = taken
<1> USE Types DEF IInv
<1>1. got'[t] = {} /\ \A u \in Threads : u # t => got'[u] = got[u] /\ got[u] = {}
  BY Alone DEF BodyLabels, CallShape, TakeLabels
<1>2. ~returning /\ ~returning'
  <2>1. ~returning
    BY ReturningIs DEF BodyLabels, TakeLabels
  <2>2. \A u \in Threads : u # t => pc[u] \notin {"freed", "free_return"}
    BY Alone DEF BodyLabels, TakeLabels
  <2>3. ~returning'
    BY <2>2, NotReturningNext DEF Moved
  <2> QED
    BY <2>1, <2>3
<1>3. t = PostInit => nullBlock = {}
  BY DEF CallShape, TakeLabels
<1>4. taken' = taken
  BY <1>1, <1>2, <1>3, TakenIs, TakenIsNext
<1>5. /\ got[t] \cap (allocated \cup reservedBlocks \cup nullBlock \cup dropped) = {}
      /\ allocated \cap (reservedBlocks \cup nullBlock) = {} /\ nullBlock \cap reservedBlocks = {}
      /\ dropped \cap (allocated \cup reservedBlocks \cup nullBlock) = {}
  BY DEF BlocksAccounted, DroppedApart
<1>6. BlocksApart' /\ DroppedApart'
  <2>1. /\ allocated' \cap (reservedBlocks' \cup nullBlock') = {} /\ nullBlock' \cap reservedBlocks' = {}
        /\ dropped' \cap (allocated' \cup reservedBlocks' \cup nullBlock') = {}
    BY <1>3, <1>5
  <2>2. \A u \in Threads : got'[u] = {}
    BY <1>1
  <2> QED
    BY <2>1, <2>2 DEF BlocksApart, DroppedApart
<1>7. CallShape'
  <2>1. \A u \in Threads : got'[u] = {}
    BY <1>1
  <2>2. nullBlock' # {} => pc'[PostInit] = "done"
    BY DEF CallShape, Moved, TakeLabels
  <2> QED
    BY <2>1, <2>2 DEF CallShape, TakeLabels
<1> QED
  BY <1>4, <1>6, <1>7 DEF Elsewhere

\* free ends; what free_reserved returned is listed as reserved until now
LEMMA FreeEnds ==
    ASSUME IInv, NEW t \in Clients, Moved(t, "idle"), pc[t] \in {"freed", "free_return"},
           UNCHANGED <<nullBlock, allocated, dropped, call, got>>,
           \/ reservedBlocks' = IF call[t] = "free_reserved" THEN {} ELSE reservedBlocks
           \/ reservedBlocks' = {} /\ reservedBlocks = {}
    PROVE  Elsewhere' /\ taken' = taken
<1> USE Types DEF IInv
<1>1. t \in Threads /\ pc[t] \in BodyLabels
  BY DEF BodyLabels, TakeLabels
<1>2. returning <=> call[t] = "free_reserved"
  BY <1>1, ReturningIs
<1>3. ~returning'
  <2>1. \A u \in Threads : u # t => pc[u] \notin {"freed", "free_return"}
    BY <1>1, Alone DEF BodyLabels, TakeLabels
  <2> QED
    BY <1>1, <2>1, NotReturningNext DEF Moved
<1>4. taken' = taken
  BY <1>2, <1>3, TakenIs, TakenIsNext
<1>5. reservedBlocks' \subseteq reservedBlocks
  OBVIOUS
<1>6. BlocksApart' /\ DroppedApart'
  BY <1>5 DEF BlocksAccounted, BlocksApart, DroppedApart
<1>7. CallShape'
  <2>1. \A u \in Threads : pc'[u] \notin TakeLabels => got'[u] = {}
    BY <1>1 DEF CallShape, Moved, TakeLabels
  <2>2. nullBlock' # {} => pc'[PostInit] = "done"
    BY <1>1 DEF CallShape, Moved, TakeLabels
  <2> QED
    BY <1>5, <2>1, <2>2 DEF CallShape, TakeLabels
<1> QED
  BY <1>4, <1>6, <1>7 DEF Elsewhere

\* The blocks of free and free_reserved leave their holder
LEMMA FreeGivesUp ==
    ASSUME IInv, UnmapSucceeds, NEW t \in Clients, Free(t) \/ FreeReserved(t)
    PROVE  \E blocks \in SUBSET taken :
             FreeBlocks(t, blocks) /\ taken' = taken \ blocks /\ Elsewhere'
<1> USE Types DEF IInv
<1>1. /\ pc[t] = "idle" /\ Unlocked /\ initDone /\ t \in Threads
      /\ \A u \in Threads : pc[u] \notin BodyLabels
  BY AloneUnlocked DEF Free, FreeReserved
<1>2. /\ \A u \in Threads : got[u] = {}
      /\ ~returning
  BY <1>1 DEF CallShape, BodyLabels, returning, TakeLabels
<1>3. ASSUME NEW blocks, FreeBlocks(t, blocks)
      PROVE  \/ pc' = pc /\ "unmap" \in Failures
             \/ \E label \in {"freed", "free_return"} : Moved(t, label)
  <2>1. CASE Goto(t, "freed") \/ Goto(t, "free_return")
    BY <1>1, <2>1, Moves
  <2> QED
    BY <1>3, <2>1, FreeMoves
<1>4. ASSUME NEW blocks, FreeBlocks(t, blocks), UNCHANGED <<nullBlock, got>>, NEW name,
             call' = [call EXCEPT ![t] = name], name # "reserve", reservedBlocks' \subseteq reservedBlocks
      PROVE  /\ CallShape'
             /\ name # "free_reserved" => ~returning'
             /\ name = "free_reserved" /\ "unmap" \notin Failures => returning'
  <2>1. call'[t] = name /\ \A u \in Threads : u # t => call'[u] = call[u]
    BY <1>1, <1>4
  <2>2. PICK label : Moved(t, label) /\ (label \in {"freed", "free_return"} \/ (label = "idle" /\ "unmap" \in Failures))
    <3>1. CASE pc' = pc /\ "unmap" \in Failures
      BY <1>1, <3>1 DEF Moved
    <3> QED
      BY <1>3, <1>4, <3>1
  <2>3. CallShape'
    <3>1. nullBlock' # {} => pc'[PostInit] = "done"
      BY <1>4, <2>2, ThreadsAssumption DEF CallShape, Moved, Threads, TakeLabels
    <3> QED
      BY <1>2, <1>4, <2>1, <3>1 DEF CallShape, TakeLabels
  <2>4. name # "free_reserved" => ~returning'
    <3>1. \A u \in Threads : u # t => pc'[u] = pc[u] /\ pc[u] \notin {"freed", "free_return"}
      BY <1>1, <2>2 DEF Moved, BodyLabels, TakeLabels
    <3> QED
      BY <1>1, <2>1, <3>1, NotReturningNext
  <2>5. name = "free_reserved" /\ "unmap" \notin Failures => returning'
    BY <2>1, <2>2 DEF returning, Moved
  <2> QED
    BY <2>3, <2>4, <2>5
<1>5. CASE Free(t)
  <2>1. PICK blocks \in SUBSET allocated : FreeBlocks(t, blocks) /\ allocated' = allocated \ blocks
    BY <1>5 DEF Free
  <2>2. call' = [call EXCEPT ![t] = "free"] /\ UNCHANGED <<reservedBlocks, nullBlock, dropped, got>>
    BY <1>5 DEF Free
  <2>3. CallShape' /\ ~returning'
    <3>1. FreeBlocks(t, blocks) /\ UNCHANGED <<nullBlock, got>> /\ reservedBlocks' \subseteq reservedBlocks
      BY <2>1, <2>2
    <3> QED
      <4>1. CallShape'
        BY <1>4, <2>2, <3>1
      <4>2. "free" # "free_reserved" => ~returning'
        BY <1>4, <2>2, <3>1
      <4> QED
        BY <4>1, <4>2
  <2>4. blocks \subseteq taken
    BY <2>1, TakenIs
  <2>5. taken' = taken \ blocks
    <3>1. \A b \in blocks : b \notin reservedBlocks /\ b \notin nullBlock /\ b \notin dropped
      BY <2>1 DEF BlocksAccounted, DroppedApart
    <3> QED
      BY <1>2, <2>1, <2>2, <2>3, <3>1, TakenIs, TakenIsNext
  <2>6. BlocksApart' /\ DroppedApart'
    BY <2>1, <2>2 DEF BlocksAccounted, BlocksApart, DroppedApart
  <2> QED
    BY <2>1, <2>3, <2>4, <2>5, <2>6 DEF Elsewhere
<1>6. CASE FreeReserved(t)
  <2>1. /\ FreeBlocks(t, reservedBlocks) /\ reservedBlocks # {} /\ call' = [call EXCEPT ![t] = "free_reserved"]
        /\ UNCHANGED <<reservedBlocks, nullBlock, allocated, dropped, got>>
    BY <1>6 DEF FreeReserved, blockVars
  <2>2. "unmap" \notin Failures
    BY <2>1 DEF UnmapSucceeds, CallShape, TakeLabels
  <2>3. CallShape' /\ returning'
    BY <1>4, <2>1, <2>2
  <2>4. reservedBlocks \subseteq taken
    BY <1>2, TakenIs
  <2>5. taken' = taken \ reservedBlocks
    <3>1. \A b \in reservedBlocks : b \notin allocated /\ b \notin nullBlock /\ b \notin dropped
      BY DEF BlocksAccounted, DroppedApart
    <3> QED
      BY <1>2, <2>1, <2>3, <3>1, TakenIs, TakenIsNext
  <2>6. BlocksApart' /\ DroppedApart'
    BY <2>1 DEF BlocksAccounted, BlocksApart, DroppedApart
  <2> QED
    BY <2>1, <2>3, <2>4, <2>5, <2>6 DEF Elsewhere
<1> QED
  BY <1>5, <1>6

PageTypes ==
    /\ availPages \subseteq Pages /\ fullPages \subseteq Pages
    /\ freeBlocks \in [Pages -> SUBSET AllBlocks]

LEMMA AccountStep ==
    ASSUME IInv, UnmapSucceeds, [Next]_vars
    PROVE  PagesTracked' /\ BlocksAccounted' /\ Elsewhere' /\ PageTypes'
<1> DEFINE Goal == PagesTracked' /\ BlocksAccounted' /\ Elsewhere' /\ PageTypes'
<1> USE Types DEF IInv
<1>0. \A t \in Clients : t \in Threads /\ t # PostInit /\ pc[t] \in ClientLabels
  BY ThreadsAssumption DEF Threads, LockShape
<1>k. ASSUME UNCHANGED <<pageVars, held>>, Elsewhere' /\ taken' = taken PROVE Goal
  <2>1. PagesTracked' /\ PageTypes'
    BY <1>k, TrackedKept DEF pageVars, PageTypes
  <2>2. BlocksAccounted'
    BY <1>k, AccountsKept DEF pageVars, Elsewhere
  <2> QED
    BY <1>k, <2>1, <2>2
<1>r. ASSUME NEW n, NEW ok, PoolResize(n, ok) PROVE held' = held
  BY <1>r DEF PoolResize, Pool!Raise, Pool!Lower, poolVars
<1>s. ASSUME NEW mem, ResizeDone(mem) \/ ResizeStarts(mem) \/ ResizeRaises(mem) PROVE held' = held
  BY <1>s, <1>r DEF ResizeDone, ResizeStarts, ResizeRaises, poolVars
<1>1. ASSUME NEW t \in Threads, Alloc(t) PROVE Goal
  <2>1. CASE AllocPoll(t)
    <3>1. pc[t] = "alloc_wait" /\ UNCHANGED <<pageVars, reservedBlocks, nullBlock, allocated>>
      BY <2>1 DEF AllocPoll
    <3>2. held' = held
      BY <2>1, <1>s DEF AllocPoll, poolVars
    <3>3. Elsewhere' /\ taken' = taken
      <4>1. CASE Abort(t)
        BY <3>1, <4>1, AbortDrops DEF AllocLabels, TakeLabels
      <4>2. CASE ~Abort(t)
        <5>1. Goto(t, "alloc_check") /\ UNCHANGED <<dropped, got, call>>
          BY <2>1, <4>2 DEF AllocPoll
        <5> QED
          BY <3>1, <5>1, Moves, QuietMove DEF Residence, TakeLabels
      <4> QED
        BY <4>1, <4>2
    <3> QED
      BY <1>k, <3>1, <3>2, <3>3
  <2>2. CASE AllocCheck(t)
    BY <1>k, <2>2, CheckReserves DEF AllocCheck, poolVars
  <2>3. CASE AllocRefused(t) \/ AllocFetchFails(t)
    BY <1>k, <2>3, AbortDrops DEF AllocRefused, AllocFetchFails, poolVars, AllocLabels, TakeLabels
  <2>4. CASE AllocFromPage(t) \/ AllocFetch(t)
    <3>1. PICK p, list, blocks : DrawStep(t, p, list, blocks)
      BY <2>4, AllocDraws
    <3>2. Elsewhere' /\ taken' = taken \cup blocks
      BY <3>1, DrawCollects
    <3>3. PagesTracked' /\ PageTypes' /\ BlocksAccounted'
      BY <3>1, <3>2, DrawKeeps, AccountsNext DEF Elsewhere, PageTypes
    <3> QED
      BY <3>2, <3>3
  <2> QED
    BY <1>1, <2>1, <2>2, <2>3, <2>4 DEF Alloc
<1>2. ASSUME NEW t \in Clients, Begin(t) PROVE Goal
  <2>1. CASE AllocEnter(t) \/ ReserveEnter(t) \/ ClearEnter(t)
    <3>1. /\ pc[t] = "idle" /\ (Goto(t, "alloc_wait") \/ Goto(t, "clear")) /\ UNCHANGED <<pageVars, poolVars, Residence>>
      BY <2>1 DEF AllocEnter, ReserveEnter, ClearEnter, blockVars, Residence
    <3>2. /\ \A u \in Threads : u # t => call'[u] = call[u]
          /\ call'[t] = call[t] \/ Reserves \/ call'[t] # "reserve"
      BY <1>0, <2>1 DEF AllocEnter, ReserveEnter, ClearEnter
    <3>3. PICK label \in {"alloc_wait", "clear"} : Moved(t, label)
      BY <1>0, <3>1, Moves
    <3>4. Elsewhere' /\ taken' = taken
      BY <1>0, <3>1, <3>2, <3>3, QuietMove DEF TakeLabels
    <3> QED
      BY <1>k, <3>1, <3>4 DEF poolVars
  <2>2. CASE Free(t) \/ FreeReserved(t)
    <3>1. PICK blocks \in SUBSET taken : FreeBlocks(t, blocks) /\ taken' = taken \ blocks /\ Elsewhere'
      BY <2>2, FreeGivesUp
    <3>2. PICK emptied : FreeStep(blocks, emptied)
      BY <3>1, Frees
    <3>3. PagesTracked' /\ PageTypes' /\ BlocksAccounted'
      BY <3>1, <3>2, FreeKeeps, AccountsNext DEF Elsewhere, PageTypes
    <3> QED
      BY <3>1, <3>3
  <2>3. CASE Resize(t)
    <3>1. held' = held /\ UNCHANGED <<pageVars, Residence, pc, call>>
      BY <2>3, <1>s DEF Resize, blockVars, callVars, Residence
    <3>2. returning' = returning
      BY <3>1 DEF returning
    <3>3. Elsewhere' /\ taken' = taken
      BY <3>1, <3>2, NothingMoves DEF CallShape, TakeLabels
    <3> QED
      BY <1>k, <3>1, <3>3
  <2> QED
    BY <1>2, <2>1, <2>2, <2>3 DEF Begin
<1>3. ASSUME NEW t \in Clients, Continue(t) PROVE Goal
  <2>1. CASE AllocReturn(t)
    <3>1. /\ pc[t] = "alloc_take" /\ Goto(t, "idle") /\ got' = [got EXCEPT ![t] = {}]
          /\ UNCHANGED <<poolVars, pageVars, nullBlock, dropped, call>>
          /\ IF call[t] = "reserve"
               THEN reservedBlocks' = reservedBlocks \cup got[t] /\ UNCHANGED allocated
               ELSE allocated' = allocated \cup got[t] /\ UNCHANGED reservedBlocks
      BY <2>1 DEF AllocReturn
    <3>2. call[t] = "reserve" => Reserves
      BY <1>0 DEF CallShape, TakeLabels
    <3>3. Elsewhere' /\ taken' = taken
      BY <1>0, <3>1, <3>2, Moves, ReturnHandsOver
    <3> QED
      BY <1>k, <3>1, <3>3 DEF poolVars
  <2>2. CASE ShrinkCheck(t)
    <3>1. /\ held' = held /\ UNCHANGED <<pageVars, Residence, call>> /\ pc[t] = "freed" /\ Moved(t, "free_return")
      <4>1. held' = held
        BY <2>2, <1>r DEF ShrinkCheck, poolVars
      <4>2. UNCHANGED <<pageVars, Residence, call>> /\ pc[t] = "freed" /\ Goto(t, "free_return")
        BY <2>2 DEF ShrinkCheck, blockVars, Residence
      <4> QED
        BY <1>0, <4>1, <4>2, Moves
    <3>2. returning' = returning
      <4>1. (\E u \in Clients : pc'[u] \in {"freed", "free_return"} /\ call'[u] = "free_reserved")
              <=> (\E u \in Clients : pc[u] \in {"freed", "free_return"} /\ call[u] = "free_reserved")
        BY <1>0, <3>1 DEF Moved
      <4> QED
        BY <4>1, Zenon DEF returning
    <3>3. Elsewhere' /\ taken' = taken
      BY <1>0, <3>1, <3>2, NothingMoves DEF Moved, CallShape, TakeLabels
    <3> QED
      BY <1>k, <3>1, <3>3
  <2>3. CASE ShrinkRaises(t) \/ FreeReturn(t)
    <3>1. /\ pc[t] \in {"freed", "free_return"} /\ Goto(t, "idle")
          /\ UNCHANGED <<poolVars, pageVars, nullBlock, allocated, dropped, call, got>>
      BY <2>3 DEF ShrinkRaises, FreeReturn, blockVars
    <3>2. \/ reservedBlocks' = IF call[t] = "free_reserved" THEN {} ELSE reservedBlocks
          \/ reservedBlocks' = {} /\ reservedBlocks = {}
      <4>1. CASE FreeReturn(t)
        BY <4>1 DEF FreeReturn
      <4>2. CASE ShrinkRaises(t)
        <5>1. reservedBlocks' = reservedBlocks /\ "unmap" \in Failures
          BY <4>2 DEF ShrinkRaises, blockVars
        <5> QED
          BY <5>1 DEF UnmapSucceeds, CallShape, TakeLabels
      <4> QED
        BY <2>3, <4>1, <4>2
    <3>3. Elsewhere' /\ taken' = taken
      BY <1>0, <3>1, <3>2, Moves, FreeEnds
    <3> QED
      BY <1>k, <3>1, <3>3 DEF poolVars
  <2>4. CASE ClearFails(t)
    <3>1. pc[t] = "clear" /\ Goto(t, "idle") /\ UNCHANGED <<poolVars, pageVars, Residence, call>>
      BY <2>4 DEF ClearFails, blockVars, Residence
    <3>2. Elsewhere' /\ taken' = taken
      BY <1>0, <3>1, Moves, QuietMove DEF TakeLabels
    <3> QED
      BY <1>k, <3>1, <3>2 DEF poolVars
  <2> QED
    BY <1>0, <1>1, <1>3, <2>1, <2>2, <2>3, <2>4 DEF Continue
<1>4. CASE PostInitStep
  <2>1. CASE TensorsCreated \/ CreationTimeout \/ NullEnter
    <3>1. /\ pc[PostInit] \in {"creating", "null"}
          /\ Goto(PostInit, "null") \/ Goto(PostInit, "done") \/ Goto(PostInit, "alloc_wait")
          /\ UNCHANGED <<poolVars, pageVars, Residence, call>>
      BY <2>1 DEF TensorsCreated, CreationTimeout, NullEnter, blockVars, Residence
    <3>2. PICK label \in {"null", "done", "alloc_wait"} : Moved(PostInit, label)
      BY <3>1, Moves
    <3>3. Elsewhere' /\ taken' = taken
      BY <3>1, <3>2, QuietMove DEF TakeLabels
    <3> QED
      BY <1>k, <3>1, <3>3 DEF poolVars
  <2>2. CASE NullReturn
    <3>1. /\ pc[PostInit] = "alloc_take" /\ Goto(PostInit, "done") /\ got' = [got EXCEPT ![PostInit] = {}]
          /\ nullBlock' = got[PostInit]
          /\ UNCHANGED <<poolVars, pageVars, reservedBlocks, allocated, dropped, call>>
      BY <2>2 DEF NullReturn
    <3>2. Elsewhere' /\ taken' = taken
      BY <3>1, Moves, ReturnHandsOver
    <3> QED
      BY <1>k, <3>1, <3>2 DEF poolVars
  <2> QED
    BY <1>1, <1>4, <2>1, <2>2 DEF PostInitStep
<1>w. CASE \E t \in Threads : AllocBlocks(t) \/ AllocUnblocks(t)
  <2>1. PICK t \in Threads : AllocBlocks(t) \/ AllocUnblocks(t)
    BY <1>w
  <2>2. PICK label \in TakeLabels : Moved(t, label)
    BY <2>1, WaitMoves
  <2>3. pc[t] \in TakeLabels /\ UNCHANGED <<Residence, call, held, pageVars>>
    BY <2>1, WaitMoves DEF Residence, blockVars, poolVars
  <2>4. Elsewhere' /\ taken' = taken
    BY <2>2, <2>3, QuietMove DEF TakeLabels
  <2> QED
    BY <1>k, <2>3, <2>4
<1>5. CASE SetLimit \/ WatchLimit \/ UNCHANGED vars
  <2>1. UNCHANGED <<poolVars, pageVars, Residence, pc, call>>
    BY <1>5 DEF SetLimit, WatchLimit, vars, blockVars, callVars, Residence
  <2>2. returning' = returning
    BY <2>1 DEF returning
  <2>3. Elsewhere' /\ taken' = taken
    BY <2>1, <2>2, NothingMoves DEF CallShape, TakeLabels
  <2> QED
    BY <1>k, <2>1, <2>3 DEF poolVars
<1> QED
  BY <1>2, <1>3, <1>4, <1>5, <1>w DEF Next

-----------------------------------------------------------------------------
(* Types *)

LimitTypes ==
    /\ inShrink \in BOOLEAN /\ targetBlocks \in Nat
    /\ shmLimit \in Nat /\ resizeTarget \in Nat
    /\ preallocStarted \in BOOLEAN /\ initDone \in BOOLEAN

CallTypes ==
    /\ lock \in Threads \cup {Nobody}
    /\ pc \in [Threads -> AllLabels]
    /\ call \in [Threads -> {"alloc", "reserve", "free", "free_reserved"}]

BlockTypes ==
    /\ reservedBlocks \subseteq AllBlocks /\ nullBlock \subseteq AllBlocks
    /\ allocated \subseteq AllBlocks /\ dropped \subseteq AllBlocks
    /\ got \in [Threads -> SUBSET AllBlocks]

NeedTypes == need \in [Threads -> 0 .. MaxNeed]

LEMMA TypeParts ==
    TypeOK <=> /\ available \subseteq Pages /\ held \subseteq Pages /\ withdrawn \subseteq Pages
               /\ freeCount \in Int /\ limit \in Int
               /\ PageTypes /\ numAvail \in Nat /\ LimitTypes /\ CallTypes /\ BlockTypes /\ NeedTypes
<1>1. AllLabels = {"creating", "null", "done", "idle", "alloc_wait", "alloc_check",
                   "alloc_take", "alloc_blocked", "freed", "free_return", "clear"}
  BY DEF AllLabels, ClientLabels, PostLabels, AllocLabels, TakeLabels
<1> QED
  BY <1>1 DEF TypeOK, PageTypes, LimitTypes, CallTypes, BlockTypes, NeedTypes

LEMMA TypePartsNext ==
    ASSUME available' \subseteq Pages, held' \subseteq Pages, withdrawn' \subseteq Pages,
           freeCount' \in Int, limit' \in Int, PageTypes', numAvail' \in Nat,
           LimitTypes', CallTypes', BlockTypes', NeedTypes'
    PROVE  TypeOK'
<1>1. AllLabels = {"creating", "null", "done", "idle", "alloc_wait", "alloc_check",
                   "alloc_take", "alloc_blocked", "freed", "free_return", "clear"}
  BY DEF AllLabels, ClientLabels, PostLabels, AllocLabels, TakeLabels
<1> QED
  BY <1>1 DEF TypeOK, PageTypes, LimitTypes, CallTypes, BlockTypes, NeedTypes

LEMMA LimitTypeStep ==
    ASSUME TypeOK, [Next]_vars
    PROVE  LimitTypes'
<1> USE Types DEF LimitTypes
<1>0. LimitTypes
  BY TypeParts
<1>1. ASSUME NEW mem \in Nat, ResizeDone(mem) \/ ResizeStarts(mem) \/ ResizeRaises(mem)
      PROVE  inShrink' \in BOOLEAN /\ targetBlocks' \in Nat
  <2>1. mem \div BlockSize \in Nat
    BY Numbers, Division
  <2> QED
    <3>1. targetBlocks' \in {0, targetBlocks, mem \div BlockSize}
      BY <1>1 DEF ResizeDone, ResizeStarts, ResizeRaises
    <3>2. inShrink' = TRUE \/ inShrink' = FALSE \/ inShrink' = inShrink
      BY <1>1, Zenon DEF ResizeDone, ResizeStarts, ResizeRaises
    <3>3. inShrink' \in BOOLEAN
      BY <1>0, <3>2, Zenon
    <3> QED
      BY <1>0, <2>1, <3>1, <3>3
<1>2. ASSUME NEW t \in Threads, Alloc(t) PROVE LimitTypes'
  <2>1. CASE AllocPoll(t)
    <3>1. inShrink' \in BOOLEAN /\ targetBlocks' \in Nat
      BY <1>0, <1>1, <2>1 DEF AllocPoll
    <3>2. initDone' \in BOOLEAN /\ preallocStarted' \in BOOLEAN
      BY <1>0, <2>1 DEF AllocPoll, Abort, initVars
    <3> QED
      BY <1>0, <2>1, <3>1, <3>2 DEF AllocPoll
  <2>2. CASE AllocCheck(t) \/ AllocRefused(t) \/ AllocFromPage(t) \/ AllocFetch(t) \/ AllocFetchFails(t)
    BY <1>0, <2>2 DEF AllocCheck, AllocRefused, AllocFromPage, AllocFetch, AllocFetchFails, Abort, limitVars, initVars
  <2> QED
    BY <1>2, <2>1, <2>2 DEF Alloc
<1>3. ASSUME NEW t \in Clients, Begin(t) PROVE LimitTypes'
  <2>1. CASE Resize(t)
    <3>1. PICK mem \in DirectLimits : ResizeDone(mem) \/ ResizeStarts(mem)
      BY <2>1 DEF Resize
    <3>2. inShrink' \in BOOLEAN /\ targetBlocks' \in Nat
      BY <1>1, <3>1, Numbers
    <3> QED
      BY <1>0, <2>1, <3>2 DEF Resize, initVars
  <2>2. CASE AllocEnter(t) \/ ReserveEnter(t) \/ ClearEnter(t) \/ Free(t) \/ FreeReserved(t)
    BY <1>0, <2>2 DEF AllocEnter, ReserveEnter, ClearEnter, Free, FreeReserved, limitVars, initVars
  <2> QED
    BY <1>3, <2>1, <2>2 DEF Begin
<1>4. ASSUME NEW t \in Clients, Continue(t) PROVE LimitTypes'
  <2>1. CASE AllocReturn(t)
    <3>1. preallocStarted' \in BOOLEAN
      BY <2>1, Zenon DEF AllocReturn
    <3> QED
      BY <1>0, <2>1, <3>1 DEF AllocReturn, limitVars, initVars
  <2>2. CASE ShrinkCheck(t)
    <3>1. inShrink' = FALSE \/ inShrink' = inShrink
      BY <2>2, Zenon DEF ShrinkCheck
    <3>2. inShrink' \in BOOLEAN
      BY <1>0, <3>1, Zenon
    <3> QED
      BY <1>0, <2>2, <3>2 DEF ShrinkCheck, initVars
  <2>3. CASE ShrinkRaises(t) \/ FreeReturn(t) \/ ClearFails(t)
    BY <1>0, <2>3 DEF ShrinkRaises, FreeReturn, ClearFails, limitVars, initVars
  <2> QED
    BY <1>2, <1>4, <2>1, <2>2, <2>3 DEF Continue
<1>5. CASE PostInitStep
  <2>1. CASE TensorsCreated \/ CreationTimeout \/ NullEnter \/ NullReturn
    BY <1>0, <2>1 DEF TensorsCreated, CreationTimeout, NullEnter, NullReturn, limitVars, initVars
  <2> QED
    BY <1>2, <1>5, <2>1 DEF PostInitStep
<1>w. CASE \E t \in Threads : AllocBlocks(t) \/ AllocUnblocks(t)
  BY <1>0, <1>w DEF AllocBlocks, AllocUnblocks, limitVars, initVars
<1>6. CASE SetLimit \/ WatchLimit \/ UNCHANGED vars
  BY <1>0, <1>6, Numbers DEF SetLimit, WatchLimit, watched, vars, limitVars, initVars
<1> QED
  BY <1>3, <1>4, <1>5, <1>6, <1>w DEF Next

LEMMA CallTypeStep ==
    ASSUME TypeOK, [Next]_vars
    PROVE  CallTypes'
<1> USE Types DEF CallTypes, AllLabels, ClientLabels, PostLabels, AllocLabels, TakeLabels
<1>0. CallTypes
  BY TypeParts
<1>g. ASSUME NEW t \in Threads, NEW label \in AllLabels, Goto(t, label) PROVE pc' \in [Threads -> AllLabels]
  BY <1>0, <1>g DEF Goto
<1>e. ASSUME NEW t \in Threads, Enter(t) \/ Leave PROVE lock' \in Threads \cup {Nobody}
  BY <1>0, <1>e DEF Enter, Leave
<1>a. ASSUME NEW t \in Threads, Abort(t) PROVE CallTypes'
  <2>1. Goto(t, IF t = PostInit THEN "done" ELSE "idle") /\ Leave /\ call' = call
    BY <1>a DEF Abort
  <2>2. lock' \in Threads \cup {Nobody}
    BY <1>e, <2>1
  <2> QED
    BY <1>0, <1>g, <2>1, <2>2
<1>2. ASSUME NEW t \in Threads, Alloc(t) PROVE CallTypes'
  <2>1. CASE Abort(t)
    BY <1>a, <2>1
  <2>2. CASE ~Abort(t)
    <3>1. /\ UNCHANGED <<lock, call>>
          /\ Goto(t, "alloc_check") \/ Goto(t, "alloc_take") \/ pc' = pc
      BY <1>2, <2>2 DEF Alloc, AllocPoll, AllocCheck, AllocRefused, AllocFromPage, AllocFetch, AllocFetchFails
    <3> QED
      BY <1>0, <1>g, <3>1
  <2> QED
    BY <2>1, <2>2
<1>3. ASSUME NEW t \in Clients, Begin(t) PROVE CallTypes'
  <2>1. CASE AllocEnter(t) \/ ReserveEnter(t) \/ ClearEnter(t)
    <3>1. /\ Enter(t) /\ (Goto(t, "alloc_wait") \/ Goto(t, "clear"))
          /\ call' = call \/ call' = [call EXCEPT ![t] = "alloc"] \/ call' = [call EXCEPT ![t] = "reserve"]
      BY <2>1 DEF AllocEnter, ReserveEnter, ClearEnter
    <3>2. lock' \in Threads \cup {Nobody}
      BY <1>e, <3>1
    <3> QED
      BY <1>0, <1>g, <3>1, <3>2
  <2>2. CASE Free(t) \/ FreeReserved(t)
    <3>1. /\ call' = [call EXCEPT ![t] = "free"] \/ call' = [call EXCEPT ![t] = "free_reserved"]
          /\ \E blocks : FreeBlocks(t, blocks)
      BY <2>2 DEF Free, FreeReserved
    <3>2. /\ Goto(t, "freed") \/ Goto(t, "free_return") \/ pc' = pc
          /\ lock' = t \/ lock' = lock
      BY <3>1, FreeMoves
    <3> QED
      BY <1>0, <1>g, <3>1, <3>2
  <2>3. CASE Resize(t)
    BY <1>0, <2>3 DEF Resize, callVars
  <2> QED
    BY <1>3, <2>1, <2>2, <2>3 DEF Begin
<1>4. ASSUME NEW t \in Clients, Continue(t) PROVE CallTypes'
  <2>1. CASE AllocReturn(t) \/ ShrinkRaises(t) \/ FreeReturn(t) \/ ClearFails(t)
    <3>1. Leave /\ Goto(t, "idle") /\ call' = call
      BY <2>1 DEF AllocReturn, ShrinkRaises, FreeReturn, ClearFails
    <3>2. lock' \in Threads \cup {Nobody}
      BY <1>e, <3>1
    <3> QED
      BY <1>0, <1>g, <3>1, <3>2
  <2>2. CASE ShrinkCheck(t)
    BY <1>0, <1>g, <2>2 DEF ShrinkCheck
  <2> QED
    BY <1>2, <1>4, <2>1, <2>2 DEF Continue
<1>5. CASE PostInitStep
  <2>1. CASE TensorsCreated \/ CreationTimeout \/ NullEnter \/ NullReturn
    <3>1. /\ Goto(PostInit, "null") \/ Goto(PostInit, "done") \/ Goto(PostInit, "alloc_wait")
          /\ UNCHANGED lock \/ Enter(PostInit) \/ Leave
          /\ call' = call
      BY <2>1 DEF TensorsCreated, CreationTimeout, NullEnter, NullReturn
    <3>2. lock' \in Threads \cup {Nobody}
      BY <1>0, <1>e, <3>1
    <3> QED
      BY <1>0, <1>g, <3>1, <3>2
  <2> QED
    BY <1>2, <1>5, <2>1 DEF PostInitStep
<1>w. CASE \E t \in Threads : AllocBlocks(t) \/ AllocUnblocks(t)
  BY <1>0, <1>g, <1>w DEF AllocBlocks, AllocUnblocks
<1>6. CASE SetLimit \/ WatchLimit \/ UNCHANGED vars
  BY <1>0, <1>6 DEF SetLimit, WatchLimit, vars, callVars
<1> QED
  BY <1>3, <1>4, <1>5, <1>6, <1>w DEF Next

\* Blocks only move between their holders, from pages and to pages
LEMMA BlockTypeStep ==
    ASSUME IInv, [Next]_vars
    PROVE  BlockTypes'
<1> USE Types DEF BlockTypes, IInv
<1>0. BlockTypes /\ \A t \in Threads : got[t] \subseteq AllBlocks
  BY TypeParts
<1>k. ASSUME UNCHANGED Residence PROVE BlockTypes'
  BY <1>0, <1>k DEF Residence
<1>1. ASSUME NEW t \in Threads, Alloc(t) PROVE BlockTypes'
  <2>1. CASE AllocFromPage(t) \/ AllocFetch(t)
    <3>1. PICK p, list, blocks : DrawStep(t, p, list, blocks)
      BY <2>1, AllocDraws
    <3>2. blocks \subseteq AllBlocks
      BY <3>1, DrawKeeps
    <3>3. got' = [got EXCEPT ![t] = @ \cup blocks] /\ UNCHANGED <<reservedBlocks, nullBlock, allocated, dropped>>
      BY <3>1 DEF DrawStep, Draw, blockVars
    <3> QED
      BY <1>0, <3>2, <3>3
  <2>2. CASE AllocCheck(t)
    <3>1. PICK blocks \in SUBSET reservedBlocks :
            reservedBlocks' = reservedBlocks \ blocks /\ got' = [got EXCEPT ![t] = blocks]
      BY <2>2 DEF AllocCheck
    <3> QED
      BY <1>0, <2>2, <3>1 DEF AllocCheck
  <2>3. CASE Abort(t) /\ UNCHANGED <<reservedBlocks, nullBlock, allocated>>
    BY <1>0, <2>3 DEF Abort
  <2>4. CASE AllocRefused(t) \/ AllocFetchFails(t)
    BY <2>3, <2>4 DEF AllocRefused, AllocFetchFails
  <2>5. CASE AllocPoll(t)
    <3>1. UNCHANGED Residence \/ (Abort(t) /\ UNCHANGED <<reservedBlocks, nullBlock, allocated>>)
      BY <2>5 DEF AllocPoll, Residence
    <3> QED
      BY <1>k, <2>3, <3>1
  <2> QED
    BY <1>1, <2>1, <2>2, <2>4, <2>5 DEF Alloc
<1>2. ASSUME NEW t \in Clients, Begin(t) PROVE BlockTypes'
  <2>1. CASE Free(t)
    <3>1. allocated' \subseteq allocated /\ UNCHANGED <<reservedBlocks, nullBlock, dropped, got>>
      BY <2>1 DEF Free
    <3> QED
      BY <1>0, <3>1
  <2>2. CASE AllocEnter(t) \/ ReserveEnter(t) \/ ClearEnter(t) \/ FreeReserved(t) \/ Resize(t)
    BY <1>k, <2>2 DEF AllocEnter, ReserveEnter, ClearEnter, FreeReserved, Resize, Residence, blockVars, callVars
  <2> QED
    BY <1>2, <2>1, <2>2 DEF Begin
<1>3. ASSUME NEW t \in Clients, Continue(t) PROVE BlockTypes'
  <2>1. CASE AllocReturn(t)
    BY <1>0, <2>1 DEF AllocReturn
  <2>2. CASE FreeReturn(t)
    BY <1>0, <2>2 DEF FreeReturn
  <2>3. CASE ShrinkCheck(t) \/ ShrinkRaises(t) \/ ClearFails(t)
    BY <1>k, <2>3 DEF ShrinkCheck, ShrinkRaises, ClearFails, Residence, blockVars
  <2> QED
    BY <1>1, <1>3, <2>1, <2>2, <2>3 DEF Continue
<1>4. CASE PostInitStep
  <2>1. CASE TensorsCreated \/ CreationTimeout \/ NullEnter
    BY <1>k, <2>1 DEF TensorsCreated, CreationTimeout, NullEnter, Residence, blockVars
  <2>2. CASE NullReturn
    BY <1>0, <2>2 DEF NullReturn
  <2> QED
    BY <1>1, <1>4, <2>1, <2>2 DEF PostInitStep
<1>w. CASE \E t \in Threads : AllocBlocks(t) \/ AllocUnblocks(t)
  BY <1>k, <1>w DEF AllocBlocks, AllocUnblocks, Residence, blockVars
<1>5. CASE SetLimit \/ WatchLimit \/ UNCHANGED vars
  BY <1>k, <1>5 DEF SetLimit, WatchLimit, vars, Residence, blockVars, callVars
<1> QED
  BY <1>2, <1>3, <1>4, <1>5, <1>w DEF Next

\* What is still needed goes down by the blocks taken, never below zero
LEMMA NeedTypeStep ==
    ASSUME IInv, [Next]_vars
    PROVE  NeedTypes'
<1> USE Types DEF NeedTypes, IInv
<1>0. NeedTypes /\ \A t \in Threads : need[t] \in Nat /\ need[t] <= MaxNeed
  BY TypeParts
<1>d. ASSUME NEW t \in Threads, NEW n \in Nat, n <= need[t], need' = [need EXCEPT ![t] = @ - n] PROVE NeedTypes'
  <2>1. need[t] - n \in 0 .. MaxNeed
    BY <1>0, <1>d
  <2> QED
    BY <1>0, <1>d, <2>1
<1>1. ASSUME NEW t \in Threads, Alloc(t) PROVE NeedTypes'
  <2>1. CASE AllocFromPage(t) \/ AllocFetch(t)
    <3>1. PICK p, list, blocks : DrawStep(t, p, list, blocks)
      BY <2>1, AllocDraws
    <3>2. blocks \subseteq AllBlocks /\ list \subseteq AllBlocks
      BY <3>1, DrawKeeps, FiniteBlocks DEF DrawStep
    <3>3. Cardinality(blocks) \in Nat /\ Cardinality(list) \in Nat
      BY <3>2, FiniteBlocks
    <3>4. need' = [need EXCEPT ![t] = @ - Cardinality(blocks)] /\ Cardinality(blocks) <= need[t]
      BY <1>0, <3>1, <3>3 DEF DrawStep, Draw, AtMost
    <3> QED
      BY <1>d, <3>3, <3>4
  <2>2. CASE AllocCheck(t)
    <3>1. PICK blocks \in SUBSET reservedBlocks :
            /\ Cardinality(blocks) = AtMost(Cardinality(reservedBlocks), need[t])
            /\ need' = [need EXCEPT ![t] = @ - Cardinality(blocks)]
      BY <2>2 DEF AllocCheck
    <3>2. Cardinality(blocks) \in Nat /\ Cardinality(reservedBlocks) \in Nat
      BY FiniteBlocks
    <3>3. Cardinality(blocks) <= need[t]
      BY <1>0, <3>1, <3>2 DEF AtMost
    <3> QED
      BY <1>d, <3>1, <3>2, <3>3
  <2>3. CASE Abort(t)
    BY <1>0, <2>3 DEF Abort
  <2>4. CASE AllocRefused(t) \/ AllocFetchFails(t) \/ AllocPoll(t)
    <3>1. need' = need \/ Abort(t)
      BY <2>4 DEF AllocRefused, AllocFetchFails, AllocPoll
    <3> QED
      BY <1>0, <2>3, <3>1
  <2> QED
    BY <1>1, <2>1, <2>2, <2>4 DEF Alloc
<1>2. ASSUME NEW t \in Clients, Begin(t) PROVE NeedTypes'
  <2>1. CASE AllocEnter(t) \/ ReserveEnter(t)
    <3>1. PICK n \in 1 .. MaxNeed : need' = [need EXCEPT ![t] = n]
      BY <2>1 DEF AllocEnter, ReserveEnter
    <3> QED
      BY <1>0, <3>1
  <2>2. CASE ClearEnter(t) \/ Free(t) \/ FreeReserved(t) \/ Resize(t)
    BY <1>0, <2>2 DEF ClearEnter, Free, FreeReserved, Resize, callVars
  <2> QED
    BY <1>2, <2>1, <2>2 DEF Begin
<1>3. ASSUME NEW t \in Clients, Continue(t) PROVE NeedTypes'
  <2>1. CASE AllocReturn(t) \/ FreeReturn(t) \/ ShrinkCheck(t) \/ ShrinkRaises(t) \/ ClearFails(t)
    BY <1>0, <2>1 DEF AllocReturn, FreeReturn, ShrinkCheck, ShrinkRaises, ClearFails
  <2> QED
    BY <1>1, <1>3, <2>1 DEF Continue
<1>4. CASE PostInitStep
  <2>1. CASE TensorsCreated \/ CreationTimeout \/ NullReturn
    BY <1>0, <2>1 DEF TensorsCreated, CreationTimeout, NullReturn
  <2>2. CASE NullEnter
    BY <1>0, <2>2, Numbers DEF NullEnter
  <2> QED
    BY <1>1, <1>4, <2>1, <2>2 DEF PostInitStep
<1>w. CASE \E t \in Threads : AllocBlocks(t) \/ AllocUnblocks(t)
  BY <1>0, <1>w DEF AllocBlocks, AllocUnblocks
<1>5. CASE SetLimit \/ WatchLimit \/ UNCHANGED vars
  BY <1>0, <1>5 DEF SetLimit, WatchLimit, vars, callVars
<1> QED
  BY <1>2, <1>3, <1>4, <1>5, <1>w DEF Next

-----------------------------------------------------------------------------
(* The invariants *)

LEMMA IInvInit ==
    Init => IInv
<1> SUFFICES ASSUME Init PROVE IInv
  OBVIOUS
<1>0. Cardinality({}) = 0 /\ Cardinality(Pages) = NumPages
  <2>1. Pages = 0 .. NumPages - 1 /\ 0 \in Int /\ NumPages - 1 \in Int
    BY Numbers
  <2>2. Cardinality(0 .. NumPages - 1) = NumPages
    BY <2>1, IntervalSize, Numbers
  <2> QED
    BY <2>1, <2>2, FS_EmptySet
<1>1. /\ available = 0 .. NumPages - 1 /\ held = {} /\ withdrawn = {} /\ freeCount = NumPages /\ limit = NumPages
  BY DEF Init, Pool!Init
<1>2. /\ availPages = {} /\ fullPages = {} /\ numAvail = 0 /\ freeBlocks = [p \in Pages |-> {}]
      /\ reservedBlocks = {} /\ nullBlock = {} /\ allocated = {} /\ dropped = {}
      /\ got = [t \in Threads |-> {}] /\ initDone = FALSE
      /\ pc = [t \in Threads |-> IF t = PostInit THEN "creating" ELSE "idle"]
      /\ call = [t \in Threads |-> "alloc"]
  BY DEF Init
<1>3. \A t \in Clients : t \in Threads /\ t # PostInit /\ pc[t] = "idle"
  BY <1>2, ThreadsAssumption DEF Threads
<1>4. pc[PostInit] = "creating"
  BY <1>2 DEF Threads
<1>5. TypeOK
  <2>1. LimitTypes
    BY Numbers DEF Init, LimitTypes
  <2>2. CallTypes
    BY <1>2 DEF Init, CallTypes, AllLabels, ClientLabels, PostLabels
  <2>3. BlockTypes
    BY <1>2 DEF BlockTypes
  <2>4. NeedTypes
    BY Numbers DEF Init, NeedTypes
  <2>5. PageTypes
    BY <1>2 DEF PageTypes
  <2> QED
    BY <1>1, <1>2, <2>1, <2>2, <2>3, <2>4, <2>5, Numbers, TypeParts
<1>6. LockShape
  BY <1>2, <1>3, <1>4 DEF LockShape, ClientLabels, PostLabels, BodyLabels, Outside, Threads, TakeLabels
<1>7. CallShape /\ DroppedApart
  BY <1>2 DEF CallShape, DroppedApart, TakeLabels
<1>8. PoolShape
  BY <1>0, <1>1, Numbers DEF PoolShape
<1>9. PagesTracked
  BY <1>0, <1>1, <1>2 DEF PagesTracked
<1>10. BlocksAccounted
  <2>1. FreeSet = {}
    BY <1>2 DEF FreeSet
  <2>2. taken = {}
    BY <1>2, TakenIs
  <2>3. BlocksApart
    BY <1>2 DEF BlocksApart
  <2> QED
    BY <1>1, <1>2, <2>1, <2>2, <2>3, Accounts
<1> QED
  BY <1>5, <1>6, <1>7, <1>8, <1>9, <1>10 DEF IInv

LEMMA IInvStep ==
    ASSUME IInv, UnmapSucceeds, [Next]_vars
    PROVE  IInv'
<1>1. PoolShape' /\ available' \subseteq Pages /\ held' \subseteq Pages /\ withdrawn' \subseteq Pages
      /\ freeCount' \in Int /\ limit' \in Int
  BY StepsOfPool, PoolKept DEF IInv
<1>2. PagesTracked' /\ BlocksAccounted' /\ Elsewhere' /\ PageTypes'
  BY AccountStep
<1>3. numAvail' \in Nat
  <2>1. (UNION {freeBlocks[p] : p \in availPages})' \subseteq AllBlocks
    BY <1>2 DEF PageTypes
  <2>2. numAvail' = Cardinality((UNION {freeBlocks[p] : p \in availPages})')
    BY <1>2 DEF PagesTracked
  <2> QED
    BY <2>1, <2>2, FiniteBlocks
<1>4. LimitTypes' /\ CallTypes' /\ BlockTypes' /\ NeedTypes'
  BY LimitTypeStep, CallTypeStep, BlockTypeStep, NeedTypeStep DEF IInv
<1>5. TypeOK'
  BY <1>1, <1>2, <1>3, <1>4, TypePartsNext
<1>6. LockShape'
  BY ShapeStep
<1> QED
  BY <1>1, <1>2, <1>5, <1>6 DEF IInv, Elsewhere

LEMMA IInvAlways ==
    ASSUME UnmapSucceeds
    PROVE  Spec => []IInv
<1>1. IInv /\ [Next]_vars => IInv'
  BY IInvStep
<1> QED
  BY IInvInit, <1>1, PTL DEF Spec

\* The state has the types of the code's fields.
THEOREM TypeCorrect == UnmapSucceeds => (Spec => []TypeOK)
<1> SUFFICES ASSUME UnmapSucceeds PROVE Spec => []TypeOK
  OBVIOUS
<1>1. IInv => TypeOK
  BY DEF IInv
<1> QED
  BY <1>1, IInvAlways, PTL

\* avail_pages and full_pages hold the pages taken from the pool, each in the
\* right one, and num_avail_blocks is the number of free blocks in the former.
THEOREM PagesAreTracked == UnmapSucceeds => (Spec => []PagesTracked)
<1> SUFFICES ASSUME UnmapSucceeds PROVE Spec => []PagesTracked
  OBVIOUS
<1>1. IInv => PagesTracked
  BY DEF IInv
<1> QED
  BY <1>1, IInvAlways, PTL

\* No block is lost, handed out twice, or handed out from a page not held.
THEOREM NoBlockLost == UnmapSucceeds => (Spec => []BlocksAccounted)
<1> SUFFICES ASSUME UnmapSucceeds PROVE Spec => []BlocksAccounted
  OBVIOUS
<1>1. IInv => BlocksAccounted
  BY DEF IInv
<1> QED
  BY <1>1, IInvAlways, PTL

-----------------------------------------------------------------------------
(* The capacity check *)

LEMMA FullPages ==
    ASSUME BlocksFillPages, NEW p \in Pages
    PROVE  Cardinality(Blocks(p)) = blocksPerPage /\ blocksPerPage \in Nat
<1> DEFINE k == PageSize \div BlockSize
<1>1. k \in Nat /\ PageSize = BlockSize * k
  <2>1. \A a, d \in Nat : d # 0 /\ a % d = 0 => a \div d \in Nat /\ a = d * (a \div d)
    BY SMT
  <2> QED
    BY <2>1, Numbers DEF BlocksFillPages
<1> HIDE DEF k
<1>2. p \in Nat /\ BlockSize \in Nat /\ BlockSize # 0
  BY Numbers
<1>3. /\ p * k \in Nat /\ (p + 1) * k \in Nat
      /\ p * PageSize = BlockSize * (p * k) /\ (p + 1) * PageSize = BlockSize * ((p + 1) * k)
  BY <1>1, <1>2
<1>4. firstBlock(p) = p * k
  <2>1. p * PageSize + BlockSize - 1 \in Nat /\ BlockSize * (p * k) <= p * PageSize + BlockSize - 1
        /\ p * PageSize + BlockSize - 1 < BlockSize * (p * k) + BlockSize
    BY <1>1, <1>2, <1>3
  <2> QED
    BY <1>2, <1>3, <2>1, Division DEF firstBlock
<1>5. endBlock(p) = (p + 1) * k
  <2>1. (p + 1) * PageSize \in Nat /\ BlockSize * ((p + 1) * k) <= (p + 1) * PageSize
        /\ (p + 1) * PageSize < BlockSize * ((p + 1) * k) + BlockSize
    BY <1>1, <1>2, <1>3
  <2> QED
    BY <1>2, <1>3, <2>1, Division DEF endBlock
<1>6. (p + 1) * k = p * k + k
  BY <1>1, <1>2
<1>7. Blocks(p) = p * k .. p * k + k - 1
  BY <1>4, <1>5, <1>6, <1>1, <1>3 DEF Blocks
<1>8. Cardinality(p * k .. p * k + k - 1) = k
  BY <1>1, <1>3, RunSize
<1> QED
  BY <1>1, <1>7, <1>8 DEF k, blocksPerPage

LEMMA NeedStep ==
    ASSUME IInv, BlocksFillPages, NeedCovered, [Next]_vars
    PROVE  NeedCovered'
<1> USE Types DEF IInv
<1>0. \A t \in Clients : t \in Threads /\ t # PostInit /\ pc[t] \in ClientLabels
  BY ThreadsAssumption DEF Threads, LockShape
<1>b. blocksPerPage \in Nat
  BY Numbers, Division DEF blocksPerPage
<1>c. numAvail \in Nat /\ freeCount \in Nat /\ freeCount * blocksPerPage \in Nat
  BY <1>b, FiniteBlocks DEF PoolShape
<1>k. ASSUME UNCHANGED <<numAvail, freeCount>>,
             \A t \in Threads : pc'[t] \in TakeLabels => pc[t] \in TakeLabels /\ need'[t] = need[t]
      PROVE  NeedCovered'
  BY <1>k DEF NeedCovered, TakeLabels
<1>v. ASSUME NEW t \in Threads, NEW label, Moved(t, label), label \notin TakeLabels,
             \A u \in Threads : u # t => pc[u] \notin BodyLabels
      PROVE  NeedCovered'
  BY <1>v DEF NeedCovered, Moved, BodyLabels, TakeLabels
<1>a. ASSUME NEW t \in Threads, Abort(t) PROVE \E label : label \notin TakeLabels /\ Moved(t, label) /\ \A u \in Threads : u # t => need'[u] = need[u]
  <2>1. Moved(t, IF t = PostInit THEN "done" ELSE "idle") /\ (IF t = PostInit THEN "done" ELSE "idle") \notin TakeLabels
    BY <1>a, AbortMoves DEF Moved, TakeLabels
  <2>2. \A u \in Threads : u # t => need'[u] = need[u]
    BY <1>a DEF Abort
  <2> QED
    BY <2>1, <2>2
<1>1. ASSUME NEW t \in Threads, Alloc(t) PROVE NeedCovered'
  <2>1. CASE AllocPoll(t)
    <3>1. pc[t] = "alloc_wait" /\ (initDone \/ t = PostInit)
      BY <2>1 DEF AllocPoll
    <3>2. \A u \in Threads : u # t => pc[u] \notin BodyLabels
      BY <3>1, AlonePolling
    <3>3. Goto(t, "alloc_check") \/ Abort(t)
      BY <2>1 DEF AllocPoll
    <3> QED
      BY <1>a, <1>v, <3>2, <3>3, Moves DEF TakeLabels
  <2>2. CASE AllocCheck(t)
    <3>1. PICK physical \in AvailPhysical : availableSize(physical) >= need[t]
      BY <2>2 DEF AllocCheck
    <3>2. PICK blocks \in SUBSET reservedBlocks :
            /\ Cardinality(blocks) = AtMost(Cardinality(reservedBlocks), need[t])
            /\ need' = [need EXCEPT ![t] = @ - Cardinality(blocks)]
      BY <2>2 DEF AllocCheck
    <3>3. pc[t] = "alloc_check" /\ Moved(t, "alloc_take") /\ UNCHANGED <<numAvail, freeCount>>
      BY <2>2, Moves DEF AllocCheck, poolVars, pageVars
    <3>4. \A u \in Threads : u # t => pc[u] \notin BodyLabels
      BY <3>3, Alone DEF BodyLabels, TakeLabels
    <3>5. Cardinality(reservedBlocks) \in Nat /\ need[t] \in Nat /\ physical \in Nat
      BY FiniteBlocks, Numbers
    <3>6. need[t] <= numAvail + Cardinality(reservedBlocks) + freeCount * blocksPerPage
      <4>1. AtMost(freeCount, physical) \in Nat /\ AtMost(freeCount, physical) <= freeCount
        BY <1>c, <3>5 DEF AtMost
      <4>2. AtMost(freeCount, physical) * blocksPerPage <= freeCount * blocksPerPage
            /\ AtMost(freeCount, physical) * blocksPerPage \in Nat
        BY <1>b, <1>c, <4>1
      <4>3. \/ availableSize(physical) = numAvail + Cardinality(reservedBlocks) + 0
            \/ availableSize(physical) = numAvail + Cardinality(reservedBlocks) + AtMost(freeCount, physical) * blocksPerPage
        BY DEF availableSize
      <4> QED
        BY <1>c, <3>1, <3>5, <4>2, <4>3
    <3>7. need'[t] <= numAvail + freeCount * blocksPerPage
      BY <1>c, <3>2, <3>5, <3>6 DEF AtMost
    <3> QED
      BY <3>3, <3>4, <3>7 DEF NeedCovered, Moved, BodyLabels, TakeLabels
  <2>3. CASE AllocRefused(t) \/ AllocFetchFails(t)
    <3>1. Abort(t) /\ UNCHANGED <<numAvail, freeCount>>
      BY <2>3 DEF AllocRefused, AllocFetchFails, poolVars, pageVars
    <3> QED
      BY <1>a, <1>k, <3>1 DEF Moved
  <2>4. CASE AllocFromPage(t) \/ AllocFetch(t)
    <3>1. PICK p, list, blocks : DrawStep(t, p, list, blocks)
      BY <2>4, AllocDraws
    <3>2. /\ pc' = pc /\ pc[t] = "alloc_take" /\ p \in Pages /\ need' = [need EXCEPT ![t] = @ - Cardinality(blocks)]
          /\ numAvail' = numAvail + Cardinality(list) - Cardinality(freeBlocks[p]) - Cardinality(blocks)
          /\ list \subseteq AllBlocks /\ blocks \subseteq AllBlocks
      BY <3>1, DrawKeeps, FiniteBlocks DEF DrawStep, Draw
    <3>3. \A u \in Threads : u # t => pc'[u] \notin TakeLabels
      BY <3>2, Alone DEF BodyLabels, TakeLabels
    <3>4. Cardinality(list) \in Nat /\ Cardinality(blocks) \in Nat /\ need[t] \in Nat /\ Cardinality(freeBlocks[p]) \in Nat
      BY <3>2, FiniteBlocks
    <3>5. need[t] <= numAvail + freeCount * blocksPerPage
      BY <3>2 DEF NeedCovered, TakeLabels
    <3>6. need'[t] = need[t] - Cardinality(blocks)
      BY <3>2
    <3>7. CASE list = freeBlocks[p] /\ UNCHANGED poolVars
      <4>1. freeCount' = freeCount /\ numAvail' = numAvail - Cardinality(blocks)
        BY <1>c, <3>2, <3>4, <3>7 DEF poolVars
      <4>2. need'[t] <= numAvail' + freeCount' * blocksPerPage
        BY <1>c, <3>4, <3>5, <3>6, <4>1
      <4> QED
        BY <3>3, <4>2 DEF NeedCovered, TakeLabels
    <3>8. CASE p \in available /\ list = Blocks(p) /\ Pool!Take
      <4>1. p \notin held /\ p \notin availPages
        BY <3>8 DEF PoolShape, PagesTracked
      <4>2. Cardinality(freeBlocks[p]) = 0
        BY <3>2, <4>1, FreeBlocksTracked, FS_EmptySet
      <4>3. Cardinality(list) = blocksPerPage
        BY <3>2, <3>8, FullPages
      <4>4. freeCount' = freeCount - 1
        <5>1. PICK q \in available : available' = available \ {q}
          BY <3>8 DEF Pool!Take
        <5>2. freeCount' = Cardinality(available') /\ freeCount = Cardinality(available) /\ IsFiniteSet(available)
          BY <3>8, FiniteBlocks DEF Pool!Take, Pool!Counted, PoolShape, Cardinality, Pool!Cardinality
        <5> QED
          BY <5>1, <5>2, FS_RemoveElement
      <4>5. (freeCount - 1) * blocksPerPage = freeCount * blocksPerPage - blocksPerPage
        BY <1>b, <1>c
      <4>6. need'[t] <= numAvail' + freeCount' * blocksPerPage
        BY <1>b, <1>c, <3>2, <3>4, <3>5, <3>6, <4>2, <4>3, <4>4, <4>5
      <4> QED
        BY <3>3, <4>6 DEF NeedCovered, TakeLabels
    <3> QED
      BY <3>1, <3>7, <3>8 DEF DrawStep
  <2> QED
    BY <1>1, <2>1, <2>2, <2>3, <2>4 DEF Alloc
<1>2. ASSUME NEW t \in Clients, Begin(t) PROVE NeedCovered'
  <2>1. CASE AllocEnter(t) \/ ReserveEnter(t) \/ ClearEnter(t)
    <3>1. /\ Goto(t, "alloc_wait") \/ Goto(t, "clear")
          /\ UNCHANGED <<numAvail, freeCount>> /\ \A u \in Threads : u # t => need'[u] = need[u]
      BY <1>0, <2>1 DEF AllocEnter, ReserveEnter, ClearEnter, poolVars, pageVars
    <3>2. PICK label \in {"alloc_wait", "clear"} : Moved(t, label)
      BY <1>0, <3>1, Moves
    <3> QED
      BY <1>k, <3>1, <3>2 DEF Moved, TakeLabels
  <2>2. CASE Free(t) \/ FreeReserved(t) \/ Resize(t)
    <3>1. /\ pc[t] = "idle" /\ Unlocked /\ initDone
          /\ pc' = pc \/ \E blocks : FreeBlocks(t, blocks)
      BY <2>2 DEF Free, FreeReserved, Resize, callVars
    <3>2. \A u \in Threads : pc[u] \notin BodyLabels
      BY <3>1, AloneUnlocked
    <3>3. pc' = pc \/ Goto(t, "freed") \/ Goto(t, "free_return")
      BY <3>1, FreeMoves
    <3>4. PICK label \in {"idle", "freed", "free_return"} : Moved(t, label)
      <4>1. CASE pc' = pc
        BY <3>1, <4>1 DEF Moved
      <4> QED
        BY <1>0, <3>3, <4>1, Moves
    <3> QED
      BY <1>0, <1>v, <3>2, <3>4 DEF TakeLabels
  <2> QED
    BY <1>2, <2>1, <2>2 DEF Begin
<1>3. ASSUME NEW t \in Clients, Continue(t) PROVE NeedCovered'
  <2>1. CASE AllocReturn(t) \/ ShrinkRaises(t) \/ FreeReturn(t) \/ ClearFails(t)
    <3>1. Goto(t, "idle") /\ UNCHANGED <<numAvail, freeCount, need>>
      BY <2>1 DEF AllocReturn, ShrinkRaises, FreeReturn, ClearFails, poolVars, pageVars
    <3> QED
      BY <1>0, <1>k, <3>1, Moves DEF Moved, TakeLabels
  <2>2. CASE ShrinkCheck(t)
    <3>1. pc[t] = "freed" /\ Goto(t, "free_return")
      BY <2>2 DEF ShrinkCheck
    <3>2. \A u \in Threads : u # t => pc[u] \notin BodyLabels
      BY <1>0, <3>1, Alone DEF BodyLabels, TakeLabels
    <3> QED
      BY <1>0, <1>v, <3>1, <3>2, Moves DEF TakeLabels
  <2> QED
    BY <1>0, <1>1, <1>3, <2>1, <2>2 DEF Continue
<1>4. CASE PostInitStep
  <2>1. CASE TensorsCreated \/ CreationTimeout \/ NullEnter \/ NullReturn
    <3>1. /\ Goto(PostInit, "null") \/ Goto(PostInit, "done") \/ Goto(PostInit, "alloc_wait")
          /\ UNCHANGED <<numAvail, freeCount>> /\ \A u \in Threads : u # PostInit => need'[u] = need[u]
      BY <2>1 DEF TensorsCreated, CreationTimeout, NullEnter, NullReturn, poolVars, pageVars
    <3>2. PICK label \in {"null", "done", "alloc_wait"} : Moved(PostInit, label)
      BY <3>1, Moves
    <3> QED
      BY <1>k, <3>1, <3>2 DEF Moved, TakeLabels
  <2> QED
    BY <1>1, <1>4, <2>1 DEF PostInitStep
<1>w. CASE \E t \in Threads : AllocBlocks(t) \/ AllocUnblocks(t)
  <2>1. PICK t \in Threads : AllocBlocks(t) \/ AllocUnblocks(t)
    BY <1>w
  <2>2. PICK label \in TakeLabels : Moved(t, label)
    BY <2>1, WaitMoves
  <2>3. pc[t] \in TakeLabels /\ UNCHANGED <<numAvail, freeCount, need>>
    BY <2>1, WaitMoves DEF poolVars, pageVars
  <2> QED
    BY <1>k, <2>2, <2>3 DEF Moved
<1>5. CASE SetLimit \/ WatchLimit \/ UNCHANGED vars
  BY <1>k, <1>5 DEF SetLimit, WatchLimit, vars, poolVars, pageVars, callVars
<1> QED
  BY <1>2, <1>3, <1>4, <1>5, <1>w DEF Next

\* An allocation that passed the capacity check finds a page for each block it
\* still needs, whatever other threads and the limit do meanwhile.
THEOREM CapacityIsEnough ==
    UnmapSucceeds /\ BlocksFillPages => (Spec => []CapacityCheckSuffices)
<1> SUFFICES ASSUME UnmapSucceeds, BlocksFillPages PROVE Spec => []CapacityCheckSuffices
  OBVIOUS
<1>1. Init => NeedCovered
  <2> SUFFICES ASSUME Init, NEW t \in Threads, pc[t] \in TakeLabels PROVE FALSE
    BY DEF NeedCovered, TakeLabels
  <2> QED
    BY DEF Init, TakeLabels
<1>2. IInv /\ NeedCovered /\ [Next]_vars => NeedCovered'
  BY NeedStep
<1>3. IInv /\ NeedCovered => CapacityCheckSuffices
  <2> SUFFICES ASSUME IInv, NeedCovered, NEW t \in Threads, pc[t] \in TakeLabels, need[t] > 0,
                      availPages = {}, available = {}
               PROVE  FALSE
    BY DEF CapacityCheckSuffices, TakeLabels
  <2>1. need[t] <= numAvail + freeCount * blocksPerPage /\ need[t] \in Nat
    BY Types DEF NeedCovered, IInv, TakeLabels
  <2>2. numAvail = 0
    <3>1. UNION {freeBlocks[p] : p \in availPages} = {}
      OBVIOUS
    <3> QED
      BY <3>1, FS_EmptySet DEF IInv, PagesTracked
  <2>3. freeCount = 0
    BY FS_EmptySet DEF IInv, PoolShape
  <2>4. blocksPerPage \in Nat
    BY Numbers, Division DEF blocksPerPage
  <2> QED
    BY <2>1, <2>2, <2>3, <2>4
<1> QED
  BY IInvAlways, <1>1, <1>2, <1>3, PTL DEF Spec

===============================================================================
