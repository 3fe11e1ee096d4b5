--------------------------- MODULE ElasticBlockPool ---------------------------
(***************************************************************************)
(* The block pool with prefix caching that kvcached puts in the place of   *)
(* vLLM's (class ElasticBlockPool of integration/vllm/patches.py), on top  *)
(* of a KVCacheManager and under vLLM's scheduler.                         *)
(*                                                                         *)
(* The engine thread runs one pool operation after the other; between any  *)
(* two of them another process may write a new memory limit, and other     *)
(* users of the GPU may take physical memory or give it back.  Of the      *)
(* manager this module keeps which blocks are handed out, the limit and a  *)
(* shrink in progress (module KVCacheManager has the rest); of a hash, the *)
(* identity of the content it stands for, with the group packed into it.   *)
(***************************************************************************)
EXTENDS Integers, FiniteSets, Sequences, SequencesExt

CONSTANTS Requests, Hashes,
          Prompt,      \* per request: the hashes of its blocks, NoHash for a partial last block
          NoHash, NoBlock,
          NumPages, BlocksPerPage,
          MaxCached,   \* max_cached_blocks, -1 if unlimited
          Limits,      \* page limits `kvctl limit` may write; 0 stands for the initial one
          Memories     \* pages that fit into the physical memory others leave to this engine

ASSUME PoolAssumption ==
    /\ NoHash \notin Hashes
    /\ Prompt \in [Requests -> Seq(Hashes \cup {NoHash})]
    /\ NumPages \in Nat \ {0} /\ BlocksPerPage \in Nat \ {0} /\ MaxCached \in Nat \cup {-1}
    /\ Limits \subseteq 0..(NumPages - 1) /\ Memories \subseteq 0..NumPages /\ IsFiniteSet(Requests)

\* A prompt is not empty, and a block's hash covers the blocks before it: no
\* prompt has a hash twice.
ASSUME PromptAssumption ==
    \A r \in Requests :
        /\ Prompt[r] # <<>>
        /\ \A i, j \in DOMAIN Prompt[r] : Prompt[r][i] = Prompt[r][j] /\ Prompt[r][i] # NoHash => i = j

Blocks == 0..(NumPages * BlocksPerPage - 1)
NullBlock == 0     \* the first block the manager hands out

ASSUME NoBlockAssumption == NoBlock \notin Blocks

VARIABLES
    mgr,        \* the manager: blocks handed out, limit in pages, target of a pending shrink in blocks
    wanted,     \* its resize target in pages (page_allocator.get_resize_target), 0: none
    memory,     \* how many pages physical memory has room for, those in use included
    ref,        \* KVCacheBlock.ref_cnt
    cached,     \* _cached_blocks
    keyOf,      \* _block_id_to_key
    evictable,  \* _evictable_blocks, the oldest first
    held,       \* per request: its blocks (req_to_blocks)
    numCached,  \* per request: how many of them the scheduler takes for cached
    call,       \* allocate_slots in progress: where it is, for whom, hits and need
    failed,     \* an assertion or exception left the engine
    content,    \* (history) per block: what was last computed into it
    lowered,    \* (history) a limit below the initial one was written
    squeezed    \* (history) since the last promise, memory was taken or was short already

poolVars    == <<ref, cached, keyOf, evictable>>
requestVars == <<held, numCached>>
historyVars == <<content, lowered, squeezed>>
vars == <<mgr, wanted, memory, poolVars, requestVars, call, failed, historyVars>>

Idle == [at |-> "idle"]

Init ==
    /\ mgr = [used |-> {NullBlock}, limit |-> NumPages, shrinkTo |-> 0]
    /\ wanted = 0 /\ lowered = FALSE /\ memory = NumPages /\ squeezed = FALSE
    /\ ref = [b \in Blocks |-> 0]
    /\ cached = [h \in Hashes |-> NoBlock] /\ keyOf = [b \in Blocks |-> NoHash]
    /\ evictable = <<>>
    /\ held = [r \in Requests |-> <<>>] /\ numCached = [r \in Requests |-> 0]
    /\ call = Idle /\ failed = FALSE
    /\ content = [b \in Blocks |-> NoHash]

-----------------------------------------------------------------------------
(* What the KVCacheManager does *)

pageOf(b) == b \div BlocksPerPage
pages(used) == {pageOf(b) : b \in used}
OpenBlocks(used) == {b \in Blocks \ used : pageOf(b) \in pages(used)}

\* available_size: the free pages that the limit allows, or physical memory has
\* room for if these are fewer.  The query subtracts unsigned numbers: if others
\* have taken more than is left to this engine, it wraps and bounds nothing.
AtMost(a, b) == IF a < b THEN a ELSE b
freePages(m) ==
    LET inUse == Cardinality(pages(m.used))
        room  == IF memory < inUse THEN m.limit ELSE AtMost(m.limit, memory)
    IN  IF room < inUse THEN 0 ELSE room - inUse
availableSize(m) ==
    Cardinality(OpenBlocks(m.used)) + IF m.shrinkTo # 0 THEN 0 ELSE freePages(m) * BlocksPerPage

\* resize: refused and left pending if too many pages are in use
Resized(m, limit) ==
    IF Cardinality(pages(m.used)) <= limit
    THEN [m EXCEPT !.limit = limit, !.shrinkTo = 0]
    ELSE [m EXCEPT !.shrinkTo = limit * BlocksPerPage]

\* free: a pending shrink is tried once its target is reached and then forgotten
Freed(m, S) ==
    LET f == [m EXCEPT !.used = @ \ S]
    IN  IF S # {} /\ m.shrinkTo # 0 /\ Cardinality(f.used) <= m.shrinkTo
        THEN [Resized(f, m.shrinkTo \div BlocksPerPage) EXCEPT !.shrinkTo = 0]
        ELSE f

\* alloc, once it has enough: blocks of pages in use first, then of new pages
Handed(m, n) ==
    {S \in SUBSET (Blocks \ m.used) :
        /\ Cardinality(S) = n
        /\ S \subseteq OpenBlocks(m.used)
           \/ /\ OpenBlocks(m.used) \subseteq S
              /\ Cardinality(pages(m.used \cup S)) <= m.limit
              /\ Cardinality(OpenBlocks(m.used \cup S)) < BlocksPerPage}

-----------------------------------------------------------------------------
(* Evicting *)

NumFree == availableSize(mgr) + Len(evictable)

\* The blocks bs leave the cache index: their keys are dropped.
Forget(bs) ==
    /\ cached' = [h \in Hashes |-> IF \E b \in bs : keyOf[b] = h THEN NoBlock ELSE cached[h]]
    /\ keyOf' = [b \in Blocks |-> IF b \in bs THEN NoHash ELSE keyOf[b]]

oldest(pool, n) == ToSet(SubSeq(pool, 1, n))
rest(pool, n) == SubSeq(pool, n + 1, Len(pool))

\* The elements of s that are in S, in their order: the k-th is the one at the
\* k-th of their positions.
kept(s, S) ==
    LET at == {i \in DOMAIN s : s[i] \in S}
    IN  [k \in 1..Cardinality(at) |-> s[CHOOSE i \in at : Cardinality({j \in at : j <= i}) = k]]

-----------------------------------------------------------------------------
(* The scheduler's allocate_slots *)

Ready == call = Idle /\ ~failed

\* get_cached_block, one hash after the other; the last block is never a hit
hits(r) ==
    LET hit(i) == Prompt[r][i] # NoHash /\ cached[Prompt[r][i]] # NoBlock
        n == CHOOSE k \in 0..(Len(Prompt[r]) - 1) :
                 /\ \A i \in 1..k : hit(i)
                 /\ k + 1 <= Len(Prompt[r]) - 1 => ~hit(k + 1)
    IN  [i \in 1..n |-> cached[Prompt[r][i]]]

\* A request gets a prefix of its blocks, or the next ones; what its hits take
\* from the evictable blocks counts as needed.  This is what get_num_free_blocks
\* promises (squeezed: with memory that is short of what is in use already).
Schedule(r) ==
    LET new == held[r] = <<>>
        computed == IF new THEN hits(r) ELSE held[r]
    IN  /\ Ready
        /\ \E upTo \in (Len(computed) + 1)..Len(Prompt[r]) :
               LET need == upTo - Len(computed)
               IN  /\ need + Cardinality({b \in ToSet(computed) : ref[b] = 0}) <= NumFree
                   /\ call' = [at |-> IF new THEN "touch" ELSE "evict", of |-> r, need |-> need,
                               found |-> IF new THEN computed ELSE <<>>]
        /\ squeezed' = (memory < Cardinality(pages(mgr.used)))
        /\ UNCHANGED <<mgr, wanted, memory, poolVars, requestVars, failed, content, lowered>>

\* mutant: the hits stay evictable
Touch_evictable ==
    LET bs == ToSet(call.found)
    IN  /\ call.at = "touch" /\ call' = [call EXCEPT !.at = "evict"]
        /\ ref' = [b \in Blocks |-> IF b \in bs THEN ref[b] + 1 ELSE ref[b]]
        /\ held' = [held EXCEPT ![call.of] = call.found]
        /\ numCached' = [numCached EXCEPT ![call.of] = Len(call.found)]
        /\ UNCHANGED <<mgr, wanted, memory, cached, keyOf, evictable, failed, historyVars>>
Touch_uncounted ==   \* mutant: a hit is taken without a reference
    LET bs == ToSet(call.found)
    IN  /\ call.at = "touch" /\ call' = [call EXCEPT !.at = "evict"]
        /\ evictable' = kept(evictable, Blocks \ bs)
        /\ held' = [held EXCEPT ![call.of] = call.found]
        /\ numCached' = [numCached EXCEPT ![call.of] = Len(call.found)]
        /\ UNCHANGED <<mgr, wanted, memory, ref, cached, keyOf, failed, historyVars>>
Touch ==
    LET bs == ToSet(call.found)
    IN  /\ call.at = "touch" /\ call' = [call EXCEPT !.at = "evict"]
        /\ ref' = [b \in Blocks |-> IF b \in bs THEN ref[b] + 1 ELSE ref[b]]
        /\ evictable' = kept(evictable, Blocks \ bs)
        /\ held' = [held EXCEPT ![call.of] = call.found]
        /\ numCached' = [numCached EXCEPT ![call.of] = Len(call.found)]
        /\ UNCHANGED <<mgr, wanted, memory, cached, keyOf, failed, historyVars>>

\* get_new_blocks up to the allocation: evict what is missing, or raise
Evict_short ==   \* mutant: one block too few
    LET missing == call.need - availableSize(mgr)
        n == IF call.need > NumFree \/ missing <= 0 THEN 0 ELSE missing - 1
    IN  /\ call.at = "evict" /\ ~failed
        /\ failed' = (call.need > NumFree)
        /\ call' = [call EXCEPT !.at = "alloc"]
        /\ Forget(oldest(evictable, n)) /\ evictable' = rest(evictable, n)
        /\ mgr' = Freed(mgr, oldest(evictable, n))
        /\ UNCHANGED <<wanted, memory, ref, requestVars, historyVars>>
Evict ==
    LET missing == call.need - availableSize(mgr)
        n == IF call.need > NumFree \/ missing <= 0 THEN 0 ELSE missing
    IN  /\ call.at = "evict" /\ ~failed
        /\ failed' = (call.need > NumFree)
        /\ call' = [call EXCEPT !.at = "alloc"]
        /\ Forget(oldest(evictable, n)) /\ evictable' = rest(evictable, n)
        /\ mgr' = Freed(mgr, oldest(evictable, n))
        /\ UNCHANGED <<wanted, memory, ref, requestVars, historyVars>>

\* ... and the allocation: the manager first applies the limit it finds.  Too
\* few blocks are left: it returns None and get_new_blocks' assertion fails.
\* (Memory taken after its check makes a map call throw: KVCacheManager.)
Alloc ==
    LET m == IF wanted # 0 THEN Resized(mgr, wanted) ELSE mgr
        r == call.of
    IN  /\ call.at = "alloc" /\ ~failed
        /\ \/ /\ availableSize(m) < call.need /\ failed' = TRUE /\ mgr' = m
              /\ UNCHANGED <<ref, held, content, call>>
           \/ /\ availableSize(m) >= call.need /\ call' = [call EXCEPT !.at = "cache"]
              /\ \E S \in Handed(m, call.need) : \E ids \in SetToSeqs(S) :
                     /\ mgr' = [m EXCEPT !.used = @ \cup S]
                     /\ ref' = [b \in Blocks |-> IF b \in S THEN 1 ELSE ref[b]]
                     /\ held' = [held EXCEPT ![r] = @ \o ids]
                     /\ content' = [b \in Blocks |-> IF b \in S
                            THEN Prompt[r][Len(held[r]) + CHOOSE i \in DOMAIN ids : ids[i] = b]
                            ELSE content[b]]
              /\ failed' = failed
        /\ UNCHANGED <<wanted, memory, cached, keyOf, evictable, numCached, lowered, squeezed>>

(* cache_full_blocks *)

newKeys_all(r) ==   \* mutant: the later block takes the hash over
    {i \in (numCached[r] + 1)..Len(held[r]) : Prompt[r][i] # NoHash}
\* a hash that is already cached keeps its block
newKeys(r) ==
    {i \in (numCached[r] + 1)..Len(held[r]) :
        Prompt[r][i] # NoHash /\ cached[Prompt[r][i]] = NoBlock}

Cache ==
    LET r == call.of
    IN  /\ call.at = "cache" /\ call' = Idle
        /\ cached' = [h \in Hashes |-> IF \E i \in newKeys(r) : Prompt[r][i] = h
               THEN held[r][CHOOSE i \in newKeys(r) : Prompt[r][i] = h] ELSE cached[h]]
        /\ keyOf' = [b \in Blocks |-> IF \E i \in newKeys(r) : held[r][i] = b
               THEN Prompt[r][CHOOSE i \in newKeys(r) : held[r][i] = b] ELSE keyOf[b]]
        /\ numCached' = [numCached EXCEPT ![r] =
               Cardinality({i \in 1..Len(held[r]) : Prompt[r][i] # NoHash})]
        /\ UNCHANGED <<mgr, wanted, memory, ref, evictable, held, failed, historyVars>>

-----------------------------------------------------------------------------
(* The other operations *)

\* free_blocks, for a request that ends or is preempted: the last block first.
\* Blocks without a key go back at once, the oldest cached ones over the cap too.
Free(r) ==
    LET released == kept(Reverse(held[r]), {b \in Blocks : ref[b] = 1})
        pool == evictable \o kept(released, {b \in Blocks : keyOf[b] # NoHash})
        excess == IF MaxCached >= 0 /\ Len(pool) > MaxCached THEN Len(pool) - MaxCached ELSE 0
    IN  /\ Ready /\ held[r] # <<>>
        /\ ref' = [b \in Blocks |-> IF b \in ToSet(held[r]) THEN ref[b] - 1 ELSE ref[b]]
        /\ held' = [held EXCEPT ![r] = <<>>] /\ numCached' = [numCached EXCEPT ![r] = 0]
        /\ evictable' = rest(pool, excess) /\ Forget(oldest(pool, excess))
        /\ mgr' = Freed(Freed(mgr, {b \in ToSet(released) : keyOf[b] = NoHash}), oldest(pool, excess))
        /\ UNCHANGED <<wanted, memory, call, failed, historyVars>>

\* evict_blocks: the content of these blocks turned out to be invalid.
EvictBlocks(bs) ==
    /\ Ready /\ bs # {}
    /\ Forget(bs) /\ evictable' = kept(evictable, Blocks \ bs)
    /\ mgr' = Freed(mgr, bs \cap ToSet(evictable))
    /\ UNCHANGED <<wanted, memory, ref, requestVars, call, failed, historyVars>>

ResetPrefixCache_leaks ==   \* mutant: the evictable blocks are dropped, not freed
    /\ Ready /\ evictable' = <<>> /\ Forget(Blocks)
    /\ UNCHANGED <<mgr, wanted, memory, ref, requestVars, call, failed, historyVars>>
ResetPrefixCache ==
    /\ Ready /\ mgr' = Freed(mgr, ToSet(evictable)) /\ evictable' = <<>>
    /\ Forget(Blocks)
    /\ UNCHANGED <<wanted, memory, ref, requestVars, call, failed, historyVars>>

\* `kvctl limit`, as soon as the resize watcher sees it
SetLimit(l) ==
    /\ wanted # l /\ wanted' = l /\ lowered' = (lowered \/ l # 0)
    /\ UNCHANGED <<mgr, memory, poolVars, requestVars, call, failed, content, squeezed>>

\* Other engines and processes take physical memory, or give it back
TakeMemory(n) ==
    /\ memory # n /\ memory' = n /\ squeezed' = (squeezed \/ n < memory)
    /\ UNCHANGED <<mgr, wanted, poolVars, requestVars, call, failed, content, lowered>>

-----------------------------------------------------------------------------
Next ==
    \/ \E r \in Requests : Schedule(r) \/ Free(r)
    \/ Touch \/ Evict \/ Alloc \/ Cache
    \/ \E bs \in SUBSET {b \in Blocks : keyOf[b] # NoHash} : EvictBlocks(bs)
    \/ ResetPrefixCache
    \/ \E l \in Limits : SetLimit(l)
    \/ \E n \in Memories : TakeMemory(n)

Spec == Init /\ [][Next]_vars

-----------------------------------------------------------------------------
(* Properties *)

TypeOK ==
    /\ mgr \in [used : SUBSET Blocks, limit : 1..NumPages, shrinkTo : 0..(NumPages * BlocksPerPage)]
    /\ wanted \in Limits \cup {0} /\ memory \in 0..NumPages
    /\ ref \in [Blocks -> 0..Cardinality(Requests)]
    /\ cached \in [Hashes -> Blocks \cup {NoBlock}] /\ keyOf \in [Blocks -> Hashes \cup {NoHash}]
    /\ ToSet(evictable) \subseteq Blocks /\ IsInjective(evictable)
    /\ \A r \in Requests : ToSet(held[r]) \subseteq Blocks /\ Len(held[r]) <= Len(Prompt[r])
    /\ \A r \in Requests : numCached[r] \in 0..Len(Prompt[r])
    /\ call.at \in {"idle", "touch", "evict", "alloc", "cache"}
    /\ content \in [Blocks -> Hashes \cup {NoHash}] /\ {failed, lowered, squeezed} \subseteq BOOLEAN

\* A hit is safe: a block the cache index names is handed out by the manager,
\* still has the content of its hash, and the two indexes agree on it.
HitsAreValid ==
    /\ \A h \in Hashes : cached[h] # NoBlock =>
           cached[h] \in mgr.used /\ keyOf[cached[h]] = h /\ content[cached[h]] = h
    /\ \A b \in Blocks : keyOf[b] # NoHash => cached[keyOf[b]] = b

\* Nothing writes over the blocks of a live request: each still has what the
\* request computed or found there, whoever shares it.
HeldContentKept ==
    \A r \in Requests : \A i \in 1..Len(held[r]) :
        held[r][i] \in mgr.used /\ content[held[r][i]] = Prompt[r][i]

\* No block leaks and none is freed early: what the manager handed out is the
\* null block, the blocks of requests, counted by their references, and the
\* evictable blocks, which have a key and no reference.
BlocksAccounted ==
    /\ \A b \in Blocks : ref[b] = Cardinality({r \in Requests : b \in ToSet(held[r])})
    /\ mgr.used = {NullBlock} \cup ToSet(evictable) \cup {b \in Blocks : ref[b] > 0}
    /\ \A b \in ToSet(evictable) : ref[b] = 0 /\ keyOf[b] # NoHash

\* What get_num_free_blocks promised is delivered: the assertion of get_new_blocks
\* fails only if a limit was lowered, or if since the promise other users of the
\* GPU took memory, or had already taken more than this engine leaves them (the
\* query then wraps, and counts less once they give some of it back).
PromiseKept == failed => lowered \/ squeezed

===============================================================================
