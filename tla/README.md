# A verification project for kvcached, Sardeenz and the vLLM weight-sharing overlay

The repository serves several LLMs on shared GPUs. **kvcached** gives each engine a
KV cache of virtual memory whose pages get physical memory on demand; an **overlay on
vLLM** lets engines share one copy of the weights; **Sardeenz** is the control plane that
launches engines, admits and routes requests, moves models between GPUs and forms a
cluster of pods. This directory models the parts of these programs where an interleaving,
a failure or a long sequence of calls decides, checks the models with TLC on small
instances and proves the central invariants with TLAPS for all instances.

Paths below are relative to the repository. `PROJECT.json` maps every modelling
definition to the lines it stands for.

## 1. Inventory

### kvcached

| part | state | operations | interacts with |
|---|---|---|---|
| Page allocator, `kvcached/csrc/page_allocator.cpp` | free, reserved, reclaimed page lists, two counters, preallocation flags, `resize_target_` | `alloc_page`, `free_page(s)`, `resize`, `trim`, start/stop of the preallocation thread, that thread, the resize watcher | map and unmap calls (worker callbacks or FTensor), shared memory |
| Python binding, `torch_bindings.cpp` | the interpreter lock | every allocator method, callbacks into Python | allocator, manager |
| FTensor and pages, `ftensor.cpp`, `allocator.cpp`, `page.cpp` | mapping per layer and offset | map, unmap, create tensors | CUDA virtual memory |
| KV cache manager, `kvcached/kvcached/kv_cache_manager.py` | `avail_pages`, `full_pages`, `num_avail_blocks`, reserved blocks, pending shrink, initialisation event, lock | `alloc`, `free`, `try_to_reserve`, `free_reserved`, `resize`, `clear`, `_post_init` | allocator, engine |
| Memory limit, `mem_info_tracker.hpp/.py`, `cli/utils.py` | total, used and preallocated sizes in shared memory | `kvctl limit`, the watcher | allocator, command line tools |
| vLLM block pool, `integration/vllm/patches.py` (`ElasticBlockPool`) | references, cache index and its inverse, evictable blocks | lookup, touch, allocate, cache, free, evict, reset | vLLM's scheduler, manager |
| SGLang allocators, `integration/sglang/patches.py` | as SGLang's pools | alloc, free, clear | manager |
| Worker IPC, `tp_ipc_util.py` | one socket and listener per worker | broadcast map, unmap, created | manager callbacks, workers |
| Activation pool, `activation_pool_manager.py` | mapped flag, unmap timer | begin/end of a forward pass, release | FTensor |
| Controller, `kvcached/controller/` | sleeping models, traffic statistics | sleep, wake, idle monitor, routing | engines over HTTP |
| Autopatch, version selection, kvctl/kvtop | none to speak of | install hooks, display | |

### Weight sharing (`vllm-0.22.1/vllm/distributed/weight_sharing/`)

A primary exports its weights over CUDA IPC and writes a registry file; it holds an flock
and touches a ready file. Secondaries wait for it, open the handles and watch whether the
lock is still held. `registry.py` has the files and the lock, `manager.py` the export, the
import and the watchdog, `parameter_filter.py` the choice of tensors.

### Sardeenz (`sardeenz/apps/backend/src/`)

| part | state | operations |
|---|---|---|
| KV admission, `services/kv-admission.ts` | reservations, waiting requests | acquire (with waiting and trims), release, expiry, release for a failed instance |
| Model mover, `services/model-mover.ts`, `stores/move-store.ts` | operations and their phases, the one active move | move, its executor, rollback, cancel (revert, force-complete), cross-pod moves |
| Model manager, `services/model-manager.ts`, `stores/model-store.ts` | instances with status and routability, child processes | launch, startup monitor, unload, sleep, wake, activate, process exit |
| Request proxy, `services/proxy-router.ts` | connections per instance | route locally or to a peer |
| Idle sleep, `services/idle-sleep-manager.ts` | none of its own | periodic scan |
| Leader election, `services/leader-election.ts` | role, term, leader; the lease in Kubernetes | start, stop, acquire or renew the lease; or elect the lowest available peer under a quorum |
| Peers, `services/heartbeat.ts`, `peer-discovery.ts`, `cluster-manager.ts`, `stores/peer-store.ts` | peers, their status and models | heartbeats, reaping, polling or watching, adding and removing peers |
| Cluster routing, `stores/cluster-routing-store.ts` | other pods per model name, rebuild timer | rebuild, removal of a peer or of a route that failed |
| Schedulers, monitors, profiles, benchmarks, orphans, events, settings, routes, database | measurements and records | |

### What is hard here, and what correctness means

* *Work outside a lock.* The allocator unlocks while it maps and unmaps, so pages are in no
  list. Correct: every page is in exactly one place, counters match, used pages are mapped,
  waiting threads are woken.
* *Two locks and a thread that needs both.* The interpreter lock and the allocator's condition
  variable; the manager's RLock and its initialisation thread. Correct: every call returns.
* *Failures half way.* A map call throws, tensors are never created. Correct: blocks and pages
  remain accounted for.
* *A check and a later use.* Capacity before allocation, a limit that changes at any moment,
  state read before an `await` in TypeScript. Correct: what was promised is delivered.
* *Shared things with several owners.* Prefix-cached blocks, reservations, the one move lock.
  Correct: released exactly once, by the last owner.
* *Crashes and what they leave behind.* The kernel frees a dead primary's lock but its files
  stay, and the next primary takes the same names. Correct: one primary, secondaries that end
  with theirs and only then.
* *Lost answers and late requests.* The lease is read, judged and written in three steps with
  time passing in between, while the pod may stop or restart. Correct: one leader per term.
* *Views that differ.* Each pod has its own list of peers, and heartbeats, polls, the reaper and
  failed requests change it in any order. Correct: views and leaders converge when events end.

`PROJECT.json` "hazards" lists the places, each with its line and the properties that watch
over it, or the reason why none does.

## 2. Modules

    PagePool  <----implements---- PageAllocator <--- PageAllocatorBinding
       ^                                   (adds the interpreter lock)
       | INSTANCE
    KVCacheManager
       . abstracted in
    ElasticBlockPool

    KvAdmission      ModelMove      WeightRegistry      LeaseElection      ClusterPeers

Each of these except PagePool and PageAllocatorBinding has its theorems in a module
`<Module>_proof` that extends it.
`MC<Module>` gives TLC the constants that are not model values.

**PagePool** is what the allocator promises: pages are available, held or withdrawn;
`Take`, `Give`, `Lower` and `Raise` move them; two counters follow.

**PageAllocator** is `page_allocator.cpp`. `free`, `reserved`, `reclaimed` are the lists of
the same names; `hand[t]` is the local vector of thread `t`; `inUse` is what callers have;
`leaked` are pages an exception dropped; `pc` says between which critical sections a
thread is. One action is one critical section, or a map or unmap call with the critical section
after it; there is one for each branch of `alloc_page`, `free_pages`, `trim`, `resize`, the
worker and the start and stop of the thread. Lists are sets, so that the order pages are
popped in (and `reset_free_page_order`, which only sorts) is left open. The byte
arithmetic of the physical memory query is an input, `AvailPhysical`. Refinement mapping:
available = free, reserved and leaked pages and those in the hands of threads that are not
allocating; held = used pages and those being allocated.

**PageAllocatorBinding** adds who holds the interpreter lock: a caller holds it through a whole
allocator method, callbacks may pass it on, and the worker needs it to map.

**KVCacheManager** is `kv_cache_manager.py` and `InternalPage`, on the variables of
PagePool. `_alloc` is one step per loop iteration, so that an exception leaves it half done;
`free` is split where a pending shrink is tried. `_post_init` is a process of its own. `dropped`
are blocks an exception lost. A call of `alloc_page` may wait (`AllocBlocks`) where pages are counted as free
and in no list: the preallocation thread has them, or an unmap that failed lost them; nothing in this module
says that the wait ends. With `EnablePrealloc` off the allocator starts no thread and throws instead.
The lock is an RLock (`AsyncSched`) or nothing. `clear` is modelled
as it is, a call that always raises (line 514 names a method the binding does not have).

**ElasticBlockPool** is the class of that name with prefix caching, driven by vLLM's
`allocate_slots`: `Schedule` (lookup and capacity check), `Touch`, `Evict`, `Alloc`,
`Cache` are the calls it makes in order; `Free` ends or preempts a request; `EvictBlocks` and
`ResetPrefixCache` are the other operations. The manager underneath is a record of the blocks
handed out, the limit and a pending shrink, with `availableSize`, `Handed`, `Freed` and `Resized`
as KVCacheManager has them; its failures, its reservations and its preallocation thread (with the pages that
reserves) are left out, and so are runs with prefix caching off, null blocks in requests, several KV cache
groups and lookahead tokens. `memory` is how many pages the physical memory has room for that other users of
the GPU leave to this engine, those it has in use included; they take some or give it back at any moment
(`TakeMemory`). `availableSize` takes the smaller of limit and memory, as line 477 does; where others have
taken more than that, the unsigned subtraction of `get_avail_physical_pages` wraps (`page_allocator.cpp:465`) and
the limit alone counts. `content` records what was computed into each block.

**KvAdmission** is the admission controller as the two request paths use it. Reservations are
the requests that hold one. A queued request tries again after each wait; `Fail`, `Sleep`,
`Wake`, `SetRoutable` are what the model manager does to instances meanwhile; `Age` lets a
reservation pass its time to live. The estimate of a request's size is an input.

**ModelMove** is a local move: `Request` and `Create` the checks and the lock, then the
executor's launch, wait, switch, drain, unload, its rollback on an exception, and a cancel
running beside it. The instances are those of the model manager, with process exits and unloads by hand.
In sleep mode a launch first parks the running instances of the model that share a GPU with the new one
(`prepareLaunchContext`): `Park` takes them out of routing, `AskSleep` and `Slept` are the calls of `sleepModel`,
whose answer is written whatever became of the instance; `plan` is `launchRecoveryPlans`, and `RestoreNext`, `Woken` and
`NotWoken` are `restoreLaunchContext`. The startup monitor writes twice: `Ready` when the server answers,
`Measured` after further awaits, whether the instance is still in the store or not; `revived` records what such
late writes brought back without a process. `procs` are the child processes.
Connections are abstracted: a drain may end at any time. Cross-pod moves, the policy
`sleep_idle_overlapping` (which parks instances of other models too), sleep and wake by hand or for idleness and launches
that no move makes are not in the model.

**WeightRegistry** is `registry.py`, the watchdog and import of `manager.py` and the export
service of `weight_exporter.py`. A step is one system call, and a process may die before each.
`lockFile` is the inode `primary.lock` names; `holder` says who has the flock of each inode, so
that a lock on an unlinked file is not a lock on its successor. `Servers` never clean up (vLLM
ends without calling `cleanup`), `Exporters` do. A secondary waits, reads the registry, maps
the handles, waits and checks again (`opening` to `running`); `probe` is the call of
`is_primary_alive` it is in, which takes the lock for a moment. `source` is whose memory it maps.
`Beside` says whether an exporter may be started next to another primary. Files are written by
rename and their contents reduced to whose they are; the polls that find no change are left out.

**LeaseElection** is `KubernetesLeaderElection`. A call of `tryAcquireOrRenew` is a record: a read
that the API server carries out (`ServerRead`) and answers later (`Decide`, `Follow`), a write that
it carries out or refuses and answers later (`BecomeLeader`), or a failure at any of these points,
after the server acted too (`Fail`). Optimistic concurrency is `fresh`, true until someone
writes. `isExpired` goes through `String(renewTime)` (`leader-election.ts:107`), which drops the milliseconds of a
Date, so that a lease may look up to a second older than it is: `Duration` stands for the 15 s of the lease less that second.
Time is discrete: ages of the lease's `renewTime`, of the copies that calls hold, and the timers.
`Tick` waits for timers that are due; nothing else is urgent. `late` and `led` are history variables:
whether a call took longer than `Latency`, and who has led in each term.

**ClusterPeers** has each pod's view of the cluster: `found` (the discovery's `knownPods`), `peer` and
`models` (the peer store), `rebuilding` and `routes` (the routing store), `leaderId` and `isLeader`
(`HeartbeatLeaderElection`). A heartbeat and its answer are one step, except one that was sent
before an event and arrives after it (`delayed`). Ages are left out: the reaper may act on a peer while
that cannot be reached, at any time. Pods get cut off, rejoin, restart, start and end a model.
Every model has the same name. A pod always answers its own ping; in the code a failed one makes the pod
drop itself from its own store until the next poll (`peer-discovery.ts:191`, `cluster-manager.ts:269`), so that
"healthy in its own store" in `TypeOK`, and convergence, are about pods that reach themselves.
Watching Kubernetes instead of polling, signatures, the size
limit, circuit breakers and weights are left out.

## 3. Runs

Distinct states are for the bounds of the cfg files.

| run | instance | question | result |
|---|---|---|---|
| `allocator_safety` | 3 pages, 2 callers, worker, every failure, limits 1..3 (129,000 states) | do pages, counters and mappings survive every interleaving, and is it a PagePool | holds |
| `allocator_progress` | 3 pages, 1 caller, failing maps (4,500) | is a waiting `alloc_page` woken, does a stop return that does not meet the worker in its map call | holds |
| `binding_wait` | 2 pages, 1 caller, interpreter lock | the same wait with the interpreter lock held | violated |
| `manager_safety` | 3 pages of 2 blocks, need up to 3, 1 client, kvctl, failing maps, null block, reservations (521,000) | are blocks and pages accounted for, does a passed check suffice, is the pool used as a pool | holds |
| `manager_async` | 2 clients under the RLock, worker IPC, no preallocation, no null block, every failure, creation timeout (63,000) | does every `alloc` return | holds |
| `pool_safety` | 3 requests (2 with the same prompt), 2 pages of 2 blocks, a cap of 2 cached blocks, kvctl, memory for 1 or 2 pages (296,000) | are hits valid, shared blocks kept, blocks accounted for, is the promise kept unless limit or memory fall | holds |
| `admission_safety` | 3 requests on 2 instances of a group, sizes 1..4 (904,000) | no overcommit, no leak, bounds on requests in flight, guarantees kept | holds |
| `move_safety` | sleep mode, 1 loaded and 2 new instances, one of them on its GPU, 2 moves, 2 cancels or 1 instance lost (763,000) | one move at a time, model kept, no two copies, moves end | holds |
| `weight_registry` | 2 servers, 1 export service that runs alone, 2 secondaries, a crash before each system call (514,000) | one primary, do secondaries end when their primary dies and only then | holds |
| `weight_registry_beside` | the same, the export service beside another primary | do secondaries end only when their primary dies | violated |
| `lease_election` | 2 pods, timers 2 and 4, latency 1, 1 call each, 3 terms, lost and late answers, stops, restarts (3,635,000) | one leader per term; one leader as long as requests are fast; is the lease honoured | holds |
| `cluster_peers` | 3 pods, 1 cut, restart or model change, 1 late heartbeat (193,000) | do leaders and routing tables converge | holds |

Why these bounds are enough to be interesting: three pages are the least with which one page
is reserved, one in transit and one reclaimed; two callers and the worker are all the kinds
of threads there are. Two blocks per page make pages partly full; need 3 makes an allocation
cross pages. Two requests with the same prompt share blocks and compute the same hash twice
(the last block is never a hit); with three usable blocks, a third request forces evictions. Two
pages and a limit of one make a shrink pend with its blocks spread out. Two sibling instances
are what a guarantee is about. Two moves over one source and two targets let a second move start
while the first is cancelled. Two servers and an exporter give a primary, its successor and a process that
removes files; two secondaries probe at the same time. Timers of 2 and 4 with latency 1 keep the code's
relation, a renewal every 10 s of a lease of 14 effective seconds, at the edge of `Interval + 2 * Latency <= Duration`
(in the code: requests of up to 2 s; its client sets no timeout, which is what `late` is for);
two changes of hands let a pod lose the lease and get it back. One call per pod is all
there can be while requests are fast; that terms fence and the lease is honoured with calls that overlap is
proved. Three pods are the least with which one
can be cut off and a quorum remain; `cluster_peers` starts from a settled cluster, and a restart
brings a cold start. A cut pod may rejoin at any time, which is not counted as an
event. Named bounds: `MaxNeed` (block requests), `MaxDisturbed` (cancels of moves; an instance that
crashes or is unloaded by hand counts as two), `MaxCalls` (calls of one pod at a time), `MaxTransitions` (how often the
lease changes hands), `MaxEvents` (what happens to a cluster), and one cancel per move that takes effect.

Symmetry is used where the properties do not tell the members apart and no liveness is
checked (callers in `allocator_safety`, requests in `admission_safety`, pods in `lease_election`).
Deadlock checking is off where the system may really stop: a caller that waits for pages that
nobody returns, a block pool whose assertion has failed, moves that are all used up, processes that have all ended.

Each property has a mutant in its module, a plausible slip (`AllocMapFailed_uncounted`,
`Touch_evictable`, `Switch_early`, ...) under which TLC finds it violated in the same run.

### Fairness

* Allocator: the worker and a caller inside a method keep running (weak fairness per thread:
  the operating system schedules runnable threads). Calls are never forced.
* Binding: strong fairness for taking the interpreter lock, since CPython passes it on at
  the switch interval to threads that ask for it.
* Manager: weak fairness for `_post_init` and for a client inside a call, but none for a client that waits in
  `alloc_page`. Creation ends because its loop has a timeout.
* Moves: weak fairness for the executor and the cancel of each move, and for the restoring of what a launch
  parked. Every `await` there has a timeout of its own (startup, drain, sleep and wake calls, process kill).
* Registry: weak fairness for the probe of each secondary: its watchdog is a thread that asks every
  five seconds. Primaries are never forced to do anything.
* Peers: weak fairness for the heartbeats between each pair and each pod's pending rebuild, and
  for a poll, an election and a reaping by some pod as long as one would change something: the intervals
  go on. A late heartbeat arrives.

## 4. Findings

Each of the first two has a run.

* `binding_wait`: `alloc_page` waits for preallocation with the interpreter lock held.
* `weight_registry_beside`: an export service that is refused the lock cleans up on its way out and
  removes the lock and registry files of the primary that holds it (`registry.py:221`); the
  watchdogs of that primary's secondaries end them.

Read in the code while modelling, without a run of their own. In kvcached:

* an expansion above the initial size, after a shrink, reuses page ids (`page_allocator.cpp:359`);
  a limit set back to the initial size is never applied (790);
* an `alloc` before initialisation holds the RLock that the null block's allocation needs
  (`kv_cache_manager.py:303`; `manager_async` has no null block); after a creation timeout the null
  block can be handed out (270); a shrink whose blocks are spread over too many pages is forgotten (408);
  block sizes that do not divide the page make `available_size` too large (478); `clear` always
  raises (514);
* when `free_pages` throws in `free_reserved` (`kv_cache_manager.py:403`), reserved blocks have been freed and
  stay listed as reserved; the theorems on the manager exclude that (`UnmapSucceeds`);
* `trim` gives pages back and notifies nobody, and pages lost by a failed unmap stay counted as free: with a
  second caller, or after such a failure, a caller of `alloc_page` may wait with nobody left to wake it
  (`NoLostWakeup` is about one caller and unmaps that succeed, `AllocReturns` is checked without preallocation);
* stopping the preallocation thread, and destroying the allocator, joins it with the interpreter lock held
  (`torch_bindings.cpp:81`): if it is inside its map call and has yet to ask `should_use_worker_ipc` (`kv_cache_manager.py:163`) or to map
  over the workers, both wait for ever. `StopReturns` is about a stop that meets the thread elsewhere;
* `get_new_blocks` checks what is available and `_alloc` checks again: if a lower limit was written in between
  or another process took GPU memory, the manager returns None and the assertion ends the engine
  (`patches.py:549`). The memory query wraps when less than the headroom is free (`page_allocator.cpp:465`), so a
  promise made then ignores physical memory and breaks as soon as others give some of it back. `PromiseKept` names the three cases.

In Sardeenz:

* a request's own deficit is credited although it was never charged (`kv-admission.ts:297`). Guarantees
  of siblings fall when a soft limit exceeds the minimum, or when the instance is asleep or not routable,
  so that nobody reserved its minimum, and takes a queued request all the same (it takes three instances
  of a group). `GuaranteeKept` speaks of running, routable instances whose soft limit is within the minimum;
* the executor of a cancelled move goes on and unloads the source (`model-mover.ts:276`);
  `ModelKept` excludes cancelled moves;
* in sleep mode a move to GPUs that partly overlap the source's takes the source out of routing and puts it to sleep before
  the target starts (`model-manager.ts:1278`, 1286): until the target serves, or a failed launch has woken
  the source again, no copy takes requests. `ModelKept` says "or `Parking`" for that time;
* the startup monitor writes the instance to the store again after its measurements (`model-manager.ts:901`), and `wakeModel` after its
  request, without looking whether it is still there: a target that a rollback or a user has unloaded comes back
  as an entry without a process. `NoTwoCopies` therefore speaks of processes. In sleep mode such an entry, which looks
  as if it ran, can even be moved, and the instance that does serve be parked for it: `ModelKept` excludes
  histories with such an entry when sleep mode is on (`revived`);
* a pod that was stopped becomes leader when the answer of a renewal arrives afterwards, and a `stop`
  during `start` leaves the timer running (`leader-election.ts:72`, 132): `AtMostOneLeader` speaks of pods
  whose renewals have not been stopped;
* without `CLUSTER_EXPECTED_PODS` the quorum is that of the peers known at the moment (282), and each part of
  a divided cluster elects its own leader; the run sets it;
* a heartbeat of an unknown pod adds it without looking at the maximum cluster size (`heartbeat.ts:170`), which
  discovery respects; `cluster-manager.ts:31` takes the first entry of `CLUSTER_PEERS` with the pod's own
  port for itself, so that pods on hosts of their own with one port share an id;
* `sleepModel` and `wakeModel` write their status after awaits without another look: a crash in
  between is overwritten (`model-manager.ts:1514`, 1556), and a sleep request that times out leaves
  a sleeping engine marked as running.

## 5. Proofs

| theorem | in `_proof` module of | says |
|---|---|---|
| `TypeCorrect` | each of the eight components | `[]TypeOK` |
| `PagesConserved` | PageAllocator | `[]PageConservation` |
| `MappedPages` | PageAllocator | `[]MappedWhereUsed` |
| `CountersAreExact` | PageAllocator | `[]CountersExact` |
| `ImplementsPool` | PageAllocator | `Spec => PoolSpec`, the refinement |
| `WaitsForTheWorker` | PageAllocator | `[]NoLostWakeup` |
| `ManagerUsesPool` | KVCacheManager | `Spec => UsesPool`, its steps on the pool are PagePool's |
| `PagesAreTracked` | KVCacheManager | `[]PagesTracked` |
| `NoBlockLost` | KVCacheManager | `[]BlocksAccounted` |
| `CapacityIsEnough` | KVCacheManager | `[]CapacityCheckSuffices` |
| `CacheHitsAreValid` | ElasticBlockPool | `[]HitsAreValid` |
| `LiveBlocksAreKept` | ElasticBlockPool | `[]HeldContentKept` |
| `NoBlockLost` | ElasticBlockPool | `[]BlocksAccounted` |
| `PromisesAreKept` | ElasticBlockPool | `[]PromiseKept` |
| `NoReservationLeaks` | KvAdmission | `[]NoLeak` |
| `InflightLimits` | KvAdmission | `[]InflightBounded` |
| `MemoryIsNotOvercommitted` | KvAdmission | `[]NoOvercommit` |
| `GuaranteesStayCoverable` | KvAdmission | `GuaranteeKept` |
| `OneMove` | ModelMove | `[]OneMoveAtATime` |
| `ModelStaysServed` | ModelMove | `[]ModelKept` |
| `OneCopyLeft` | ModelMove | `[]NoTwoCopies` |
| `TheOnlyPrimary` | WeightRegistry | `[]OnePrimary` |
| `WatchdogIsRight` | WeightRegistry | `[]ExitOnlyOnDeath` |
| `TermsFence` | LeaseElection | `[]OneLeaderPerTerm` |
| `LeaseIsHonoured` | LeaseElection | `LeaseHonoured` |
| `SingleLeader` | LeaseElection | `[]AtMostOneLeader` |

### Assumptions

Those the modules state on their constants, and, named in the theorems that need them:

* `ResizeTargets \subseteq 0..NumPages` for all of the allocator but its types: above the initial size the
  code repeats page ids, and the theorems are false.
* For `NoLostWakeup`, one caller and no failing unmap. A page lost by an exception stays counted
  as free, so that a caller may wait for it with no thread left to notify, and between two callers `trim`
  hands pages back without a notify. Engines make one call at a time: the binding's methods keep the
  interpreter lock.
* `UnmapSucceeds` (no failing unmap where blocks are reserved) for the manager's invariants: an exception
  of `free_pages` inside `free_reserved` leaves its blocks free and listed as reserved. The use of the pool is
  proved without it.
* `BlocksFillPages` (the block size divides the page size) for `CapacityCheckSuffices`: line 478 counts
  more blocks than pages with straddling blocks hold.
* `Instances # {}` for admission, and `GlobalReserved <= PoolCapacity` for `NoOvercommit`: the safe
  limit of a group is not negative.
* `Beside = FALSE` for the lock and the watchdog of the registry; with an export service beside
  another primary `weight_registry_beside` refutes the second.
* `Latency < Interval` for `SingleLeader`, so that calls of one pod do not overlap while requests
  are fast.

### Arguments

*Allocator.* `PageConservation` is not inductive: what a thread returns must be known to come
from its hand. The inductive invariant is `TypeOK /\ HandShape /\ PageConservation /\ LimitExact`.
`HandShape` says which program points hold pages, `LimitExact` relates the limit to the withdrawn
pages, which gives that an expansion takes only withdrawn pages (`ExpansionReuses`). `MappedWhereUsed`
needs `MappedInHand` beside it, for the pages in a thread's hand. `CountersExact`
follows the cardinalities of disjoint unions through each action; with it each action of the
allocator is an action of PagePool or a stutter under the refinement mapping. It also carries
`NoLostWakeup`: a caller waits only while the free count is positive and both lists are empty, so with
nothing lost some page is in a hand, and the only other hand is the worker's, who notifies.

*Manager.* The inductive invariant `IInv` has seven parts. `LockShape` gives mutual exclusion, from the
lock or, without one, from the order of initialisation and the single client. `CallShape` says which
calls have collected or reserved blocks; `PoolShape` and `DroppedApart` keep pages and lost blocks apart;
`PagesTracked` and `BlocksAccounted` are the goals. That an empty page may be given back rests on
`BlocksAccounted`: a block is in one place, so a page whose blocks are all free is in no other. For the
capacity check, `NeedCovered` says of a thread inside the loop of `_alloc` that what it still needs is
covered by the free blocks of the pages in use and the free pages times the blocks of a page; each iteration
takes as much off both sides. The pool is used through its own actions because a page the
manager asks for is available and one it returns is held.

*Block pool.* `IInv` adds to the goals `NullApart`, `CallShape` and `LimitShape`. What `allocate_slots` found in
its lookup still holds at each later call (`CallShape`): the hits are in the index, and what is left in
the evictable list after touching them covers the need. A block that is evicted or allocated has no
holder, since its reference count is the number of requests that hold it, so no content
of a live request is overwritten. A request does not get a block twice because no prompt has a hash twice
(`PromptAssumption`). `availableSize` is the limit in blocks less the blocks handed out, by counting
blocks page by page, or the memory's size in blocks less these; while no limit is lowered (`LimitShape`) and the memory holds
what is in use and does not shrink (`MemoryShape`), nothing takes from it what was promised. Memory that grows
takes nothing away either, as long as the query does not wrap (`MoreMemory`).

*Admission.* Sums over requests and instances (`SumOf`) are cardinalities of disjoint unions, so that
the facts about sums that are needed (adding one member, fewer members, smaller terms) follow from the
theorems on finite sets. `InflightBounded` counts the requests being served, and the controller only
sees its reservations. The strengthening is `Held` (a live request whose reservation has not expired holds
one), `NoLeak` and `CountsBounded` (the controller's counts respect the limits). `NoOvercommit` is
`MemoryBounded`, the same for sizes, with `Held`. For `GuaranteeKept`, an admission raises the use of its instance
and lowers that instance's deficit; with a soft limit within the minimum the raise up to the minimum is
paid by the deficit and the rest has been checked against the siblings' (`AdmissionFits`).

*Moves.* `ModelKept` needs what a move may rely on and what it leaves for the case that it fails. `KeptInv` says, while
nothing outside the moves has interfered (`Undisturbed`): instances are stopped by moves and parked by launches only
(`Quiet`); until it is drained the source of a move is in the store, with its engine in sleep mode (`SourceIs`),
and a target that serves takes requests (`TargetIs`). Whatever the move is doing, an instance is left
that is `Safe` (its engine takes requests, or a restore under way will let it) or, while a launch is under way,
`Parked` for it, with its place in the plan that a failed launch restores (`Covered`); between moves some instance is
safe (`AtRest`). It rests on `OneMoveAtATime`, without which a second move could stop the first one's target or park
its source, and on `NewInv`: an instance that is being started is known to its own launch and monitor only.
For `NoTwoCopies`, `CopyShape` follows each move by itself: no process of the target before the launch
returns, and every way to an end passes the unload of the source or of the target; a process once gone does not
come back, whatever is written to the store.

*Registry.* The lock belongs to an inode, so `OnePrimary` needs to know that everybody who has opened
the lock file has the one that bears its name (`LockInPlace`). Only exporters unlink it, and they
are alone (`PrimariesAlone`). For the watchdog, `SourcesWrote` says that mapped memory has been
exported, hence that a primary which no longer holds the lock will not take it again, and
`ProbesInPlace` that a secondary which uses a living primary's memory asks about that primary's inode.

*Lease.* A pod claims a term when it has led in it or has written it and waits for the answer;
`ClaimsFenced` says that claims go up to the lease's term, to that one only by its holder, and that no
two pods claim one. `FreshCalls` says what a call knows as long as nobody has written since its read: the
holder, the age, and that an expired lease is still expired. For `SingleLeader`, `Timely` holds
while no call has been late: a pod has one call at a time (`OneCall`), the timer tells its age
(`CallAges`), and the age of a leader's lease is at most `Interval + Latency`, or that plus the
age of the call that will renew it or end its leadership (`LeadersRenew`). The sum stays within
`Interval + 2 * Latency`, within which nobody else may take the lease.

*Peers.* `TypeOK` says more than types: a pod's routing table has only other pods that it takes for
available, and a leader has elected itself. Every handler that changes a peer's status keeps this
only because it also takes the route away; the proof treats network, view, routes and election as four
parts.

### Only model-checked

Liveness (`WaitersServed`, `StopReturns`, `AllocReturns`, `MovesEnd`, `OrphansExit`, `RoutesConverge`,
`LeadersConverge`): the provers have no `ENABLED`, on which fairness rests. The two runs that
expect a violation.

## 6. Not modelled

GPU calls, engines' forward passes, wording and metrics; HTTP routes, database, frontend,
schedulers' scores, memory measurements, benchmarks: no state whose interleaving matters, or
pure input and output. vLLM itself is vendored, and the two copies of it make up nearly all of the
repository's lines; ElasticBlockPool has the calls its scheduler makes, WeightRegistry the overlay's
own files. The components of the plan below are left for later.

## 7. Plan

Done, in this order: PagePool, PageAllocator and its proofs; the binding; KVCacheManager;
KvAdmission and ModelMove with proofs; ElasticBlockPool; WeightRegistry and LeaseElection with
proofs; ClusterPeers.

Every safety invariant, action property and refinement of the passing runs has its theorem. Proofs
left: the binding above the allocator, and what a cluster's views have to do with each other beyond
`TypeOK` (convergence itself is liveness).

Models left, by what they would add:

1. **SleepWake**: model manager status, idle sleep, wake, activation, drain and the proxy's
   connection counts. Properties: no request is forwarded to a sleeping instance, a crash is not
   overwritten by `sleeping`, a drained instance has no request waiting for admission.
2. **WorkerIpc** with FTensor's rollback, composed with the allocator's map failure: are all
   workers' mappings equal. **ActivationPool**: the timer race.
3. **CrossPodMove**: the mover with a lost answer, over ClusterPeers' views.
4. kvcached's sleep manager and router.

Abstract specifications worth stating: a page service above WorkerIpc that maps everywhere or nowhere, an instance life
cycle that SleepWake and ModelMove both implement.
