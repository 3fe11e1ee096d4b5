----------------------------- MODULE WeightRegistry -----------------------------
(***************************************************************************)
(* Weight sharing between vLLM processes (distributed/weight_sharing):     *)
(* a primary exports the handles of its GPU memory through three files,    *)
(* primary.lock, weight_registry.json and primary_ready.signal, and holds  *)
(* an flock on the first for as long as it lives; secondaries wait for it, *)
(* map its memory and watch the lock.                                      *)
(*                                                                         *)
(* A step is one system call on these files.  An flock belongs to an       *)
(* inode, not to a name: inodes are named after the process whose open     *)
(* created them.  A process runs once; its restart is another process.     *)
(***************************************************************************)
EXTENDS Naturals, FiniteSets

CONSTANTS
    Servers,      \* primaries that are vLLM servers: they never clean up
    Exporters,    \* primaries that are weight export services: they do
    Secondaries,
    None,
    Beside        \* whether an exporter may run beside another primary

Primaries == Servers \cup Exporters
Processes == Primaries \cup Secondaries

ASSUME RegistryAssumption ==
    /\ None \notin Processes /\ Primaries \cap Secondaries = {}
    /\ Servers \cap Exporters = {} /\ Beside \in BOOLEAN

VARIABLES
    lockFile,   \* the inode primary.lock names, or None
    holder,     \* per inode: the process that holds its flock, or None
    registry,   \* the primary whose handles weight_registry.json has, or None
    ready,      \* whether primary_ready.signal is there
    fd,         \* per process: the inode it has open (_lock_fd, or is_primary_alive's fd)
    primary,    \* per primary: what it has done
    secondary,  \* per secondary: what it has done
    probe,      \* per secondary: why it asks is_primary_alive, "no" if it does not
    source      \* per secondary: the primary whose memory it maps, or None

files == <<lockFile, holder, registry, ready>>
vars  == <<files, fd, primary, secondary, probe, source>>

Holding  == {"locked", "written", "unsignalled", "exported"}
Cleaning == {"unlocked", "rmReady", "rmRegistry", "rmLock"}
PrimaryStages   == {"absent", "loading", "opened", "gone"} \cup Holding \cup Cleaning
SecondaryStages == {"absent", "opening", "reading", "mapping", "importing", "checking",
                    "running", "failed", "exited"}
Over(s) == secondary[s] \in {"failed", "exited"}

Alive(p) == primary[p] \notin {"absent", "gone"}
Holds(p) == primary[p] \in Holding

TypeOK ==
    /\ lockFile \in Primaries \cup {None}
    /\ holder \in [Primaries -> Processes \cup {None}]
    /\ registry \in Primaries \cup {None} /\ ready \in BOOLEAN
    /\ fd \in [Processes -> Primaries \cup {None}]
    /\ primary \in [Primaries -> PrimaryStages]
    /\ secondary \in [Secondaries -> SecondaryStages]
    /\ probe \in [Secondaries -> {"no", "early", "late", "watch"}]
    /\ source \in [Secondaries -> Primaries \cup {None}]
    /\ \A s \in Secondaries : secondary[s] = "running" => source[s] # None

Init ==
    /\ lockFile = None /\ holder = [i \in Primaries |-> None]
    /\ registry = None /\ ready = FALSE
    /\ fd = [p \in Processes |-> None]
    /\ primary = [p \in Primaries |-> "absent"]
    /\ secondary = [s \in Secondaries |-> "absent"]
    /\ probe = [s \in Secondaries |-> "no"]
    /\ source = [s \in Secondaries |-> None]

Close(p) == fd' = [fd EXCEPT ![p] = None]
\* What the kernel does when p's descriptor goes: its flock goes with it.
Unlock(p) == holder' = [i \in Primaries |-> IF holder[i] = p THEN None ELSE holder[i]]

-----------------------------------------------------------------------------
(* Primaries *)

PrimaryStep(p, from, to) ==
    /\ primary[p] = from
    /\ primary' = [primary EXCEPT ![p] = to]
    /\ UNCHANGED <<secondary, probe, source>>

\* The process starts and loads its model.  Unless Beside, exporters run alone.
Start(p) ==
    /\ Beside \/ \A q \in Primaries : Alive(q) => {p, q} \subseteq Servers
    /\ PrimaryStep(p, "absent", "loading")
    /\ UNCHANGED <<files, fd>>

\* acquire_primary_lock: open creates the file if it is not there ...
OpenLock(p) ==
    /\ PrimaryStep(p, "loading", "opened")
    /\ lockFile' = IF lockFile = None THEN p ELSE lockFile
    /\ fd' = [fd EXCEPT ![p] = lockFile']
    /\ UNCHANGED <<holder, registry, ready>>

\* ... then flock, which does not wait.
Lock_unchecked(p) ==      \* (a mutant: an error of flock is taken for success)
    /\ PrimaryStep(p, "opened", "locked")
    /\ holder' = [holder EXCEPT ![fd[p]] = p]
    /\ UNCHANGED <<lockFile, registry, ready, fd>>
Lock_collected(p) ==  \* (a mutant: the descriptor is not kept)
    /\ PrimaryStep(p, "opened", "locked") /\ holder[fd[p]] = None
    /\ Close(p) /\ UNCHANGED files
Lock(p) ==
    /\ PrimaryStep(p, "opened", "locked") /\ holder[fd[p]] = None
    /\ holder' = [holder EXCEPT ![fd[p]] = p]
    /\ UNCHANGED <<lockFile, registry, ready, fd>>

\* The refusal ends a server; the export service cleans up on its way out,
\* with no lock of its own.
LockRefused(p) ==
    /\ PrimaryStep(p, "opened", IF p \in Exporters THEN "unlocked" ELSE "gone")
    /\ holder[fd[p]] # None /\ Close(p)
    /\ UNCHANGED files

\* write_registry (one rename), then signal_ready's unlink and touch
WriteRegistry(p) ==
    /\ PrimaryStep(p, "locked", "written") /\ registry' = p
    /\ UNCHANGED <<lockFile, holder, ready, fd>>
RemoveSignal(p) ==
    /\ PrimaryStep(p, "written", "unsignalled") /\ ready' = FALSE
    /\ UNCHANGED <<lockFile, holder, registry, fd>>
Signal(p) ==
    /\ PrimaryStep(p, "unsignalled", "exported") /\ ready' = TRUE
    /\ UNCHANGED <<lockFile, holder, registry, fd>>

\* An export service is told to stop: cleanup unlocks, then unlinks the files.
Shutdown(p) ==
    /\ p \in Exporters /\ PrimaryStep(p, "exported", "unlocked")
    /\ Unlock(p) /\ Close(p)
    /\ UNCHANGED <<lockFile, registry, ready>>
UnlinkReady(p) ==
    /\ PrimaryStep(p, "unlocked", "rmReady") /\ ready' = FALSE
    /\ UNCHANGED <<lockFile, holder, registry, fd>>
UnlinkRegistry(p) ==
    /\ PrimaryStep(p, "rmReady", "rmRegistry") /\ registry' = None
    /\ UNCHANGED <<lockFile, holder, ready, fd>>
UnlinkLock(p) ==
    /\ PrimaryStep(p, "rmRegistry", "rmLock") /\ lockFile' = None
    /\ UNCHANGED <<holder, registry, ready, fd>>

\* The process ends, by a crash at any point or after its cleanup.
Exit(p) ==
    /\ Alive(p)
    /\ primary' = [primary EXCEPT ![p] = "gone"]
    /\ Unlock(p) /\ Close(p)
    /\ UNCHANGED <<lockFile, registry, ready, secondary, probe, source>>

PrimaryNext(p) ==
    \/ Start(p) \/ OpenLock(p) \/ Lock(p) \/ LockRefused(p)
    \/ WriteRegistry(p) \/ RemoveSignal(p) \/ Signal(p)
    \/ Shutdown(p) \/ UnlinkReady(p) \/ UnlinkRegistry(p) \/ UnlinkLock(p) \/ Exit(p)

-----------------------------------------------------------------------------
(* Secondaries *)

Become(s, stage) == secondary' = [secondary EXCEPT ![s] = stage]

\* A worker starts and waits for the primary (pre_open_handles).
Begin(s) ==
    /\ secondary[s] = "absent" /\ Become(s, "opening")
    /\ UNCHANGED <<files, fd, primary, probe, source>>

\* wait_for_primary asks is_primary_alive while there is no signal but a lock
\* file ("early"), and once when it has seen the signal ("late"); the watchdog
\* of a running secondary asks every five seconds.
Ask(s) ==
    /\ probe[s] = "no"
    /\ \E why \in {"early", "late", "watch"} :
         /\ CASE why = "watch" -> secondary[s] = "running"
              [] why = "late"  -> secondary[s] \in {"opening", "importing"} /\ ready
              [] why = "early" -> secondary[s] \in {"opening", "importing"} /\ ~ready
                                  /\ lockFile # None
         /\ probe' = [probe EXCEPT ![s] = why]
    /\ UNCHANGED <<files, fd, primary, secondary, source>>

\* What is_primary_alive's answer leads to
Answer(s, alive) ==
    /\ Become(s, CASE alive /\ probe[s] = "late" ->
                          IF secondary[s] = "opening" THEN "reading" ELSE "checking"
                   [] alive /\ probe[s] # "late" -> secondary[s]
                   [] ~alive -> IF probe[s] = "watch" THEN "exited" ELSE "failed")
    /\ probe' = [probe EXCEPT ![s] = "no"]

\* is_primary_alive: open the lock file (without one the answer is no), ...
ProbeOpen(s) ==
    /\ probe[s] # "no" /\ fd[s] = None
    /\ IF lockFile = None
       THEN Answer(s, FALSE) /\ UNCHANGED fd
       ELSE fd' = [fd EXCEPT ![s] = lockFile] /\ UNCHANGED <<secondary, probe>>
    /\ UNCHANGED <<files, primary, source>>

\* ... try to lock it, ...
Probe(s) ==
    /\ fd[s] # None /\ holder[fd[s]] # s
    /\ IF holder[fd[s]] = None
       THEN holder' = [holder EXCEPT ![fd[s]] = s] /\ UNCHANGED <<fd, secondary, probe>>
       ELSE Answer(s, TRUE) /\ Close(s) /\ UNCHANGED holder
    /\ UNCHANGED <<lockFile, registry, ready, primary, source>>

\* ... and, if that worked, unlock it again: nobody had it.
ProbeUnlock_swapped(s) ==   \* (a mutant: the two answers are swapped)
    /\ fd[s] # None /\ holder[fd[s]] = s
    /\ Answer(s, TRUE) /\ Unlock(s) /\ Close(s)
    /\ UNCHANGED <<lockFile, registry, ready, primary, source>>
ProbeUnlock(s) ==
    /\ fd[s] # None /\ holder[fd[s]] = s
    /\ Answer(s, FALSE) /\ Unlock(s) /\ Close(s)
    /\ UNCHANGED <<lockFile, registry, ready, primary, source>>

\* pre_open_handles reads the registry ...
Read_opens(s) ==   \* (a mutant: nobody looks whether there is one)
    /\ secondary[s] = "reading"
    /\ source' = [source EXCEPT ![s] = registry]
    /\ Become(s, "importing")
    /\ UNCHANGED <<files, fd, primary, probe>>
Read(s) ==
    /\ secondary[s] = "reading"
    /\ source' = [source EXCEPT ![s] = registry]
    /\ Become(s, IF registry = None THEN "failed" ELSE "mapping")
    /\ UNCHANGED <<files, fd, primary, probe>>

\* ... and opens the handles, which fails when their process has ended.
Map(s) ==
    /\ secondary[s] = "mapping"
    /\ Become(s, IF Alive(source[s]) THEN "importing" ELSE "failed")
    /\ UNCHANGED <<files, fd, primary, probe, source>>

\* import_weights, after it waited once more, reads the registry again: model
\* hash, ranks and names are compared, the tensors are those already open.
Import(s) ==
    /\ secondary[s] = "checking"
    /\ Become(s, IF registry = None THEN "failed" ELSE "running")
    /\ UNCHANGED <<files, fd, primary, probe, source>>

\* The wait times out, or the process is ended from outside.
GiveUp(s) ==
    /\ secondary[s] # "absent" /\ ~Over(s)
    /\ Become(s, "failed") /\ probe' = [probe EXCEPT ![s] = "no"]
    /\ Unlock(s) /\ Close(s)
    /\ UNCHANGED <<lockFile, registry, ready, primary, source>>

Asks(s) == Ask(s) \/ ProbeOpen(s) \/ Probe(s) \/ ProbeUnlock(s)
SecondaryNext(s) == Begin(s) \/ Asks(s) \/ Read(s) \/ Map(s) \/ Import(s) \/ GiveUp(s)

Next == (\E p \in Primaries : PrimaryNext(p)) \/ (\E s \in Secondaries : SecondaryNext(s))

Spec == Init /\ [][Next]_vars
\* The threads of a secondary keep running, its watchdog among them.
FairSpec == Spec /\ \A s \in Secondaries : WF_vars(Asks(s))

-----------------------------------------------------------------------------
(* Properties *)

\* At most one primary of a model holds the lock, although the lock file may
\* be created, left behind and removed by several processes
\* (acquire_primary_lock, cleanup).
OnePrimary ==
    \A p, q \in Primaries : Holds(p) /\ Holds(q) => p = q

\* The watchdog ends a secondary only when the primary whose memory it uses has
\* given the lock up: never because of the probes of other secondaries or the
\* files of other primaries (_watch).
ExitOnlyOnDeath ==
    \A s \in Secondaries : secondary[s] = "exited" => ~Holds(source[s])

\* A secondary whose primary has died does not keep running on its memory: the
\* watchdog notices, although other probes may hold the lock when it looks,
\* unless another primary has taken the lock (_watch, is_primary_alive).
OrphansExit ==
    \A s \in Secondaries :
        (secondary[s] = "running" /\ primary[source[s]] = "gone") ~>
        (secondary[s] # "running" \/ \E p \in Primaries \ {source[s]} : Holds(p))

===============================================================================
