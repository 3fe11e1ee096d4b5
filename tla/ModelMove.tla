------------------------------- MODULE ModelMove -------------------------------
(***************************************************************************)
(* Sardeenz's model mover: a move starts a copy of a model on other GPUs,  *)
(* waits until it is running, takes the source out of routing, drains it   *)
(* and unloads it (services/model-mover.ts), under the single lock of      *)
(* stores/move-store.ts, on the instances of services/model-manager.ts.    *)
(*                                                                         *)
(* JavaScript runs one handler at a time: a step is what runs between two  *)
(* awaits.  Each move has an executor (executeMoveAsync) and at most one   *)
(* accepted cancelMove, which run side by side with the startup monitors   *)
(* and with the restoring of instances a launch had put to sleep.  All     *)
(* instances serve the same model; only moves launch, and put to sleep.    *)
(***************************************************************************)
EXTENDS Naturals, FiniteSets

CONSTANTS Instances, Moves,
          Sources,             \* the instances there are at the beginning
          SleepMode,           \* sleepModeEnabled, which a copy takes from its source
          Overlap,             \* per instance: those it would share a GPU with
          NoInstance, NoMove,
          MaxDisturbed         \* bound: cancels; an instance that crashes or is unloaded by hand counts as two

ASSUME MoveAssumption ==
    /\ Sources \subseteq Instances /\ MaxDisturbed \in Nat
    /\ SleepMode \in BOOLEAN /\ Overlap \in [Instances -> SUBSET Instances]
    /\ NoInstance \notin Instances /\ NoMove \notin Moves

VARIABLES
    status,     \* per instance: ModelStatus of its object, or "none"
    store,      \* the instances of the model store
    routable,   \* instances that take new requests
    procs,      \* instances with a child process (ModelManager.processes)
    monitor,    \* per instance: what monitorModelStartup is waiting for
    plan,       \* launchRecoveryPlans: per instance, those its launch parked
    restoreRoutable,  \* ... and those of them that took requests before
    restoring,  \* what restoreLaunchContext has still to restore
    waking,     \* the instance whose wakeModel it waits for
    launch, left, asked,     \* per move: the instance its launchModel starts, those still
                             \* to be put to sleep for it, and the one whose sleepModel is out
    phase, source, target,   \* MoveStore.operations
    lock,       \* MoveStore.activeMove
    exec,       \* per move: what its executor is waiting for
    cancel,     \* per move: how far its cancelMove is
    unloading,  \* instances an administrator is unloading
    lost,       \* (history) instances that crashed or that an administrator unloaded
    revived     \* (history) instances written back to the store without their process

restoreVars == <<plan, restoreRoutable, restoring, waking>>
instanceVars == <<status, store, routable, procs, monitor>>
launchVars  == <<launch, left, asked>>
endVars     == <<source, target>>
moveVars    == <<phase, endVars, lock, exec, cancel>>
userVars    == <<unloading, lost, revived>>
vars == <<instanceVars, restoreVars, launchVars, moveVars, userVars>>

Init ==
    /\ \E s \in [Sources -> {"running"} \cup (IF SleepMode THEN {"sleeping"} ELSE {})] :
           status = [i \in Instances |-> IF i \in Sources THEN s[i] ELSE "none"]
    /\ store = Sources /\ routable = Sources /\ procs = Sources
    /\ monitor = [i \in Instances |-> "none"]
    /\ plan = [i \in Instances |-> {}] /\ restoreRoutable = plan /\ restoring = plan
    /\ waking = [i \in Instances |-> NoInstance]
    /\ launch = [m \in Moves |-> NoInstance] /\ asked = [m \in Moves |-> NoInstance]
    /\ left = [m \in Moves |-> {}]
    /\ phase = [m \in Moves |-> "none"]
    /\ source = [m \in Moves |-> NoInstance] /\ target = [m \in Moves |-> NoInstance]
    /\ lock = NoMove
    /\ exec = [m \in Moves |-> "none"] /\ cancel = [m \in Moves |-> "none"]
    /\ unloading = {} /\ lost = {} /\ revived = {}

-----------------------------------------------------------------------------
(* The model manager *)

Serving == {i \in store : status[i] \in {"running", "sleeping"}}
Unused  == {i \in Instances : status[i] = "none"}

\* The bound allows these instances to be lost and these moves to be cancelled as well
Disturb(instances, moves) ==
    2 * Cardinality(instances) + Cardinality({m \in Moves : cancel[m] # "none"} \cup moves) <= MaxDisturbed

\* unloadModel up to its first await: an instance without a process is removed
\* at once, the others are stopped
BeginUnload(i) ==
    IF i \in procs
    THEN status' = [status EXCEPT ![i] = "stopping"] /\ store' = store
    ELSE store' = store \ {i} /\ status' = status
\* ... and its end, whatever became of the instance meanwhile
EndUnload_keeps(i) ==   \* (a mutant: the process stays registered)
    /\ store' = store \ {i}
    /\ procs' = procs
EndUnload(i) ==
    /\ store' = store \ {i}
    /\ procs' = procs \ {i}

\* launchRecoveryPlans.delete; a restore that runs has its own list
DropPlan(i) ==
    /\ plan' = [plan EXCEPT ![i] = {}]
    /\ restoreRoutable' = [restoreRoutable EXCEPT ![i] = @ \cap restoring[i]]

\* The server of a new instance answers.  Its state is not looked at again,
\* and what its launch parked stays asleep.
Ready(i) ==
    /\ monitor[i] = "waiting" /\ i \in procs
    /\ status' = [status EXCEPT ![i] = "running"]
    /\ DropPlan(i)
    /\ monitor' = [monitor EXCEPT ![i] = "measuring"]
    /\ UNCHANGED <<store, routable, procs, restoring, waking, launchVars, moveVars, userVars>>

\* The instance is no longer there when its answer is looked at.
ReadyGone(i) ==
    /\ monitor[i] = "waiting" /\ i \notin store
    /\ DropPlan(i)
    /\ monitor' = [monitor EXCEPT ![i] = "none"]
    /\ UNCHANGED <<status, store, routable, procs, restoring, waking, launchVars, moveVars, userVars>>

\* After the memory and the chat template were looked at, the instance is
\* written to the store again, whether it is still there or not.
Measured(i) ==
    /\ monitor[i] = "measuring"
    /\ store' = store \cup {i}
    /\ revived' = revived \cup ({i} \ procs)
    /\ monitor' = [monitor EXCEPT ![i] = "none"]
    /\ UNCHANGED <<status, routable, procs, restoreVars, launchVars, moveVars, unloading, lost>>

\* It does not answer in time: what its launch parked is restored first ...
BootFails(i) ==
    /\ monitor[i] = "waiting" /\ plan[i] # {}
    /\ restoring' = [restoring EXCEPT ![i] = @ \cup plan[i]] /\ plan' = [plan EXCEPT ![i] = {}]
    /\ monitor' = [monitor EXCEPT ![i] = "restoring"]
    /\ UNCHANGED <<status, store, routable, procs, restoreRoutable, waking, launchVars, moveVars, userVars>>

\* ... and then it has failed, if it is still there.
BootFailed(i) ==
    /\ \/ monitor[i] = "waiting" /\ plan[i] = {}
       \/ monitor[i] = "restoring" /\ restoring[i] = {}
    /\ status' = [status EXCEPT ![i] = IF i \in store THEN "failed" ELSE @]
    /\ procs' = procs \ {i} /\ monitor' = [monitor EXCEPT ![i] = "none"]
    /\ UNCHANGED <<store, routable, restoreVars, launchVars, moveVars, userVars>>

\* The process exits.
Exit(i) ==
    /\ i \in procs /\ (i \in Serving => Disturb(lost \cup {i}, {}))
    /\ procs' = procs \ {i}
    /\ lost' = IF i \in Serving THEN lost \cup {i} ELSE lost
    /\ \/ status[i] = "stopping" /\ UNCHANGED <<status, restoring, plan>>
       \/ /\ status[i] # "stopping" /\ status' = [status EXCEPT ![i] = "failed"]
          /\ restoring' = [restoring EXCEPT ![i] = @ \cup plan[i]]
          /\ plan' = [plan EXCEPT ![i] = {}]
    /\ UNCHANGED <<store, routable, monitor, restoreRoutable, waking, launchVars, moveVars, unloading, revived>>

\* DELETE /api/models/instances/:id
UserUnload(i) ==
    /\ i \in store \ unloading /\ Disturb(lost \cup {i}, {})
    /\ BeginUnload(i)
    /\ unloading' = IF i \in procs THEN unloading \cup {i} ELSE unloading
    /\ lost' = lost \cup {i}
    /\ UNCHANGED <<routable, procs, monitor, restoreVars, launchVars, moveVars, revived>>

UserUnloaded(i) ==
    /\ i \in unloading /\ EndUnload(i)
    /\ unloading' = unloading \ {i}
    /\ UNCHANGED <<status, routable, monitor, restoreVars, launchVars, moveVars, lost, revived>>

-----------------------------------------------------------------------------
(* Sleep mode: instances that share a GPU with a new one are parked *)

\* setRoutable(i, TRUE) for these instances
Reroute(instances) == routable' = routable \cup (instances \cap store)

Siblings(i) == IF SleepMode THEN store \cap Overlap[i] ELSE {}
Parkable(i) == {j \in Siblings(i) : status[j] = "running"}
Blocked(i)  == \E j \in Siblings(i) : status[j] = "starting"

\* restoreLaunchContext: an instance that is gone, or is not asleep, needs no
\* wakeModel; a sleeping one does
Restored(i, s) ==
    /\ restoring' = [restoring EXCEPT ![i] = @ \ {s}]
    /\ restoreRoutable' = [restoreRoutable EXCEPT ![i] = @ \ {s}]

RestoreNext(i) ==
    /\ waking[i] = NoInstance
    /\ \E s \in restoring[i] :
          \/ /\ ~(s \in store /\ status[s] = "sleeping") /\ Restored(i, s)
             /\ Reroute({s} \cap restoreRoutable[i]) /\ UNCHANGED waking
          \/ /\ s \in store /\ status[s] = "sleeping"
             /\ waking' = [waking EXCEPT ![i] = s]
             /\ UNCHANGED <<restoring, restoreRoutable, routable>>
    /\ UNCHANGED <<status, store, procs, monitor, plan, launchVars, moveVars, userVars>>

\* wakeModel returns, whatever became of the instance meanwhile, ...
Woken(i) ==
    LET s == waking[i]
    IN  /\ s # NoInstance /\ Restored(i, s)
        /\ waking' = [waking EXCEPT ![i] = NoInstance]
        /\ status' = [status EXCEPT ![s] = "running"]
        /\ store' = store \cup {s} /\ routable' = routable \cup {s}
        /\ revived' = revived \cup ({s} \ procs)
        /\ UNCHANGED <<procs, monitor, plan, launchVars, moveVars, unloading, lost>>

\* ... or fails, which is only logged.
NotWoken(i) ==
    LET s == waking[i]
    IN  /\ s # NoInstance /\ Restored(i, s)
        /\ waking' = [waking EXCEPT ![i] = NoInstance]
        /\ Reroute({s} \cap restoreRoutable[i])
        /\ UNCHANGED <<status, store, procs, monitor, plan, launchVars, moveVars, userVars>>

-----------------------------------------------------------------------------
(* The move store *)

Ended(m) == phase[m] \in {"completed", "failed"}

\* complete(m, p), on the phases before it; the lock is released if it is m's
Complete_keeps(m, phases, p) ==   \* a mutant: only a success releases the lock
    /\ phase' = [phases EXCEPT ![m] = p]
    /\ lock' = IF lock = m /\ p = "completed" THEN NoMove ELSE lock
Complete(m, phases, p) ==
    /\ phase' = [phases EXCEPT ![m] = p]
    /\ lock' = IF lock = m THEN NoMove ELSE lock

-----------------------------------------------------------------------------
(* executeMoveAsync *)

At(m, place) == exec' = [exec EXCEPT ![m] = place]

\* moveModel up to the check of the GPUs' memory
Request(m, i) ==
    /\ exec[m] = "none" /\ At(m, "checking")
    /\ i \in Serving
    /\ \A n \in Moves : source[n] = i => Ended(n) \/ phase[n] = "none"
    /\ source' = [source EXCEPT ![m] = i]
    /\ UNCHANGED <<instanceVars, restoreVars, launchVars, phase, target, lock, cancel, userVars>>

\* The check or the lock refuses the move ...
NotCreated(m) ==
    /\ exec[m] = "checking" /\ At(m, "none")
    /\ source' = [source EXCEPT ![m] = NoInstance]
    /\ UNCHANGED <<instanceVars, restoreVars, launchVars, phase, target, lock, cancel, userVars>>

\* ... or moveStore.create accepts it, and the executor runs up to launchModel.
Create_unlocked(m) ==   \* a mutant: the lock is taken without looking
    /\ exec[m] = "checking"
    /\ source[m] \in store /\ lock' = m
    /\ phase' = [phase EXCEPT ![m] = "spawning"] /\ At(m, "launching")
    /\ UNCHANGED <<instanceVars, restoreVars, launchVars, endVars, cancel, userVars>>
Create(m) ==
    /\ exec[m] = "checking" /\ lock = NoMove
    /\ \/ /\ source[m] \in store /\ lock' = m
          /\ phase' = [phase EXCEPT ![m] = "spawning"] /\ At(m, "launching")
       \/ /\ source[m] \notin store /\ lock' = lock
          /\ phase' = [phase EXCEPT ![m] = "failed"] /\ At(m, "done")
    /\ UNCHANGED <<instanceVars, restoreVars, launchVars, endVars, cancel, userVars>>

\* The catch block: rollback puts the source back into routing and unloads the
\* target, if there is one; it waits for that or ends.
Rollback_leaves(m, phases) ==   \* a mutant: the target is left running
    /\ Reroute({source[m]})
    /\ Complete(m, phases, "failed") /\ At(m, "done")
    /\ UNCHANGED <<endVars, status, store, procs, monitor, restoreVars, launchVars, cancel, userVars>>
Rollback(m, phases) ==
    LET t == target[m]
    IN  /\ Reroute({source[m]})
        /\ UNCHANGED <<endVars, procs, monitor, restoreVars, launchVars, cancel, userVars>>
        /\ \/ /\ t \in procs /\ BeginUnload(t)
              /\ phase' = phases /\ lock' = lock /\ At(m, "rolling back")
           \/ /\ t \in store \ procs /\ BeginUnload(t)
              /\ Complete(m, phases, "failed") /\ At(m, "done")
           \/ /\ t \notin store /\ UNCHANGED <<status, store>>
              /\ Complete(m, phases, "failed") /\ At(m, "done")

\* prepareLaunchContext: running instances that share a GPU with the new one
\* stop taking requests, the source among them, ...
Park(m, i) ==
    /\ exec[m] = "launching" /\ At(m, "parking")
    /\ i \in Unused /\ Parkable(i) # {} /\ ~Blocked(i)
    /\ status' = [status EXCEPT ![i] = "starting"]
    /\ plan' = [plan EXCEPT ![i] = Parkable(i)]
    /\ restoreRoutable' = [restoreRoutable EXCEPT ![i] = Parkable(i) \cap routable]
    /\ routable' = routable \ Parkable(i)
    /\ launch' = [launch EXCEPT ![m] = i] /\ left' = [left EXCEPT ![m] = Parkable(i)]
    /\ UNCHANGED <<store, procs, monitor, restoring, waking, asked, phase, endVars, lock, cancel, userVars>>

\* ... are drained, and are put to sleep one after the other (sleepModel).
AskSleep(m) ==
    /\ exec[m] = "parking" /\ asked[m] = NoInstance
    /\ \E s \in left[m] \cap store :
          /\ status[s] = "running"
          /\ asked' = [asked EXCEPT ![m] = s] /\ left' = [left EXCEPT ![m] = @ \ {s}]
    /\ UNCHANGED <<instanceVars, restoreVars, launch, moveVars, userVars>>

\* The call returns, whatever became of the instance meanwhile.
Slept(m) ==
    LET s == asked[m]
    IN  /\ exec[m] = "parking" /\ s \in procs
        /\ status' = [status EXCEPT ![s] = "sleeping"]
        /\ asked' = [asked EXCEPT ![m] = NoInstance]
        /\ UNCHANGED <<store, routable, procs, monitor, restoreVars, launch, left, moveVars, userVars>>

\* launchModel spawns the server and returns a starting instance ...
Launched(m, i) ==
    /\ At(m, "waiting")
    /\ \/ exec[m] = "launching" /\ i \in Unused /\ Parkable(i) = {} /\ ~Blocked(i)
       \/ exec[m] = "parking" /\ i = launch[m] /\ left[m] = {} /\ asked[m] = NoInstance
    /\ status' = [status EXCEPT ![i] = "starting"]
    /\ store' = store \cup {i} /\ routable' = routable \cup {i} /\ procs' = procs \cup {i}
    /\ monitor' = [monitor EXCEPT ![i] = "waiting"]
    /\ target' = [target EXCEPT ![m] = i] /\ launch' = [launch EXCEPT ![m] = i]
    /\ UNCHANGED <<restoreVars, left, asked, phase, source, lock, cancel, userVars>>

\* ... or leaves a failed instance behind that the move does not know of,
\* restores what it parked ...
LaunchFails(m, i) ==
    /\ At(m, "failing")
    /\ \/ exec[m] = "launching" /\ i \in Unused
       \/ /\ exec[m] = "parking" /\ i = launch[m]
          /\ \/ asked[m] # NoInstance \/ left[m] = {}
             \/ \E s \in left[m] : s \notin store \/ status[s] # "running"
    /\ status' = [status EXCEPT ![i] = "failed"] /\ store' = store \cup {i}
    /\ restoring' = [restoring EXCEPT ![i] = @ \cup plan[i]] /\ plan' = [plan EXCEPT ![i] = {}]
    /\ launch' = [launch EXCEPT ![m] = i]
    /\ left' = [left EXCEPT ![m] = {}] /\ asked' = [asked EXCEPT ![m] = NoInstance]
    /\ UNCHANGED <<routable, procs, monitor, restoreRoutable, waking, phase, endVars, lock, cancel, userVars>>

\* ... and throws; or it throws before there is an instance.
LaunchThrows(m) ==
    /\ \/ exec[m] = "launching"
       \/ exec[m] = "failing" /\ restoring[launch[m]] = {}
    /\ Rollback(m, phase)

\* waitForRunning finds the target running; switching and draining begin.
Switch_early(m) ==   \* a mutant: the target need not be running
    /\ exec[m] = "waiting" /\ At(m, "draining")
    /\ target[m] \in store
    /\ routable' = routable \ ({source[m]} \cap store)
    /\ phase' = [phase EXCEPT ![m] = "draining"]
    /\ UNCHANGED <<endVars, status, store, procs, monitor, restoreVars, launchVars, lock, cancel, userVars>>
Switch(m) ==
    /\ exec[m] = "waiting" /\ At(m, "draining")
    /\ target[m] \in store /\ status[target[m]] = "running"
    /\ routable' = routable \ ({source[m]} \cap store)
    /\ phase' = [phase EXCEPT ![m] = "draining"]
    /\ UNCHANGED <<endVars, status, store, procs, monitor, restoreVars, launchVars, lock, cancel, userVars>>

\* The target failed, disappeared or takes more than 30 minutes.
WaitFails(m) ==
    /\ exec[m] = "waiting" /\ Rollback(m, phase)

\* No connection is left, or the drain timeout has passed: the source is unloaded.
Drained(m) ==
    LET s   == source[m]
        phases == [phase EXCEPT ![m] = "completing"]
    IN  /\ exec[m] = "draining"
        /\ \/ s \notin store /\ Rollback(m, phases)
           \/ /\ s \in store /\ BeginUnload(s)
              /\ \/ s \in procs /\ phase' = phases /\ lock' = lock /\ At(m, "unloading")
                 \/ s \notin procs /\ Complete(m, phases, "completed") /\ At(m, "done")
              /\ UNCHANGED <<endVars, routable, procs, monitor, restoreVars, launchVars, cancel, userVars>>

SourceUnloaded(m) ==
    /\ exec[m] = "unloading" /\ At(m, "done")
    /\ EndUnload(source[m]) /\ Complete(m, phase, "completed")
    /\ UNCHANGED <<endVars, status, routable, monitor, restoreVars, launchVars, cancel, userVars>>

RolledBack(m) ==
    /\ exec[m] = "rolling back" /\ At(m, "done")
    /\ EndUnload(target[m]) /\ Complete(m, phase, "failed")
    /\ UNCHANGED <<endVars, status, routable, monitor, restoreVars, launchVars, cancel, userVars>>

-----------------------------------------------------------------------------
(* cancelMove; a move has at most one that does something *)

CancelAt(m, place) == cancel' = [cancel EXCEPT ![m] = place]

Cancellable(m) ==
    cancel[m] = "none" /\ phase[m] \in {"spawning", "draining"} /\ Disturb(lost, {m})

\* Not forced
RevertToSource(m) ==
    LET t == target[m]
    IN  /\ Cancellable(m)
        /\ Reroute({source[m]})
        /\ \/ /\ t \in procs /\ BeginUnload(t)
              /\ CancelAt(m, "reverting") /\ UNCHANGED <<phase, lock>>
           \/ /\ t \in store \ procs /\ BeginUnload(t)
              /\ CancelAt(m, "reverted") /\ Complete(m, phase, "failed")
           \/ /\ t \notin store /\ UNCHANGED <<status, store>>
              /\ CancelAt(m, "reverted") /\ Complete(m, phase, "failed")
        /\ UNCHANGED <<endVars, procs, monitor, restoreVars, launchVars, exec, userVars>>

Reverted(m) ==
    /\ cancel[m] = "reverting" /\ CancelAt(m, "reverted")
    /\ EndUnload(target[m]) /\ Complete(m, phase, "failed")
    /\ UNCHANGED <<endVars, status, routable, monitor, restoreVars, launchVars, exec, userVars>>

\* Forced
ForceComplete(m) ==
    LET s == source[m]
    IN  /\ Cancellable(m)
        /\ \/ /\ s \in procs /\ BeginUnload(s)
              /\ CancelAt(m, "forcing") /\ UNCHANGED <<phase, lock>>
           \/ /\ s \in store \ procs /\ BeginUnload(s)
              /\ CancelAt(m, "forced") /\ Complete(m, phase, "completed")
           \/ /\ s \notin store /\ UNCHANGED <<status, store>>
              /\ CancelAt(m, "forced") /\ Complete(m, phase, "completed")
        /\ UNCHANGED <<endVars, routable, procs, monitor, restoreVars, launchVars, exec, userVars>>

Forced(m) ==
    /\ cancel[m] = "forcing" /\ CancelAt(m, "forced")
    /\ EndUnload(source[m]) /\ Complete(m, phase, "completed")
    /\ UNCHANGED <<endVars, status, routable, monitor, restoreVars, launchVars, exec, userVars>>

-----------------------------------------------------------------------------
Step(m) ==
    \/ NotCreated(m) \/ Create(m)
    \/ \E i \in Instances : Park(m, i) \/ Launched(m, i) \/ LaunchFails(m, i)
    \/ AskSleep(m) \/ Slept(m) \/ LaunchThrows(m)
    \/ Switch(m) \/ WaitFails(m) \/ Drained(m) \/ SourceUnloaded(m) \/ RolledBack(m)
CancelStep(m) == Reverted(m) \/ Forced(m)
Restore(i) == RestoreNext(i) \/ Woken(i) \/ NotWoken(i)
Monitor(i) == Ready(i) \/ ReadyGone(i) \/ Measured(i) \/ BootFails(i) \/ BootFailed(i)

Next ==
    \/ \E m \in Moves : (\E i \in Instances : Request(m, i))
                        \/ Step(m) \/ RevertToSource(m) \/ ForceComplete(m) \/ CancelStep(m)
    \/ \E i \in Instances : Monitor(i) \/ Restore(i) \/ Exit(i) \/ UserUnload(i) \/ UserUnloaded(i)

Spec == Init /\ [][Next]_vars

\* Every wait of an executor, of a cancel and of a restore is bounded by a
\* timeout of its own.
Fairness ==
    /\ \A m \in Moves : WF_vars(Step(m)) /\ WF_vars(CancelStep(m))
    /\ \A i \in Instances : WF_vars(Restore(i))
FairSpec == Spec /\ Fairness

-----------------------------------------------------------------------------
(* Properties *)

Phases == {"none", "spawning", "draining", "completing", "completed", "failed"}
Statuses == {"none", "starting", "running", "sleeping", "stopping", "failed"}
Places == {"none", "checking", "launching", "parking", "failing", "waiting", "draining",
           "unloading", "rolling back", "done"}
CancelPlaces == {"none", "reverting", "reverted", "forcing", "forced"}
AnyInstance == Instances \cup {NoInstance}

TypeOK ==
    /\ status \in [Instances -> Statuses] /\ store \subseteq Instances
    /\ routable \subseteq Instances /\ procs \subseteq store
    /\ monitor \in [Instances -> {"none", "waiting", "restoring", "measuring"}]
    /\ plan \in [Instances -> SUBSET Instances] /\ restoring \in [Instances -> SUBSET Instances]
    /\ restoreRoutable \in [Instances -> SUBSET Instances]
    /\ waking \in [Instances -> AnyInstance]
    /\ launch \in [Moves -> AnyInstance] /\ asked \in [Moves -> AnyInstance]
    /\ left \in [Moves -> SUBSET Instances]
    /\ phase \in [Moves -> Phases]
    /\ source \in [Moves -> AnyInstance] /\ target \in [Moves -> AnyInstance]
    /\ lock \in Moves \cup {NoMove}
    /\ exec \in [Moves -> Places] /\ cancel \in [Moves -> CancelPlaces]
    /\ unloading \subseteq Instances /\ lost \subseteq Instances /\ revived \subseteq Instances

Executing(m) == exec[m] \notin {"none", "checking", "done"}
Cancelling(m) == cancel[m] \in {"reverting", "forcing"}

\* "Only 1 move operation can run system-wide at a time" holds for the moves
\* nobody cancels: each of them runs under the lock, and the lock never
\* outlives its move.
OneMoveAtATime ==
    \A m \in Moves :
        /\ Executing(m) /\ cancel[m] = "none" => lock = m
        /\ lock = m => Executing(m) \/ Cancelling(m)

\* Instances a launch has parked are still to be restored or given up.
Parking == \E i \in Instances : plan[i] # {} \/ restoring[i] # {}

\* Nothing but moves has touched the model: no serving instance crashed, none was
\* unloaded by hand, and no move was cancelled.  In sleep mode an instance written
\* back without its process could be moved, and the one that serves be parked for it.
Undisturbed ==
    /\ lost = {} /\ (SleepMode => revived = {})
    /\ \A m \in Moves : cancel[m] = "none"

\* Blue-green: moves keep the model served, by an instance with a process that
\* takes requests, whichever of them fail; only while sleep mode has parked
\* instances for a launch on the same GPUs may there be none.
ModelKept ==
    Undisturbed /\ Sources # {} => Serving \cap routable \cap procs # {} \/ Parking

\* Once a move is over only one of its two engines is left; a late write of the
\* startup monitor may bring back an entry in the store, never a process.
NoTwoCopies ==
    \A m \in Moves :
        exec[m] = "done" /\ ~Cancelling(m) =>
            ~({source[m], target[m]} \subseteq procs)

\* Every move ends and gives its lock back.
MovesEnd == \A m \in Moves : exec[m] = "launching" ~> exec[m] = "done" /\ lock # m

===============================================================================
