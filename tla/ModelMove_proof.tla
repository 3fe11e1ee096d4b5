---------------------------- MODULE ModelMove_proof ----------------------------
(* Proofs about the model mover, for every set of moves and instances, with and *)
(* without sleep mode.                                                          *)
EXTENDS ModelMove, TLAPS

USE MoveAssumption

\* The catch block of an executor, whatever phases it starts from.
LEMMA RollbackType ==
    ASSUME TypeOK, NEW m \in Moves, NEW phases \in [Moves -> Phases], Rollback(m, phases)
    PROVE  TypeOK'
<1> USE DEF TypeOK, Statuses, Phases, Places, CancelPlaces, AnyInstance, userVars, endVars,
            restoreVars, launchVars, At, Complete, BeginUnload, Reroute
<1>1. /\ UNCHANGED <<source, target, procs, monitor, restoreVars, launchVars, cancel, userVars>>
      /\ routable' \subseteq Instances
  BY DEF Rollback
<1>2. status' \in [Instances -> Statuses] /\ store' \subseteq Instances /\ procs' \subseteq store'
  <2>1. \/ status' = [status EXCEPT ![target[m]] = "stopping"] /\ store' = store
        \/ status' = status /\ target[m] \notin procs /\ (store' = store \ {target[m]} \/ store' = store)
    BY DEF Rollback
  <2> QED
    BY <1>1, <2>1
<1>3. phase' \in [Moves -> Phases] /\ lock' \in Moves \cup {NoMove} /\ exec' \in [Moves -> Places]
  <2>1. /\ phase' = phases \/ phase' = [phases EXCEPT ![m] = "failed"]
        /\ lock' = lock \/ lock' = NoMove
        /\ exec' = [exec EXCEPT ![m] = "rolling back"] \/ exec' = [exec EXCEPT ![m] = "done"]
    BY DEF Rollback
  <2> QED
    BY <2>1
<1> QED
  BY <1>1, <1>2, <1>3

\* Type correctness: however moves, cancels, launches, restores, crashes and
\* unloads by hand interleave, a process belongs to an instance of the store and
\* every move keeps a source and a target of the right kind.
THEOREM TypeCorrect == Spec => []TypeOK
<1> USE DEF TypeOK, Statuses, Phases, Places, CancelPlaces, AnyInstance
<1>1. Init => TypeOK
  BY DEF Init
<1>2. TypeOK /\ [Next]_vars => TypeOK'
  <2> SUFFICES ASSUME TypeOK, [Next]_vars PROVE TypeOK'
    OBVIOUS
  <2> USE DEF instanceVars, restoreVars, launchVars, endVars, moveVars, userVars, At, CancelAt,
              Complete, BeginUnload, EndUnload, Reroute, Restored
  <2>1. ASSUME NEW m \in Moves, NEW i \in Instances, Request(m, i) PROVE TypeOK'
    BY <2>1 DEF Request, Serving, Ended
  <2>2. ASSUME NEW m \in Moves, NotCreated(m) PROVE TypeOK'
    BY <2>2 DEF NotCreated
  <2>3. ASSUME NEW m \in Moves, Create(m) PROVE TypeOK'
    BY <2>3 DEF Create
  <2>4. ASSUME NEW m \in Moves, NEW i \in Instances, Park(m, i) PROVE TypeOK'
    <3>1. Parkable(i) \subseteq Instances
      BY DEF Parkable, Siblings
    <3> QED
      BY <2>4, <3>1 DEF Park
  <2>5. ASSUME NEW m \in Moves, AskSleep(m) PROVE TypeOK'
    <3>1. PICK s \in Instances : asked' = [asked EXCEPT ![m] = s] /\ left' = [left EXCEPT ![m] = @ \ {s}]
      BY <2>5 DEF AskSleep
    <3>2. asked' \in [Moves -> AnyInstance] /\ left' \in [Moves -> SUBSET Instances]
      BY <3>1
    <3> QED
      BY <2>5, <3>2 DEF AskSleep
  <2>6. ASSUME NEW m \in Moves, Slept(m) PROVE TypeOK'
    BY <2>6 DEF Slept
  <2>7. ASSUME NEW m \in Moves, NEW i \in Instances, Launched(m, i) PROVE TypeOK'
    BY <2>7 DEF Launched
  <2>8. ASSUME NEW m \in Moves, NEW i \in Instances, LaunchFails(m, i) PROVE TypeOK'
    BY <2>8 DEF LaunchFails
  <2>9. ASSUME NEW m \in Moves, LaunchThrows(m) \/ WaitFails(m) PROVE TypeOK'
    BY <2>9, RollbackType DEF LaunchThrows, WaitFails
  <2>10. ASSUME NEW m \in Moves, Switch(m) PROVE TypeOK'
    BY <2>10 DEF Switch
  <2>11. ASSUME NEW m \in Moves, Drained(m) PROVE TypeOK'
    <3> DEFINE phases == [phase EXCEPT ![m] = "completing"]
    <3>1. phases \in [Moves -> Phases]
      OBVIOUS
    <3>2. CASE Rollback(m, phases)
      BY <3>1, <3>2, RollbackType
    <3>3. CASE ~Rollback(m, phases)
      <4>1. /\ UNCHANGED <<endVars, routable, procs, monitor, restoreVars, launchVars, cancel, userVars>>
            /\ BeginUnload(source[m]) /\ source[m] \in store
            /\ \/ source[m] \in procs /\ phase' = phases /\ lock' = lock /\ At(m, "unloading")
               \/ source[m] \notin procs /\ Complete(m, phases, "completed") /\ At(m, "done")
        BY <2>11, <3>3 DEF Drained
      <4>2. status' \in [Instances -> Statuses] /\ store' \subseteq Instances /\ procs' \subseteq store'
        <5>1. \/ status' = [status EXCEPT ![source[m]] = "stopping"] /\ store' = store
              \/ status' = status /\ source[m] \notin procs /\ store' = store \ {source[m]}
          BY <4>1
        <5>2. procs' = procs /\ status \in [Instances -> Statuses] /\ store \subseteq Instances /\ procs \subseteq store
          BY <4>1
        <5> QED
          BY <5>1, <5>2
      <4>3. phase' \in [Moves -> Phases] /\ lock' \in Moves \cup {NoMove} /\ exec' \in [Moves -> Places]
        <5>1. phase' = phases \/ phase' = [phases EXCEPT ![m] = "completed"]
          BY <4>1
        <5>2. phase' \in [Moves -> Phases]
          BY <3>1, <5>1
        <5> QED
          BY <4>1, <5>2
      <4> QED
        BY <4>1, <4>2, <4>3
    <3> QED
      BY <3>2, <3>3
  <2>12. ASSUME NEW m \in Moves, SourceUnloaded(m) \/ RolledBack(m) PROVE TypeOK'
    BY <2>12, ZenonT(40) DEF SourceUnloaded, RolledBack
  <2>13. ASSUME NEW m \in Moves, RevertToSource(m) PROVE TypeOK'
    BY <2>13, ZenonT(40) DEF RevertToSource, Cancellable
  <2>14. ASSUME NEW m \in Moves, ForceComplete(m) PROVE TypeOK'
    BY <2>14, ZenonT(40) DEF ForceComplete, Cancellable
  <2>15. ASSUME NEW m \in Moves, CancelStep(m) PROVE TypeOK'
    BY <2>15, ZenonT(40) DEF CancelStep, Reverted, Forced
  <2>16. ASSUME NEW i \in Instances, Monitor(i) PROVE TypeOK'
    <3>1. CASE Ready(i)
      BY <3>1 DEF Ready, DropPlan
    <3>2. CASE ReadyGone(i)
      BY <3>2 DEF ReadyGone, DropPlan
    <3>3. CASE Measured(i)
      BY <3>3 DEF Measured
    <3>4. CASE BootFails(i)
      BY <3>4 DEF BootFails
    <3>5. CASE BootFailed(i)
      BY <3>5 DEF BootFailed
    <3> QED
      BY <2>16, <3>1, <3>2, <3>3, <3>4, <3>5 DEF Monitor
  <2>17. ASSUME NEW i \in Instances, Restore(i) PROVE TypeOK'
    <3>1. CASE RestoreNext(i)
      <4>1. PICK s \in restoring[i] :
                \/ Restored(i, s) /\ Reroute({s} \cap restoreRoutable[i]) /\ UNCHANGED waking
                \/ /\ waking' = [waking EXCEPT ![i] = s]
                   /\ UNCHANGED <<restoring, restoreRoutable, routable>>
        BY <3>1 DEF RestoreNext
      <4>2. /\ restoring' \in [Instances -> SUBSET Instances] /\ waking' \in [Instances -> AnyInstance]
            /\ restoreRoutable' \in [Instances -> SUBSET Instances] /\ routable' \subseteq Instances
        <5>1. CASE Restored(i, s) /\ Reroute({s} \cap restoreRoutable[i]) /\ UNCHANGED waking
          BY <4>1, <5>1
        <5>2. CASE waking' = [waking EXCEPT ![i] = s] /\ UNCHANGED <<restoring, restoreRoutable, routable>>
          BY <5>2
        <5> QED
          BY <4>1, <5>1, <5>2
      <4> QED
        BY <3>1, <4>2 DEF RestoreNext
    <3>2. CASE Woken(i)
      BY <3>2 DEF Woken
    <3>3. CASE NotWoken(i)
      BY <3>3 DEF NotWoken
    <3> QED
      BY <2>17, <3>1, <3>2, <3>3 DEF Restore
  <2>18. ASSUME NEW i \in Instances, Exit(i) PROVE TypeOK'
    <3>1. status' \in [Instances -> Statuses]
      BY <2>18 DEF Exit
    <3>2. procs' = procs \ {i} /\ store' = store /\ (lost' = lost \/ lost' = lost \cup {i})
      BY <2>18 DEF Exit
    <3>3. plan' \in [Instances -> SUBSET Instances] /\ restoring' \in [Instances -> SUBSET Instances]
      <4>1. CASE UNCHANGED <<plan, restoring>>
        BY <4>1
      <4>2. CASE /\ restoring' = [restoring EXCEPT ![i] = @ \cup plan[i]]
                 /\ plan' = [plan EXCEPT ![i] = {}]
        BY <4>2
      <4> QED
        BY <2>18, <4>1, <4>2 DEF Exit
    <3> QED
      BY <2>18, <3>1, <3>2, <3>3 DEF Exit
  <2>19. ASSUME NEW i \in Instances, UserUnload(i) \/ UserUnloaded(i) PROVE TypeOK'
    BY <2>19 DEF UserUnload, UserUnloaded
  <2>20. CASE UNCHANGED vars
    BY <2>20 DEF vars
  <2> QED
    BY <2>1, <2>2, <2>3, <2>4, <2>5, <2>6, <2>7, <2>8, <2>9, <2>10, <2>11, <2>12, <2>13,
       <2>14, <2>15, <2>16, <2>17, <2>18, <2>19, <2>20 DEF Next, Step
<1> QED
  BY <1>1, <1>2, PTL DEF Spec
-----------------------------------------------------------------------------
\* A move holds the lock from its creation to its end, unless it is cancelled.
THEOREM OneMove == Spec => []OneMoveAtATime
<1>1. Init => OneMoveAtATime
  BY DEF Init, OneMoveAtATime, Executing, Cancelling
<1>2. TypeOK /\ OneMoveAtATime /\ [Next]_vars => OneMoveAtATime'
  <2> SUFFICES ASSUME TypeOK, OneMoveAtATime, [Next]_vars PROVE OneMoveAtATime'
    OBVIOUS
  <2> USE DEF TypeOK, OneMoveAtATime, Executing, Cancelling, At, CancelAt, Complete,
              instanceVars, restoreVars, launchVars, endVars, moveVars, userVars
  <2>1. ASSUME NEW m \in Moves, NEW i \in Instances, Request(m, i) PROVE OneMoveAtATime'
    BY <2>1 DEF Request
  <2>2. ASSUME NEW m \in Moves, NotCreated(m) PROVE OneMoveAtATime'
    BY <2>2 DEF NotCreated
  <2>3. ASSUME NEW m \in Moves, Create(m) PROVE OneMoveAtATime'
    BY <2>3 DEF Create
  <2>4. ASSUME NEW m \in Moves, NEW i \in Instances, Park(m, i) \/ Launched(m, i) \/ LaunchFails(m, i)
        PROVE  OneMoveAtATime'
    BY <2>4 DEF Park, Launched, LaunchFails
  <2>5. ASSUME NEW m \in Moves, LaunchThrows(m) PROVE OneMoveAtATime'
    <3>1. Executing(m) /\ cancel' = cancel /\ \/ exec' = [exec EXCEPT ![m] = "rolling back"] /\ lock' = lock
                                              \/ /\ exec' = [exec EXCEPT ![m] = "done"]
                                                 /\ lock' = IF lock = m THEN NoMove ELSE lock
      BY <2>5 DEF LaunchThrows, Rollback
    <3> QED
      BY <3>1
  <2>6. ASSUME NEW m \in Moves, Switch(m) PROVE OneMoveAtATime'
    BY <2>6 DEF Switch
  <2>7. ASSUME NEW m \in Moves, WaitFails(m) PROVE OneMoveAtATime'
    BY <2>7 DEF WaitFails, Rollback
  <2>8. ASSUME NEW m \in Moves, Drained(m) PROVE OneMoveAtATime'
    BY <2>8, ZenonT(40) DEF Drained, Rollback
  <2>9. ASSUME NEW m \in Moves, SourceUnloaded(m) \/ RolledBack(m) PROVE OneMoveAtATime'
    BY <2>9 DEF SourceUnloaded, RolledBack
  <2>10. ASSUME NEW m \in Moves, RevertToSource(m) \/ ForceComplete(m) PROVE OneMoveAtATime'
    BY <2>10 DEF RevertToSource, ForceComplete, Cancellable
  <2>11. ASSUME NEW m \in Moves, CancelStep(m) PROVE OneMoveAtATime'
    BY <2>11 DEF CancelStep, Reverted, Forced
  <2>12. ASSUME UNCHANGED <<lock, exec, cancel>> PROVE OneMoveAtATime'
    BY <2>12
  <2>13. ASSUME NEW m \in Moves, AskSleep(m) \/ Slept(m) PROVE UNCHANGED <<lock, exec, cancel>>
    BY <2>13 DEF AskSleep, Slept
  <2>14. ASSUME NEW i \in Instances, Monitor(i) \/ Restore(i) PROVE UNCHANGED <<lock, exec, cancel>>
    BY <2>14 DEF Monitor, Restore, Ready, ReadyGone, Measured, BootFails, BootFailed, RestoreNext, Woken, NotWoken
  <2>15. ASSUME NEW i \in Instances, Exit(i) \/ UserUnload(i) \/ UserUnloaded(i)
         PROVE  UNCHANGED <<lock, exec, cancel>>
    BY <2>15 DEF Exit, UserUnload, UserUnloaded
  <2> QED
    BY <2>1, <2>2, <2>3, <2>4, <2>5, <2>6, <2>7, <2>8, <2>9, <2>10, <2>11, <2>12, <2>13, <2>14, <2>15
       DEF Next, Step, vars
<1> QED
  BY <1>1, <1>2, TypeCorrect, PTL DEF Spec

-----------------------------------------------------------------------------
(* What sets a new instance apart from those that moves and restores touch. *)

Unborn(i) == status[i] = "none" \/ \E m \in Moves : exec[m] = "parking" /\ launch[m] = i
Young(i) == Unborn(i) \/ monitor[i] \in {"waiting", "restoring"}

\* An instance that was not spawned yet is nowhere, and no move has it.
NotYetThere(i) == i \notin store /\ monitor[i] = "none" /\ \A m \in Moves : target[m] # i

\* Until its server has answered an instance does not serve, and nobody moves
\* it, puts it to sleep or wakes it.
LeftAlone(i) ==
    /\ status[i] \notin {"running", "sleeping"}
    /\ \A j \in Instances : waking[j] # i
    /\ \A m \in Moves : asked[m] # i /\ source[m] # i

\* A launch that is parking others has an instance of its own.
OwnLaunch(m) ==
    exec[m] = "parking" =>
        /\ launch[m] \in Instances /\ status[launch[m]] # "none"
        /\ \A n \in Moves \ {m} : exec[n] = "parking" => launch[n] # launch[m]

NewInv ==
    /\ \A i \in Instances : /\ Unborn(i) => NotYetThere(i)
                            /\ Young(i) => LeftAlone(i)
                            /\ monitor[i] = "waiting" => i \in routable
    /\ \A m \in Moves : OwnLaunch(m)

\* Steps that spawn nothing, and disturb only instances that are not young.
LEMMA NewKept ==
    ASSUME TypeOK, NewInv,
           \A i \in Instances : /\ status'[i] = "none" => status[i] = "none"
                                /\ \/ monitor'[i] = monitor[i]
                                   \/ monitor[i] = "waiting" /\ monitor'[i] = "restoring"
                                   \/ monitor[i] # "none" /\ monitor'[i] \in {"none", "measuring"}
                                /\ i \in store' => i \in store \/ ~Unborn(i)
                                /\ status'[i] \in {"running", "sleeping"} =>
                                      \/ status[i] \in {"running", "sleeping"} \/ ~Young(i)
                                      \/ monitor'[i] = "measuring"
                                /\ monitor[i] = "waiting" /\ i \in routable => i \in routable',
           \A j \in Instances : waking'[j] \in {waking[j], NoInstance} \/ ~Young(waking'[j]),
           \A m \in Moves : /\ exec'[m] = "parking" => exec[m] = "parking" /\ launch'[m] = launch[m]
                            /\ asked'[m] \in {asked[m], NoInstance} \/ ~Young(asked'[m])
                            /\ source'[m] \in {source[m], NoInstance} \/ ~Young(source'[m]),
           target' = target
    PROVE  NewInv'
<1>1. ASSUME NEW i \in Instances, Unborn(i)' PROVE Unborn(i)
  BY <1>1 DEF Unborn
<1>2. ASSUME NEW i \in Instances, Young(i)' PROVE Young(i)
  <2>1. CASE Unborn(i)'
    BY <1>1, <2>1 DEF Young
  <2>2. CASE monitor'[i] \in {"waiting", "restoring"}
    BY <2>2 DEF Young, NewInv, TypeOK
  <2> QED
    BY <1>2, <2>1, <2>2 DEF Young
<1>3. ASSUME NEW i \in Instances, Unborn(i)' PROVE NotYetThere(i)'
  BY <1>1, <1>3 DEF NewInv, NotYetThere
<1>4. ASSUME NEW i \in Instances, Young(i)' PROVE LeftAlone(i)'
  <2>1. Young(i) /\ LeftAlone(i)
    BY <1>2, <1>4 DEF NewInv
  <2>2. status'[i] \notin {"running", "sleeping"}
    BY <1>4, <2>1, <1>1 DEF LeftAlone, Young, NewInv, NotYetThere
  <2>3. (\A j \in Instances : waking'[j] # i) /\ \A m \in Moves : asked'[m] # i /\ source'[m] # i
    BY <2>1 DEF LeftAlone
  <2> QED
    BY <2>2, <2>3 DEF LeftAlone
<1>5. ASSUME NEW m \in Moves PROVE OwnLaunch(m)'
  BY DEF NewInv, OwnLaunch
<1>6. ASSUME NEW i \in Instances, monitor'[i] = "waiting" PROVE i \in routable'
  BY <1>6 DEF NewInv
<1> QED
  BY <1>3, <1>4, <1>5, <1>6 DEF NewInv

\* Every step, whoever takes it.
LEMMA NewStep ==
    ASSUME TypeOK, NewInv, [Next]_vars
    PROVE  NewInv'
<1> USE DEF TypeOK, AnyInstance, instanceVars, restoreVars, launchVars, moveVars, endVars, userVars,
            At, CancelAt, BeginUnload, EndUnload, Reroute, Restored
<1>1. ASSUME NEW i \in Instances, i \in store PROVE ~Unborn(i)
  BY <1>1 DEF NewInv, NotYetThere
<1>2. ASSUME NEW i \in store, status[i] \in {"running", "sleeping"} PROVE ~Young(i)
  BY <1>2 DEF NewInv, LeftAlone
<1>3. ASSUME NEW m \in Moves, NEW i \in Instances, Request(m, i) PROVE NewInv'
  <2>1. ~Young(i)
    BY <1>2, <1>3 DEF Request, Serving
  <2> QED
    BY <1>3, <2>1, NewKept DEF Request
<1>4. ASSUME NEW m \in Moves, NotCreated(m) PROVE NewInv'
  BY <1>4, NewKept DEF NotCreated
<1>5. ASSUME NEW m \in Moves, Create(m) PROVE NewInv'
  BY <1>5, NewKept DEF Create
<1>6. ASSUME NEW m \in Moves, NEW i \in Instances, Park(m, i) PROVE NewInv'
  <2>1. /\ exec[m] = "launching" /\ exec' = [exec EXCEPT ![m] = "parking"] /\ status[i] = "none"
        /\ status' = [status EXCEPT ![i] = "starting"] /\ routable' = routable \ Parkable(i)
        /\ launch' = [launch EXCEPT ![m] = i] /\ UNCHANGED <<store, monitor, waking, asked, source, target>>
    BY <1>6 DEF Park, Unused
  <2>2. ASSUME NEW j \in Instances, Unborn(j)' PROVE Unborn(j)
    BY <2>1, <2>2 DEF Unborn
  <2>3. ASSUME NEW j \in Instances, Unborn(j)' PROVE NotYetThere(j)'
    <3>1. NotYetThere(j)
      BY <2>2, <2>3 DEF NewInv
    <3> QED
      BY <2>1, <3>1 DEF NotYetThere
  <2>4. ASSUME NEW j \in Instances, Young(j)' PROVE LeftAlone(j)'
    <3>1. LeftAlone(j)
      BY <2>1, <2>2, <2>4 DEF NewInv, Young
    <3> QED
      BY <2>1, <3>1 DEF LeftAlone
  <2>5. \A n \in Moves : OwnLaunch(n)'
    BY <2>1 DEF NewInv, OwnLaunch
  <2>6. \A j \in Instances : monitor'[j] = "waiting" => j \in routable'
    BY <2>1 DEF NewInv, LeftAlone, Young, Parkable
  <2> QED
    BY <2>3, <2>4, <2>5, <2>6 DEF NewInv
<1>7. ASSUME NEW m \in Moves, AskSleep(m) PROVE NewInv'
  <2>1. PICK s \in left[m] \cap store : status[s] = "running" /\ asked' = [asked EXCEPT ![m] = s]
    BY <1>7 DEF AskSleep
  <2>2. ~Young(s)
    BY <1>2, <2>1
  <2> QED
    BY <1>7, <2>1, <2>2, NewKept DEF AskSleep
<1>8. ASSUME NEW m \in Moves, Slept(m) PROVE NewInv'
  <2>1. ~Young(asked[m])
    BY <1>8 DEF Slept, NewInv, LeftAlone
  <2> QED
    BY <1>8, <2>1, NewKept DEF Slept
<1>9. ASSUME NEW m \in Moves, NEW i \in Instances, Launched(m, i) PROVE NewInv'
  <2>1. /\ exec' = [exec EXCEPT ![m] = "waiting"] /\ Unborn(i)
        /\ status' = [status EXCEPT ![i] = "starting"] /\ routable' = routable \cup {i}
        /\ store' = store \cup {i} /\ monitor' = [monitor EXCEPT ![i] = "waiting"]
        /\ target' = [target EXCEPT ![m] = i]
        /\ launch' = [launch EXCEPT ![m] = i] /\ UNCHANGED <<waking, asked, source>>
    BY <1>9 DEF Launched, Unused, Unborn
  <2>2. \A n \in Moves \ {m} : exec[n] = "parking" => launch[n] # i
    BY <1>9 DEF Launched, Unused, NewInv, OwnLaunch
  <2>3. ASSUME NEW j \in Instances, Unborn(j)' PROVE Unborn(j) /\ j # i
    BY <2>1, <2>2, <2>3 DEF Unborn
  <2>4. ASSUME NEW j \in Instances, Unborn(j)' PROVE NotYetThere(j)'
    <3>1. NotYetThere(j) /\ j # i
      BY <2>3, <2>4 DEF NewInv
    <3> QED
      BY <2>1, <3>1 DEF NotYetThere
  <2>5. ASSUME NEW j \in Instances, Young(j)' PROVE LeftAlone(j)'
    <3>1. LeftAlone(j)
      BY <2>1, <2>3, <2>5 DEF NewInv, Young
    <3> QED
      BY <2>1, <3>1 DEF LeftAlone
  <2>6. \A n \in Moves : OwnLaunch(n)'
    BY <2>1, <2>2 DEF NewInv, OwnLaunch
  <2>7. \A j \in Instances : monitor'[j] = "waiting" => j \in routable'
    BY <2>1 DEF NewInv
  <2> QED
    BY <2>4, <2>5, <2>6, <2>7 DEF NewInv
<1>10. ASSUME NEW m \in Moves, NEW i \in Instances, LaunchFails(m, i) PROVE NewInv'
  <2>1. /\ exec' = [exec EXCEPT ![m] = "failing"] /\ Unborn(i)
        /\ status' = [status EXCEPT ![i] = "failed"] /\ asked' = [asked EXCEPT ![m] = NoInstance]
        /\ store' = store \cup {i} /\ launch' = [launch EXCEPT ![m] = i]
        /\ UNCHANGED <<routable, monitor, waking, source, target>>
    BY <1>10 DEF LaunchFails, Unused, Unborn
  <2>2. \A n \in Moves \ {m} : exec[n] = "parking" => launch[n] # i
    BY <1>10 DEF LaunchFails, Unused, NewInv, OwnLaunch
  <2>3. ASSUME NEW j \in Instances, Unborn(j)' PROVE Unborn(j) /\ j # i
    BY <2>1, <2>2, <2>3 DEF Unborn
  <2>4. ASSUME NEW j \in Instances, Unborn(j)' PROVE NotYetThere(j)'
    <3>1. NotYetThere(j) /\ j # i
      BY <2>3, <2>4 DEF NewInv
    <3> QED
      BY <2>1, <3>1 DEF NotYetThere
  <2>5. ASSUME NEW j \in Instances, Young(j)' PROVE LeftAlone(j)'
    <3>1. LeftAlone(j)
      BY <2>1, <2>3, <2>5 DEF NewInv, Young
    <3> QED
      BY <2>1, <3>1 DEF LeftAlone
  <2>6. \A n \in Moves : OwnLaunch(n)'
    BY <2>1, <2>2 DEF NewInv, OwnLaunch
  <2>7. \A j \in Instances : monitor'[j] = "waiting" => j \in routable'
    BY <2>1 DEF NewInv
  <2> QED
    BY <2>4, <2>5, <2>6, <2>7 DEF NewInv
<1>11. ASSUME NEW m \in Moves, NEW phases, Rollback(m, phases) PROVE NewInv'
  BY <1>11, NewKept, ZenonT(40) DEF Rollback
<1>12. ASSUME NEW m \in Moves, Switch(m) PROVE NewInv'
  <2>1. source[m] \in store => monitor[source[m]] # "waiting"
    BY DEF NewInv, LeftAlone, Young
  <2> QED
    BY <1>12, <2>1, NewKept DEF Switch
<1>13. ASSUME NEW m \in Moves, Drained(m), ~Rollback(m, [phase EXCEPT ![m] = "completing"]) PROVE NewInv'
  BY <1>13, NewKept DEF Drained
<1>14. ASSUME NEW m \in Moves, SourceUnloaded(m) \/ RolledBack(m) PROVE NewInv'
  BY <1>14, NewKept DEF SourceUnloaded, RolledBack
<1>15. ASSUME NEW m \in Moves, RevertToSource(m) PROVE NewInv'
  BY <1>15, NewKept DEF RevertToSource
<1>16. ASSUME NEW m \in Moves, ForceComplete(m) PROVE NewInv'
  BY <1>16, NewKept DEF ForceComplete
<1>17. ASSUME NEW m \in Moves, CancelStep(m) PROVE NewInv'
  BY <1>17, NewKept DEF CancelStep, Reverted, Forced
<1>18. ASSUME NEW i \in Instances, Monitor(i) PROVE NewInv'
  <2>1. CASE Ready(i)
    BY <2>1, NewKept DEF Ready, DropPlan
  <2>2. CASE ReadyGone(i)
    BY <2>2, NewKept DEF ReadyGone, DropPlan
  <2>3. CASE Measured(i)
    BY <2>3, NewKept DEF Measured, NewInv, NotYetThere
  <2>4. CASE BootFails(i)
    BY <2>4, NewKept DEF BootFails
  <2>5. CASE BootFailed(i)
    BY <2>5, NewKept DEF BootFailed
  <2> QED
    BY <1>18, <2>1, <2>2, <2>3, <2>4, <2>5 DEF Monitor
<1>19. ASSUME NEW i \in Instances, RestoreNext(i) PROVE NewInv'
  <2>1. PICK s \in restoring[i] :
            \/ Restored(i, s) /\ Reroute({s} \cap restoreRoutable[i]) /\ UNCHANGED waking
            \/ /\ s \in store /\ status[s] = "sleeping" /\ waking' = [waking EXCEPT ![i] = s]
               /\ UNCHANGED <<restoring, restoreRoutable, routable>>
    BY <1>19 DEF RestoreNext
  <2> QED
    BY <1>2, <1>19, <2>1, NewKept DEF RestoreNext
<1>20. ASSUME NEW i \in Instances, Woken(i) \/ NotWoken(i) PROVE NewInv'
  <2>1. waking[i] # NoInstance => ~Young(waking[i])
    BY DEF NewInv, LeftAlone
  <2>2. CASE Woken(i)
    BY <2>1, <2>2, NewKept DEF Woken, Young
  <2>3. CASE NotWoken(i)
    BY <2>3, NewKept DEF NotWoken
  <2> QED
    BY <1>20, <2>2, <2>3
<1>21. ASSUME NEW i \in Instances, Exit(i) PROVE NewInv'
  BY <1>21, NewKept DEF Exit
<1>22. ASSUME NEW i \in Instances, UserUnload(i) \/ UserUnloaded(i) PROVE NewInv'
  BY <1>22, NewKept DEF UserUnload, UserUnloaded
<1>23. CASE UNCHANGED vars
  BY <1>23, NewKept DEF vars
<1> QED
  BY <1>3, <1>4, <1>5, <1>6, <1>7, <1>8, <1>9, <1>10, <1>11, <1>12, <1>13, <1>14, <1>15, <1>16, <1>17,
     <1>18, <1>19, <1>20, <1>21, <1>22, <1>23 DEF Next, Step, LaunchThrows, WaitFails, Restore

LEMMA NewAlways == Spec => []NewInv
<1>1. Init => NewInv
  BY DEF Init, NewInv, Unborn, Young, NotYetThere, LeftAlone, OwnLaunch
<1>2. TypeOK /\ NewInv /\ [Next]_vars => NewInv'
  BY NewStep
<1> QED
  BY <1>1, <1>2, TypeCorrect, PTL DEF Spec

-----------------------------------------------------------------------------
(* Why a move leaves only one of its two engines. *)

\* A move has no target before its launch returns.
CopyShape(m) ==
    /\ exec[m] \in {"none", "checking", "launching", "parking", "failing"} => target[m] = NoInstance
    /\ exec[m] = "done" /\ ~Cancelling(m) => ~({source[m], target[m]} \subseteq procs)

CopyInv == \A m \in Moves : CopyShape(m)

\* Processes only end, but for that of a new instance, which no move has.
NoneStarts(m) == \A i \in {source[m], target[m]} : i \in procs' => i \in procs

Apart(m) == \A n \in Moves \ {m} : UNCHANGED <<exec[n], cancel[n], source[n], target[n]>>

\* A step under which none of its engines starts keeps a move in shape, if the
\* step that ends the move leaves one of them without a process.
LEMMA ShapeKept ==
    ASSUME TypeOK, NEW m \in Moves, CopyShape(m), NoneStarts(m), source'[m] = source[m], target'[m] = target[m],
           exec'[m] \in {"none", "checking", "launching", "parking", "failing"} =>
               exec[m] \in {"none", "checking", "launching", "parking", "failing"},
           exec'[m] = "done" /\ ~Cancelling(m)' =>
               \/ exec[m] = "done" /\ ~Cancelling(m)
               \/ source[m] \notin procs' \/ target[m] \notin procs'
    PROVE  CopyShape(m)'
<1>1. exec'[m] = "done" /\ ~Cancelling(m)' => ~({source[m], target[m]} \subseteq procs')
  BY DEF CopyShape, NoneStarts
<1>2. exec'[m] \in {"none", "checking", "launching", "parking", "failing"} => target'[m] = NoInstance
  BY DEF CopyShape
<1> QED
  BY <1>1, <1>2 DEF CopyShape

LEMMA RollbackShrinks ==
    ASSUME TypeOK, NEW m \in Moves, CopyShape(m), NEW phases, Rollback(m, phases)
    PROVE  procs' \subseteq procs /\ Apart(m) /\ CopyShape(m)'
<1> USE DEF TypeOK, Places, At, endVars
<1>1. UNCHANGED <<source, target, cancel, procs>>
  BY DEF Rollback
<1>2. exec' = [exec EXCEPT ![m] = "rolling back"] \/ (exec' = [exec EXCEPT ![m] = "done"] /\ target[m] \notin procs)
  BY DEF Rollback
<1>3. Apart(m)
  BY <1>1, <1>2 DEF Apart
<1> QED
  BY <1>1, <1>2, <1>3, ShapeKept DEF NoneStarts

\* Every step of a move or of its cancel leaves the other moves alone, and the
\* move in shape.
LEMMA MoveKeepsOneCopy ==
    ASSUME TypeOK, NewInv, NEW m \in Moves, CopyShape(m),
           \/ \E i \in Instances : Request(m, i)
           \/ Step(m) \/ RevertToSource(m) \/ ForceComplete(m) \/ CancelStep(m)
    PROVE  (\A n \in Moves : NoneStarts(n)) /\ Apart(m) /\ CopyShape(m)'
<1> USE DEF TypeOK, AnyInstance, Places, CancelPlaces, At, CancelAt, EndUnload,
            instanceVars, restoreVars, launchVars, endVars, userVars
<1> USE DEF NoneStarts, Apart, Cancelling
<1>1. ASSUME NEW i \in Instances, Request(m, i) PROVE procs' = procs /\ Apart(m) /\ CopyShape(m)'
  BY <1>1 DEF Request, CopyShape
<1>2. CASE NotCreated(m)
  BY <1>2 DEF NotCreated, CopyShape
<1>3. CASE Create(m)
  BY <1>3 DEF Create, CopyShape
<1>4. ASSUME NEW i \in Instances, Park(m, i) PROVE procs' = procs /\ Apart(m) /\ CopyShape(m)'
  BY <1>4 DEF Park, CopyShape
<1>5. CASE AskSleep(m) \/ Slept(m)
  <2>1. UNCHANGED <<procs, moveVars>>
    BY <1>5 DEF AskSleep, Slept
  <2> QED
    BY <2>1 DEF moveVars, CopyShape
<1>6. ASSUME NEW i \in Instances, Launched(m, i)
      PROVE  (\A n \in Moves : NoneStarts(n)) /\ Apart(m) /\ CopyShape(m)'
  <2>1. Unborn(i) /\ procs' = procs \cup {i}
    BY <1>6 DEF Launched, Unused, Unborn
  <2>2. \A n \in Moves : source[n] # i /\ target[n] # i
    BY <2>1 DEF NewInv, Young, LeftAlone, NotYetThere
  <2> QED
    BY <1>6, <2>1, <2>2 DEF Launched, CopyShape
<1>7. ASSUME NEW i \in Instances, LaunchFails(m, i) PROVE procs' = procs /\ Apart(m) /\ CopyShape(m)'
  BY <1>7 DEF LaunchFails, CopyShape
<1>8. CASE LaunchThrows(m) \/ WaitFails(m)
  BY <1>8, RollbackShrinks DEF LaunchThrows, WaitFails
<1>9. CASE Switch(m)
  BY <1>9 DEF Switch, CopyShape
<1>10. CASE Drained(m)
  <2>1. CASE Rollback(m, [phase EXCEPT ![m] = "completing"])
    BY <2>1, RollbackShrinks
  <2>2. CASE ~Rollback(m, [phase EXCEPT ![m] = "completing"])
    <3>1. Apart(m) /\ UNCHANGED <<source, target, cancel, procs>>
      BY <1>10, <2>2 DEF Drained
    <3>2. exec'[m] = "unloading" \/ (exec'[m] = "done" /\ source[m] \notin procs)
      BY <1>10, <2>2 DEF Drained
    <3> QED
      BY <3>1, <3>2, ShapeKept
  <2> QED
    BY <2>1, <2>2
<1>11. CASE SourceUnloaded(m)
  BY <1>11 DEF SourceUnloaded, CopyShape
<1>12. CASE RolledBack(m)
  BY <1>12 DEF RolledBack, CopyShape
<1>13. CASE RevertToSource(m)
  <2>1. Apart(m) /\ UNCHANGED <<source, target, exec, procs>>
    BY <1>13 DEF RevertToSource
  <2>2. cancel'[m] = "reverting" \/ (cancel'[m] = "reverted" /\ target[m] \notin procs)
    BY <1>13 DEF RevertToSource
  <2> QED
    BY <2>1, <2>2, ShapeKept
<1>14. CASE ForceComplete(m)
  <2>1. Apart(m) /\ UNCHANGED <<source, target, exec, procs>>
    BY <1>14 DEF ForceComplete
  <2>2. cancel'[m] = "forcing" \/ (cancel'[m] = "forced" /\ source[m] \notin procs)
    BY <1>14 DEF ForceComplete
  <2> QED
    BY <2>1, <2>2, ShapeKept
<1>15. CASE CancelStep(m)
  <2>1. Apart(m) /\ UNCHANGED <<source, target, exec>> /\ procs' \subseteq procs
    BY <1>15 DEF CancelStep, Reverted, Forced
  <2>2. target[m] \notin procs' \/ source[m] \notin procs'
    BY <1>15 DEF CancelStep, Reverted, Forced
  <2> QED
    BY <2>1, <2>2, ShapeKept
<1> QED
  BY <1>1, <1>2, <1>3, <1>4, <1>5, <1>6, <1>7, <1>8, <1>9, <1>10, <1>11, <1>12, <1>13, <1>14, <1>15 DEF Step

LEMMA CopiesAlways == Spec => []CopyInv
<1>1. Init => CopyInv
  BY DEF Init, CopyInv, CopyShape
<1>2. TypeOK /\ NewInv /\ CopyInv /\ [Next]_vars => CopyInv'
  <2> SUFFICES ASSUME TypeOK, NewInv, CopyInv, [Next]_vars, NEW n \in Moves PROVE CopyShape(n)'
    BY DEF CopyInv
  <2>1. CopyShape(n)
    BY DEF CopyInv
  <2>2. ASSUME NoneStarts(n), UNCHANGED <<exec[n], cancel[n], source[n], target[n]>> PROVE CopyShape(n)'
    BY <2>1, <2>2, ShapeKept DEF Cancelling
  <2>3. ASSUME NEW m \in Moves,
               \/ \E i \in Instances : Request(m, i)
               \/ Step(m) \/ RevertToSource(m) \/ ForceComplete(m) \/ CancelStep(m)
        PROVE  CopyShape(n)'
    <3>1. CopyShape(m)
      BY DEF CopyInv
    <3>2. NoneStarts(n) /\ Apart(m) /\ CopyShape(m)'
      BY <2>3, <3>1, MoveKeepsOneCopy
    <3> QED
      BY <2>2, <3>2 DEF Apart
  <2>4. ASSUME NEW i \in Instances, Monitor(i) \/ Restore(i) \/ Exit(i) \/ UserUnload(i) \/ UserUnloaded(i)
        PROVE  CopyShape(n)'
    <3>1. UNCHANGED <<exec, cancel, source, target>>
      BY <2>4 DEF Monitor, DropPlan, Ready, ReadyGone, Measured, BootFails, BootFailed, Restore, RestoreNext, Woken,
                  NotWoken, Exit, UserUnload, UserUnloaded, moveVars, endVars
    <3>2. procs' \subseteq procs
      BY <2>4 DEF Monitor, DropPlan, Ready, ReadyGone, Measured, BootFails, BootFailed, Restore, RestoreNext, Woken,
                  NotWoken, Exit, UserUnload, UserUnloaded, EndUnload
    <3> QED
      BY <2>2, <3>1, <3>2 DEF NoneStarts
  <2>5. CASE UNCHANGED vars
    BY <2>2, <2>5 DEF vars, moveVars, endVars, instanceVars, NoneStarts
  <2> QED
    BY <2>3, <2>4, <2>5 DEF Next
<1> QED
  BY <1>1, <1>2, TypeCorrect, NewAlways, PTL DEF Spec

\* A move that is over leaves one engine of the two at most, whether it
\* succeeded, failed at any step, or was cancelled either way beside its
\* executor, and whatever the startup monitor of its target writes afterwards.
THEOREM OneCopyLeft == Spec => []NoTwoCopies
<1>1. CopyInv => NoTwoCopies
  BY DEF CopyInv, CopyShape, NoTwoCopies
<1> QED
  BY <1>1, CopiesAlways, PTL

-----------------------------------------------------------------------------
(* Why moves keep the model served while nothing else touches it. *)

\* An engine serves or sleeps.  It is safe if it takes requests, or if a restore
\* will let it; one that is parked for an instance is restored if that one fails.
Serves(i) == i \in store /\ status[i] \in {"running", "sleeping"}
Engine(i) == Serves(i) /\ i \in procs
Good(i) == Engine(i) /\ i \in routable
Safe(i) == Engine(i) /\ (i \in routable \/ \E j \in Instances : i \in restoring[j] \cap restoreRoutable[j])
Parked(i, j) == Engine(i) /\ i \in plan[j] \cap restoreRoutable[j]

StoppedBy(m, i) ==
    \/ exec[m] = "unloading" /\ source[m] = i
    \/ exec[m] = "rolling back" /\ target[m] = i

\* Only moves stop instances, and only launches park them.
Quiet ==
    /\ unloading = {}
    /\ \A i \in Instances : /\ ~SleepMode => plan[i] = {} /\ restoring[i] = {} /\ waking[i] = NoInstance
                            /\ status[i] = "none" => restoring[i] = {}
    /\ SleepMode => \A i \in store :
           /\ Serves(i) => i \in procs
           /\ status[i] = "stopping" => \E m \in Moves : StoppedBy(m, i)

\* What a move can rely on about its source and its target.
SourceIs(m) ==
    /\ exec[m] \in {"launching", "parking", "failing", "waiting", "draining"} => source[m] \in store
    /\ SleepMode /\ exec[m] \in {"launching", "parking", "failing", "waiting"} => Engine(source[m])
    /\ SleepMode /\ exec[m] = "checking" /\ source[m] \in store =>
           Engine(source[m]) \/ status[source[m]] = "stopping"
TargetIs(m) ==
    /\ exec[m] \in {"waiting", "draining", "unloading", "rolling back"} =>
           target[m] \in Instances /\ target[m] # source[m]
    /\ exec[m] = "waiting" => target[m] \in store
    /\ exec[m] = "waiting" /\ Serves(target[m]) => Good(target[m])
    /\ exec[m] \in {"draining", "unloading"} => Good(target[m])
    /\ exec[m] = "parking" => SleepMode

Ground == Quiet /\ \A m \in Moves : SourceIs(m) /\ TargetIs(m)

\* Whatever a move is doing, an instance is left that serves when it fails.
Covered(m) ==
    /\ exec[m] \in {"launching", "failing"} => \E i \in Instances : Safe(i)
    /\ exec[m] = "parking" => \E i \in Instances : Safe(i) \/ Parked(i, launch[m])
    /\ exec[m] = "waiting" =>
           \/ SleepMode /\ Good(target[m])
           \/ \E i \in Instances \ {target[m]} : Safe(i) \/ Parked(i, target[m])
    /\ exec[m] = "rolling back" => \E i \in Instances \ {target[m]} : Safe(i)
AtRest == (\A m \in Moves : ~Executing(m)) => \E i \in Instances : Safe(i)

\* Nothing but a move that nobody cancels takes a step that leaves the system undisturbed.
LEMMA StaysUndisturbed ==
    ASSUME TypeOK, [Next]_vars, Undisturbed'
    PROVE  /\ Undisturbed
           /\ \A m \in Moves : ~RevertToSource(m) /\ ~ForceComplete(m) /\ ~CancelStep(m)
           /\ \A i \in Instances : ~UserUnload(i) /\ ~(Exit(i) /\ i \in Serving)
<1> USE DEF TypeOK, Undisturbed, CancelAt, instanceVars, restoreVars, launchVars, endVars, moveVars, userVars
<1>1. \A m \in Moves : ~RevertToSource(m) /\ ~ForceComplete(m) /\ ~CancelStep(m)
  BY DEF RevertToSource, ForceComplete, CancelStep, Reverted, Forced, CancelPlaces
<1>2. \A i \in Instances : ~UserUnload(i) /\ ~(Exit(i) /\ i \in Serving)
  BY DEF UserUnload, Exit
<1>3. ASSUME NEW m \in Moves, (\E i \in Instances : Request(m, i)) \/ Step(m)
      PROVE  UNCHANGED <<lost, revived, cancel>>
  BY <1>3 DEF Request, Step, NotCreated, Create, Park, AskSleep, Slept, Launched, LaunchFails, LaunchThrows,
              Switch, WaitFails, Drained, SourceUnloaded, RolledBack, Rollback
<1>4. ASSUME NEW i \in Instances, Monitor(i) \/ Restore(i) \/ Exit(i) \/ UserUnloaded(i)
      PROVE  lost \subseteq lost' /\ revived \subseteq revived' /\ cancel' = cancel
  BY <1>4 DEF Monitor, DropPlan, Ready, ReadyGone, Measured, BootFails, BootFailed, Restore, RestoreNext, Woken,
              NotWoken, Exit, UserUnloaded
<1> QED
  BY <1>1, <1>2, <1>3, <1>4 DEF Next, vars

\* A move that runs holds the lock, so the others are idle.
LEMMA OneExecutes ==
    ASSUME TypeOK, OneMoveAtATime, Undisturbed, NEW m \in Moves, Executing(m)
    PROVE  lock = m /\ \A n \in Moves \ {m} : exec[n] \in {"none", "checking", "done"}
  BY DEF Undisturbed, OneMoveAtATime, Executing

\* Steps that do not touch moves keep what moves rely on, if what serves goes on
\* serving and what is stopped stays stopped or serves.
LEMMA GroundKept ==
    ASSUME TypeOK, TypeOK', NewInv, Ground, UNCHANGED <<moveVars, unloading>>,
           \A i \in Instances :
               /\ Engine(i) => i \in store' \cap procs' /\ status'[i] \in {"running", "sleeping"}
               /\ i \in routable => i \in routable'
               /\ i \in store => i \in store'
               /\ SleepMode /\ i \in store' => i \in store
               /\ i \in store' /\ status'[i] \in {"running", "sleeping"} =>
                      /\ SleepMode => i \in procs'
                      /\ Serves(i) \/ i \notin store \/ i \in procs' \cap routable'
               /\ status'[i] = "stopping" => status[i] = "stopping"
               /\ status[i] = "stopping" => status'[i] \in {"stopping", "running", "sleeping"} \/ Young(i)
               /\ status'[i] = "none" => status[i] = "none" /\ restoring'[i] = {}
               /\ ~SleepMode => plan'[i] = {} /\ restoring'[i] = {} /\ waking'[i] = NoInstance
    PROVE  Ground'
<1> USE DEF TypeOK, AnyInstance, Serves, Engine, Good, moveVars, endVars
<1>1. Quiet'
  <2>1. unloading' = {} /\ UNCHANGED <<exec, source, target>>
    BY DEF Ground, Quiet
  <2>2. ASSUME SleepMode, NEW i \in store', status'[i] = "stopping" PROVE \E m \in Moves : StoppedBy(m, i)'
    <3>1. i \in store /\ status[i] = "stopping"
      BY <2>2
    <3>2. PICK m \in Moves : StoppedBy(m, i)
      BY <2>2, <3>1 DEF Ground, Quiet
    <3> QED
      BY <2>1, <3>2 DEF StoppedBy
  <2> QED
    BY <2>1, <2>2 DEF Quiet
<1>2. ASSUME NEW n \in Moves PROVE SourceIs(n)'
  <2>1. source[n] \in Instances => ~Young(source[n])
    BY DEF NewInv, LeftAlone
  <2> QED
    BY <2>1 DEF Ground, SourceIs
<1>3. ASSUME NEW n \in Moves PROVE TargetIs(n)'
  BY DEF Ground, TargetIs
<1> QED
  BY <1>1, <1>2, <1>3 DEF Ground

\* Startup monitors, restores and exits of engines that do not serve.
LEMMA GroundMonitor ==
    ASSUME TypeOK, TypeOK', NewInv, Ground, Undisturbed', NEW i \in Instances,
           \/ Monitor(i) \/ Restore(i) \/ UserUnloaded(i)
           \/ Exit(i) /\ i \notin Serving
    PROVE  Ground'
<1> USE DEF TypeOK, Statuses, AnyInstance, Serves, Engine, restoreVars, launchVars, userVars, Reroute, Restored
<1>1. Quiet /\ (SleepMode => revived' = {})
  BY DEF Ground, Undisturbed
<1>2. CASE Ready(i)
  BY <1>1, <1>2, GroundKept DEF Ready, DropPlan, Quiet, NewInv, Young
<1>3. CASE ReadyGone(i)
  BY <1>1, <1>3, GroundKept DEF ReadyGone, DropPlan, Quiet
<1>4. CASE Measured(i)
  BY <1>1, <1>4, GroundKept DEF Measured, Quiet
<1>5. CASE BootFails(i)
  BY <1>1, <1>5, GroundKept DEF BootFails, Quiet, NewInv, NotYetThere, Unborn
<1>6. CASE BootFailed(i)
  BY <1>1, <1>6, GroundKept DEF BootFailed, Quiet, NewInv, Young, LeftAlone
<1>7. CASE RestoreNext(i)
  <2>1. PICK s \in restoring[i] :
            \/ Restored(i, s) /\ Reroute({s} \cap restoreRoutable[i]) /\ UNCHANGED waking
            \/ /\ s \in store /\ status[s] = "sleeping" /\ waking' = [waking EXCEPT ![i] = s]
               /\ UNCHANGED <<restoring, restoreRoutable, routable>>
    BY <1>7 DEF RestoreNext
  <2>2. restoring' = restoring \/ restoring' = [restoring EXCEPT ![i] = @ \ {s}]
    BY <2>1
  <2>3. SleepMode /\ routable \subseteq routable' /\ \A j \in Instances : restoring'[j] \subseteq restoring[j]
    <3>1. ASSUME NEW j \in Instances PROVE restoring'[j] \subseteq restoring[j]
      <4>1. restoring'[j] = restoring[j] \/ restoring'[j] = restoring[j] \ {s}
        BY <2>2
      <4> QED
        BY <4>1
    <3> QED
      BY <1>1, <2>1, <3>1 DEF Quiet
  <2> QED
    BY <1>1, <1>7, <2>3, GroundKept DEF RestoreNext, Quiet
<1>8. CASE Woken(i)
  <2>1. SleepMode /\ waking[i] \in procs \cap store
    BY <1>1, <1>8 DEF Woken, Quiet
  <2> QED
    BY <1>1, <1>8, <2>1, GroundKept DEF Woken, Quiet
<1>9. CASE NotWoken(i)
  BY <1>1, <1>9, GroundKept DEF NotWoken, Quiet
<1>10. CASE Exit(i) /\ i \notin Serving
  <2>1. i \in store /\ ~Serves(i) /\ status[i] # "none"
    BY <1>10 DEF Exit, Serving, NewInv, NotYetThere, Unborn
  <2> QED
    BY <1>1, <1>10, <2>1, GroundKept DEF Exit, Quiet
<1>11. ~UserUnloaded(i)
  BY <1>1 DEF UserUnloaded, Quiet
<1> QED
  BY <1>2, <1>3, <1>4, <1>5, <1>6, <1>7, <1>8, <1>9, <1>10, <1>11 DEF Monitor, Restore

Idle(m) == exec[m] \in {"none", "checking", "done"}

\* A step that stops nothing in anybody else's name, and ends nothing that
\* serves but by stopping it first.
Orderly(m, i) ==
    /\ ~SleepMode => plan'[i] = {} /\ restoring'[i] = {} /\ waking'[i] = NoInstance
    /\ status'[i] = "none" => restoring'[i] = {}
    /\ SleepMode /\ i \in store' /\ status'[i] \in {"running", "sleeping"} => i \in procs'
    /\ SleepMode /\ i \in store' /\ status'[i] = "stopping" => StoppedBy(m, i)'
    /\ i \in store' => i \in store \/ Unborn(i)
    /\ i \in store \cap store' /\ (Engine(i) \/ status[i] = "stopping") =>
           status'[i] = "stopping" \/ (i \in procs' /\ status'[i] \in {"running", "sleeping"})

\* Such a step of a move while the others are idle keeps what moves rely on, if
\* it keeps what this one does.
LEMMA GroundByMove ==
    ASSUME TypeOK, TypeOK', NewInv, Ground, NEW m \in Moves, \A n \in Moves \ {m} : Idle(n),
           \A n \in Moves \ {m} : exec'[n] = exec[n] /\ source'[n] = source[n],
           unloading' = unloading, SourceIs(m)', TargetIs(m)', \A i \in Instances : Orderly(m, i)
    PROVE  Ground'
<1> USE DEF TypeOK, AnyInstance
<1>1. Quiet'
  <2>1. unloading' = {}
    BY DEF Ground, Quiet
  <2>2. ASSUME NEW i \in store', SleepMode, status'[i] = "stopping" PROVE \E n \in Moves : StoppedBy(n, i)'
    <3>1. StoppedBy(m, i)'
      BY <2>2 DEF Orderly
    <3> QED
      BY <3>1
  <2>3. ASSUME NEW i \in store', SleepMode, Serves(i)' PROVE i \in procs'
    BY <2>3 DEF Serves, Orderly
  <2>4. ASSUME NEW i \in Instances
        PROVE  /\ ~SleepMode => plan'[i] = {} /\ restoring'[i] = {} /\ waking'[i] = NoInstance
               /\ status'[i] = "none" => restoring'[i] = {}
    BY DEF Orderly
  <2> QED
    BY <2>1, <2>2, <2>3, <2>4 DEF Quiet
<1>2. ASSUME NEW n \in Moves \ {m} PROVE SourceIs(n)' /\ TargetIs(n)'
  <2>1. exec'[n] \in {"none", "checking", "done"} /\ exec'[n] = exec[n] /\ source'[n] = source[n]
    BY DEF Idle
  <2>2. ASSUME SleepMode, exec[n] = "checking", source[n] \in store' PROVE Engine(source[n])' \/ status'[source[n]] = "stopping"
    <3>1. source[n] \in Instances /\ source[n] \in store
      BY <2>2 DEF NewInv, Young, LeftAlone, Orderly
    <3>2. Engine(source[n]) \/ status[source[n]] = "stopping"
      BY <2>2, <3>1 DEF Ground, SourceIs
    <3> QED
      BY <2>2, <3>1, <3>2 DEF Engine, Serves, Orderly
  <2> QED
    BY <2>1, <2>2 DEF SourceIs, TargetIs
<1> QED
  BY <1>1, <1>2 DEF Ground

\* The same for one instance, as the steps below use it.
LEMMA QuietHolds ==
    ASSUME Ground, NEW i \in Instances
    PROVE  /\ ~SleepMode => plan[i] = {} /\ restoring[i] = {} /\ waking[i] = NoInstance
           /\ status[i] = "none" => restoring[i] = {}
           /\ SleepMode /\ i \in store /\ status[i] \in {"running", "sleeping"} => i \in procs
BY DEF Ground, Quiet, Serves

\* While the others are idle, only this move stops instances.
LEMMA OnlyItStops ==
    ASSUME TypeOK, Ground, SleepMode, NEW m \in Moves, \A n \in Moves \ {m} : Idle(n),
           NEW i \in store, status[i] = "stopping"
    PROVE  StoppedBy(m, i)
BY DEF Ground, Quiet, StoppedBy, Idle

\* A move that rolls back has a target only once it was launched.
LEMMA RollbackGround ==
    ASSUME TypeOK, TypeOK', OneMoveAtATime, NewInv, CopyInv, Ground, Undisturbed, NEW m \in Moves, NEW phases,
           exec[m] \in {"launching", "failing", "waiting"}, Rollback(m, phases)
    PROVE  Ground'
<1>1. Quiet /\ SourceIs(m) /\ TargetIs(m)
  BY DEF Ground
<1>2. \A n \in Moves \ {m} : Idle(n)
  BY OneExecutes DEF Executing, Idle
<1>3. /\ UNCHANGED <<procs, plan, restoring, waking, source, unloading>>
      /\ \A n \in Moves \ {m} : exec'[n] = exec[n]
  BY DEF Rollback, restoreVars, endVars, userVars, At, TypeOK
<1>4. ASSUME SleepMode, NEW i \in store, status[i] = "stopping" PROVE FALSE
  BY <1>2, <1>4, OnlyItStops DEF StoppedBy
<1>5. CASE target[m] \in procs
  <2>1. target[m] \in store /\ target[m] \in Instances
    BY <1>5 DEF TypeOK
  <2>2. target[m] # source[m]
    BY <1>1, <2>1 DEF TargetIs, CopyInv, CopyShape
  <2>3. /\ exec'[m] = "rolling back" /\ target' = target /\ store' = store
        /\ status' = [status EXCEPT ![target[m]] = "stopping"]
    BY <1>5, <2>1 DEF Rollback, endVars, At, BeginUnload, TypeOK
  <2>4. SourceIs(m)' /\ TargetIs(m)'
    BY <1>3, <2>1, <2>2, <2>3 DEF SourceIs, TargetIs
  <2>5. \A i \in Instances : status'[i] = IF i = target[m] THEN "stopping" ELSE status[i]
    BY <2>3 DEF TypeOK
  <2>6. ASSUME NEW i \in Instances PROVE Orderly(m, i)
    <3>1. i = target[m] => StoppedBy(m, i)'
      BY <2>3 DEF StoppedBy
    <3>2. status'[i] # status[i] => status'[i] = "stopping"
      BY <2>5
    <3> QED
      BY <1>3, <1>4, <2>3, <2>5, <3>1, <3>2, QuietHolds DEF Engine, Serves, Orderly
  <2> QED
    BY <1>2, <1>3, <2>4, <2>6, GroundByMove
<1>6. CASE target[m] \notin procs
  <2>1. exec'[m] = "done" /\ status' = status /\ store' \subseteq store
    BY <1>6 DEF Rollback, BeginUnload, At, TypeOK
  <2>2. SourceIs(m)' /\ TargetIs(m)'
    BY <2>1 DEF SourceIs, TargetIs
  <2>3. ASSUME NEW i \in Instances PROVE Orderly(m, i)
    BY <1>3, <1>4, <2>1, QuietHolds DEF Engine, Serves, Orderly
  <2> QED
    BY <1>2, <1>3, <2>2, <2>3, GroundByMove
<1> QED
  BY <1>5, <1>6

\* Every step of a move.
LEMMA GroundMove ==
    ASSUME TypeOK, TypeOK', OneMoveAtATime, NewInv, CopyInv, Ground, Undisturbed, NEW m \in Moves,
           (\E i \in Instances : Request(m, i)) \/ Step(m)
    PROVE  Ground'
<1>1. SourceIs(m) /\ TargetIs(m)
  BY DEF Ground
<1>2. ASSUME Executing(m), NEW n \in Moves \ {m} PROVE Idle(n)
  BY <1>2, OneExecutes DEF Idle
<1>3. ASSUME NEW i \in Instances, Unborn(i)
      PROVE  i \notin store /\ \A n \in Moves : source[n] # i /\ target[n] # i
  BY <1>3 DEF NewInv, Young, LeftAlone, NotYetThere
<1>4. ASSUME NEW i \in Instances, Request(m, i) PROVE Ground'
  <2>1. /\ UNCHANGED <<status, store, procs, plan, restoring, waking, routable, target, unloading>> /\ exec[m] = "none"
        /\ exec' = [exec EXCEPT ![m] = "checking"] /\ source' = [source EXCEPT ![m] = i] /\ Serves(i)
    BY <1>4 DEF Request, At, instanceVars, restoreVars, userVars, Serving, Serves
  <2>2. SleepMode => Engine(i)
    BY <2>1 DEF Ground, Quiet, Engine, Serves
  <2>3. ASSUME NEW n \in Moves PROVE SourceIs(n)' /\ TargetIs(n)'
    <3>1. SourceIs(n) /\ TargetIs(n)
      BY DEF Ground
    <3> QED
      BY <2>1, <2>2, <3>1 DEF SourceIs, TargetIs, Good, Engine, Serves, TypeOK
  <2>4. Quiet'
    <3>1. ASSUME NEW j \in store, NEW n \in Moves, StoppedBy(n, j) PROVE StoppedBy(n, j)'
      BY <2>1, <3>1 DEF StoppedBy, TypeOK
    <3> QED
      BY <2>1, <3>1 DEF Ground, Quiet, Serves
  <2> QED
    BY <2>3, <2>4 DEF Ground
<1>5. CASE NotCreated(m)
  <2>1. /\ UNCHANGED <<status, store, procs, plan, restoring, waking, routable, target, unloading>> /\ exec[m] = "checking"
        /\ exec' = [exec EXCEPT ![m] = "none"] /\ source' = [source EXCEPT ![m] = NoInstance]
    BY <1>5 DEF NotCreated, At, instanceVars, restoreVars, userVars
  <2>2. ASSUME NEW n \in Moves PROVE SourceIs(n)' /\ TargetIs(n)'
    <3>1. SourceIs(n) /\ TargetIs(n)
      BY DEF Ground
    <3> QED
      BY <2>1, <3>1 DEF SourceIs, TargetIs, Good, Engine, Serves, TypeOK
  <2>3. Quiet'
    <3>1. ASSUME NEW j \in store, NEW n \in Moves, StoppedBy(n, j) PROVE StoppedBy(n, j)'
      BY <2>1, <3>1 DEF StoppedBy, TypeOK
    <3> QED
      BY <2>1, <3>1 DEF Ground, Quiet, Serves
  <2> QED
    BY <2>2, <2>3 DEF Ground
<1>6. CASE Create(m)
  <2>1. /\ UNCHANGED <<status, store, procs, plan, restoring, waking, routable, source, target, unloading>>
        /\ lock = NoMove /\ exec[m] = "checking" /\ \A n \in Moves \ {m} : exec'[n] = exec[n]
        /\ exec'[m] = "done" \/ (exec'[m] = "launching" /\ source[m] \in store)
    BY <1>6 DEF Create, At, instanceVars, restoreVars, userVars, endVars, TypeOK
  <2>2. ASSUME NEW n \in Moves \ {m} PROVE Idle(n)
    BY <2>1, OneExecutes, MoveAssumption DEF Executing, Idle
  <2>3. ASSUME SleepMode, NEW i \in store, status[i] = "stopping" PROVE FALSE
    BY <2>1, <2>2, <2>3, OnlyItStops DEF StoppedBy
  <2>4. SourceIs(m)' /\ TargetIs(m)'
    BY <1>1, <2>1, <2>3 DEF SourceIs, TargetIs, Engine, Serves
  <2>5. ASSUME NEW i \in Instances PROVE Orderly(m, i)
    BY <2>1, <2>3, QuietHolds DEF Orderly, Engine, Serves
  <2> QED
    BY <2>1, <2>2, <2>4, <2>5, GroundByMove
<1>7. ASSUME NEW i \in Instances, Park(m, i) PROVE Ground'
  <2>1. /\ UNCHANGED <<store, procs, waking, restoring, source, target, unloading>> /\ SleepMode /\ Unborn(i)
        /\ exec[m] = "launching" /\ exec'[m] = "parking" /\ \A n \in Moves \ {m} : exec'[n] = exec[n]
        /\ \A j \in Instances : status'[j] = IF j = i THEN "starting" ELSE status[j]
    BY <1>7 DEF Park, Parkable, Siblings, Unused, Unborn, At, endVars, userVars, TypeOK
  <2>2. ASSUME NEW n \in Moves \ {m} PROVE Idle(n)
    BY <1>2, <2>1 DEF Executing
  <2>3. ASSUME SleepMode, NEW j \in store, status[j] = "stopping" PROVE StoppedBy(m, j)
    BY <2>2, <2>3, OnlyItStops
  <2>4. i \notin store /\ source[m] # i /\ target[m] # i
    BY <1>3, <2>1
  <2>8. SourceIs(m)' /\ TargetIs(m)'
    BY <1>1, <2>1, <2>4 DEF SourceIs, TargetIs, Engine, Serves, TypeOK
  <2>9. ASSUME NEW j \in Instances PROVE Orderly(m, j)
    BY <2>1, <2>3, QuietHolds, <2>4 DEF Orderly, Engine, Serves, StoppedBy, TypeOK
  <2> QED
    BY <2>1, <2>2, <2>8, <2>9, GroundByMove
<1>8. CASE AskSleep(m)
  <2>1. /\ UNCHANGED <<instanceVars, restoreVars, exec, source, target, unloading>> /\ exec[m] = "parking"
    BY <1>8 DEF AskSleep, moveVars, endVars, userVars
  <2>2. ASSUME NEW n \in Moves \ {m} PROVE Idle(n)
    BY <1>2, <2>1 DEF Executing
  <2>3. ASSUME SleepMode, NEW j \in store, status[j] = "stopping" PROVE StoppedBy(m, j)
    BY <2>2, <2>3, OnlyItStops
  <2>8. SourceIs(m)' /\ TargetIs(m)'
    BY <1>1, <2>1 DEF SourceIs, TargetIs, Engine, Serves, Good, instanceVars
  <2>9. ASSUME NEW j \in Instances PROVE Orderly(m, j)
    BY <2>1, <2>3, QuietHolds DEF Orderly, Engine, Serves, StoppedBy, instanceVars, restoreVars
  <2> QED
    BY <2>1, <2>2, <2>8, <2>9, GroundByMove
<1>9. CASE Slept(m)
  <2>1. /\ UNCHANGED <<store, routable, procs, restoreVars, exec, source, target, unloading>> /\ exec[m] = "parking"
        /\ asked[m] \in procs /\ \A j \in Instances : status'[j] = IF j = asked[m] THEN "sleeping" ELSE status[j]
    BY <1>9 DEF Slept, moveVars, endVars, userVars, TypeOK
  <2>2. ASSUME NEW n \in Moves \ {m} PROVE Idle(n)
    BY <1>2, <2>1 DEF Executing
  <2>3. ASSUME SleepMode, NEW j \in store, status[j] = "stopping" PROVE StoppedBy(m, j)
    BY <2>2, <2>3, OnlyItStops
  <2>8. SourceIs(m)' /\ TargetIs(m)'
    BY <1>1, <2>1 DEF SourceIs, TargetIs, Engine, Serves, TypeOK
  <2>9. ASSUME NEW j \in Instances PROVE Orderly(m, j)
    BY <2>1, <2>3, QuietHolds DEF Orderly, Engine, Serves, StoppedBy, restoreVars, TypeOK
  <2> QED
    BY <2>1, <2>2, <2>8, <2>9, GroundByMove
<1>10. ASSUME NEW i \in Instances, Launched(m, i) PROVE Ground'
  <2>1. /\ UNCHANGED <<restoreVars, source, unloading>> /\ Unborn(i)
        /\ exec[m] \in {"launching", "parking"} /\ exec'[m] = "waiting" /\ \A n \in Moves \ {m} : exec'[n] = exec[n]
        /\ \A j \in Instances : status'[j] = IF j = i THEN "starting" ELSE status[j]
        /\ store' = store \cup {i} /\ procs' = procs \cup {i} /\ routable' = routable \cup {i} /\ target'[m] = i
    BY <1>10 DEF Launched, Unused, Unborn, At, endVars, userVars, TypeOK
  <2>2. ASSUME NEW n \in Moves \ {m} PROVE Idle(n)
    BY <1>2, <2>1 DEF Executing
  <2>3. ASSUME SleepMode, NEW j \in store, status[j] = "stopping" PROVE StoppedBy(m, j)
    BY <2>2, <2>3, OnlyItStops
  <2>4. i \notin store /\ source[m] # i /\ target[m] # i
    BY <1>3, <2>1
  <2>8. SourceIs(m)' /\ TargetIs(m)'
    BY <1>1, <2>1, <2>4 DEF SourceIs, TargetIs, Engine, Serves, TypeOK
  <2>9. ASSUME NEW j \in Instances PROVE Orderly(m, j)
    <3>1. CASE j = i
      <4>1. Unborn(j) /\ j \notin store
        BY <2>1, <2>4, <3>1
      <4> QED
        BY <2>1, <3>1, <4>1, QuietHolds DEF Orderly, Engine, Serves, restoreVars, TypeOK
    <3>2. CASE j # i
      <4>1. ~(SleepMode /\ j \in store /\ status[j] = "stopping")
        BY <2>1, <2>3 DEF StoppedBy
      <4> QED
        BY <2>1, <3>2, <4>1, QuietHolds DEF Orderly, Engine, Serves, restoreVars
    <3> QED
      BY <3>1, <3>2
  <2> QED
    BY <2>1, <2>2, <2>8, <2>9, GroundByMove
<1>11. ASSUME NEW i \in Instances, LaunchFails(m, i) PROVE Ground'
  <2>1. /\ UNCHANGED <<procs, routable, waking, source, target, unloading>> /\ Unborn(i)
        /\ exec[m] \in {"launching", "parking"} /\ exec'[m] = "failing" /\ \A n \in Moves \ {m} : exec'[n] = exec[n]
        /\ \A j \in Instances : status'[j] = IF j = i THEN "failed" ELSE status[j]
        /\ store' = store \cup {i} /\ restoring' = [restoring EXCEPT ![i] = @ \cup plan[i]] /\ plan' = [plan EXCEPT ![i] = {}]
    BY <1>11 DEF LaunchFails, Unused, Unborn, At, endVars, userVars, TypeOK
  <2>2. ASSUME NEW n \in Moves \ {m} PROVE Idle(n)
    BY <1>2, <2>1 DEF Executing
  <2>3. ASSUME SleepMode, NEW j \in store, status[j] = "stopping" PROVE StoppedBy(m, j)
    BY <2>2, <2>3, OnlyItStops
  <2>4. i \notin store /\ source[m] # i /\ target[m] # i
    BY <1>3, <2>1
  <2>8. SourceIs(m)' /\ TargetIs(m)'
    BY <1>1, <2>1, <2>4 DEF SourceIs, TargetIs, Engine, Serves, TypeOK
  <2>9. ASSUME NEW j \in Instances PROVE Orderly(m, j)
    <3>1. CASE j = i
      <4>1. Unborn(j) /\ j \notin store
        BY <2>1, <2>4, <3>1
      <4> QED
        BY <2>1, <3>1, <4>1, QuietHolds DEF Orderly, Engine, Serves, TypeOK
    <3>2. CASE j # i
      <4>1. ~(SleepMode /\ j \in store /\ status[j] = "stopping")
        BY <2>1, <2>3 DEF StoppedBy
      <4>2. plan'[j] = plan[j] /\ restoring'[j] = restoring[j]
        BY <2>1, <3>2 DEF TypeOK
      <4> QED
        BY <2>1, <3>2, <4>1, <4>2, QuietHolds DEF Orderly, Engine, Serves
    <3> QED
      BY <3>1, <3>2
  <2> QED
    BY <2>1, <2>2, <2>8, <2>9, GroundByMove
<1>12. CASE LaunchThrows(m) \/ WaitFails(m)
  <2>1. exec[m] \in {"launching", "failing", "waiting"} /\ Rollback(m, phase)
    BY <1>12 DEF LaunchThrows, WaitFails
  <2> QED
    BY <2>1, RollbackGround
<1>13. CASE Switch(m)
  <2>1. /\ UNCHANGED <<status, store, procs, restoreVars, source, target, unloading>> /\ exec[m] = "waiting"
        /\ exec'[m] = "draining" /\ \A n \in Moves \ {m} : exec'[n] = exec[n]
        /\ routable' = routable \ ({source[m]} \cap store) /\ target[m] \in store /\ status[target[m]] = "running"
    BY <1>13 DEF Switch, At, endVars, userVars, TypeOK
  <2>2. ASSUME NEW n \in Moves \ {m} PROVE Idle(n)
    BY <1>2, <2>1 DEF Executing
  <2>3. ASSUME SleepMode, NEW j \in store, status[j] = "stopping" PROVE StoppedBy(m, j)
    BY <2>2, <2>3, OnlyItStops
  <2>8. SourceIs(m)' /\ TargetIs(m)'
    BY <1>1, <2>1 DEF SourceIs, TargetIs, Good, Engine, Serves
  <2>9. ASSUME NEW j \in Instances PROVE Orderly(m, j)
    BY <2>1, <2>3, QuietHolds DEF Orderly, Engine, Serves, StoppedBy, restoreVars
  <2> QED
    BY <2>1, <2>2, <2>8, <2>9, GroundByMove
<1>14. CASE Drained(m)
  <2>1. /\ UNCHANGED <<routable, procs, restoreVars, source, target, unloading>> /\ exec[m] = "draining"
        /\ \A n \in Moves \ {m} : exec'[n] = exec[n]
        /\ \/ /\ store' = store /\ exec'[m] = "unloading"
              /\ \A j \in Instances : status'[j] = IF j = source[m] THEN "stopping" ELSE status[j]
           \/ /\ store' = store \ {source[m]} /\ status' = status /\ exec'[m] = "done"
    BY <1>14 , <1>1 DEF Drained, SourceIs, BeginUnload, At, endVars, userVars, TypeOK
  <2>2. ASSUME NEW n \in Moves \ {m} PROVE Idle(n)
    BY <1>2, <2>1 DEF Executing
  <2>3. ASSUME SleepMode, NEW j \in store, status[j] = "stopping" PROVE StoppedBy(m, j)
    BY <2>2, <2>3, OnlyItStops
  <2>8. SourceIs(m)' /\ TargetIs(m)'
    BY <1>1, <2>1 DEF SourceIs, TargetIs, Good, Engine, Serves, TypeOK
  <2>9. ASSUME NEW j \in Instances PROVE Orderly(m, j)
    BY <2>1, <2>3, QuietHolds DEF Orderly, Engine, Serves, StoppedBy, restoreVars, TypeOK
  <2> QED
    BY <2>1, <2>2, <2>8, <2>9, GroundByMove
<1>15. CASE SourceUnloaded(m)
  <2>1. /\ UNCHANGED <<status, routable, restoreVars, source, target, unloading>> /\ exec[m] = "unloading"
        /\ exec'[m] = "done" /\ \A n \in Moves \ {m} : exec'[n] = exec[n]
        /\ store' = store \ {source[m]} /\ procs' = procs \ {source[m]}
    BY <1>15 DEF SourceUnloaded, EndUnload, At, endVars, userVars, TypeOK
  <2>2. ASSUME NEW n \in Moves \ {m} PROVE Idle(n)
    BY <1>2, <2>1 DEF Executing
  <2>3. ASSUME SleepMode, NEW j \in store, status[j] = "stopping" PROVE StoppedBy(m, j)
    BY <2>2, <2>3, OnlyItStops
  <2>8. SourceIs(m)' /\ TargetIs(m)'
    BY <1>1, <2>1 DEF SourceIs, TargetIs
  <2>9. ASSUME NEW j \in Instances PROVE Orderly(m, j)
    BY <2>1, <2>3, QuietHolds DEF Orderly, Engine, Serves, StoppedBy, restoreVars, TypeOK
  <2> QED
    BY <2>1, <2>2, <2>8, <2>9, GroundByMove
<1>16. CASE RolledBack(m)
  <2>1. /\ UNCHANGED <<status, routable, restoreVars, source, target, unloading>> /\ exec[m] = "rolling back"
        /\ exec'[m] = "done" /\ \A n \in Moves \ {m} : exec'[n] = exec[n]
        /\ store' = store \ {target[m]} /\ procs' = procs \ {target[m]}
    BY <1>16 DEF RolledBack, EndUnload, At, endVars, userVars, TypeOK
  <2>2. ASSUME NEW n \in Moves \ {m} PROVE Idle(n)
    BY <1>2, <2>1 DEF Executing
  <2>3. ASSUME SleepMode, NEW j \in store, status[j] = "stopping" PROVE StoppedBy(m, j)
    BY <2>2, <2>3, OnlyItStops
  <2>8. SourceIs(m)' /\ TargetIs(m)'
    BY <1>1, <2>1 DEF SourceIs, TargetIs
  <2>9. ASSUME NEW j \in Instances PROVE Orderly(m, j)
    BY <2>1, <2>3, QuietHolds DEF Orderly, Engine, Serves, StoppedBy, restoreVars, TypeOK
  <2> QED
    BY <2>1, <2>2, <2>8, <2>9, GroundByMove
<1> QED
  BY <1>4, <1>5, <1>6, <1>7, <1>8, <1>9, <1>10, <1>11, <1>12, <1>13, <1>14, <1>15, <1>16 DEF Step
-----------------------------------------------------------------------------
(* ... and an instance is left. *)

SafeStays(i) == Safe(i) => Safe(i)'
ParkStays(i, j) == Parked(i, j) /\ (j \in store \/ Unborn(j)) => Parked(i, j)' \/ Safe(i)' \/ Good(j)'
GoodStays(i) == Good(i) => Good(i)'

\* Steps that do not touch moves.
LEMMA CoveredKept ==
    ASSUME TypeOK, NewInv, Ground, UNCHANGED <<exec, target, launch>>,
           \A i \in Instances : SafeStays(i) /\ GoodStays(i) /\ \A j \in Instances : ParkStays(i, j),
           AtRest, \A m \in Moves : Covered(m)
    PROVE  AtRest' /\ \A m \in Moves : Covered(m)'
<1>1. AtRest'
  <2>1. ASSUME NEW i \in Instances, Safe(i) PROVE Safe(i)'
    BY <2>1 DEF SafeStays
  <2> QED
    BY <2>1 DEF AtRest, Executing
<1>2. ASSUME NEW m \in Moves PROVE Covered(m)'
  <2>1. ASSUME NEW i \in Instances, Safe(i) PROVE Safe(i)'
    BY <2>1 DEF SafeStays
  <2>2. CASE exec[m] \in {"launching", "failing", "rolling back"}
    BY <2>1, <2>2 DEF Covered
  <2>3. CASE exec[m] = "parking"
    <3>1. PICK i \in Instances : Safe(i) \/ Parked(i, launch[m])
      BY <2>3 DEF Covered
    <3>2. launch[m] \in Instances /\ Unborn(launch[m])
      BY <2>3 DEF NewInv, OwnLaunch, Unborn
    <3>3. Safe(i)' \/ Parked(i, launch[m])' \/ Good(launch[m])'
      BY <2>1, <3>1, <3>2 DEF ParkStays
    <3>4. Good(launch[m])' => Safe(launch[m])'
      BY DEF Good, Safe
    <3> QED
      BY <2>3, <3>2, <3>3, <3>4 DEF Covered
  <2>4. CASE exec[m] = "waiting"
    <3>1. target[m] \in Instances /\ target[m] \in store
      BY <2>4 DEF Ground, TargetIs
    <3>2. CASE SleepMode /\ Good(target[m])
      BY <2>4, <3>1, <3>2 DEF Covered, GoodStays
    <3>3. CASE ~(SleepMode /\ Good(target[m]))
      <4>1. PICK i \in Instances \ {target[m]} : Safe(i) \/ Parked(i, target[m])
        BY <2>4, <3>3 DEF Covered
      <4>2. Safe(i)' \/ Parked(i, target[m])' \/ (SleepMode /\ Good(target[m])')
        BY <2>1, <3>1, <4>1, QuietHolds DEF ParkStays, Parked
      <4> QED
        BY <2>4, <3>1, <4>2 DEF Covered
    <3> QED
      BY <3>2, <3>3
  <2>5. CASE exec[m] \notin {"launching", "failing", "rolling back", "parking", "waiting"}
    BY <2>5 DEF Covered
  <2> QED
    BY <2>2, <2>3, <2>4, <2>5
<1> QED
  BY <1>1, <1>2

\* Startup monitors, restores and exits: a restore that gives up an engine puts it
\* back into routing.
LEMMA CoveredMonitor ==
    ASSUME TypeOK, TypeOK', NewInv, Ground, NEW i \in Instances,
           \/ Monitor(i) \/ Restore(i)
           \/ Exit(i) /\ i \notin Serving,
           AtRest, \A m \in Moves : Covered(m)
    PROVE  AtRest' /\ \A m \in Moves : Covered(m)'
<1>1. UNCHANGED <<exec, target, launch>>
  BY DEF Monitor, Ready, ReadyGone, Measured, BootFails, BootFailed, Restore, RestoreNext, Woken, NotWoken, Exit,
         moveVars, launchVars, endVars
<1> SUFFICES ASSUME NEW x \in Instances, NEW j \in Instances
             PROVE  SafeStays(x) /\ GoodStays(x) /\ ParkStays(x, j)
  BY <1>1, CoveredKept
<1> USE DEF SafeStays, GoodStays, ParkStays, Safe, Good, Parked, Engine, Serves
<1>2. CASE Ready(i)
  <2>1. i \in store \cap procs \cap routable
    BY <1>2 DEF Ready, NewInv, TypeOK
  <2> QED
    BY <1>2, <2>1 DEF Ready, DropPlan, TypeOK
<1>3. CASE ReadyGone(i)
  <2>1. ~Unborn(i) /\ i \notin store
    BY <1>3 DEF ReadyGone, NewInv, NotYetThere
  <2> QED
    BY <1>3, <2>1 DEF ReadyGone, DropPlan, TypeOK
<1>4. CASE Measured(i)
  BY <1>4 DEF Measured, restoreVars
<1>5. CASE BootFails(i)
  BY <1>5 DEF BootFails, TypeOK
<1>6. CASE BootFailed(i)
  <2>1. status[i] \notin {"running", "sleeping"}
    BY <1>6 DEF BootFailed, NewInv, Young, LeftAlone
  <2> QED
    BY <1>6, <2>1 DEF BootFailed, restoreVars, TypeOK
<1>7. CASE RestoreNext(i)
  <2>1. PICK s \in restoring[i] :
            \/ Restored(i, s) /\ Reroute({s} \cap restoreRoutable[i]) /\ UNCHANGED waking
            \/ UNCHANGED <<restoring, restoreRoutable, routable>>
    BY <1>7 DEF RestoreNext
  <2>2. UNCHANGED <<status, store, procs, plan>>
    BY <1>7 DEF RestoreNext
  <2>3. CASE UNCHANGED <<restoring, restoreRoutable, routable>>
    BY <2>2, <2>3
  <2>4. CASE Restored(i, s) /\ Reroute({s} \cap restoreRoutable[i])
    <3>1. /\ \A k \in Instances :
                 /\ restoring'[k] = IF k = i THEN restoring[k] \ {s} ELSE restoring[k]
                 /\ restoreRoutable'[k] = IF k = i THEN restoreRoutable[k] \ {s} ELSE restoreRoutable[k]
          /\ routable' = routable \cup ({s} \cap restoreRoutable[i] \cap store)
      BY <2>4, ZenonT(40) DEF Restored, Reroute, TypeOK
    <3>2. SafeStays(x) /\ GoodStays(x)
      BY <2>2, <3>1
    <3>3. ParkStays(x, j)
      BY <2>1, <2>2, <3>1
    <3> QED
      BY <3>2, <3>3
  <2> QED
    BY <2>1, <2>3, <2>4
<1>8. CASE Woken(i)
  BY <1>8 DEF Woken, Restored, TypeOK
<1>9. CASE NotWoken(i)
  BY <1>9 DEF NotWoken, Restored, Reroute, TypeOK
<1>10. CASE Exit(i) /\ i \notin Serving
  <2>1. ~Serves(i)
    BY <1>10 DEF Serving
  <2>2. /\ UNCHANGED <<store, routable, restoreRoutable>> /\ procs' = procs \ {i}
        /\ \A k \in Instances : k # i => status'[k] = status[k]
    BY <1>10 DEF Exit, TypeOK
  <2>3. \A k \in Instances : restoring[k] \subseteq restoring'[k] /\ plan[k] \subseteq restoring'[k] \cup plan'[k]
    <3>1. CASE UNCHANGED <<restoring, plan>>
      BY <3>1
    <3>2. CASE restoring' = [restoring EXCEPT ![i] = @ \cup plan[i]] /\ plan' = [plan EXCEPT ![i] = {}]
      BY <3>2 DEF TypeOK
    <3> QED
      BY <1>10, <3>1, <3>2 DEF Exit
  <2> QED
    BY <2>1, <2>2, <2>3
<1> QED
  BY <1>2, <1>3, <1>4, <1>5, <1>6, <1>7, <1>8, <1>9, <1>10 DEF Monitor, Restore

\* A step of a move while the others are idle.
LEMMA CoveredByMove ==
    ASSUME NEW m \in Moves, \A n \in Moves \ {m} : Idle(n) /\ exec'[n] = exec[n],
           Executing(m)' \/ \E i \in Instances : Safe(i)', Covered(m)'
    PROVE  AtRest' /\ \A n \in Moves : Covered(n)'
<1>1. AtRest'
  BY DEF AtRest
<1>2. ASSUME NEW n \in Moves \ {m} PROVE Covered(n)'
  BY DEF Idle, Covered
<1> QED
  BY <1>1, <1>2

\* A rollback leaves an instance that is not the target: without sleep mode the
\* one that was left before, with it at least the source.
LEMMA RollbackCovered ==
    ASSUME TypeOK, TypeOK', OneMoveAtATime, NewInv, CopyInv, Ground, Undisturbed, NEW m \in Moves, NEW phases,
           exec[m] \in {"launching", "failing", "waiting"}, Rollback(m, phases), Covered(m)
    PROVE  AtRest' /\ \A n \in Moves : Covered(n)'
<1>1. SourceIs(m) /\ TargetIs(m)
  BY DEF Ground
<1>2. /\ UNCHANGED <<procs, restoring, restoreRoutable, target>> /\ routable' = routable \cup ({source[m]} \cap store)
      /\ \A n \in Moves \ {m} : exec'[n] = exec[n]
      /\ exec'[m] \in {"rolling back", "done"}
      /\ \A i \in Instances \ {target[m]} : status'[i] = status[i] /\ (i \in store => i \in store')
  BY ZenonT(40) DEF Rollback, Reroute, BeginUnload, restoreVars, endVars, At, TypeOK
<1>3. \A n \in Moves \ {m} : Idle(n)
  BY OneExecutes DEF Executing, Idle
<1>4. ASSUME NEW i \in Instances \ {target[m]}, Safe(i) PROVE Safe(i)'
  BY <1>2, <1>4 DEF Safe, Engine, Serves
<1>5. ASSUME SleepMode PROVE \E i \in Instances \ {target[m]} : Safe(i)'
  <2>1. PICK i \in Instances : i = source[m] /\ Engine(i)
    BY <1>1, <1>5 DEF SourceIs, Engine, Serves, TypeOK
  <2>2. i # target[m] /\ i \in store
    BY <1>1, <2>1 DEF TargetIs, CopyInv, CopyShape, Engine, Serves
  <2>3. status'[i] = status[i] /\ i \in store' /\ i \in procs' /\ i \in routable'
    BY <1>2, <2>1, <2>2 DEF Engine
  <2>4. Safe(i)'
    BY <2>1, <2>3 DEF Safe, Engine, Serves
  <2> QED
    BY <2>2, <2>4
<1>6. ASSUME ~SleepMode PROVE \E i \in Instances \ {target[m]} : Safe(i)'
  <2>1. CASE exec[m] = "waiting"
    <3>1. target[m] \in Instances
      BY <1>1, <2>1 DEF TargetIs
    <3>2. ASSUME NEW i \in Instances PROVE ~Parked(i, target[m])
      BY <1>6, <3>1, QuietHolds DEF Parked
    <3> QED
      BY <1>4, <1>6, <2>1, <3>2 DEF Covered
  <2>2. CASE exec[m] # "waiting"
    <3>1. target[m] = NoInstance
      BY <2>2 DEF CopyInv, CopyShape
    <3>2. PICK i \in Instances : Safe(i)
      BY <2>2 DEF Covered
    <3> QED
      BY <1>4, <3>1, <3>2, MoveAssumption
  <2> QED
    BY <2>1, <2>2
<1>7. \E i \in Instances \ {target[m]} : Safe(i)'
  BY <1>5, <1>6
<1>8. Covered(m)'
  BY <1>2, <1>7 DEF Covered
<1> QED
  BY <1>2, <1>3, <1>7, <1>8, CoveredByMove

\* Every step of a move.
LEMMA CoveredMove ==
    ASSUME TypeOK, TypeOK', OneMoveAtATime, NewInv, CopyInv, Ground, Undisturbed, NEW m \in Moves,
           (\E i \in Instances : Request(m, i)) \/ Step(m),
           AtRest, \A n \in Moves : Covered(n)
    PROVE  AtRest' /\ \A n \in Moves : Covered(n)'
<1>1. SourceIs(m) /\ TargetIs(m) /\ Covered(m)
  BY DEF Ground
<1>2. ASSUME Executing(m), NEW n \in Moves \ {m} PROVE Idle(n)
  BY <1>2, OneExecutes DEF Idle
<1>3. ASSUME NEW i \in Instances, Unborn(i) PROVE i \notin store
  BY <1>3 DEF NewInv, NotYetThere
<1>4. CASE (\E i \in Instances : Request(m, i)) \/ NotCreated(m)
  <2>1. /\ UNCHANGED <<instanceVars, restoreVars, launch, target>> /\ Idle(m) /\ Idle(m)'
        /\ \A n \in Moves \ {m} : exec'[n] = exec[n]
    BY <1>4 DEF Request, NotCreated, launchVars, At, Idle, TypeOK
  <2>2. ASSUME NEW i \in Instances, Safe(i) PROVE Safe(i)'
    BY <2>1, <2>2 DEF Safe, Engine, Serves, instanceVars, restoreVars
  <2>3. AtRest'
    BY <2>1, <2>2 DEF AtRest, Executing, Idle
  <2>4. ASSUME NEW n \in Moves PROVE Covered(n)'
    <3>1. CASE n = m
      BY <2>1, <3>1 DEF Idle, Covered
    <3>2. CASE n # m
      BY <2>1, <3>2, ZenonT(40) DEF Covered, Safe, Good, Parked, Engine, Serves, instanceVars, restoreVars
    <3> QED
      BY <3>1, <3>2
  <2> QED
    BY <2>3, <2>4
<1>5. CASE Create(m)
  <2>1. /\ UNCHANGED <<instanceVars, restoreVars>> /\ lock = NoMove /\ \A n \in Moves \ {m} : exec'[n] = exec[n]
        /\ exec[m] = "checking" /\ exec'[m] \in {"launching", "done"}
    BY <1>5 DEF Create, At, TypeOK
  <2>2. \A n \in Moves : ~Executing(n)
    BY <2>1, OneExecutes, MoveAssumption
  <2>3. ASSUME NEW n \in Moves \ {m} PROVE Idle(n)
    BY <2>2 DEF Executing, Idle
  <2>4. PICK i \in Instances : Safe(i)
    BY <2>2 DEF AtRest
  <2>5. Safe(i)'
    BY <2>1, <2>4 DEF Safe, Engine, Serves, instanceVars, restoreVars
  <2>6. Covered(m)'
    BY <2>1, <2>5 DEF Covered
  <2> QED
    BY <2>1, <2>3, <2>5, <2>6, CoveredByMove
<1>6. ASSUME NEW i \in Instances, Park(m, i) PROVE AtRest' /\ \A n \in Moves : Covered(n)'
  <2>1. /\ UNCHANGED <<store, procs, restoring>> /\ status[i] = "none" /\ launch'[m] = i
        /\ exec[m] = "launching" /\ exec'[m] = "parking" /\ \A n \in Moves \ {m} : exec'[n] = exec[n]
        /\ \A j \in Instances \ {i} : status'[j] = status[j] /\ restoreRoutable'[j] = restoreRoutable[j]
        /\ plan'[i] = Parkable(i) /\ restoreRoutable'[i] = Parkable(i) \cap routable /\ routable' = routable \ Parkable(i)
    BY <1>6 DEF Park, Unused, At, TypeOK
  <2>2. i \notin store /\ restoring[i] = {}
    BY <1>3, <2>1, QuietHolds DEF Unborn
  <2>3. PICK j \in Instances : Safe(j)
    BY <1>1, <2>1 DEF Covered
  <2>4. j # i /\ Engine(j) /\ status'[j] = status[j]
    BY <2>1, <2>2, <2>3 DEF Safe, Engine, Serves
  <2>5. Engine(j)'
    BY <2>1, <2>4 DEF Engine, Serves
  <2>6. Safe(j)' \/ Parked(j, i)'
    <3>1. CASE j \in routable
      BY <2>1, <2>5, <3>1 DEF Safe, Parked
    <3>2. CASE j \notin routable
      <4>1. PICK k \in Instances : j \in restoring[k] \cap restoreRoutable[k]
        BY <2>3, <3>2 DEF Safe
      <4> QED
        BY <2>1, <2>2, <2>5, <4>1 DEF Safe
    <3> QED
      BY <3>1, <3>2
  <2>7. Covered(m)' /\ Executing(m)'
    BY <2>1, <2>6 DEF Covered, Executing
  <2> QED
    BY <1>2, <2>1, <2>7, CoveredByMove DEF Executing
<1>7. CASE AskSleep(m)
  <2>1. UNCHANGED <<instanceVars, restoreVars, launch, exec>> /\ exec[m] = "parking"
    BY <1>7 DEF AskSleep, moveVars
  <2>2. PICK i \in Instances : Safe(i) \/ Parked(i, launch[m])
    BY <1>1, <2>1 DEF Covered
  <2>3. Safe(i)' \/ Parked(i, launch[m])'
    BY <2>1, <2>2 DEF Safe, Parked, Engine, Serves, instanceVars, restoreVars
  <2>4. Covered(m)' /\ Executing(m)'
    BY <2>1, <2>3 DEF Covered, Executing
  <2> QED
    BY <1>2, <2>1, <2>4, CoveredByMove DEF Executing
<1>8. CASE Slept(m)
  <2>1. /\ UNCHANGED <<store, routable, procs, restoreVars, launch, exec>> /\ exec[m] = "parking"
        /\ \A i \in Instances : status'[i] \in {status[i], "sleeping"}
    BY <1>8 DEF Slept, moveVars, TypeOK
  <2>2. PICK i \in Instances : Safe(i) \/ Parked(i, launch[m])
    BY <1>1, <2>1 DEF Covered
  <2>3. Safe(i)' \/ Parked(i, launch[m])'
    BY <2>1, <2>2 DEF Safe, Parked, Engine, Serves, restoreVars
  <2>4. Covered(m)' /\ Executing(m)'
    BY <2>1, <2>3 DEF Covered, Executing
  <2> QED
    BY <1>2, <2>1, <2>4, CoveredByMove DEF Executing
<1>9. ASSUME NEW i \in Instances, Launched(m, i) PROVE AtRest' /\ \A n \in Moves : Covered(n)'
  <2>1. /\ UNCHANGED restoreVars /\ Unborn(i) /\ store \subseteq store' /\ procs \subseteq procs' /\ routable \subseteq routable'
        /\ exec[m] \in {"launching", "parking"} /\ (exec[m] = "parking" => i = launch[m])
        /\ exec'[m] = "waiting" /\ \A n \in Moves \ {m} : exec'[n] = exec[n]
        /\ \A j \in Instances \ {i} : status'[j] = status[j]
        /\ target'[m] = i
    BY <1>9 DEF Launched, Unused, Unborn, At, TypeOK
  <2>2. PICK j \in Instances : Safe(j) \/ Parked(j, i)
    BY <1>1, <2>1 DEF Covered
  <2>3. j # i /\ Engine(j)
    BY <1>3, <2>1, <2>2 DEF Safe, Parked, Engine, Serves
  <2>4. Safe(j)' \/ Parked(j, i)'
    BY <2>1, <2>2, <2>3 DEF Safe, Parked, Engine, Serves, restoreVars
  <2>5. Covered(m)' /\ Executing(m)'
    BY <2>1, <2>3, <2>4 DEF Covered, Executing
  <2> QED
    BY <1>2, <2>1, <2>5, CoveredByMove DEF Executing
<1>10. ASSUME NEW i \in Instances, LaunchFails(m, i) PROVE AtRest' /\ \A n \in Moves : Covered(n)'
  <2>1. /\ UNCHANGED <<procs, routable, restoreRoutable>> /\ Unborn(i) /\ store \subseteq store'
        /\ exec[m] \in {"launching", "parking"} /\ (exec[m] = "parking" => i = launch[m])
        /\ exec'[m] = "failing" /\ \A n \in Moves \ {m} : exec'[n] = exec[n]
        /\ \A j \in Instances \ {i} : status'[j] = status[j] /\ restoring'[j] = restoring[j]
        /\ restoring'[i] = restoring[i] \cup plan[i]
    BY <1>10 DEF LaunchFails, Unused, Unborn, At, TypeOK
  <2>2. PICK j \in Instances : Safe(j) \/ Parked(j, i)
    BY <1>1, <2>1 DEF Covered
  <2>3. j # i /\ Engine(j)
    BY <1>3, <2>1, <2>2 DEF Safe, Parked, Engine, Serves
  <2>4. Engine(j)'
    BY <2>1, <2>3 DEF Engine, Serves
  <2>5. Safe(j)'
    <3>1. \A k \in Instances : restoring[k] \subseteq restoring'[k]
      BY <2>1
    <3> QED
      BY <2>1, <2>2, <2>4, <3>1 DEF Safe, Parked
  <2>6. Covered(m)' /\ Executing(m)'
    BY <2>1, <2>5 DEF Covered, Executing
  <2> QED
    BY <1>2, <2>1, <2>6, CoveredByMove DEF Executing
<1>11. CASE LaunchThrows(m) \/ WaitFails(m)
  <2>1. exec[m] \in {"launching", "failing", "waiting"} /\ Rollback(m, phase)
    BY <1>11 DEF LaunchThrows, WaitFails
  <2> QED
    BY <1>1, <2>1, RollbackCovered
<1>12. CASE Switch(m)
  <2>1. exec[m] = "waiting" /\ exec'[m] = "draining" /\ \A n \in Moves \ {m} : exec'[n] = exec[n]
    BY <1>12 DEF Switch, At, TypeOK
  <2>2. Covered(m)' /\ Executing(m)'
    BY <2>1 DEF Covered, Executing
  <2> QED
    BY <1>2, <2>1, <2>2, CoveredByMove DEF Executing
<1>13. CASE Drained(m) \/ SourceUnloaded(m)
  <2>1. /\ UNCHANGED routable /\ exec[m] \in {"draining", "unloading"} /\ exec'[m] \in {"unloading", "done"}
        /\ \A n \in Moves \ {m} : exec'[n] = exec[n]
        /\ \A i \in Instances \ {source[m]} :
               status'[i] = status[i] /\ (i \in store => i \in store') /\ (i \in procs => i \in procs')
    BY <1>1, <1>13 DEF Drained, SourceUnloaded, SourceIs, BeginUnload, EndUnload, endVars, At, TypeOK
  <2>2. PICK i \in Instances \ {source[m]} : Good(i)
    BY <1>1, <2>1 DEF TargetIs
  <2>3. Safe(i)'
    BY <2>1, <2>2 DEF Good, Safe, Engine, Serves
  <2>4. Covered(m)'
    BY <2>1 DEF Covered
  <2> QED
    BY <1>2, <2>1, <2>2, <2>3, <2>4, CoveredByMove DEF Executing
<1>14. CASE RolledBack(m)
  <2>1. /\ UNCHANGED <<routable, status, restoreVars>> /\ exec[m] = "rolling back" /\ exec'[m] = "done"
        /\ \A n \in Moves \ {m} : exec'[n] = exec[n]
        /\ store' = store \ {target[m]} /\ procs' = procs \ {target[m]}
    BY <1>14 DEF RolledBack, EndUnload, At, TypeOK
  <2>2. PICK i \in Instances \ {target[m]} : Safe(i)
    BY <1>1, <2>1 DEF Covered
  <2>3. Safe(i)'
    BY <2>1, <2>2 DEF Safe, Engine, Serves, restoreVars
  <2>4. Covered(m)'
    BY <2>1 DEF Covered
  <2> QED
    BY <1>2, <2>1, <2>3, <2>4, CoveredByMove DEF Executing
<1> QED
  BY <1>4, <1>5, <1>6, <1>7, <1>8, <1>9, <1>10, <1>11, <1>12, <1>13, <1>14 DEF Step

KeptInv ==
    Undisturbed => Ground /\ (Sources # {} => AtRest /\ \A m \in Moves : Covered(m))

\* Moves, monitors and restores together.
LEMMA KeptStep ==
    ASSUME TypeOK, TypeOK', OneMoveAtATime, NewInv, CopyInv, KeptInv, [Next]_vars
    PROVE  KeptInv'
<1> SUFFICES ASSUME Undisturbed'
             PROVE  Ground' /\ (Sources # {} => AtRest' /\ \A m \in Moves : Covered(m)')
  BY DEF KeptInv
<1>1. Undisturbed /\ Ground /\ (Sources # {} => AtRest /\ \A m \in Moves : Covered(m))
  BY StaysUndisturbed DEF KeptInv
<1>2. ASSUME NEW m \in Moves, (\E i \in Instances : Request(m, i)) \/ Step(m)
      PROVE  Ground' /\ (Sources # {} => AtRest' /\ \A n \in Moves : Covered(n)')
  BY <1>1, <1>2, GroundMove, CoveredMove
<1>3. ASSUME NEW i \in Instances, Monitor(i) \/ Restore(i) \/ (Exit(i) /\ i \notin Serving)
      PROVE  Ground' /\ (Sources # {} => AtRest' /\ \A n \in Moves : Covered(n)')
  BY <1>1, <1>3, GroundMonitor, CoveredMonitor
<1>4. ASSUME NEW i \in Instances PROVE ~UserUnloaded(i)
  BY <1>1 DEF Ground, Quiet, UserUnloaded
<1>5. CASE UNCHANGED vars
  <2>1. UNCHANGED <<status, store, routable, procs, plan, restoring, restoreRoutable, waking, launch, source, target, exec, unloading>>
    BY <1>5 DEF vars, instanceVars, restoreVars, launchVars, moveVars, endVars, userVars
  <2>2. Ground'
    BY <1>1, <2>1 DEF Ground, Quiet, SourceIs, TargetIs, StoppedBy, Good, Engine, Serves
  <2>3. Sources # {} => AtRest' /\ \A n \in Moves : Covered(n)'
    BY <1>1, <2>1 DEF AtRest, Covered, Executing, Safe, Parked, Good, Engine, Serves
  <2> QED
    BY <2>2, <2>3
<1> QED
  BY <1>2, <1>3, <1>4, <1>5, StaysUndisturbed DEF Next

\* Blue-green moves: for every set of instances and moves, with and without sleep
\* mode, some engine serves the model and takes requests, or a launch has parked
\* instances, while no serving instance crashes or is unloaded by hand and no
\* move is cancelled, however many moves fail at whatever step.
THEOREM ModelStaysServed == Spec => []ModelKept
<1>1. Init => KeptInv
  <2> SUFFICES ASSUME Init PROVE KeptInv
    OBVIOUS
  <2>1. \A i \in Sources : Safe(i)
    BY DEF Init, Safe, Engine, Serves
  <2>2. Ground
    BY DEF Init, Ground, Quiet, SourceIs, TargetIs, Serves
  <2>3. Sources # {} => AtRest /\ \A m \in Moves : Covered(m)
    BY <2>1 DEF Init, AtRest, Covered
  <2> QED
    BY <2>2, <2>3 DEF KeptInv
<1>2. TypeOK /\ TypeOK' /\ OneMoveAtATime /\ NewInv /\ CopyInv /\ KeptInv /\ [Next]_vars => KeptInv'
  BY KeptStep
<1>3. TypeOK /\ NewInv /\ KeptInv => ModelKept
  <2> SUFFICES ASSUME TypeOK, NewInv, KeptInv, Undisturbed, Sources # {}
               PROVE  Serving \cap routable \cap procs # {} \/ Parking
    BY DEF ModelKept
  <2>1. Ground /\ AtRest /\ \A m \in Moves : Covered(m)
    BY DEF KeptInv
  <2>2. ASSUME NEW i \in Instances, Safe(i) PROVE Serving \cap routable \cap procs # {} \/ Parking
    BY <2>2 DEF Safe, Engine, Serves, Serving, Parking
  <2>3. ASSUME NEW i \in Instances, Good(i) PROVE Serving \cap routable \cap procs # {}
    BY <2>3 DEF Good, Engine, Serves, Serving
  <2>4. ASSUME NEW i \in Instances, NEW j \in Instances, Parked(i, j) PROVE Parking
    BY <2>4 DEF Parked, Parking
  <2>5. ASSUME NEW m \in Moves, Executing(m) PROVE Serving \cap routable \cap procs # {} \/ Parking
    <3>1. CASE exec[m] \in {"launching", "failing", "rolling back"}
      BY <2>1, <2>2, <3>1 DEF Covered
    <3>2. CASE exec[m] = "parking"
      BY <2>1, <2>2, <2>4, <3>2 DEF Covered, NewInv, OwnLaunch
    <3>3. CASE exec[m] \in {"waiting", "draining", "unloading"}
      <4>1. TargetIs(m) /\ target[m] \in Instances
        BY <2>1, <3>3 DEF Ground, TargetIs
      <4> QED
        BY <2>1, <2>2, <2>3, <2>4, <3>3, <4>1 DEF Covered, TargetIs
    <3> QED
      BY <2>5, <3>1, <3>2, <3>3 DEF TypeOK, Places, Executing
  <2>6. CASE \A m \in Moves : ~Executing(m)
    BY <2>1, <2>2, <2>6 DEF AtRest
  <2> QED
    BY <2>5, <2>6
<1> QED
  BY <1>1, <1>2, <1>3, TypeCorrect, OneMove, NewAlways, CopiesAlways, PTL DEF Spec

===============================================================================
