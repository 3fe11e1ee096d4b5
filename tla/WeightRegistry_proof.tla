--------------------------- MODULE WeightRegistry_proof ---------------------------
(***************************************************************************)
(* Proofs about WeightRegistry: type correctness and, as long as export    *)
(* services run alone, that there is one primary and that secondaries end  *)
(* only when their primary has ended.                                      *)
(***************************************************************************)
EXTENDS WeightRegistry, TLAPS

-----------------------------------------------------------------------------
(* The inductive invariant *)

Wrote(p) == primary[p] \in {"written", "unsignalled", "exported", "gone"} \cup Cleaning
Past(p)  == primary[p] \in Cleaning \cup {"gone"}

\* Two primaries that are there at once are both servers; only exporters clean up.
PrimariesAlone ==
    /\ \A p, q \in Primaries : p # q /\ Alive(p) /\ Alive(q) => {p, q} \subseteq Servers
    /\ \A p \in Primaries : primary[p] \in Cleaning => p \in Exporters

\* Whoever has opened the lock file, or holds the lock, has the file of that name.
LockInPlace ==
    \A p \in Primaries :
        /\ primary[p] \in Holding \cup {"opened"} => fd[p] = lockFile /\ lockFile # None
        /\ Holds(p) => holder[lockFile] = p

\* Who maps something knows whose it is; who asks waits or runs.
SecondaryShape ==
    \A s \in Secondaries :
        /\ secondary[s] \in {"mapping", "importing", "checking", "running", "exited"} => source[s] # None
        /\ probe[s] # "no" => secondary[s] \in {"opening", "importing", "running"}
        /\ probe[s] = "watch" => secondary[s] = "running"
        /\ fd[s] # None => probe[s] # "no"

\* Memory that is mapped has been exported.
SourcesWrote ==
    /\ registry # None => Wrote(registry)
    /\ \A s \in Secondaries :
         /\ secondary[s] \in {"mapping", "importing", "checking", "running", "exited"} => Wrote(source[s])
         /\ secondary[s] = "exited" => Past(source[s])

\* A secondary that maps the memory of a primary that holds the lock asks about the
\* lock file which that primary holds.
ProbesInPlace ==
    \A s \in Secondaries :
        secondary[s] \in {"importing", "running"} /\ fd[s] # None /\ Holds(source[s]) => fd[s] = lockFile

Shape == TypeOK /\ SecondaryShape

-----------------------------------------------------------------------------
(* Type correctness *)

LEMMA Names == /\ None \notin Processes /\ Primaries \subseteq Processes /\ Secondaries \subseteq Processes
               /\ Primaries \cap Secondaries = {} /\ Servers \subseteq Primaries
               /\ Exporters \subseteq Primaries /\ Servers \cap Exporters = {}
BY RegistryAssumption DEF Processes, Primaries

LEMMA AnswerShape ==
    ASSUME Shape, NEW s \in Secondaries, NEW alive \in BOOLEAN, Answer(s, alive), probe[s] # "no"
    PROVE  /\ secondary' = [secondary EXCEPT ![s] = secondary'[s]]
           /\ secondary'[s] \in {secondary[s], "reading", "checking", "exited", "failed"}
           /\ secondary'[s] = "checking" => secondary[s] \in {"importing", "running"}
           /\ secondary'[s] = "exited" => ~alive /\ probe[s] = "watch" /\ secondary[s] = "running"
           /\ probe' = [probe EXCEPT ![s] = "no"]
<1> DEFINE new == CASE alive /\ probe[s] = "late" ->
                          IF secondary[s] = "opening" THEN "reading" ELSE "checking"
                   [] alive /\ probe[s] # "late" -> secondary[s]
                   [] ~alive -> IF probe[s] = "watch" THEN "exited" ELSE "failed"
<1>1. secondary' = [secondary EXCEPT ![s] = new] /\ probe' = [probe EXCEPT ![s] = "no"]
  BY DEF Answer, Become
<1>2. secondary[s] \in {"opening", "importing", "running"} /\ (probe[s] = "watch" => secondary[s] = "running")
  BY DEF Shape, SecondaryShape
<1>3. CASE alive
  <2>1. new = IF probe[s] = "late" THEN (IF secondary[s] = "opening" THEN "reading" ELSE "checking")
              ELSE secondary[s]
    BY <1>3
  <2> HIDE DEF new
  <2> QED
    BY <1>1, <1>2, <1>3, <2>1 DEF Shape, TypeOK
<1>4. CASE ~alive
  <2>1. new = IF probe[s] = "watch" THEN "exited" ELSE "failed"
    BY <1>4
  <2> HIDE DEF new
  <2> QED
    BY <1>1, <1>2, <1>4, <2>1 DEF Shape, TypeOK
<1> QED
  BY <1>3, <1>4

LEMMA AnswerKeeps ==
    ASSUME Shape, NEW s \in Secondaries, NEW alive \in BOOLEAN, Answer(s, alive), probe[s] # "no",
           source' = source, fd'[s] = None, \A r \in Secondaries \ {s} : fd'[r] = fd[r]
    PROVE  /\ SecondaryShape'
           /\ secondary' \in [Secondaries -> SecondaryStages]
           /\ probe' \in [Secondaries -> {"no", "early", "late", "watch"}]
           /\ \A r \in Secondaries : secondary'[r] = "running" => source'[r] # None
           /\ \A r \in Secondaries \ {s} : secondary'[r] = secondary[r] /\ probe'[r] = probe[r]
<1>1. \A r \in Secondaries \ {s} : secondary'[r] = secondary[r] /\ probe'[r] = probe[r]
  BY AnswerShape DEF Shape, TypeOK
<1>2. probe'[s] = "no" /\ probe' \in [Secondaries -> {"no", "early", "late", "watch"}]
  BY AnswerShape DEF Shape, TypeOK
<1>3. secondary' \in [Secondaries -> SecondaryStages]
  <2>1. secondary'[s] \in SecondaryStages
    BY AnswerShape DEF Shape, TypeOK, SecondaryStages
  <2> QED
    BY <2>1, AnswerShape DEF Shape, TypeOK
<1>4. secondary'[s] \in {"mapping", "importing", "checking", "running", "exited"} => source[s] # None
  BY AnswerShape DEF Shape, SecondaryShape
<1>5. SecondaryShape'
  BY <1>1, <1>2, <1>4 DEF Shape, SecondaryShape
<1> QED
  BY <1>1, <1>2, <1>3, <1>5 DEF SecondaryShape

\* A step of a primary leaves the secondaries' variables alone.
LEMMA PrimaryShape ==
    ASSUME Shape, NEW p \in Primaries, PrimaryNext(p)
    PROVE  /\ Shape' /\ UNCHANGED <<secondary, probe, source>>
           /\ \A s \in Secondaries : fd'[s] = fd[s]
           /\ \A q \in Primaries \ {p} : fd'[q] = fd[q] /\ primary'[q] = primary[q]
<1> USE Names DEF Shape, TypeOK, PrimaryStages, Holding, Cleaning
<1>1. /\ UNCHANGED <<secondary, probe, source>>
      /\ primary' \in [Primaries -> PrimaryStages]
      /\ \A q \in Primaries \ {p} : primary'[q] = primary[q]
  BY DEF PrimaryNext, PrimaryStep, Start, OpenLock, Lock, LockRefused, WriteRegistry, RemoveSignal, Signal,
         Shutdown, UnlinkReady, UnlinkRegistry, UnlinkLock, Exit
<1>2. lockFile' \in Primaries \cup {None} /\ registry' \in Primaries \cup {None} /\ ready' \in BOOLEAN
  BY DEF PrimaryNext, PrimaryStep, Start, OpenLock, Lock, LockRefused, WriteRegistry, RemoveSignal, Signal,
         Shutdown, UnlinkReady, UnlinkRegistry, UnlinkLock, Exit, files
<1>3. /\ fd' \in [Processes -> Primaries \cup {None}]
      /\ \A q \in Processes \ {p} : fd'[q] = fd[q]
  BY <1>2 DEF PrimaryNext, Start, OpenLock, Lock, LockRefused, WriteRegistry, RemoveSignal, Signal,
         Shutdown, UnlinkReady, UnlinkRegistry, UnlinkLock, Exit, Close
<1>4. holder' \in [Primaries -> Processes \cup {None}]
  BY DEF PrimaryNext, PrimaryStep, Start, OpenLock, Lock, LockRefused, WriteRegistry, RemoveSignal, Signal,
         Shutdown, UnlinkReady, UnlinkRegistry, UnlinkLock, Exit, files, Unlock
<1>5. \A s \in Secondaries : fd'[s] = fd[s]
  BY <1>3
<1>6. SecondaryShape'
  BY <1>1, <1>5 DEF SecondaryShape
<1> QED
  BY <1>1, <1>2, <1>3, <1>4, <1>5, <1>6

\* A step of a secondary leaves the primaries and the files alone, and takes only
\* locks that nobody holds.
LEMMA SecondaryStepShape ==
    ASSUME Shape, NEW s \in Secondaries, SecondaryNext(s)
    PROVE  /\ Shape' /\ UNCHANGED <<lockFile, registry, ready, primary>>
           /\ \A q \in Processes \ {s} : fd'[q] = fd[q]
           /\ \A r \in Secondaries \ {s} : /\ secondary'[r] = secondary[r] /\ probe'[r] = probe[r]
                                           /\ source'[r] = source[r]
           /\ \A i, p \in Primaries : holder[i] = p => holder'[i] = p
<1> USE Names DEF Shape
<1>1. CASE Begin(s)
  BY <1>1 DEF Begin, Become, files, TypeOK, SecondaryShape, SecondaryStages
<1>2. CASE Ask(s)
  <2>1. PICK why \in {"early", "late", "watch"} :
          /\ CASE why = "watch" -> secondary[s] = "running"
               [] why = "late"  -> secondary[s] \in {"opening", "importing"} /\ ready
               [] why = "early" -> secondary[s] \in {"opening", "importing"} /\ ~ready /\ lockFile # None
          /\ probe' = [probe EXCEPT ![s] = why]
    BY <1>2 DEF Ask
  <2>2. /\ why = "watch" => secondary[s] = "running"
        /\ why # "watch" => secondary[s] \in {"opening", "importing"}
    BY <2>1
  <2>3. probe' = [probe EXCEPT ![s] = why] /\ UNCHANGED <<files, fd, primary, secondary, source>>
    BY <1>2, <2>1 DEF Ask
  <2> QED
    BY <2>2, <2>3 DEF files, TypeOK, SecondaryShape
<1>3. CASE ProbeOpen(s)
  <2>1. CASE lockFile = None
    <3>1. Answer(s, FALSE) /\ UNCHANGED <<files, fd, primary, source>> /\ probe[s] # "no" /\ fd[s] = None
      BY <1>3, <2>1 DEF ProbeOpen
    <3> QED
      BY <3>1, AnswerKeeps DEF files, TypeOK
  <2>2. CASE lockFile # None
    BY <1>3, <2>2 DEF ProbeOpen, files, TypeOK, SecondaryShape
  <2> QED
    BY <2>1, <2>2
<1>4. CASE Probe(s)
  <2>0. fd[s] # None /\ probe[s] # "no" /\ fd[s] \in Primaries
    BY <1>4 DEF Probe, TypeOK, SecondaryShape
  <2>1. CASE holder[fd[s]] = None
    BY <1>4, <2>0, <2>1 DEF Probe, TypeOK, SecondaryShape
  <2>2. CASE holder[fd[s]] # None
    <3>1. Answer(s, TRUE) /\ Close(s) /\ UNCHANGED <<holder, lockFile, registry, ready, primary, source>>
      BY <1>4, <2>2 DEF Probe
    <3>2. /\ fd' \in [Processes -> Primaries \cup {None}] /\ fd'[s] = None
          /\ \A q \in Processes \ {s} : fd'[q] = fd[q]
      BY <3>1 DEF Close, TypeOK
    <3>3. \A r \in Secondaries \ {s} : fd'[r] = fd[r]
      BY <3>2
    <3> QED
      BY <2>0, <3>1, <3>2, <3>3, AnswerKeeps DEF TypeOK
  <2> QED
    BY <2>1, <2>2
<1>5. CASE ProbeUnlock(s)
  <2>0. fd[s] # None /\ probe[s] # "no" /\ fd[s] \in Primaries
    BY <1>5 DEF ProbeUnlock, TypeOK, SecondaryShape
  <2>1. Answer(s, FALSE) /\ Unlock(s) /\ Close(s) /\ UNCHANGED <<lockFile, registry, ready, primary, source>>
    BY <1>5 DEF ProbeUnlock
  <2>2. /\ fd' \in [Processes -> Primaries \cup {None}] /\ fd'[s] = None
        /\ \A q \in Processes \ {s} : fd'[q] = fd[q]
    BY <2>1 DEF Close, TypeOK
  <2>3. \A r \in Secondaries \ {s} : fd'[r] = fd[r]
    BY <2>2
  <2>4. /\ holder' \in [Primaries -> Processes \cup {None}]
        /\ \A i, p \in Primaries : holder[i] = p => holder'[i] = p
    BY <2>1 DEF Unlock, TypeOK
  <2> QED
    BY <2>0, <2>1, <2>2, <2>3, <2>4, AnswerKeeps DEF TypeOK
<1>6. CASE Read(s)
  BY <1>6 DEF Read, Become, files, TypeOK, SecondaryShape, SecondaryStages
<1>7. CASE Map(s)
  BY <1>7 DEF Map, Become, files, TypeOK, SecondaryShape, SecondaryStages
<1>8. CASE Import(s)
  BY <1>8 DEF Import, Become, files, TypeOK, SecondaryShape, SecondaryStages
<1>9. CASE GiveUp(s)
  BY <1>9 DEF GiveUp, Become, Close, Unlock, TypeOK, SecondaryShape, SecondaryStages
<1> QED
  BY <1>1, <1>2, <1>3, <1>4, <1>5, <1>6, <1>7, <1>8, <1>9 DEF SecondaryNext, Asks

LEMMA ShapeInit == Init => Shape
<1> SUFFICES ASSUME Init PROVE Shape
  OBVIOUS
<1>1. /\ primary \in [Primaries -> PrimaryStages] /\ secondary \in [Secondaries -> SecondaryStages]
      /\ probe \in [Secondaries -> {"no", "early", "late", "watch"}]
      /\ holder \in [Primaries -> Processes \cup {None}] /\ fd \in [Processes -> Primaries \cup {None}]
      /\ source \in [Secondaries -> Primaries \cup {None}]
  BY DEF Init, PrimaryStages, SecondaryStages
<1>2. SecondaryShape
  BY Names DEF Init, SecondaryShape
<1> QED
  BY <1>1, <1>2 DEF Init, Shape, TypeOK

LEMMA ShapeStep == Shape /\ [Next]_vars => Shape'
<1>1. CASE UNCHANGED vars
  BY <1>1 DEF vars, files, Shape, TypeOK, SecondaryShape
<1> QED
  BY <1>1, PrimaryShape, SecondaryStepShape DEF Next

\* Type correctness for any processes, export services beside others included.
THEOREM TypeCorrect == Spec => []TypeOK
<1>1. Shape => TypeOK
  BY DEF Shape
<1> QED
  BY ShapeInit, ShapeStep, <1>1, PTL DEF Spec

-----------------------------------------------------------------------------
(* Export services that run alone *)

Safe == PrimariesAlone /\ LockInPlace /\ SourcesWrote /\ ProbesInPlace

\* Every step of a primary: stages only advance, into Holding only through Lock.
LEMMA StagesAdvance ==
    ASSUME Shape, NEW p \in Primaries, PrimaryNext(p)
    PROVE  /\ Wrote(p) => Wrote(p)'
           /\ Past(p) => Past(p)'
           /\ Holds(p)' => Holds(p) \/ Lock(p)
           /\ Alive(p)' => Alive(p) \/ Start(p)
           /\ primary'[p] \in Cleaning => primary[p] \in Cleaning \/ p \in Exporters
           /\ registry' \in {registry, None} \/ (registry' = p /\ Wrote(p)')
BY DEF PrimaryNext, PrimaryStep, Start, OpenLock, Lock, LockRefused, WriteRegistry, RemoveSignal, Signal,
       Shutdown, UnlinkReady, UnlinkRegistry, UnlinkLock, Exit, Shape, TypeOK, PrimaryStages,
       Holding, Cleaning, Wrote, Past, Holds, Alive, files

\* While another primary has the lock file open or locked, it keeps its name.
LEMMA LockFileKept ==
    ASSUME Shape, PrimariesAlone, LockInPlace, NEW p \in Primaries, PrimaryNext(p),
           NEW q \in Primaries, primary[q] \in Holding \cup {"opened"}
    PROVE  lockFile' = lockFile
<1>1. lockFile # None
  BY DEF LockInPlace
<1>2. ~UnlinkLock(p)
  <2> SUFFICES ASSUME UnlinkLock(p) PROVE FALSE
    OBVIOUS
  <2>1. primary[p] = "rmRegistry"
    BY DEF UnlinkLock, PrimaryStep
  <2>2. p \in Exporters /\ Alive(p) /\ Alive(q) /\ p # q
    BY <2>1 DEF PrimariesAlone, Cleaning, Alive, Holding
  <2> QED
    BY <2>2, Names DEF PrimariesAlone
<1> QED
  BY <1>1, <1>2 DEF PrimaryNext, Start, OpenLock, Lock, LockRefused, WriteRegistry, RemoveSignal, Signal,
         Shutdown, UnlinkReady, UnlinkRegistry, Exit, files

LEMMA PrimarySafe ==
    ASSUME Beside = FALSE, Shape, Safe, NEW p \in Primaries, PrimaryNext(p)
    PROVE  Safe'
<1> USE DEF Safe
<1>1. /\ UNCHANGED <<secondary, probe, source>>
      /\ \A s \in Secondaries : fd'[s] = fd[s]
      /\ \A q \in Primaries \ {p} : fd'[q] = fd[q] /\ primary'[q] = primary[q]
  BY PrimaryShape
<1>2. \A q \in Primaries : /\ Wrote(q) => Wrote(q)'
                           /\ Past(q) => Past(q)'
  BY <1>1, StagesAdvance DEF Wrote, Past
<1>3. PrimariesAlone'
  <2>1. \A q \in Primaries : Alive(q)' => Alive(q) \/ (q = p /\ Start(p))
    BY <1>1, StagesAdvance DEF Alive
  <2>2. Start(p) => \A q \in Primaries : Alive(q) => {p, q} \subseteq Servers
    BY DEF Start
  <2>3. \A q \in Primaries : primary'[q] \in Cleaning => q \in Exporters
    BY <1>1, StagesAdvance DEF PrimariesAlone
  <2> QED
    BY <2>1, <2>2, <2>3 DEF PrimariesAlone
<1>4. LockInPlace'
  <2>1. ASSUME NEW q \in Primaries, q # p, primary'[q] \in Holding \cup {"opened"}
        PROVE  /\ fd'[q] = lockFile' /\ lockFile' # None
               /\ Holds(q)' => holder'[lockFile'] = q
    <3>1. primary[q] \in Holding \cup {"opened"} /\ fd'[q] = fd[q]
      BY <1>1, <2>1
    <3>2. fd'[q] = lockFile' /\ lockFile' = lockFile /\ lockFile' # None
      BY <3>1, LockFileKept DEF LockInPlace
    <3>3. ASSUME Holds(q)' PROVE holder'[lockFile] = q
      <4>1. holder[lockFile] = q /\ lockFile \in Primaries
        BY <1>1, <2>1, <3>2, <3>3 DEF Holds, LockInPlace, Shape, TypeOK
      <4>2. ~Lock(p)
        <5>1. primary[p] = "opened" => fd[p] = lockFile
          BY DEF LockInPlace
        <5> QED
          BY <4>1, <5>1, Names DEF Lock, PrimaryStep
      <4> QED
        BY <2>1, <4>1, <4>2 DEF PrimaryNext, Start, OpenLock, LockRefused, WriteRegistry, RemoveSignal,
           Signal, Shutdown, UnlinkReady, UnlinkRegistry, UnlinkLock, Exit, Unlock, files
    <3> QED
      BY <3>2, <3>3
  <2>2. ASSUME primary'[p] \in Holding \cup {"opened"}
        PROVE  /\ fd'[p] = lockFile' /\ lockFile' # None
               /\ Holds(p)' => holder'[lockFile'] = p
    <3>1. \/ OpenLock(p) \/ Lock(p) \/ WriteRegistry(p) \/ RemoveSignal(p) \/ Signal(p)
      BY <2>2 DEF PrimaryNext, PrimaryStep, Start, LockRefused, Shutdown, UnlinkReady, UnlinkRegistry,
         UnlinkLock, Exit, Shape, TypeOK, Holding
    <3>2. CASE OpenLock(p)
      <4>1. primary'[p] = "opened" /\ lockFile' = (IF lockFile = None THEN p ELSE lockFile) /\ fd'[p] = lockFile'
        BY <3>2, Names DEF OpenLock, PrimaryStep, Shape, TypeOK
      <4> QED
        BY <4>1, Names DEF Holds, Holding
    <3>3. CASE Lock(p)
      <4>1. /\ primary[p] = "opened" /\ holder' = [holder EXCEPT ![fd[p]] = p]
            /\ UNCHANGED <<lockFile, fd>>
        BY <3>3 DEF Lock, PrimaryStep
      <4>2. fd[p] = lockFile /\ lockFile # None
        BY <4>1 DEF LockInPlace
      <4> QED
        BY <4>1, <4>2 DEF Shape, TypeOK
    <3>4. CASE WriteRegistry(p) \/ RemoveSignal(p) \/ Signal(p)
      <4>1. Holds(p) /\ UNCHANGED <<lockFile, holder, fd>>
        BY <3>4 DEF WriteRegistry, RemoveSignal, Signal, PrimaryStep, Holds, Holding
      <4> QED
        BY <4>1 DEF LockInPlace, Holds
    <3> QED
      BY <3>1, <3>2, <3>3, <3>4
  <2> QED
    BY <2>1, <2>2 DEF LockInPlace, Holds
<1>5. SourcesWrote'
  <2>1. (registry # None => Wrote(registry))'
    <3>1. \/ registry' = None
          \/ registry' = p /\ Wrote(p)'
          \/ registry' = registry /\ (registry # None => registry \in Primaries /\ Wrote(registry))
      BY StagesAdvance DEF SourcesWrote, Shape, TypeOK
    <3> QED
      BY <1>2, <3>1 DEF Wrote
  <2>2. \A s \in Secondaries :
          secondary[s] \in {"mapping", "importing", "checking", "running", "exited"} => source[s] \in Primaries
    BY DEF Shape, TypeOK, SecondaryShape
  <2>3. ASSUME NEW s \in Secondaries,
               secondary[s] \in {"mapping", "importing", "checking", "running", "exited"}
        PROVE  Wrote(source[s])' /\ (secondary[s] = "exited" => Past(source[s])')
    <3> DEFINE q == source[s]
    <3>1. q \in Primaries /\ Wrote(q) /\ (secondary[s] = "exited" => Past(q)) /\ source'[s] = q
      BY <1>1, <2>2, <2>3 DEF SourcesWrote
    <3> HIDE DEF q
    <3>2. primary'[source'[s]] = primary'[q]
      BY <3>1
    <3> QED
      BY <1>2, <3>1, <3>2 DEF Wrote, Past, q
  <2> QED
    BY <1>1, <2>1, <2>3 DEF SourcesWrote
<1>6. ProbesInPlace'
  <2> SUFFICES ASSUME NEW s \in Secondaries, secondary[s] \in {"importing", "running"}, fd[s] # None,
                      Holds(source[s])'
               PROVE  fd[s] = lockFile'
    BY <1>1 DEF ProbesInPlace
  <2>1. source[s] \in Primaries /\ Wrote(source[s]) /\ source' = source
    BY <1>1 DEF SourcesWrote, Shape, TypeOK, SecondaryShape
  <2>2. Holds(source[s])
    <3>1. CASE source[s] # p
      BY <1>1, <2>1, <3>1 DEF Holds
    <3>2. CASE source[s] = p
      <4>1. ~Lock(p)
        BY <2>1, <3>2 DEF Lock, PrimaryStep, Wrote, Cleaning
      <4> QED
        BY <2>1, <3>2, <4>1, StagesAdvance DEF Holds
    <3> QED
      BY <3>1, <3>2
  <2>3. lockFile' = lockFile
    BY <2>1, <2>2, LockFileKept DEF Holds
  <2> QED
    BY <2>2, <2>3 DEF ProbesInPlace
<1> QED
  BY <1>3, <1>4, <1>5, <1>6

LEMMA SecondarySafe ==
    ASSUME Shape, Safe, NEW s \in Secondaries, SecondaryNext(s)
    PROVE  Safe'
<1> USE DEF Safe
<1>1. /\ UNCHANGED <<lockFile, registry, ready, primary>>
      /\ \A q \in Processes \ {s} : fd'[q] = fd[q]
      /\ \A r \in Secondaries \ {s} : /\ secondary'[r] = secondary[r] /\ probe'[r] = probe[r]
                                      /\ source'[r] = source[r]
      /\ \A i, p \in Primaries : holder[i] = p => holder'[i] = p
  BY SecondaryStepShape
<1>2. PrimariesAlone'
  BY <1>1 DEF PrimariesAlone, Alive
<1>3. LockInPlace'
  <2>1. \A p \in Primaries : fd'[p] = fd[p]
    BY <1>1, Names
  <2>2. lockFile \in Primaries \cup {None}
    BY DEF Shape, TypeOK
  <2> QED
    BY <1>1, <2>1, <2>2 DEF LockInPlace, Holds
<1>4. ASSUME secondary[s] = "running", Answer(s, FALSE), probe[s] = "watch",
             lockFile = None \/ (fd[s] # None /\ holder[fd[s]] = s)
      PROVE  Past(source[s])
  <2>1. source[s] \in Primaries /\ Wrote(source[s])
    BY <1>4 DEF SourcesWrote, Shape, TypeOK, SecondaryShape
  <2>2. ~Holds(source[s])
    <3> SUFFICES ASSUME Holds(source[s]) PROVE FALSE
      OBVIOUS
    <3>1. lockFile # None /\ holder[lockFile] = source[s]
      BY <2>1 DEF LockInPlace, Holds
    <3>2. fd[s] = lockFile
      BY <1>4, <3>1 DEF ProbesInPlace
    <3> QED
      BY <1>4, <2>1, <3>1, <3>2, Names
  <2> QED
    BY <2>1, <2>2 DEF Wrote, Past, Holds, Holding
<1>5. /\ secondary'[s] \in {"mapping", "importing", "checking", "running", "exited"} => Wrote(source'[s])
      /\ secondary'[s] = "exited" => Past(source'[s])
      /\ secondary'[s] \in {"importing", "running"} /\ fd'[s] # None => fd'[s] = fd[s] \/ fd'[s] = lockFile
      /\ secondary'[s] \in {"importing", "running"} /\ fd'[s] = fd[s] /\ fd[s] # None =>
            secondary[s] = secondary'[s] /\ source'[s] = source[s]
  <2> USE Names DEF Shape
  <2>1. CASE Begin(s)
    BY <2>1 DEF Begin, Become, TypeOK
  <2>2. CASE Ask(s)
    BY <2>2 DEF Ask, SourcesWrote
  <2>3. CASE ProbeOpen(s)
    <3>1. CASE lockFile = None
      <4>1. Answer(s, FALSE) /\ fd' = fd /\ source' = source /\ fd[s] = None /\ probe[s] # "no"
        BY <2>3, <3>1 DEF ProbeOpen
      <4>2. /\ secondary'[s] \in {secondary[s], "reading", "checking", "exited", "failed"}
            /\ secondary'[s] = "checking" => secondary[s] \in {"importing", "running"}
            /\ secondary'[s] = "exited" => probe[s] = "watch" /\ secondary[s] = "running"
        BY <4>1, AnswerShape
      <4> QED
        BY <1>4, <3>1, <4>1, <4>2 DEF SourcesWrote, SecondaryShape
    <3>2. CASE lockFile # None
      BY <2>3, <3>2 DEF ProbeOpen, TypeOK, SourcesWrote
    <3> QED
      BY <3>1, <3>2
  <2>4. CASE Probe(s)
    <3>1. CASE holder[fd[s]] = None
      BY <2>4, <3>1 DEF Probe, SourcesWrote
    <3>2. CASE holder[fd[s]] # None
      <4>1. Answer(s, TRUE) /\ fd'[s] = None /\ source' = source /\ probe[s] # "no"
        BY <2>4, <3>2 DEF Probe, Close, TypeOK, SecondaryShape
      <4>2. /\ secondary'[s] \in {secondary[s], "reading", "checking", "failed"}
            /\ secondary'[s] = "checking" => secondary[s] \in {"importing", "running"}
        BY <4>1, AnswerShape
      <4> QED
        BY <4>1, <4>2 DEF SourcesWrote
    <3> QED
      BY <3>1, <3>2
  <2>5. CASE ProbeUnlock(s)
    <3>1. /\ Answer(s, FALSE) /\ fd'[s] = None /\ source' = source /\ probe[s] # "no"
          /\ fd[s] # None /\ holder[fd[s]] = s
      BY <2>5 DEF ProbeUnlock, Close, TypeOK, SecondaryShape
    <3>2. /\ secondary'[s] \in {secondary[s], "reading", "checking", "exited", "failed"}
          /\ secondary'[s] = "checking" => secondary[s] \in {"importing", "running"}
          /\ secondary'[s] = "exited" => probe[s] = "watch" /\ secondary[s] = "running"
      BY <3>1, AnswerShape
    <3> QED
      BY <1>4, <3>1, <3>2 DEF SourcesWrote, SecondaryShape
  <2>6. CASE Read(s)
    BY <2>6 DEF Read, Become, TypeOK, SourcesWrote
  <2>7. CASE Map(s)
    BY <2>7 DEF Map, Become, TypeOK, SourcesWrote, SecondaryShape
  <2>8. CASE Import(s)
    BY <2>8 DEF Import, Become, TypeOK, SourcesWrote, SecondaryShape
  <2>9. CASE GiveUp(s)
    BY <2>9 DEF GiveUp, Become, Close, TypeOK
  <2> QED
    BY <2>1, <2>2, <2>3, <2>4, <2>5, <2>6, <2>7, <2>8, <2>9 DEF SecondaryNext, Asks
<1>6. SourcesWrote'
  BY <1>1, <1>5 DEF SourcesWrote, Wrote, Past
<1>7. ProbesInPlace'
  <2>1. \A r \in Secondaries \ {s} : fd'[r] = fd[r]
    BY <1>1, Names
  <2> QED
    BY <1>1, <1>5, <2>1 DEF ProbesInPlace, Holds
<1> QED
  BY <1>2, <1>3, <1>6, <1>7

LEMMA RegistryInvariant ==
    ASSUME Beside = FALSE
    PROVE  Spec => [](Shape /\ Safe)
<1>1. Init => Safe
  BY DEF Init, Safe, PrimariesAlone, LockInPlace, SourcesWrote, ProbesInPlace, Alive, Holds, Holding, Cleaning
<1>2. Shape /\ Safe /\ [Next]_vars => Safe'
  <2>1. ASSUME Shape, Safe, UNCHANGED vars PROVE Safe'
    BY <2>1 DEF vars, files, Safe, PrimariesAlone, LockInPlace, SourcesWrote, ProbesInPlace, Alive, Holds,
       Wrote, Past
  <2> QED
    BY <2>1, PrimarySafe, SecondarySafe DEF Next
<1> QED
  BY <1>1, <1>2, ShapeInit, ShapeStep, PTL DEF Spec

\* At most one primary holds the lock, whatever crashes and whichever files are
\* left behind, as long as an export service runs alone.
THEOREM TheOnlyPrimary ==
    ASSUME Beside = FALSE
    PROVE  Spec => []OnePrimary
<1>1. Safe => OnePrimary
  BY DEF Safe, LockInPlace, OnePrimary
<1> QED
  BY RegistryInvariant, <1>1, PTL

\* ... and the watchdog of a secondary never ends it while its primary holds the
\* lock, although other secondaries' probes take that lock for a moment.
THEOREM WatchdogIsRight ==
    ASSUME Beside = FALSE
    PROVE  Spec => []ExitOnlyOnDeath
<1>1. Safe => ExitOnlyOnDeath
  BY DEF Safe, SourcesWrote, ExitOnlyOnDeath, Past, Holds, Holding, Cleaning
<1> QED
  BY RegistryInvariant, <1>1, PTL
==============================================================================
