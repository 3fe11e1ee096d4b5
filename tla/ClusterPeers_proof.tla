-------------------------- MODULE ClusterPeers_proof --------------------------
(* Proofs about the views that pods have of their cluster, for every set of
   pods, every size that is expected and any number of events. *)
EXTENDS ClusterPeers, WellFoundedInduction, TLAPS

LEMMA Numbers == Pods \subseteq Nat /\ NoPod \notin Pods /\ ExpectedPods \in Nat /\ MaxEvents \in Nat
BY PodsAssumption

\* runElection elects a pod: there is a lowest one in every set of pods.
LEMMA LowestIsPod ==
    ASSUME NEW S \in SUBSET Pods, S # {}
    PROVE  Lowest(S) \in S
<1>1. S \subseteq Nat
  BY Numbers
<1>2. PICK p \in S : \A q \in S : ~(<<q, p>> \in OpToRel(<, Nat))
  BY <1>1, NatLessThanWellFounded, WFMin
<1>3. \A q \in S : ~(q < p)
  BY <1>1, <1>2 DEF OpToRel
<1>4. \A q \in S : p <= q
  BY <1>1, <1>3
<1> QED
  BY <1>4 DEF Lowest

-----------------------------------------------------------------------------
(* The parts of the type invariant *)

Statuses == {"unknown", "healthy", "suspect", "unavailable"}

NetworkOK ==
    /\ cut \subseteq Pods /\ serving \subseteq Pods
    /\ delayed \subseteq Pairs \X BOOLEAN /\ events \in 0 .. MaxEvents

ViewOK ==
    /\ found \in [Pods -> SUBSET Pods]
    /\ peer \in [Pods -> [Pods -> Statuses]]
    /\ models \in [Pods -> SUBSET Pods]
    /\ rebuilding \subseteq Pods
    /\ routes \in [Pods -> SUBSET Pods]

\* A pod knows itself, and its routing table has only others that are available.
RoutesOK ==
    \A p \in Pods : /\ peer[p][p] = "healthy" /\ p \notin routes[p]
                    /\ \A q \in routes[p] : peer[p][q] \in {"healthy", "suspect"}

ElectionOK ==
    /\ leaderId \in [Pods -> Pods \cup {NoPod}] /\ isLeader \in [Pods -> BOOLEAN]
    /\ \A p \in Pods : isLeader[p] => leaderId[p] = p

LEMMA Parts == TypeOK <=> NetworkOK /\ ViewOK /\ RoutesOK /\ ElectionOK
<1>1. ASSUME peer \in [Pods -> [Pods -> Statuses]], routes \in [Pods -> SUBSET Pods], NEW p \in Pods
      PROVE  routes[p] \subseteq Available(p) <=> \A q \in routes[p] : peer[p][q] \in {"healthy", "suspect"}
  BY <1>1 DEF Available, Known, Statuses
<1> QED
  BY <1>1 DEF TypeOK, NetworkOK, ViewOK, RoutesOK, ElectionOK, Statuses

LEMMA TableFits ==
    ASSUME ViewOK, NEW p \in Pods
    PROVE  /\ Table(p) \in SUBSET Pods /\ p \notin Table(p)
           /\ \A q \in Table(p) : peer[p][q] \in {"healthy", "suspect"}
BY DEF ViewOK, Table, Available, Known, Statuses

LEMMA DelayKeeps ==
    ASSUME delayed \subseteq Pairs \X BOOLEAN, NEW p \in Pods, Delay(p)
    PROVE  delayed' \subseteq Pairs \X BOOLEAN
<1>1. CASE UNCHANGED delayed
  BY <1>1
<1>2. ASSUME NEW q \in Pods \ {p}, delayed' = delayed \cup {<<<<p, q>>, p \in serving>>}
      PROVE  delayed' \subseteq Pairs \X BOOLEAN
  <2> DEFINE runs == p \in serving
  <2>1. <<p, q>> \in Pairs /\ runs \in BOOLEAN
    BY DEF Pairs
  <2>2. delayed' = delayed \cup {<<<<p, q>>, runs>>}
    BY <1>2
  <2> HIDE DEF runs
  <2> QED
    BY <2>1, <2>2
<1> QED
  BY <1>1, <1>2 DEF Delay

LEMMA EventCounts ==
    ASSUME events \in 0 .. MaxEvents, Event
    PROVE  events' \in 0 .. MaxEvents
BY Numbers DEF Event

-----------------------------------------------------------------------------
(* Every step keeps them *)

LEMMA NetworkStep ==
    ASSUME NetworkOK, [Next]_vars
    PROVE  NetworkOK'
<1> USE DEF NetworkOK
<1>1. ASSUME NEW p \in Pods, Cut(p) \/ Toggle(p) \/ Restart(p) PROVE NetworkOK'
  <2>1. cut' \subseteq Pods /\ serving' \subseteq Pods
    BY <1>1 DEF Cut, Toggle, Restart
  <2>2. Delay(p) /\ Event
    BY <1>1 DEF Cut, Toggle, Restart
  <2> QED
    BY <2>1, <2>2, DelayKeeps, EventCounts
<1>2. ASSUME NEW p \in Pods, Rejoin(p) \/ Poll(p) \/ Rebuild(p) \/ Elect(p) PROVE NetworkOK'
  BY <1>2 DEF Rejoin, Poll, Rebuild, Elect, network
<1>3. ASSUME NEW p \in Pods, NEW q \in Pods, Beat(p, q) \/ Reap(p, q) \/ ForwardFails(p, q) PROVE NetworkOK'
  BY <1>3 DEF Beat, Reap, ForwardFails, network
<1>4. ASSUME NEW d \in delayed, LateBeat(d) PROVE NetworkOK'
  BY <1>4 DEF LateBeat
<1>5. CASE UNCHANGED vars
  BY <1>5 DEF vars, network
<1> QED
  BY <1>1, <1>2, <1>3, <1>4, <1>5 DEF Next

LEMMA ElectionStep ==
    ASSUME RoutesOK, ViewOK, ElectionOK, [Next]_vars
    PROVE  ElectionOK'
<1> USE DEF ElectionOK
<1>1. ASSUME NEW p \in Pods, Elect(p) PROVE ElectionOK'
  <2>1. Available(p) \in SUBSET Pods /\ p \in Available(p)
    BY DEF Available, Known, RoutesOK
  <2>2. Lowest(Available(p)) \in Pods
    BY <2>1, LowestIsPod
  <2>3. CASE isLeader' = [isLeader EXCEPT ![p] = FALSE] /\ UNCHANGED leaderId
    BY <2>3
  <2>4. CASE /\ leaderId' = [leaderId EXCEPT ![p] = Lowest(Available(p))]
             /\ isLeader' = [isLeader EXCEPT ![p] = (Lowest(Available(p)) = p)]
    BY <2>2, <2>4
  <2> QED
    BY <1>1, <2>3, <2>4 DEF Elect
<1>2. ASSUME NEW p \in Pods, Restart(p) PROVE ElectionOK'
  BY <1>2 DEF Restart
<1>3. ASSUME NEW p \in Pods, Cut(p) \/ Rejoin(p) \/ Toggle(p) \/ Poll(p) \/ Rebuild(p) PROVE ElectionOK'
  BY <1>3 DEF Cut, Rejoin, Toggle, Poll, Rebuild, election
<1>4. ASSUME NEW p \in Pods, NEW q \in Pods, Beat(p, q) \/ Reap(p, q) \/ ForwardFails(p, q) PROVE ElectionOK'
  BY <1>4 DEF Beat, Reap, ForwardFails, election
<1>5. ASSUME NEW d \in delayed, LateBeat(d) PROVE ElectionOK'
  BY <1>5 DEF LateBeat, election
<1>6. CASE UNCHANGED vars
  BY <1>6 DEF vars, election
<1> QED
  BY <1>1, <1>2, <1>3, <1>4, <1>5, <1>6 DEF Next

LEMMA RoutesStep ==
    ASSUME NetworkOK, ViewOK, RoutesOK, [Next]_vars
    PROVE  ViewOK' /\ RoutesOK'
<1> DEFINE Goal == ViewOK' /\ RoutesOK'
<1> USE DEF ViewOK, RoutesOK, Statuses
<1>1. ASSUME NEW p \in Pods, Cut(p) \/ Rejoin(p) \/ Elect(p) PROVE Goal
  BY <1>1 DEF Cut, Rejoin, Elect, view
<1>2. ASSUME NEW p \in Pods, Toggle(p) PROVE Goal
  <2>0. PICK told \in SUBSET {q \in Known(p) \ {p} : Linked(p, q)} :
          routes' = [q \in Pods |-> IF q \in told THEN Table(q) ELSE routes[q]]
    BY <1>2 DEF Toggle
  <2>1. routes' = [q \in Pods |-> IF q \in told THEN Table(q) ELSE routes[q]]
    BY <2>0
  <2>2. UNCHANGED <<found, peer, models, rebuilding>>
    BY <1>2 DEF Toggle
  <2> QED
    BY <2>1, <2>2, TableFits
<1>3. ASSUME NEW p \in Pods, Restart(p) PROVE Goal
  <2>1. Alone(p) \in [Pods -> Statuses] /\ Alone(p)[p] = "healthy"
    BY DEF Alone
  <2>2. /\ found' = [found EXCEPT ![p] = {}] /\ peer' = [peer EXCEPT ![p] = Alone(p)]
        /\ models' = [models EXCEPT ![p] = {}] /\ routes' = [routes EXCEPT ![p] = {}]
        /\ rebuilding' = rebuilding \ {p}
    BY <1>3 DEF Restart
  <2>3. ViewOK'
    BY <2>1, <2>2
  <2>4. \A q \in Pods : IF q = p THEN peer'[q] = Alone(p) /\ routes'[q] = {}
                                 ELSE peer'[q] = peer[q] /\ routes'[q] = routes[q]
    BY <2>2
  <2> QED
    BY <2>1, <2>3, <2>4
<1>4. ASSUME NEW p \in Pods, Poll(p) PROVE Goal
  <2> DEFINE answers == {q \in Pods : q = p \/ Linked(p, q)}
             added   == (answers \ found[p]) \ Known(p)
             removed == found[p] \ answers
             row     == [q \in Pods |-> IF q \in added THEN "healthy"
                                        ELSE IF q \in removed THEN "unknown" ELSE peer[p][q]]
  <2>1. /\ found' = [found EXCEPT ![p] = answers]
        /\ peer' = [peer EXCEPT ![p] = row]
        /\ models' = [models EXCEPT ![p] = @ \ (added \cup removed)]
        /\ routes' = [routes EXCEPT ![p] = @ \ removed]
        /\ rebuilding' = rebuilding
    BY <1>4 DEF Poll
  <2>2. answers \in SUBSET Pods /\ row \in [Pods -> Statuses]
    OBVIOUS
  <2>3. p \notin removed
    OBVIOUS
  <2>4. row[p] = "healthy"
    BY <2>3
  <2>5. \A q \in routes[p] \ removed : row[q] \in {"healthy", "suspect"}
    OBVIOUS
  <2> HIDE DEF answers, added, removed, row
  <2>6. ViewOK'
    BY <2>1, <2>2
  <2>7. \A q \in Pods : IF q = p THEN peer'[q] = row /\ routes'[q] = routes[p] \ removed
                                 ELSE peer'[q] = peer[q] /\ routes'[q] = routes[q]
    BY <2>1
  <2> QED
    BY <2>4, <2>5, <2>6, <2>7
<1>5. ASSUME NEW p \in Pods, Rebuild(p) PROVE Goal
  BY <1>5, TableFits DEF Rebuild
<1>6. ASSUME NEW p \in Pods, NEW q \in Pods, Beat(p, q) PROVE Goal
  <2>1. p # q /\ UNCHANGED <<found, routes>>
    BY <1>6 DEF Beat
  <2>2. models' \in [Pods -> SUBSET Pods] /\ rebuilding' \subseteq Pods
    BY <1>6 DEF Beat, Heard
  <2>3. peer' = [peer EXCEPT ![q][p] = "healthy", ![p][q] = "healthy"]
    BY <1>6 DEF Beat
  <2>4. peer' \in [Pods -> [Pods -> Statuses]]
    BY <2>3
  <2>5. \A r, u \in Pods : peer'[r][u] = peer[r][u] \/ peer'[r][u] = "healthy"
    BY <2>3
  <2> QED
    BY <2>1, <2>2, <2>4, <2>5
<1>7. ASSUME NEW d \in delayed, LateBeat(d) PROVE Goal
  <2>1. d \in Pairs \X BOOLEAN
    BY DEF NetworkOK
  <2>2. PICK p \in Pods, q \in Pods, runs \in BOOLEAN : d[1][1] = p /\ d[1][2] = q /\ d[2] = runs
    BY <2>1 DEF Pairs
  <2>3. /\ UNCHANGED <<found, routes>> /\ Heard(p, q, runs)
        /\ peer' = [peer EXCEPT ![q][p] = "healthy"]
    BY <1>7, <2>2 DEF LateBeat
  <2>4. models' \in [Pods -> SUBSET Pods] /\ rebuilding' \subseteq Pods
    BY <2>3 DEF Heard
  <2>5. peer' \in [Pods -> [Pods -> Statuses]]
    BY <2>3
  <2>6. \A r, u \in Pods : peer'[r][u] = peer[r][u] \/ peer'[r][u] = "healthy"
    BY <2>3
  <2> QED
    BY <2>3, <2>4, <2>5, <2>6
<1>8. ASSUME NEW p \in Pods, NEW q \in Pods, Reap(p, q) PROVE Goal
  <2>1. p # q /\ UNCHANGED <<found, models, rebuilding>>
    BY <1>8 DEF Reap
  <2>2. CASE peer[p][q] = "suspect"
    <3>1. /\ peer' = [peer EXCEPT ![p][q] = "unavailable"]
          /\ routes' = [routes EXCEPT ![p] = @ \ {q}]
      BY <1>8, <2>2 DEF Reap
    <3> QED
      BY <2>1, <3>1
  <2>3. CASE peer[p][q] = "healthy"
    <3>1. peer' = [peer EXCEPT ![p][q] = "suspect"] /\ routes' = routes
      BY <1>8, <2>3 DEF Reap
    <3> QED
      BY <2>1, <3>1
  <2> QED
    BY <1>8, <2>2, <2>3 DEF Reap
<1>9. ASSUME NEW p \in Pods, NEW q \in Pods, ForwardFails(p, q) PROVE Goal
  BY <1>9 DEF ForwardFails
<1>10. CASE UNCHANGED vars
  BY <1>10 DEF vars, view
<1> QED
  BY <1>1, <1>2, <1>3, <1>4, <1>5, <1>6, <1>7, <1>8, <1>9, <1>10 DEF Next

(* However polls, heartbeats that may be late, the reaper, failing requests and
   rebuilds interleave, a routing table names only other pods that its pod holds
   for available, and a pod that takes itself for the leader has elected itself. *)
THEOREM TypeCorrect == Spec => []TypeOK
<1>1. Init => NetworkOK /\ ViewOK /\ RoutesOK /\ ElectionOK
  <2> SUFFICES ASSUME Init PROVE NetworkOK /\ ViewOK /\ RoutesOK /\ ElectionOK
    OBVIOUS
  <2>1. \A p \in Pods : Alone(p) \in [Pods -> Statuses] /\ Alone(p)[p] = "healthy"
    BY DEF Alone, Statuses
  <2> QED
    BY <2>1, Numbers DEF Init, NetworkOK, ViewOK, RoutesOK, ElectionOK
<1>2. NetworkOK /\ ViewOK /\ RoutesOK /\ ElectionOK /\ [Next]_vars
        => NetworkOK' /\ ViewOK' /\ RoutesOK' /\ ElectionOK'
  BY NetworkStep, RoutesStep, ElectionStep
<1>3. NetworkOK /\ ViewOK /\ RoutesOK /\ ElectionOK => TypeOK
  BY Parts
<1> QED
  BY <1>1, <1>2, <1>3, PTL DEF Spec

=============================================================================
