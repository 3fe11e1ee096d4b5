------------------------------ MODULE ClusterPeers ------------------------------
(***************************************************************************)
(* A cluster of Sardeenz pods with a static peer list: discovery by        *)
(* polling (services/peer-discovery.ts), heartbeats and the reaper of      *)
(* silent peers (services/heartbeat.ts), the routing table derived from    *)
(* the peers' models (stores/cluster-routing-store.ts) and the election of *)
(* the lowest pod by a quorum (HeartbeatLeaderElection of                  *)
(* services/leader-election.ts).                                           *)
(*                                                                         *)
(* Each pod has its own view of the others; pods are cut off from the      *)
(* others and rejoin, pods restart, models come and go.  Ages of           *)
(* heartbeats are left out: the reaper may act on a peer at any time while *)
(* the peer cannot be reached.  All models have one name.  Terms, which    *)
(* are local counters that are only displayed, are left out.  A pod always *)
(* answers its own ping; when that ping fails, the code drops the pod from *)
(* its own peer store until the next poll.                                 *)
(***************************************************************************)
EXTENDS Naturals, FiniteSets

CONSTANTS
    Pods,          \* natural numbers, in the order of the pods' ids
    NoPod,
    ExpectedPods,  \* config.clusterExpectedPods, 0 if it is not set
    MaxEvents      \* bound: pods that are cut off or restart, models that come or go

ASSUME PodsAssumption == Pods \subseteq Nat /\ NoPod \notin Pods /\ {ExpectedPods, MaxEvents} \subseteq Nat

Pairs == {r \in Pods \X Pods : r[1] # r[2]}

VARIABLES
    cut,        \* pods that reach no other
    serving,    \* pods with a running model
    found,      \* per pod: StaticPeerDiscovery.knownPods
    peer,       \* per pod: the status of each pod in its peerStore, "unknown" if not there
    models,     \* per pod: the pods that have a running model, by its peerStore
    rebuilding, \* pods whose rebuildTimeout is set
    routes,     \* per pod: the other pods in its routing table
    leaderId, isLeader,
    delayed,    \* heartbeats sent before an event and still under way: <<from, to, running>>
    events

network  == <<cut, serving, delayed, events>>
view     == <<found, peer, models, rebuilding, routes>>
election == <<leaderId, isLeader>>
vars     == <<network, view, election>>

Linked(p, q) == {p, q} \cap cut = {}
Known(p)     == {q \in Pods : peer[p][q] # "unknown"}
Available(p) == {q \in Known(p) : peer[p][q] # "unavailable"}

TypeOK ==
    /\ cut \subseteq Pods /\ serving \subseteq Pods
    /\ found \in [Pods -> SUBSET Pods]
    /\ peer \in [Pods -> [Pods -> {"unknown", "healthy", "suspect", "unavailable"}]]
    /\ models \in [Pods -> SUBSET Pods]
    /\ rebuilding \subseteq Pods
    /\ routes \in [Pods -> SUBSET Pods]
    /\ leaderId \in [Pods -> Pods \cup {NoPod}] /\ isLeader \in [Pods -> BOOLEAN]
    /\ delayed \subseteq Pairs \X BOOLEAN /\ events \in 0 .. MaxEvents
    /\ \A p \in Pods : p \notin routes[p] /\ peer[p][p] = "healthy"
                       /\ (isLeader[p] => leaderId[p] = p)
                       /\ routes[p] \subseteq Available(p)

\* the table rebuildFromPeers makes of the peerStore of p
Table_all(p) == (Known(p) \cap models[p]) \ {p}   \* (a mutant: the status is not looked at)
Table(p)     == (Available(p) \cap models[p]) \ {p}

Alone(p) == [q \in Pods |-> IF q = p THEN "healthy" ELSE "unknown"]

Init ==
    /\ cut = {} /\ serving \in SUBSET Pods
    /\ found = [p \in Pods |-> {}] /\ peer = [p \in Pods |-> Alone(p)]
    /\ models = [p \in Pods |-> {}] /\ rebuilding = {}
    /\ routes = [p \in Pods |-> {}]
    /\ leaderId = [p \in Pods |-> NoPod] /\ isLeader = [p \in Pods |-> FALSE]
    /\ delayed = {} /\ events = 0

-----------------------------------------------------------------------------
(* What happens to the cluster *)

Event == events < MaxEvents /\ events' = events + 1

\* A heartbeat on its way during an event of p may arrive after it.
Delay(p) == \/ UNCHANGED delayed
            \/ \E q \in Pods \ {p} : delayed' = delayed \cup {<<<<p, q>>, p \in serving>>}

Cut(p) ==
    /\ Event /\ p \notin cut /\ cut' = cut \cup {p} /\ Delay(p)
    /\ UNCHANGED <<serving, view, election>>
Rejoin(p) ==
    /\ p \in cut /\ cut' = cut \ {p}
    /\ UNCHANGED <<serving, delayed, events, view, election>>

\* A model starts or ends on p; the peers that the event reaches rebuild their
\* tables from what they know.
Toggle(p) ==
    /\ Event /\ Delay(p)
    /\ serving' = IF p \in serving THEN serving \ {p} ELSE serving \cup {p}
    /\ \E told \in SUBSET {q \in Known(p) \ {p} : Linked(p, q)} :
         routes' = [q \in Pods |-> IF q \in told THEN Table(q) ELSE routes[q]]
    /\ UNCHANGED <<cut, found, peer, models, rebuilding, election>>

Restart(p) ==
    /\ Event /\ Delay(p)
    /\ serving' = serving \ {p}
    /\ found' = [found EXCEPT ![p] = {}] /\ peer' = [peer EXCEPT ![p] = Alone(p)]
    /\ models' = [models EXCEPT ![p] = {}] /\ routes' = [routes EXCEPT ![p] = {}]
    /\ rebuilding' = rebuilding \ {p}
    /\ leaderId' = [leaderId EXCEPT ![p] = NoPod] /\ isLeader' = [isLeader EXCEPT ![p] = FALSE]
    /\ UNCHANGED cut

-----------------------------------------------------------------------------
(* Discovery *)

\* pollPeers, with handlePeerAdded and handlePeerRemoved for what it finds: a
\* peer that answers for the first time is added unless it is known, one that
\* does not answer any more is removed.  (Assumed: the pod itself answers.)
Poll(p) ==
    LET answers == {q \in Pods : q = p \/ Linked(p, q)}
        added   == (answers \ found[p]) \ Known(p)
        removed == found[p] \ answers
    IN  /\ found' = [found EXCEPT ![p] = answers]
        /\ peer' = [peer EXCEPT ![p] = [q \in Pods |->
                      IF q \in added THEN "healthy" ELSE IF q \in removed THEN "unknown" ELSE @[q]]]
        /\ models' = [models EXCEPT ![p] = @ \ (added \cup removed)]
        /\ routes' = [routes EXCEPT ![p] = @ \ removed]
        /\ UNCHANGED <<rebuilding, network, election>>

-----------------------------------------------------------------------------
(* Heartbeats *)

\* processIncomingHeartbeat of q: whether it knew p or not, p is now healthy.
Heard(p, q, runs) ==
    /\ models' = [models EXCEPT ![q] = IF runs THEN @ \cup {p} ELSE @ \ {p}]
    /\ rebuilding' = rebuilding \cup {q}

\* sendHeartbeatToPeer(q) of p, which hears of q by the answer
Beat(p, q) ==
    /\ p # q /\ q \in Known(p) /\ Linked(p, q)
    /\ Heard(p, q, p \in serving)
    /\ peer' = [peer EXCEPT ![q][p] = "healthy", ![p][q] = "healthy"]
    /\ UNCHANGED <<found, routes, network, election>>

\* A delayed heartbeat arrives: heartbeats carry a timestamp that nobody reads.
LateBeat(d) ==
    LET p == d[1][1]  q == d[1][2] IN
    /\ delayed' = delayed \ {d}
    /\ Heard(p, q, d[2])
    /\ peer' = [peer EXCEPT ![q][p] = "healthy"]
    /\ UNCHANGED <<found, routes, cut, serving, events, election>>

\* reapPeers: a peer that cannot be reached has been silent for too long.
Reap_status(p, q) ==   \* (a mutant: the routing table is left as it is)
    /\ ~Linked(p, q) /\ p # q /\ peer[p][q] \in {"healthy", "suspect"}
    /\ peer' = [peer EXCEPT ![p][q] = IF @ = "healthy" THEN "suspect" ELSE "unavailable"]
    /\ UNCHANGED <<routes, found, models, rebuilding, network, election>>
Reap_once(p, q) ==     \* (a mutant: a suspect peer stays one)
    /\ ~Linked(p, q) /\ p # q /\ peer[p][q] = "healthy"
    /\ peer' = [peer EXCEPT ![p][q] = "suspect"]
    /\ UNCHANGED <<routes, found, models, rebuilding, network, election>>
Reap(p, q) ==
    /\ ~Linked(p, q) /\ p # q /\ peer[p][q] \in {"healthy", "suspect"}
    /\ peer' = [peer EXCEPT ![p][q] = IF @ = "healthy" THEN "suspect" ELSE "unavailable"]
    /\ routes' = IF peer[p][q] = "suspect" THEN [routes EXCEPT ![p] = @ \ {q}] ELSE routes
    /\ UNCHANGED <<found, models, rebuilding, network, election>>

-----------------------------------------------------------------------------
(* Routing *)

\* rebuildFromPeers, when the timeout of the first heartbeat since the last one
\* has passed
Rebuild(p) ==
    /\ p \in rebuilding /\ rebuilding' = rebuilding \ {p}
    /\ routes' = [routes EXCEPT ![p] = Table(p)]
    /\ UNCHANGED <<found, peer, models, network, election>>

\* forwardToRemotePod fails and removes the entry it used.
ForwardFails(p, q) ==
    /\ q \in routes[p] /\ (~Linked(p, q) \/ q \notin serving)
    /\ routes' = [routes EXCEPT ![p] = @ \ {q}]
    /\ UNCHANGED <<found, peer, models, rebuilding, network, election>>

-----------------------------------------------------------------------------
(* Election *)

Quorum(n) == n \div 2 + 1
Lowest(S) == CHOOSE p \in S : \A q \in S : p <= q

\* runElection
Elect(p) ==
    LET expected == IF ExpectedPods > 0 THEN ExpectedPods ELSE Cardinality(Known(p))
        elected  == Lowest(Available(p))
    IN  /\ IF Cardinality(Available(p)) < Quorum(expected)
           THEN isLeader' = [isLeader EXCEPT ![p] = FALSE] /\ UNCHANGED leaderId
           ELSE /\ leaderId' = [leaderId EXCEPT ![p] = elected]
                /\ isLeader' = [isLeader EXCEPT ![p] = (elected = p)]
        /\ UNCHANGED <<network, view>>

Next ==
    \/ \E p, q \in Pods : Beat(p, q) \/ Reap(p, q)
                          \/ ForwardFails(p, q)
    \/ \E p \in Pods : Cut(p) \/ Rejoin(p) \/ Toggle(p) \/ Restart(p) \/ Poll(p) \/ Rebuild(p) \/ Elect(p)
    \/ \E d \in delayed : LateBeat(d)

Spec == Init /\ [][Next]_vars

\* Every timer of every pod goes on; time passes and messages arrive.
Fairness ==
    /\ \A p, q \in Pods : WF_vars(Beat(p, q))
    /\ \A p \in Pods : WF_vars(Rebuild(p))
    /\ WF_vars(\E p \in Pods : Poll(p)) /\ WF_vars(\E p \in Pods : Elect(p))
    /\ WF_vars(\E p, q \in Pods : Reap(p, q))
    /\ WF_vars(\E d \in delayed : LateBeat(d))
FairSpec == Spec /\ Fairness

-----------------------------------------------------------------------------
(* Properties *)

Reach(p) == {q \in Pods : q = p \/ Linked(p, q)}

\* Once nothing happens any more, the pods that are not cut off agree on the
\* lowest of them if they are a quorum, and nobody else leads (runElection, over
\* pollPeers, heartbeats and reapPeers).
LeadersConverge ==
    <>[](\A p \in Pods :
           IF Cardinality(Reach(p)) >= Quorum(Cardinality(Pods))
           THEN leaderId[p] = Lowest(Reach(p)) /\ (isLeader[p] <=> p = Lowest(Reach(p)))
           ELSE ~isLeader[p])

\* ... and every pod routes exactly to the pods it can reach that have
\* a running model, although tables are changed by heartbeats that come late,
\* by the reaper, by polls, by the debounced rebuild and by failing requests.
RoutesConverge ==
    <>[](\A p \in Pods : routes[p] = {q \in Reach(p) \cap serving : q # p})

===============================================================================
