----------------------------- MODULE MCClusterPeers -----------------------------
(* ClusterPeers with three pods, started from the state in which they have all *)
(* found each other and elected the lowest, which serves the model; Restart     *)
(* brings cold starts.                                                         *)
EXTENDS ClusterPeers

First == Lowest(Pods)

Settled ==
    /\ cut = {} /\ serving = {First}
    /\ found = [p \in Pods |-> Pods] /\ peer = [p \in Pods |-> [q \in Pods |-> "healthy"]]
    /\ models = [p \in Pods |-> serving \ {p}] /\ routes = models
    /\ leaderId = [p \in Pods |-> First] /\ isLeader = [p \in Pods |-> p = First]
    /\ rebuilding = {} /\ delayed = {} /\ events = 0

MCSpec == Settled /\ [][Next]_vars /\ Fairness
===============================================================================
