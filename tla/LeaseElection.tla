------------------------------ MODULE LeaseElection ------------------------------
(***************************************************************************)
(* Leader election of Sardeenz pods on a Kubernetes Lease                  *)
(* (KubernetesLeaderElection of services/leader-election.ts): each pod     *)
(* reads the lease every Interval and renews it, or takes it over once it  *)
(* has not been renewed for Duration.                                      *)
(*                                                                         *)
(* A call is one tryAcquireOrRenew.  Its awaits are requests to the API    *)
(* server, which the server carries out at one moment and answers at a     *)
(* later one, or which fail; setInterval does not wait for a call to end,  *)
(* so that a pod may have several.  Time is discrete and the same for all: *)
(* variables hold how long ago something was.  A write succeeds on the     *)
(* resourceVersion that was read: a call is fresh while nobody has written *)
(* since.  The code judges the age of a renewTime without its milliseconds *)
(* (String of a Date): Duration is LEASE_DURATION_SECONDS less the second  *)
(* a lease may look too old by.                                            *)
(***************************************************************************)
EXTENDS Naturals, FiniteSets

CONSTANTS
    Pods, None,
    Interval, Duration,   \* RENEW_INTERVAL_MS, LEASE_DURATION_SECONDS less one second
    Latency,              \* how long a call takes while the API server is well
    MaxCalls,             \* bound: calls of one pod at a time
    MaxTransitions        \* bound: how often the lease changes hands

ASSUME LeaseAssumption ==
    /\ None \notin Pods
    /\ {Interval, Duration, MaxCalls} \subseteq Nat \ {0}
    /\ {Latency, MaxTransitions} \subseteq Nat
    /\ Interval + 2 * Latency <= Duration

Slots == Pods \X (1 .. MaxCalls)
Terms == 1 .. MaxTransitions + 1
Old   == Duration + 1     \* older than this makes no difference

VARIABLES
    holder, renewed, transitions,   \* the lease: holderIdentity (None: there is no lease),
                                    \* the age of its renewTime, leaseTransitions
    up, timer,                      \* per pod: its lifecycle, the time to its next call
    isLeader, term, leaderId,       \* per pod: _isLeader, term, leaderId
    call,                           \* per slot: a call of its pod
    late,                           \* (history) some call has taken longer than Latency
    led                             \* (history) per term: the pods that led in it

lease == <<holder, renewed, transitions>>
pods  == <<up, timer>>
role  == <<isLeader, term, leaderId>>
vars  == <<lease, pods, role, call, late, led>>

\* `at` is what the call waits for: a read, its answer, a write, its answer, or
\* the read of refreshLeaderInfo; `seen` the holder it read; `stamp` the age of
\* the renewTime it read or writes; `term` that of the lease it wrote.
CallType == [at : {"none", "read", "got", "create", "renew", "acquire", "refused", "written",
                   "refresh"},
             age : 0 .. Latency + 1, fresh : BOOLEAN, seen : Pods \cup {None},
             stamp : 0 .. Old, term : 0 .. MaxTransitions + 1]
NoCall  == [at |-> "none", age |-> 0, fresh |-> FALSE, seen |-> None, stamp |-> 0, term |-> 0]
NewCall == [NoCall EXCEPT !.at = "read"]

TypeOK ==
    /\ holder \in Pods \cup {None} /\ renewed \in 0 .. Old /\ transitions \in 0 .. MaxTransitions
    /\ up \in [Pods -> {"down", "starting", "up", "stopped"}]
    /\ timer \in [Pods -> 0 .. Interval]
    /\ isLeader \in [Pods -> BOOLEAN] /\ term \in [Pods -> 0 .. MaxTransitions + 1]
    /\ leaderId \in [Pods -> Pods \cup {None}]
    /\ call \in [Slots -> CallType]
    /\ late \in BOOLEAN /\ led \in [Terms -> SUBSET Pods]
    /\ \A p \in Pods : isLeader[p] => leaderId[p] = p /\ p \in led[term[p]]

Init ==
    /\ holder = None /\ renewed = 0 /\ transitions = 0
    /\ up = [p \in Pods |-> "down"] /\ timer = [p \in Pods |-> 0]
    /\ isLeader = [p \in Pods |-> FALSE] /\ term = [p \in Pods |-> 0]
    /\ leaderId = [p \in Pods |-> None]
    /\ call = [c \in Slots |-> NoCall]
    /\ late = FALSE /\ led = [t \in Terms |-> {}]

-----------------------------------------------------------------------------
(* Pods and their timers *)

\* start: the first call is awaited before the timer is set.
Start(p) ==
    /\ up[p] = "down" /\ up' = [up EXCEPT ![p] = "starting"]
    /\ call' = [call EXCEPT ![<<p, 1>>] = NewCall]
    /\ UNCHANGED <<lease, timer, role, late, led>>

\* setInterval; without a free slot the call is left out.
Fire(p) ==
    /\ up[p] = "up" /\ timer[p] = 0
    /\ timer' = [timer EXCEPT ![p] = Interval]
    /\ LET free == {i \in 1 .. MaxCalls : call[<<p, i>>].at = "none"}
       IN  IF free = {} THEN UNCHANGED call
           ELSE \E i \in free : call' = [call EXCEPT ![<<p, i>>] = NewCall]
    /\ UNCHANGED <<lease, up, role, late, led>>

\* stop: calls that are under way go on, and a start that still waits for its
\* first call sets the timer afterwards all the same.
Stop(p) ==
    /\ up[p] \in {"starting", "up"}
    /\ up' = [up EXCEPT ![p] = IF @ = "up" THEN "stopped" ELSE @]
    /\ timer' = [timer EXCEPT ![p] = 0]
    /\ isLeader' = [isLeader EXCEPT ![p] = FALSE]
    /\ UNCHANGED <<lease, term, leaderId, call, late, led>>

\* The process ends, after stop or by a crash.
Exit(p) ==
    /\ up[p] # "down" /\ up' = [up EXCEPT ![p] = "down"]
    /\ timer' = [timer EXCEPT ![p] = 0]
    /\ isLeader' = [isLeader EXCEPT ![p] = FALSE] /\ term' = [term EXCEPT ![p] = 0]
    /\ leaderId' = [leaderId EXCEPT ![p] = None]
    /\ call' = [c \in Slots |-> IF c[1] = p THEN NoCall ELSE call[c]]
    /\ UNCHANGED <<lease, late, led>>

Stamped == {"got", "create", "renew", "acquire"}
Older(n, max) == IF n < max THEN n + 1 ELSE n

Tick ==
    /\ \A p \in Pods : up[p] = "up" => timer[p] > 0
    /\ timer' = [p \in Pods |-> IF up[p] = "up" THEN timer[p] - 1 ELSE timer[p]]
    /\ renewed' = IF holder = None THEN renewed ELSE Older(renewed, Old)
    /\ call' = [c \in Slots |->
         IF call[c].at = "none" THEN call[c]
         ELSE [call[c] EXCEPT !.age = Older(@, Latency + 1),
                              !.stamp = IF call[c].at \in Stamped THEN Older(@, Old) ELSE @]]
    /\ late' = (late \/ \E c \in Slots : call[c].at # "none" /\ call[c].age >= Latency)
    /\ UNCHANGED <<holder, transitions, up, role, led>>

-----------------------------------------------------------------------------
(* The API server *)

\* readNamespacedLease
ServerRead(c) ==
    /\ call[c].at = "read"
    /\ call' = [call EXCEPT ![c] = [@ EXCEPT !.at = "got", !.fresh = TRUE, !.seen = holder,
                                             !.stamp = renewed]]
    /\ UNCHANGED <<lease, pods, role, late, led>>

\* A write of the lease, which makes every version read before it stale
Write(c, t) ==
    /\ holder' = c[1] /\ renewed' = call[c].stamp /\ transitions' = t
    /\ call' = [d \in Slots |-> IF d = c
                  THEN [NoCall EXCEPT !.at = "written", !.age = call[c].age, !.term = t + 1]
                  ELSE [call[d] EXCEPT !.fresh = FALSE]]
    /\ UNCHANGED <<pods, role, late, led>>

\* createNamespacedLease: only where there is none
ServerCreate(c) ==
    /\ call[c].at = "create" /\ holder = None /\ Write(c, 0)
\* replaceNamespacedLease by the holder, and by another pod
ServerRenew(c) ==
    /\ call[c].at = "renew" /\ call[c].fresh /\ Write(c, transitions)
ServerReplace_same(c) ==   \* (a mutant: leaseTransitions is not raised)
    /\ call[c].at = "acquire" /\ call[c].fresh /\ Write(c, transitions)
ServerReplace_blind(c) ==  \* (a mutant: the body has no resourceVersion)
    /\ call[c].at = "acquire" /\ transitions < MaxTransitions /\ Write(c, transitions + 1)
ServerReplace(c) ==
    /\ call[c].at = "acquire" /\ call[c].fresh /\ transitions < MaxTransitions
    /\ Write(c, transitions + 1)

\* A write that comes too late is refused; a pod that wanted to take the lease
\* over then asks who has it (refreshLeaderInfo).
ServerRefuse(c) ==
    /\ \/ call[c].at = "create" /\ holder # None
       \/ call[c].at \in {"renew", "acquire"} /\ ~call[c].fresh
    /\ call' = [call EXCEPT ![c] = [NoCall EXCEPT
         !.at = IF call[c].at = "acquire" THEN "refresh" ELSE "refused", !.age = call[c].age]]
    /\ UNCHANGED <<lease, pods, role, late, led>>

-----------------------------------------------------------------------------
(* tryAcquireOrRenew *)

\* The call ends; start then sets the timer.
End(c) ==
    /\ call' = [call EXCEPT ![c] = NoCall]
    /\ IF up[c[1]] = "starting"
       THEN up' = [up EXCEPT ![c[1]] = "up"] /\ timer' = [timer EXCEPT ![c[1]] = Interval]
       ELSE UNCHANGED pods
    /\ UNCHANGED <<lease, late>>

\* setFollower
SetFollower_stays(p, q) ==   \* (a mutant: _isLeader is not reset)
    /\ leaderId' = [leaderId EXCEPT ![p] = q] /\ UNCHANGED <<isLeader, term, led>>
SetFollower(p, q) ==
    /\ isLeader' = [isLeader EXCEPT ![p] = FALSE] /\ leaderId' = [leaderId EXCEPT ![p] = q]
    /\ UNCHANGED <<term, led>>

\* The lease has been read: what the pod writes, if anything.  isExpired goes by
\* the time of the answer; see Duration for the fraction of a second it drops.
Intent_eager(c) ==   \* (a mutant: a lease that is about to expire is taken over)
    CASE call[c].seen = None     -> "create"
      [] call[c].seen = c[1]     -> "renew"
      [] OTHER -> IF call[c].stamp >= Interval THEN "acquire" ELSE "none"
Intent(c) ==
    CASE call[c].seen = None     -> "create"
      [] call[c].seen = c[1]     -> "renew"
      [] OTHER -> IF call[c].stamp > Duration THEN "acquire" ELSE "none"

Decide(c) ==
    /\ call[c].at = "got" /\ Intent(c) # "none"
    /\ call' = [call EXCEPT ![c] = [@ EXCEPT !.at = Intent(c), !.seen = None, !.stamp = 0]]
    /\ UNCHANGED <<lease, pods, role, late, led>>
Follow(c) ==
    /\ call[c].at = "got" /\ Intent(c) = "none"
    /\ SetFollower(c[1], call[c].seen) /\ End(c)

\* becomeLeader, whatever became of the pod meanwhile.  (It writes nothing when the
\* pod leads in that term already, which makes no difference.)
BecomeLeader(c) ==
    /\ call[c].at = "written"
    /\ isLeader' = [isLeader EXCEPT ![c[1]] = TRUE]
    /\ term' = [term EXCEPT ![c[1]] = call[c].term]
    /\ leaderId' = [leaderId EXCEPT ![c[1]] = c[1]]
    /\ led' = [led EXCEPT ![call[c].term] = @ \cup {c[1]}]
    /\ End(c)

\* refreshLeaderInfo, its request and its answer in one step
Refresh(c) ==
    /\ call[c].at = "refresh"
    /\ IF holder \notin {None, c[1]} THEN SetFollower(c[1], holder) ELSE UNCHANGED <<role, led>>
    /\ End(c)

\* A request fails, or its answer is lost: the pod assumes that it does not lead.
Fail(c) ==
    /\ call[c].at # "none"
    /\ isLeader' = IF call[c].at = "refresh" THEN isLeader ELSE [isLeader EXCEPT ![c[1]] = FALSE]
    /\ UNCHANGED <<term, leaderId, led>> /\ End(c)

CallStep(c) ==
    \/ ServerRead(c) \/ ServerCreate(c) \/ ServerRenew(c) \/ ServerReplace(c) \/ ServerRefuse(c)
    \/ Decide(c) \/ Follow(c) \/ BecomeLeader(c) \/ Refresh(c) \/ Fail(c)

Next ==
    \/ \E p \in Pods : Start(p) \/ Fire(p) \/ Stop(p) \/ Exit(p)
    \/ \E c \in Slots : CallStep(c)
    \/ Tick

Spec == Init /\ [][Next]_vars

-----------------------------------------------------------------------------
(* Properties *)

\* Terms fence: no two pods ever lead in the same term, however late answers
\* arrive and whoever restarts (becomeLeader, leaseTransitions).
OneLeaderPerTerm == \A t \in Terms : \A p, q \in led[t] : p = q

\* As long as no call took longer than Latency, no two pods whose renewals have
\* not been stopped lead at the same time (tryAcquireOrRenew).
AtMostOneLeader ==
    ~late => \A p, q \in Pods :
        isLeader[p] /\ isLeader[q] /\ {up[p], up[q]} \subseteq {"starting", "up"} => p = q

\* The lease passes from one pod to another only when it has not been renewed
\* for longer than Duration, although the reader looks at an old copy.
LeaseHonoured ==
    [][holder' # holder /\ holder # None => renewed > Duration]_vars

===============================================================================
