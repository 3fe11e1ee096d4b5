------------------------------ MODULE KvAdmission ------------------------------
(***************************************************************************)
(* Sardeenz's KV admission control (services/kv-admission.ts) as the two   *)
(* request paths use it (routeLocal of services/proxy-router.ts and        *)
(* routes/direct-proxy.ts).                                                *)
(*                                                                         *)
(* A request is given an instance, queues until tryAcquire lets it in or   *)
(* its deadline passes, is forwarded, and releases its reservation at the  *)
(* end.  JavaScript runs one handler at a time: a step is what runs        *)
(* between two awaits.  A request has at most one reservation, so          *)
(* reservations are the set of requests that hold one.  Estimates, limits  *)
(* and guarantees are in a common unit (GiB per GPU in the code).          *)
(***************************************************************************)
EXTENDS Integers, FiniteSetsExt

CONSTANTS
    Instances, Requests,
    Group,                  \* [Instances -> GPU groups]: gpuGroupKey
    MinGuarantee, SoftLimit, HardLimit,        \* [Instances -> Nat]: quotaFor
    PoolCapacity, SafeLimit, GlobalReserved,   \* KV_POOL_CAPACITY..., KV_GLOBAL_...
    MaxInstanceInflight, MaxGroupInflight,     \* 0: no limit
    Estimates,              \* the sizes requests are estimated at
    TtlEnabled              \* KV_ADMISSION_RESERVATION_TTL_MS > 0

ASSUME QuotasAssumption ==
    /\ {MinGuarantee, SoftLimit, HardLimit} \subseteq [Instances -> Nat]
    /\ Estimates \subseteq Nat \ {0}
    /\ {PoolCapacity, SafeLimit, GlobalReserved, MaxInstanceInflight, MaxGroupInflight} \subseteq Nat
    /\ TtlEnabled \in BOOLEAN
ASSUME FinitenessAssumption == IsFiniteSet(Requests) /\ IsFiniteSet(Instances)

VARIABLES
    status, routable,     \* of the instances in the model store
    phase, target, size,  \* per request: progress, its instance, its estimate
    late,                 \* requests whose queueing deadline has passed
    reserved,             \* requests that hold a reservation
    aged                  \* requests whose reservation has got older than the TTL

storeVars   == <<status, routable>>
requestVars == <<phase, target, size, late>>
vars == <<storeVars, requestVars, reserved, aged>>

\* The target of a request that is not there
AnyInstance == CHOOSE i \in Instances : TRUE

Init ==
    /\ status \in [Instances -> {"running", "sleeping"}]
    /\ routable = [i \in Instances |-> TRUE]
    /\ phase = [q \in Requests |-> "none"]
    /\ target = [q \in Requests |-> AnyInstance] /\ size = [q \in Requests |-> 0]
    /\ late = {} /\ reserved = {} /\ aged = {}

-----------------------------------------------------------------------------
(* What the reservations add up to *)

GlobalLimit == Min({SafeLimit, PoolCapacity - GlobalReserved})

\* The sum of f over a set: the number of units it stands for.  (No recursion,
\* which proofs could not unfold.)
Units(f, S)         == UNION {{x} \X (1 .. f[x]) : x \in S}
SumOf(f, S)         == Cardinality(Units(f, S))

Total(requests)     == SumOf(size, requests)
ofInstance(i)       == {q \in reserved : target[q] = i}
ofGroup(g)          == {q \in reserved : Group[target[q]] = g}
activeForInstance(i) == Total(ofInstance(i))
activeForGroup(g)    == Total(ofGroup(g))

\* What is missing to the minimum of instance i
Deficit(i) == Max({0, MinGuarantee[i] - activeForInstance(i)})
deficits   == [i \in Instances |-> Deficit(i)]
\* The instances whose minimum is protected
guaranteed(g) == {i \in Instances : status[i] = "running" /\ routable[i] /\ Group[i] = g}
\* protectedMinimumForOtherInstances
ProtectedMinimum(i) == SumOf(deficits, guaranteed(Group[i]) \ {i})

\* The first checks of tryAcquire, on the requests in flight
InflightOk(i) ==
    /\ MaxInstanceInflight > 0 => Cardinality(ofInstance(i)) < MaxInstanceInflight
    /\ MaxGroupInflight > 0 => Cardinality(ofGroup(Group[i])) < MaxGroupInflight

\* ... and those on memory (a mutant first: the soft limit protects nobody)
MemoryOk_no_soft(i, estimate) ==
    LET next      == activeForInstance(i) + estimate
        nextGroup == activeForGroup(Group[i]) + estimate
        ownDraw   == Min({estimate, Deficit(i)})
    IN  /\ estimate <= HardLimit[i] /\ next <= HardLimit[i]
        /\ nextGroup + ProtectedMinimum(i) - ownDraw <= GlobalLimit
        /\ nextGroup <= GlobalLimit
\* a mutant: the group is not checked for itself
MemoryOk_no_group(i, estimate) ==
    LET next      == activeForInstance(i) + estimate
        nextGroup == activeForGroup(Group[i]) + estimate
        ownDraw   == Min({estimate, Deficit(i)})
    IN  /\ estimate <= HardLimit[i] /\ next <= HardLimit[i]
        /\ nextGroup + ProtectedMinimum(i) - ownDraw <= GlobalLimit
        /\ ~(next > SoftLimit[i] /\ nextGroup + ProtectedMinimum(i) > GlobalLimit)
MemoryOk(i, estimate) ==
    LET next      == activeForInstance(i) + estimate
        nextGroup == activeForGroup(Group[i]) + estimate
        ownDraw   == Min({estimate, Deficit(i)})
    IN  /\ estimate <= HardLimit[i] /\ next <= HardLimit[i]
        /\ nextGroup + ProtectedMinimum(i) - ownDraw <= GlobalLimit
        /\ nextGroup <= GlobalLimit
        /\ ~(next > SoftLimit[i] /\ nextGroup + ProtectedMinimum(i) > GlobalLimit)

\* The one refusal that is not retried (413)
TooLarge(q) == InflightOk(target[q]) /\ size[q] > HardLimit[target[q]]

-----------------------------------------------------------------------------
(* Requests *)

Enter(q, name) == phase' = [phase EXCEPT ![q] = name]

\* The request is answered
Leave(q) ==
    /\ Enter(q, "none")
    /\ target' = [target EXCEPT ![q] = AnyInstance] /\ size' = [size EXCEPT ![q] = 0]
    /\ aged' = aged \ {q}

\* acquire begins: cleanupExpiredReservations.  The load balancer picks among
\* the running routable instances, the direct proxy any running one.
Arrive_empty(q) ==   \* (a mutant: an empty request is estimated at nothing)
    /\ phase[q] = "none" /\ Enter(q, "queued")
    /\ \E i \in Instances : status[i] = "running" /\ target' = [target EXCEPT ![q] = i]
    /\ \E estimate \in Estimates \cup {0} : size' = [size EXCEPT ![q] = estimate]
    /\ reserved' = reserved \ aged
    /\ UNCHANGED <<storeVars, late, aged>>
Arrive(q) ==
    /\ phase[q] = "none" /\ Enter(q, "queued")
    /\ \E i \in Instances : status[i] = "running" /\ target' = [target EXCEPT ![q] = i]
    /\ \E estimate \in Estimates : size' = [size EXCEPT ![q] = estimate]
    /\ reserved' = reserved \ aged
    /\ UNCHANGED <<storeVars, late, aged>>

\* An attempt that succeeds; the caller resumes after a last await (a trim when
\* the instance is over its soft limit).  An attempt that fails changes nothing.
Admit(q) ==
    /\ phase[q] = "queued" /\ Enter(q, "admitted")
    /\ InflightOk(target[q]) /\ MemoryOk(target[q], size[q])
    /\ reserved' = reserved \cup {q} /\ late' = late \ {q}
    /\ UNCHANGED <<storeVars, target, size, aged>>

Deadline(q) ==
    /\ phase[q] = "queued" /\ q \notin late
    /\ late' = late \cup {q}
    /\ UNCHANGED <<storeVars, phase, target, size, reserved, aged>>

Refuse(q) ==
    /\ phase[q] = "queued" /\ ~(InflightOk(target[q]) /\ MemoryOk(target[q], size[q]))
    /\ q \in late \/ TooLarge(q)
    /\ Leave(q) /\ late' = late \ {q}
    /\ UNCHANGED <<storeVars, reserved>>

\* The instance is not looked at again before the request is forwarded
Forward(q) ==
    /\ phase[q] = "admitted" /\ Enter(q, "served")
    /\ UNCHANGED <<storeVars, target, size, late, reserved, aged>>

\* The answer, the end of the stream or an exception: release
End_keeps(q) ==   \* a mutant: an exception keeps the reservation
    /\ phase[q] = "served" /\ Leave(q)
    /\ reserved' = IF status[target[q]] = "running" THEN reserved \ {q} ELSE reserved
    /\ UNCHANGED <<storeVars, late>>
End(q) ==
    /\ phase[q] = "served" /\ Leave(q)
    /\ reserved' = reserved \ {q}
    /\ UNCHANGED <<storeVars, late>>

\* A reservation gets too old; it goes with the next acquire or snapshot
Age(q) ==
    /\ TtlEnabled /\ q \in reserved \ aged
    /\ aged' = aged \cup {q}
    /\ UNCHANGED <<storeVars, requestVars, reserved>>

Snapshot ==
    /\ reserved \cap aged # {}
    /\ reserved' = reserved \ aged
    /\ UNCHANGED <<storeVars, requestVars, aged>>

-----------------------------------------------------------------------------
(* The model manager *)

\* The process exits, fails or is unloaded: releaseForInstance.  Requests
\* still queued for the instance stay queued.
Sleep_drops(i) ==   \* a mutant: an instance put to sleep loses its reservations
    /\ status[i] = "running" /\ status' = [status EXCEPT ![i] = "sleeping"]
    /\ reserved' = reserved \ ofInstance(i)
    /\ UNCHANGED <<routable, requestVars, aged>>
Fail(i) ==
    /\ status[i] # "failed"
    /\ status' = [status EXCEPT ![i] = "failed"]
    /\ reserved' = reserved \ ofInstance(i)
    /\ UNCHANGED <<routable, requestVars, aged>>

Sleep(i) ==
    /\ status[i] = "running" /\ status' = [status EXCEPT ![i] = "sleeping"]
    /\ UNCHANGED <<routable, requestVars, reserved, aged>>

Wake(i) ==
    /\ status[i] = "sleeping" /\ status' = [status EXCEPT ![i] = "running"]
    /\ UNCHANGED <<routable, requestVars, reserved, aged>>

SetRoutable(i) ==
    /\ routable' = [routable EXCEPT ![i] = ~@]
    /\ UNCHANGED <<status, requestVars, reserved, aged>>

-----------------------------------------------------------------------------
Progress(q) == Admit(q) \/ Deadline(q) \/ Refuse(q) \/ Forward(q) \/ End(q)

Next ==
    \/ \E q \in Requests : Arrive(q) \/ Progress(q) \/ Age(q)
    \/ Snapshot
    \/ \E i \in Instances : Fail(i) \/ Sleep(i) \/ Wake(i) \/ SetRoutable(i)

Spec == Init /\ [][Next]_vars

-----------------------------------------------------------------------------
(* Properties *)

TypeOK ==
    /\ status \in [Instances -> {"running", "sleeping", "failed"}]
    /\ routable \in [Instances -> BOOLEAN]
    /\ phase \in [Requests -> {"none", "queued", "admitted", "served"}]
    /\ target \in [Requests -> Instances] /\ size \in [Requests -> Estimates \cup {0}]
    /\ \A q \in Requests : phase[q] # "none" => size[q] \in Estimates
    /\ late \subseteq Requests /\ reserved \subseteq Requests /\ aged \subseteq Requests

Groups == {Group[i] : i \in Instances}

\* Requests that may hold KV memory: let in, on an instance that is alive.
Occupying == {q \in Requests : phase[q] \in {"admitted", "served"} /\ status[target[q]] # "failed"}

\* No overcommit ("safe_no_overcommit"): what live requests may use stays within
\* the safe limit of their group and the hard limit of their instance, although
\* queued requests acquire after their instance was drained, slept or replaced
\* and reservations are dropped in bulk.  An expired reservation is given up.
NoOvercommit ==
    /\ \A g \in Groups : Total({q \in Occupying \ aged : Group[target[q]] = g}) <= GlobalLimit
    /\ \A i \in Instances : Total({q \in Occupying \ aged : target[q] = i}) <= HardLimit[i]

\* The limits on requests in flight hold for the requests that are really being
\* served, of which the controller only sees those that still have a reservation.
InflightBounded ==
    \A i \in Instances :
        /\ MaxInstanceInflight > 0 =>
               Cardinality({q \in Occupying \ aged : target[q] = i}) <= MaxInstanceInflight
        /\ MaxGroupInflight > 0 =>
               Cardinality({q \in Occupying \ aged : Group[target[q]] = Group[i]}) <= MaxGroupInflight

\* No reservation outlives its request.
NoLeak == \A q \in reserved : phase[q] \in {"admitted", "served"}

\* Sibling guarantees can be met: what group g uses and what its guaranteed
\* instances lack to their minimum fit together.
Coverable(g) == activeForGroup(g) + SumOf(deficits, guaranteed(g)) <= GlobalLimit

\* An admission never makes the guarantees of its group impossible to meet, when
\* the request's own instance is guaranteed and its soft limit is no more than
\* its minimum.  (Otherwise the check credits a deficit that was not charged.)
GuaranteeKept ==
    [][\A q \in Requests, i \in Instances :
         phase[q] = "queued" /\ phase'[q] = "admitted" /\ target[q] = i
           /\ i \in guaranteed(Group[i]) /\ SoftLimit[i] <= MinGuarantee[i]
         => (Coverable(Group[i]) => Coverable(Group[i])')]_vars
===============================================================================
