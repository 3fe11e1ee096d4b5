--------------------------- MODULE LeaseElection_proof ---------------------------
(***************************************************************************)
(* Proofs about LeaseElection: type correctness, that terms fence leaders, *)
(* that the lease is taken over only when it has run out, and that         *)
(* there is one leader as long as requests are fast.                       *)
(***************************************************************************)
EXTENDS LeaseElection, TLAPS

-----------------------------------------------------------------------------
(* The inductive invariant *)

WrittenTerms == \A c \in Slots : call[c].at = "written" => call[c].term \in Terms

\* What a call that is still fresh knows about the lease
FreshCalls ==
    \A c \in Slots : call[c].fresh =>
        /\ call[c].at = "got" => /\ call[c].seen = holder
                                 /\ holder # None => call[c].stamp = renewed
        /\ call[c].at = "renew" => holder = c[1]
        /\ call[c].at = "acquire" => holder # None /\ renewed > Duration

\* p has led in term t, or will when an answer arrives.
Claims(p, t) == \/ p \in led[t]
                \/ \E c \in Slots : c[1] = p /\ call[c].at = "written" /\ call[c].term = t

\* Claims are to terms up to the lease's, to that one only by its holder.
ClaimsFenced ==
    \A t \in Terms, p \in Pods : Claims(p, t) =>
        /\ holder # None /\ t <= transitions + 1
        /\ t = transitions + 1 => p = holder
        /\ \A q \in Pods : Claims(q, t) => p = q

LeaseInv == TypeOK /\ WrittenTerms /\ FreshCalls /\ ClaimsFenced

\* While no call has been late, a pod has one call at a time, ...
OneCall ==
    \A c, d \in Slots : c[1] = d[1] /\ call[c].at # "none" /\ call[d].at # "none" => c = d

\* ... whose age is known from the timer, ...
CallAges ==
    \A c \in Slots : call[c].at # "none" =>
        /\ call[c].age <= Latency /\ up[c[1]] # "down"
        /\ up[c[1]] = "up" => call[c].age + timer[c[1]] = Interval
        /\ call[c].at \in {"create", "renew", "acquire"} => call[c].stamp <= call[c].age
        /\ call[c].at = "written" => holder = c[1] /\ renewed <= call[c].age

\* ... and a leader has renewed the lease recently, or is about to.
LeadersRenew ==
    \A p \in Pods : isLeader[p] /\ up[p] # "stopped" =>
        /\ up[p] = "up" /\ holder = p
        /\ (\A c \in Slots : c[1] = p => call[c].at = "none")
               => renewed + timer[p] <= Interval + Latency
        /\ \A c \in Slots : c[1] = p /\ call[c].at # "none" =>
             /\ renewed <= Interval + Latency + call[c].age
             /\ call[c].at \in {"read", "got", "renew", "refused", "written"}
             /\ call[c].at = "got" => call[c].seen = p

Timely == ~late => OneCall /\ CallAges /\ LeadersRenew

-----------------------------------------------------------------------------
(* Type correctness *)

LEMMA Numbers ==
    /\ Interval \in Nat /\ Interval > 0 /\ Duration \in Nat /\ Duration > 0 /\ MaxCalls \in Nat
    /\ Latency \in Nat /\ MaxTransitions \in Nat /\ Interval + 2 * Latency <= Duration
    /\ None \notin Pods
BY LeaseAssumption

LEMMA SlotParts == \A c \in Slots : c[1] \in Pods
BY DEF Slots

LEMMA Calls == /\ NoCall \in CallType /\ NoCall.at = "none" /\ ~NoCall.fresh
               /\ NewCall \in CallType /\ NewCall.at = "read" /\ ~NewCall.fresh /\ NewCall.age = 0
<1>1. NoCall \in CallType /\ NoCall.at = "none" /\ ~NoCall.fresh /\ NoCall.age = 0
  BY Numbers DEF NoCall, CallType, Old
<1>2. NewCall.at = "read" /\ ~NewCall.fresh /\ NewCall.age = 0
  BY DEF NewCall, NoCall
<1>3. NewCall \in CallType
  BY <1>1 DEF NewCall, CallType
<1> QED
  BY <1>1, <1>2, <1>3

LEMMA IntentTypes ==
    ASSUME NEW c \in Slots
    PROVE  Intent(c) \in {"create", "renew", "acquire", "none"}
BY DEF Intent

\* The effect of End on the types of what it changes
LEMMA EndTypes ==
    ASSUME TypeOK, NEW c \in Slots, End(c)
    PROVE  /\ up' \in [Pods -> {"down", "starting", "up", "stopped"}]
           /\ timer' \in [Pods -> 0 .. Interval]
           /\ call' \in [Slots -> CallType]
           /\ \A d \in Slots : call'[d].at = "written" => d # c /\ call'[d] = call[d]
           /\ UNCHANGED <<holder, renewed, transitions, late>>
<1>1. c[1] \in Pods
  BY SlotParts
<1>3. Interval \in 0 .. Interval
  BY Numbers
<1>4. call' \in [Slots -> CallType]
  BY Calls DEF TypeOK, End
<1>5. \A d \in Slots : call'[d].at = "written" => d # c /\ call'[d] = call[d]
  BY Calls DEF TypeOK, End
<1> QED
  BY <1>1, <1>3, <1>4, <1>5 DEF TypeOK, End, pods, lease

LEMMA TypeInit == Init => TypeOK /\ WrittenTerms
<1> USE Numbers DEF Init
<1>1. Init => call \in [Slots -> CallType] /\ WrittenTerms
  BY Calls DEF WrittenTerms
<1>2. Init => led \in [Terms -> SUBSET Pods] /\ renewed \in 0 .. Old
  BY DEF Old
<1>3. Init => /\ holder \in Pods \cup {None} /\ transitions \in 0 .. MaxTransitions
              /\ up \in [Pods -> {"down", "starting", "up", "stopped"}]
              /\ timer \in [Pods -> 0 .. Interval] /\ leaderId \in [Pods -> Pods \cup {None}]
              /\ isLeader \in [Pods -> BOOLEAN] /\ term \in [Pods -> 0 .. MaxTransitions + 1]
              /\ \A p \in Pods : ~isLeader[p]
  OBVIOUS
<1>4. Init => late \in BOOLEAN
  OBVIOUS
<1> QED
  BY <1>1, <1>2, <1>3, <1>4 DEF TypeOK

LEMMA TypeStep ==
    ASSUME TypeOK, WrittenTerms, [Next]_vars
    PROVE  TypeOK' /\ WrittenTerms'
<1> USE Numbers
<1>1. ASSUME NEW p \in Pods, Start(p)
      PROVE  TypeOK' /\ WrittenTerms'
  <2>2. call' \in [Slots -> CallType] /\ WrittenTerms'
    BY <1>1, Calls DEF Start, TypeOK, WrittenTerms
  <2> QED
    BY <1>1, <2>2 DEF Start, TypeOK, lease, role
<1>2. ASSUME NEW p \in Pods, Fire(p)
      PROVE  TypeOK' /\ WrittenTerms'
  <2>1. CASE UNCHANGED call
    BY <1>2, <2>1 DEF Fire, TypeOK, WrittenTerms, lease, role
  <2>2. CASE \E i \in 1 .. MaxCalls : call' = [call EXCEPT ![<<p, i>>] = NewCall]
    <3>1. call' \in [Slots -> CallType] /\ WrittenTerms'
      <4>1. PICK i \in 1 .. MaxCalls : call' = [call EXCEPT ![<<p, i>>] = NewCall]
        BY <2>2
      <4>2. <<p, i>> \in Slots
        BY DEF Slots
      <4> DEFINE c == <<p, i>>
      <4> HIDE DEF c
      <4>3. call' = [call EXCEPT ![c] = NewCall] /\ c \in Slots
        BY <4>1, <4>2 DEF c
      <4> QED
        BY <4>3, Calls DEF TypeOK, WrittenTerms
    <3> QED
      BY <1>2, <3>1 DEF Fire, TypeOK, lease, role
  <2> QED
    BY <1>2, <2>1, <2>2 DEF Fire
<1>3. ASSUME NEW p \in Pods, Stop(p)
      PROVE  TypeOK' /\ WrittenTerms'
  BY <1>3 DEF Stop, TypeOK, WrittenTerms, lease
<1>4. ASSUME NEW p \in Pods, Exit(p)
      PROVE  TypeOK' /\ WrittenTerms'
  <2>2. call' \in [Slots -> CallType] /\ WrittenTerms'
    BY <1>4, Calls DEF Exit, TypeOK, WrittenTerms
  <2> QED
    BY <1>4, <2>2 DEF Exit, TypeOK, lease
<1>5. ASSUME Tick
      PROVE  TypeOK' /\ WrittenTerms'
  <2>1. \A c \in Slots : call'[c] \in CallType /\ (call'[c].at = call[c].at)
                         /\ (call'[c].term = call[c].term)
    <3> SUFFICES ASSUME NEW c \in Slots
                 PROVE  /\ call'[c] \in CallType
                        /\ call'[c].at = call[c].at /\ call'[c].term = call[c].term
      OBVIOUS
    <3> DEFINE k == call[c]  a == Older(k.age, Latency + 1)
               s == IF k.at \in Stamped THEN Older(k.stamp, Old) ELSE k.stamp
    <3>1. k \in CallType /\ a \in 0 .. Latency + 1 /\ s \in 0 .. Old
      BY DEF TypeOK, CallType, Older, Old
    <3>2. call'[c] = IF k.at = "none" THEN k ELSE [k EXCEPT !.age = a, !.stamp = s]
      BY <1>5 DEF Tick
    <3> HIDE DEF k, a, s
    <3>3. call'[c] \in CallType /\ call'[c].at = k.at /\ call'[c].term = k.term
      BY <3>1, <3>2 DEF CallType
    <3> QED
      BY <3>3 DEF k
  <2>2. call' \in [Slots -> CallType] /\ WrittenTerms'
    BY <1>5, <2>1 DEF Tick, TypeOK, WrittenTerms
  <2>3. renewed' \in 0 .. Old
    <3>1. renewed \in 0 .. Old /\ Older(renewed, Old) \in 0 .. Old
      BY DEF TypeOK, Older, Old
    <3> QED
      BY <1>5, <3>1 DEF Tick
  <2>4. timer' \in [Pods -> 0 .. Interval]
    <3>1. \A p \in Pods : /\ up[p] = "up" => timer[p] - 1 \in 0 .. Interval
                          /\ timer[p] \in 0 .. Interval
      <4> SUFFICES ASSUME NEW p \in Pods
                   PROVE  /\ up[p] = "up" => timer[p] - 1 \in 0 .. Interval
                          /\ timer[p] \in 0 .. Interval
        OBVIOUS
      <4>1. timer[p] \in 0 .. Interval
        BY DEF TypeOK
      <4>2. up[p] = "up" => timer[p] > 0
        BY <1>5 DEF Tick
      <4> QED
        BY <4>1, <4>2
    <3> QED
      BY <1>5, <3>1 DEF Tick
  <2>5. late' \in BOOLEAN
    BY <1>5 DEF Tick, TypeOK
  <2> QED
    BY <1>5, <2>2, <2>3, <2>4, <2>5 DEF Tick, TypeOK, role
<1>6. ASSUME NEW c \in Slots, NEW t \in 0 .. MaxTransitions, Write(c, t), call[c].stamp \in 0 .. Old
      PROVE  TypeOK' /\ WrittenTerms'
  <2>1. \A d \in Slots : /\ call'[d] \in CallType
                         /\ call'[d].at = "written" => call'[d].term \in Terms
    <3> DEFINE w == [NoCall EXCEPT !.at = "written", !.age = call[c].age, !.term = t + 1]
    <3>1. w \in CallType /\ w.term \in Terms
      <4>1. /\ call[c].age \in 0 .. Latency + 1
            /\ t + 1 \in 1 .. MaxTransitions + 1 /\ t + 1 \in 0 .. MaxTransitions + 1
        BY DEF TypeOK, CallType
      <4> QED
        BY Calls, <4>1 DEF CallType, Terms
    <3>2. \A d \in Slots : /\ [call[d] EXCEPT !.fresh = FALSE] \in CallType
                           /\ [call[d] EXCEPT !.fresh = FALSE].at = call[d].at
                           /\ [call[d] EXCEPT !.fresh = FALSE].term = call[d].term
      <4> SUFFICES ASSUME NEW k \in CallType
                   PROVE  /\ [k EXCEPT !.fresh = FALSE] \in CallType
                          /\ [k EXCEPT !.fresh = FALSE].at = k.at
                          /\ [k EXCEPT !.fresh = FALSE].term = k.term
        BY DEF TypeOK
      <4> QED
        BY DEF CallType
    <3>3. \A d \in Slots : call'[d] = IF d = c THEN w ELSE [call[d] EXCEPT !.fresh = FALSE]
      BY <1>6 DEF Write
    <3> QED
      BY <3>1, <3>2, <3>3 DEF WrittenTerms
  <2>2. call' \in [Slots -> CallType] /\ WrittenTerms'
    BY <1>6, <2>1 DEF Write, WrittenTerms
  <2> QED
    BY <1>6, <2>2, SlotParts DEF Write, TypeOK, pods, role
<1>7. ASSUME NEW c \in Slots, CallStep(c)
      PROVE  TypeOK' /\ WrittenTerms'
  <2>0. c[1] \in Pods /\ call[c] \in CallType
    BY SlotParts DEF TypeOK
  <2>1. CASE ServerRead(c)
    <3>1. [call[c] EXCEPT !.at = "got", !.fresh = TRUE, !.seen = holder, !.stamp = renewed] \in CallType
      BY <2>0 DEF TypeOK, CallType
    <3>2. call' \in [Slots -> CallType] /\ WrittenTerms'
      BY <2>1, <3>1 DEF ServerRead, TypeOK, WrittenTerms
    <3> QED
      BY <2>1, <3>2 DEF ServerRead, TypeOK, lease, pods, role
  <2>2. CASE ServerCreate(c) \/ ServerRenew(c) \/ ServerReplace(c)
    <3>1. PICK t \in 0 .. MaxTransitions : Write(c, t)
      BY <2>2 DEF ServerCreate, ServerRenew, ServerReplace, TypeOK
    <3> QED
      BY <1>6, <3>1, <2>0 DEF CallType
  <2>3. CASE ServerRefuse(c)
    <3>1. \A d \in Slots : call'[d] \in CallType /\ (call'[d].at = "written" => call'[d] = call[d])
      <4> DEFINE at == IF call[c].at = "acquire" THEN "refresh" ELSE "refused"
                 r  == [NoCall EXCEPT !.at = at, !.age = call[c].age]
      <4>1. r \in CallType /\ r.at # "written"
        BY <2>0, Calls DEF CallType
      <4> QED
        BY <2>3, <4>1 DEF ServerRefuse, TypeOK
    <3>2. call' \in [Slots -> CallType] /\ WrittenTerms'
      BY <2>3, <3>1 DEF ServerRefuse, TypeOK, WrittenTerms
    <3> QED
      BY <2>3, <3>2 DEF ServerRefuse, TypeOK, lease, pods, role
  <2>4. CASE Decide(c)
    <3>1. \A d \in Slots : call'[d] \in CallType /\ (call'[d].at = "written" => call'[d] = call[d])
      <4> DEFINE r == [call[c] EXCEPT !.at = Intent(c), !.seen = None, !.stamp = 0]
      <4>1. r \in CallType /\ r.at # "written"
        <5>1. Intent(c) \in {"create", "renew", "acquire"} /\ 0 \in 0 .. Old
          BY IntentTypes, <2>4 DEF Decide, Old
        <5> QED
          BY <2>0, <5>1 DEF CallType
      <4> QED
        BY <2>4, <4>1 DEF Decide, TypeOK
    <3>2. call' \in [Slots -> CallType] /\ WrittenTerms'
      BY <2>4, <3>1 DEF Decide, TypeOK, WrittenTerms
    <3> QED
      BY <2>4, <3>2 DEF Decide, TypeOK, lease, pods, role
  <2>5. CASE Follow(c)
    <3>1. End(c) /\ SetFollower(c[1], call[c].seen) /\ call[c].seen \in Pods \cup {None}
      BY <2>5, <2>0 DEF Follow, CallType
    <3>2. WrittenTerms'
      BY <3>1, EndTypes DEF WrittenTerms
    <3> QED
      BY <3>1, <3>2, <2>0, EndTypes DEF SetFollower, TypeOK
  <2>6. CASE BecomeLeader(c)
    <3>1. End(c) /\ call[c].term \in Terms
      BY <2>6 DEF BecomeLeader, WrittenTerms
    <3>2. WrittenTerms'
      BY <3>1, EndTypes DEF WrittenTerms
    <3>3. /\ led' \in [Terms -> SUBSET Pods]
          /\ \A q \in Pods : isLeader'[q] => leaderId'[q] = q /\ q \in led'[term'[q]]
          /\ isLeader' \in [Pods -> BOOLEAN] /\ term' \in [Pods -> 0 .. MaxTransitions + 1]
          /\ leaderId' \in [Pods -> Pods \cup {None}]
      <4>1. /\ led' \in [Terms -> SUBSET Pods]
            /\ isLeader' \in [Pods -> BOOLEAN] /\ term' \in [Pods -> 0 .. MaxTransitions + 1]
            /\ leaderId' \in [Pods -> Pods \cup {None}]
        <5>1. led' = [led EXCEPT ![call[c].term] = @ \cup {c[1]}] /\ led \in [Terms -> SUBSET Pods]
          BY <2>6 DEF BecomeLeader, TypeOK
        <5>2. led' \in [Terms -> SUBSET Pods]
          BY <5>1, <3>1, <2>0
        <5>3. call[c].term \in 0 .. MaxTransitions + 1
          BY <3>1 DEF Terms
        <5>4. /\ isLeader' \in [Pods -> BOOLEAN] /\ term' \in [Pods -> 0 .. MaxTransitions + 1]
              /\ leaderId' \in [Pods -> Pods \cup {None}]
          BY <2>6, <5>3, <2>0 DEF BecomeLeader, TypeOK
        <5> QED
          BY <5>2, <5>4
      <4>2. ASSUME NEW q \in Pods, isLeader'[q]
            PROVE  leaderId'[q] = q /\ q \in led'[term'[q]]
        <5>1. CASE q = c[1]
          BY <2>6, <3>1, <2>0, <5>1 DEF BecomeLeader, TypeOK
        <5>2. CASE q # c[1]
          <6>1. isLeader[q] /\ leaderId'[q] = leaderId[q] /\ term'[q] = term[q]
            BY <2>6, <2>0, <5>2, <4>2 DEF BecomeLeader, TypeOK
          <6>2. led[term[q]] \subseteq led'[term[q]]
            BY <2>6, <2>0 DEF BecomeLeader, TypeOK
          <6> QED
            BY <6>1, <6>2 DEF TypeOK
        <5> QED
          BY <5>1, <5>2
      <4> QED
        BY <4>1, <4>2
    <3> QED
      BY <3>1, <3>2, <3>3, EndTypes DEF TypeOK
  <2>7. CASE Refresh(c)
    <3>1. End(c)
      BY <2>7 DEF Refresh
    <3>2. WrittenTerms'
      BY <3>1, EndTypes DEF WrittenTerms
    <3>3. CASE holder \notin {None, c[1]}
      <4>1. SetFollower(c[1], holder) /\ holder \in Pods
        BY <2>7, <3>3 DEF Refresh, TypeOK
      <4> QED
        BY <3>1, <3>2, <4>1, <2>0, EndTypes DEF SetFollower, TypeOK
    <3>4. CASE holder \in {None, c[1]}
      <4>1. UNCHANGED <<role, led>>
        BY <2>7, <3>4 DEF Refresh
      <4> QED
        BY <3>1, <3>2, <4>1, EndTypes DEF role, TypeOK
    <3> QED
      BY <3>3, <3>4
  <2>8. CASE Fail(c)
    <3>1. End(c)
      BY <2>8 DEF Fail
    <3>2. WrittenTerms'
      BY <3>1, EndTypes DEF WrittenTerms
    <3> QED
      BY <2>8, <3>1, <3>2, <2>0, EndTypes DEF Fail, TypeOK
  <2> QED
    BY <1>7, <2>1, <2>2, <2>3, <2>4, <2>5, <2>6, <2>7, <2>8 DEF CallStep
<1>8. CASE UNCHANGED vars
  BY <1>8 DEF vars, lease, pods, role, TypeOK, WrittenTerms
<1> QED
  BY <1>1, <1>2, <1>3, <1>4, <1>5, <1>7, <1>8 DEF Next

\* Type correctness for any number of pods and calls and any times.
THEOREM TypeCorrect == Spec => []TypeOK
<1>1. TypeOK /\ WrittenTerms /\ [Next]_vars => (TypeOK /\ WrittenTerms)'
  BY TypeStep
<1> QED
  BY TypeInit, <1>1, PTL DEF Spec

-----------------------------------------------------------------------------
(* The lease and the terms *)

\* What the actions do to calls: in all but the writes, the reads, the decisions
\* and the passing of time one call is replaced by one that is neither fresh nor
\* written.
Plain(k) == ~k.fresh /\ k.at # "written"

LEMMA PlainCalls == Plain(NoCall) /\ Plain(NewCall)
BY DEF Plain, NoCall, NewCall

LEMMA FreshFrame ==
    ASSUME FreshCalls, UNCHANGED <<holder, renewed>>,
           \A c \in Slots : call'[c] = call[c] \/ ~call'[c].fresh
    PROVE  FreshCalls'
BY DEF FreshCalls

LEMMA ClaimsFrame ==
    ASSUME ClaimsFenced, UNCHANGED <<holder, transitions, led>>,
           \A c \in Slots : call'[c].at = "written" =>
                             call[c].at = "written" /\ call'[c].term = call[c].term
    PROVE  ClaimsFenced'
<1>1. ASSUME NEW p \in Pods, NEW t \in Terms, Claims(p, t)'
      PROVE  Claims(p, t)
  BY <1>1 DEF Claims
<1> QED
  BY <1>1 DEF ClaimsFenced

LEMMA EndCalls ==
    ASSUME TypeOK, NEW c \in Slots, End(c)
    PROVE  /\ \A d \in Slots : call'[d] = IF d = c THEN NoCall ELSE call[d]
           /\ UNCHANGED <<holder, renewed, transitions>>
BY DEF TypeOK, End, lease

\* Actions that only replace calls by plain ones
LEMMA PlainStep ==
    ASSUME LeaseInv, UNCHANGED <<lease, led>>,
           \A c \in Slots : call'[c] = call[c] \/ Plain(call'[c])
    PROVE  FreshCalls' /\ ClaimsFenced'
<1>1. FreshCalls'
  BY FreshFrame DEF LeaseInv, lease, Plain
<1>2. ClaimsFenced'
  BY ClaimsFrame DEF LeaseInv, lease, Plain
<1> QED
  BY <1>1, <1>2

LEMMA TickStep ==
    ASSUME LeaseInv, Tick
    PROVE  FreshCalls' /\ ClaimsFenced'
<1>3. \A c \in Slots : /\ call'[c].at = call[c].at /\ call'[c].term = call[c].term
                       /\ call'[c].fresh = call[c].fresh /\ call'[c].seen = call[c].seen
                       /\ call[c].at = "got" => call'[c].stamp = Older(call[c].stamp, Old)
  <2> SUFFICES ASSUME NEW c \in Slots
               PROVE  /\ call'[c].at = call[c].at /\ call'[c].term = call[c].term
                      /\ call'[c].fresh = call[c].fresh /\ call'[c].seen = call[c].seen
                      /\ call[c].at = "got" => call'[c].stamp = Older(call[c].stamp, Old)
    OBVIOUS
  <2> DEFINE a == Older(call[c].age, Latency + 1)
             s == IF call[c].at \in Stamped THEN Older(call[c].stamp, Old) ELSE call[c].stamp
  <2>1. call[c] \in CallType /\ (call[c].at = "got" => s = Older(call[c].stamp, Old))
    BY DEF LeaseInv, TypeOK, Stamped
  <2>2. call'[c] = IF call[c].at = "none" THEN call[c] ELSE [call[c] EXCEPT !.age = a, !.stamp = s]
    BY DEF Tick
  <2> HIDE DEF s, a
  <2>3. CASE call[c].at = "none"
    BY <2>2, <2>3
  <2>4. CASE call[c].at # "none"
    <3>1. call'[c] = [call[c] EXCEPT !.age = a, !.stamp = s]
      BY <2>2, <2>4
    <3>2. /\ call'[c].at = call[c].at /\ call'[c].term = call[c].term
          /\ call'[c].fresh = call[c].fresh /\ call'[c].seen = call[c].seen /\ call'[c].stamp = s
      BY ONLY <2>1, <3>1 DEF CallType
    <3> QED
      BY <2>1, <3>2
  <2> QED
    BY <2>3, <2>4
<1>4. ClaimsFenced'
  BY <1>3, ClaimsFrame DEF LeaseInv, Tick
<1>5. holder' = holder /\ (holder # None => renewed' = Older(renewed, Old))
  BY DEF Tick
<1>6. renewed > Duration => Older(renewed, Old) > Duration
  BY Numbers DEF LeaseInv, TypeOK, Older, Old
<1>7. FreshCalls'
  BY <1>3, <1>5, <1>6 DEF LeaseInv, FreshCalls
<1> QED
  BY <1>4, <1>7

LEMMA WriteStep ==
    ASSUME LeaseInv, NEW c \in Slots, NEW t \in 0 .. MaxTransitions, Write(c, t),
           \/ holder = None /\ t = 0
           \/ holder = c[1] /\ t = transitions
           \/ t = transitions + 1
    PROVE  FreshCalls' /\ ClaimsFenced'
<1> DEFINE w == [NoCall EXCEPT !.at = "written", !.age = call[c].age, !.term = t + 1]
<1>1. ~w.fresh /\ w.term = t + 1
  BY DEF NoCall
<1>2. ASSUME NEW k \in CallType, NEW m, m = [k EXCEPT !.fresh = FALSE]
      PROVE  m.at = k.at /\ m.term = k.term /\ ~m.fresh
  BY <1>2 DEF CallType
<1>3. \A d \in Slots : call'[d] = IF d = c THEN w ELSE [call[d] EXCEPT !.fresh = FALSE]
  BY DEF Write
<1>4. \A d \in Slots : /\ ~call'[d].fresh
                       /\ d # c => call'[d].at = call[d].at /\ call'[d].term = call[d].term
                       /\ d = c => call'[d].term = t + 1
  <2> SUFFICES ASSUME NEW d \in Slots
               PROVE  /\ ~call'[d].fresh
                      /\ d # c => call'[d].at = call[d].at /\ call'[d].term = call[d].term
                      /\ d = c => call'[d].term = t + 1
    OBVIOUS
  <2>1. call[d] \in CallType
    BY DEF LeaseInv, TypeOK
  <2>2. CASE d = c
    BY <1>1, <1>3, <2>2
  <2>3. CASE d # c
    <3>1. call'[d] = [call[d] EXCEPT !.fresh = FALSE]
      BY <1>3, <2>3
    <3>2. call'[d].at = call[d].at /\ call'[d].term = call[d].term /\ ~call'[d].fresh
      BY ONLY <1>2, <2>1, <3>1
    <3> QED
      BY <2>3, <3>2
  <2> QED
    BY <2>2, <2>3
<1>5. FreshCalls'
  BY <1>4 DEF FreshCalls
<1>6. holder' = c[1] /\ transitions' = t /\ led' = led /\ c[1] \in Pods /\ None \notin Pods
  BY SlotParts, Numbers DEF Write
<1>7. ASSUME NEW p \in Pods, NEW n \in Terms, Claims(p, n)'
      PROVE  Claims(p, n) \/ (p = c[1] /\ n = t + 1)
  BY <1>4, <1>6, <1>7 DEF Claims
<1>8. transitions \in Nat /\ t \in Nat /\ Terms \subseteq Nat
  BY Numbers DEF LeaseInv, TypeOK, Terms
<1>9. ASSUME NEW p \in Pods, NEW n \in Terms, Claims(p, n)
      PROVE  n <= t + 1 /\ (n = t + 1 => p = c[1])
  BY <1>6, <1>8, <1>9 DEF LeaseInv, ClaimsFenced
<1>10. ASSUME NEW p \in Pods, NEW q \in Pods, NEW n \in Terms, Claims(p, n)', Claims(q, n)'
       PROVE  p = q
  BY <1>7, <1>9, <1>10 DEF LeaseInv, ClaimsFenced
<1>11. ClaimsFenced'
  <2> SUFFICES ASSUME NEW n \in Terms, NEW p \in Pods, Claims(p, n)'
               PROVE  /\ holder' # None /\ n <= transitions' + 1
                      /\ n = transitions' + 1 => p = holder'
                      /\ \A q \in Pods : Claims(q, n)' => p = q
    BY DEF ClaimsFenced
  <2> QED
    BY <1>6, <1>7, <1>8, <1>9, <1>10
<1> QED
  BY <1>5, <1>11

LEMMA LeaseInvInit == Init => LeaseInv
<1> SUFFICES ASSUME Init PROVE FreshCalls /\ ClaimsFenced
  BY TypeInit DEF LeaseInv
<1>1. \A c \in Slots : call[c] = NoCall
  BY DEF Init
<1>2. \A p \in Pods, t \in Terms : ~Claims(p, t)
  BY <1>1, Calls DEF Init, Claims
<1> QED
  BY <1>1, <1>2, Calls DEF FreshCalls, ClaimsFenced

LEMMA LeaseInvStep == LeaseInv /\ [Next]_vars => LeaseInv'
<1> SUFFICES ASSUME LeaseInv, [Next]_vars PROVE FreshCalls' /\ ClaimsFenced'
  BY TypeStep DEF LeaseInv
<1>0. call \in [Slots -> CallType]
  BY DEF LeaseInv, TypeOK
<1>1. ASSUME NEW p \in Pods, Start(p)
      PROVE  FreshCalls' /\ ClaimsFenced'
  <2>1. \A d \in Slots : call'[d] = call[d] \/ call'[d] = NewCall
    BY <1>0, <1>1 DEF Start
  <2>2. UNCHANGED <<lease, led>>
    BY <1>1 DEF Start
  <2> QED
    BY <2>1, <2>2, PlainCalls, PlainStep
<1>2. ASSUME NEW p \in Pods, Fire(p)
      PROVE  FreshCalls' /\ ClaimsFenced'
  <2>1. \A d \in Slots : call'[d] = call[d] \/ call'[d] = NewCall
    <3>1. CASE UNCHANGED call
      BY <3>1
    <3>2. CASE \E i \in 1 .. MaxCalls : call' = [call EXCEPT ![<<p, i>>] = NewCall]
      BY <1>0, <3>2
    <3> QED
      BY <1>2, <3>1, <3>2 DEF Fire
  <2>2. UNCHANGED <<lease, led>>
    BY <1>2 DEF Fire
  <2> QED
    BY <2>1, <2>2, PlainCalls, PlainStep
<1>3. ASSUME NEW p \in Pods, Stop(p)
      PROVE  FreshCalls' /\ ClaimsFenced'
  BY <1>3, PlainStep DEF Stop
<1>4. ASSUME NEW p \in Pods, Exit(p)
      PROVE  FreshCalls' /\ ClaimsFenced'
  <2>1. \A d \in Slots : call'[d] = call[d] \/ call'[d] = NoCall
    BY <1>4 DEF Exit
  <2>2. UNCHANGED <<lease, led>>
    BY <1>4 DEF Exit
  <2> QED
    BY <2>1, <2>2, PlainCalls, PlainStep
<1>5. ASSUME NEW c \in Slots, CallStep(c)
      PROVE  FreshCalls' /\ ClaimsFenced'
  <2>1. CASE ServerRead(c)
    <3> DEFINE r == [call[c] EXCEPT !.at = "got", !.fresh = TRUE, !.seen = holder, !.stamp = renewed]
    <3>1. r.at = "got" /\ r.seen = holder /\ r.stamp = renewed
      BY <1>0 DEF CallType
    <3>2. \A d \in Slots : call'[d] = IF d = c THEN r ELSE call[d]
      BY <1>0, <2>1 DEF ServerRead
    <3>3. UNCHANGED <<lease, led>>
      BY <2>1 DEF ServerRead
    <3> HIDE DEF r
    <3>4. FreshCalls'
      BY <3>1, <3>2, <3>3 DEF FreshCalls, LeaseInv, lease
    <3>5. ClaimsFenced'
      BY <3>1, <3>2, <3>3, ClaimsFrame DEF LeaseInv, lease
    <3> QED
      BY <3>4, <3>5
  <2>2. CASE ServerCreate(c)
    BY <2>2, WriteStep, Numbers DEF ServerCreate
  <2>3. CASE ServerRenew(c)
    BY <2>3, WriteStep DEF ServerRenew, LeaseInv, FreshCalls, TypeOK
  <2>4. CASE ServerReplace(c)
    <3>1. transitions + 1 \in 0 .. MaxTransitions /\ Write(c, transitions + 1)
      BY <2>4, Numbers DEF ServerReplace, LeaseInv, TypeOK
    <3> QED
      BY <3>1, WriteStep
  <2>5. CASE ServerRefuse(c)
    <3>1. \A d \in Slots : call'[d] = call[d] \/ Plain(call'[d])
      BY <1>0, <2>5 DEF ServerRefuse, NoCall, Plain
    <3> QED
      BY <2>5, <3>1, PlainStep DEF ServerRefuse
  <2>6. CASE Decide(c)
    <3> DEFINE r == [call[c] EXCEPT !.at = Intent(c), !.seen = None, !.stamp = 0]
    <3>1. r.at = Intent(c) /\ r.fresh = call[c].fresh
      BY <1>0 DEF CallType
    <3>2. \A d \in Slots : call'[d] = IF d = c THEN r ELSE call[d]
      BY <1>0, <2>6 DEF Decide
    <3>3. UNCHANGED <<lease, led>> /\ call[c].at = "got"
      BY <2>6 DEF Decide
    <3> HIDE DEF r
    <3>4. Intent(c) \in {"create", "renew", "acquire", "none"}
      BY IntentTypes
    <3>5. call[c].fresh /\ Intent(c) = "renew" => holder = c[1]
      BY <3>3 DEF Intent, LeaseInv, FreshCalls
    <3>6. call[c].fresh /\ Intent(c) = "acquire" => holder # None /\ renewed > Duration
      BY <3>3 DEF Intent, LeaseInv, FreshCalls
    <3>7. FreshCalls'
      BY <3>1, <3>2, <3>3, <3>4, <3>5, <3>6 DEF FreshCalls, LeaseInv, lease
    <3>8. ClaimsFenced'
      BY <3>1, <3>2, <3>3, <3>4, ClaimsFrame DEF LeaseInv, lease
    <3> QED
      BY <3>7, <3>8
  <2>7. CASE Follow(c) \/ Refresh(c) \/ Fail(c)
    <3>1. End(c) /\ led' = led
      BY <2>7 DEF Follow, Refresh, Fail, SetFollower
    <3> QED
      BY <3>1, EndCalls, PlainCalls, PlainStep DEF LeaseInv, lease
  <2>8. CASE BecomeLeader(c)
    <3>1. End(c) /\ call[c].at = "written" /\ led' = [led EXCEPT ![call[c].term] = @ \cup {c[1]}]
      BY <2>8 DEF BecomeLeader
    <3>2. FreshCalls'
      BY <3>1, EndCalls, PlainCalls, FreshFrame DEF LeaseInv, Plain
    <3>3. ASSUME NEW p \in Pods, NEW t \in Terms, Claims(p, t)'
          PROVE  Claims(p, t)
      <4>1. CASE p \in led'[t]
        BY <3>1, <4>1 DEF Claims, LeaseInv, TypeOK
      <4>2. CASE p \notin led'[t]
        BY <3>1, <3>3, <4>2, EndCalls, PlainCalls DEF Claims, LeaseInv, Plain
      <4> QED
        BY <4>1, <4>2
    <3>4. ClaimsFenced'
      BY <3>1, <3>3, EndCalls DEF ClaimsFenced, LeaseInv
    <3> QED
      BY <3>2, <3>4
  <2> QED
    BY <1>5, <2>1, <2>2, <2>3, <2>4, <2>5, <2>6, <2>7, <2>8 DEF CallStep
<1>6. CASE UNCHANGED vars
  BY <1>6, PlainStep DEF vars
<1> QED
  BY <1>1, <1>2, <1>3, <1>4, <1>5, <1>6, TickStep DEF Next

\* Terms fence leaders: whatever is lost or late, whoever stops or restarts.
THEOREM TermsFence == Spec => []OneLeaderPerTerm
<1>1. LeaseInv => OneLeaderPerTerm
  BY DEF LeaseInv, ClaimsFenced, Claims, OneLeaderPerTerm, TypeOK
<1> QED
  BY LeaseInvInit, LeaseInvStep, <1>1, PTL DEF Spec

\* Nobody takes the lease over before it has run out, although every pod judges
\* it by a copy it has read before.
THEOREM LeaseIsHonoured == Spec => LeaseHonoured
<1> DEFINE Honoured == holder' # holder /\ holder # None => renewed > Duration
<1>1. LeaseInv /\ [Next]_vars => [Honoured]_vars
  <2> SUFFICES ASSUME LeaseInv, Next, holder' # holder, holder # None
               PROVE  renewed > Duration
    BY DEF vars
  <2>1. PICK c \in Slots : ServerCreate(c) \/ ServerRenew(c) \/ ServerReplace(c)
    BY DEF Next, Start, Fire, Stop, Exit, Tick, CallStep, ServerRead, ServerRefuse, Decide, Follow,
           BecomeLeader, Refresh, Fail, End, lease
  <2>2. call[c].fresh /\ call[c].at \in {"renew", "acquire"} /\ holder' = c[1]
    BY <2>1 DEF ServerCreate, ServerRenew, ServerReplace, Write
  <2> QED
    BY <2>2 DEF LeaseInv, FreshCalls
<1> QED
  BY LeaseInvInit, LeaseInvStep, <1>1, PTL DEF Spec, LeaseHonoured

-----------------------------------------------------------------------------
(* One leader while requests are fast *)

Timed == OneCall /\ CallAges /\ LeadersRenew
Idle(p) == \A c \in Slots : c[1] = p => call[c].at = "none"

LEMMA NumberTypes ==
    ASSUME TypeOK
    PROVE  /\ renewed \in Nat /\ \A p \in Pods : timer[p] \in Nat
           /\ \A c \in Slots : /\ call[c] \in CallType
                               /\ call[c].age \in Nat /\ call[c].stamp \in Nat
           /\ \A k \in CallType : k.age \in Nat /\ k.stamp \in Nat
<1>1. \A c \in Slots : call[c] \in CallType
  BY DEF TypeOK
<1>2. \A k \in CallType : k.age \in Nat /\ k.stamp \in Nat
  BY Numbers DEF CallType, Old
<1> QED
  BY <1>1, <1>2, Numbers DEF TypeOK, Old

\* One call goes on, and nothing else changes.
LEMMA CallGoesOn ==
    ASSUME LeaseInv, Timed, NEW c \in Slots, call[c].at # "none",
           UNCHANGED <<lease, pods, role>>, call' \in [Slots -> CallType],
           \A d \in Slots : d # c => call'[d] = call[d],
           call'[c].age = call[c].age, call'[c].at \notin {"none", "written"},
           call'[c].at \in {"create", "renew", "acquire"} => call'[c].stamp <= call'[c].age,
           isLeader[c[1]] /\ up[c[1]] # "stopped" =>
               /\ call'[c].at \in {"got", "renew", "refused"}
               /\ call'[c].at = "got" => call'[c].seen = c[1]
    PROVE  Timed'
<1> USE DEF Timed, lease, pods, role
<1>1. \A d \in Slots : (call'[d].at = "none") <=> (call[d].at = "none")
  OBVIOUS
<1>2. OneCall'
  BY <1>1 DEF OneCall
<1>3. CallAges'
  BY <1>1 DEF CallAges
<1>4. LeadersRenew'
  <2> SUFFICES ASSUME NEW p \in Pods, isLeader'[p], up'[p] # "stopped"
               PROVE  /\ up[p] = "up" /\ holder = p
                      /\ Idle(p) => renewed + timer[p] <= Interval + Latency
                      /\ \A d \in Slots : d[1] = p /\ call'[d].at # "none" =>
                           /\ renewed <= Interval + Latency + call'[d].age
                           /\ call'[d].at \in {"read", "got", "renew", "refused", "written"}
                           /\ call'[d].at = "got" => call'[d].seen = p
    BY <1>1 DEF LeadersRenew, Idle
  <2>1. /\ up[p] = "up" /\ holder = p
        /\ Idle(p) => renewed + timer[p] <= Interval + Latency
        /\ \A d \in Slots : d[1] = p /\ call[d].at # "none" =>
             /\ renewed <= Interval + Latency + call[d].age
             /\ call[d].at \in {"read", "got", "renew", "refused", "written"}
             /\ call[d].at = "got" => call[d].seen = p
    BY DEF LeadersRenew, Idle
  <2> QED
    BY <1>1, <2>1
<1> QED
  BY <1>2, <1>3, <1>4

\* A call ends: its pod leads only if it has just renewed the lease.
LEMMA CallEnds ==
    ASSUME Latency < Interval, LeaseInv, Timed, NEW c \in Slots, call[c].at # "none", End(c),
           isLeader' \in [Pods -> BOOLEAN],
           \A q \in Pods : q # c[1] => isLeader'[q] = isLeader[q],
           isLeader'[c[1]] => \/ call[c].at = "written"
                              \/ isLeader[c[1]] /\ call[c].at = "refresh"
    PROVE  Timed'
<1> DEFINE p == c[1]
<1>1. /\ p \in Pods
      /\ \A d \in Slots : call'[d] = IF d = c THEN NoCall ELSE call[d]
      /\ UNCHANGED <<holder, renewed>>
  BY SlotParts, EndCalls DEF LeaseInv
<1>2. /\ \A q \in Pods \ {p} : up'[q] = up[q] /\ timer'[q] = timer[q]
      /\ \/ up[p] = "starting" /\ up'[p] = "up" /\ timer'[p] = Interval
         \/ up[p] # "starting" /\ up'[p] = up[p] /\ timer'[p] = timer[p]
  BY <1>1 DEF End, LeaseInv, TypeOK, pods
<1>3. \A d \in Slots : call'[d].at # "none" => d # c /\ call'[d] = call[d] /\ d[1] # p
  BY <1>1, Calls DEF Timed, OneCall
<1>4. OneCall'
  BY <1>3 DEF Timed, OneCall
<1>5. CallAges'
  <2> SUFFICES ASSUME NEW d \in Slots, call'[d].at # "none"
               PROVE  /\ call'[d].age <= Latency /\ up'[d[1]] # "down"
                      /\ up'[d[1]] = "up" => call'[d].age + timer'[d[1]] = Interval
                      /\ call'[d].at \in {"create", "renew", "acquire"} => call'[d].stamp <= call'[d].age
                      /\ call'[d].at = "written" => holder' = d[1] /\ renewed' <= call'[d].age
    BY DEF CallAges
  <2>1. call'[d] = call[d] /\ up'[d[1]] = up[d[1]] /\ timer'[d[1]] = timer[d[1]]
    BY <1>2, <1>3, SlotParts
  <2> QED
    BY <1>1, <2>1 DEF Timed, CallAges
<1>6. LeadersRenew'
  <2> SUFFICES ASSUME NEW q \in Pods, isLeader'[q], up'[q] # "stopped"
               PROVE  /\ up'[q] = "up" /\ holder' = q
                      /\ Idle(q)' => renewed' + timer'[q] <= Interval + Latency
                      /\ \A d \in Slots : d[1] = q /\ call'[d].at # "none" =>
                           /\ renewed' <= Interval + Latency + call'[d].age
                           /\ call'[d].at \in {"read", "got", "renew", "refused", "written"}
                           /\ call'[d].at = "got" => call'[d].seen = q
    BY DEF LeadersRenew, Idle
  <2>1. CASE q # p
    <3>1. Idle(q)' <=> Idle(q)
      BY <1>1, <2>1 DEF Idle
    <3>2. isLeader[q] /\ up[q] # "stopped" /\ up'[q] = up[q] /\ timer'[q] = timer[q]
      BY <1>2, <2>1
    <3> QED
      BY <1>1, <1>3, <3>1, <3>2 DEF Timed, LeadersRenew, Idle
  <2>2. CASE q = p
    <3>1. call[c].at = "written"
      <4> SUFFICES ASSUME isLeader[p], call[c].at = "refresh" PROVE FALSE
        BY <2>2
      <4>1. up[p] # "stopped"
        BY <1>2, <2>2
      <4> QED
        BY <1>1, <4>1 DEF Timed, LeadersRenew
    <3>2. /\ holder = p /\ renewed <= call[c].age /\ call[c].age <= Latency /\ up[p] # "down"
          /\ up[p] = "up" => call[c].age + timer[p] = Interval
      BY <3>1 DEF Timed, CallAges
    <3>3. \A d \in Slots : d[1] = q => call'[d].at = "none"
      BY <1>3, <2>2
    <3>4. up'[q] = "up"
      BY <1>1, <1>2, <2>2, <3>2 DEF LeaseInv, TypeOK
    <3>5. renewed' + timer'[q] <= Interval + Latency
      BY <1>1, <1>2, <2>2, <3>2, <3>4, NumberTypes, Numbers DEF LeaseInv
    <3> QED
      BY <1>1, <2>2, <3>2, <3>3, <3>4, <3>5
  <2> QED
    BY <2>1, <2>2
<1> QED
  BY <1>4, <1>5, <1>6 DEF Timed

\* A write: nobody else has a written call, and only the writer may be leading.
LEMMA WriteTimed ==
    ASSUME LeaseInv, Timed, NEW c \in Slots, NEW t, Write(c, t),
           \/ call[c].at = "create" /\ holder = None
           \/ call[c].at = "renew" /\ holder = c[1]
           \/ call[c].at = "acquire" /\ renewed > Duration
    PROVE  Timed'
<1>1. c[1] \in Pods /\ holder' = c[1] /\ renewed' = call[c].stamp /\ UNCHANGED <<pods, role>>
  BY SlotParts DEF Write
<1>2. call'[c].at = "written" /\ call'[c].age = call[c].age
  BY DEF Write, NoCall, LeaseInv, TypeOK
<1>3. \A d \in Slots : d # c => /\ call'[d].at = call[d].at /\ call'[d].age = call[d].age
                                /\ call'[d].stamp = call[d].stamp /\ call'[d].seen = call[d].seen
  <2> SUFFICES ASSUME NEW d \in Slots, d # c
               PROVE  /\ call'[d].at = call[d].at /\ call'[d].age = call[d].age
                      /\ call'[d].stamp = call[d].stamp /\ call'[d].seen = call[d].seen
    OBVIOUS
  <2>1. call'[d] = [call[d] EXCEPT !.fresh = FALSE] /\ call[d] \in CallType
    BY DEF Write, LeaseInv, TypeOK
  <2> QED
    BY ONLY <2>1 DEF CallType
<1>4. /\ call[c].stamp <= call[c].age /\ call[c].age <= Latency /\ up[c[1]] # "down"
      /\ up[c[1]] = "up" => call[c].age + timer[c[1]] = Interval
  BY DEF Timed, CallAges
<1>5. \A d \in Slots : d # c => call[d].at # "written"
  <2> SUFFICES ASSUME NEW d \in Slots, d # c, call[d].at = "written" PROVE FALSE
    OBVIOUS
  <2>1. holder = d[1] /\ renewed <= Latency /\ d[1] \in Pods
    BY NumberTypes, Numbers, SlotParts DEF Timed, CallAges, LeaseInv
  <2>2. d[1] # c[1]
    BY DEF Timed, OneCall
  <2> QED
    BY <2>1, <2>2, NumberTypes, Numbers DEF LeaseInv
<1>6. OneCall'
  BY <1>2, <1>3 DEF Timed, OneCall
<1>7. CallAges'
  BY <1>1, <1>2, <1>3, <1>4, <1>5 DEF Timed, CallAges, pods
<1>8. ASSUME NEW p \in Pods, isLeader[p], up[p] # "stopped"
      PROVE  p = c[1] /\ holder = p
  <2>1. holder = p /\ renewed <= Interval + Latency + Latency
    <3>1. CASE Idle(p)
      BY <1>8, <3>1, NumberTypes, Numbers DEF Timed, LeadersRenew, Idle, LeaseInv
    <3>2. CASE ~Idle(p)
      <4>1. PICK d \in Slots : d[1] = p /\ call[d].at # "none"
        BY <3>2 DEF Idle
      <4>2. holder = p /\ renewed <= Interval + Latency + call[d].age /\ call[d].age <= Latency
        BY <1>8, <4>1 DEF Timed, LeadersRenew, CallAges
      <4> QED
        BY <4>2, NumberTypes, Numbers DEF LeaseInv
    <3> QED
      BY <3>1, <3>2
  <2> QED
    BY <2>1, NumberTypes, Numbers DEF LeaseInv
<1>9. LeadersRenew'
  <2> SUFFICES ASSUME NEW p \in Pods, isLeader[p], up[p] # "stopped"
               PROVE  /\ up[p] = "up" /\ holder' = p
                      /\ Idle(p)' => renewed' + timer[p] <= Interval + Latency
                      /\ \A d \in Slots : d[1] = p /\ call'[d].at # "none" =>
                           /\ renewed' <= Interval + Latency + call'[d].age
                           /\ call'[d].at \in {"read", "got", "renew", "refused", "written"}
                           /\ call'[d].at = "got" => call'[d].seen = p
    BY <1>1 DEF LeadersRenew, Idle, pods, role
  <2>1. p = c[1] /\ up[p] = "up"
    BY <1>8 DEF Timed, LeadersRenew
  <2>2. ~Idle(p)'
    BY <1>2, <2>1 DEF Idle
  <2>3. \A d \in Slots : d[1] = p /\ call'[d].at # "none" => d = c
    BY <1>2, <1>3, <2>1 DEF Timed, OneCall
  <2>4. renewed' <= Interval + Latency + call'[c].age
    BY <1>1, <1>2, <1>4, NumberTypes, Numbers DEF LeaseInv
  <2> QED
    BY <1>1, <1>2, <2>1, <2>2, <2>3, <2>4
<1> QED
  BY <1>6, <1>7, <1>9 DEF Timed

LEMMA TickTimed ==
    ASSUME LeaseInv, Timed, Tick, ~late'
    PROVE  Timed'
<1>1. \A c \in Slots : /\ call'[c].at = call[c].at /\ call'[c].seen = call[c].seen
                       /\ call[c].at # "none" => /\ call'[c].age = call[c].age + 1
                                                 /\ call[c].age < Latency
                       /\ call[c].at \in {"create", "renew", "acquire"} =>
                            call'[c].stamp <= call[c].stamp + 1
  <2> SUFFICES ASSUME NEW c \in Slots
               PROVE  /\ call'[c].at = call[c].at /\ call'[c].seen = call[c].seen
                      /\ call[c].at # "none" => /\ call'[c].age = call[c].age + 1
                                                /\ call[c].age < Latency
                      /\ call[c].at \in {"create", "renew", "acquire"} =>
                           call'[c].stamp <= call[c].stamp + 1
    OBVIOUS
  <2> DEFINE a == Older(call[c].age, Latency + 1)
             s == IF call[c].at \in Stamped THEN Older(call[c].stamp, Old) ELSE call[c].stamp
  <2>1. /\ call[c] \in CallType /\ s <= call[c].stamp + 1
        /\ call[c].age < Latency => a = call[c].age + 1
    BY NumberTypes, Numbers DEF LeaseInv, Older, Old
  <2>2. call'[c] = IF call[c].at = "none" THEN call[c] ELSE [call[c] EXCEPT !.age = a, !.stamp = s]
    BY DEF Tick
  <2>3. call[c].at # "none" => call[c].age < Latency
    <3>1. ~(call[c].at # "none" /\ call[c].age >= Latency)
      BY Zenon DEF Tick
    <3> QED
      BY <3>1, NumberTypes, Numbers DEF LeaseInv
  <2> HIDE DEF s, a
  <2>4. CASE call[c].at = "none"
    BY <2>2, <2>4
  <2>5. CASE call[c].at # "none"
    <3>1. call'[c] = [call[c] EXCEPT !.age = a, !.stamp = s]
      BY <2>2, <2>5
    <3>2. /\ call'[c].at = call[c].at /\ call'[c].seen = call[c].seen
          /\ call'[c].age = a /\ call'[c].stamp = s
      BY ONLY <2>1, <3>1 DEF CallType
    <3> QED
      BY <2>1, <2>3, <3>2
  <2> QED
    BY <2>4, <2>5
<1>2. /\ UNCHANGED <<holder, up, role>>
      /\ \A p \in Pods : timer'[p] = IF up[p] = "up" THEN timer[p] - 1 ELSE timer[p]
  BY DEF Tick
<1>3. renewed' <= renewed + 1 /\ renewed' \in Nat
  <2>1. renewed' = renewed \/ renewed' = Older(renewed, Old)
    BY DEF Tick
  <2> QED
    BY <2>1, NumberTypes DEF LeaseInv, Older
<1>4. OneCall'
  BY <1>1 DEF Timed, OneCall
<1>5. CallAges'
  <2> SUFFICES ASSUME NEW c \in Slots, call'[c].at # "none"
               PROVE  /\ call'[c].age <= Latency /\ up'[c[1]] # "down"
                      /\ up'[c[1]] = "up" => call'[c].age + timer'[c[1]] = Interval
                      /\ call'[c].at \in {"create", "renew", "acquire"} => call'[c].stamp <= call'[c].age
                      /\ call'[c].at = "written" => holder' = c[1] /\ renewed' <= call'[c].age
    BY DEF CallAges
  <2>1. /\ call[c].age <= Latency /\ up[c[1]] # "down"
        /\ up[c[1]] = "up" => call[c].age + timer[c[1]] = Interval
        /\ call[c].at \in {"create", "renew", "acquire"} => call[c].stamp <= call[c].age
        /\ call[c].at = "written" => holder = c[1] /\ renewed <= call[c].age
    BY <1>1 DEF Timed, CallAges
  <2>2. call'[c].age <= Latency /\ up'[c[1]] # "down" /\ call'[c].age = call[c].age + 1
    BY <1>1, <1>2, <2>1, NumberTypes, Numbers DEF LeaseInv
  <2>3. ASSUME up'[c[1]] = "up" PROVE call'[c].age + timer'[c[1]] = Interval
    <3>1. timer'[c[1]] = timer[c[1]] - 1 /\ call[c].age + timer[c[1]] = Interval
      BY <1>2, <2>1, <2>3, SlotParts
    <3> QED
      BY <2>2, <3>1, NumberTypes, Numbers, SlotParts DEF LeaseInv
  <2>4. ASSUME call'[c].at \in {"create", "renew", "acquire"} PROVE call'[c].stamp <= call'[c].age
    <3>1. call'[c].stamp <= call[c].stamp + 1 /\ call[c].stamp <= call[c].age
      BY <1>1, <2>1, <2>4
    <3>2. call'[c].stamp \in Nat
      <4>1. call'[c] \in CallType
        BY TypeStep DEF LeaseInv, Next, TypeOK
      <4> QED
        BY <4>1, NumberTypes DEF LeaseInv
    <3> QED
      BY <2>2, <3>1, <3>2, NumberTypes DEF LeaseInv
  <2>5. ASSUME call'[c].at = "written" PROVE holder' = c[1] /\ renewed' <= call'[c].age
    BY <1>1, <1>2, <1>3, <2>1, <2>2, <2>5, NumberTypes DEF LeaseInv
  <2> QED
    BY <2>2, <2>3, <2>4, <2>5
<1>6. LeadersRenew'
  <2> SUFFICES ASSUME NEW p \in Pods, isLeader[p], up[p] # "stopped"
               PROVE  /\ up[p] = "up" /\ holder = p
                      /\ Idle(p) => renewed' + timer'[p] <= Interval + Latency
                      /\ \A d \in Slots : d[1] = p /\ call'[d].at # "none" =>
                           /\ renewed' <= Interval + Latency + call'[d].age
                           /\ call'[d].at \in {"read", "got", "renew", "refused", "written"}
                           /\ call'[d].at = "got" => call'[d].seen = p
    BY <1>1, <1>2 DEF LeadersRenew, Idle, role
  <2>1. /\ up[p] = "up" /\ holder = p
        /\ Idle(p) => renewed + timer[p] <= Interval + Latency
        /\ \A d \in Slots : d[1] = p /\ call[d].at # "none" =>
             /\ renewed <= Interval + Latency + call[d].age
             /\ call[d].at \in {"read", "got", "renew", "refused", "written"}
             /\ call[d].at = "got" => call[d].seen = p
    BY DEF Timed, LeadersRenew, Idle
  <2>2. timer'[p] = timer[p] - 1
    BY <1>2, <2>1
  <2>3. Idle(p) => renewed' + timer'[p] <= Interval + Latency
    BY <1>3, <2>1, <2>2, NumberTypes, Numbers DEF LeaseInv
  <2>4. ASSUME NEW d \in Slots, d[1] = p, call'[d].at # "none"
        PROVE  renewed' <= Interval + Latency + call'[d].age
    BY <1>1, <1>3, <2>1, <2>4, NumberTypes, Numbers DEF LeaseInv
  <2> QED
    BY <1>1, <2>1, <2>3, <2>4
<1> QED
  BY <1>4, <1>5, <1>6 DEF Timed

\* A new call of a pod that has none
LEMMA CallBegins ==
    ASSUME LeaseInv, Timed, NEW p \in Pods, Idle(p),
           UNCHANGED <<lease, role>>,
           \A d \in Slots : call'[d] \in {call[d], NewCall},
           \A d \in Slots : call'[d] # call[d] => d[1] = p,
           \A c, d \in Slots : call'[c] # call[c] /\ call'[d] # call[d] => c = d,
           \A q \in Pods \ {p} : up'[q] = up[q] /\ timer'[q] = timer[q],
           \/ up'[p] = "starting" /\ ~isLeader[p]
           \/ up'[p] = "up" /\ up[p] = "up" /\ timer[p] = 0 /\ timer'[p] = Interval /\ ~Idle(p)'
    PROVE  Timed'
<1>1. \A d \in Slots : call'[d].at # "none" =>
        \/ d[1] # p /\ call'[d] = call[d] /\ up'[d[1]] = up[d[1]] /\ timer'[d[1]] = timer[d[1]]
        \/ d[1] = p /\ call'[d] # call[d] /\ call'[d].at = "read" /\ call'[d].age = 0
  BY Calls, SlotParts DEF Idle
<1>2. UNCHANGED <<holder, renewed, isLeader>>
  BY DEF lease, role
<1>3. OneCall'
  BY <1>1 DEF Timed, OneCall
<1>4. CallAges'
  <2> SUFFICES ASSUME NEW d \in Slots, call'[d].at # "none"
               PROVE  /\ call'[d].age <= Latency /\ up'[d[1]] # "down"
                      /\ up'[d[1]] = "up" => call'[d].age + timer'[d[1]] = Interval
                      /\ call'[d].at \in {"create", "renew", "acquire"} => call'[d].stamp <= call'[d].age
                      /\ call'[d].at = "written" => holder' = d[1] /\ renewed' <= call'[d].age
    BY DEF CallAges
  <2>1. CASE d[1] # p
    BY <1>1, <1>2, <2>1 DEF Timed, CallAges
  <2>2. CASE d[1] = p
    BY <1>1, <2>2, Numbers
  <2> QED
    BY <2>1, <2>2
<1>5. LeadersRenew'
  <2> SUFFICES ASSUME NEW q \in Pods, isLeader[q], up'[q] # "stopped"
               PROVE  /\ up'[q] = "up" /\ holder = q
                      /\ Idle(q)' => renewed + timer'[q] <= Interval + Latency
                      /\ \A d \in Slots : d[1] = q /\ call'[d].at # "none" =>
                           /\ renewed <= Interval + Latency + call'[d].age
                           /\ call'[d].at \in {"read", "got", "renew", "refused", "written"}
                           /\ call'[d].at = "got" => call'[d].seen = q
    BY <1>2 DEF LeadersRenew, Idle
  <2>1. CASE q # p
    <3>1. up'[q] = up[q] /\ timer'[q] = timer[q] /\ \A d \in Slots : d[1] = q => call'[d] = call[d]
      BY <2>1
    <3> QED
      BY <3>1 DEF Timed, LeadersRenew, Idle
  <2>2. CASE q = p
    <3>1. up'[p] = "up" /\ up[p] = "up" /\ timer[p] = 0 /\ ~Idle(p)'
      BY <2>2
    <3>2. holder = p /\ renewed + 0 <= Interval + Latency
      BY <2>2, <3>1 DEF Timed, LeadersRenew, Idle
    <3>3. \A d \in Slots : d[1] = p /\ call'[d].at # "none" => call'[d].at = "read" /\ call'[d].age = 0
      BY <1>1
    <3> QED
      BY <2>2, <3>1, <3>2, <3>3, NumberTypes, Numbers DEF LeaseInv
  <2> QED
    BY <2>1, <2>2
<1> QED
  BY <1>3, <1>4, <1>5 DEF Timed

LEMMA TimelyStep ==
    ASSUME Latency < Interval, LeaseInv, Timely, [Next]_vars
    PROVE  Timely'
<1> SUFFICES ASSUME ~late' PROVE Timed'
  BY DEF Timely, Timed
<1>0. Timed /\ call \in [Slots -> CallType] /\ call' \in [Slots -> CallType]
  <2>1. ~late
    BY DEF Next, vars, Start, Fire, Stop, Exit, Tick, CallStep, ServerRead, ServerCreate, ServerRenew,
           ServerReplace, Write, ServerRefuse, Decide, Follow, BecomeLeader, Refresh, Fail, End
  <2> QED
    BY <2>1, TypeStep DEF Timely, Timed, LeaseInv, TypeOK
<1>1. ASSUME NEW p \in Pods, Start(p)
      PROVE  Timed'
  <2>1. up[p] = "down" /\ up' = [up EXCEPT ![p] = "starting"] /\ UNCHANGED <<lease, timer, role>>
        /\ call' = [call EXCEPT ![<<p, 1>>] = NewCall]
    BY <1>1 DEF Start
  <2>2. Idle(p)
    BY <1>0, <2>1 DEF Timed, CallAges, Idle
  <2>3. ~isLeader[p]
    BY <1>0, <2>1 DEF Timed, LeadersRenew
  <2>4. /\ \A d \in Slots : call'[d] \in {call[d], NewCall} /\ (call'[d] # call[d] => d = <<p, 1>>)
        /\ up'[p] = "starting" /\ \A q \in Pods \ {p} : up'[q] = up[q]
    BY <1>0, <2>1 DEF LeaseInv, TypeOK
  <2>5. \A d \in Slots : call'[d] # call[d] => d[1] = p
    BY <2>4
  <2> QED
    BY <1>0, <2>1, <2>2, <2>3, <2>4, <2>5, CallBegins
<1>2. ASSUME NEW p \in Pods, Fire(p)
      PROVE  Timed'
  <2>1. up[p] = "up" /\ timer[p] = 0 /\ timer' = [timer EXCEPT ![p] = Interval] /\ UNCHANGED <<lease, up, role>>
    BY <1>2 DEF Fire
  <2>2. Idle(p)
    <3> SUFFICES ASSUME NEW c \in Slots, c[1] = p, call[c].at # "none" PROVE FALSE
      BY DEF Idle
    <3>1. call[c].age <= Latency /\ call[c].age + 0 = Interval
      BY <1>0, <2>1 DEF Timed, CallAges
    <3> QED
      BY <3>1, NumberTypes, Numbers DEF LeaseInv
  <2>3. PICK i \in 1 .. MaxCalls : call' = [call EXCEPT ![<<p, i>>] = NewCall]
    <3>1. 1 \in 1 .. MaxCalls /\ <<p, 1>> \in Slots
      BY LeaseAssumption DEF Slots
    <3>2. call[<<p, 1>>].at = "none"
      BY <2>2, <3>1 DEF Idle
    <3> QED
      BY <1>2, <3>1, <3>2 DEF Fire
  <2>4. <<p, i>> \in Slots /\ <<p, i>>[1] = p
    BY DEF Slots
  <2> DEFINE c == <<p, i>>
  <2> HIDE DEF c
  <2>5. c \in Slots /\ c[1] = p /\ call' = [call EXCEPT ![c] = NewCall]
    BY <2>3, <2>4 DEF c
  <2>6. /\ \A d \in Slots : call'[d] \in {call[d], NewCall} /\ (call'[d] # call[d] => d = c)
        /\ call'[c].at = "read"
        /\ timer'[p] = Interval /\ \A q \in Pods \ {p} : timer'[q] = timer[q]
    BY <1>0, <2>1, <2>5, Calls DEF LeaseInv, TypeOK
  <2>7. ~Idle(p)'
    BY <2>5, <2>6 DEF Idle
  <2> QED
    BY <1>0, <2>1, <2>2, <2>5, <2>6, <2>7, CallBegins
<1>3. ASSUME NEW p \in Pods, Stop(p)
      PROVE  Timed'
  <2>1. /\ ~isLeader'[p] /\ up'[p] \in {"starting", "stopped"} /\ UNCHANGED <<holder, renewed, call>>
        /\ \A q \in Pods \ {p} : isLeader'[q] = isLeader[q] /\ up'[q] = up[q] /\ timer'[q] = timer[q]
    BY <1>3 DEF Stop, LeaseInv, TypeOK, lease
  <2>2. OneCall'
    BY <1>0, <2>1 DEF Timed, OneCall
  <2>3. CallAges'
    BY <1>0, <2>1, SlotParts DEF Timed, CallAges
  <2>4. LeadersRenew'
    BY <1>0, <2>1 DEF Timed, LeadersRenew
  <2> QED
    BY <2>2, <2>3, <2>4 DEF Timed
<1>4. ASSUME NEW p \in Pods, Exit(p)
      PROVE  Timed'
  <2>1. /\ ~isLeader'[p] /\ UNCHANGED <<holder, renewed>>
        /\ \A q \in Pods \ {p} : isLeader'[q] = isLeader[q] /\ up'[q] = up[q] /\ timer'[q] = timer[q]
        /\ \A c \in Slots : IF c[1] = p THEN call'[c].at = "none" ELSE call'[c] = call[c]
    BY <1>4, Calls DEF Exit, LeaseInv, TypeOK, lease
  <2>2. OneCall'
    BY <1>0, <2>1 DEF Timed, OneCall
  <2>3. CallAges'
    BY <1>0, <2>1, SlotParts DEF Timed, CallAges
  <2>4. LeadersRenew'
    BY <1>0, <2>1 DEF Timed, LeadersRenew
  <2> QED
    BY <2>2, <2>3, <2>4 DEF Timed
<1>5. ASSUME NEW c \in Slots, CallStep(c)
      PROVE  Timed'
  <2>0. c[1] \in Pods /\ call[c] \in CallType
    BY <1>0, SlotParts
  <2>1. CASE ServerRead(c)
    <3>1. /\ call[c].at = "read" /\ UNCHANGED <<lease, pods, role>>
          /\ call' = [call EXCEPT ![c] = [@ EXCEPT !.at = "got", !.fresh = TRUE, !.seen = holder,
                                                   !.stamp = renewed]]
      BY <2>1 DEF ServerRead
    <3>2. call'[c].at = "got" /\ call'[c].seen = holder /\ call'[c].age = call[c].age
      BY <1>0, <2>0, <3>1 DEF CallType
    <3>3. isLeader[c[1]] /\ up[c[1]] # "stopped" => holder = c[1]
      BY <1>0, <2>0 DEF Timed, LeadersRenew
    <3> QED
      BY <1>0, <3>1, <3>2, <3>3, CallGoesOn
  <2>2. CASE ServerCreate(c) \/ ServerRenew(c) \/ ServerReplace(c)
    BY <1>0, <2>2, WriteTimed DEF ServerCreate, ServerRenew, ServerReplace, LeaseInv, FreshCalls
  <2>3. CASE ServerRefuse(c)
    <3> DEFINE at == IF call[c].at = "acquire" THEN "refresh" ELSE "refused"
    <3>1. /\ call[c].at \in {"create", "renew", "acquire"} /\ UNCHANGED <<lease, pods, role>>
          /\ call' = [call EXCEPT ![c] = [NoCall EXCEPT !.at = at, !.age = call[c].age]]
      BY <2>3 DEF ServerRefuse
    <3>2. call'[c].at = at /\ call'[c].age = call[c].age
      BY <1>0, <3>1 DEF NoCall
    <3>3. isLeader[c[1]] /\ up[c[1]] # "stopped" => at = "refused"
      BY <1>0, <2>0, <3>1 DEF Timed, LeadersRenew
    <3> QED
      BY <1>0, <3>1, <3>2, <3>3, CallGoesOn
  <2>4. CASE Decide(c)
    <3>1. /\ call[c].at = "got" /\ UNCHANGED <<lease, pods, role>>
          /\ call' = [call EXCEPT ![c] = [@ EXCEPT !.at = Intent(c), !.seen = None, !.stamp = 0]]
          /\ Intent(c) \in {"create", "renew", "acquire"}
      BY <2>4, IntentTypes DEF Decide
    <3>2. call'[c].at = Intent(c) /\ call'[c].age = call[c].age /\ call'[c].stamp = 0
      BY <1>0, <2>0, <3>1 DEF CallType
    <3>3. isLeader[c[1]] /\ up[c[1]] # "stopped" => Intent(c) = "renew"
      <4>1. isLeader[c[1]] /\ up[c[1]] # "stopped" => call[c].seen = c[1]
        BY <1>0, <2>0, <3>1 DEF Timed, LeadersRenew
      <4> QED
        BY <2>0, <4>1, Numbers DEF Intent
    <3> QED
      BY <1>0, <3>1, <3>2, <3>3, CallGoesOn, NumberTypes, Numbers DEF LeaseInv
  <2>5. CASE Follow(c)
    <3>1. call[c].at = "got" /\ End(c) /\ isLeader' = [isLeader EXCEPT ![c[1]] = FALSE]
      BY <2>5 DEF Follow, SetFollower
    <3> QED
      BY <1>0, <2>0, <3>1, CallEnds DEF LeaseInv, TypeOK
  <2>6. CASE BecomeLeader(c)
    <3>1. call[c].at = "written" /\ End(c) /\ isLeader' = [isLeader EXCEPT ![c[1]] = TRUE]
      BY <2>6 DEF BecomeLeader
    <3> QED
      BY <1>0, <2>0, <3>1, CallEnds DEF LeaseInv, TypeOK
  <2>7. CASE Refresh(c)
    <3>1. call[c].at = "refresh" /\ End(c)
          /\ (isLeader' = [isLeader EXCEPT ![c[1]] = FALSE] \/ isLeader' = isLeader)
      BY <2>7 DEF Refresh, SetFollower, role
    <3> QED
      BY <1>0, <2>0, <3>1, CallEnds DEF LeaseInv, TypeOK
  <2>8. CASE Fail(c)
    <3>1. call[c].at # "none" /\ End(c)
          /\ isLeader' = IF call[c].at = "refresh" THEN isLeader ELSE [isLeader EXCEPT ![c[1]] = FALSE]
      BY <2>8 DEF Fail
    <3> QED
      BY <1>0, <2>0, <3>1, CallEnds DEF LeaseInv, TypeOK
  <2> QED
    BY <1>5, <2>1, <2>2, <2>3, <2>4, <2>5, <2>6, <2>7, <2>8 DEF CallStep
<1>6. CASE UNCHANGED vars
  BY <1>0, <1>6 DEF vars, lease, pods, role, Timed, OneCall, CallAges, LeadersRenew
<1> QED
  BY <1>0, <1>1, <1>2, <1>3, <1>4, <1>5, <1>6, TickTimed DEF Next

\* While no request is slow, at most one pod that has not been stopped leads,
\* with calls that fail, answers that are lost, restarts and a lease that changes
\* hands.
THEOREM SingleLeader ==
    ASSUME Latency < Interval
    PROVE  Spec => []AtMostOneLeader
<1>1. Init => Timely
  BY Calls DEF Init, Timely, OneCall, CallAges, LeadersRenew
<1>2. LeaseInv /\ Timely /\ [Next]_vars => Timely'
  BY TimelyStep
<1>3. Timely => AtMostOneLeader
  BY DEF Timely, LeadersRenew, AtMostOneLeader
<1> QED
  BY LeaseInvInit, LeaseInvStep, <1>1, <1>2, <1>3, PTL DEF Spec
==============================================================================
