--------------------------- MODULE KvAdmission_proof ---------------------------
(* Proofs about the admission controller, for every set of requests, instances,
   quotas and limits. *)
EXTENDS KvAdmission, FiniteSetTheorems, TLAPS

-----------------------------------------------------------------------------
(* Sums, as numbers of units *)

\* A unit of a sum belongs to one element
LEMMA InUnits ==
    ASSUME NEW f, NEW S
    PROVE  \A u : u \in Units(f, S) <=> \E x \in S : u \in {x} \X (1 .. f[x])
BY DEF Units

LEMMA OneShare ==
    ASSUME NEW x, NEW n \in Nat
    PROVE  IsFiniteSet({x} \X (1 .. n)) /\ Cardinality({x} \X (1 .. n)) = n
<1>1. IsFiniteSet(1 .. n) /\ Cardinality(1 .. n) = n
  <2>1. 1 \in Int /\ n \in Int
    OBVIOUS
  <2> QED
    BY <2>1, FS_Interval
<1>2. IsFiniteSet({x}) /\ Cardinality({x}) = 1
  BY FS_Singleton
<1>3. IsFiniteSet({x} \X (1 .. n)) /\ Cardinality({x} \X (1 .. n)) = Cardinality({x}) * Cardinality(1 .. n)
  BY <1>1, <1>2, FS_Product
<1> QED
  BY <1>1, <1>2, <1>3

LEMMA SumIsNat ==
    ASSUME NEW S, IsFiniteSet(S), NEW f, \A x \in S : f[x] \in Nat
    PROVE  IsFiniteSet(Units(f, S)) /\ SumOf(f, S) \in Nat
<1> DEFINE g == [x \in S |-> {x} \X (1 .. f[x])]
           T == {{x} \X (1 .. f[x]) : x \in S}
<1>1. g \in Surjection(S, T)
  BY DEF Surjection
<1>2. IsFiniteSet(T)
  BY <1>1, FS_Surjection
<1>3. ASSUME NEW t \in T PROVE IsFiniteSet(t)
  <2>1. PICK x \in S : t = {x} \X (1 .. f[x])
    OBVIOUS
  <2>2. IsFiniteSet({x} \X (1 .. f[x]))
    BY OneShare
  <2> QED
    BY <2>1, <2>2
<1>4. IsFiniteSet(UNION T)
  BY <1>2, <1>3, FS_UNION
<1> QED
  BY <1>4, FS_CardinalityType DEF Units, SumOf

LEMMA SumEmpty == \A f : SumOf(f, {}) = 0
BY FS_EmptySet DEF SumOf, Units

\* One more element
LEMMA SumAdd ==
    ASSUME NEW S, IsFiniteSet(S), NEW x, x \notin S, NEW f, \A y \in S \cup {x} : f[y] \in Nat
    PROVE  SumOf(f, S \cup {x}) = SumOf(f, S) + f[x]
<1> DEFINE share == {x} \X (1 .. f[x])
<1>1. IsFiniteSet(share) /\ Cardinality(share) = f[x]
  BY OneShare
<1>2. IsFiniteSet(Units(f, S)) /\ SumOf(f, S) \in Nat
  BY SumIsNat
<1>3. Units(f, S \cup {x}) = Units(f, S) \cup share
  BY InUnits
<1>4. Units(f, S) \cap share = {}
  BY InUnits
<1>5. Cardinality(Units(f, S) \cup share)
        = Cardinality(Units(f, S)) + Cardinality(share) - Cardinality(Units(f, S) \cap share)
  BY <1>1, <1>2, FS_Union
<1>6. Cardinality({}) = 0
  BY FS_EmptySet
<1>7. Cardinality(Units(f, S)) \in Nat /\ f[x] \in Nat
  BY <1>2 DEF SumOf
<1>8. Cardinality(Units(f, S) \cup share) = Cardinality(Units(f, S)) + f[x]
  <2>1. Cardinality(Units(f, S) \cap share) = 0
    BY <1>4, <1>6
  <2> HIDE DEF share
  <2> QED
    BY <1>1, <1>5, <1>7, <2>1
<1> QED
  BY <1>3, <1>8 DEF SumOf

\* Fewer elements
LEMMA SumGrows ==
    ASSUME NEW S, IsFiniteSet(S), NEW f, \A x \in S : f[x] \in Nat, NEW T \in SUBSET S
    PROVE  SumOf(f, T) <= SumOf(f, S)
<1>1. IsFiniteSet(Units(f, S))
  BY SumIsNat
<1>2. Units(f, T) \subseteq Units(f, S)
  BY InUnits
<1> QED
  BY <1>1, <1>2, FS_Subset DEF SumOf

LEMMA SumSame ==
    ASSUME NEW S, NEW f, NEW g, \A x \in S : f[x] = g[x]
    PROVE  SumOf(f, S) = SumOf(g, S)
<1>1. Units(f, S) = Units(g, S)
  <2>1. \A u : \A x \in S : u \in {x} \X (1 .. f[x]) <=> u \in {x} \X (1 .. g[x])
    OBVIOUS
  <2>2. \A u : u \in Units(f, S) <=> \E x \in S : u \in {x} \X (1 .. f[x])
    BY InUnits
  <2>3. \A u : u \in Units(g, S) <=> \E x \in S : u \in {x} \X (1 .. g[x])
    BY InUnits
  <2> QED
    BY <2>1, <2>2, <2>3
<1> QED
  BY <1>1 DEF SumOf

\* Fewer elements of the same size
LEMMA SmallerSum ==
    ASSUME NEW S, IsFiniteSet(S), NEW f, \A x \in S : f[x] \in Nat,
           NEW T \in SUBSET S, NEW g, \A x \in T : g[x] = f[x]
    PROVE  SumOf(g, T) <= SumOf(f, S) /\ SumOf(g, T) \in Nat /\ SumOf(f, S) \in Nat
<1>1. IsFiniteSet(T) /\ \A x \in T : f[x] \in Nat
  BY FS_Subset
<1>2. SumOf(f, T) \in Nat /\ SumOf(f, S) \in Nat
  BY <1>1, SumIsNat
<1>3. SumOf(f, T) <= SumOf(f, S)
  BY SumGrows
<1>4. SumOf(g, T) = SumOf(f, T)
  BY SumSame
<1> QED
  BY <1>2, <1>3, <1>4

-----------------------------------------------------------------------------
(* Types *)

USE QuotasAssumption, FinitenessAssumption

\* Instances is not empty in any state a request lives in; the default target
\* of a request that is not there must be one of them.
LEMMA AnyIsInstance ==
    ASSUME Instances # {}
    PROVE  AnyInstance \in Instances
  BY DEF AnyInstance

\* Type correctness: whatever is requested, refused, expired or dropped, every
\* request keeps a target and an estimate of the right kind.
THEOREM TypeCorrect ==
    ASSUME Instances # {}
    PROVE  Spec => []TypeOK
<1> USE DEF TypeOK
<1>1. Init => TypeOK
  BY AnyIsInstance DEF Init
<1>2. TypeOK /\ [Next]_vars => TypeOK'
  <2> SUFFICES ASSUME TypeOK, [Next]_vars PROVE TypeOK'
    OBVIOUS
  <2>1. ASSUME NEW q \in Requests, Arrive(q) PROVE TypeOK'
    BY <2>1 DEF Arrive, Enter, storeVars
  <2>2. ASSUME NEW q \in Requests, Admit(q) PROVE TypeOK'
    BY <2>2 DEF Admit, Enter, storeVars
  <2>3. ASSUME NEW q \in Requests, Deadline(q) PROVE TypeOK'
    BY <2>3 DEF Deadline, storeVars
  <2>4. ASSUME NEW q \in Requests, Refuse(q) PROVE TypeOK'
    BY <2>4, AnyIsInstance DEF Refuse, Leave, Enter, storeVars
  <2>5. ASSUME NEW q \in Requests, Forward(q) PROVE TypeOK'
    BY <2>5 DEF Forward, Enter, storeVars
  <2>6. ASSUME NEW q \in Requests, End(q) PROVE TypeOK'
    BY <2>6, AnyIsInstance DEF End, Leave, Enter, storeVars
  <2>7. ASSUME NEW q \in Requests, Age(q) PROVE TypeOK'
    BY <2>7 DEF Age, storeVars, requestVars
  <2>8. CASE Snapshot
    BY <2>8 DEF Snapshot, storeVars, requestVars
  <2>9. ASSUME NEW i \in Instances, Fail(i) \/ Sleep(i) \/ Wake(i) \/ SetRoutable(i) PROVE TypeOK'
    BY <2>9 DEF Fail, Sleep, Wake, SetRoutable, requestVars
  <2>10. CASE UNCHANGED vars
    BY <2>10 DEF vars, storeVars, requestVars
  <2> QED
    BY <2>1, <2>2, <2>3, <2>4, <2>5, <2>6, <2>7, <2>8, <2>9, <2>10 DEF Next, Progress
<1> QED
  BY <1>1, <1>2, PTL DEF Spec

-----------------------------------------------------------------------------
\* No reservation outlives its request: a reservation is created by the step
\* that lets the request in, and the two steps that take a request out of the
\* system either find it without a reservation or release it.
THEOREM NoReservationLeaks ==
    ASSUME Instances # {}
    PROVE  Spec => []NoLeak
<1>1. Init => NoLeak
  BY DEF Init, NoLeak
<1>2. TypeOK /\ NoLeak /\ [Next]_vars => NoLeak'
  <2> SUFFICES ASSUME TypeOK, NoLeak, [Next]_vars PROVE NoLeak'
    OBVIOUS
  <2> USE DEF TypeOK, NoLeak
  <2>1. ASSUME NEW q \in Requests, Arrive(q) PROVE NoLeak'
    BY <2>1 DEF Arrive, Enter
  <2>2. ASSUME NEW q \in Requests, Admit(q) PROVE NoLeak'
    BY <2>2 DEF Admit, Enter
  <2>3. ASSUME NEW q \in Requests, Deadline(q) \/ Age(q) PROVE NoLeak'
    BY <2>3 DEF Deadline, Age, requestVars
  <2>4. ASSUME NEW q \in Requests, Refuse(q) PROVE NoLeak'
    BY <2>4 DEF Refuse, Leave, Enter
  <2>5. ASSUME NEW q \in Requests, Forward(q) PROVE NoLeak'
    BY <2>5 DEF Forward, Enter
  <2>6. ASSUME NEW q \in Requests, End(q) PROVE NoLeak'
    BY <2>6 DEF End, Leave, Enter
  <2>7. CASE Snapshot
    BY <2>7 DEF Snapshot, requestVars
  <2>8. ASSUME NEW i \in Instances, Fail(i) \/ Sleep(i) \/ Wake(i) \/ SetRoutable(i) PROVE NoLeak'
    BY <2>8 DEF Fail, Sleep, Wake, SetRoutable, requestVars
  <2>9. CASE UNCHANGED vars
    BY <2>9 DEF vars, requestVars
  <2> QED
    BY <2>1, <2>2, <2>3, <2>4, <2>5, <2>6, <2>7, <2>8, <2>9 DEF Next, Progress
<1> QED
  BY <1>1, <1>2, TypeCorrect, PTL DEF Spec

-----------------------------------------------------------------------------
(* What the controller knows.  Held connects its reservations with the requests:
   a live request whose reservation has not expired has one. *)

Held == Occupying \ aged \subseteq reserved

\* Any step but an admission drops reservations or leaves them alone, and does
\* not touch the requests that keep theirs.
Drops ==
    /\ reserved' \subseteq reserved
    /\ \A q \in reserved' : target'[q] = target[q] /\ size'[q] = size[q]

LEMMA AdmitsOrDrops ==
    ASSUME TypeOK, NoLeak, [Next]_vars
    PROVE  Drops \/ \E q \in Requests : Admit(q)
<1> USE DEF Drops, TypeOK, NoLeak
<1>1. ASSUME NEW q \in Requests, Arrive(q) PROVE Drops
  <2>1. q \notin reserved /\ reserved' \subseteq reserved
    BY <1>1 DEF Arrive
  <2>2. PICK i, estimate : target' = [target EXCEPT ![q] = i] /\ size' = [size EXCEPT ![q] = estimate]
    BY <1>1 DEF Arrive
  <2> QED
    BY <2>1, <2>2
<1>2. ASSUME NEW q \in Requests, Refuse(q) \/ End(q) PROVE Drops
  <2>1. q \notin reserved' /\ reserved' \subseteq reserved
    BY <1>2 DEF Refuse, End
  <2>2. target' = [target EXCEPT ![q] = AnyInstance] /\ size' = [size EXCEPT ![q] = 0]
    BY <1>2 DEF Refuse, End, Leave
  <2> QED
    BY <2>1, <2>2
<1>3. ASSUME NEW q \in Requests, Deadline(q) \/ Forward(q) \/ Age(q) PROVE Drops
  BY <1>3 DEF Deadline, Forward, Age, requestVars
<1>4. ASSUME NEW i \in Instances, Fail(i) \/ Sleep(i) \/ Wake(i) \/ SetRoutable(i) PROVE Drops
  BY <1>4 DEF Fail, Sleep, Wake, SetRoutable, requestVars
<1>5. CASE Snapshot \/ UNCHANGED vars
  BY <1>5 DEF Snapshot, vars, requestVars
<1> QED
  BY <1>1, <1>2, <1>3, <1>4, <1>5 DEF Next, Progress

LEMMA HeldStep ==
    ASSUME TypeOK, Held, [Next]_vars
    PROVE  Held'
<1> USE DEF Held, Occupying, TypeOK
<1>1. ASSUME NEW q \in Requests, Arrive(q) PROVE Held'
  BY <1>1 DEF Arrive, Enter, storeVars
<1>2. ASSUME NEW q \in Requests, Admit(q) PROVE Held'
  BY <1>2 DEF Admit, Enter, storeVars
<1>3. ASSUME NEW q \in Requests, Deadline(q) \/ Forward(q) \/ Age(q) PROVE Held'
  BY <1>3 DEF Deadline, Forward, Age, Enter, storeVars, requestVars
<1>4. ASSUME NEW q \in Requests, Refuse(q) \/ End(q) PROVE Held'
  BY <1>4 DEF Refuse, End, Leave, Enter, storeVars
<1>5. CASE Snapshot
  BY <1>5 DEF Snapshot, storeVars, requestVars
<1>6. ASSUME NEW i \in Instances, Fail(i) PROVE Held'
  BY <1>6 DEF Fail, ofInstance, requestVars
<1>7. ASSUME NEW i \in Instances, Sleep(i) \/ Wake(i) \/ SetRoutable(i) PROVE Held'
  BY <1>7 DEF Sleep, Wake, SetRoutable, requestVars
<1>8. CASE UNCHANGED vars
  BY <1>8 DEF vars, storeVars, requestVars
<1> QED
  BY <1>1, <1>2, <1>3, <1>4, <1>5, <1>6, <1>7, <1>8 DEF Next, Progress

LEMMA ReservationsCover ==
    ASSUME Instances # {}
    PROVE  Spec => []Held
<1>1. Init => Held
  BY DEF Init, Held, Occupying
<1>2. TypeOK /\ Held /\ [Next]_vars => Held'
  BY HeldStep
<1> QED
  BY <1>1, <1>2, TypeCorrect, PTL DEF Spec

-----------------------------------------------------------------------------
(* The limits on requests in flight.  The controller counts reservations; the
   property is about requests. *)

LEMMA LimitsAreNumbers == MaxInstanceInflight \in Nat /\ MaxGroupInflight \in Nat
  BY QuotasAssumption

\* The counts of the controller respect the limits.
CountsBounded ==
    /\ MaxInstanceInflight > 0 =>
           \A i \in Instances : Cardinality(ofInstance(i)) <= MaxInstanceInflight
    /\ MaxGroupInflight > 0 =>
           \A i \in Instances : Cardinality(ofGroup(Group[i])) <= MaxGroupInflight

\* Every set of requests is finite.
LEMMA RequestsFinite ==
    ASSUME NEW S \in SUBSET Requests
    PROVE  IsFiniteSet(S) /\ Cardinality(S) \in Nat
  BY FS_Subset, FS_CardinalityType

\* Dropping reservations keeps the counts within the limits.
LEMMA FewerReservations ==
    ASSUME TypeOK, CountsBounded, Drops
    PROVE  CountsBounded'
<1>0. reserved' \subseteq reserved /\ \A q \in reserved' : target'[q] = target[q]
  BY DEF Drops
<1>1. ASSUME NEW i \in Instances
      PROVE  Cardinality(ofInstance(i)') <= Cardinality(ofInstance(i))
  <2>1. ofInstance(i)' \subseteq ofInstance(i) /\ ofInstance(i) \subseteq Requests
    BY <1>0 DEF ofInstance, TypeOK
  <2> QED
    BY <2>1, RequestsFinite, FS_Subset
<1>2. ASSUME NEW i \in Instances
      PROVE  Cardinality(ofGroup(Group[i])') <= Cardinality(ofGroup(Group[i]))
  <2>1. ofGroup(Group[i])' \subseteq ofGroup(Group[i]) /\ ofGroup(Group[i]) \subseteq Requests
    BY <1>0 DEF ofGroup, TypeOK
  <2> QED
    BY <2>1, RequestsFinite, FS_Subset
<1>3. \A i \in Instances :
         /\ Cardinality(ofInstance(i)) \in Nat /\ Cardinality(ofInstance(i)') \in Nat
         /\ Cardinality(ofGroup(Group[i])) \in Nat /\ Cardinality(ofGroup(Group[i])') \in Nat
  BY <1>0, RequestsFinite DEF ofInstance, ofGroup, TypeOK
<1> QED
  BY <1>1, <1>2, <1>3 DEF CountsBounded

\* tryAcquire checks the limits before it adds a reservation.
LEMMA OneMoreReservation ==
    ASSUME TypeOK, CountsBounded, NEW q \in Requests, Admit(q)
    PROVE  CountsBounded'
<1>1. ASSUME NEW i \in Instances, MaxInstanceInflight > 0
      PROVE  Cardinality(ofInstance(i)') <= MaxInstanceInflight
  <2>1. IsFiniteSet(ofInstance(i)) /\ Cardinality(ofInstance(i)) \in Nat
    BY RequestsFinite DEF ofInstance, TypeOK
  <2>2. CASE target[q] = i
    <3>1. ofInstance(i)' = ofInstance(i) \cup {q}
      BY <2>2 DEF ofInstance, Admit, TypeOK
    <3>2. Cardinality(ofInstance(i) \cup {q}) \in {Cardinality(ofInstance(i)), Cardinality(ofInstance(i)) + 1}
      BY <2>1, FS_AddElement
    <3>3. Cardinality(ofInstance(i)) < MaxInstanceInflight
      BY <1>1, <2>2 DEF Admit, InflightOk
    <3> QED
      BY <2>1, <3>1, <3>2, <3>3, LimitsAreNumbers
  <2>3. CASE target[q] # i
    <3>1. ofInstance(i)' = ofInstance(i)
      BY <2>3 DEF ofInstance, Admit, TypeOK
    <3> QED
      BY <1>1, <3>1 DEF CountsBounded
  <2> QED
    BY <2>2, <2>3
<1>2. ASSUME NEW i \in Instances, MaxGroupInflight > 0
      PROVE  Cardinality(ofGroup(Group[i])') <= MaxGroupInflight
  <2>1. IsFiniteSet(ofGroup(Group[i])) /\ Cardinality(ofGroup(Group[i])) \in Nat
    BY RequestsFinite DEF ofGroup, TypeOK
  <2>2. CASE Group[target[q]] = Group[i]
    <3>1. ofGroup(Group[i])' = ofGroup(Group[i]) \cup {q}
      BY <2>2 DEF ofGroup, Admit, TypeOK
    <3>2. Cardinality(ofGroup(Group[i]) \cup {q}) \in {Cardinality(ofGroup(Group[i])), Cardinality(ofGroup(Group[i])) + 1}
      BY <2>1, FS_AddElement
    <3>3. Cardinality(ofGroup(Group[i])) < MaxGroupInflight
      BY <1>2, <2>2 DEF Admit, InflightOk
    <3> QED
      BY <2>1, <3>1, <3>2, <3>3, LimitsAreNumbers
  <2>3. CASE Group[target[q]] # Group[i]
    <3>1. ofGroup(Group[i])' = ofGroup(Group[i])
      BY <2>3 DEF ofGroup, Admit, TypeOK
    <3> QED
      BY <1>2, <3>1 DEF CountsBounded
  <2> QED
    BY <2>2, <2>3
<1> QED
  BY <1>1, <1>2 DEF CountsBounded

\* The requests that are really being served respect the limits on requests in
\* flight: expiry, failures and late admissions never let one more in.
THEOREM InflightLimits ==
    ASSUME Instances # {}
    PROVE  Spec => []InflightBounded
<1>1. Init => CountsBounded
  <2> SUFFICES ASSUME Init PROVE CountsBounded
    OBVIOUS
  <2>1. \A i \in Instances : ofInstance(i) = {} /\ ofGroup(Group[i]) = {}
    BY DEF Init, ofInstance, ofGroup
  <2>2. \A i \in Instances : Cardinality(ofInstance(i)) = 0 /\ Cardinality(ofGroup(Group[i])) = 0
    BY <2>1, FS_EmptySet
  <2> QED
    BY <2>2, LimitsAreNumbers DEF CountsBounded
<1>2. TypeOK /\ NoLeak /\ CountsBounded /\ [Next]_vars => CountsBounded'
  BY AdmitsOrDrops, FewerReservations, OneMoreReservation
<1>3. TypeOK /\ Held /\ CountsBounded => InflightBounded
  <2> SUFFICES ASSUME TypeOK, Held, CountsBounded, NEW i \in Instances
               PROVE  /\ MaxInstanceInflight > 0 =>
                            Cardinality({q \in Occupying \ aged : target[q] = i}) <= MaxInstanceInflight
                      /\ MaxGroupInflight > 0 =>
                            Cardinality({q \in Occupying \ aged : Group[target[q]] = Group[i]}) <= MaxGroupInflight
    BY DEF InflightBounded
  <2> DEFINE onInstance == {q \in Occupying \ aged : target[q] = i}
             inGroup    == {q \in Occupying \ aged : Group[target[q]] = Group[i]}
  <2>1. /\ ofInstance(i) \subseteq Requests /\ onInstance \subseteq ofInstance(i)
        /\ ofGroup(Group[i]) \subseteq Requests /\ inGroup \subseteq ofGroup(Group[i])
    BY DEF ofInstance, ofGroup, Held, TypeOK
  <2>2. Cardinality(onInstance) <= Cardinality(ofInstance(i))
    BY <2>1, RequestsFinite, FS_Subset
  <2>3. Cardinality(inGroup) <= Cardinality(ofGroup(Group[i]))
    BY <2>1, RequestsFinite, FS_Subset
  <2>4. /\ Cardinality(onInstance) \in Nat /\ Cardinality(ofInstance(i)) \in Nat
        /\ Cardinality(inGroup) \in Nat /\ Cardinality(ofGroup(Group[i])) \in Nat
    BY <2>1, RequestsFinite
  <2> QED
    BY <2>2, <2>3, <2>4 DEF CountsBounded
<1> QED
  BY <1>1, <1>2, <1>3, TypeCorrect, NoReservationLeaks, ReservationsCover, PTL DEF Spec

-----------------------------------------------------------------------------
(* Memory *)

LEMMA MinOfTwo ==
    ASSUME NEW a \in Int, NEW b \in Int
    PROVE  Min({a, b}) = IF a <= b THEN a ELSE b
<1>1. \A x \in {a, b} : (\A y \in {a, b} : x <= y) <=> x = IF a <= b THEN a ELSE b
  OBVIOUS
<1>2. (IF a <= b THEN a ELSE b) \in {a, b}
  OBVIOUS
<1> QED
  BY <1>1, <1>2 DEF Min

LEMMA MaxOfTwo ==
    ASSUME NEW a \in Int, NEW b \in Int
    PROVE  Max({a, b}) = IF a >= b THEN a ELSE b
<1>1. \A x \in {a, b} : (\A y \in {a, b} : x >= y) <=> x = IF a >= b THEN a ELSE b
  OBVIOUS
<1>2. (IF a >= b THEN a ELSE b) \in {a, b}
  OBVIOUS
<1> QED
  BY <1>1, <1>2 DEF Max

LEMMA QuotasAreNumbers ==
    /\ \A i \in Instances : MinGuarantee[i] \in Nat /\ SoftLimit[i] \in Nat /\ HardLimit[i] \in Nat
    /\ PoolCapacity \in Nat /\ SafeLimit \in Nat /\ GlobalReserved \in Nat
    /\ Estimates \subseteq Nat
<1>1. MinGuarantee \in [Instances -> Nat] /\ SoftLimit \in [Instances -> Nat] /\ HardLimit \in [Instances -> Nat]
  BY QuotasAssumption
<1> QED
  BY <1>1, QuotasAssumption

LEMMA GlobalLimitIsInt ==
    /\ GlobalLimit \in Int
    /\ GlobalReserved <= PoolCapacity => GlobalLimit \in Nat
<1>1. SafeLimit \in Nat /\ PoolCapacity \in Nat /\ GlobalReserved \in Nat
  BY QuotasAreNumbers
<1>2. SafeLimit \in Int /\ PoolCapacity - GlobalReserved \in Int
  BY <1>1
<1>3. GlobalLimit = IF SafeLimit <= PoolCapacity - GlobalReserved THEN SafeLimit ELSE PoolCapacity - GlobalReserved
  BY <1>2, MinOfTwo DEF GlobalLimit
<1> QED
  BY <1>1, <1>3

LEMMA SizesAreNumbers ==
    ASSUME TypeOK
    PROVE  /\ \A q \in Requests : size[q] \in Nat
           /\ \A S \in SUBSET Requests : Total(S) \in Nat
<1>1. \A q \in Requests : size[q] \in Nat
  BY QuotasAreNumbers DEF TypeOK
<1>2. ASSUME NEW S \in SUBSET Requests PROVE SumOf(size, S) \in Nat
  BY <1>1, RequestsFinite, SumIsNat
<1> QED
  BY <1>1, <1>2 DEF Total

\* What the reservations add up to respects the limits.
MemoryBounded ==
    /\ \A i \in Instances : activeForInstance(i) <= HardLimit[i]
    /\ \A g \in Groups : activeForGroup(g) <= GlobalLimit

LEMMA DropsKeepBounds ==
    ASSUME TypeOK, MemoryBounded, Drops
    PROVE  MemoryBounded'
<1>1. \A q \in Requests : size[q] \in Nat
  BY SizesAreNumbers
<1>2. ASSUME NEW S \in SUBSET reserved, NEW T \in SUBSET (S \cap reserved')
      PROVE  SumOf(size', T) <= SumOf(size, S) /\ SumOf(size', T) \in Nat /\ SumOf(size, S) \in Nat
  <2>1. IsFiniteSet(S) /\ T \in SUBSET S /\ \A q \in S : size[q] \in Nat
    BY <1>1, RequestsFinite DEF TypeOK
  <2>2. \A q \in T : size'[q] = size[q]
    BY DEF Drops
  <2> QED
    BY <2>1, <2>2, SmallerSum
<1>3. ASSUME NEW i \in Instances PROVE activeForInstance(i)' <= HardLimit[i]
  <2> DEFINE S == ofInstance(i)
             T == {q \in reserved' : target'[q] = i}
  <2>1. S \in SUBSET reserved /\ T \in SUBSET (S \cap reserved')
    BY DEF Drops, ofInstance
  <2>2. activeForInstance(i) = SumOf(size, S) /\ activeForInstance(i)' = SumOf(size', T)
    BY DEF activeForInstance, Total, ofInstance
  <2> HIDE DEF S, T
  <2>3. SumOf(size', T) <= SumOf(size, S) /\ SumOf(size', T) \in Nat /\ SumOf(size, S) \in Nat
    BY <1>2, <2>1
  <2>4. activeForInstance(i) <= HardLimit[i] /\ HardLimit[i] \in Nat
    BY QuotasAreNumbers DEF MemoryBounded
  <2> QED
    BY <2>2, <2>3, <2>4
<1>4. ASSUME NEW g \in Groups PROVE activeForGroup(g)' <= GlobalLimit
  <2> DEFINE S == ofGroup(g)
             T == {q \in reserved' : Group[target'[q]] = g}
  <2>1. S \in SUBSET reserved /\ T \in SUBSET (S \cap reserved')
    BY DEF Drops, ofGroup
  <2>2. activeForGroup(g) = SumOf(size, S) /\ activeForGroup(g)' = SumOf(size', T)
    BY DEF activeForGroup, Total, ofGroup
  <2> HIDE DEF S, T
  <2>3. SumOf(size', T) <= SumOf(size, S) /\ SumOf(size', T) \in Nat /\ SumOf(size, S) \in Nat
    BY <1>2, <2>1
  <2>4. activeForGroup(g) <= GlobalLimit /\ GlobalLimit \in Int
    BY GlobalLimitIsInt DEF MemoryBounded
  <2> QED
    BY <2>2, <2>3, <2>4
<1>5. Groups' = Groups /\ HardLimit' = HardLimit /\ GlobalLimit' = GlobalLimit
  BY DEF Groups, GlobalLimit
<1> QED
  BY <1>3, <1>4 DEF MemoryBounded, Groups, GlobalLimit

\* An admission adds the size of its request to its instance and its group.
LEMMA AdmissionAdds ==
    ASSUME TypeOK, NoLeak, NEW q \in Requests, Admit(q)
    PROVE  /\ \A i \in Instances : activeForInstance(i)' =
                IF target[q] = i THEN activeForInstance(i) + size[q] ELSE activeForInstance(i)
           /\ \A g \in Groups : activeForGroup(g)' =
                IF Group[target[q]] = g THEN activeForGroup(g) + size[q] ELSE activeForGroup(g)
<1>1. /\ q \notin reserved /\ reserved' = reserved \cup {q} /\ UNCHANGED <<target, size>>
      /\ \A r \in Requests : size[r] \in Nat
  BY SizesAreNumbers DEF Admit, NoLeak
<1>2. ASSUME NEW S \in SUBSET reserved PROVE SumOf(size, S \cup {q}) = SumOf(size, S) + size[q]
  <2>1. IsFiniteSet(S) /\ q \notin S /\ \A r \in S \cup {q} : size[r] \in Nat
    BY <1>1, RequestsFinite DEF TypeOK
  <2> QED
    BY <2>1, SumAdd
<1>3. ASSUME NEW i \in Instances
      PROVE  activeForInstance(i)' =
               IF target[q] = i THEN activeForInstance(i) + size[q] ELSE activeForInstance(i)
  <2> DEFINE S == ofInstance(i)
             T == {r \in reserved' : target'[r] = i}
  <2>1. S \in SUBSET reserved /\ T = IF target[q] = i THEN S \cup {q} ELSE S
    BY <1>1 DEF ofInstance
  <2>2. activeForInstance(i) = SumOf(size, S) /\ activeForInstance(i)' = SumOf(size', T)
    BY DEF activeForInstance, Total, ofInstance
  <2> HIDE DEF S, T
  <2> QED
    BY <1>1, <1>2, <2>1, <2>2
<1>4. ASSUME NEW g \in Groups
      PROVE  activeForGroup(g)' =
               IF Group[target[q]] = g THEN activeForGroup(g) + size[q] ELSE activeForGroup(g)
  <2> DEFINE S == ofGroup(g)
             T == {r \in reserved' : Group[target'[r]] = g}
  <2>1. S \in SUBSET reserved /\ T = IF Group[target[q]] = g THEN S \cup {q} ELSE S
    BY <1>1 DEF ofGroup
  <2>2. activeForGroup(g) = SumOf(size, S) /\ activeForGroup(g)' = SumOf(size', T)
    BY DEF activeForGroup, Total, ofGroup
  <2> HIDE DEF S, T
  <2> QED
    BY <1>1, <1>2, <2>1, <2>2
<1> QED
  BY <1>3, <1>4

LEMMA AdmissionKeepsBounds ==
    ASSUME TypeOK, NoLeak, MemoryBounded, NEW q \in Requests, Admit(q)
    PROVE  MemoryBounded'
<1>1. /\ activeForInstance(target[q]) + size[q] <= HardLimit[target[q]]
      /\ activeForGroup(Group[target[q]]) + size[q] <= GlobalLimit
  BY DEF Admit, MemoryOk
<1>2. \A i \in Instances : activeForInstance(i)' <= HardLimit[i]
  BY <1>1, AdmissionAdds DEF MemoryBounded
<1>3. \A g \in Groups : activeForGroup(g)' <= GlobalLimit
  BY <1>1, AdmissionAdds DEF MemoryBounded
<1> QED
  BY <1>2, <1>3 DEF MemoryBounded, Groups, GlobalLimit

(* No overcommit: whatever expires, fails, sleeps or arrives late, what the live
   requests may use stays within the safe limit of their GPU group and the hard
   limit of their instance.  (With more memory reserved than the pool has, the
   limit is negative and nothing is admitted.) *)
THEOREM MemoryIsNotOvercommitted ==
    ASSUME Instances # {}, GlobalReserved <= PoolCapacity
    PROVE  Spec => []NoOvercommit
<1>1. Init => MemoryBounded
  <2> SUFFICES ASSUME Init PROVE MemoryBounded
    OBVIOUS
  <2>1. /\ \A i \in Instances : ofInstance(i) = {}
        /\ \A g : ofGroup(g) = {}
    BY DEF Init, ofInstance, ofGroup
  <2>2. /\ \A i \in Instances : activeForInstance(i) = 0
        /\ \A g : activeForGroup(g) = 0
    BY <2>1, SumEmpty DEF activeForInstance, activeForGroup, Total
  <2>3. GlobalLimit \in Nat
    BY GlobalLimitIsInt
  <2> QED
    BY <2>2, <2>3, QuotasAreNumbers DEF MemoryBounded
<1>2. TypeOK /\ NoLeak /\ MemoryBounded /\ [Next]_vars => MemoryBounded'
  BY AdmitsOrDrops, DropsKeepBounds, AdmissionKeepsBounds
<1>3. TypeOK /\ Held /\ MemoryBounded => NoOvercommit
  <2> SUFFICES ASSUME TypeOK, Held, MemoryBounded PROVE NoOvercommit
    OBVIOUS
  <2>1. ASSUME NEW S \in SUBSET reserved, NEW T \in SUBSET S
        PROVE  Total(T) <= Total(S) /\ Total(T) \in Nat /\ Total(S) \in Nat
    <3>1. IsFiniteSet(S) /\ \A q \in S : size[q] \in Nat
      BY RequestsFinite, SizesAreNumbers DEF TypeOK
    <3>2. SumOf(size, T) <= SumOf(size, S) /\ SumOf(size, T) \in Nat /\ SumOf(size, S) \in Nat
      BY <3>1, SmallerSum
    <3> QED
      BY <3>2 DEF Total
  <2>2. ASSUME NEW g \in Groups
        PROVE  Total({q \in Occupying \ aged : Group[target[q]] = g}) <= GlobalLimit
    <3> DEFINE T == {q \in Occupying \ aged : Group[target[q]] = g}
    <3>1. ofGroup(g) \in SUBSET reserved /\ T \in SUBSET ofGroup(g)
      BY DEF ofGroup, Held
    <3> HIDE DEF T
    <3>2. Total(T) <= Total(ofGroup(g)) /\ Total(T) \in Nat /\ Total(ofGroup(g)) \in Nat
      BY <2>1, <3>1
    <3>3. Total(T) <= GlobalLimit
      BY <3>2, GlobalLimitIsInt DEF MemoryBounded, activeForGroup
    <3> QED
      BY <3>3 DEF T
  <2>3. ASSUME NEW i \in Instances
        PROVE  Total({q \in Occupying \ aged : target[q] = i}) <= HardLimit[i]
    <3> DEFINE T == {q \in Occupying \ aged : target[q] = i}
    <3>1. ofInstance(i) \in SUBSET reserved /\ T \in SUBSET ofInstance(i)
      BY DEF ofInstance, Held
    <3> HIDE DEF T
    <3>2. Total(T) <= Total(ofInstance(i)) /\ Total(T) \in Nat /\ Total(ofInstance(i)) \in Nat
      BY <2>1, <3>1
    <3>3. Total(T) <= HardLimit[i]
      BY <3>2, QuotasAreNumbers DEF MemoryBounded, activeForInstance
    <3> QED
      BY <3>3 DEF T
  <2> QED
    BY <2>2, <2>3 DEF NoOvercommit
<1> QED
  BY <1>1, <1>2, <1>3, TypeCorrect, NoReservationLeaks, ReservationsCover, PTL DEF Spec

-----------------------------------------------------------------------------
(* Guarantees *)

LEMMA DeficitIs ==
    ASSUME TypeOK, NEW i \in Instances
    PROVE  /\ activeForInstance(i) \in Nat
           /\ Deficit(i) = IF MinGuarantee[i] >= activeForInstance(i)
                             THEN MinGuarantee[i] - activeForInstance(i) ELSE 0
           /\ Deficit(i) \in Nat
<1>1. activeForInstance(i) \in Nat /\ MinGuarantee[i] \in Nat
  BY SizesAreNumbers, QuotasAreNumbers DEF activeForInstance, ofInstance, TypeOK
<1>2. 0 \in Int /\ MinGuarantee[i] - activeForInstance(i) \in Int
  BY <1>1
<1>3. Deficit(i) = IF 0 >= MinGuarantee[i] - activeForInstance(i)
                     THEN 0 ELSE MinGuarantee[i] - activeForInstance(i)
  BY <1>2, MaxOfTwo DEF Deficit
<1> QED
  BY <1>1, <1>3

\* What the guaranteed instances of a group lack, with one of them apart
LEMMA DeficitsSplit ==
    ASSUME TypeOK, NEW i \in Instances, i \in guaranteed(Group[i])
    PROVE  /\ SumOf(deficits, guaranteed(Group[i])) = ProtectedMinimum(i) + Deficit(i)
           /\ ProtectedMinimum(i) \in Nat
<1> DEFINE P == guaranteed(Group[i]) \ {i}
<1>1. P \in SUBSET Instances /\ guaranteed(Group[i]) = P \cup {i} /\ i \notin P
  BY DEF guaranteed
<1>2. IsFiniteSet(P)
  BY <1>1, FS_Subset
<1>3. \A j \in Instances : deficits[j] = Deficit(j) /\ deficits[j] \in Nat
  BY DeficitIs DEF deficits
<1>4. ProtectedMinimum(i) = SumOf(deficits, P)
  BY DEF ProtectedMinimum
<1> HIDE DEF P
<1>5. SumOf(deficits, P \cup {i}) = SumOf(deficits, P) + deficits[i]
  BY <1>1, <1>2, <1>3, SumAdd
<1>6. SumOf(deficits, P) \in Nat
  BY <1>1, <1>2, <1>3, SumIsNat
<1> QED
  BY <1>1, <1>3, <1>4, <1>5, <1>6

\* Arithmetic of an admission: group total A, what the siblings lack R, the
\* instance's total a, its minimum m, soft limit s, and the request's size e.
LEMMA AdmissionFits ==
    ASSUME NEW A \in Nat, NEW R \in Nat, NEW a \in Nat, NEW m \in Nat, NEW s \in Nat, NEW e \in Nat,
           NEW limit \in Int, s <= m,
           A + (R + (IF m >= a THEN m - a ELSE 0)) <= limit,
           ~(a + e > s /\ (A + e) + R > limit)
    PROVE  (A + e) + (R + (IF m >= a + e THEN m - (a + e) ELSE 0)) <= limit
OBVIOUS

LEMMA AdmissionKeepsGuarantees ==
    ASSUME TypeOK, NoLeak, NEW q \in Requests, Admit(q),
           NEW i \in Instances, target[q] = i, i \in guaranteed(Group[i]),
           SoftLimit[i] <= MinGuarantee[i], Coverable(Group[i])
    PROVE  Coverable(Group[i])'
<1> DEFINE g == Group[i]
<1>1. UNCHANGED <<status, routable, target, size>> /\ MemoryOk(i, size[q])
  BY DEF Admit, storeVars
<1>2. guaranteed(g)' = guaranteed(g) /\ i \in guaranteed(g)'
  BY <1>1 DEF guaranteed
<1>3. /\ activeForInstance(i)' = activeForInstance(i) + size[q]
      /\ activeForGroup(g)' = activeForGroup(g) + size[q]
      /\ \A j \in Instances \ {i} : activeForInstance(j)' = activeForInstance(j)
  BY AdmissionAdds DEF Groups
<1>4. /\ activeForInstance(i) \in Nat /\ size[q] \in Nat /\ activeForGroup(g) \in Nat
      /\ MinGuarantee[i] \in Nat /\ SoftLimit[i] \in Nat /\ GlobalLimit \in Int
  BY SizesAreNumbers, QuotasAreNumbers, GlobalLimitIsInt DEF activeForInstance, activeForGroup, ofInstance, ofGroup, TypeOK
<1>5. SumOf(deficits, guaranteed(g)) = ProtectedMinimum(i) + Deficit(i) /\ ProtectedMinimum(i) \in Nat
  BY DeficitsSplit
<1>6. SumOf(deficits, guaranteed(g))' = ProtectedMinimum(i)' + Deficit(i)'
  <2> DEFINE P == guaranteed(g) \ {i}
  <2>1. IsFiniteSet(P) /\ i \notin P /\ guaranteed(g)' = P \cup {i} /\ P \subseteq Instances
    BY <1>2, FS_Subset DEF guaranteed
  <2>2. \A j \in Instances : deficits'[j] = Deficit(j)' /\ deficits'[j] \in Nat
    <3>1. ASSUME NEW j \in Instances PROVE Deficit(j)' \in Nat
      <4>1. MinGuarantee[j] \in Nat /\ activeForInstance(j)' \in Nat
        BY <1>3, <1>4, QuotasAreNumbers, DeficitIs
      <4>2. MinGuarantee[j] - activeForInstance(j)' \in Int /\ 0 \in Int
        BY <4>1
      <4>3. Deficit(j)' = Max({0, MinGuarantee[j] - activeForInstance(j)'})
        BY DEF Deficit
      <4> QED
        BY <4>1, <4>2, <4>3, MaxOfTwo
    <3> QED
      BY <3>1 DEF deficits
  <2>3. ProtectedMinimum(i)' = SumOf(deficits', P)
    BY <1>2 DEF ProtectedMinimum
  <2> HIDE DEF P
  <2>4. SumOf(deficits', P \cup {i}) = SumOf(deficits', P) + deficits'[i]
    BY <2>1, <2>2, SumAdd
  <2> QED
    BY <2>1, <2>2, <2>3, <2>4
<1>7. ProtectedMinimum(i)' = ProtectedMinimum(i)
  <2> DEFINE P == guaranteed(g) \ {i}
  <2>1. \A j \in P : deficits'[j] = deficits[j]
    BY <1>3 DEF deficits, Deficit, guaranteed
  <2>2. ProtectedMinimum(i) = SumOf(deficits, P) /\ ProtectedMinimum(i)' = SumOf(deficits', P)
    BY <1>2 DEF ProtectedMinimum
  <2> HIDE DEF P
  <2> QED
    BY <2>1, <2>2, SumSame
<1>8. Deficit(i) = IF MinGuarantee[i] >= activeForInstance(i)
                     THEN MinGuarantee[i] - activeForInstance(i) ELSE 0
  BY DeficitIs
<1>9. Deficit(i)' = IF MinGuarantee[i] >= activeForInstance(i) + size[q]
                      THEN MinGuarantee[i] - (activeForInstance(i) + size[q]) ELSE 0
  <2>1. MinGuarantee[i] - (activeForInstance(i) + size[q]) \in Int /\ 0 \in Int
    BY <1>4
  <2>2. Deficit(i)' = Max({0, MinGuarantee[i] - (activeForInstance(i) + size[q])})
    BY <1>3 DEF Deficit
  <2>3. Deficit(i)' = IF 0 >= MinGuarantee[i] - (activeForInstance(i) + size[q])
                        THEN 0 ELSE MinGuarantee[i] - (activeForInstance(i) + size[q])
    BY <2>1, <2>2, MaxOfTwo
  <2> QED
    BY <1>4, <2>3
<1>10. ~(activeForInstance(i) + size[q] > SoftLimit[i]
           /\ (activeForGroup(g) + size[q]) + ProtectedMinimum(i) > GlobalLimit)
  BY <1>1 DEF MemoryOk
<1>11. activeForGroup(g) + (ProtectedMinimum(i) + Deficit(i)) <= GlobalLimit
  BY <1>5 DEF Coverable
<1>12. (activeForGroup(g) + size[q]) + (ProtectedMinimum(i) + Deficit(i)') <= GlobalLimit
  BY <1>5, <1>4, <1>8, <1>9, <1>10, <1>11, AdmissionFits
<1>13. GlobalLimit' = GlobalLimit
  BY DEF GlobalLimit
<1> QED
  BY <1>3, <1>6, <1>7, <1>12, <1>13 DEF Coverable

(* The guarantees of a group's instances stay coverable: an admission takes
   memory that its own instance was promised, or that nobody was. *)
THEOREM GuaranteesStayCoverable ==
    ASSUME Instances # {}
    PROVE  Spec => GuaranteeKept
<1>1. ASSUME TypeOK, NoLeak, [Next]_vars, NEW q \in Requests, NEW i \in Instances,
             phase[q] = "queued", phase'[q] = "admitted", target[q] = i,
             i \in guaranteed(Group[i]), SoftLimit[i] <= MinGuarantee[i], Coverable(Group[i])
      PROVE  Coverable(Group[i])'
  <2>1. Admit(q)
    <3> USE <1>1 DEF Enter, TypeOK
    <3>1. ASSUME NEW r \in Requests, Arrive(r) PROVE FALSE
      BY <3>1 DEF Arrive
    <3>2. ASSUME NEW r \in Requests, Refuse(r) \/ End(r) PROVE FALSE
      BY <3>2 DEF Refuse, End, Leave
    <3>3. ASSUME NEW r \in Requests, Deadline(r) \/ Forward(r) \/ Age(r) PROVE FALSE
      BY <3>3 DEF Deadline, Forward, Age, requestVars
    <3>4. ASSUME NEW r \in Requests, Admit(r) PROVE Admit(q)
      BY <3>4 DEF Admit
    <3>5. ASSUME NEW j \in Instances, Fail(j) \/ Sleep(j) \/ Wake(j) \/ SetRoutable(j) PROVE FALSE
      BY <3>5 DEF Fail, Sleep, Wake, SetRoutable, requestVars
    <3>6. CASE Snapshot \/ UNCHANGED vars
      BY <3>6 DEF Snapshot, vars, requestVars
    <3> QED
      BY <3>1, <3>2, <3>3, <3>4, <3>5, <3>6 DEF Next, Progress
  <2> QED
    BY <1>1, <2>1, AdmissionKeepsGuarantees
<1> DEFINE Kept == \A q \in Requests, i \in Instances :
                      phase[q] = "queued" /\ phase'[q] = "admitted" /\ target[q] = i
                        /\ i \in guaranteed(Group[i]) /\ SoftLimit[i] <= MinGuarantee[i]
                      => (Coverable(Group[i]) => Coverable(Group[i])')
<1>2. ASSUME TypeOK, NoLeak, [Next]_vars PROVE Kept
  <2> SUFFICES ASSUME NEW q \in Requests, NEW i \in Instances,
                      phase[q] = "queued", phase'[q] = "admitted", target[q] = i,
                      i \in guaranteed(Group[i]), SoftLimit[i] <= MinGuarantee[i], Coverable(Group[i])
               PROVE  Coverable(Group[i])'
    OBVIOUS
  <2> QED
    BY <1>1, <1>2
<1>3. TypeOK /\ NoLeak /\ [Next]_vars => [Kept]_vars
  BY <1>2
<1> QED
  BY <1>3, TypeCorrect, NoReservationLeaks, PTL DEF Spec, GuaranteeKept

===============================================================================
