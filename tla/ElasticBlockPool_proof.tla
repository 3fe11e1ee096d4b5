------------------------ MODULE ElasticBlockPool_proof ------------------------
(* Proofs about the prefix-caching block pool: its cache hits are valid, it
   keeps what live requests hold, it loses no block, and it delivers what it
   promised as long as no limit is lowered and no memory taken. *)
EXTENDS ElasticBlockPool, FiniteSetTheorems, SequenceTheorems, WellFoundedInduction, TLAPS

\* A manager whose shrink target is a number of whole pages
Manager(m) ==
    /\ m \in [used : SUBSET Blocks, limit : 1..NumPages, shrinkTo : Nat]
    /\ \E l \in 0..NumPages : m.shrinkTo = BlocksPerPage * l

\* The types, with the sequences, in which no block is twice
Types ==
    /\ Manager(mgr) /\ wanted \in Limits \cup {0}
    /\ ref \in [Blocks -> Nat]
    /\ cached \in [Hashes -> Blocks \cup {NoBlock}] /\ keyOf \in [Blocks -> Hashes \cup {NoHash}]
    /\ content \in [Blocks -> Hashes \cup {NoHash}]
    /\ evictable \in Seq(Blocks) /\ IsInjective(evictable)
    /\ held \in [Requests -> Seq(Blocks)] /\ numCached \in [Requests -> Nat]
    /\ \A r \in Requests : /\ IsInjective(held[r]) /\ Len(held[r]) <= Len(Prompt[r])
                           /\ numCached[r] <= Len(Prompt[r])
    /\ memory \in 0..NumPages
    /\ failed \in BOOLEAN /\ lowered \in BOOLEAN /\ squeezed \in BOOLEAN

\* Nobody holds, caches or evicts the null block
NullApart == ref[NullBlock] = 0 /\ keyOf[NullBlock] = NoHash

Calls == [at : {"touch", "evict", "alloc", "cache"}, of : Requests, need : Nat \ {0}, found : Seq(Blocks)]

Unreferenced(bs) == {b \in bs : ref[b] = 0}

\* Where allocate_slots is, what its hits and its promise are based on still holds.
CallShape ==
    /\ call # Idle => call \in Calls
    /\ call.at = "touch" =>
           /\ held[call.of] = <<>> /\ Len(call.found) + call.need <= Len(Prompt[call.of])
           /\ \A i \in 1..Len(call.found) :
                  Prompt[call.of][i] # NoHash /\ cached[Prompt[call.of][i]] = call.found[i]
           /\ ~squeezed => call.need + Cardinality(Unreferenced(ToSet(call.found))) <= NumFree
    /\ call.at \in {"evict", "alloc"} => Len(held[call.of]) + call.need <= Len(Prompt[call.of])
    /\ call.at = "evict" /\ ~squeezed => call.need <= NumFree
    /\ call.at = "alloc" /\ ~lowered /\ ~squeezed => call.need <= availableSize(mgr)

\* Until the allocation, the memory that was promised also holds what is in use.
MemoryShape ==
    call.at \in {"touch", "evict", "alloc"} /\ ~squeezed => Cardinality(pages(mgr.used)) <= memory

\* Without a limit below the initial one the manager's limit is the initial one.
LimitShape ==
    /\ wanted # 0 => lowered
    /\ ~lowered => mgr.limit = NumPages /\ mgr.shrinkTo = 0
    /\ failed => lowered \/ squeezed

IInv ==
    /\ Types /\ NullApart /\ CallShape /\ LimitShape /\ MemoryShape
    /\ HitsAreValid /\ HeldContentKept /\ BlocksAccounted

-----------------------------------------------------------------------------
(* Sequences without repetition *)

LEMMA Elements ==
    ASSUME NEW B, NEW s \in Seq(B)
    PROVE  /\ Len(s) \in Nat /\ DOMAIN s = 1..Len(s) /\ s \in [1..Len(s) -> B]
           /\ ToSet(s) = {s[i] : i \in 1..Len(s)} /\ ToSet(s) \subseteq B
BY LenProperties DEF ToSet

\* An injection is as large as its range.
LEMMA RangeSize ==
    ASSUME NEW n \in Nat, NEW B, NEW f \in [1..n -> B], IsInjective(f)
    PROVE  LET S == {f[i] : i \in 1..n} IN IsFiniteSet(S) /\ Cardinality(S) = n
<1> DEFINE S == {f[i] : i \in 1..n}
<1>1. IsFiniteSet(1..n) /\ Cardinality(1..n) = n
  BY FS_Interval
<1>2. f \in Injection(1..n, S) /\ f \in Surjection(1..n, S)
  BY DEF Injection, Surjection, IsInjective
<1>3. IsFiniteSet(S) /\ (Cardinality(S) = Cardinality(1..n) <=> f \in Injection(1..n, S))
  BY <1>1, <1>2, FS_Surjection
<1> QED
  BY <1>1, <1>2, <1>3

LEMMA ElementCount ==
    ASSUME NEW B, NEW s \in Seq(B), IsInjective(s)
    PROVE  IsFiniteSet(ToSet(s)) /\ Cardinality(ToSet(s)) = Len(s)
<1>1. Len(s) \in Nat /\ s \in [1..Len(s) -> B] /\ ToSet(s) = {s[i] : i \in 1..Len(s)}
  BY Elements
<1>2. LET S == {s[i] : i \in 1..Len(s)} IN IsFiniteSet(S) /\ Cardinality(S) = Len(s)
  BY <1>1, RangeSize
<1> QED
  BY <1>1, <1>2

\* The two parts of a sequence
LEMMA Parts ==
    ASSUME NEW B, NEW s \in Seq(B), IsInjective(s), NEW n \in 0..Len(s)
    PROVE  /\ oldest(s, n) \cup ToSet(rest(s, n)) = ToSet(s)
           /\ oldest(s, n) \cap ToSet(rest(s, n)) = {}
           /\ IsFiniteSet(oldest(s, n)) /\ Cardinality(oldest(s, n)) = n
           /\ rest(s, n) \in Seq(B) /\ IsInjective(rest(s, n)) /\ Len(rest(s, n)) = Len(s) - n
<1> DEFINE o == SubSeq(s, 1, n)
           r == SubSeq(s, n + 1, Len(s))
<1>0. oldest(s, n) = ToSet(o) /\ rest(s, n) = r
  BY DEF oldest, rest
<1>1. Len(s) \in Nat /\ n \in Nat /\ n <= Len(s) /\ \A i \in 1..Len(s) : s[i] \in B
  BY Elements
<1>2. o \in Seq(B) /\ Len(o) = n /\ \A i \in 1..n : o[i] = s[i]
  <2>1. \A i \in 1..n : s[i] \in B
    BY <1>1
  <2>2. /\ o \in Seq(B) /\ Len(o) = (IF 1 <= n THEN n - 1 + 1 ELSE 0)
        /\ \A i \in 1..n - 1 + 1 : o[i] = s[1 + i - 1]
    BY <1>1, <2>1, SubSeqProperties
  <2> QED
    BY <1>1, <2>2
<1>3. r \in Seq(B) /\ Len(r) = Len(s) - n /\ \A i \in 1..(Len(s) - n) : r[i] = s[n + i]
  <2>1. \A i \in n + 1..Len(s) : s[i] \in B
    BY <1>1
  <2>2. /\ r \in Seq(B) /\ Len(r) = (IF n + 1 <= Len(s) THEN Len(s) - (n + 1) + 1 ELSE 0)
        /\ \A i \in 1..Len(s) - (n + 1) + 1 : r[i] = s[n + 1 + i - 1]
    BY <1>1, <2>1, SubSeqProperties
  <2> QED
    BY <1>1, <2>2
<1> HIDE DEF o, r
<1>4. \A i, j \in 1..Len(s) : s[i] = s[j] => i = j
  BY Elements DEF IsInjective
<1>5. IsInjective(o) /\ IsInjective(r)
  <2>1. DOMAIN o = 1..n /\ DOMAIN r = 1..(Len(s) - n)
    BY <1>2, <1>3, Elements
  <2>2. IsInjective(o)
    BY <1>1, <1>2, <1>4, <2>1 DEF IsInjective
  <2>3. ASSUME NEW i \in 1..(Len(s) - n), NEW j \in 1..(Len(s) - n), r[i] = r[j] PROVE i = j
    <3>1. n + i \in 1..Len(s) /\ n + j \in 1..Len(s) /\ s[n + i] = s[n + j]
      BY <1>1, <1>3, <2>3
    <3>2. n + i = n + j
      BY <1>4, <3>1
    <3> QED
      BY <1>1, <3>2
  <2> QED
    BY <2>1, <2>2, <2>3 DEF IsInjective
<1>6. ToSet(o) = {s[i] : i \in 1..n}
  BY <1>1, <1>2, Elements
<1>7. ToSet(r) = {s[i] : i \in (n + 1)..Len(s)}
  <2>1. ASSUME NEW i \in (n + 1)..Len(s) PROVE s[i] \in ToSet(r)
    <3>1. i - n \in 1..(Len(s) - n) /\ r[i - n] = s[i]
      BY <1>1, <1>3
    <3> QED
      BY <1>3, <3>1, Elements
  <2>2. ASSUME NEW x \in ToSet(r) PROVE \E i \in (n + 1)..Len(s) : x = s[i]
    <3>1. PICK i \in 1..(Len(s) - n) : x = r[i]
      BY <1>3, Elements
    <3> QED
      BY <1>1, <1>3, <3>1
  <2> QED
    BY <2>1, <2>2
<1>8. ToSet(s) = {s[i] : i \in 1..Len(s)}
  BY Elements
<1>9. IsFiniteSet(ToSet(o)) /\ Cardinality(ToSet(o)) = n
  BY <1>2, <1>5, ElementCount
<1>10. ToSet(o) \cup ToSet(r) = ToSet(s) /\ ToSet(o) \cap ToSet(r) = {}
  BY <1>1, <1>4, <1>6, <1>7, <1>8
<1> QED
  BY <1>0, <1>3, <1>5, <1>9, <1>10

\* What kept keeps
LEMMA Kept ==
    ASSUME NEW B, NEW s \in Seq(B), IsInjective(s), NEW S
    PROVE  /\ kept(s, S) \in Seq(B) /\ IsInjective(kept(s, S))
           /\ ToSet(kept(s, S)) = ToSet(s) \cap S
<1> DEFINE at == {i \in DOMAIN s : s[i] \in S}
           rank(i) == Cardinality({j \in at : j <= i})
           f == [i \in at |-> rank(i)]
           n == Cardinality(at)
           pos(k) == CHOOSE i \in at : rank(i) = k
<1>1. at \subseteq 1..Len(s) /\ Len(s) \in Nat /\ \A i \in at : i \in Nat /\ s[i] \in B
  BY Elements
<1>2. IsFiniteSet(at) /\ n \in Nat
  <2>1. IsFiniteSet(1..Len(s))
    BY <1>1, FS_Interval
  <2> QED
    BY <1>1, <2>1, FS_Subset, FS_CardinalityType
<1>3. ASSUME NEW i \in at PROVE rank(i) \in 1..n
  <2> DEFINE T == {j \in at : j <= i}
  <2>1. T \subseteq at /\ i \in T
    BY <1>1
  <2>2. IsFiniteSet(T) /\ Cardinality(T) <= n /\ Cardinality(T) \in Nat /\ Cardinality(T) # 0
    BY <1>2, <2>1, FS_Subset, FS_CardinalityType, FS_EmptySet
  <2> QED
    BY <1>2, <2>2
<1>4. ASSUME NEW i \in at, NEW j \in at, i < j PROVE rank(i) < rank(j)
  <2> DEFINE T == {k \in at : k <= i}
             U == {k \in at : k <= j}
  <2>1. U \subseteq at /\ T \subseteq U /\ j \in U /\ j \notin T
    BY <1>1, <1>4
  <2>2. IsFiniteSet(U)
    BY <1>2, <2>1, FS_Subset
  <2>3. Cardinality(T) <= Cardinality(U) /\ Cardinality(T) # Cardinality(U)
    BY <2>1, <2>2, FS_Subset
  <2>4. IsFiniteSet(T)
    BY <2>1, <2>2, FS_Subset
  <2>5. Cardinality(T) \in Nat /\ Cardinality(U) \in Nat
    BY <2>2, <2>4, FS_CardinalityType
  <2> QED
    BY <2>3, <2>5
<1> HIDE DEF rank
<1>5. \A i, j \in at : rank(i) = rank(j) => i = j
  <2> SUFFICES ASSUME NEW i \in at, NEW j \in at, rank(i) = rank(j), i # j PROVE FALSE
    OBVIOUS
  <2>1. i \in Nat /\ j \in Nat /\ rank(i) \in Nat /\ rank(j) \in Nat
    BY <1>1, <1>2, <1>3
  <2>2. i < j \/ j < i
    BY <2>1
  <2>3. rank(i) < rank(j) \/ rank(j) < rank(i)
    BY <1>4, <2>2
  <2> QED
    BY <2>1, <2>3
<1>6. f \in Injection(at, 1..n)
  BY <1>3, <1>5 DEF Injection, IsInjective
<1>7. IsFiniteSet(1..n) /\ Cardinality(1..n) = n
  BY <1>2, FS_Interval
<1>8. f \in Surjection(at, 1..n)
  <2> HIDE DEF f, at
  <2> QED
    BY <1>6, <1>7, FS_Injection
<1>9. \A k \in 1..n : pos(k) \in at /\ rank(pos(k)) = k
  BY <1>8 DEF Surjection
<1> HIDE DEF pos, at, n
<1>10. kept(s, S) = [k \in 1..n |-> s[pos(k)]]
  BY DEF kept, pos, at, n, rank
<1>11. kept(s, S) \in [1..n -> B] /\ kept(s, S) \in Seq(B) /\ Len(kept(s, S)) = n
  <2>1. \A k \in 1..n : s[pos(k)] \in B
    BY <1>1, <1>9
  <2> QED
    BY <1>2, <1>10, <2>1
<1>12. IsInjective(kept(s, S))
  <2> SUFFICES ASSUME NEW k \in 1..n, NEW l \in 1..n, s[pos(k)] = s[pos(l)] PROVE k = l
    BY <1>10 DEF IsInjective
  <2>1. pos(k) \in at /\ pos(l) \in at
    BY <1>9
  <2>2. pos(k) \in DOMAIN s /\ pos(l) \in DOMAIN s
    BY <2>1 DEF at
  <2>3. pos(k) = pos(l)
    BY <2>2 DEF IsInjective
  <2> QED
    BY <1>9, <2>3
<1>13. ToSet(kept(s, S)) = ToSet(s) \cap S
  <2>1. ToSet(kept(s, S)) = {s[pos(k)] : k \in 1..n}
    BY <1>10 DEF ToSet
  <2>2. ASSUME NEW k \in 1..n PROVE s[pos(k)] \in ToSet(s) \cap S
    BY <1>9 DEF at, ToSet
  <2>3. ASSUME NEW x \in ToSet(s) \cap S PROVE \E k \in 1..n : x = s[pos(k)]
    <3>1. PICK i \in at : x = s[i]
      BY DEF at, ToSet
    <3>2. rank(i) \in 1..n /\ pos(rank(i)) = i
      BY <1>3, <1>5, <1>9
    <3> QED
      BY <3>1, <3>2
  <2> QED
    BY <2>1, <2>2, <2>3
<1> QED
  BY <1>11, <1>12, <1>13

LEMMA Reversed ==
    ASSUME NEW B, NEW s \in Seq(B), IsInjective(s)
    PROVE  Reverse(s) \in Seq(B) /\ IsInjective(Reverse(s)) /\ ToSet(Reverse(s)) = ToSet(s)
<1> DEFINE n == Len(s)
           t == Reverse(s)
<1>1. n \in Nat /\ DOMAIN s = 1..n /\ (\A i \in 1..n : s[i] \in B) /\ ToSet(s) = {s[i] : i \in 1..n}
  BY Elements
<1>2. t = [i \in 1..n |-> s[(n - i) + 1]]
  BY DEF Reverse
<1> HIDE DEF n, t
<1>3. \A i \in 1..n : (n - i) + 1 \in 1..n
  BY <1>1
<1>4. DOMAIN t = 1..n /\ (\A i \in 1..n : t[i] = s[(n - i) + 1]) /\ t \in [1..n -> B]
  BY <1>1, <1>2, <1>3
<1>5. t \in Seq(B)
  BY <1>1, <1>4
<1>6. IsInjective(t)
  <2> SUFFICES ASSUME NEW i \in 1..n, NEW j \in 1..n, t[i] = t[j] PROVE i = j
    BY <1>4 DEF IsInjective
  <2>1. s[(n - i) + 1] = s[(n - j) + 1]
    BY <1>4
  <2>2. (n - i) + 1 = (n - j) + 1
    BY <1>1, <1>3, <2>1 DEF IsInjective
  <2> QED
    BY <1>1, <2>2
<1>7. ToSet(t) = ToSet(s)
  <2>1. ToSet(t) = {t[i] : i \in 1..n}
    BY <1>4 DEF ToSet
  <2>2. ASSUME NEW i \in 1..n PROVE (n - i) + 1 \in 1..n /\ t[(n - i) + 1] = s[i]
    <3>1. (n - ((n - i) + 1)) + 1 = i
      BY <1>1
    <3> QED
      BY <1>3, <1>4, <3>1
  <2> QED
    BY <1>1, <1>3, <1>4, <2>1, <2>2
<1> QED
  BY <1>5, <1>6, <1>7 DEF t

LEMMA Joined ==
    ASSUME NEW B, NEW s \in Seq(B), NEW t \in Seq(B), IsInjective(s), IsInjective(t),
           ToSet(s) \cap ToSet(t) = {}
    PROVE  /\ s \o t \in Seq(B) /\ IsInjective(s \o t) /\ Len(s \o t) = Len(s) + Len(t)
           /\ ToSet(s \o t) = ToSet(s) \cup ToSet(t)
<1> DEFINE m == Len(s)
           n == Len(t)
           u == s \o t
<1>1. m \in Nat /\ DOMAIN s = 1..m /\ ToSet(s) = {s[i] : i \in 1..m}
  BY Elements
<1>2. n \in Nat /\ DOMAIN t = 1..n /\ ToSet(t) = {t[i] : i \in 1..n}
  BY Elements
<1>3. /\ u \in Seq(B) /\ Len(u) = m + n
      /\ \A i \in 1..(m + n) : u[i] = IF i <= m THEN s[i] ELSE t[i - m]
  BY ConcatProperties
<1> HIDE DEF m, n, u
<1>4. DOMAIN u = 1..(m + n) /\ ToSet(u) = {u[i] : i \in 1..(m + n)}
  BY <1>1, <1>2, <1>3, Elements
<1>5. \A i \in 1..m : i \in 1..(m + n) /\ u[i] = s[i]
  BY <1>1, <1>2, <1>3
<1>6. \A i \in 1..n : m + i \in 1..(m + n) /\ u[m + i] = t[i]
  BY <1>1, <1>2, <1>3
<1>7. ASSUME NEW i \in 1..(m + n) PROVE i \in 1..m \/ (i - m \in 1..n /\ u[i] = t[i - m])
  <2>1. CASE i <= m
    BY <1>1, <1>2, <2>1
  <2>2. CASE ~(i <= m)
    BY <1>1, <1>2, <1>3, <2>2
  <2> QED
    BY <2>1, <2>2
<1>8. ToSet(u) = ToSet(s) \cup ToSet(t)
  BY <1>1, <1>2, <1>4, <1>5, <1>6, <1>7
<1>9. ASSUME NEW i \in 1..(m + n), NEW j \in 1..(m + n), u[i] = u[j] PROVE i = j
  <2>1. CASE i \in 1..m /\ j \in 1..m
    BY <1>1, <1>5, <1>9, <2>1 DEF IsInjective
  <2>2. CASE i - m \in 1..n /\ u[i] = t[i - m] /\ j - m \in 1..n /\ u[j] = t[j - m]
    <3>1. i - m = j - m
      BY <1>2, <1>9, <2>2 DEF IsInjective
    <3> QED
      BY <1>1, <1>2, <3>1
  <2>3. CASE \/ i \in 1..m /\ j - m \in 1..n /\ u[j] = t[j - m]
             \/ j \in 1..m /\ i - m \in 1..n /\ u[i] = t[i - m]
    BY <1>1, <1>2, <1>5, <1>9, <2>3
  <2> QED
    BY <1>7, <2>1, <2>2, <2>3
<1>10. IsInjective(u)
  BY <1>4, <1>9 DEF IsInjective
<1> QED
  BY <1>3, <1>8, <1>10 DEF u, m, n

-----------------------------------------------------------------------------
(* Pages and the manager *)

LEMMA Numbers ==
    /\ NumPages \in Nat /\ NumPages >= 1 /\ BlocksPerPage \in Nat /\ BlocksPerPage >= 1
    /\ NumPages * BlocksPerPage \in Nat /\ NumPages * BlocksPerPage >= 1
    /\ NullBlock \in Blocks /\ \A b \in Blocks : b \in Nat
    /\ \A l \in Limits : l \in 0..NumPages
<1>1. NumPages \in Nat /\ NumPages >= 1 /\ BlocksPerPage \in Nat /\ BlocksPerPage >= 1
  BY PoolAssumption
<1>2. NumPages * BlocksPerPage \in Nat /\ NumPages * BlocksPerPage >= 1
  BY <1>1
<1> QED
  BY <1>1, <1>2, PoolAssumption DEF NullBlock, Blocks

LEMMA Division ==
    ASSUME NEW a \in Nat, NEW d \in Nat \ {0}
    PROVE  /\ a \div d \in Nat /\ d * (a \div d) <= a /\ a < d * (a \div d) + d
           /\ \A q \in Nat : d * q <= a /\ a < d * q + d => a \div d = q
BY SMT

LEMMA Finite ==
    /\ IsFiniteSet(Blocks)
    /\ \A S \in SUBSET Blocks : IsFiniteSet(S) /\ Cardinality(S) \in Nat
<1>1. NumPages * BlocksPerPage - 1 \in Int
  BY Numbers
<1>2. IsFiniteSet(Blocks)
  BY <1>1, FS_Interval DEF Blocks
<1> QED
  BY <1>2, FS_Subset, FS_CardinalityType

InPages(P) == {b \in Blocks : pageOf(b) \in P}

\* A page has BlocksPerPage blocks.
LEMMA PageSizes ==
    ASSUME NEW P \in SUBSET (0..(NumPages - 1))
    PROVE  /\ IsFiniteSet(P) /\ Cardinality(P) \in Nat
           /\ Cardinality(InPages(P)) = Cardinality(P) * BlocksPerPage
<1> DEFINE D == P \X (0..(BlocksPerPage - 1))
           f == [x \in D |-> BlocksPerPage * x[1] + x[2]]
<1>1. IsFiniteSet(P) /\ Cardinality(P) \in Nat
  <2>1. NumPages - 1 \in Int
    BY Numbers
  <2>2. IsFiniteSet(0..(NumPages - 1))
    BY <2>1, FS_Interval
  <2> QED
    BY <2>2, FS_Subset, FS_CardinalityType
<1>2. IsFiniteSet(0..(BlocksPerPage - 1)) /\ Cardinality(0..(BlocksPerPage - 1)) = BlocksPerPage
  <2>1. BlocksPerPage - 1 \in Int /\ ~(0 > BlocksPerPage - 1) /\ BlocksPerPage - 1 - 0 + 1 = BlocksPerPage
    BY Numbers
  <2> QED
    BY <2>1, FS_Interval
<1>3. IsFiniteSet(D) /\ Cardinality(D) = Cardinality(P) * BlocksPerPage
  BY <1>1, <1>2, FS_Product
<1>4. ASSUME NEW x \in D
      PROVE  /\ f[x] \in InPages(P) /\ pageOf(f[x]) = x[1] /\ f[x] = BlocksPerPage * x[1] + x[2]
             /\ x[2] \in Nat /\ x[1] \in Nat
  <2>1. x[1] \in P /\ x[1] \in 0..(NumPages - 1) /\ x[2] \in 0..(BlocksPerPage - 1)
    OBVIOUS
  <2>2. f[x] = BlocksPerPage * x[1] + x[2] /\ f[x] \in Nat
    BY <2>1, Numbers
  <2>3. pageOf(f[x]) = x[1]
    BY <2>1, <2>2, Numbers, Division DEF pageOf
  <2>4. BlocksPerPage * (x[1] + 1) <= BlocksPerPage * NumPages
    BY <2>1, Numbers
  <2>5. f[x] < NumPages * BlocksPerPage
    BY <2>1, <2>2, <2>4, Numbers
  <2>6. f[x] \in Blocks
    BY <2>2, <2>5, Numbers DEF Blocks
  <2> QED
    BY <2>1, <2>2, <2>3, <2>6 DEF InPages
<1>5. ASSUME NEW x \in D, NEW y \in D, f[x] = f[y] PROVE x = y
  <2>1. x[1] = y[1]
    BY <1>4, <1>5
  <2>2. x[2] = y[2]
    BY <1>4, <1>5, <2>1, Numbers
  <2> QED
    BY <2>1, <2>2
<1>6. ASSUME NEW b \in InPages(P) PROVE \E x \in D : f[x] = b
  <2> DEFINE x == <<pageOf(b), b - BlocksPerPage * pageOf(b)>>
  <2>1. b \in Nat /\ pageOf(b) \in P
    BY Numbers DEF InPages
  <2>2. b - BlocksPerPage * pageOf(b) \in 0..(BlocksPerPage - 1) /\ pageOf(b) \in Nat
    BY <2>1, Numbers, Division DEF pageOf
  <2>3. x \in D
    BY <2>1, <2>2
  <2>4. BlocksPerPage * pageOf(b) + (b - BlocksPerPage * pageOf(b)) = b
    BY <2>1, <2>2, Numbers
  <2> QED
    BY <2>3, <2>4
<1>7. f \in Bijection(D, InPages(P))
  <2>1. f \in [D -> InPages(P)]
    BY <1>4
  <2> HIDE DEF f, D
  <2> QED
    BY <1>5, <1>6, <2>1 DEF Bijection, Injection, Surjection, IsInjective
<1>8. ExistsBijection(D, InPages(P))
  BY <1>7 DEF ExistsBijection
<1> HIDE DEF D
<1> QED
  BY <1>1, <1>3, <1>8, FS_Bijection

LEMMA PagesOf ==
    ASSUME NEW S \in SUBSET Blocks
    PROVE  pages(S) \subseteq 0..(NumPages - 1)
<1>1. ASSUME NEW b \in Blocks PROVE pageOf(b) \in 0..(NumPages - 1)
  <2>1. b \in Nat /\ b < NumPages * BlocksPerPage
    BY Numbers DEF Blocks
  <2>2. pageOf(b) \in Nat /\ BlocksPerPage * pageOf(b) <= b
    BY <2>1, Numbers, Division DEF pageOf
  <2>3. pageOf(b) < NumPages
    <3> SUFFICES ASSUME pageOf(b) >= NumPages PROVE FALSE
      BY <2>2, Numbers
    <3>1. BlocksPerPage * pageOf(b) >= BlocksPerPage * NumPages
      BY <2>2, Numbers
    <3> QED
      BY <2>1, <2>2, <3>1, Numbers
  <2> QED
    BY <2>2, <2>3, Numbers
<1> QED
  BY <1>1 DEF pages

\* What the manager has left, while it has its initial limit
LEMMA Available ==
    ASSUME NEW m, Manager(m), memory \in 0..NumPages
    PROVE  /\ availableSize(m) \in Int
           /\ m.shrinkTo = 0 /\ m.limit = NumPages /\ Cardinality(pages(m.used)) <= memory
                => availableSize(m) = memory * BlocksPerPage - Cardinality(m.used)
<1> DEFINE P == pages(m.used)
           c == Cardinality(P)
           u == Cardinality(m.used)
           o == Cardinality(OpenBlocks(m.used))
<1>1. m.used \subseteq Blocks /\ m.limit \in Nat
  BY DEF Manager
<1>2. P \in SUBSET (0..(NumPages - 1))
  BY <1>1, PagesOf
<1>3. c \in Nat /\ Cardinality(InPages(P)) = c * BlocksPerPage
  BY <1>2, PageSizes
<1>4. m.used \subseteq InPages(P) /\ OpenBlocks(m.used) = InPages(P) \ m.used /\ InPages(P) \subseteq Blocks
  BY <1>1 DEF InPages, pages, OpenBlocks
<1>5. IsFiniteSet(InPages(P)) /\ u \in Nat /\ InPages(P) \cap m.used = m.used
  BY <1>4, Finite
<1>6. o = c * BlocksPerPage - u
  <2>1. Cardinality(InPages(P) \ m.used) = Cardinality(InPages(P)) - Cardinality(InPages(P) \cap m.used)
    BY <1>5, FS_Difference
  <2> HIDE DEF P
  <2> QED
    BY <1>3, <1>4, <1>5, <2>1
<1>7. availableSize(m) = o + IF m.shrinkTo # 0 THEN 0 ELSE freePages(m) * BlocksPerPage
  BY DEF availableSize
<1>8. memory \in Nat /\ freePages(m) \in Nat /\ (m.limit = NumPages /\ c <= memory => freePages(m) = memory - c)
  BY <1>1, <1>3, Numbers DEF freePages, AtMost
<1> HIDE DEF c, u, o
<1>9. c * BlocksPerPage \in Int /\ memory * BlocksPerPage \in Int /\ freePages(m) * BlocksPerPage \in Int
      /\ (memory - c) * BlocksPerPage = memory * BlocksPerPage - c * BlocksPerPage
  BY <1>3, <1>8, Numbers
<1>10. m.shrinkTo = 0 /\ m.limit = NumPages /\ c <= memory => availableSize(m) = memory * BlocksPerPage - u
  BY <1>5, <1>6, <1>7, <1>8, <1>9
<1>11. availableSize(m) \in Int
  BY <1>5, <1>6, <1>7, <1>9
<1> QED
  BY <1>10, <1>11 DEF u, c

\* Fewer blocks are in no more pages.
LEMMA FewerPages ==
    ASSUME NEW S \in SUBSET Blocks, NEW T \in SUBSET S
    PROVE  Cardinality(pages(T)) \in Nat /\ Cardinality(pages(T)) <= Cardinality(pages(S))
<1>1. pages(S) \subseteq 0..(NumPages - 1) /\ pages(T) \subseteq pages(S)
  BY PagesOf DEF pages
<1>2. IsFiniteSet(pages(S))
  <2>1. 0 \in Int /\ NumPages - 1 \in Int
    BY Numbers
  <2>2. IsFiniteSet(0..(NumPages - 1))
    BY <2>1, FS_Interval
  <2> QED
    BY <1>1, <2>2, FS_Subset
<1> QED
  BY <1>1, <1>2, FS_Subset, FS_CardinalityType

LEMMA NoTarget == \E l \in 0..NumPages : 0 = BlocksPerPage * l
<1>1. 0 \in 0..NumPages /\ 0 = BlocksPerPage * 0
  BY Numbers
<1> QED
  BY <1>1

LEMMA ResizedManager ==
    ASSUME NEW m, Manager(m), NEW l \in 1..NumPages
    PROVE  Manager(Resized(m, l)) /\ Resized(m, l).used = m.used
<1>1. m \in [used : SUBSET Blocks, limit : 1..NumPages, shrinkTo : Nat]
  BY DEF Manager
<1>2. CASE Cardinality(pages(m.used)) <= l
  <2>1. Resized(m, l) = [m EXCEPT !.limit = l, !.shrinkTo = 0]
    BY <1>2 DEF Resized
  <2> DEFINE z == Resized(m, l)
  <2>2. z \in [used : SUBSET Blocks, limit : 1..NumPages, shrinkTo : Nat] /\ z.shrinkTo = 0 /\ z.used = m.used
    <3> DEFINE y == [m EXCEPT !.limit = l, !.shrinkTo = 0]
    <3>1. y \in [used : SUBSET Blocks, limit : 1..NumPages, shrinkTo : Nat]
      BY <1>1
    <3>2. y.shrinkTo = 0 /\ y.used = m.used
      BY <1>1
    <3> QED
      BY <2>1, <3>1, <3>2
  <2> HIDE DEF z
  <2>3. Manager(z)
    BY <2>2, NoTarget DEF Manager
  <2> QED
    BY <2>2, <2>3 DEF z
<1>3. CASE ~(Cardinality(pages(m.used)) <= l)
  <2>1. Resized(m, l) = [m EXCEPT !.shrinkTo = l * BlocksPerPage]
    BY <1>3 DEF Resized
  <2>2. l * BlocksPerPage = BlocksPerPage * l /\ l * BlocksPerPage \in Nat /\ l \in 0..NumPages
    BY Numbers
  <2> QED
    BY <1>1, <2>1, <2>2 DEF Manager
<1> QED
  BY <1>2, <1>3

LEMMA FreedManager ==
    ASSUME NEW m, Manager(m), NEW S
    PROVE  /\ Manager(Freed(m, S)) /\ Freed(m, S).used = m.used \ S
           /\ m.shrinkTo = 0 => Freed(m, S).limit = m.limit /\ Freed(m, S).shrinkTo = 0
<1> DEFINE f == [m EXCEPT !.used = @ \ S]
           l == m.shrinkTo \div BlocksPerPage
<1>1. m \in [used : SUBSET Blocks, limit : 1..NumPages, shrinkTo : Nat]
  BY DEF Manager
<1>2. Manager(f) /\ f.used = m.used \ S /\ f.limit = m.limit /\ f.shrinkTo = m.shrinkTo
  BY <1>1 DEF Manager
<1>3. CASE S # {} /\ m.shrinkTo # 0 /\ Cardinality(f.used) <= m.shrinkTo
  <2>1. Freed(m, S) = [Resized(f, l) EXCEPT !.shrinkTo = 0]
    BY <1>3 DEF Freed
  <2>2. PICK k \in 0..NumPages : m.shrinkTo = BlocksPerPage * k
    BY DEF Manager
  <2>3. l = k /\ k # 0
    <3>1. k # 0 /\ m.shrinkTo \in Nat
      BY <1>1, <1>3, <2>2, Numbers
    <3>2. BlocksPerPage * k <= m.shrinkTo /\ m.shrinkTo < BlocksPerPage * k + BlocksPerPage
      BY <1>1, <2>2, <3>1, Numbers
    <3> QED
      BY <3>1, <3>2, Numbers, Division
  <2>4. Manager(Resized(f, l)) /\ Resized(f, l).used = f.used
    <3>1. l \in 1..NumPages
      BY <2>2, <2>3, Numbers
    <3> HIDE DEF l, f
    <3> QED
      BY <1>2, <3>1, ResizedManager
  <2> HIDE DEF f, l
  <2> DEFINE z == Freed(m, S)
  <2>5. z \in [used : SUBSET Blocks, limit : 1..NumPages, shrinkTo : Nat] /\ z.shrinkTo = 0 /\ z.used = f.used
    BY <2>1, <2>4 DEF Manager
  <2> HIDE DEF z
  <2>6. Manager(z)
    BY <2>5, NoTarget DEF Manager
  <2> QED
    BY <1>2, <1>3, <2>5, <2>6 DEF z
<1>4. CASE ~(S # {} /\ m.shrinkTo # 0 /\ Cardinality(f.used) <= m.shrinkTo)
  <2>1. Freed(m, S) = f
    BY <1>4 DEF Freed
  <2> QED
    BY <1>2, <2>1
<1> QED
  BY <1>3, <1>4

-----------------------------------------------------------------------------
(* What the invariant says of prompts, holders and calls *)

LEMMA Prompts ==
    ASSUME NEW r \in Requests
    PROVE  /\ Prompt[r] \in Seq(Hashes \cup {NoHash}) /\ Len(Prompt[r]) \in Nat /\ Len(Prompt[r]) >= 1
           /\ DOMAIN Prompt[r] = 1..Len(Prompt[r]) /\ \A i \in 1..Len(Prompt[r]) : Prompt[r][i] \in Hashes \cup {NoHash}
           /\ \A i, j \in 1..Len(Prompt[r]) : Prompt[r][i] = Prompt[r][j] /\ Prompt[r][i] # NoHash => i = j
<1>1. Prompt[r] \in Seq(Hashes \cup {NoHash}) /\ Prompt[r] # <<>>
  BY PoolAssumption, PromptAssumption
<1>2. Len(Prompt[r]) \in Nat /\ DOMAIN Prompt[r] = 1..Len(Prompt[r]) /\ Len(Prompt[r]) # 0
      /\ \A i \in 1..Len(Prompt[r]) : Prompt[r][i] \in Hashes \cup {NoHash}
  BY <1>1, Elements, EmptySeq
<1>3. \A i, j \in 1..Len(Prompt[r]) : Prompt[r][i] = Prompt[r][j] /\ Prompt[r][i] # NoHash => i = j
  BY <1>2, PromptAssumption
<1> QED
  BY <1>1, <1>2, <1>3

Holders(b) == {r \in Requests : b \in ToSet(held[r])}

LEMMA HoldersFinite ==
    ASSUME NEW b
    PROVE  IsFiniteSet(Holders(b)) /\ Cardinality(Holders(b)) \in 0..Cardinality(Requests)
<1>1. IsFiniteSet(Requests) /\ Holders(b) \in SUBSET Requests
  BY PoolAssumption DEF Holders
<1>2. IsFiniteSet(Holders(b)) /\ Cardinality(Holders(b)) <= Cardinality(Requests)
  BY <1>1, FS_Subset
<1> QED
  BY <1>1, <1>2, FS_CardinalityType

LEMMA RefIs ==
    ASSUME BlocksAccounted, NEW b \in Blocks
    PROVE  ref[b] = Cardinality(Holders(b)) /\ (ref[b] = 0 <=> Holders(b) = {})
<1>1. ref[b] = Cardinality(Holders(b))
  BY DEF BlocksAccounted, Holders
<1> QED
  BY <1>1, HoldersFinite, FS_EmptySet

\* A held block has a reference; it is neither the null block nor evictable.
LEMMA HeldBlocks ==
    ASSUME IInv, NEW r \in Requests, NEW b \in ToSet(held[r])
    PROVE  b \in Blocks /\ ref[b] \in Nat /\ ref[b] > 0 /\ b \in mgr.used /\ b # NullBlock /\ b \notin ToSet(evictable)
<1>1. held[r] \in Seq(Blocks)
  BY DEF IInv, Types
<1>2. b \in Blocks
  BY <1>1, Elements
<1>3. ref[b] # 0
  BY <1>2, RefIs DEF IInv, Holders
<1> QED
  BY <1>2, <1>3 DEF IInv, Types, BlocksAccounted, NullApart

\* A block with one reference has one holder.
LEMMA OneHolder ==
    ASSUME IInv, NEW r \in Requests, NEW q \in Requests, q # r, NEW b \in ToSet(held[r]), b \in ToSet(held[q])
    PROVE  ref[b] # 1
<1>1. b \in Blocks
  BY HeldBlocks
<1>2. IsFiniteSet(Holders(b)) /\ r \in Holders(b) /\ q \in Holders(b)
  BY HoldersFinite DEF Holders
<1>3. IsFiniteSet(Holders(b) \ {r}) /\ Cardinality(Holders(b) \ {r}) = Cardinality(Holders(b)) - 1
  BY <1>2, FS_RemoveElement
<1>4. q \in Holders(b) \ {r}
  BY <1>2
<1>5. Cardinality(Holders(b) \ {r}) # 0
  BY <1>3, <1>4, FS_EmptySet
<1> QED
  BY <1>1, <1>3, <1>5, RefIs, HoldersFinite DEF IInv

LEMMA CallIs ==
    ASSUME IInv, call # Idle
    PROVE  /\ call.at \in {"touch", "evict", "alloc", "cache"} /\ call.of \in Requests
           /\ call.need \in Nat /\ call.need >= 1 /\ call.found \in Seq(Blocks)
           /\ call \in Calls
BY DEF IInv, CallShape, Calls

LEMMA TypesHold == IInv => TypeOK
<1> SUFFICES ASSUME IInv PROVE TypeOK
  OBVIOUS
<1>1. mgr \in [used : SUBSET Blocks, limit : 1..NumPages, shrinkTo : 0..(NumPages * BlocksPerPage)]
  <2>1. mgr \in [used : SUBSET Blocks, limit : 1..NumPages, shrinkTo : Nat]
    BY DEF IInv, Types, Manager
  <2>2. PICK l \in 0..NumPages : mgr.shrinkTo = BlocksPerPage * l
    BY DEF IInv, Types, Manager
  <2>3. BlocksPerPage * l <= NumPages * BlocksPerPage
    BY <2>2, Numbers
  <2>4. mgr.shrinkTo \in 0..(NumPages * BlocksPerPage)
    BY <2>1, <2>2, <2>3, Numbers
  <2> QED
    BY <2>1, <2>4
<1>2. ref \in [Blocks -> 0..Cardinality(Requests)]
  <2>1. \A b \in Blocks : ref[b] \in 0..Cardinality(Requests)
    BY RefIs, HoldersFinite DEF IInv
  <2> QED
    BY <2>1 DEF IInv, Types
<1>3. ToSet(evictable) \subseteq Blocks /\ IsInjective(evictable)
  BY Elements DEF IInv, Types
<1>4. \A r \in Requests : ToSet(held[r]) \subseteq Blocks /\ Len(held[r]) <= Len(Prompt[r])
  BY Elements DEF IInv, Types
<1>5. \A r \in Requests : numCached[r] \in 0..Len(Prompt[r])
  BY Prompts DEF IInv, Types
<1>6. call.at \in {"idle", "touch", "evict", "alloc", "cache"}
  BY CallIs DEF Idle
<1> QED
  BY <1>1, <1>2, <1>3, <1>4, <1>5, <1>6 DEF TypeOK, IInv, Types

-----------------------------------------------------------------------------
(* The initial state *)

LEMMA InitHolds == Init => IInv
<1> SUFFICES ASSUME Init PROVE IInv
  OBVIOUS
<1> USE DEF Init
<1>1. <<>> \in Seq(Blocks) /\ Len(<<>>) = 0 /\ IsInjective(<<>>) /\ ToSet(<<>>) = {}
  BY EmptySeq DEF IsInjective, ToSet
<1>2. Manager(mgr)
  <2>1. mgr \in [used : SUBSET Blocks, limit : 1..NumPages, shrinkTo : Nat] /\ mgr.shrinkTo = 0
    BY Numbers
  <2> QED
    BY <2>1, NoTarget DEF Manager
<1>3. Types
  <2>1. evictable \in Seq(Blocks) /\ IsInjective(evictable) /\ held \in [Requests -> Seq(Blocks)]
    BY <1>1
  <2>2. \A q \in Requests : IsInjective(held[q]) /\ Len(held[q]) <= Len(Prompt[q]) /\ numCached[q] <= Len(Prompt[q])
    BY <1>1, Prompts
  <2>3. numCached \in [Requests -> Nat] /\ ref \in [Blocks -> Nat] /\ wanted \in Limits \cup {0}
        /\ memory \in 0..NumPages
    BY Numbers
  <2> QED
    BY <1>2, <2>1, <2>2, <2>3 DEF Types
<1>4. NullApart /\ LimitShape
  BY Numbers DEF NullApart, LimitShape
<1>5. CallShape /\ MemoryShape
  BY DEF CallShape, MemoryShape, Idle
<1>6. HitsAreValid /\ HeldContentKept
  BY <1>1 DEF HitsAreValid, HeldContentKept
<1>7. BlocksAccounted
  <2>1. \A b : Holders(b) = {}
    BY <1>1 DEF Holders
  <2>2. \A b \in Blocks : ref[b] = Cardinality({r \in Requests : b \in ToSet(held[r])})
    BY <2>1, FS_EmptySet DEF Holders
  <2>3. mgr.used = {NullBlock} \cup ToSet(evictable) \cup {b \in Blocks : ref[b] > 0}
    BY <1>1, Numbers
  <2> QED
    BY <1>1, <2>2, <2>3 DEF BlocksAccounted
<1> QED
  BY <1>3, <1>4, <1>5, <1>6, <1>7 DEF IInv

-----------------------------------------------------------------------------
(* The steps *)

LEMMA SetLimitKeeps ==
    ASSUME IInv, NEW l \in Limits, SetLimit(l)
    PROVE  IInv'
<1> USE DEF SetLimit, poolVars, requestVars
<1>1. Types' /\ LimitShape' /\ MemoryShape'
  BY DEF IInv, Types, LimitShape, MemoryShape
<1>2. NullApart' /\ HitsAreValid' /\ HeldContentKept' /\ BlocksAccounted'
  BY DEF IInv, NullApart, HitsAreValid, HeldContentKept, BlocksAccounted
<1>3. NumFree' = NumFree /\ availableSize(mgr)' = availableSize(mgr) /\ (lowered => lowered')
  BY DEF NumFree, availableSize, freePages
<1>4. CallShape'
  BY <1>3 DEF IInv, CallShape, Unreferenced
<1> QED
  BY <1>1, <1>2, <1>4 DEF IInv

\* More physical memory makes no less available, if the query does not wrap.
LEMMA MoreMemory ==
    ASSUME IInv, memory' \in 0..NumPages, memory <= memory', mgr' = mgr,
           Cardinality(pages(mgr.used)) <= memory
    PROVE  availableSize(mgr)' \in Int /\ availableSize(mgr) \in Int /\ availableSize(mgr) <= availableSize(mgr)'
<1> DEFINE f == freePages(mgr)
           o == Cardinality(OpenBlocks(mgr.used))
<1>1. mgr.used \in SUBSET Blocks /\ mgr.limit \in Nat /\ memory \in Nat /\ memory' \in Nat
  BY Numbers DEF IInv, Types, Manager
<1>2. Cardinality(pages(mgr.used)) \in Nat /\ OpenBlocks(mgr.used) \subseteq Blocks
  BY <1>1, FewerPages DEF OpenBlocks
<1>3. o \in Nat
  BY <1>2, Finite
<1>4. f \in Nat /\ f' \in Nat /\ f <= f'
  BY <1>1, <1>2 DEF freePages, AtMost
<1>5. availableSize(mgr) = o + (IF mgr.shrinkTo # 0 THEN 0 ELSE f * BlocksPerPage)
      /\ availableSize(mgr)' = o + (IF mgr.shrinkTo # 0 THEN 0 ELSE f' * BlocksPerPage)
  BY DEF availableSize
<1> HIDE DEF f, o
<1>6. f * BlocksPerPage \in Int /\ f' * BlocksPerPage \in Int /\ f * BlocksPerPage <= f' * BlocksPerPage
  <2>1. \A x, y, z \in Nat : x <= y => x * z \in Int /\ y * z \in Int /\ x * z <= y * z
    BY SMT
  <2> QED
    BY <1>4, <2>1, Numbers
<1> QED
  BY <1>3, <1>5, <1>6

LEMMA TakeMemoryKeeps ==
    ASSUME IInv, NEW n \in Memories, TakeMemory(n)
    PROVE  IInv'
<1> USE DEF TakeMemory, poolVars, requestVars
<1>0. memory' \in 0..NumPages /\ memory \in Nat /\ memory' \in Nat
  BY PoolAssumption, Numbers DEF IInv, Types
<1>1. Types'
  <2>1. squeezed' \in BOOLEAN
    BY Zenon
  <2> QED
    BY <1>0, <2>1 DEF IInv, Types
<1>2. NullApart' /\ HitsAreValid' /\ HeldContentKept' /\ BlocksAccounted'
  BY DEF IInv, NullApart, HitsAreValid, HeldContentKept, BlocksAccounted
<1>3. ~squeezed' => ~squeezed /\ memory <= memory'
  <2>1. ~squeezed' => ~squeezed /\ ~(n < memory)
    BY Zenon
  <2>2. memory' = n
    OBVIOUS
  <2> QED
    BY <1>0, <2>1, <2>2
<1>4. LimitShape'
  BY <1>3 DEF IInv, LimitShape
<1>5. MemoryShape'
  <2> SUFFICES ASSUME call.at \in {"touch", "evict", "alloc"}, ~squeezed'
               PROVE  Cardinality(pages(mgr.used)) <= memory'
    BY DEF MemoryShape
  <2>1. Cardinality(pages(mgr.used)) <= memory /\ mgr.used \in SUBSET Blocks
    BY <1>3 DEF IInv, MemoryShape, Types, Manager
  <2>2. Cardinality(pages(mgr.used)) \in Nat
    BY <2>1, FewerPages
  <2> QED
    BY <1>0, <1>3, <2>1, <2>2
<1>6. CASE squeezed'
  <2>1. CallShape'
    BY <1>6 DEF IInv, CallShape
  <2> QED
    BY <1>1, <1>2, <1>4, <1>5, <2>1 DEF IInv
<1>7. CASE ~squeezed' /\ call.at \in {"touch", "evict", "alloc"}
  <2>1. availableSize(mgr)' \in Int /\ availableSize(mgr) \in Int /\ availableSize(mgr) <= availableSize(mgr)'
    <3>1. Cardinality(pages(mgr.used)) <= memory
      BY <1>3, <1>7 DEF IInv, MemoryShape
    <3> QED
      BY <1>0, <1>3, <1>7, <3>1, MoreMemory
  <2>2. Len(evictable) \in Nat
    BY Elements DEF IInv, Types
  <2>3. NumFree \in Int /\ NumFree' \in Int /\ NumFree <= NumFree'
    BY <2>1, <2>2 DEF NumFree
  <2>4. CallShape'
    <3>1. CASE call = Idle
      BY <3>1 DEF CallShape, Idle
    <3>2. CASE call # Idle
      <4>1. call.need \in Nat /\ call.found \in Seq(Blocks)
        BY <3>2, CallIs
      <4>2. Unreferenced(ToSet(call.found)) \subseteq Blocks
        BY <4>1, Elements DEF Unreferenced
      <4>3. Cardinality(Unreferenced(ToSet(call.found))) \in Nat
            /\ Unreferenced(ToSet(call.found))' = Unreferenced(ToSet(call.found))
        BY <4>2, Finite DEF Unreferenced
      <4> QED
        BY <1>3, <1>7, <2>1, <2>3, <4>1, <4>3 DEF IInv, CallShape
    <3> QED
      BY <3>1, <3>2
  <2> QED
    BY <1>1, <1>2, <1>4, <1>5, <2>4 DEF IInv
<1>8. CASE call.at \notin {"touch", "evict", "alloc"}
  <2>1. CallShape'
    BY <1>8 DEF IInv, CallShape
  <2> QED
    BY <1>1, <1>2, <1>4, <1>5, <2>1 DEF IInv
<1> QED
  BY <1>6, <1>7, <1>8

\* The hits are the blocks the index has for the prompt's first hashes.
LEMMA HitsFound ==
    ASSUME IInv, NEW r \in Requests
    PROVE  /\ hits(r) \in Seq(Blocks) /\ Len(hits(r)) < Len(Prompt[r])
           /\ \A i \in 1..Len(hits(r)) : Prompt[r][i] # NoHash /\ cached[Prompt[r][i]] = hits(r)[i]
<1> DEFINE hit(i) == Prompt[r][i] # NoHash /\ cached[Prompt[r][i]] # NoBlock
           L == Len(Prompt[r])
           longest(k) == /\ \A i \in 1..k : hit(i)
                         /\ k + 1 <= L - 1 => ~hit(k + 1)
           n == CHOOSE k \in 0..(L - 1) : longest(k)
           misses == {k \in Nat : k <= L - 2 /\ ~hit(k + 1)}
<1>1. L \in Nat /\ L >= 1
  BY Prompts
<1>2. \E k \in 0..(L - 1) : longest(k)
  <2>1. CASE misses = {}
    <3>1. \A i \in 1..(L - 1) : hit(i)
      <4> SUFFICES ASSUME NEW i \in 1..(L - 1) PROVE hit(i)
        OBVIOUS
      <4> DEFINE k == i - 1
      <4>1. k \in Nat /\ k <= L - 2 /\ k + 1 = i
        BY <1>1
      <4> HIDE DEF k, hit
      <4>2. hit(k + 1)
        BY <2>1, <4>1
      <4> QED
        BY <4>1, <4>2
    <3>2. longest(L - 1) /\ L - 1 \in 0..(L - 1)
      BY <1>1, <3>1
    <3> QED
      BY <3>2
  <2>2. CASE misses # {}
    <3>1. PICK k \in misses : \A m \in misses : ~(<<m, k>> \in OpToRel(<, Nat))
      <4> HIDE DEF misses
      <4>1. misses \subseteq Nat
        BY DEF misses
      <4> QED
        BY <2>2, <4>1, NatLessThanWellFounded, WFMin
    <3>2. \A m \in misses : ~(m < k)
      BY <3>1 DEF OpToRel
    <3>3. \A i \in 1..k : hit(i)
      <4> SUFFICES ASSUME NEW i \in 1..k PROVE hit(i)
        OBVIOUS
      <4> DEFINE m == i - 1
      <4>1. m \in Nat /\ m <= L - 2 /\ m + 1 = i /\ m < k
        BY <1>1
      <4> HIDE DEF m, hit
      <4>2. hit(m + 1)
        BY <3>2, <4>1
      <4> QED
        BY <4>1, <4>2
    <3>4. longest(k) /\ k \in 0..(L - 1)
      BY <1>1, <3>3
    <3> QED
      BY <3>4
  <2> QED
    BY <2>1, <2>2
<1> HIDE DEF longest
<1>3. n \in 0..(L - 1) /\ longest(n)
  BY <1>2
<1>4. hits(r) = [i \in 1..n |-> cached[Prompt[r][i]]]
  BY DEF hits, longest
<1> HIDE DEF n
<1>5. \A i \in 1..n : hit(i) /\ cached[Prompt[r][i]] \in Blocks
  <2> SUFFICES ASSUME NEW i \in 1..n PROVE hit(i) /\ cached[Prompt[r][i]] \in Blocks
    OBVIOUS
  <2>1. hit(i)
    BY <1>3 DEF longest
  <2>2. i \in 1..L
    BY <1>1, <1>3
  <2>3. Prompt[r][i] \in Hashes
    BY <2>1, <2>2, Prompts
  <2> QED
    BY <2>1, <2>3 DEF IInv, Types
<1>6. hits(r) \in Seq(Blocks) /\ Len(hits(r)) = n
  BY <1>3, <1>4, <1>5
<1> QED
  BY <1>1, <1>3, <1>4, <1>5, <1>6

LEMMA ScheduleKeeps ==
    ASSUME IInv, NEW r \in Requests, Schedule(r)
    PROVE  IInv'
<1> USE DEF poolVars, requestVars
<1> DEFINE new == held[r] = <<>>
           computed == IF new THEN hits(r) ELSE held[r]
<1>1. PICK upTo \in (Len(computed) + 1)..Len(Prompt[r]) :
          /\ (upTo - Len(computed)) + Cardinality({b \in ToSet(computed) : ref[b] = 0}) <= NumFree
          /\ call' = [at |-> IF new THEN "touch" ELSE "evict", of |-> r, need |-> upTo - Len(computed),
                      found |-> IF new THEN computed ELSE <<>>]
  BY DEF Schedule
<1>2. /\ UNCHANGED <<mgr, wanted, memory, ref, cached, keyOf, evictable, held, numCached, failed, content, lowered>>
      /\ ~failed /\ squeezed' = (memory < Cardinality(pages(mgr.used)))
  BY DEF Schedule, Ready
<1>3. computed \in Seq(Blocks) /\ Len(computed) \in Nat /\ Len(Prompt[r]) \in Nat
  BY HitsFound, Prompts, Elements DEF IInv, Types
<1>4. LET U == Unreferenced(ToSet(computed)) IN Cardinality(U) \in Nat /\ U = {b \in ToSet(computed) : ref[b] = 0}
  BY <1>3, Elements, Finite DEF Unreferenced
<1>5. NumFree \in Int
  <2>1. availableSize(mgr) \in Int /\ Len(evictable) \in Nat
    BY Available, Elements DEF IInv, Types
  <2> QED
    BY <2>1 DEF NumFree
<1>6. NumFree' = NumFree
  BY <1>2 DEF NumFree, availableSize, freePages
<1> HIDE DEF computed
<1>7. call'.need \in Nat \ {0} /\ Len(computed) + call'.need <= Len(Prompt[r]) /\ call'.of = r
      /\ call'.need + Cardinality(Unreferenced(ToSet(computed))) <= NumFree'
  BY <1>1, <1>3, <1>4, <1>6
<1>8. CallShape'
  <2>1. CASE new
    <3>1. call'.at = "touch" /\ call'.found = hits(r) /\ computed = hits(r)
      BY <1>1, <2>1 DEF computed
    <3>2. call' \in Calls
      BY <1>1, <1>3, <1>7, <2>1 DEF Calls
    <3>3. Unreferenced(ToSet(call.found))' = Unreferenced(ToSet(computed))
      BY <1>2, <3>1 DEF Unreferenced
    <3>4. \A i \in 1..Len(call'.found) :
              Prompt[call'.of][i] # NoHash /\ cached'[Prompt[call'.of][i]] = call'.found[i]
      BY <1>2, <1>7, <3>1, HitsFound
    <3>5. held'[r] = <<>> /\ Len(call'.found) + call'.need <= Len(Prompt[r])
      BY <1>2, <1>7, <2>1, <3>1
    <3>6. call'.need + Cardinality(Unreferenced(ToSet(call.found))') <= NumFree'
      BY <1>7, <3>3
    <3> QED
      BY <1>7, <3>1, <3>2, <3>4, <3>5, <3>6 DEF CallShape
  <2>2. CASE ~new
    <3>1. call'.at = "evict" /\ computed = held[r]
      BY <1>1, <2>2 DEF computed
    <3>2. call' \in Calls
      BY <1>1, <1>3, <1>7, <2>2, EmptySeq DEF Calls
    <3>3. call'.need <= NumFree'
      BY <1>4, <1>5, <1>6, <1>7
    <3> QED
      BY <1>2, <1>7, <2>2, <3>1, <3>2, <3>3 DEF CallShape
  <2> QED
    BY <2>1, <2>2
<1>9. Types' /\ LimitShape' /\ NullApart'
  BY <1>2 DEF IInv, Types, LimitShape, NullApart
<1>11. MemoryShape'
  <2>1. mgr.used \in SUBSET Blocks /\ memory \in Nat
    BY Numbers DEF IInv, Types, Manager
  <2>2. Cardinality(pages(mgr.used)) \in Nat
    BY <2>1, FewerPages
  <2>3. ~squeezed' => Cardinality(pages(mgr.used)) <= memory
    <3>1. ~squeezed' => ~(memory < Cardinality(pages(mgr.used)))
      BY <1>2, Zenon
    <3> QED
      BY <2>1, <2>2, <3>1
  <2>4. pages(mgr'.used) = pages(mgr.used) /\ memory' = memory
    BY <1>2
  <2> QED
    BY <2>3, <2>4 DEF MemoryShape, pages
<1>10. HitsAreValid' /\ HeldContentKept' /\ BlocksAccounted'
  BY <1>2 DEF IInv, HitsAreValid, HeldContentKept, BlocksAccounted
<1> QED
  BY <1>8, <1>9, <1>10, <1>11 DEF IInv

\* The evictable blocks among the hits are those without a reference.
LEMMA HitsAreUsed ==
    ASSUME IInv, call.at = "touch"
    PROVE  LET bs == ToSet(call.found) IN
           /\ bs \subseteq mgr.used /\ NullBlock \notin bs /\ bs \subseteq Blocks
           /\ \A i \in 1..Len(call.found) : content[call.found[i]] = Prompt[call.of][i]
           /\ IsInjective(call.found) /\ Len(call.found) <= Len(Prompt[call.of])
           /\ ToSet(evictable) \cap bs = Unreferenced(bs)
<1> DEFINE r == call.of
           bs == ToSet(call.found)
           n == Len(call.found)
<1>1. call # Idle
  BY DEF Idle
<1>2. r \in Requests /\ call.found \in Seq(Blocks) /\ call.need \in Nat
  BY <1>1, CallIs
<1>3. n \in Nat /\ n <= Len(Prompt[r]) /\ \A i \in 1..n : Prompt[r][i] # NoHash /\ cached[Prompt[r][i]] = call.found[i]
  BY <1>2, Prompts, Elements DEF IInv, CallShape
<1>4. DOMAIN call.found = 1..n /\ bs = {call.found[i] : i \in 1..n} /\ bs \subseteq Blocks
  BY <1>2, Elements
<1>5. ASSUME NEW i \in 1..n
      PROVE  LET b == call.found[i] IN b \in mgr.used /\ keyOf[b] = Prompt[r][i] /\ content[b] = Prompt[r][i] /\ b # NullBlock
  <2>1. i \in 1..Len(Prompt[r])
    BY <1>2, <1>3, Prompts
  <2>2. Prompt[r][i] \in Hashes
    BY <1>2, <1>3, <2>1, Prompts
  <2>3. cached[Prompt[r][i]] = call.found[i] /\ call.found[i] # NoBlock
    BY <1>3, <1>4, NoBlockAssumption
  <2> HIDE DEF r, n
  <2> QED
    BY <1>3, <2>2, <2>3 DEF IInv, HitsAreValid, NullApart
<1>6. IsInjective(call.found)
  <2> SUFFICES ASSUME NEW i \in 1..n, NEW j \in 1..n, call.found[i] = call.found[j] PROVE i = j
    BY <1>4 DEF IsInjective
  <2>1. Prompt[r][i] = Prompt[r][j] /\ Prompt[r][i] # NoHash
    BY <1>3, <1>5
  <2>2. i \in 1..Len(Prompt[r]) /\ j \in 1..Len(Prompt[r])
    BY <1>2, <1>3, Prompts
  <2> QED
    BY <1>2, <2>1, <2>2, Prompts
<1>7. bs \subseteq mgr.used /\ NullBlock \notin bs
  BY <1>4, <1>5
<1>8. ToSet(evictable) \cap bs = Unreferenced(bs)
  <2> HIDE DEF bs
  <2> QED
    BY <1>4, <1>7 DEF IInv, BlocksAccounted, Unreferenced, Types
<1> QED
  BY <1>3, <1>4, <1>5, <1>6, <1>7, <1>8

LEMMA TouchKeeps ==
    ASSUME IInv, Touch
    PROVE  IInv'
<1> DEFINE r == call.of
           bs == ToSet(call.found)
           n == Len(call.found)
<1>1. /\ call.at = "touch" /\ call' = [call EXCEPT !.at = "evict"]
      /\ ref' = [b \in Blocks |-> IF b \in bs THEN ref[b] + 1 ELSE ref[b]]
      /\ evictable' = kept(evictable, Blocks \ bs)
      /\ held' = [held EXCEPT ![r] = call.found]
      /\ numCached' = [numCached EXCEPT ![r] = n]
      /\ UNCHANGED <<mgr, wanted, memory, cached, keyOf, failed, content, lowered, squeezed>>
  BY DEF Touch, historyVars
<1>2. call # Idle
  BY <1>1 DEF Idle
<1>3. r \in Requests /\ call.found \in Seq(Blocks) /\ call.need \in Nat /\ call.need >= 1 /\ call \in Calls
  BY <1>2, CallIs
<1>4. /\ bs \subseteq mgr.used /\ NullBlock \notin bs /\ bs \subseteq Blocks
      /\ \A i \in 1..n : content[call.found[i]] = Prompt[r][i]
      /\ IsInjective(call.found) /\ n <= Len(Prompt[r]) /\ n \in Nat
      /\ ToSet(evictable) \cap bs = Unreferenced(bs)
  BY <1>1, <1>3, HitsAreUsed, Elements
<1>5. /\ held[r] = <<>> /\ n + call.need <= Len(Prompt[r])
      /\ ~squeezed => call.need + Cardinality(Unreferenced(bs)) <= NumFree
  BY <1>1 DEF IInv, CallShape
<1>6. held[r] = <<>> => ToSet(held[r]) = {}
  BY EmptySeq DEF ToSet
<1>7. /\ evictable' \in Seq(Blocks) /\ IsInjective(evictable')
      /\ ToSet(evictable') = ToSet(evictable) \ bs
  BY <1>1, Kept, Elements DEF IInv, Types
<1> HIDE DEF bs, n
<1>8. \A q \in Requests : held'[q] = IF q = r THEN call.found ELSE held[q]
  BY <1>1, <1>3 DEF IInv, Types
<1>9. Types'
  <2>1. ref' \in [Blocks -> Nat]
    BY <1>1 DEF IInv, Types
  <2>2. held' \in [Requests -> Seq(Blocks)] /\ numCached' \in [Requests -> Nat]
    BY <1>1, <1>3, <1>4 DEF IInv, Types
  <2>3. \A q \in Requests : IsInjective(held'[q]) /\ Len(held'[q]) <= Len(Prompt[q]) /\ numCached'[q] <= Len(Prompt[q])
    BY <1>1, <1>3, <1>4, <1>8 DEF IInv, Types, n
  <2> QED
    BY <1>1, <1>7, <2>1, <2>2, <2>3 DEF IInv, Types
<1>10. NullApart'
  BY <1>1, <1>4, Numbers DEF IInv, NullApart
<1>11. call'.at = "evict" /\ call'.need = call.need /\ call'.of = r /\ call' \in Calls
  BY <1>1, <1>3 DEF Calls
<1>12. ~squeezed' => call'.need <= NumFree'
  <2>1. Len(evictable) = Cardinality(ToSet(evictable)) /\ IsFiniteSet(ToSet(evictable)) /\ Len(evictable) \in Nat
    BY ElementCount, Elements DEF IInv, Types
  <2>2. Len(evictable') = Cardinality(ToSet(evictable')) /\ Len(evictable') \in Nat
    BY <1>7, ElementCount, Elements
  <2>3. Cardinality(ToSet(evictable) \ bs) = Cardinality(ToSet(evictable)) - Cardinality(ToSet(evictable) \cap bs)
    BY <2>1, FS_Difference
  <2>4. Unreferenced(bs) \subseteq Blocks
    BY <1>4 DEF Unreferenced
  <2>5. Cardinality(Unreferenced(bs)) \in Nat
    BY <2>4, Finite
  <2>6. Len(evictable') = Len(evictable) - Cardinality(Unreferenced(bs))
    BY <1>4, <1>7, <2>1, <2>2, <2>3
  <2>7. availableSize(mgr) \in Int /\ availableSize(mgr)' = availableSize(mgr)
    BY <1>1, Available DEF IInv, Types, availableSize, freePages
  <2> QED
    BY <1>1, <1>3, <1>5, <1>11, <2>1, <2>5, <2>6, <2>7 DEF NumFree
<1>13. CallShape'
  <2>1. Len(held'[r]) = n
    BY <1>3, <1>8 DEF n
  <2> QED
    BY <1>5, <1>11, <1>12, <2>1 DEF CallShape
<1>14. LimitShape' /\ MemoryShape'
  BY <1>1, <1>11 DEF IInv, LimitShape, MemoryShape
<1>15. HitsAreValid'
  BY <1>1 DEF IInv, HitsAreValid
<1>16. HeldContentKept'
  <2> SUFFICES ASSUME NEW q \in Requests, NEW i \in 1..Len(held'[q])
               PROVE  held'[q][i] \in mgr.used /\ content[held'[q][i]] = Prompt[q][i]
    BY <1>1 DEF HeldContentKept
  <2>1. CASE q # r
    BY <1>8, <2>1 DEF IInv, HeldContentKept
  <2>2. CASE q = r
    <3>1. i \in 1..n /\ held'[q][i] = call.found[i] /\ call.found[i] \in bs
      BY <1>3, <1>8, <2>2, Elements DEF n, bs
    <3> QED
      BY <1>4, <2>2, <3>1
  <2> QED
    BY <2>1, <2>2
<1>17. BlocksAccounted'
  <2>1. ASSUME NEW b \in Blocks PROVE ref'[b] = Cardinality({q \in Requests : b \in ToSet(held'[q])})
    <3> DEFINE H == {q \in Requests : b \in ToSet(held'[q])}
    <3>1. r \notin Holders(b) /\ IsFiniteSet(Holders(b)) /\ ref[b] = Cardinality(Holders(b))
      BY <1>5, <1>6, HoldersFinite, RefIs DEF Holders, IInv
    <3>2. CASE b \in bs
      <4>1. H = Holders(b) \cup {r}
        BY <1>3, <1>8, <3>2 DEF Holders, bs
      <4>2. Cardinality(Holders(b) \cup {r}) = Cardinality(Holders(b)) + 1
        BY <3>1, FS_AddElement
      <4> QED
        BY <1>1, <3>1, <3>2, <4>1, <4>2
    <3>3. CASE b \notin bs
      <4>1. H = Holders(b)
        BY <1>3, <1>5, <1>6, <1>8, <3>3 DEF Holders, bs
      <4> QED
        BY <1>1, <3>1, <3>3, <4>1
    <3> QED
      BY <3>2, <3>3
  <2>2. \A b \in Blocks : ref[b] \in Nat /\ ref'[b] = IF b \in bs THEN ref[b] + 1 ELSE ref[b]
    BY <1>1 DEF IInv, Types
  <2>3. mgr.used = {NullBlock} \cup ToSet(evictable) \cup {b \in Blocks : ref[b] > 0}
    BY DEF IInv, BlocksAccounted
  <2>4. {b \in Blocks : ref'[b] > 0} = {b \in Blocks : ref[b] > 0} \cup bs
    BY <1>4, <2>2
  <2>5. mgr.used = {NullBlock} \cup ToSet(evictable') \cup {b \in Blocks : ref'[b] > 0}
    BY <1>4, <1>7, <2>3, <2>4
  <2>6. \A b \in ToSet(evictable') : ref'[b] = 0 /\ keyOf'[b] # NoHash
    BY <1>1, <1>7, <2>2, Elements DEF IInv, BlocksAccounted, Types
  <2> QED
    BY <1>1, <2>1, <2>5, <2>6 DEF BlocksAccounted
<1> QED
  BY <1>9, <1>10, <1>13, <1>14, <1>15, <1>16, <1>17 DEF IInv

-----------------------------------------------------------------------------
(* Steps that forget blocks *)

\* The indexes stay right if every block that is freed is forgotten or had no key.
LEMMA ForgetKeeps ==
    ASSUME IInv, NEW bs, bs \subseteq Blocks, Forget(bs), content' = content,
           \A b \in mgr.used \ mgr'.used : b \in bs \/ keyOf[b] = NoHash
    PROVE  /\ HitsAreValid'
           /\ cached' \in [Hashes -> Blocks \cup {NoBlock}] /\ keyOf' \in [Blocks -> Hashes \cup {NoHash}]
           /\ \A b \in Blocks : keyOf'[b] = IF b \in bs THEN NoHash ELSE keyOf[b]
<1>1. \A h \in Hashes : cached[h] \in Blocks \cup {NoBlock}
  BY DEF IInv, Types
<1>2. \A b \in Blocks : keyOf[b] \in Hashes \cup {NoHash}
  BY DEF IInv, Types
<1>3. \A h \in Hashes : cached'[h] = IF \E b \in bs : keyOf[b] = h THEN NoBlock ELSE cached[h]
  BY DEF Forget
<1>4. \A b \in Blocks : keyOf'[b] = IF b \in bs THEN NoHash ELSE keyOf[b]
  BY DEF Forget
<1>5. cached' \in [Hashes -> Blocks \cup {NoBlock}] /\ keyOf' \in [Blocks -> Hashes \cup {NoHash}]
  BY <1>1, <1>2 DEF Forget
<1>6. ASSUME NEW h \in Hashes, cached'[h] # NoBlock
      PROVE  cached'[h] \in mgr'.used /\ keyOf'[cached'[h]] = h /\ content'[cached'[h]] = h
  <2>2. cached'[h] = cached[h] /\ cached[h] # NoBlock /\ cached[h] \in Blocks
    BY <1>1, <1>3, <1>6
  <2>3. cached[h] \in mgr.used /\ keyOf[cached[h]] = h /\ content[cached[h]] = h
    BY <2>2 DEF IInv, HitsAreValid
  <2>4. cached[h] \notin bs /\ cached[h] \in Blocks /\ h # NoHash
    BY <1>1, <1>3, <1>6, <2>2, <2>3, PoolAssumption
  <2> QED
    BY <1>4, <2>2, <2>3, <2>4
<1>7. ASSUME NEW b \in Blocks, keyOf'[b] # NoHash
      PROVE  cached'[keyOf'[b]] = b
  <2>1. b \notin bs /\ keyOf'[b] = keyOf[b] /\ keyOf[b] \in Hashes
    BY <1>2, <1>4, <1>7
  <2>2. cached[keyOf[b]] = b
    BY <2>1, PoolAssumption DEF IInv, HitsAreValid
  <2>3. ASSUME NEW c \in bs, keyOf[c] = keyOf[b] PROVE FALSE
    BY <2>1, <2>2, <2>3, PoolAssumption DEF IInv, HitsAreValid
  <2> QED
    BY <1>3, <2>1, <2>2, <2>3
<1>8. HitsAreValid'
  BY <1>6, <1>7 DEF HitsAreValid
<1> QED
  BY <1>4, <1>5, <1>8

\* Evictable blocks leave the pool, with what else is forgotten.
LEMMA EvictionKeeps ==
    ASSUME IInv, NEW bs, bs \subseteq Blocks, NEW E, E = bs \cap ToSet(evictable),
           Forget(bs), mgr' = Freed(mgr, E),
           evictable' \in Seq(Blocks), IsInjective(evictable'), ToSet(evictable') = ToSet(evictable) \ E,
           UNCHANGED <<wanted, memory, ref, requestVars, content, lowered, squeezed>>,
           failed' \in BOOLEAN, failed' => lowered \/ squeezed
    PROVE  /\ Types' /\ NullApart' /\ LimitShape'
           /\ HitsAreValid' /\ HeldContentKept' /\ BlocksAccounted'
<1> USE DEF requestVars
<1>1. Manager(mgr') /\ mgr'.used = mgr.used \ E
      /\ (mgr.shrinkTo = 0 => mgr'.limit = mgr.limit /\ mgr'.shrinkTo = 0)
  BY FreedManager DEF IInv, Types
<1>2. /\ HitsAreValid'
      /\ cached' \in [Hashes -> Blocks \cup {NoBlock}] /\ keyOf' \in [Blocks -> Hashes \cup {NoHash}]
      /\ \A b \in Blocks : keyOf'[b] = IF b \in bs THEN NoHash ELSE keyOf[b]
  BY <1>1, ForgetKeeps
<1>3. Types'
  BY <1>1, <1>2 DEF IInv, Types
<1>4. NullApart'
  BY <1>2, Numbers DEF IInv, NullApart
<1>5. LimitShape'
  BY <1>1 DEF IInv, LimitShape
<1>6. HeldContentKept'
  <2> SUFFICES ASSUME NEW q \in Requests, NEW i \in 1..Len(held[q])
               PROVE  held[q][i] \in mgr'.used /\ content[held[q][i]] = Prompt[q][i]
    BY DEF HeldContentKept
  <2>1. held[q] \in Seq(Blocks)
    BY DEF IInv, Types
  <2>2. held[q][i] \in ToSet(held[q])
    BY <2>1, Elements
  <2>3. held[q][i] \notin E
    BY <2>2, HeldBlocks
  <2> QED
    BY <1>1, <2>3 DEF IInv, HeldContentKept
<1>7. BlocksAccounted'
  <2>1. \A b \in Blocks : ref'[b] = Cardinality({q \in Requests : b \in ToSet(held'[q])})
    BY DEF IInv, BlocksAccounted
  <2>2. mgr.used = {NullBlock} \cup ToSet(evictable) \cup {b \in Blocks : ref[b] > 0}
    BY DEF IInv, BlocksAccounted
  <2>3. \A b \in E : b # NullBlock /\ ~(ref[b] > 0)
    BY DEF IInv, BlocksAccounted, NullApart
  <2>4. mgr'.used = {NullBlock} \cup ToSet(evictable') \cup {b \in Blocks : ref'[b] > 0}
    BY <1>1, <2>2, <2>3
  <2>5. \A b \in ToSet(evictable') : ref'[b] = 0 /\ keyOf'[b] # NoHash
    BY <1>2, Elements DEF IInv, BlocksAccounted, Types
  <2> QED
    BY <2>1, <2>4, <2>5 DEF BlocksAccounted
<1> QED
  BY <1>2, <1>3, <1>4, <1>5, <1>6, <1>7

LEMMA ReadyKeepsCall ==
    ASSUME call' = call, call = Idle
    PROVE  CallShape' /\ MemoryShape'
BY DEF CallShape, MemoryShape, Idle

LEMMA EvictBlocksKeeps ==
    ASSUME IInv, NEW bs \in SUBSET Blocks, EvictBlocks(bs)
    PROVE  IInv'
<1> DEFINE E == bs \cap ToSet(evictable)
<1>1. /\ call = Idle /\ call' = call
      /\ Forget(bs) /\ evictable' = kept(evictable, Blocks \ bs) /\ mgr' = Freed(mgr, E)
      /\ UNCHANGED <<wanted, memory, ref, requestVars, failed, content, lowered, squeezed>>
  BY DEF EvictBlocks, Ready, historyVars
<1>2. /\ evictable' \in Seq(Blocks) /\ IsInjective(evictable') /\ ToSet(evictable') = ToSet(evictable) \ E
  BY <1>1, Kept, Elements DEF IInv, Types
<1> HIDE DEF E
<1>3. /\ Types' /\ NullApart' /\ LimitShape' /\ HitsAreValid' /\ HeldContentKept' /\ BlocksAccounted'
  BY <1>1, <1>2, EvictionKeeps DEF E, IInv, Types, LimitShape
<1> QED
  BY <1>1, <1>3, ReadyKeepsCall DEF IInv

LEMMA ResetPrefixCacheKeeps ==
    ASSUME IInv, ResetPrefixCache
    PROVE  IInv'
<1> DEFINE E == ToSet(evictable)
<1>1. /\ call = Idle /\ call' = call
      /\ Forget(Blocks) /\ evictable' = <<>> /\ mgr' = Freed(mgr, E)
      /\ UNCHANGED <<wanted, memory, ref, requestVars, failed, content, lowered, squeezed>>
  BY DEF ResetPrefixCache, Ready, historyVars
<1>2. evictable' \in Seq(Blocks) /\ IsInjective(evictable') /\ ToSet(evictable') = E \ E
  BY <1>1, EmptySeq DEF IsInjective, ToSet
<1>3. E = Blocks \cap ToSet(evictable)
  BY Elements DEF IInv, Types
<1> HIDE DEF E
<1>4. /\ Types' /\ NullApart' /\ LimitShape' /\ HitsAreValid' /\ HeldContentKept' /\ BlocksAccounted'
  BY <1>1, <1>2, <1>3, EvictionKeeps DEF E, IInv, Types, LimitShape
<1> QED
  BY <1>1, <1>4, ReadyKeepsCall DEF IInv

LEMMA EvictKeeps ==
    ASSUME IInv, Evict
    PROVE  IInv'
<1> DEFINE avail == availableSize(mgr)
           missing == call.need - avail
           n == IF call.need > NumFree \/ missing <= 0 THEN 0 ELSE missing
           E == oldest(evictable, n)
<1>1. /\ call.at = "evict" /\ ~failed /\ failed' = (call.need > NumFree)
      /\ call' = [call EXCEPT !.at = "alloc"]
      /\ Forget(E) /\ evictable' = rest(evictable, n) /\ mgr' = Freed(mgr, E)
      /\ UNCHANGED <<wanted, memory, ref, requestVars, content, lowered, squeezed>>
  BY DEF Evict, historyVars
<1>2. call # Idle
  BY <1>1 DEF Idle
<1>3. call.of \in Requests /\ call.need \in Nat /\ call \in Calls
  BY <1>2, CallIs
<1>4. (~squeezed => call.need <= NumFree) /\ Len(held[call.of]) + call.need <= Len(Prompt[call.of])
  BY <1>1 DEF IInv, CallShape
<1>5. avail \in Int /\ Len(evictable) \in Nat /\ NumFree = avail + Len(evictable)
  BY Available, Elements DEF IInv, Types, NumFree
<1>6. failed' \in BOOLEAN /\ (failed' => squeezed)
  BY <1>1, <1>3, <1>4, <1>5 DEF IInv, Types
<1>7. n \in 0..Len(evictable) /\ (~squeezed => n >= missing)
  BY <1>3, <1>4, <1>5
<1>8. /\ E \cup ToSet(evictable') = ToSet(evictable) /\ E \cap ToSet(evictable') = {}
      /\ IsFiniteSet(E) /\ Cardinality(E) = n
      /\ evictable' \in Seq(Blocks) /\ IsInjective(evictable')
  <2> HIDE DEF n, missing
  <2>1. evictable \in Seq(Blocks) /\ IsInjective(evictable) /\ n \in 0..Len(evictable)
    BY <1>7 DEF IInv, Types
  <2> QED
    BY <1>1, <2>1, Parts
<1> HIDE DEF E, n
<1>9. E \subseteq Blocks /\ E = E \cap ToSet(evictable) /\ ToSet(evictable') = ToSet(evictable) \ E
  BY <1>8, Elements DEF IInv, Types
<1>10. /\ Types' /\ NullApart' /\ LimitShape' /\ HitsAreValid' /\ HeldContentKept' /\ BlocksAccounted'
  BY <1>1, <1>6, <1>8, <1>9, EvictionKeeps
<1>13. Manager(mgr') /\ mgr'.used = mgr.used \ E /\ mgr.used \in SUBSET Blocks /\ memory \in Nat
  <2>1. Manager(mgr) /\ memory \in 0..NumPages
    BY DEF IInv, Types
  <2>2. mgr.used \in SUBSET Blocks /\ memory \in Nat
    BY <2>1, Numbers DEF Manager
  <2> QED
    BY <1>1, <2>1, <2>2, FreedManager
<1>14. MemoryShape'
  <2>1. call.at \in {"touch", "evict", "alloc"} /\ ~squeezed => Cardinality(pages(mgr.used)) <= memory
    BY DEF IInv, MemoryShape
  <2>2. Cardinality(pages(mgr'.used)) \in Nat /\ Cardinality(pages(mgr'.used)) <= Cardinality(pages(mgr.used))
        /\ Cardinality(pages(mgr.used)) \in Nat
    BY <1>13, FewerPages
  <2>3. ~squeezed => Cardinality(pages(mgr'.used)) <= memory
    BY <1>1, <1>13, <2>1, <2>2
  <2> QED
    BY <1>1, <2>3 DEF MemoryShape, pages
<1>11. ASSUME ~lowered', ~squeezed' PROVE call'.need <= availableSize(mgr)'
  <2>1. mgr.shrinkTo = 0 /\ mgr.limit = NumPages /\ Cardinality(pages(mgr.used)) <= memory
    BY <1>1, <1>11 DEF IInv, LimitShape, MemoryShape
  <2>2. mgr'.limit = NumPages /\ mgr'.shrinkTo = 0 /\ Cardinality(pages(mgr'.used)) <= memory
    <3>1. mgr'.limit = mgr.limit /\ mgr'.shrinkTo = 0
      BY <1>1, <2>1, FreedManager DEF IInv, Types
    <3>2. Cardinality(pages(mgr'.used)) \in Nat /\ Cardinality(pages(mgr'.used)) <= Cardinality(pages(mgr.used))
          /\ Cardinality(pages(mgr.used)) \in Nat
      BY <1>13, FewerPages
    <3> QED
      BY <1>13, <2>1, <3>1, <3>2
  <2>3. avail = memory * BlocksPerPage - Cardinality(mgr.used)
    BY <2>1, Available DEF IInv, Types
  <2>4. availableSize(mgr)' = memory * BlocksPerPage - Cardinality(mgr'.used)
    <3>1. availableSize(mgr') = memory * BlocksPerPage - Cardinality(mgr'.used)
      BY <1>13, <2>2, Available DEF IInv, Types
    <3>2. availableSize(mgr)' = availableSize(mgr')
      BY <1>1 DEF availableSize, freePages
    <3> QED
      BY <3>1, <3>2
  <2>5. mgr.used \subseteq Blocks /\ memory \in Nat
    BY <1>13
  <2>6. E \subseteq mgr.used
    BY <1>9 DEF IInv, BlocksAccounted
  <2>7. IsFiniteSet(mgr.used) /\ Cardinality(mgr.used) \in Nat /\ mgr.used \cap E = E
    BY <2>5, <2>6, Finite
  <2>8. Cardinality(mgr.used \ E) = Cardinality(mgr.used) - Cardinality(mgr.used \cap E)
    BY <2>7, FS_Difference
  <2>9. Cardinality(mgr'.used) = Cardinality(mgr.used) - n
    BY <1>8, <1>13, <2>7, <2>8
  <2>10. memory * BlocksPerPage \in Int /\ n \in Int
    BY <1>7, <2>5, Numbers
  <2>11. availableSize(mgr)' = avail + n
    BY <2>3, <2>4, <2>7, <2>9, <2>10
  <2>12. call'.need = call.need
    BY <1>1, <1>3 DEF Calls
  <2> QED
    BY <1>1, <1>3, <1>5, <1>7, <1>11, <2>10, <2>11, <2>12
<1>12. CallShape'
  <2>1. call'.at = "alloc" /\ call'.need = call.need /\ call'.of = call.of /\ call' \in Calls
    BY <1>1, <1>3 DEF Calls
  <2>2. held' = held
    BY <1>1 DEF requestVars
  <2> QED
    BY <1>4, <1>11, <2>1, <2>2 DEF CallShape
<1> QED
  BY <1>10, <1>12, <1>14 DEF IInv

\* free_blocks: blocks without a key go back, the others become evictable.
LEMMA FreeKeeps ==
    ASSUME IInv, NEW r \in Requests, Free(r)
    PROVE  IInv'
<1> DEFINE single == {b \in Blocks : ref[b] = 1}
           keyed == {b \in Blocks : keyOf[b] # NoHash}
           released == kept(Reverse(held[r]), single)
           joining == kept(released, keyed)
           pool == evictable \o joining
           excess == IF MaxCached >= 0 /\ Len(pool) > MaxCached THEN Len(pool) - MaxCached ELSE 0
           G == {b \in ToSet(released) : keyOf[b] = NoHash}
           E == oldest(pool, excess)
           bs == ToSet(held[r])
<1>1. /\ call = Idle /\ ~failed /\ call' = call
      /\ ref' = [b \in Blocks |-> IF b \in bs THEN ref[b] - 1 ELSE ref[b]]
      /\ held' = [held EXCEPT ![r] = <<>>] /\ numCached' = [numCached EXCEPT ![r] = 0]
      /\ evictable' = rest(pool, excess) /\ Forget(E)
      /\ mgr' = Freed(Freed(mgr, G), E)
      /\ UNCHANGED <<wanted, memory, failed, content, lowered, squeezed>>
  BY DEF Free, Ready, historyVars
<1>2. held[r] \in Seq(Blocks) /\ IsInjective(held[r]) /\ evictable \in Seq(Blocks) /\ IsInjective(evictable)
  BY DEF IInv, Types
<1>3. released \in Seq(Blocks) /\ IsInjective(released) /\ ToSet(released) = bs \cap single
  <2> DEFINE v == Reverse(held[r])
  <2>1. v \in Seq(Blocks) /\ IsInjective(v) /\ ToSet(v) = bs
    BY <1>2, Reversed
  <2> HIDE DEF v, single
  <2> QED
    BY <2>1, Kept DEF v
<1>4. joining \in Seq(Blocks) /\ IsInjective(joining) /\ ToSet(joining) = ToSet(released) \cap keyed
  <2> HIDE DEF released, keyed
  <2> QED
    BY <1>3, Kept
<1> HIDE DEF released, joining
<1>5. bs \subseteq Blocks /\ \A b \in bs : b \in mgr.used /\ b # NullBlock /\ b \notin ToSet(evictable) /\ ref[b] > 0
  BY <1>2, Elements, HeldBlocks
<1>6. /\ pool \in Seq(Blocks) /\ IsInjective(pool) /\ ToSet(pool) = ToSet(evictable) \cup (bs \cap single \cap keyed)
  BY <1>2, <1>3, <1>4, <1>5, Joined
<1> HIDE DEF pool
<1>7. excess \in 0..Len(pool)
  <2>1. Len(pool) \in Nat
    BY <1>6, Elements
  <2> QED
    BY <2>1, PoolAssumption
<1> HIDE DEF excess
<1>8. /\ E \cup ToSet(evictable') = ToSet(pool) /\ E \cap ToSet(evictable') = {}
      /\ evictable' \in Seq(Blocks) /\ IsInjective(evictable')
  BY <1>1, <1>6, <1>7, Parts
<1> HIDE DEF E
<1>9. G = (bs \cap single) \ keyed
  BY <1>3 DEF keyed, single
<1> HIDE DEF G
<1>10. Manager(mgr') /\ mgr'.used = (mgr.used \ G) \ E
       /\ (mgr.shrinkTo = 0 => mgr'.limit = mgr.limit /\ mgr'.shrinkTo = 0)
  <2> DEFINE m == Freed(mgr, G)
  <2>1. Manager(m) /\ m.used = mgr.used \ G /\ (mgr.shrinkTo = 0 => m.limit = mgr.limit /\ m.shrinkTo = 0)
    BY FreedManager DEF IInv, Types
  <2>2. mgr' = Freed(m, E)
    BY <1>1
  <2> HIDE DEF m
  <2> QED
    BY <2>1, <2>2, FreedManager
<1>11. E \subseteq Blocks /\ ToSet(evictable') \subseteq Blocks /\ \A b \in E : b \in ToSet(pool)
  BY <1>6, <1>8, Elements
<1>12. /\ HitsAreValid'
       /\ cached' \in [Hashes -> Blocks \cup {NoBlock}] /\ keyOf' \in [Blocks -> Hashes \cup {NoHash}]
       /\ \A b \in Blocks : keyOf'[b] = IF b \in E THEN NoHash ELSE keyOf[b]
  <2>1. \A b \in mgr.used \ mgr'.used : b \in E \/ keyOf[b] = NoHash
    BY <1>9, <1>10 DEF keyed, single
  <2> QED
    BY <1>1, <1>11, <2>1, ForgetKeeps
<1>13. \A q \in Requests : held'[q] = IF q = r THEN <<>> ELSE held[q]
  BY <1>1 DEF IInv, Types
<1>14. <<>> \in Seq(Blocks) /\ Len(<<>>) = 0 /\ IsInjective(<<>>) /\ ToSet(<<>>) = {}
  BY EmptySeq DEF IsInjective, ToSet
<1>15. \A b \in Blocks : ref[b] \in Nat /\ ref'[b] = IF b \in bs THEN ref[b] - 1 ELSE ref[b]
  BY <1>1 DEF IInv, Types
<1>16. Types'
  <2>1. ref' \in [Blocks -> Nat]
    <3>1. \A b \in Blocks : ref'[b] \in Nat
      BY <1>5, <1>15
    <3> HIDE DEF bs
    <3> QED
      BY <1>1, <3>1
  <2>2. held' \in [Requests -> Seq(Blocks)] /\ numCached' \in [Requests -> Nat]
    BY <1>1, <1>14 DEF IInv, Types
  <2>3. \A q \in Requests : IsInjective(held'[q]) /\ Len(held'[q]) <= Len(Prompt[q]) /\ numCached'[q] <= Len(Prompt[q])
    BY <1>1, <1>13, <1>14, Prompts DEF IInv, Types
  <2> HIDE DEF bs
  <2> QED
    BY <1>1, <1>8, <1>10, <1>12, <2>1, <2>2, <2>3 DEF IInv, Types
<1>17. NullApart'
  BY <1>5, <1>12, <1>15, Numbers DEF IInv, NullApart
<1>18. LimitShape'
  BY <1>1, <1>10 DEF IInv, LimitShape
<1>19. HeldContentKept'
  <2> SUFFICES ASSUME NEW q \in Requests, NEW i \in 1..Len(held'[q])
               PROVE  held'[q][i] \in mgr'.used /\ content[held'[q][i]] = Prompt[q][i]
    BY <1>1 DEF HeldContentKept
  <2>1. q # r /\ held'[q] = held[q] /\ held[q] \in Seq(Blocks)
    BY <1>13, <1>14 DEF IInv, Types
  <2>2. held[q][i] \in ToSet(held[q])
    BY <2>1, Elements
  <2>3. held[q][i] \notin ToSet(evictable) /\ held[q][i] \notin bs \cap single
    BY <2>1, <2>2, HeldBlocks, OneHolder DEF single
  <2>4. held[q][i] \notin G /\ held[q][i] \notin E
    BY <1>6, <1>9, <1>11, <2>3
  <2> QED
    BY <1>10, <2>1, <2>4 DEF IInv, HeldContentKept
<1>20. BlocksAccounted'
  <2>1. ASSUME NEW b \in Blocks PROVE ref'[b] = Cardinality({q \in Requests : b \in ToSet(held'[q])})
    <3> DEFINE H == {q \in Requests : b \in ToSet(held'[q])}
    <3>1. IsFiniteSet(Holders(b)) /\ ref[b] = Cardinality(Holders(b))
      BY HoldersFinite, RefIs DEF IInv
    <3>2. H = Holders(b) \ {r}
      BY <1>13, <1>14 DEF Holders
    <3>3. Cardinality(Holders(b) \ {r}) = IF r \in Holders(b) THEN Cardinality(Holders(b)) - 1 ELSE Cardinality(Holders(b))
      BY <3>1, FS_RemoveElement
    <3>4. r \in Holders(b) <=> b \in bs
      BY DEF Holders
    <3> QED
      BY <1>15, <3>1, <3>2, <3>3, <3>4
  <2>2. mgr.used = {NullBlock} \cup ToSet(evictable) \cup {b \in Blocks : ref[b] > 0}
    BY DEF IInv, BlocksAccounted
  <2>3. {b \in Blocks : ref'[b] > 0} = {b \in Blocks : ref[b] > 0} \ (bs \cap single)
    BY <1>5, <1>15 DEF single
  <2>4. NullBlock \notin E /\ NullBlock \notin G
    BY <1>5, <1>6, <1>9, <1>11 DEF IInv, BlocksAccounted, NullApart
  <2>5. \A b \in ToSet(evictable) : ref[b] = 0 /\ keyOf[b] # NoHash
    BY DEF IInv, BlocksAccounted
  <2>6. \A b \in Blocks : ref'[b] > 0 => b \notin E /\ b \notin G
    BY <1>6, <1>9, <1>11, <1>15, <2>5 DEF single
  <2>7. mgr'.used = {NullBlock} \cup ToSet(evictable') \cup {b \in Blocks : ref'[b] > 0}
    <3>1. bs \cap single \subseteq Blocks
      BY <1>5
    <3>2. keyed \cap bs \cap single = bs \cap single \cap keyed
      OBVIOUS
    <3> DEFINE R == bs \cap single
               A == {b \in Blocks : ref[b] > 0}
               B == {b \in Blocks : ref'[b] > 0}
    <3>3. R \subseteq A
      BY <1>5 DEF single
    <3> HIDE DEF bs, single, keyed, A, B
    <3>4. mgr'.used \subseteq {NullBlock} \cup ToSet(evictable') \cup B
      BY <1>6, <1>8, <1>9, <1>10, <2>2, <2>3 DEF A, B
    <3>5. {NullBlock} \cup ToSet(evictable') \cup B \subseteq mgr'.used
      <4>1. B \cap E = {} /\ B \cap G = {}
        BY <2>6 DEF B
      <4>2. ToSet(evictable') \cap G = {}
        BY <1>6, <1>8, <1>9, <1>11, <1>5, <2>5, <3>1
      <4>3. B \subseteq mgr.used
        BY <2>2, <2>3 DEF A, B
      <4>4. ToSet(evictable') \subseteq mgr.used
        BY <1>6, <1>8, <2>2, <3>3 DEF A
      <4> QED
        BY <1>8, <1>10, <2>2, <2>4, <4>1, <4>2, <4>3, <4>4
    <3> QED
      BY <3>4, <3>5 DEF B
  <2>8. \A b \in ToSet(evictable') : ref'[b] = 0 /\ keyOf'[b] # NoHash
    <3> SUFFICES ASSUME NEW b \in ToSet(evictable') PROVE ref'[b] = 0 /\ keyOf'[b] # NoHash
      OBVIOUS
    <3>1. b \in Blocks /\ b \notin E /\ b \in ToSet(evictable) \cup (bs \cap single \cap keyed)
      BY <1>6, <1>8, <1>11
    <3>2. keyOf'[b] = keyOf[b]
      BY <1>12, <3>1
    <3>3. CASE b \in ToSet(evictable)
      BY <1>5, <1>15, <2>5, <3>1, <3>2, <3>3
    <3>4. CASE b \in bs \cap single \cap keyed
      BY <1>15, <3>1, <3>2, <3>4 DEF single, keyed
    <3> QED
      BY <3>1, <3>3, <3>4
  <2> QED
    BY <2>1, <2>7, <2>8 DEF BlocksAccounted
<1> QED
  BY <1>1, <1>12, <1>16, <1>17, <1>18, <1>19, <1>20, ReadyKeepsCall DEF IInv

-----------------------------------------------------------------------------
(* The allocation and what it caches *)

LEMMA AllocKeeps ==
    ASSUME IInv, Alloc
    PROVE  IInv'
<1> DEFINE m == IF wanted # 0 THEN Resized(mgr, wanted) ELSE mgr
           r == call.of
           L == Len(held[r])
<1>1. call.at = "alloc" /\ ~failed /\ UNCHANGED <<wanted, memory, cached, keyOf, evictable, numCached, lowered, squeezed>>
  BY DEF Alloc, historyVars
<1>2. call # Idle
  BY <1>1 DEF Idle
<1>3. r \in Requests /\ call.need \in Nat /\ call.need >= 1 /\ call \in Calls
  BY <1>2, CallIs
<1>4. L + call.need <= Len(Prompt[r]) /\ (~lowered /\ ~squeezed => call.need <= availableSize(mgr))
  BY <1>1 DEF IInv, CallShape
<1>5. Manager(m) /\ m.used = mgr.used /\ (~lowered => m = mgr) /\ m.used \subseteq Blocks
  <2>1. CASE wanted # 0
    <3>1. wanted \in 1..NumPages /\ lowered
      BY <2>1, Numbers DEF IInv, Types, LimitShape
    <3>2. Manager(Resized(mgr, wanted)) /\ Resized(mgr, wanted).used = mgr.used
      BY <3>1, ResizedManager DEF IInv, Types
    <3> QED
      BY <2>1, <3>1, <3>2 DEF Manager
  <2>2. CASE wanted = 0
    BY <2>2 DEF IInv, Types, Manager
  <2> QED
    BY <2>1, <2>2
<1>6. availableSize(m) \in Int
  BY <1>5, Available DEF IInv, Types
<1> HIDE DEF m
<1>7. CASE /\ availableSize(m) < call.need /\ failed' = TRUE /\ mgr' = m
           /\ UNCHANGED <<ref, held, content, call>>
  <2>1. lowered \/ squeezed
    BY <1>3, <1>4, <1>5, <1>6, <1>7
  <2>2. Types' /\ LimitShape' /\ NullApart' /\ MemoryShape'
    BY <1>1, <1>5, <1>7, <2>1 DEF IInv, Types, LimitShape, NullApart, MemoryShape
  <2>3. CallShape'
    BY <1>1, <1>7, <2>1 DEF IInv, CallShape
  <2>4. HitsAreValid' /\ HeldContentKept' /\ BlocksAccounted'
    BY <1>1, <1>5, <1>7 DEF IInv, HitsAreValid, HeldContentKept, BlocksAccounted
  <2> QED
    BY <2>2, <2>3, <2>4 DEF IInv
<1>8. CASE ~(/\ availableSize(m) < call.need /\ failed' = TRUE /\ mgr' = m
             /\ UNCHANGED <<ref, held, content, call>>)
  <2>1. PICK S \in Handed(m, call.need) : \E ids \in SetToSeqs(S) :
            /\ mgr' = [m EXCEPT !.used = @ \cup S]
            /\ ref' = [b \in Blocks |-> IF b \in S THEN 1 ELSE ref[b]]
            /\ held' = [held EXCEPT ![r] = @ \o ids]
            /\ content' = [b \in Blocks |-> IF b \in S
                   THEN Prompt[r][L + CHOOSE i \in DOMAIN ids : ids[i] = b] ELSE content[b]]
    BY <1>8 DEF Alloc, m
  <2>2. PICK ids \in SetToSeqs(S) :
            /\ mgr' = [m EXCEPT !.used = @ \cup S]
            /\ ref' = [b \in Blocks |-> IF b \in S THEN 1 ELSE ref[b]]
            /\ held' = [held EXCEPT ![r] = @ \o ids]
            /\ content' = [b \in Blocks |-> IF b \in S
                   THEN Prompt[r][L + CHOOSE i \in DOMAIN ids : ids[i] = b] ELSE content[b]]
    BY <2>1
  <2>3. call' = [call EXCEPT !.at = "cache"] /\ failed' = failed
    BY <1>8 DEF Alloc, m
  <2>4. S \subseteq Blocks \ mgr.used /\ Cardinality(S) = call.need
    BY <1>5 DEF Handed
  <2>5. ids \in [1..call.need -> S] /\ IsInjective(ids) /\ ToSet(ids) = S
    <3>1. ids \in [1..Cardinality(S) -> S] /\ \A i, j \in 1..Cardinality(S) : i # j => ids[i] # ids[j]
      BY DEF SetToSeqs
    <3>2. ids \in [1..call.need -> S] /\ IsInjective(ids)
      BY <2>4, <3>1 DEF IsInjective
    <3>3. ids \in Injection(1..call.need, S)
      BY <3>2 DEF Injection
    <3>4. IsFiniteSet(S) /\ Cardinality(1..call.need) = call.need
      BY <1>3, <2>4, Finite, FS_Interval
    <3>5. ids \in Surjection(1..call.need, S)
      BY <2>4, <3>3, <3>4, FS_Injection
    <3> QED
      BY <3>2, <3>5 DEF Surjection, ToSet
  <2>6. ids \in Seq(Blocks) /\ Len(ids) = call.need
    BY <1>3, <2>4, <2>5
  <2>7. held[r] \in Seq(Blocks) /\ IsInjective(held[r]) /\ L \in Nat /\ ToSet(held[r]) \subseteq mgr.used
    BY <1>3, HeldBlocks, Elements DEF IInv, Types
  <2>8. /\ held[r] \o ids \in Seq(Blocks) /\ IsInjective(held[r] \o ids) /\ Len(held[r] \o ids) = L + call.need
        /\ ToSet(held[r] \o ids) = ToSet(held[r]) \cup S
    <3>1. ToSet(held[r]) \cap ToSet(ids) = {}
      BY <2>4, <2>5, <2>7
    <3> QED
      BY <2>5, <2>6, <2>7, <3>1, Joined
  <2>9. \A q \in Requests : held'[q] = IF q = r THEN held[r] \o ids ELSE held[q]
    BY <1>3, <2>2 DEF IInv, Types
  <2>10. mgr'.used = mgr.used \cup S /\ mgr'.limit = m.limit /\ mgr'.shrinkTo = m.shrinkTo /\ Manager(mgr')
    BY <1>5, <2>2, <2>4 DEF Manager
  <2>11. ASSUME NEW i \in 1..call.need
         PROVE  content'[ids[i]] = Prompt[r][L + i] /\ L + i \in 1..Len(Prompt[r])
    <3>1. ids[i] \in S /\ ids[i] \in Blocks /\ i \in DOMAIN ids /\ DOMAIN ids = 1..call.need
      BY <2>4, <2>5
    <3>2. (CHOOSE j \in DOMAIN ids : ids[j] = ids[i]) = i
      BY <2>5, <3>1 DEF IsInjective
    <3>3. L + i \in 1..Len(Prompt[r])
      BY <1>3, <1>4, <2>7, Prompts
    <3> QED
      BY <2>2, <3>1, <3>2, <3>3
  <2>12. \A b \in Blocks \ S : content'[b] = content[b] /\ ref'[b] = ref[b]
    BY <2>2
  <2>13. content' \in [Blocks -> Hashes \cup {NoHash}]
    <3>1. ASSUME NEW b \in Blocks PROVE content'[b] \in Hashes \cup {NoHash}
      <4>1. CASE b \in S
        <5>1. PICK i \in 1..call.need : b = ids[i]
          BY <2>5, <4>1 DEF ToSet
        <5>2. content'[b] = Prompt[r][L + i] /\ L + i \in 1..Len(Prompt[r])
          BY <2>11, <5>1
        <5> QED
          BY <1>3, <5>2, Prompts
      <4>2. CASE b \notin S
        BY <2>12, <4>2 DEF IInv, Types
      <4> QED
        BY <4>1, <4>2
    <3> QED
      BY <2>2, <3>1
  <2> HIDE DEF L
  <2>14. Types'
    <3>1. ref' \in [Blocks -> Nat]
      BY <2>2 DEF IInv, Types
    <3>2. held' \in [Requests -> Seq(Blocks)]
      BY <1>3, <2>2, <2>8 DEF IInv, Types
    <3>3. \A q \in Requests : IsInjective(held'[q]) /\ Len(held'[q]) <= Len(Prompt[q])
      BY <1>4, <2>8, <2>9 DEF IInv, Types
    <3> QED
      BY <1>1, <2>3, <2>10, <2>13, <3>1, <3>2, <3>3 DEF IInv, Types
  <2>15. NullBlock \notin S
    BY <2>4 DEF IInv, BlocksAccounted
  <2>16. NullApart'
    BY <1>1, <2>12, <2>15, Numbers DEF IInv, NullApart
  <2>17. CallShape'
    BY <1>3, <2>3 DEF CallShape, Calls
  <2>18. LimitShape'
    BY <1>1, <1>5, <2>3, <2>10 DEF IInv, LimitShape
  <2>19. HitsAreValid'
    <3>1. ASSUME NEW h \in Hashes, cached[h] # NoBlock
          PROVE  cached[h] \in mgr'.used /\ keyOf[cached[h]] = h /\ content'[cached[h]] = h
      <4>1. cached[h] \in Blocks /\ cached[h] \in mgr.used /\ keyOf[cached[h]] = h /\ content[cached[h]] = h
        BY <3>1 DEF IInv, HitsAreValid, Types
      <4> QED
        BY <2>4, <2>10, <2>12, <4>1
    <3> QED
      BY <1>1, <3>1 DEF IInv, HitsAreValid
  <2>20. HeldContentKept'
    <3> SUFFICES ASSUME NEW q \in Requests, NEW i \in 1..Len(held'[q])
                 PROVE  held'[q][i] \in mgr'.used /\ content'[held'[q][i]] = Prompt[q][i]
      BY DEF HeldContentKept
    <3>1. ASSUME held'[q][i] = held[q][i], i \in 1..Len(held[q])
          PROVE  held'[q][i] \in mgr'.used /\ content'[held'[q][i]] = Prompt[q][i]
      <4>1. held[q][i] \in mgr.used /\ content[held[q][i]] = Prompt[q][i]
        BY <3>1 DEF IInv, HeldContentKept
      <4>2. held[q][i] \in Blocks
        BY <3>1, Elements DEF IInv, Types
      <4> QED
        BY <2>4, <2>10, <2>12, <3>1, <4>1, <4>2
    <3>2. CASE q # r
      BY <2>9, <3>1, <3>2
    <3>3. CASE q = r
      <4>1. i \in 1..(L + call.need) /\ held'[q] = held[r] \o ids
        BY <2>8, <2>9, <3>3
      <4>2. CASE i <= L
        <5>1. i \in 1..L /\ (held[r] \o ids)[i] = held[r][i]
          BY <2>6, <2>7, <4>1, <4>2, ConcatProperties DEF L
        <5> QED
          BY <3>1, <3>3, <4>1, <5>1 DEF L
      <4>3. CASE ~(i <= L)
        <5>1. i - L \in 1..call.need /\ L + (i - L) = i
          BY <1>3, <2>7, <4>1, <4>3
        <5>2. (held[r] \o ids)[i] = ids[i - L]
          BY <2>6, <2>7, <4>1, <4>3, ConcatProperties DEF L
        <5>3. ids[i - L] \in S
          BY <2>5, <5>1
        <5>4. content'[ids[i - L]] = Prompt[r][i]
          BY <2>11, <5>1
        <5> QED
          BY <2>10, <3>3, <4>1, <5>2, <5>3, <5>4
      <4> QED
        BY <4>2, <4>3
    <3> QED
      BY <3>2, <3>3
  <2>22. MemoryShape'
    <3>1. call'.at = "cache"
      BY <1>3, <2>3 DEF Calls
    <3> QED
      BY <3>1 DEF MemoryShape
  <2>21. BlocksAccounted'
    <3>1. ASSUME NEW b \in Blocks PROVE ref'[b] = Cardinality({q \in Requests : b \in ToSet(held'[q])})
      <4> DEFINE H == {q \in Requests : b \in ToSet(held'[q])}
      <4>1. CASE b \in S
        <5>1. \A q \in Requests : b \notin ToSet(held[q])
          BY <2>4, <4>1, HeldBlocks
        <5>2. H = {r}
          BY <1>3, <2>8, <2>9, <4>1, <5>1
        <5> QED
          BY <2>2, <4>1, <5>2, FS_Singleton
      <4>2. CASE b \notin S
        <5>1. H = Holders(b)
          BY <1>3, <2>8, <2>9, <4>2 DEF Holders
        <5> QED
          BY <2>12, <4>2, <5>1, RefIs DEF IInv
      <4> QED
        BY <4>1, <4>2
    <3>2. mgr.used = {NullBlock} \cup ToSet(evictable) \cup {b \in Blocks : ref[b] > 0}
      BY DEF IInv, BlocksAccounted
    <3>3. \A b \in S : b \in Blocks /\ ref'[b] = 1
      BY <2>2, <2>4
    <3>4. {b \in Blocks : ref'[b] > 0} = {b \in Blocks : ref[b] > 0} \cup S
      <4>1. \A b \in Blocks : ref'[b] > 0 <=> ref[b] > 0 \/ b \in S
        BY <2>12, <3>3
      <4> QED
        BY <2>4, <4>1
    <3>5. mgr'.used = {NullBlock} \cup ToSet(evictable') \cup {b \in Blocks : ref'[b] > 0}
      BY <1>1, <2>10, <3>2, <3>4
    <3>6. \A b \in ToSet(evictable') : ref'[b] = 0 /\ keyOf'[b] # NoHash
      <4>1. \A b \in ToSet(evictable) : b \in Blocks /\ b \notin S /\ ref[b] = 0 /\ keyOf[b] # NoHash
        BY <2>4, <3>2, Elements DEF IInv, BlocksAccounted, Types
      <4> QED
        BY <1>1, <2>12, <4>1
    <3> QED
      BY <3>1, <3>5, <3>6 DEF BlocksAccounted
  <2> QED
    BY <2>14, <2>16, <2>17, <2>18, <2>19, <2>20, <2>21, <2>22 DEF IInv
<1> QED
  BY <1>7, <1>8

LEMMA CacheKeeps ==
    ASSUME IInv, Cache
    PROVE  IInv'
<1> DEFINE r == call.of
           K == newKeys(r)
<1>1. /\ call.at = "cache" /\ call' = Idle
      /\ cached' = [h \in Hashes |-> IF \E i \in K : Prompt[r][i] = h
             THEN held[r][CHOOSE i \in K : Prompt[r][i] = h] ELSE cached[h]]
      /\ keyOf' = [b \in Blocks |-> IF \E i \in K : held[r][i] = b
             THEN Prompt[r][CHOOSE i \in K : held[r][i] = b] ELSE keyOf[b]]
      /\ numCached' = [numCached EXCEPT ![r] =
             Cardinality({i \in 1..Len(held[r]) : Prompt[r][i] # NoHash})]
      /\ UNCHANGED <<mgr, wanted, memory, ref, evictable, held, failed, content, lowered, squeezed>>
  BY DEF Cache, historyVars
<1>2. call # Idle
  BY <1>1 DEF Idle
<1>3. r \in Requests
  BY <1>2, CallIs
<1>4. /\ held[r] \in Seq(Blocks) /\ IsInjective(held[r]) /\ Len(held[r]) \in Nat /\ Len(held[r]) <= Len(Prompt[r])
      /\ DOMAIN held[r] = 1..Len(held[r]) /\ numCached[r] \in Nat
  BY <1>3, Elements DEF IInv, Types
<1>5. ASSUME NEW i \in K
      PROVE  /\ i \in 1..Len(held[r]) /\ i \in 1..Len(Prompt[r])
             /\ Prompt[r][i] \in Hashes /\ cached[Prompt[r][i]] = NoBlock
             /\ held[r][i] \in Blocks /\ held[r][i] \in mgr.used /\ content[held[r][i]] = Prompt[r][i]
             /\ held[r][i] # NullBlock /\ held[r][i] \notin ToSet(evictable)
             /\ keyOf[held[r][i]] = NoHash
  <2>1. i \in (numCached[r] + 1)..Len(held[r]) /\ Prompt[r][i] # NoHash /\ cached[Prompt[r][i]] = NoBlock
    BY DEF newKeys
  <2>2. i \in 1..Len(held[r]) /\ i \in 1..Len(Prompt[r])
    BY <1>3, <1>4, <2>1, Prompts
  <2>3. Prompt[r][i] \in Hashes
    BY <1>3, <2>1, <2>2, Prompts
  <2> DEFINE b == held[r][i]
  <2>4. b \in ToSet(held[r])
    BY <1>4, <2>2, Elements
  <2>5. b \in Blocks /\ b \in mgr.used /\ b # NullBlock /\ b \notin ToSet(evictable)
    BY <1>3, <2>4, HeldBlocks
  <2>6. content[b] = Prompt[r][i]
    BY <1>3, <2>2 DEF IInv, HeldContentKept
  <2> HIDE DEF b
  <2>7. keyOf[b] = NoHash
    <3> SUFFICES ASSUME keyOf[b] # NoHash PROVE FALSE
      OBVIOUS
    <3>1. keyOf[b] \in Hashes /\ cached[keyOf[b]] = b
      BY <2>5 DEF IInv, Types, HitsAreValid
    <3>2. content[b] = keyOf[b]
      BY <2>5, <3>1, NoBlockAssumption DEF IInv, HitsAreValid
    <3> QED
      BY <2>1, <2>5, <2>6, <3>1, <3>2, NoBlockAssumption
  <2> QED
    BY <2>1, <2>2, <2>3, <2>5, <2>6, <2>7 DEF b
<1> HIDE DEF K
<1>6. \A i, j \in K : Prompt[r][i] = Prompt[r][j] => i = j
  BY <1>3, <1>5, Prompts, PoolAssumption
<1>7. \A i, j \in K : held[r][i] = held[r][j] => i = j
  BY <1>4, <1>5 DEF IsInjective
<1>8. ASSUME NEW i \in K
      PROVE  cached'[Prompt[r][i]] = held[r][i] /\ keyOf'[held[r][i]] = Prompt[r][i]
  <2>1. (CHOOSE j \in K : Prompt[r][j] = Prompt[r][i]) = i
    BY <1>6
  <2>2. (CHOOSE j \in K : held[r][j] = held[r][i]) = i
    BY <1>7
  <2>3. Prompt[r][i] \in Hashes /\ held[r][i] \in Blocks
    BY <1>5
  <2> QED
    BY <1>1, <2>1, <2>2, <2>3
<1>9. \A h \in Hashes : (\A i \in K : Prompt[r][i] # h) => cached'[h] = cached[h]
  BY <1>1
<1>10. \A b \in Blocks : (\A i \in K : held[r][i] # b) => keyOf'[b] = keyOf[b]
  BY <1>1
<1>11. cached' \in [Hashes -> Blocks \cup {NoBlock}] /\ keyOf' \in [Blocks -> Hashes \cup {NoHash}]
  <2>1. ASSUME NEW h \in Hashes PROVE cached'[h] \in Blocks \cup {NoBlock}
    <3>1. CASE \A i \in K : Prompt[r][i] # h
      BY <1>9, <3>1 DEF IInv, Types
    <3>2. ASSUME NEW i \in K, Prompt[r][i] = h PROVE cached'[h] \in Blocks
      BY <1>5, <1>8, <3>2
    <3> QED
      BY <3>1, <3>2
  <2>2. ASSUME NEW b \in Blocks PROVE keyOf'[b] \in Hashes \cup {NoHash}
    <3>1. CASE \A i \in K : held[r][i] # b
      BY <1>10, <3>1 DEF IInv, Types
    <3>2. ASSUME NEW i \in K, held[r][i] = b PROVE keyOf'[b] \in Hashes
      BY <1>5, <1>8, <3>2
    <3> QED
      BY <3>1, <3>2
  <2> QED
    BY <1>1, <2>1, <2>2
<1>12. numCached' \in [Requests -> Nat] /\ \A q \in Requests : numCached'[q] <= Len(Prompt[q])
  <2> DEFINE F == {i \in 1..Len(held[r]) : Prompt[r][i] # NoHash}
  <2>0. \A n \in Nat : IsFiniteSet(1..n) /\ Cardinality(1..n) = n
    BY FS_Interval
  <2>1. IsFiniteSet(1..Len(held[r])) /\ Cardinality(1..Len(held[r])) = Len(held[r])
    BY <1>4, <2>0
  <2>2. F \subseteq 1..Len(held[r])
    OBVIOUS
  <2>3. Cardinality(F) \in Nat /\ Cardinality(F) <= Len(held[r])
    BY <2>1, <2>2, FS_Subset, FS_CardinalityType
  <2>4. numCached' = [numCached EXCEPT ![r] = Cardinality(F)]
    BY <1>1
  <2> HIDE DEF F
  <2> QED
    BY <1>3, <1>4, <2>3, <2>4, Prompts DEF IInv, Types
<1>13. Types' /\ LimitShape'
  BY <1>1, <1>11, <1>12 DEF IInv, Types, LimitShape
<1>14. NullApart'
  BY <1>1, <1>5, <1>10, Numbers DEF IInv, NullApart
<1>15. CallShape'
  BY <1>1 DEF CallShape, Idle
<1>16. HeldContentKept'
  BY <1>1 DEF IInv, HeldContentKept
<1>17. HitsAreValid'
  <2>1. ASSUME NEW h \in Hashes, cached'[h] # NoBlock
        PROVE  cached'[h] \in mgr.used /\ keyOf'[cached'[h]] = h /\ content[cached'[h]] = h
    <3>1. CASE \A i \in K : Prompt[r][i] # h
      <4>1. cached'[h] = cached[h] /\ cached[h] \in Blocks
        BY <1>9, <2>1, <3>1 DEF IInv, Types
      <4>2. cached[h] \in mgr.used /\ keyOf[cached[h]] = h /\ content[cached[h]] = h
        BY <2>1, <4>1 DEF IInv, HitsAreValid
      <4>3. \A i \in K : held[r][i] # cached[h]
        BY <1>5, <4>2, PoolAssumption
      <4> QED
        BY <1>10, <4>1, <4>2, <4>3
    <3>2. ASSUME NEW i \in K, Prompt[r][i] = h
          PROVE  cached'[h] \in mgr.used /\ keyOf'[cached'[h]] = h /\ content[cached'[h]] = h
      BY <1>5, <1>8, <3>2
    <3> QED
      BY <3>1, <3>2
  <2>2. ASSUME NEW b \in Blocks, keyOf'[b] # NoHash
        PROVE  cached'[keyOf'[b]] = b
    <3>1. CASE \A i \in K : held[r][i] # b
      <4>1. keyOf'[b] = keyOf[b] /\ keyOf[b] \in Hashes /\ cached[keyOf[b]] = b
        BY <1>10, <2>2, <3>1 DEF IInv, Types, HitsAreValid
      <4>2. \A i \in K : Prompt[r][i] # keyOf[b]
        BY <1>5, <4>1, NoBlockAssumption
      <4> QED
        BY <1>9, <4>1, <4>2
    <3>2. ASSUME NEW i \in K, held[r][i] = b PROVE cached'[keyOf'[b]] = b
      BY <1>8, <3>2
    <3> QED
      BY <3>1, <3>2
  <2> QED
    BY <1>1, <2>1, <2>2 DEF HitsAreValid
<1>18. BlocksAccounted'
  <2>1. \A b \in ToSet(evictable) : ref[b] = 0 /\ keyOf'[b] # NoHash
    <3> SUFFICES ASSUME NEW b \in ToSet(evictable) PROVE ref[b] = 0 /\ keyOf'[b] # NoHash
      OBVIOUS
    <3>1. b \in Blocks /\ ref[b] = 0 /\ keyOf[b] # NoHash
      BY Elements DEF IInv, Types, BlocksAccounted
    <3>2. \A i \in K : held[r][i] # b
      BY <1>5
    <3> QED
      BY <1>10, <3>1, <3>2
  <2> QED
    BY <1>1, <2>1 DEF IInv, BlocksAccounted
<1>19. MemoryShape'
  BY <1>1 DEF MemoryShape, Idle
<1> QED
  BY <1>13, <1>14, <1>15, <1>16, <1>17, <1>18, <1>19 DEF IInv

-----------------------------------------------------------------------------
(* The theorems *)

LEMMA StepKeeps == IInv /\ [Next]_vars => IInv'
<1> SUFFICES ASSUME IInv, [Next]_vars PROVE IInv'
  OBVIOUS
<1>1. CASE UNCHANGED vars
  <2>1. NumFree' = NumFree /\ availableSize(mgr)' = availableSize(mgr)
    BY <1>1 DEF vars, poolVars, requestVars, historyVars, NumFree, availableSize, freePages
  <2> USE <1>1 DEF vars, poolVars, requestVars, historyVars
  <2>2. Types' /\ NullApart' /\ LimitShape' /\ MemoryShape'
    BY DEF IInv, Types, NullApart, LimitShape, MemoryShape
  <2>3. HitsAreValid' /\ HeldContentKept' /\ BlocksAccounted'
    BY DEF IInv, HitsAreValid, HeldContentKept, BlocksAccounted
  <2>4. CallShape'
    BY <2>1 DEF IInv, CallShape, Unreferenced
  <2> QED
    BY <2>2, <2>3, <2>4 DEF IInv
<1>2. ASSUME NEW r \in Requests, Schedule(r) \/ Free(r) PROVE IInv'
  BY <1>2, ScheduleKeeps, FreeKeeps
<1>3. ASSUME NEW bs \in SUBSET {b \in Blocks : keyOf[b] # NoHash}, EvictBlocks(bs) PROVE IInv'
  <2>1. bs \in SUBSET Blocks
    OBVIOUS
  <2> QED
    BY <1>3, <2>1, EvictBlocksKeeps
<1>4. ASSUME NEW l \in Limits, SetLimit(l) PROVE IInv'
  BY <1>4, SetLimitKeeps
<1>5. ASSUME NEW n \in Memories, TakeMemory(n) PROVE IInv'
  BY <1>5, TakeMemoryKeeps
<1> QED
  BY <1>1, <1>2, <1>3, <1>4, <1>5, TouchKeeps, EvictKeeps, AllocKeeps, CacheKeeps, ResetPrefixCacheKeeps DEF Next

LEMMA IInvAlways == Spec => []IInv
BY InitHolds, StepKeeps, PTL DEF Spec

\* The types, for any requests, prompts, pages and limits.
THEOREM TypeCorrect == Spec => []TypeOK
BY IInvAlways, TypesHold, PTL

\* Cache hits are valid: get_cached_block only finds blocks that are handed
\* out and still have the content of their hash.
THEOREM CacheHitsAreValid == Spec => []HitsAreValid
<1>1. IInv => HitsAreValid
  BY DEF IInv
<1> QED
  BY <1>1, IInvAlways, PTL

\* No operation writes over the blocks of a live request or frees them.
THEOREM LiveBlocksAreKept == Spec => []HeldContentKept
<1>1. IInv => HeldContentKept
  BY DEF IInv
<1> QED
  BY <1>1, IInvAlways, PTL

\* touch, get_new_blocks, free_blocks and evict_blocks lose no block and free
\* none twice.
THEOREM NoBlockLost == Spec => []BlocksAccounted
<1>1. IInv => BlocksAccounted
  BY DEF IInv
<1> QED
  BY <1>1, IInvAlways, PTL

\* get_new_blocks does not fail after get_num_free_blocks said there is
\* enough, as long as nobody lowers the limit or takes physical memory.
THEOREM PromisesAreKept == Spec => []PromiseKept
<1>1. IInv => PromiseKept
  BY DEF IInv, LimitShape, PromiseKept
<1> QED
  BY <1>1, IInvAlways, PTL

===============================================================================
