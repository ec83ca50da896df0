-------------------------- MODULE AllocationProofs ---------------------------
(***************************************************************************)
(* The four strategies on any fleet and any input: the scans find one      *)
(* node, round robin reaches every node, and the weighted score respects   *)
(* the order it is meant to express.                                       *)
(***************************************************************************)
EXTENDS Allocation, EdgeNodeProofs

-----------------------------------------------------------------------------
(* The scan for the smallest key. *)

\* Nodes have integers for ids, and there are finitely many.
LEMMA NodeSets ==
  /\ \A e \in Nodes : e \in Int
  /\ \A S \in SUBSET Nodes : IsFiniteSet(S) /\ Cardinality(S) \in Nat
<1>1. NodeCount \in Int /\ 1 \in Int
  BY NodeAssumption
<1>2. IsFiniteSet(Nodes)
  BY <1>1, FS_Interval DEF Nodes
<1>3. \A e \in Nodes : e \in Int
  BY <1>1 DEF Nodes
<1> QED
  BY <1>2, <1>3, FS_Subset, FS_CardinalityType

\* A scan over some nodes finds one, whatever their keys.
LEMMA FirstSmallestExists ==
  ASSUME NEW V \in SUBSET Nodes, V # {},
         NEW key, \A f \in V : key[f] \in Int
  PROVE  \E e \in V : IsFirstSmallest(e, V, key)
<1> DEFINE B == {S \in SUBSET V : S # {} /\ ~\E e \in S : IsFirstSmallest(e, S, key)}
<1>1. SUFFICES ASSUME B # {} PROVE FALSE
  OBVIOUS
<1>2. PICK M \in B : \A U \in B : ~(U \subseteq M /\ U # M)
  <2>1. B \subseteq SUBSET V
    OBVIOUS
  <2> HIDE DEF B
  <2> QED
    BY <1>1, <2>1, NodeSets, MinimalSubset
<1>3. PICK x \in M : TRUE
  OBVIOUS
<1>4. CASE M \ {x} = {}
  <2>1. x \in Int /\ \A f \in M : f = x
    BY <1>3, <1>4, NodeSets
  <2>2. IsFirstSmallest(x, M, key)
    BY <2>1 DEF IsFirstSmallest
  <2> QED
    BY <1>3, <2>2
<1>5. CASE M \ {x} # {}
  <2>1. PICK e \in M \ {x} : IsFirstSmallest(e, M \ {x}, key)
    BY <1>2, <1>3, <1>5
  <2>2. x \in Int /\ e \in Int /\ key[x] \in Int /\ key[e] \in Int
        /\ \A f \in M : f \in Int /\ key[f] \in Int
    BY <1>3, <2>1, NodeSets
  <2>3. CASE key[e] < key[x] \/ (key[e] = key[x] /\ e <= x)
    <3>1. IsFirstSmallest(e, M, key)
      BY <2>1, <2>3 DEF IsFirstSmallest
    <3> QED
      BY <2>1, <3>1
  <2>4. CASE ~(key[e] < key[x] \/ (key[e] = key[x] /\ e <= x))
    <3>1. IsFirstSmallest(x, M, key)
      BY <2>1, <2>2, <2>4 DEF IsFirstSmallest
    <3> QED
      BY <1>3, <3>1
  <2> QED
    BY <2>3, <2>4
<1> QED
  BY <1>4, <1>5

\* It finds only one.
LEMMA FirstSmallestUnique ==
  ASSUME NEW V \in SUBSET Nodes, NEW key, \A f \in V : key[f] \in Int,
         NEW e \in V, NEW f \in V, IsFirstSmallest(e, V, key), IsFirstSmallest(f, V, key)
  PROVE  e = f
BY NodeSets DEF IsFirstSmallest

-----------------------------------------------------------------------------
(* Positions in the list of viable nodes. *)

Smaller(e, V) == {f \in V : f < e}
Rank(e, V) == Cardinality(Smaller(e, V))

\* A later node has more nodes before it.
LEMMA RankIncreases ==
  ASSUME NEW V \in SUBSET Nodes, NEW e \in V, NEW f \in V, e < f
  PROVE  Rank(e, V) < Rank(f, V)
<1>1. \A g \in V : g < e => g < f
  BY NodeSets
<1>2. ~(e < e)
  BY NodeSets
<1>3. Smaller(e, V) \subseteq Smaller(f, V) /\ Smaller(e, V) # Smaller(f, V)
  BY <1>1, <1>2 DEF Smaller
<1>4. Smaller(e, V) \in SUBSET Nodes /\ Smaller(f, V) \in SUBSET Nodes
  BY DEF Smaller
<1>5. Cardinality(Smaller(e, V)) <= Cardinality(Smaller(f, V))
      /\ Cardinality(Smaller(e, V)) # Cardinality(Smaller(f, V))
  BY <1>3, <1>4, NodeSets, FS_Subset
<1> QED
  BY <1>4, <1>5, NodeSets DEF Rank

\* A position is one of the list.
LEMMA RankBound ==
  ASSUME NEW V \in SUBSET Nodes, NEW e \in V
  PROVE  Rank(e, V) \in 0..Cardinality(V) - 1
<1>1. ~(e < e)
  BY NodeSets
<1>2. Smaller(e, V) \subseteq V /\ Smaller(e, V) # V
  BY <1>1 DEF Smaller
<1>3. Cardinality(Smaller(e, V)) <= Cardinality(V) /\ Cardinality(Smaller(e, V)) # Cardinality(V)
  BY <1>2, NodeSets, FS_Subset
<1>4. Cardinality(Smaller(e, V)) \in Nat /\ Cardinality(V) \in Nat
  BY <1>2, NodeSets
<1> QED
  BY <1>3, <1>4 DEF Rank

\* Some nodes have a last one.
LEMMA LastNode ==
  ASSUME NEW V \in SUBSET Nodes, V # {}
  PROVE  \E x \in V : \A f \in V : f <= x
<1> DEFINE key == [f \in V |-> -f]
<1>1. \A f \in V : f \in Int /\ key[f] \in Int /\ key[f] = -f
  BY NodeSets
<1> HIDE DEF key
<1>2. PICK x \in V : IsFirstSmallest(x, V, key)
  BY <1>1, FirstSmallestExists
<1>3. \A f \in V : f <= x
  BY <1>1, <1>2 DEF IsFirstSmallest
<1> QED
  BY <1>3

\* Every position has its node.
LEMMA RankReached ==
  ASSUME NEW V \in SUBSET Nodes, NEW k \in 0..Cardinality(V) - 1
  PROVE  \E e \in V : Rank(e, V) = k
<1> DEFINE B == {S \in SUBSET V : \E n \in 0..Cardinality(S) - 1 : \A e \in S : Rank(e, S) # n}
<1>1. SUFFICES ASSUME B # {} PROVE FALSE
  OBVIOUS
<1>2. PICK M \in B : \A U \in B : ~(U \subseteq M /\ U # M)
  <2>1. B \subseteq SUBSET V
    OBVIOUS
  <2> HIDE DEF B
  <2> QED
    BY <1>1, <2>1, NodeSets, MinimalSubset
<1>3. PICK n \in 0..Cardinality(M) - 1 : \A e \in M : Rank(e, M) # n
  BY <1>2
<1>4. M \in SUBSET Nodes /\ IsFiniteSet(M) /\ Cardinality(M) \in Nat
  BY <1>2, NodeSets
<1>5. M # {}
  <2>1. Cardinality(M) # 0
    BY <1>3, <1>4
  <2> QED
    BY <1>4, <2>1, FS_EmptySet
<1>6. PICK x \in M : \A f \in M : f <= x
  BY <1>4, <1>5, LastNode
<1>7. IsFiniteSet(M \ {x}) /\ Cardinality(M \ {x}) = Cardinality(M) - 1
  BY <1>4, FS_RemoveElement
<1>8. Rank(x, M) = Cardinality(M) - 1
  <2>1. \A f \in M : f < x <=> f # x
    BY <1>4, <1>6, NodeSets
  <2>2. Smaller(x, M) = M \ {x}
    BY <2>1 DEF Smaller
  <2> QED
    BY <1>7, <2>2 DEF Rank
<1>9. n \in 0..Cardinality(M \ {x}) - 1
  <2>1. n # Cardinality(M) - 1
    BY <1>3, <1>8
  <2> QED
    BY <1>3, <1>4, <1>7, <2>1
<1>10. PICK e \in M \ {x} : Rank(e, M \ {x}) = n
  BY <1>2, <1>9
<1>11. Smaller(e, M) = Smaller(e, M \ {x})
  <2>1. ~(x < e)
    BY <1>4, <1>6, <1>10, NodeSets
  <2> QED
    BY <2>1 DEF Smaller
<1> QED
  BY <1>3, <1>10, <1>11 DEF Rank

-----------------------------------------------------------------------------
(* One node is picked. *)

\* What Init leaves, and what a choice does with it.
ChoiceInv ==
  /\ usage \in [Nodes -> Resources] /\ queueLen \in [Nodes -> Lengths]
  /\ index \in Nat /\ req \in Requirements /\ strategy \in Strategies
  /\ \A e \in Nodes, d \in Dims : usage[e][d] <= Capacity[e][d]
  /\ chosen # 0 =>
       /\ chosen \in Viable
       /\ Picks(strategy, chosen, Viable, req, usage, queueLen, index)

\* The invariant holds before and after the choice.
LEMMA ChoiceInvariance == Spec => []ChoiceInv
<1>1. Init => ChoiceInv
  <2> SUFFICES ASSUME Init PROVE ChoiceInv
    OBVIOUS
  <2>1. usage \in [Nodes -> Resources]
    BY ChoiceAssumption DEF Init
  <2> QED
    BY <2>1, ChoiceAssumption DEF Init, ChoiceInv
<1>2. ChoiceInv /\ [Choose]_<<inputs, chosen>> => ChoiceInv'
  <2> SUFFICES ASSUME ChoiceInv, [Choose]_<<inputs, chosen>> PROVE ChoiceInv'
    OBVIOUS
  <2>1. UNCHANGED inputs
    BY DEF Choose
  <2>2. UNCHANGED <<usage, queueLen, index, req, strategy>> /\ Viable' = Viable
    BY <2>1 DEF inputs, Viable, IsViable
  <2>3. CASE Choose
    <3>1. PICK e \in Viable : /\ Picks(strategy, e, Viable, req, usage, queueLen, index)
                              /\ chosen' = e
      BY <2>3 DEF Choose
    <3> QED
      BY <2>2, <3>1 DEF ChoiceInv, Picks, AllocateRoundRobin, AllocateLeastLoad,
         AllocatePriorityBased, AllocateMultiConstraint, CalculateAllocationScore,
         NormalizeScore
  <2>4. CASE UNCHANGED chosen
    BY <2>2, <2>4 DEF ChoiceInv, Picks, AllocateRoundRobin, AllocateLeastLoad,
         AllocatePriorityBased, AllocateMultiConstraint, CalculateAllocationScore,
         NormalizeScore
  <2> QED
    BY <2>3, <2>4
<1> QED
  BY <1>1, <1>2, PTL DEF Spec

\* The score of a node is an integer.
LEMMA ScoreType ==
  ASSUME ChoiceInv, NEW e \in Nodes
  PROVE  CalculateAllocationScore(e, req, usage, queueLen) \in Int
<1> USE AllocatorAssumption
<1>1. \A d \in Dims : usage[e][d] \in Nat /\ Capacity[e][d] \in Nat
  BY NodeAssumption DEF ChoiceInv, Resources
<1>2. ASSUME NEW d \in Dims
      PROVE  NormalizeScore(e, usage, d) \in Int
  BY <1>1 DEF NormalizeScore, Clamp
<1>3. NormalizeLatencyScore(e) \in Int
  <2>1. Latency[e] \in Nat
    OBVIOUS
  <2>2. (Latency[e] * Scale) \div 100 \in Int /\ Scale \div 100 \in Int
    BY <2>1
  <2> QED
    BY <2>2 DEF NormalizeLatencyScore, Clamp, LatencyCeilingMs
<1>4. NormalizeQueueScore(queueLen[e]) \in Int
  <2>1. queueLen[e] \in Nat
    BY ChoiceAssumption DEF ChoiceInv
  <2>2. (queueLen[e] * Scale) \div 100 \in Int
    BY <2>1
  <2> QED
    BY <2>2 DEF NormalizeQueueScore, Clamp, QueueCeiling
<1>5. PriorityScore(req.priority) \in Int
  BY DEF PriorityScore, ChoiceInv, Requirements, Priorities
<1> QED
  BY <1>2, <1>3, <1>4, <1>5 DEF CalculateAllocationScore, Dims

\* A scan with integer keys finds exactly one viable node.
LEMMA ScanPicksOne ==
  ASSUME NEW V \in SUBSET Nodes, V # {}, NEW key, \A f \in V : key[f] \in Int
  PROVE  \E e \in V : {f \in V : IsFirstSmallest(f, V, key)} = {e}
<1>1. PICK e \in V : IsFirstSmallest(e, V, key)
  BY FirstSmallestExists
<1>2. \A f \in V : IsFirstSmallest(f, V, key) => f = e
  BY <1>1, FirstSmallestUnique
<1> QED
  BY <1>1, <1>2

\* So does a position in the list.
LEMMA IndexPicksOne ==
  ASSUME NEW V \in SUBSET Nodes, V # {}, NEW i \in Nat
  PROVE  \E e \in V : {f \in V : AllocateRoundRobin(f, V, i)} = {e}
<1>1. Cardinality(V) \in Nat \ {0}
  BY NodeSets, FS_EmptySet
<1>2. i % Cardinality(V) \in 0..Cardinality(V) - 1
  BY <1>1
<1>3. PICK e \in V : Rank(e, V) = i % Cardinality(V)
  BY <1>2, RankReached
<1>4. ASSUME NEW f \in V, Rank(f, V) = i % Cardinality(V)
      PROVE  f = e
  <2>1. e \in Int /\ f \in Int /\ Rank(e, V) \in Int /\ Rank(f, V) = Rank(e, V)
    BY <1>2, <1>3, <1>4, NodeSets
  <2>2. ~(e < f) /\ ~(f < e)
    BY <2>1, RankIncreases
  <2> QED
    BY <2>1, <2>2
<1>5. \A f \in V : AllocateRoundRobin(f, V, i) <=> Rank(f, V) = i % Cardinality(V)
  BY DEF AllocateRoundRobin, Rank, Smaller
<1> QED
  BY <1>3, <1>4, <1>5

\* Whatever the strategy and however the keys tie, one viable node is picked,
\* and only one, when there is any.
THEOREM OneIsPicked == Spec => []PicksExactlyOne
<1>1. ChoiceInv => PicksExactlyOne
  <2> SUFFICES ASSUME ChoiceInv, Viable # {}
               PROVE  \E e \in Viable :
                        {f \in Viable :
                           Picks(strategy, f, Viable, req, usage, queueLen, index)} = {e}
    BY FS_Singleton DEF PicksExactlyOne
  <2>0. Viable \in SUBSET Nodes
    BY DEF Viable
  <2>1. CASE strategy = "ROUND_ROBIN"
    <3>1. index \in Nat
      BY DEF ChoiceInv
    <3> QED
      BY <2>0, <2>1, <3>1, IndexPicksOne DEF Picks
  <2>2. CASE strategy = "LEAST_LOAD"
    <3> DEFINE key == [f \in Viable |-> usage[f]["cpu"]]
    <3>1. \A f \in Viable : key[f] \in Int
      BY <2>0 DEF ChoiceInv, Resources, Dims
    <3>2. \A f \in Viable : Picks(strategy, f, Viable, req, usage, queueLen, index)
            <=> IsFirstSmallest(f, Viable, key)
      BY <2>2 DEF Picks, AllocateLeastLoad
    <3> HIDE DEF key
    <3> QED
      BY <2>0, <3>1, <3>2, ScanPicksOne
  <2>3. CASE strategy = "PRIORITY_BASED"
    <3> DEFINE key == IF req.priority >= HighPriority THEN Latency ELSE queueLen
    <3>1. \A f \in Viable : key[f] \in Int
      <4> SUFFICES ASSUME NEW f \in Viable PROVE key[f] \in Int
        OBVIOUS
      <4>1. f \in Nodes
        BY <2>0
      <4>2. Latency[f] \in Nat
        BY <4>1, AllocatorAssumption
      <4>3. queueLen \in [Nodes -> Lengths]
        BY DEF ChoiceInv
      <4>4. queueLen[f] \in Lengths
        BY <4>1, <4>3
      <4>5. queueLen[f] \in Nat
        BY <4>4, ChoiceAssumption
      <4>6. CASE req.priority >= HighPriority
        BY <4>2, <4>6
      <4>7. CASE ~ (req.priority >= HighPriority)
        BY <4>5, <4>7
      <4> QED
        BY <4>6, <4>7
    <3>2. \A f \in Viable : Picks(strategy, f, Viable, req, usage, queueLen, index)
            <=> IsFirstSmallest(f, Viable, key)
      BY <2>3 DEF Picks, AllocatePriorityBased
    <3> HIDE DEF key
    <3> QED
      BY <2>0, <3>1, <3>2, ScanPicksOne
  <2>4. CASE strategy = "MULTI_CONSTRAINT"
    <3> DEFINE key == [f \in Viable |-> -CalculateAllocationScore(f, req, usage, queueLen)]
    <3>1. \A f \in Viable : key[f] \in Int
      BY <2>0, ScoreType
    <3>2. \A f \in Viable : Picks(strategy, f, Viable, req, usage, queueLen, index)
            <=> IsFirstSmallest(f, Viable, key)
      BY <2>4 DEF Picks, AllocateMultiConstraint
    <3> HIDE DEF key
    <3> QED
      BY <2>0, <3>1, <3>2, ScanPicksOne
  <2> QED
    BY <2>1, <2>2, <2>3, <2>4 DEF ChoiceInv, Strategies
<1> QED
  BY <1>1, ChoiceInvariance, PTL

-----------------------------------------------------------------------------
(* Round robin. *)

\* Division with remainder gives what it is expected to.
LEMMA Remainder ==
  ASSUME NEW n \in Nat \ {0}, NEW q \in Int, NEW r \in 0..n - 1
  PROVE  (n * q + r) % n = r
<1> DEFINE m == n * q + r
           p == m \div n
           s == m % n
<1>1. m \in Int /\ p \in Int /\ s \in 0..n - 1 /\ m = n * p + s
  OBVIOUS
<1>2. n * (q - p) = s - r
  BY <1>1
<1> HIDE DEF m, p, s
<1>3. q - p < 1
  <2>1. q - p >= 1 => n * (q - p) >= n
    BY <1>1
  <2> QED
    BY <1>1, <1>2, <2>1
<1>4. q - p > -1
  <2>1. q - p <= -1 => n * (q - p) <= -n
    BY <1>1
  <2> QED
    BY <1>1, <1>2, <2>1
<1>5. q = p
  BY <1>1, <1>3, <1>4
<1>6. s = r
  BY <1>1, <1>2, <1>5
<1> QED
  BY <1>6 DEF m, s

\* So does the quotient.
LEMMA Quotient ==
  ASSUME NEW n \in Nat \ {0}, NEW q \in Int, NEW m, m = n * q + 0
  PROVE  m \div n = q
<1> DEFINE p == m \div n
           s == m % n
<1>1. m \in Int /\ p \in Int /\ s \in 0..n - 1 /\ m = n * p + s
  OBVIOUS
<1>2. s = 0
  <2>1. 0 \in 0..n - 1
    OBVIOUS
  <2> QED
    BY <2>1, Remainder
<1> HIDE DEF p, s
<1>3. n * (q - p) = 0
  BY <1>1, <1>2
<1>4. q - p = 0
  BY <1>1, <1>3
<1> QED
  BY <1>1, <1>4 DEF p

\* n consecutive indices take every remainder.
LEMMA EveryRemainder ==
  ASSUME NEW n \in Nat \ {0}, NEW i \in Nat, NEW r \in 0..n - 1
  PROVE  \E k \in 0..n - 1 : (i + k) % n = r
<1> DEFINE q == i \div n
           s == i % n
<1>1. q \in Int /\ s \in 0..n - 1 /\ i = n * q + s
  OBVIOUS
<1> HIDE DEF q, s
<1>2. CASE s <= r
  <2>1. i + (r - s) = n * q + r /\ r - s \in 0..n - 1
    BY <1>1, <1>2
  <2> QED
    BY <1>1, <2>1, Remainder
<1>3. CASE s > r
  <2>1. n * (q + 1) = n * q + n
    BY <1>1
  <2>2. i + (r - s + n) = n * (q + 1) + r /\ r - s + n \in 0..n - 1
    BY <1>1, <1>3, <2>1
  <2>3. q + 1 \in Int /\ i + (r - s + n) \in Int
    BY <1>1
  <2>4. (i + (r - s + n)) % n = r
    BY <2>2, <2>3, Remainder
  <2> QED
    BY <2>2, <2>4
<1> QED
  BY <1>1, <1>2, <1>3

\* While the viable nodes stay the same, as many consecutive picks as there
\* are nodes visit each of them, from whatever index.
THEOREM RoundRobinIsFair == Spec => []RoundRobinVisitsAll
<1>1. ChoiceInv => RoundRobinVisitsAll
  <2> SUFFICES ASSUME ChoiceInv, NEW v \in SUBSET Nodes, NEW e \in v
               PROVE  \E k \in 0..Cardinality(v) - 1 : AllocateRoundRobin(e, v, index + k)
    BY DEF RoundRobinVisitsAll
  <2>1. Cardinality(v) \in Nat \ {0} /\ index \in Nat
    BY NodeSets, FS_EmptySet DEF ChoiceInv
  <2>2. Rank(e, v) \in 0..Cardinality(v) - 1
    BY RankBound
  <2>3. PICK k \in 0..Cardinality(v) - 1 : (index + k) % Cardinality(v) = Rank(e, v)
    BY <2>1, <2>2, EveryRemainder
  <2> QED
    BY <2>3 DEF AllocateRoundRobin, Rank, Smaller
<1> QED
  BY <1>1, ChoiceInvariance, PTL

-----------------------------------------------------------------------------
(* The weighted score. *)

\* The fixed point is fine enough for the shares that are compared, and no
\* latency and no queue lies beyond the range of its score.
ExactScores ==
  /\ \A e \in Nodes, d \in Dims :
       \E n \in Nat : n > 0 /\ Capacity[e][d] > 0 /\ Scale = Capacity[e][d] * n
  /\ \E n \in Nat : n > 0 /\ Scale = 100 * n
  /\ \A e \in Nodes : Latency[e] < LatencyCeilingMs
  /\ \A n \in Lengths : n <= QueueCeiling

\* Equal multiples, compared.
LEMMA Compared ==
  ASSUME NEW s \in Nat \ {0}, NEW a \in Nat, NEW b \in Nat, NEW x \in Nat, NEW y \in Nat,
         NEW c \in Nat \ {0}, NEW d \in Nat \ {0}, x * c = a * s, y * d = b * s
  PROVE  x >= y <=> a * d >= b * c
<1>1. (a * d) * s = x * (c * d)
  <2>1. (a * d) * s = (a * s) * d
    OBVIOUS
  <2>2. (x * c) * d = x * (c * d)
    OBVIOUS
  <2> QED
    BY <2>1, <2>2
<1>2. (b * c) * s = y * (c * d)
  <2>1. (b * c) * s = (b * s) * c
    OBVIOUS
  <2>2. (y * d) * c = y * (c * d)
    OBVIOUS
  <2> QED
    BY <2>1, <2>2
<1> DEFINE p == c * d
           u == a * d
           w == b * c
<1>3. p \in Nat /\ p > 0 /\ u \in Nat /\ w \in Nat
  OBVIOUS
<1>4. u * s = x * p /\ w * s = y * p
  BY <1>1, <1>2
<1> HIDE DEF p, u, w
<1>5. x >= y => x * p >= y * p
  BY <1>3
<1>6. x < y => x * p < y * p
  BY <1>3
<1>7. u >= w => u * s >= w * s
  BY <1>3
<1>8. u < w => u * s < w * s
  BY <1>3
<1>9. x >= y <=> u >= w
  BY <1>3, <1>4, <1>5, <1>6, <1>7, <1>8
<1> QED
  BY <1>9 DEF u, w

\* The score of a resource orders nodes by the share that is free.
LEMMA ShareOrder ==
  ASSUME ExactScores, ChoiceInv, NEW e \in Nodes, NEW f \in Nodes, NEW d \in Dims
  PROVE  /\ NormalizeScore(e, usage, d) \in Nat
         /\ FreeAtLeast(e, f, d) <=> NormalizeScore(e, usage, d) >= NormalizeScore(f, usage, d)
<1>1. ASSUME NEW g \in Nodes
      PROVE  /\ Capacity[g][d] \in Nat \ {0} /\ Capacity[g][d] - usage[g][d] \in Nat
             /\ NormalizeScore(g, usage, d) \in Nat
             /\ NormalizeScore(g, usage, d) * Capacity[g][d]
                  = (Capacity[g][d] - usage[g][d]) * Scale
  <2> DEFINE c == Capacity[g][d]
             a == Capacity[g][d] - usage[g][d]
  <2>1. c \in Nat /\ a \in Nat /\ a <= c
    BY NodeAssumption DEF ChoiceInv, Resources
  <2>2. PICK n \in Nat : n > 0 /\ c > 0 /\ Scale = c * n
    BY DEF ExactScores
  <2>3. NormalizeScore(g, usage, d) = Clamp((a * Scale) \div c, 0, Scale)
    BY <2>1, <2>2 DEF NormalizeScore
  <2> HIDE DEF c, a
  <2>4. (a * Scale) \div c = a * n
    <3>1. a * Scale = c * (a * n) + 0
      BY <2>1, <2>2
    <3>2. a * n \in Int /\ c \in Nat \ {0}
      BY <2>1, <2>2
    <3> HIDE DEF a
    <3> QED
      BY <3>1, <3>2, Quotient
  <2>5. 0 <= a * n /\ a * n <= Scale /\ a * n \in Nat
    <3>1. a * n <= c * n
      BY <2>1, <2>2
    <3> QED
      BY <2>1, <2>2, <3>1
  <2>6. NormalizeScore(g, usage, d) = a * n
    BY <2>2, <2>3, <2>4, <2>5 DEF Clamp
  <2>7. (a * n) * c = a * Scale
    BY <2>1, <2>2
  <2> QED
    BY <2>1, <2>2, <2>5, <2>6, <2>7 DEF c, a
<1>2. NormalizeScore(e, usage, d) >= NormalizeScore(f, usage, d)
        <=> (Capacity[e][d] - usage[e][d]) * Capacity[f][d]
              >= (Capacity[f][d] - usage[f][d]) * Capacity[e][d]
  BY <1>1, AllocatorAssumption, Compared
<1> QED
  BY <1>1, <1>2 DEF FreeAtLeast

\* The score of the latency orders nodes by it, and that of the queue by its
\* length.
LEMMA DelayOrder ==
  ASSUME ExactScores, ChoiceInv, NEW e \in Nodes, NEW f \in Nodes
  PROVE  /\ NormalizeLatencyScore(e) \in Nat /\ NormalizeQueueScore(queueLen[e]) \in Nat
         /\ Latency[e] <= Latency[f] <=> NormalizeLatencyScore(e) >= NormalizeLatencyScore(f)
         /\ queueLen[e] <= queueLen[f]
              <=> NormalizeQueueScore(queueLen[e]) >= NormalizeQueueScore(queueLen[f])
<1>1. PICK n \in Nat : n > 0 /\ Scale = 100 * n
  BY DEF ExactScores
<1>2. ASSUME NEW l \in Nat, l <= 100
      PROVE  /\ (l * Scale) \div 100 = l * n
             /\ Scale - l * n = (100 - l) * n /\ (100 - l) * n >= 0 /\ (100 - l) * n <= Scale
             /\ l < 100 => (100 - l) * n >= n
  <2> DEFINE p == l * n
  <2>1. l * Scale = 100 * p /\ (100 - l) * n = 100 * n - p
        /\ p \in Int /\ p >= 0 /\ p <= 100 * n
        /\ (l < 100 => p <= 99 * n)
    BY <1>1, <1>2
  <2> HIDE DEF p
  <2>2. (100 * p) \div 100 = p
    BY <2>1
  <2> QED
    BY <1>1, <2>1, <2>2 DEF p
<1>3. Scale \div 100 = n
  BY <1>1
<1>4. ASSUME NEW g \in Nodes
      PROVE  /\ Latency[g] \in Nat /\ queueLen[g] \in Nat
             /\ Latency[g] <= 100 /\ queueLen[g] <= 100
             /\ NormalizeLatencyScore(g) = (100 - Latency[g]) * n
             /\ NormalizeQueueScore(queueLen[g]) = (100 - queueLen[g]) * n
  <2>1. Latency[g] \in Nat /\ Latency[g] < 100
    BY AllocatorAssumption DEF ExactScores, LatencyCeilingMs
  <2>2. queueLen[g] \in Nat /\ queueLen[g] <= 100
    BY ChoiceAssumption DEF ExactScores, ChoiceInv, QueueCeiling
  <2>3. NormalizeLatencyScore(g) = (100 - Latency[g]) * n
    BY <1>1, <1>2, <1>3, <2>1 DEF NormalizeLatencyScore, LatencyCeilingMs, Clamp
  <2>4. NormalizeQueueScore(queueLen[g]) = (100 - queueLen[g]) * n
    BY <1>1, <1>2, <2>2 DEF NormalizeQueueScore, QueueCeiling, Clamp
  <2> QED
    BY <2>1, <2>2, <2>3, <2>4
<1>5. ASSUME NEW l \in Nat, NEW m \in Nat, l <= 100, m <= 100
      PROVE  (100 - l) * n \in Nat /\ (l <= m <=> (100 - l) * n >= (100 - m) * n)
  <2>1. l <= m => (100 - l) * n >= (100 - m) * n
    BY <1>1, <1>5
  <2>2. l > m => (100 - l) * n < (100 - m) * n
    BY <1>1, <1>5
  <2>3. (100 - l) * n \in Nat
    BY <1>1, <1>5
  <2> QED
    BY <2>1, <2>2, <2>3
<1>6. /\ Latency[e] \in Nat /\ Latency[f] \in Nat /\ Latency[e] <= 100 /\ Latency[f] <= 100
      /\ queueLen[e] \in Nat /\ queueLen[f] \in Nat /\ queueLen[e] <= 100 /\ queueLen[f] <= 100
  BY <1>4
<1>7. /\ NormalizeLatencyScore(e) \in Nat
      /\ Latency[e] <= Latency[f] <=> NormalizeLatencyScore(e) >= NormalizeLatencyScore(f)
  <2>1. /\ NormalizeLatencyScore(e) = (100 - Latency[e]) * n
        /\ NormalizeLatencyScore(f) = (100 - Latency[f]) * n
    BY <1>4
  <2> QED
    BY <1>5, <1>6, <2>1
<1>8. /\ NormalizeQueueScore(queueLen[e]) \in Nat
      /\ queueLen[e] <= queueLen[f]
           <=> NormalizeQueueScore(queueLen[e]) >= NormalizeQueueScore(queueLen[f])
  <2>1. /\ NormalizeQueueScore(queueLen[e]) = (100 - queueLen[e]) * n
        /\ NormalizeQueueScore(queueLen[f]) = (100 - queueLen[f]) * n
    BY <1>4
  <2> DEFINE a == queueLen[e]
             b == queueLen[f]
  <2>2. a \in Nat /\ b \in Nat /\ a <= 100 /\ b <= 100
    BY <1>6
  <2> HIDE DEF a, b
  <2>3. (100 - a) * n \in Nat /\ (a <= b <=> (100 - a) * n >= (100 - b) * n)
    BY <1>5, <2>2
  <2> QED
    BY <2>1, <2>3, Zenon DEF a, b
<1> QED
  BY <1>7, <1>8

\* The multi-constraint score never prefers a node that another viable node
\* beats in some respect and equals in all the others, as long as rounding
\* and the limits of the scores hide nothing.
THEOREM PickIsNotDominated ==
  ASSUME ExactScores
  PROVE  Spec => []NeverDominated
<1>1. ChoiceInv => NeverDominated
  <2> SUFFICES ASSUME ChoiceInv, strategy = "MULTI_CONSTRAINT", chosen # 0,
                      NEW e \in Viable, AtLeastAsGood(e, chosen)
               PROVE  AtLeastAsGood(chosen, e)
    BY DEF NeverDominated
  <2>1. chosen \in Nodes /\ e \in Nodes /\ chosen \in Viable
    BY DEF ChoiceInv, Viable
  <2> DEFINE score(g) == CalculateAllocationScore(g, req, usage, queueLen)
             share(g, d) == NormalizeScore(g, usage, d)
             latency(g) == NormalizeLatencyScore(g)
             line(g) == NormalizeQueueScore(queueLen[g])
  <2>2. /\ \A d \in Dims : /\ share(e, d) \in Nat /\ share(chosen, d) \in Nat
                           /\ share(e, d) >= share(chosen, d)
        /\ latency(e) \in Nat /\ latency(chosen) \in Nat /\ latency(e) >= latency(chosen)
        /\ line(e) \in Nat /\ line(chosen) \in Nat /\ line(e) >= line(chosen)
    BY <2>1, ShareOrder, DelayOrder DEF AtLeastAsGood
  <2>3. score(chosen) >= score(e)
    <3>1. IsFirstSmallest(chosen, Viable,
            [g \in Viable |-> -CalculateAllocationScore(g, req, usage, queueLen)])
      BY DEF ChoiceInv, Picks, AllocateMultiConstraint
    <3>2. score(chosen) \in Int /\ score(e) \in Int
      BY <2>1, ScoreType
    <3> HIDE DEF score
    <3>3. -score(chosen) <= -score(e)
      BY <2>1, <3>1, <3>2 DEF IsFirstSmallest, score
    <3> QED
      BY <3>2, <3>3
  <2>4. PriorityScore(req.priority) \in Int
    BY AllocatorAssumption DEF PriorityScore, ChoiceInv, Requirements, Priorities
  <2>5. /\ \A d \in Dims : share(chosen, d) >= share(e, d)
        /\ latency(chosen) >= latency(e) /\ line(chosen) >= line(e)
    <3>1. \A g : score(g) = 25 * share(g, "cpu") + 20 * share(g, "ram")
                   + 15 * share(g, "bandwidth") + 15 * latency(g) + 15 * line(g)
                   + 10 * PriorityScore(req.priority)
      BY DEF CalculateAllocationScore
    <3> HIDE DEF score, share, latency, line
    <3> QED
      BY <2>2, <2>3, <2>4, <3>1 DEF Dims
  <2> QED
    BY <2>1, <2>5, ShareOrder, DelayOrder DEF AtLeastAsGood
<1> QED
  BY <1>1, ChoiceInvariance, PTL
=============================================================================
