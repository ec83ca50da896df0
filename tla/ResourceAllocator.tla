------------------------- MODULE ResourceAllocator --------------------------
(***************************************************************************)
(* The four allocation strategies of resource_allocator.cpp.               *)
(*                                                                         *)
(* A strategy scans the viable nodes in id order and keeps the first one   *)
(* whose key is strictly better than all before it.  Each is stated as a   *)
(* predicate "the strategy picks e", true of exactly one viable node.      *)
(***************************************************************************)
EXTENDS EdgeNode

CONSTANTS
  Latency,   \* capacity_.latency_ms of each node
  Scale      \* fixed-point one of the normalised scores

Strategies ==
  {"ROUND_ROBIN", "LEAST_LOAD", "PRIORITY_BASED", "MULTI_CONSTRAINT"}

Priorities == 0..3           \* LOW, MEDIUM, HIGH, CRITICAL
HighPriority == 2

\* Task::TaskRequirements; the deadline enters through TaskScheduler.
Requirements == [need : Resources, priority : Priorities]

LatencyCeilingMs == 100
QueueCeiling == 100          \* kMaxQueueLengthForScore

ASSUME AllocatorAssumption ==
  /\ Latency \in [Nodes -> Nat]
  /\ Scale \in Nat \ {0}

\* The test of getViableEdges.  Every node of a LiveRuntime stays available:
\* nothing there fails one.
IsViable(e, usage, req) == CanAllocate(TRUE, Capacity[e], usage[e], req.need)

\* normalizeCpuScore, normalizeRamScore and normalizeBandwidthScore.
NormalizeScore(e, usage, d) ==
  IF Capacity[e][d] = 0
  THEN 0
  ELSE Clamp(((Capacity[e][d] - usage[e][d]) * Scale) \div Capacity[e][d], 0, Scale)

NormalizeLatencyScore(e) ==
  Clamp(Scale - (Latency[e] * Scale) \div LatencyCeilingMs, Scale \div 100, Scale)

\* Mutant: a long queue scores high.
NormalizeQueueInverted(len) == Clamp((len * Scale) \div QueueCeiling, 0, Scale)

NormalizeQueueScore(len) ==
  Clamp(Scale - (len * Scale) \div QueueCeiling, 0, Scale)

PriorityScore(priority) == (Scale * (priority + 1)) \div 4

\* The weighted sum with the default weights, in percent.
CalculateAllocationScore(e, req, usage, queueLen) ==
  25 * NormalizeScore(e, usage, "cpu") + 20 * NormalizeScore(e, usage, "ram")
    + 15 * NormalizeScore(e, usage, "bandwidth") + 15 * NormalizeLatencyScore(e)
    + 15 * NormalizeQueueScore(queueLen[e]) + 10 * PriorityScore(req.priority)

\* Mutant: ties are not broken.
IsSmallest(e, viable, key) == \A f \in viable : key[e] <= key[f]

\* e is the first node of viable, in id order, whose key is smallest.
IsFirstSmallest(e, viable, key) ==
  \A f \in viable : key[e] < key[f] \/ (key[e] = key[f] /\ e <= f)

\* Mutant: the index wraps at the number of nodes, not of viable nodes.
AllocateRoundRobinAll(e, viable, index) ==
  Cardinality({f \in viable : f < e}) = index % NodeCount

\* viable[round_robin_index_ % viable.size()]
AllocateRoundRobin(e, viable, index) ==
  Cardinality({f \in viable : f < e}) = index % Cardinality(viable)

AllocateLeastLoad(e, viable, usage) ==
  IsFirstSmallest(e, viable, [f \in viable |-> usage[f]["cpu"]])

AllocatePriorityBased(e, viable, req, queueLen) ==
  IF req.priority >= HighPriority
  THEN IsFirstSmallest(e, viable, Latency)
  ELSE IsFirstSmallest(e, viable, queueLen)

AllocateMultiConstraint(e, viable, req, usage, queueLen) ==
  IsFirstSmallest(e, viable,
    [f \in viable |-> -CalculateAllocationScore(f, req, usage, queueLen)])

\* The switch on strategy_ in allocateTask and allocateTaskWithRetry.
Picks(strategy, e, viable, req, usage, queueLen, index) ==
  \/ strategy = "ROUND_ROBIN" /\ AllocateRoundRobin(e, viable, index)
  \/ strategy = "LEAST_LOAD" /\ AllocateLeastLoad(e, viable, usage)
  \/ /\ strategy = "PRIORITY_BASED"
     /\ AllocatePriorityBased(e, viable, req, queueLen)
  \/ /\ strategy = "MULTI_CONSTRAINT"
     /\ AllocateMultiConstraint(e, viable, req, usage, queueLen)
=============================================================================
