----------------------------- MODULE Allocation -----------------------------
(***************************************************************************)
(* One choice of a node, on any input: what each of the four strategies    *)
(* of ResourceAllocator owes its callers.                                  *)
(***************************************************************************)
EXTENDS ResourceAllocator

CONSTANTS
  Loads,       \* usage vectors a node may have
  Lengths,     \* lengths a queue may have
  Indices,     \* values of round_robin_index_
  Demands      \* requirements of the task

ASSUME ChoiceAssumption ==
  /\ Loads \subseteq Resources /\ Lengths \subseteq Nat /\ Indices \subseteq Nat
  /\ Demands \subseteq Requirements

VARIABLES
  usage, queueLen, index, req, strategy,
  chosen       \* the node picked, 0 before that

inputs == <<usage, queueLen, index, req, strategy>>

Viable == {e \in Nodes : IsViable(e, usage, req)}

Init ==
  /\ usage \in {u \in [Nodes -> Loads] :
                  \A e \in Nodes, d \in Dims : u[e][d] <= Capacity[e][d]}
  /\ queueLen \in [Nodes -> Lengths]
  /\ index \in Indices
  /\ req \in Demands
  /\ strategy \in Strategies
  /\ chosen = 0

\* The dispatch on the strategy, up to the node it settles on; reserving
\* there, counting and retrying are LiveRuntime's and ResourceControl's.
Choose ==
  /\ chosen = 0
  /\ \E e \in Viable :
       /\ Picks(strategy, e, Viable, req, usage, queueLen, index)
       /\ chosen' = e
  /\ UNCHANGED inputs

Spec == Init /\ [][Choose]_<<inputs, chosen>>

-----------------------------------------------------------------------------

\* Every strategy finds one node, and only one, when any is viable, however
\* the keys tie.
PicksExactlyOne ==
  Viable # {} =>
    Cardinality({e \in Viable :
                   Picks(strategy, e, Viable, req, usage, queueLen, index)}) = 1

\* The share of d that is free on e is at least, or more than, that on f.
FreeAtLeast(e, f, d) ==
  (Capacity[e][d] - usage[e][d]) * Capacity[f][d]
    >= (Capacity[f][d] - usage[f][d]) * Capacity[e][d]

\* e is at least as good as f in everything the weighted score looks at.
AtLeastAsGood(e, f) ==
  /\ \A d \in Dims : FreeAtLeast(e, f, d)
  /\ Latency[e] <= Latency[f]
  /\ queueLen[e] <= queueLen[f]

\* The multi-constraint score never prefers a node that another viable node
\* beats in some respect and equals in all the others.
NeverDominated ==
  strategy = "MULTI_CONSTRAINT" /\ chosen # 0 =>
    \A e \in Viable : AtLeastAsGood(e, chosen) => AtLeastAsGood(chosen, e)

\* While the viable nodes stay the same, as many consecutive round-robin
\* picks as there are nodes visit each of them once.
RoundRobinVisitsAll ==
  \A v \in SUBSET Nodes :
    {e \in v : \E k \in 0..Cardinality(v) - 1 : AllocateRoundRobin(e, v, index + k)} = v
=============================================================================
