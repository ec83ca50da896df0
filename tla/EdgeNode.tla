------------------------------ MODULE EdgeNode ------------------------------
(***************************************************************************)
(* Resource arithmetic of one edge node (edge_node.h, edge_node.cpp).      *)
(*                                                                         *)
(* A resource vector is a function from the three accounted dimensions to  *)
(* naturals.  The code keeps doubles; the model counts in units fine       *)
(* enough for the built-in task profiles (half a percent of CPU, one MB,   *)
(* half a Mbps), in which every sum the accounting forms is exact.         *)
(*                                                                         *)
(* Every operation below is one critical section of resource_mutex_, so a  *)
(* specification that uses it takes one atomic step per operation.         *)
(***************************************************************************)
EXTENDS Integers, Sequences, FiniteSetsExt

CONSTANTS
  NodeCount,   \* number of edge nodes registered with the monitor
  Capacity     \* the resource vector each node is built with

\* Node ids E01, E02, ... are numbered in the order std::map iterates them.
Nodes == 1..NodeCount

Dims == {"cpu", "ram", "bandwidth"}

Resources == [Dims -> Nat]

\* LiveRuntime::initialize refuses a fleet without nodes.
ASSUME NodeAssumption ==
  /\ NodeCount \in Nat \ {0}
  /\ Capacity \in [Nodes -> Resources]

NoUsage == [d \in Dims |-> 0]

\* Mutant: the requirement is compared with the capacity, not with what is free.
CanAllocateIdle(available, cap, use, req) ==
  available /\ \A d \in Dims : cap[d] >= req[d]

CanAllocate(available, cap, use, req) ==
  /\ available
  /\ \A d \in Dims : cap[d] - use[d] >= req[d]

AllocateResources(use, req) == [d \in Dims |-> use[d] + req[d]]

\* Mutant: bandwidth is not given back.
DeallocateCpuAndRam(use, req) ==
  [d \in Dims |-> IF d = "bandwidth" \/ use[d] < req[d] THEN use[d]
                  ELSE use[d] - req[d]]

\* Mutant: no clamp at zero.
DeallocateUnclamped(use, req) == [d \in Dims |-> use[d] - req[d]]

\* A release never takes the usage below zero.
DeallocateResources(use, req) ==
  [d \in Dims |-> IF use[d] >= req[d] THEN use[d] - req[d] ELSE 0]

Clamp(x, lo, hi) == IF x < lo THEN lo ELSE IF x > hi THEN hi ELSE x

\* Mutant: background load takes bandwidth too.
AllDimsFluctuate == Dims

FluctuatingDims == {"cpu", "ram"}

\* The background load of one node moves; bandwidth has none.
SimulateResourceFluctuation(use, cap, delta) ==
  [d \in Dims |-> IF d \in FluctuatingDims
                  THEN Clamp(use[d] + delta[d], 0, cap[d]) ELSE use[d]]

\* What a set of tasks with requirement req(t) reserves together.
Reserved(req(_), tasks) ==
  [d \in Dims |-> MapThenSumSet(LAMBDA t : req(t)[d], tasks)]
=============================================================================
