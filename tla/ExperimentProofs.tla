-------------------------- MODULE ExperimentProofs ---------------------------
(***************************************************************************)
(* Capacity, tasks and bandwidth in the batch experiment, whose nodes      *)
(* carry background load.                                                  *)
(*                                                                         *)
(* Most steps of the experiment are steps of the live runtime, for which   *)
(* LiveRuntimeProofs and TaskProofs have the lemmas; what is new is the    *)
(* fluctuation after a placement, the polling drain and the join.          *)
(***************************************************************************)
EXTENDS Experiment, TaskProofs

\* A fluctuation keeps every dimension within zero and the capacity.
LEMMA FluctuationFits ==
  ASSUME NEW u \in Resources, NEW cap \in Resources,
         NEW delta \in [FluctuatingDims -> -Drift..Drift],
         \A d \in Dims : u[d] <= cap[d]
  PROVE  /\ SimulateResourceFluctuation(u, cap, delta) \in Resources
         /\ \A d \in Dims : SimulateResourceFluctuation(u, cap, delta)[d] <= cap[d]
<1> DEFINE w == SimulateResourceFluctuation(u, cap, delta)
<1>1. ASSUME NEW d \in Dims
      PROVE  w[d] \in Nat /\ w[d] <= cap[d]
  <2>1. u[d] \in Nat /\ cap[d] \in Nat /\ u[d] <= cap[d]
    BY DEF Resources
  <2>2. CASE d \in FluctuatingDims
    <3>1. delta[d] \in Int
      BY <2>2, ExperimentAssumption
    <3>2. w[d] = Clamp(u[d] + delta[d], 0, cap[d])
      BY <2>2 DEF SimulateResourceFluctuation
    <3> QED
      BY <2>1, <3>1, <3>2 DEF Clamp
  <2>3. CASE d \notin FluctuatingDims
    BY <2>1, <2>3 DEF SimulateResourceFluctuation
  <2> QED
    BY <2>2, <2>3
<1>2. w = [d \in Dims |-> w[d]]
  BY DEF SimulateResourceFluctuation
<1> HIDE DEF w
<1>3. w \in Resources
  BY <1>1, <1>2 DEF Resources
<1> QED
  BY <1>1, <1>3 DEF w

\* updateResourceMetrics keeps all nodes within their capacity.
LEMMA MetricsFit ==
  ASSUME usage \in [Nodes -> Resources], UsageWithinCapacity, UpdateResourceMetrics
  PROVE  usage' \in [Nodes -> Resources] /\ UsageWithinCapacity'
<1>1. CASE usage' = usage
  BY <1>1 DEF UsageWithinCapacity
<1>2. CASE usage' # usage
  <2>1. PICK delta \in [Nodes -> [FluctuatingDims -> -Drift..Drift]] :
          usage' = [e \in Nodes |->
                      SimulateResourceFluctuation(usage[e], Capacity[e], delta[e])]
    BY <1>2 DEF UpdateResourceMetrics
  <2>2. ASSUME NEW e \in Nodes
        PROVE  /\ usage'[e] \in Resources
               /\ \A d \in Dims : usage'[e][d] <= Capacity[e][d]
    <3>1. /\ usage[e] \in Resources /\ Capacity[e] \in Resources
          /\ delta[e] \in [FluctuatingDims -> -Drift..Drift]
          /\ \A d \in Dims : usage[e][d] <= Capacity[e][d]
      BY NodeAssumption DEF UsageWithinCapacity
    <3>2. usage'[e] = SimulateResourceFluctuation(usage[e], Capacity[e], delta[e])
      BY <2>1
    <3> QED
      BY <3>1, <3>2, FluctuationFits
  <2>3. usage' = [e \in Nodes |-> usage'[e]]
    BY <2>1
  <2>4. usage' \in [Nodes -> Resources]
    BY <2>2, <2>3
  <2> QED
    BY <2>2, <2>4 DEF UsageWithinCapacity
<1> QED
  BY <1>1, <1>2

\* Recording a placement or a failure, then the fluctuation.
LEMMA RecordStep ==
  ASSUME PlacementInv, PlaceStep, RecordAllocation \/ RecordFailure
  PROVE  PlacementInv'
<1> USE DEF PlacementInv
<1>0. Producer \in Threads /\ pc \in [Threads -> ThreadPcs]
  BY DEF Threads, TypeOK, ThreadTypeOK
<1>1. PICK row \in Rows : Placed(row)
  <2>1. generated \in Tasks
    BY DEF Bounded, Critical, RecordAllocation, RecordFailure
  <2>2. assigned[generated] \in Nodes \cup {NoNode}
    BY <2>1 DEF TypeOK, TaskTypeOK
  <2>3. /\ [edge |-> assigned[generated], strategy |-> ConfiguredStrategy] \in Rows
        /\ [edge |-> NoNode, strategy |-> "none"] \in Rows
    BY <2>2, ExperimentAssumption DEF Rows
  <2> QED
    BY <2>3 DEF RecordAllocation, RecordFailure
<1>2. usage' \in [Nodes -> Resources] /\ UsageWithinCapacity'
  BY <1>1, MetricsFit DEF Placed, TypeOK, EdgeTypeOK
<1>3. /\ UNCHANGED <<queue, processed, allocStrategy, rrIndex, allocs, schedStrategy,
                     scheduled, schedMutex, status, assigned, used, dbStatus, dbExec>>
      /\ UNCHANGED <<target, probe, load, generated, attempt, cursor, viable,
                     seenUsage, seenQueue>>
      /\ UNCHANGED <<wpc, scratch, hand, met, active, executed, failed, execRunning>>
      /\ UNCHANGED <<automatic, requested, requests, stopPc, running, complete, outcome>>
  BY <1>1 DEF PlaceStep, Placed, taskVars, workVars, execVars, confVars, lifeVars
<1>4. /\ cfgMutex' = Free /\ pc' = [pc EXCEPT ![Producer] = "head"]
      /\ dbRows' = [dbRows EXCEPT ![generated] = Append(@, row)]
  BY <1>1 DEF Placed, Goto
<1>5. pc[Producer] \in {"saveAllocation", "saveFailure"}
  BY DEF RecordAllocation, RecordFailure
<1>6. TypeOK'
  <2>1. EdgeTypeOK' /\ AllocatorTypeOK' /\ SchedulerTypeOK' /\ TaskTypeOK'
    BY <1>2, <1>3 DEF TypeOK, EdgeTypeOK, AllocatorTypeOK, SchedulerTypeOK, TaskTypeOK
  <2>2. DatabaseTypeOK'
    <3>1. \A t \in Tasks : Append(dbRows[t], row) \in Seq(Rows)
      BY AppendProperties DEF TypeOK, DatabaseTypeOK
    <3> QED
      BY <1>3, <1>4, <3>1 DEF TypeOK, DatabaseTypeOK
  <2>3. ThreadTypeOK' /\ ScanTypeOK'
    BY <1>0, <1>3, <1>4 DEF TypeOK, ThreadTypeOK, ScanTypeOK, ThreadPcs
  <2>4. WorkerTypeOK' /\ ExecutorTypeOK'
    BY <1>3 DEF TypeOK, WorkerTypeOK, ExecutorTypeOK
  <2>5. ConfigurationTypeOK' /\ LifeTypeOK'
    BY <1>3 DEF TypeOK, ConfigurationTypeOK, LifeTypeOK
  <2> QED
    BY <2>1, <2>2, <2>3, <2>4, <2>5 DEF TypeOK
<1>7. Exclusive'
  <2>1. \A p \in Threads : p = Producer
    BY ExperimentAssumption DEF Threads
  <2> QED
    BY <1>0, <1>4, <2>1 DEF Exclusive, Critical
<1>8. Bounded' /\ HandsFull' /\ ViableFits'
  BY <1>0, <1>3, <1>4 DEF Bounded, HandsFull, ViableFits, Critical
<1>9. NotPlacedYet'
  <2>1. generated \in Tasks
    BY <1>5 DEF Bounded, Critical
  <2>2. \A t \in Tasks : t # generated => dbRows'[t] = dbRows[t]
    BY <1>4 DEF TypeOK, DatabaseTypeOK
  <2>3. pc'[Producer] = "head"
    BY <1>0, <1>4
  <2> QED
    BY <1>3, <2>1, <2>2, <2>3, PlacingStep
<1> QED
  BY <1>2, <1>6, <1>7, <1>8, <1>9

\* Steps that only move main from the drain to the join.
LEMMA EndStep ==
  ASSUME PlacementInv, (QueuesLookEmpty /\ PollStep) \/ StopWorkers \/ JoinWorkers
  PROVE  PlacementInv'
<1> USE DEF PlacementInv
<1>0. Producer \in Threads /\ pc \in [Threads -> ThreadPcs]
  BY DEF Threads, TypeOK, ThreadTypeOK
<1>1. /\ UNCHANGED <<usage, queue, processed, allocStrategy, rrIndex, allocs,
                     schedStrategy, scheduled, schedMutex>>
      /\ UNCHANGED <<status, assigned, used, dbStatus, dbRows, dbExec, target,
                     cfgMutex, probe, load, generated>>
      /\ UNCHANGED <<attempt, cursor, viable, seenUsage, seenQueue>>
      /\ UNCHANGED <<wpc, scratch, hand, met, active, executed, failed>>
      /\ UNCHANGED <<automatic, requested, requests, running, complete>>
  BY DEF QueuesLookEmpty, PollStep, StopWorkers, JoinWorkers, edgeVars, allocVars,
     schedVars, taskVars, dbVars, threadVars, scanVars, workVars, execVars, confVars
<1>2. \/ pc' = pc
      \/ pc' = [pc EXCEPT ![Producer] = "finish"]
      \/ pc' = [pc EXCEPT ![Producer] = "done"]
  BY DEF QueuesLookEmpty, StopWorkers, JoinWorkers, threadVars, Goto
<1>3. execRunning' \in BOOLEAN
  <2>1. execRunning \in BOOLEAN
    BY DEF TypeOK, ExecutorTypeOK
  <2>2. CASE StopWorkers
    BY <2>2, Zenon DEF StopWorkers
  <2> QED
    BY <2>1, <2>2 DEF PollStep, JoinWorkers, execVars
<1>4. stopPc' \in {"none", "requested", "joining", "stopped"}
      /\ outcome' \in {"none", "drained", "stopped", "expired"}
  BY DEF TypeOK, LifeTypeOK, QueuesLookEmpty, PollStep, StopWorkers, JoinWorkers
<1>5. TypeOK'
  <2>1. EdgeTypeOK' /\ AllocatorTypeOK' /\ SchedulerTypeOK' /\ TaskTypeOK'
    BY <1>1 DEF TypeOK, EdgeTypeOK, AllocatorTypeOK, SchedulerTypeOK, TaskTypeOK
  <2>2. DatabaseTypeOK' /\ ScanTypeOK'
    BY <1>1 DEF TypeOK, DatabaseTypeOK, ScanTypeOK
  <2>3. ThreadTypeOK'
    BY <1>0, <1>1, <1>2 DEF TypeOK, ThreadTypeOK, ThreadPcs
  <2>4. WorkerTypeOK' /\ ExecutorTypeOK'
    BY <1>1, <1>3 DEF TypeOK, WorkerTypeOK, ExecutorTypeOK
  <2>5. ConfigurationTypeOK' /\ LifeTypeOK'
    BY <1>1, <1>4 DEF TypeOK, ConfigurationTypeOK, LifeTypeOK
  <2> QED
    BY <2>1, <2>2, <2>3, <2>4, <2>5 DEF TypeOK
<1>6. Exclusive' /\ Bounded'
  BY <1>0, <1>1, <1>2 DEF Exclusive, Bounded, Critical
<1>7. HandsFull'
  BY <1>1 DEF HandsFull
<1>8. ViableFits' /\ UsageWithinCapacity'
  BY <1>0, <1>1, <1>2 DEF ViableFits, UsageWithinCapacity, IsViable
<1>9. NotPlacedYet'
  BY <1>0, <1>1, <1>2, QuietPlacement
<1> QED
  BY <1>5, <1>6, <1>7, <1>8, <1>9

\* The other steps of the experiment are steps of the live runtime.
LEMMA SharedSteps ==
  ASSUME [ExperimentNext]_vars
  PROVE  \/ [Next]_vars
         \/ PlaceStep /\ (RecordAllocation \/ RecordFailure)
         \/ (QueuesLookEmpty /\ PollStep) \/ StopWorkers \/ JoinWorkers
BY DEF ExperimentNext, RunStep, PlaceStep, PollStep, Next, ProducerStep, CommitStep,
   DrainStep

\* Every step of the experiment keeps the invariant.
LEMMA ExperimentStep ==
  PlacementInv /\ [ExperimentNext]_vars => PlacementInv'
<1> SUFFICES ASSUME PlacementInv, [ExperimentNext]_vars PROVE PlacementInv'
  OBVIOUS
<1>1. CASE [Next]_vars
  BY <1>1, PlacementStep
<1> QED
  BY <1>1, SharedSteps, RecordStep, EndStep

-----------------------------------------------------------------------------
(* The tasks of an experiment. *)

\* Recording a task, and the fluctuation after it, move at most that task in
\* its life, and no bandwidth.
LEMMA RecordTasks ==
  ASSUME TaskInv, Joined, PlaceStep, RecordAllocation \/ RecordFailure
  PROVE  /\ QueuesInOrder' /\ PlacesInv' /\ LifeInv' /\ Joined'
         /\ Rests \/ \E t \in Tasks : LivesOn(t)
         /\ \A e \in Nodes : usage'[e]["bandwidth"] = usage[e]["bandwidth"]
<1>0. /\ Producer \in Threads /\ pc \in [Threads -> ThreadPcs] /\ generated \in Int
      /\ TypeOK /\ QueuesInOrder /\ PlacesInv
  BY DEF Threads, TaskInv, PlacementInv, TypeOK, ThreadTypeOK, ScanTypeOK
<1>1. PICK row : Placed(row)
  BY DEF RecordAllocation, RecordFailure
<1>2. UNCHANGED <<queue, scratch, schedMutex, hand, wpc, assigned, status, dbExec, active,
                  generated, stopPc>>
  BY <1>1 DEF PlaceStep, Placed, taskVars, workVars, execVars, lifeVars
<1>3. /\ pc'[Producer] = "head"
      /\ dbRows' = [dbRows EXCEPT ![generated] = Append(@, row)]
  BY <1>0, <1>1 DEF Placed, Goto
<1>4. QueuesInOrder'
  <2>1. Youngest = generated /\ Youngest' = generated
    BY <1>2, <1>3 DEF Youngest, Unqueued, RecordAllocation, RecordFailure
  <2> QED
    BY <1>0, <1>2, <2>1, QuietOrder
<1>5. PlacesInv'
  BY <1>0, <1>2, <1>3, QuietPlaces DEF RecordAllocation, RecordFailure
<1>6. Joined'
  BY <1>2, <1>3 DEF Joined, RecordAllocation, RecordFailure
<1>7. LifeInv' /\ (Rests \/ \E t \in Tasks : LivesOn(t))
  <2>1. CASE RecordAllocation
    BY <1>2, <1>3, <2>1, SaveLife DEF RecordAllocation
  <2>2. CASE RecordFailure
    BY <1>2, <1>3, <2>2, FailureLife DEF RecordFailure
  <2> QED
    BY <2>1, <2>2
<1>8. ASSUME NEW e \in Nodes
      PROVE  usage'[e]["bandwidth"] = usage[e]["bandwidth"]
  <2>1. CASE usage' = usage
    BY <2>1
  <2>2. CASE usage' # usage
    <3>1. UpdateResourceMetrics
      BY <1>1 DEF Placed
    <3>2. PICK delta \in [Nodes -> [FluctuatingDims -> -Drift..Drift]] :
            usage' = [f \in Nodes |->
                        SimulateResourceFluctuation(usage[f], Capacity[f], delta[f])]
      BY <2>2, <3>1 DEF UpdateResourceMetrics
    <3>3. usage'[e] = SimulateResourceFluctuation(usage[e], Capacity[e], delta[e])
      BY <3>2
    <3> QED
      BY <3>3 DEF SimulateResourceFluctuation, Dims, FluctuatingDims
  <2> QED
    BY <2>1, <2>2
<1> QED
  BY <1>4, <1>5, <1>6, <1>7, <1>8

\* Ending the drain and joining the workers move no task.
LEMMA EndTasks ==
  ASSUME TaskInv, Joined, (QueuesLookEmpty /\ PollStep) \/ StopWorkers \/ JoinWorkers
  PROVE  /\ QueuesInOrder' /\ PlacesInv' /\ LifeInv' /\ Joined'
         /\ Rests /\ UNCHANGED usage
<1>0. /\ Producer \in Threads /\ pc \in [Threads -> ThreadPcs] /\ generated \in Int
      /\ TypeOK /\ QueuesInOrder /\ PlacesInv /\ LifeInv
  BY DEF Threads, TaskInv, PlacementInv, TypeOK, ThreadTypeOK, ScanTypeOK
<1>1. /\ UNCHANGED <<queue, scratch, schedMutex, hand, wpc, assigned, status, dbExec, active,
                     generated, dbRows, usage>>
  BY DEF QueuesLookEmpty, PollStep, StopWorkers, JoinWorkers, edgeVars, schedVars, taskVars,
     dbVars, workVars, execVars
<1>2. \/ pc' = pc
      \/ pc[Producer] = "poll" /\ pc'[Producer] = "finish"
      \/ pc[Producer] = "finish" /\ pc'[Producer] = "done"
  BY <1>0 DEF QueuesLookEmpty, StopWorkers, JoinWorkers, threadVars, Goto
<1>3. QueuesInOrder'
  <2>1. Youngest \in Int /\ Youngest' = Youngest
    BY <1>0, <1>1, <1>2 DEF Youngest, Unqueued
  <2> QED
    BY <1>0, <1>1, <2>1, QuietOrder
<1>4. PlacesInv'
  BY <1>0, <1>1, <1>2, QuietPlaces
<1>5. LifeInv' /\ Rests
  BY <1>0, <1>1, <1>2, QuietLife DEF Choosing
<1>6. Joined'
  <2>1. CASE QueuesLookEmpty /\ PollStep
    BY <1>1, <2>1 DEF QueuesLookEmpty, PollStep, Joined
  <2>2. CASE StopWorkers
    BY <1>0, <2>2 DEF StopWorkers, Joined, Goto
  <2>3. CASE JoinWorkers
    BY <1>1, <2>3 DEF JoinWorkers, Joined, threadVars
  <2> QED
    BY <2>1, <2>2, <2>3
<1> QED
  BY <1>1, <1>3, <1>4, <1>5, <1>6

\* What is known of the tasks of an experiment: all that is known of those of
\* the live runtime, and the accounting of bandwidth, which has no background
\* load.
ExperimentInv == TaskInv /\ Joined /\ ExactIn("bandwidth")

\* Every step of the experiment keeps it.
LEMMA TasksStep == ExperimentInv /\ [ExperimentNext]_vars => ExperimentInv'
<1> SUFFICES ASSUME ExperimentInv, [ExperimentNext]_vars PROVE ExperimentInv'
  OBVIOUS
<1>0. TaskInv /\ PlacementInv /\ TypeOK /\ QueuesInOrder /\ PlacesInv /\ Joined
      /\ ExactIn("bandwidth") /\ "bandwidth" \in Dims
  BY DEF ExperimentInv, TaskInv, PlacementInv, Dims
<1>1. PlacementInv'
  BY <1>0, ExperimentStep
<1>2. CASE [Next]_vars
  <2>1. QueuesInOrder' /\ PlacesInv' /\ Joined'
    BY <1>0, <1>2, OrderStep, PlacesStep, JoinStep
  <2>2. LifeInv' /\ LedgerMove
    BY <1>0, <1>2, LifeStep
  <2>3. ExactIn("bandwidth")'
    BY <1>0, <2>2, ExactStep
  <2> QED
    BY <1>1, <2>1, <2>2, <2>3 DEF ExperimentInv, TaskInv
<1>3. CASE PlaceStep /\ (RecordAllocation \/ RecordFailure)
  <2>1. /\ QueuesInOrder' /\ PlacesInv' /\ LifeInv' /\ Joined'
        /\ Rests \/ \E t \in Tasks : LivesOn(t)
        /\ \A e \in Nodes : usage'[e]["bandwidth"] = usage[e]["bandwidth"]
    BY <1>0, <1>3, RecordTasks
  <2>2. \A e \in Nodes : HeldNow(e)' = HeldNow(e)
    BY <2>1 DEF HeldNow, Rests, LivesOn, Moves, Holding
  <2>3. ExactIn("bandwidth")'
    BY <1>0, <2>1, <2>2 DEF ExactIn
  <2> QED
    BY <1>1, <2>1, <2>3 DEF ExperimentInv, TaskInv
<1>4. CASE (QueuesLookEmpty /\ PollStep) \/ StopWorkers \/ JoinWorkers
  <2>1. /\ QueuesInOrder' /\ PlacesInv' /\ LifeInv' /\ Joined'
        /\ Rests /\ UNCHANGED usage
    BY <1>0, <1>4, EndTasks
  <2>2. ExactIn("bandwidth")'
    BY <1>0, <2>1, ExactStep DEF LedgerMove
  <2> QED
    BY <1>1, <2>1, <2>2 DEF ExperimentInv, TaskInv
<1> QED
  BY <1>2, <1>3, <1>4, SharedSteps

\* It holds in every reachable state.
THEOREM ExperimentInvariance == ExperimentSpec => []ExperimentInv
<1>1. Init => PlacementInv
  BY RuntimeInit DEF RuntimeInv
<1>2. Init => Joined /\ ExactIn("bandwidth")
  BY ExactInit DEF Init, Joined, ExactNow, Dims
<1>3. Init => ExperimentInv
  BY <1>1, <1>2, OrderInit, PlacesInit, LifeInit DEF ExperimentInv, TaskInv
<1> QED
  BY <1>3, TasksStep, PTL DEF ExperimentSpec

-----------------------------------------------------------------------------
(* The theorems. *)

\* The bandwidth in use on a node is what its tasks reserve, whatever the
\* background load of the other resources does.
THEOREM ExperimentBandwidth == ExperimentSpec => []BandwidthExact
<1>1. ExperimentInv => BandwidthExact
  BY HeldByPhase DEF ExperimentInv, ExactIn, BandwidthExact
<1> QED
  BY <1>1, ExperimentInvariance, PTL

\* Never is more bandwidth reserved on a node than it has: what is reserved is
\* what is in use, and each placement keeps that within the capacity.
THEOREM ExperimentFits == ExperimentSpec => []BandwidthFits
<1>1. ExperimentInv => BandwidthFits
  <2>1. ExperimentInv => BandwidthExact /\ UsageWithinCapacity
    BY HeldByPhase DEF ExperimentInv, ExactIn, BandwidthExact, TaskInv, PlacementInv
  <2>2. BandwidthExact /\ UsageWithinCapacity => BandwidthFits
    BY DEF BandwidthExact, UsageWithinCapacity, BandwidthFits, Dims
  <2> QED
    BY <2>1, <2>2
<1> QED
  BY <1>1, ExperimentInvariance, PTL

\* A task that waits or runs in an experiment is in one place.
THEOREM ExperimentHoldsOnce == ExperimentSpec => []HeldOnce
<1>1. ExperimentInv => HeldOnce
  BY PlacesHeldOnce DEF ExperimentInv, TaskInv
<1> QED
  BY <1>1, ExperimentInvariance, PTL

\* When runExperiment has joined its workers no task is half done, although
\* the drain saw only the queues.
THEOREM ExperimentIsClean == ExperimentSpec => []StoppedCleanly
<1>1. ExperimentInv => StoppedCleanly
  BY JoinedCleanly DEF ExperimentInv, TaskInv
<1> QED
  BY <1>1, ExperimentInvariance, PTL
=============================================================================
