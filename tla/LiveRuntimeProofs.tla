------------------------- MODULE LiveRuntimeProofs --------------------------
(***************************************************************************)
(* Theorems about the live runtime, for any fleet, workload and clients:   *)
(* types and what a node was found to have room for, then configurations,  *)
(* then the order of the queues.                                           *)
(*                                                                         *)
(* The inductive invariant says where the producer is when it relies on    *)
(* something it checked earlier: that a task is left to generate, that the *)
(* nodes it found viable still have room, that nobody switches strategy    *)
(* between the placement of a task and the row that records it.            *)
(***************************************************************************)
EXTENDS RuntimeProperties, SequenceTheorems, TLAPS

\* Where a thread holds configuration_mutex_.
Critical == {"setScheduling", "setPolicy", "scan", "read", "reserve",
             "credit", "schedule", "saveAllocation", "saveFailure"}

Exclusive == \A p \in Threads : pc[p] \in Critical => cfgMutex = p

\* The producer has a task left to generate, or one in its hands.
Bounded ==
  /\ pc[Producer] \in {"recommend", "setAllocation", "setScheduling", "generate"}
       => generated < TaskCount
  /\ pc[Producer] \in (Critical \ {"setScheduling"}) \cup {"acquire"}
       => generated \in Tasks

\* A worker past the selection has a task in its hands.
HandsFull ==
  \A e \in Nodes :
    wpc[e] \in {"restore", "start", "activate", "run", "release", "count",
               "record"}
      => hand[e] \in Tasks

\* Workers only release, so what was viable stays viable.
ViableFits ==
  pc[Producer] \in {"scan", "read", "reserve"} =>
    \A e \in viable : IsViable(e, usage, Req(generated))

Unplaced(t) == dbRows[t] = <<>> /\ assigned[t] = NoNode /\ used[t] = "none"

\* A task has no node and no row before it is placed or given up.
NotPlacedYet ==
  /\ \A t \in Tasks : t > generated => Unplaced(t)
  /\ pc[Producer] \in {"acquire", "scan", "read", "reserve", "saveFailure"}
       => Unplaced(generated)

\* Between the placement of a task and its row the strategy stays.
StrategyKept ==
  pc[Producer] \in {"credit", "schedule", "saveAllocation"}
    => dbRows[generated] = <<>> /\ used[generated] = allocStrategy

RowsMatch == NotPlacedYet /\ StrategyKept

\* What does not depend on the strategy a row names; the batch experiment
\* shares it.
PlacementInv ==
  /\ TypeOK /\ Exclusive /\ Bounded /\ HandsFull
  /\ ViableFits /\ UsageWithinCapacity /\ NotPlacedYet

RuntimeInv == PlacementInv /\ StrategyKept /\ StrategyRecorded

-----------------------------------------------------------------------------
(* Types. *)

\* Every task has a requirement, whichever device it comes from.
LEMMA ReqType == \A t \in Int : Req(t) \in Requirements
<1> SUFFICES ASSUME NEW t \in Int PROVE Req(t) \in Requirements
  OBVIOUS
<1> DEFINE n == Len(DeviceProfile)
<1>1. n \in Nat /\ n > 0 /\ DeviceProfile \in Seq(Requirements)
  BY RuntimeAssumption
<1>2. (t - 1) % n \in 0..(n - 1)
  BY <1>1
<1>3. ((t - 1) % n) + 1 \in 1..n
  BY <1>1, <1>2
<1> QED
  BY <1>1, <1>3 DEF Req

\* What a task needs is a vector of naturals.
LEMMA NeedType == \A t \in Int : Need(t) \in Resources
BY ReqType DEF Need, Requirements

\* Reserving and releasing yield resource vectors.
LEMMA VectorTypes ==
  ASSUME NEW u \in Resources, NEW r \in Resources
  PROVE  /\ AllocateResources(u, r) \in Resources
         /\ DeallocateResources(u, r) \in Resources
         /\ \A d \in Dims : DeallocateResources(u, r)[d] <= u[d]
BY DEF Resources, AllocateResources, DeallocateResources

\* The recommendation is a configuration, whatever the load.
LEMMA RecommendedType == \A x : Recommended(x) \in Configurations
BY DEF Recommended, Configurations, Strategies, Policies

\* The load of a node is a natural number.
LEMMA CpuLoadType ==
  ASSUME TypeOK, NEW e \in Nodes
  PROVE  CpuLoad(e) \in Nat
<1>1. usage[e]["cpu"] \in Nat /\ Capacity[e]["cpu"] \in Nat
  BY NodeAssumption DEF TypeOK, EdgeTypeOK, Resources, Dims
<1>2. usage[e]["cpu"] * 100 * Scale \in Nat
  BY <1>1, AllocatorAssumption
<1>3. ASSUME NEW m \in Nat, NEW n \in Nat, n > 0
      PROVE  m \div n \in Nat
  BY <1>3
<1> QED
  BY <1>1, <1>2, <1>3 DEF CpuLoad

\* The numbers that bound the producer's indices.
LEMMA Limits ==
  TaskCount \in Nat /\ MaxRetries \in Nat /\ NodeCount \in Nat \ {0}
BY RuntimeAssumption, NodeAssumption

\* The initial state is well typed.
LEMMA InitType == Init => TypeOK
<1> SUFFICES ASSUME Init PROVE TypeOK
  OBVIOUS
<1> USE NodeAssumption, RuntimeAssumption
<1>1. PICK c \in InitialConfigs :
        LET choice == [allocation |-> c.allocation, scheduling |-> c.scheduling]
            effective == IF c.automatic THEN Recommended(0) ELSE choice
        IN  /\ automatic = c.automatic
            /\ requested = choice
            /\ allocStrategy = effective.allocation
            /\ schedStrategy = effective.scheduling
            /\ target = [p \in Threads |-> effective]
  BY DEF Init
<1> DEFINE choice == [allocation |-> c.allocation, scheduling |-> c.scheduling]
           effective == IF c.automatic THEN Recommended(0) ELSE choice
<1>2. choice \in Configurations /\ c.automatic \in BOOLEAN
  BY DEF Configurations
<1>3. effective \in Configurations
  BY <1>2, RecommendedType
<1>4. /\ automatic \in BOOLEAN /\ requested \in Configurations
      /\ allocStrategy \in Strategies /\ schedStrategy \in Policies
      /\ target \in [Threads -> Configurations]
  BY <1>1, <1>2, <1>3 DEF Configurations
<1>5. NoUsage \in Resources
  BY DEF NoUsage, Resources
<1>6. EdgeTypeOK /\ AllocatorTypeOK /\ SchedulerTypeOK
  BY <1>4, <1>5 DEF Init, EdgeTypeOK, AllocatorTypeOK, SchedulerTypeOK
<1>7. TaskTypeOK /\ DatabaseTypeOK
  BY DEF Init, TaskTypeOK, DatabaseTypeOK, Statuses
<1>8. ThreadTypeOK
  BY <1>4 DEF Init, ThreadTypeOK, ThreadPcs
<1>9. ScanTypeOK
  BY <1>5 DEF Init, ScanTypeOK
<1>10. WorkerTypeOK /\ ExecutorTypeOK
  BY DEF Init, WorkerTypeOK, ExecutorTypeOK, WorkerPcs
<1>11. ConfigurationTypeOK
  <2>1. requests \in [Clients -> 0..MaxRequests]
    BY DEF Init
  <2> QED
    BY <1>4, <2>1 DEF ConfigurationTypeOK
<1>12. LifeTypeOK
  BY DEF Init, LifeTypeOK
<1> QED
  BY <1>6, <1>7, <1>8, <1>9, <1>10, <1>11, <1>12 DEF TypeOK

\* The steps that install a configuration keep the types.
LEMMA ConfigureType ==
  ASSUME TypeOK, NEW p \in Threads, ConfigureStep(p)
  PROVE  TypeOK'
<1> USE DEF TypeOK, ConfigureStep
<1>1. /\ EdgeTypeOK' /\ TaskTypeOK' /\ DatabaseTypeOK' /\ ScanTypeOK'
      /\ WorkerTypeOK' /\ ExecutorTypeOK' /\ ConfigurationTypeOK' /\ LifeTypeOK'
  BY DEF EdgeTypeOK, TaskTypeOK, DatabaseTypeOK, ScanTypeOK, WorkerTypeOK,
     ExecutorTypeOK, ConfigurationTypeOK, LifeTypeOK, edgeVars, taskVars, dbVars,
     scanVars, workVars, execVars, confVars, lifeVars
<1>2. AllocatorTypeOK' /\ SchedulerTypeOK' /\ ThreadTypeOK'
  <2> USE DEF AllocatorTypeOK, SchedulerTypeOK, ThreadTypeOK, Goto, ThreadPcs
  <2>1. target[p] \in Configurations
    OBVIOUS
  <2>2. CASE Recommend(p)
    <3>1. pc' \in [Threads -> ThreadPcs] /\ target' \in [Threads -> Configurations]
      BY <2>2, RecommendedType DEF Recommend
    <3>2. probe' \in [Threads -> 1..NodeCount + 1] /\ load' \in [Threads -> Nat]
      BY <2>2, NodeAssumption DEF Recommend
    <3> QED
      BY <2>2, <3>1, <3>2 DEF Recommend
  <2>3. CASE SetAllocation(p)
    BY <2>1, <2>3 DEF SetAllocation, Configurations
  <2>4. CASE SetScheduling(p)
    BY <2>1, <2>4 DEF SetScheduling, Configurations
  <2>5. CASE ReadLoad(p)
    <3>1. probe[p] \in Nodes
      BY <2>5, NodeAssumption DEF ReadLoad, Nodes
    <3>2. CpuLoad(probe[p]) \in Nat
      BY <3>1, CpuLoadType
    <3>3. load' \in [Threads -> Nat] /\ probe' \in [Threads -> 1..NodeCount + 1]
      <4> HIDE DEF ConfigureStep
      <4>1. /\ load' = [load EXCEPT ![p] = @ + CpuLoad(probe[p])]
            /\ probe' = [probe EXCEPT ![p] = @ + 1]
        BY <2>5 DEF ReadLoad
      <4>2. load[p] + CpuLoad(probe[p]) \in Nat
        BY <3>2
      <4>3. probe[p] + 1 \in 1..NodeCount + 1
        BY <3>1, NodeAssumption DEF Nodes
      <4> QED
        BY <4>1, <4>2, <4>3
    <3>4. UNCHANGED <<allocVars, schedVars, pc, target, cfgMutex>>
      BY <2>5 DEF ReadLoad, allocVars, schedVars
    <3> HIDE DEF ConfigureStep
    <3> QED
      BY <3>3, <3>4 DEF allocVars, schedVars
  <2> QED
    BY <2>2, <2>3, <2>4, <2>5
<1> QED
  BY <1>1, <1>2

\* The steps of applyConfiguration keep the types.
LEMMA ClientType ==
  ASSUME TypeOK, NEW c \in Clients, ClientCall(c) \/ ApplyStep(c)
  PROVE  TypeOK'
<1> USE DEF TypeOK
<1>1. /\ EdgeTypeOK' /\ TaskTypeOK' /\ DatabaseTypeOK' /\ ScanTypeOK'
      /\ WorkerTypeOK' /\ ExecutorTypeOK' /\ LifeTypeOK'
  BY DEF EdgeTypeOK, TaskTypeOK, DatabaseTypeOK, ScanTypeOK, WorkerTypeOK,
     ExecutorTypeOK, LifeTypeOK, edgeVars, taskVars, dbVars, scanVars, workVars,
     execVars, lifeVars, ClientCall, ApplyStep
<1>2. c \in Threads
  BY DEF Threads
<1>3. target[c] \in Configurations
  BY <1>2 DEF ThreadTypeOK
<1>4. AllocatorTypeOK' /\ SchedulerTypeOK'
  BY <1>3 DEF AllocatorTypeOK, SchedulerTypeOK, Configurations, ClientCall, ApplyStep,
     RequestAutomatic, RequestManual, ApplyAutomatic, ApplyManual,
     ApplyManualScheduling, allocVars, schedVars
<1>5. ThreadTypeOK'
  BY <1>2, RuntimeAssumption DEF ThreadTypeOK, ThreadPcs, Goto, ClientCall,
     ApplyStep, RequestAutomatic, RequestManual, ApplyAutomatic, ApplyManual,
     ApplyManualScheduling
<1>6. requests' \in [Clients -> 0..MaxRequests]
  BY RuntimeAssumption DEF ConfigurationTypeOK, ClientCall, ApplyStep,
     RequestAutomatic, RequestManual
<1>7. automatic' \in BOOLEAN /\ requested' \in Configurations
  BY <1>3 DEF ConfigurationTypeOK, ClientCall, ApplyStep, ApplyAutomatic,
     ApplyManual, ApplyManualScheduling
<1> QED
  BY <1>1, <1>4, <1>5, <1>6, <1>7 DEF ConfigurationTypeOK

\* The steps of processingLoop before the allocation keep the types.
LEMMA LoopType ==
  ASSUME TypeOK, Bounded, LoopStep
  PROVE  TypeOK'
<1> USE Limits DEF TypeOK, LoopStep
<1>1. /\ EdgeTypeOK' /\ SchedulerTypeOK' /\ WorkerTypeOK' /\ ExecutorTypeOK'
      /\ ConfigurationTypeOK' /\ LifeTypeOK'
  BY DEF EdgeTypeOK, SchedulerTypeOK, WorkerTypeOK, ExecutorTypeOK,
     ConfigurationTypeOK, LifeTypeOK, edgeVars, schedVars, workVars, execVars,
     confVars, lifeVars
<1> USE DEF BeginIteration, LeaveLoop, Generate, AcquireConfiguration
<1>2. AllocatorTypeOK'
  BY DEF AllocatorTypeOK
<1>3. TaskTypeOK' /\ DatabaseTypeOK'
  BY DEF TaskTypeOK, DatabaseTypeOK, Statuses
<1>4. ThreadTypeOK'
  BY DEF ThreadTypeOK, Threads, ThreadPcs, Goto
<1>5. ScanTypeOK'
  <2>1. generated' \in 0..TaskCount
    BY DEF ScanTypeOK, Bounded
  <2> QED
    BY <2>1 DEF ScanTypeOK
<1> HIDE DEF LoopStep, BeginIteration, LeaveLoop, Generate, AcquireConfiguration
<1> QED
  BY <1>1, <1>2, <1>3, <1>4, <1>5

\* The steps of the search for a node keep the types.
LEMMA ScanType ==
  ASSUME TypeOK, ScanStep
  PROVE  TypeOK'
<1> USE Limits DEF TypeOK, ScanStep
<1>1. /\ EdgeTypeOK' /\ SchedulerTypeOK' /\ TaskTypeOK' /\ DatabaseTypeOK'
      /\ WorkerTypeOK' /\ ExecutorTypeOK' /\ ConfigurationTypeOK' /\ LifeTypeOK'
  BY DEF EdgeTypeOK, SchedulerTypeOK, TaskTypeOK, DatabaseTypeOK, WorkerTypeOK,
     ExecutorTypeOK, ConfigurationTypeOK, LifeTypeOK, edgeVars, schedVars, taskVars,
     dbVars, workVars, execVars, confVars, lifeVars
<1> USE DEF ScanEdge, RetryAllocation, GiveUpAllocation, RankViable, ReadEdge
<1>2. AllocatorTypeOK'
  BY DEF AllocatorTypeOK
<1>3. ThreadTypeOK'
  BY DEF ThreadTypeOK, Threads, ThreadPcs, Goto
<1>4. ScanTypeOK'
  <2>1. \A e \in Nodes : usage[e] \in Resources /\ Len(queue[e]) \in Nat
    BY DEF EdgeTypeOK
  <2>2. cursor <= NodeCount => cursor \in Nodes
    BY DEF ScanTypeOK, Nodes
  <2> QED
    <3>1. CASE ScanEdge
      BY <2>2, <3>1 DEF ScanTypeOK
    <3>2. CASE RetryAllocation
      BY <3>2 DEF ScanTypeOK
    <3>3. CASE GiveUpAllocation
      BY <3>3 DEF ScanTypeOK, scanVars
    <3>4. CASE RankViable
      BY <3>4 DEF ScanTypeOK
    <3>5. CASE ReadEdge
      BY <2>1, <2>2, <3>5 DEF ScanTypeOK
    <3> QED
      BY <3>1, <3>2, <3>3, <3>4, <3>5
<1> HIDE DEF ScanStep, ScanEdge, RetryAllocation, GiveUpAllocation, RankViable,
         ReadEdge
<1> QED
  BY <1>1, <1>2, <1>3, <1>4

\* The steps that place a task keep the types.
LEMMA CommitType ==
  ASSUME TypeOK, Bounded, CommitStep
  PROVE  TypeOK'
<1> USE Limits DEF TypeOK, CommitStep
<1>1. /\ WorkerTypeOK' /\ ExecutorTypeOK' /\ ConfigurationTypeOK' /\ LifeTypeOK'
  BY DEF WorkerTypeOK, ExecutorTypeOK, ConfigurationTypeOK, LifeTypeOK, workVars,
     execVars, confVars, lifeVars
<1>2. generated \in Tasks
  BY DEF Bounded, Critical, ReserveEdge, CreditAllocation, ScheduleTask,
     SaveAllocation, SaveAllocationFailure
<1>3. Need(generated) \in Resources
  BY <1>2, NeedType DEF Tasks
<1>4. CASE ReserveEdge
  <2>1. PICK e \in Nodes :
          /\ usage' = [usage EXCEPT ![e] = AllocateResources(@, Need(generated))]
          /\ processed' = [processed EXCEPT ![e] = @ + 1]
          /\ assigned' = [assigned EXCEPT ![generated] = e]
    BY <1>4 DEF ReserveEdge, ScanTypeOK
  <2>2. AllocateResources(usage[e], Need(generated)) \in Resources
    BY <1>3, VectorTypes DEF EdgeTypeOK
  <2>3. EdgeTypeOK'
    <3>1. queue' = queue
      BY <1>4 DEF ReserveEdge
    <3> QED
      BY <2>1, <2>2, <3>1 DEF EdgeTypeOK
  <2>4. AllocatorTypeOK' /\ SchedulerTypeOK'
    <3>1. /\ rrIndex' = rrIndex \/ rrIndex' = rrIndex + 1
          /\ UNCHANGED <<allocStrategy, allocs, schedStrategy, scheduled, schedMutex>>
      BY <1>4 DEF ReserveEdge
    <3> HIDE DEF CommitStep
    <3> QED
      BY <3>1 DEF AllocatorTypeOK, SchedulerTypeOK
  <2>5. TaskTypeOK'
    BY <1>4, <2>1 DEF TaskTypeOK, AllocatorTypeOK, Statuses, ReserveEdge
  <2>6. DatabaseTypeOK'
    BY <1>4 DEF DatabaseTypeOK, Statuses, ReserveEdge
  <2>7. ThreadTypeOK'
    BY <1>4 DEF ThreadTypeOK, Threads, ThreadPcs, Goto, ReserveEdge
  <2>8. NoUsage \in Resources
    BY DEF NoUsage, Resources
  <2>9. ScanTypeOK'
    BY <1>4, <2>8 DEF ScanTypeOK, ReserveEdge
  <2> QED
    BY <1>1, <2>3, <2>4, <2>5, <2>6, <2>7, <2>9
<1>5. CASE ScheduleTask
  <2>1. queue' \in [Nodes -> Seq(Tasks)]
    <3>1. \A e \in Nodes : Append(queue[e], generated) \in Seq(Tasks)
      BY <1>2, AppendProperties DEF EdgeTypeOK
    <3> QED
      BY <1>5, <3>1 DEF EdgeTypeOK, ScheduleTask
  <2>2. EdgeTypeOK' /\ AllocatorTypeOK' /\ SchedulerTypeOK'
    BY <1>5, <2>1 DEF EdgeTypeOK, AllocatorTypeOK, SchedulerTypeOK, ScheduleTask,
       allocVars
  <2>3. TaskTypeOK' /\ DatabaseTypeOK'
    BY <1>5 DEF TaskTypeOK, DatabaseTypeOK, Statuses, ScheduleTask, dbVars
  <2>4. ThreadTypeOK' /\ ScanTypeOK'
    BY <1>5 DEF ThreadTypeOK, ScanTypeOK, Threads, ThreadPcs, Goto, ScheduleTask,
       scanVars
  <2> QED
    BY <1>1, <2>2, <2>3, <2>4
<1>6. CASE SaveAllocation \/ SaveAllocationFailure
  <2> DEFINE row == IF SaveAllocation
                    THEN [edge |-> assigned[generated], strategy |-> allocStrategy]
                    ELSE [edge |-> NoNode, strategy |-> "none"]
  <2>1. row \in Rows
    BY <1>2 DEF Rows, TaskTypeOK, AllocatorTypeOK
  <2>2. dbRows' = [dbRows EXCEPT ![generated] = Append(@, row)]
    BY <1>6 DEF SaveAllocation, SaveAllocationFailure
  <2>3. dbRows' \in [Tasks -> Seq(Rows)]
    BY <1>2, <2>1, <2>2, AppendProperties DEF DatabaseTypeOK
  <2>4. EdgeTypeOK' /\ AllocatorTypeOK' /\ SchedulerTypeOK' /\ TaskTypeOK'
    BY <1>6 DEF EdgeTypeOK, AllocatorTypeOK, SchedulerTypeOK, TaskTypeOK,
       SaveAllocation, SaveAllocationFailure, edgeVars, allocVars, taskVars
  <2>5. DatabaseTypeOK' /\ ThreadTypeOK' /\ ScanTypeOK'
    BY <1>6, <2>3 DEF DatabaseTypeOK, ThreadTypeOK, ScanTypeOK, Threads, ThreadPcs,
       Goto, SaveAllocation, SaveAllocationFailure, scanVars
  <2> QED
    BY <1>1, <2>4, <2>5
<1>7. CASE CreditAllocation
  <2>1. allocs' = [allocs EXCEPT !.successful = @ + 1]
    BY <1>7 DEF CreditAllocation
  <2>2. AllocatorTypeOK'
    <3>1. UNCHANGED <<allocStrategy, rrIndex>>
      BY <1>7 DEF CreditAllocation
    <3> HIDE DEF CommitStep
    <3>2. allocs' \in [total : Nat, successful : Nat, failed : Nat]
      BY <2>1 DEF AllocatorTypeOK
    <3> QED
      BY <3>1, <3>2 DEF AllocatorTypeOK
  <2>3. EdgeTypeOK' /\ SchedulerTypeOK' /\ TaskTypeOK'
    BY <1>7 DEF EdgeTypeOK, SchedulerTypeOK, TaskTypeOK, CreditAllocation, edgeVars, taskVars
  <2>4. DatabaseTypeOK'
    BY <1>7 DEF DatabaseTypeOK, Statuses, CreditAllocation
  <2>5. ThreadTypeOK' /\ ScanTypeOK'
    BY <1>7 DEF ThreadTypeOK, ScanTypeOK, Threads, ThreadPcs, Goto, CreditAllocation
  <2> QED
    BY <1>1, <2>2, <2>3, <2>4, <2>5
<1> QED
  BY <1>4, <1>5, <1>6, <1>7

\* Draining and completing keep the types.
LEMMA DrainType ==
  ASSUME TypeOK, DrainStep
  PROVE  TypeOK'
<1> USE Limits DEF TypeOK, DrainStep
<1>1. /\ EdgeTypeOK' /\ AllocatorTypeOK' /\ SchedulerTypeOK' /\ TaskTypeOK'
      /\ DatabaseTypeOK' /\ WorkerTypeOK' /\ ExecutorTypeOK' /\ ConfigurationTypeOK'
  BY DEF EdgeTypeOK, AllocatorTypeOK, SchedulerTypeOK, TaskTypeOK, DatabaseTypeOK,
     WorkerTypeOK, ExecutorTypeOK, ConfigurationTypeOK, edgeVars, allocVars,
     schedVars, taskVars, dbVars, workVars, execVars, confVars
<1> USE DEF DrainPoll, DrainStillActive, DrainDone, DrainGiveUp, CompleteProcessing
<1>2. ThreadTypeOK'
  BY DEF ThreadTypeOK, Threads, ThreadPcs, Goto
<1>3. ScanTypeOK'
  BY DEF ScanTypeOK
<1>4. LifeTypeOK'
  BY DEF LifeTypeOK, lifeVars
<1> QED
  BY <1>1, <1>2, <1>3, <1>4

\* Fetching a task keeps the types.
LEMMA FetchType ==
  ASSUME TypeOK, NEW e \in Nodes, FetchStep(e)
  PROVE  TypeOK'
<1> USE DEF TypeOK, FetchStep
<1>1. /\ AllocatorTypeOK' /\ TaskTypeOK' /\ DatabaseTypeOK' /\ ThreadTypeOK'
      /\ ScanTypeOK' /\ ExecutorTypeOK' /\ ConfigurationTypeOK' /\ LifeTypeOK'
  <2>1. UNCHANGED <<allocVars, taskVars, dbVars, threadVars, generated, scanVars,
                    execVars, confVars, lifeVars>>
    OBVIOUS
  <2> HIDE DEF FetchStep
  <2>2. AllocatorTypeOK' /\ TaskTypeOK' /\ DatabaseTypeOK' /\ ThreadTypeOK'
    BY <2>1 DEF AllocatorTypeOK, TaskTypeOK, DatabaseTypeOK, ThreadTypeOK, allocVars,
       taskVars, dbVars, threadVars
  <2>3. ScanTypeOK' /\ ExecutorTypeOK' /\ ConfigurationTypeOK' /\ LifeTypeOK'
    BY <2>1 DEF ScanTypeOK, ExecutorTypeOK, ConfigurationTypeOK, LifeTypeOK, scanVars,
       execVars, confVars, lifeVars
  <2> QED
    BY <2>2, <2>3
<1>2. SchedulerTypeOK'
  BY DEF SchedulerTypeOK, CheckRunning, FetchNothing, DequeueFifo, BeginDrain,
     DrainOne, SelectTask, RestoreOne, ReturnTask
<1>3. queue[e] \in Seq(Tasks) /\ scratch[e] \in Seq(Tasks)
  BY DEF EdgeTypeOK, WorkerTypeOK
<1>4. EdgeTypeOK' /\ WorkerTypeOK'
  <2> USE DEF EdgeTypeOK, WorkerTypeOK, GotoWorker, WorkerPcs
  <2>1. CASE CheckRunning(e) \/ FetchNothing(e) \/ BeginDrain(e) \/ ReturnTask(e)
    BY <2>1 DEF CheckRunning, FetchNothing, BeginDrain, ReturnTask
  <2>2. CASE DequeueFifo(e)
    <3>1. Head(queue[e]) \in Tasks /\ Tail(queue[e]) \in Seq(Tasks)
      BY <1>3, <2>2 DEF DequeueFifo
    <3> QED
      BY <2>2, <3>1 DEF DequeueFifo
  <2>3. CASE DrainOne(e)
    <3>1. /\ Tail(queue[e]) \in Seq(Tasks)
          /\ Append(scratch[e], Head(queue[e])) \in Seq(Tasks)
      BY <1>3, <2>3 DEF DrainOne
    <3> QED
      BY <2>3, <3>1 DEF DrainOne
  <2>4. CASE SelectTask(e)
    <3>1. PICK k \in DOMAIN scratch[e] :
            /\ hand' = [hand EXCEPT ![e] = scratch[e][k]]
            /\ scratch' = [scratch EXCEPT ![e] =
                             SubSeq(@, 1, k - 1) \o SubSeq(@, k + 1, Len(@))]
      BY <2>4 DEF SelectTask
    <3>2. k \in 1..Len(scratch[e]) /\ scratch[e][k] \in Tasks
      BY <1>3
    <3>3. /\ SubSeq(scratch[e], 1, k - 1) \in Seq(Tasks)
          /\ SubSeq(scratch[e], k + 1, Len(scratch[e])) \in Seq(Tasks)
      BY <1>3, <3>2, SubSeqProperties
    <3>4. SubSeq(scratch[e], 1, k - 1) \o SubSeq(scratch[e], k + 1, Len(scratch[e]))
            \in Seq(Tasks)
      BY <3>3, ConcatProperties
    <3> QED
      BY <2>4, <3>1, <3>2, <3>4 DEF SelectTask
  <2>5. CASE RestoreOne(e)
    <3>1. /\ Tail(scratch[e]) \in Seq(Tasks)
          /\ Append(queue[e], Head(scratch[e])) \in Seq(Tasks)
      BY <1>3, <2>5 DEF RestoreOne
    <3> QED
      BY <2>5, <3>1 DEF RestoreOne
  <2> QED
    BY <2>1, <2>2, <2>3, <2>4, <2>5
<1> QED
  BY <1>1, <1>2, <1>4

\* Executing a task keeps the types.
LEMMA ExecuteType ==
  ASSUME TypeOK, HandsFull, NEW e \in Nodes, ExecuteStep(e)
  PROVE  TypeOK'
<1> USE DEF TypeOK, ExecuteStep
<1>1. /\ AllocatorTypeOK' /\ SchedulerTypeOK' /\ ThreadTypeOK' /\ ScanTypeOK'
      /\ ConfigurationTypeOK' /\ LifeTypeOK'
  BY DEF AllocatorTypeOK, SchedulerTypeOK, ThreadTypeOK, ScanTypeOK,
     ConfigurationTypeOK, LifeTypeOK, allocVars, schedVars, threadVars, scanVars,
     confVars, lifeVars
<1>2. hand[e] \in Tasks
  BY DEF HandsFull, StartTask, ActivateTask, FinishTask, ReleaseResources,
     CountExecution, RecordExecution
<1>3. DeallocateResources(usage[e], Need(hand[e])) \in Resources
  BY <1>2, NeedType, VectorTypes DEF EdgeTypeOK, Tasks
<1>4. EdgeTypeOK'
  BY <1>3 DEF EdgeTypeOK, StartTask, ActivateTask, FinishTask, ReleaseResources,
     CountExecution, RecordExecution
<1>5. TaskTypeOK' /\ DatabaseTypeOK'
  <2> USE DEF TaskTypeOK, DatabaseTypeOK, Statuses
  <2>1. CASE StartTask(e)
    BY <2>1 DEF StartTask
  <2>2. CASE FinishTask(e)
    BY <2>2 DEF FinishTask
  <2>3. CASE ActivateTask(e) \/ ReleaseResources(e) \/ CountExecution(e)
    BY <2>3 DEF ActivateTask, ReleaseResources, CountExecution, taskVars, dbVars
  <2>4. CASE RecordExecution(e)
    BY <1>2, <2>4 DEF RecordExecution
  <2> QED
    BY <2>1, <2>2, <2>3, <2>4
<1>6. WorkerTypeOK' /\ ExecutorTypeOK'
  <2> USE DEF WorkerTypeOK, ExecutorTypeOK, GotoWorker, WorkerPcs
  <2>1. CASE StartTask(e) \/ ActivateTask(e) \/ ReleaseResources(e)
    BY <1>2, <2>1 DEF StartTask, ActivateTask, ReleaseResources
  <2>2. CASE FinishTask(e)
    BY <2>2 DEF FinishTask
  <2>3. CASE CountExecution(e)
    BY <2>3 DEF CountExecution
  <2>4. CASE RecordExecution(e)
    BY <2>4 DEF RecordExecution
  <2> QED
    BY <2>1, <2>2, <2>3, <2>4
<1> QED
  BY <1>1, <1>4, <1>5, <1>6

\* Stopping keeps the types.
LEMMA StopType ==
  ASSUME TypeOK, StopStep
  PROVE  TypeOK'
<1> USE DEF TypeOK, StopStep
<1>1. /\ EdgeTypeOK' /\ AllocatorTypeOK' /\ SchedulerTypeOK' /\ TaskTypeOK'
      /\ DatabaseTypeOK' /\ ThreadTypeOK' /\ ScanTypeOK' /\ WorkerTypeOK'
      /\ ConfigurationTypeOK'
  BY DEF EdgeTypeOK, AllocatorTypeOK, SchedulerTypeOK, TaskTypeOK, DatabaseTypeOK,
     ThreadTypeOK, ScanTypeOK, WorkerTypeOK, ConfigurationTypeOK, edgeVars,
     allocVars, schedVars, taskVars, dbVars, threadVars, scanVars, workVars, confVars
<1>2. ExecutorTypeOK' /\ LifeTypeOK'
  BY DEF ExecutorTypeOK, LifeTypeOK, RequestStop, StopExecutor, StopReturns
<1> QED
  BY <1>1, <1>2

-----------------------------------------------------------------------------
(* Control. *)

\* The cases every inductive step distinguishes.
LEMMA NextCases ==
  ASSUME [Next]_vars
  PROVE  \/ \E p \in Threads : ConfigureStep(p)
         \/ \E c \in Clients : ClientCall(c) \/ ApplyStep(c)
         \/ LoopStep \/ ScanStep \/ CommitStep \/ DrainStep
         \/ \E e \in Nodes : FetchStep(e) \/ ExecuteStep(e)
         \/ StopStep
         \/ UNCHANGED vars
BY DEF Next, ProducerStep, ClientStep, WorkerStep, Stopped, Threads

\* A well-typed state stays well typed.
LEMMA TypeStep ==
  ASSUME TypeOK, Bounded, HandsFull, [Next]_vars
  PROVE  TypeOK'
<1>1. CASE UNCHANGED vars
  <2> USE DEF TypeOK
  <2>1. UNCHANGED <<edgeVars, allocVars, schedVars, taskVars, dbVars, threadVars,
                    generated, scanVars, workVars, execVars, confVars, lifeVars>>
    BY <1>1 DEF vars
  <2>2. EdgeTypeOK' /\ AllocatorTypeOK' /\ SchedulerTypeOK'
    BY <2>1 DEF EdgeTypeOK, AllocatorTypeOK, SchedulerTypeOK, edgeVars, allocVars,
       schedVars
  <2>3. TaskTypeOK' /\ DatabaseTypeOK' /\ ThreadTypeOK'
    BY <2>1 DEF TaskTypeOK, DatabaseTypeOK, ThreadTypeOK, taskVars, dbVars, threadVars
  <2>4. ScanTypeOK' /\ WorkerTypeOK' /\ ExecutorTypeOK'
    BY <2>1 DEF ScanTypeOK, WorkerTypeOK, ExecutorTypeOK, scanVars, workVars, execVars
  <2>5. ConfigurationTypeOK' /\ LifeTypeOK'
    BY <2>1 DEF ConfigurationTypeOK, LifeTypeOK, confVars, lifeVars
  <2> QED
    BY <2>2, <2>3, <2>4, <2>5
<1> QED
  BY <1>1, NextCases, ConfigureType, ClientType, LoopType, ScanType, CommitType,
     DrainType, FetchType, ExecuteType, StopType

\* Steps that do not touch the threads' program counters.
LEMMA QuietControl ==
  ASSUME Exclusive, Bounded, UNCHANGED <<threadVars, generated>>
  PROVE  Exclusive' /\ Bounded'
BY DEF Exclusive, Bounded, threadVars

\* configuration_mutex_ has one holder, the loop counter stays in range, and
\* a worker that executes has a task.
LEMMA ControlStep ==
  ASSUME TypeOK, Exclusive, Bounded, HandsFull, [Next]_vars
  PROVE  Exclusive' /\ Bounded' /\ HandsFull'
<1> USE RuntimeAssumption
<1>0. /\ pc \in [Threads -> ThreadPcs] /\ Producer \in Threads
      /\ generated \in 0..TaskCount
      /\ \A c \in Clients : c \in Threads /\ c # Producer
      /\ \A p \in Threads : p # Free
  BY DEF TypeOK, ThreadTypeOK, ScanTypeOK, Threads
<1>1. ASSUME NEW p \in Threads, ConfigureStep(p)
      PROVE  Exclusive' /\ Bounded'
  BY <1>0, <1>1 DEF Exclusive, Bounded, Critical, ConfigureStep, ReadLoad,
     Recommend, SetAllocation, SetScheduling, Goto
<1>2. ASSUME NEW c \in Clients, ClientCall(c) \/ ApplyStep(c)
      PROVE  Exclusive' /\ Bounded'
  BY <1>0, <1>2 DEF Exclusive, Bounded, Critical, ClientCall, ApplyStep,
     RequestAutomatic, RequestManual, ApplyAutomatic, ApplyManual,
     ApplyManualScheduling, Goto
<1>3. ASSUME LoopStep
      PROVE  Exclusive' /\ Bounded'
  BY <1>0, <1>3 DEF Exclusive, Bounded, Critical, LoopStep, BeginIteration,
     LeaveLoop, Generate, AcquireConfiguration, Goto, Tasks
<1>4. ASSUME ScanStep
      PROVE  Exclusive' /\ Bounded'
  BY <1>0, <1>4 DEF Exclusive, Bounded, Critical, ScanStep, ScanEdge,
     RetryAllocation, GiveUpAllocation, RankViable, ReadEdge, Goto
<1>5. ASSUME CommitStep
      PROVE  Exclusive' /\ Bounded'
  BY <1>0, <1>5 DEF Exclusive, Bounded, Critical, CommitStep, ReserveEdge,
     CreditAllocation, ScheduleTask, SaveAllocation, SaveAllocationFailure, Goto
<1>6. ASSUME DrainStep
      PROVE  Exclusive' /\ Bounded'
  BY <1>0, <1>6 DEF Exclusive, Bounded, Critical, DrainStep, DrainPoll,
     DrainStillActive, DrainDone, DrainGiveUp, CompleteProcessing, Goto
<1>7. ASSUME NEW e \in Nodes, FetchStep(e)
      PROVE  HandsFull'
  <2>1. /\ wpc \in [Nodes -> WorkerPcs] /\ hand \in [Nodes -> Tasks \cup {NoTask}]
        /\ queue[e] \in Seq(Tasks) /\ scratch[e] \in Seq(Tasks)
    BY DEF TypeOK, WorkerTypeOK, EdgeTypeOK
  <2>2. CASE DequeueFifo(e)
    <3>1. Head(queue[e]) \in Tasks
      BY <2>1, <2>2 DEF DequeueFifo
    <3> QED
      BY <2>1, <2>2, <3>1 DEF HandsFull, DequeueFifo, GotoWorker
  <2>3. CASE SelectTask(e)
    BY <2>1, <2>3 DEF HandsFull, SelectTask, GotoWorker
  <2> QED
    BY <1>7, <2>1, <2>2, <2>3 DEF HandsFull, FetchStep, CheckRunning, FetchNothing,
       BeginDrain, DrainOne, RestoreOne, ReturnTask, GotoWorker
<1>8. ASSUME NEW e \in Nodes, ExecuteStep(e)
      PROVE  HandsFull'
  BY <1>8 DEF TypeOK, WorkerTypeOK, HandsFull, ExecuteStep, StartTask, ActivateTask,
     FinishTask, ReleaseResources, CountExecution, RecordExecution, GotoWorker
<1>9. ASSUME UNCHANGED workVars
      PROVE  HandsFull'
  BY <1>9 DEF HandsFull, workVars
<1>10. \A e \in Nodes : FetchStep(e) \/ ExecuteStep(e) => Exclusive' /\ Bounded'
  BY QuietControl DEF FetchStep, ExecuteStep
<1>11. StopStep \/ UNCHANGED vars => Exclusive' /\ Bounded'
  BY QuietControl DEF StopStep, vars
<1>12. Exclusive' /\ Bounded'
  BY <1>1, <1>2, <1>3, <1>4, <1>5, <1>6, <1>10, <1>11, NextCases
<1>13. \/ UNCHANGED workVars
       \/ \E e \in Nodes : FetchStep(e) \/ ExecuteStep(e)
  BY NextCases DEF ConfigureStep, ClientCall, ApplyStep, LoopStep, ScanStep,
     CommitStep, DrainStep, StopStep, vars
<1> QED
  BY <1>7, <1>8, <1>9, <1>12, <1>13

-----------------------------------------------------------------------------
(* Capacity. *)

\* Reserving what fits stays within the capacity.
LEMMA ReserveFits ==
  ASSUME NEW cap \in Resources, NEW u \in Resources, NEW r \in Resources,
         CanAllocate(TRUE, cap, u, r)
  PROVE  \A d \in Dims : AllocateResources(u, r)[d] <= cap[d]
BY DEF Resources, CanAllocate, AllocateResources

\* A release only makes room.
LEMMA ReleaseFits ==
  ASSUME NEW cap \in Resources, NEW u \in Resources, NEW r \in Resources,
         NEW q \in Resources, CanAllocate(TRUE, cap, u, q)
  PROVE  CanAllocate(TRUE, cap, DeallocateResources(u, r), q)
<1>1. DeallocateResources(u, r) \in Resources
      /\ \A d \in Dims : DeallocateResources(u, r)[d] <= u[d]
  BY VectorTypes
<1> DEFINE w == DeallocateResources(u, r)
<1>2. w \in Resources /\ \A d \in Dims : w[d] <= u[d]
  BY <1>1
<1> HIDE DEF w
<1>3. CanAllocate(TRUE, cap, w, q)
  BY <1>2 DEF CanAllocate, Resources
<1> QED
  BY <1>3 DEF w

\* Steps that leave usage and the producer's findings alone.
LEMMA QuietCapacity ==
  ASSUME ViableFits, UsageWithinCapacity, UNCHANGED <<usage, pc, viable, generated>>
  PROVE  ViableFits' /\ UsageWithinCapacity'
BY DEF ViableFits, UsageWithinCapacity, IsViable

\* Nodes found viable keep room and no node is overcommitted: only the
\* producer reserves, and what workers do in between are releases.
LEMMA CapacityStep ==
  ASSUME TypeOK, Bounded, HandsFull, ViableFits, UsageWithinCapacity, [Next]_vars
  PROVE  ViableFits' /\ UsageWithinCapacity'
<1> USE RuntimeAssumption, NodeAssumption
<1>0. /\ pc \in [Threads -> ThreadPcs] /\ Producer \in Threads
      /\ \A c \in Clients : c \in Threads /\ c # Producer
      /\ usage \in [Nodes -> Resources] /\ viable \subseteq Nodes
      /\ generated \in Int
      /\ \A e \in Nodes : Capacity[e] \in Resources
      /\ Req(generated).need \in Resources
  <2>1. generated \in Int
    BY DEF TypeOK, ScanTypeOK
  <2> QED
    BY <2>1, ReqType DEF TypeOK, ThreadTypeOK, EdgeTypeOK, ScanTypeOK, Threads,
       Requirements
<1>1. ASSUME NEW p \in Threads, ConfigureStep(p)
      PROVE  ViableFits' /\ UsageWithinCapacity'
  <2>1. UNCHANGED <<usage, viable, generated>>
    BY <1>1 DEF ConfigureStep, edgeVars, scanVars
  <2>2. pc'[Producer] = pc[Producer]
          \/ pc'[Producer] \notin {"scan", "read", "reserve"}
    BY <1>0, <1>1 DEF ConfigureStep, ReadLoad, Recommend, SetAllocation,
       SetScheduling, Goto
  <2> QED
    BY <2>1, <2>2 DEF ViableFits, UsageWithinCapacity, IsViable
<1>2. ASSUME NEW c \in Clients, ClientCall(c) \/ ApplyStep(c)
      PROVE  ViableFits' /\ UsageWithinCapacity'
  <2>1. UNCHANGED <<usage, viable, generated>>
    BY <1>2 DEF ClientCall, ApplyStep, edgeVars, scanVars
  <2>2. pc'[Producer] = pc[Producer]
    BY <1>0, <1>2 DEF ClientCall, ApplyStep, RequestAutomatic, RequestManual,
       ApplyAutomatic, ApplyManual, ApplyManualScheduling, Goto
  <2> QED
    BY <2>1, <2>2 DEF ViableFits, UsageWithinCapacity, IsViable
<1>3. CASE LoopStep
  <2>1. usage' = usage
    BY <1>3 DEF LoopStep, edgeVars
  <2>2. \/ pc'[Producer] \notin {"scan", "read", "reserve"}
        \/ viable' = {}
    BY <1>0, <1>3 DEF LoopStep, BeginIteration, LeaveLoop, Generate,
       AcquireConfiguration, Goto
  <2> QED
    BY <2>1, <2>2 DEF ViableFits, UsageWithinCapacity, IsViable
<1>4. CASE ScanStep
  <2>1. UNCHANGED <<usage, generated>>
    BY <1>4 DEF ScanStep, edgeVars
  <2>2. pc[Producer] \in {"scan", "read"}
    BY <1>4 DEF ScanStep, ScanEdge, RetryAllocation, GiveUpAllocation, RankViable,
       ReadEdge
  <2>3. \A e \in viable' : e \in viable \/ IsViable(e, usage, Req(generated))
    BY <1>4 DEF ScanStep, ScanEdge, RetryAllocation, GiveUpAllocation, RankViable,
       ReadEdge, scanVars
  <2> QED
    BY <2>1, <2>2, <2>3 DEF ViableFits, UsageWithinCapacity, IsViable
<1>5. CASE CommitStep
  <2>1. pc'[Producer] \notin {"scan", "read", "reserve"}
    BY <1>0, <1>5 DEF CommitStep, ReserveEdge, CreditAllocation,
       ScheduleTask, SaveAllocation, SaveAllocationFailure, Goto
  <2>2. CASE ReserveEdge
    <3>1. PICK e \in viable :
            usage' = [usage EXCEPT ![e] = AllocateResources(@, Need(generated))]
      BY <2>2 DEF ReserveEdge
    <3>2. CanAllocate(TRUE, Capacity[e], usage[e], Need(generated))
      BY <2>2 DEF ReserveEdge, ViableFits, IsViable, Need
    <3>3. \A d \in Dims :
            AllocateResources(usage[e], Need(generated))[d] <= Capacity[e][d]
      BY <1>0, <3>2, ReserveFits DEF Need
    <3>4. UsageWithinCapacity'
      BY <1>0, <3>1, <3>3 DEF UsageWithinCapacity
    <3> QED
      BY <2>1, <3>4 DEF ViableFits
  <2>3. CASE CreditAllocation \/ ScheduleTask \/ SaveAllocation \/ SaveAllocationFailure
    <3>1. usage' = usage
      BY <2>3 DEF CreditAllocation, ScheduleTask, SaveAllocation,
         SaveAllocationFailure, edgeVars
    <3> QED
      BY <2>1, <3>1 DEF ViableFits, UsageWithinCapacity
  <2> QED
    BY <1>5, <2>2, <2>3 DEF CommitStep
<1>6. CASE DrainStep
  <2>1. usage' = usage
    BY <1>6 DEF DrainStep, edgeVars
  <2>2. pc'[Producer] \notin {"scan", "read", "reserve"}
    BY <1>0, <1>6 DEF DrainStep, DrainPoll, DrainStillActive, DrainDone, DrainGiveUp,
       CompleteProcessing, Goto
  <2> QED
    BY <2>1, <2>2 DEF ViableFits, UsageWithinCapacity
<1>7. ASSUME NEW e \in Nodes, ExecuteStep(e)
      PROVE  ViableFits' /\ UsageWithinCapacity'
  <2>1. UNCHANGED <<pc, viable, generated>>
    BY <1>7 DEF ExecuteStep, threadVars, scanVars
  <2>2. CASE ReleaseResources(e)
    <3> DEFINE w == DeallocateResources(usage[e], Need(hand[e]))
    <3>1. usage' = [usage EXCEPT ![e] = w] /\ hand[e] \in Tasks
      BY <2>2 DEF ReleaseResources, HandsFull
    <3>2. Need(hand[e]) \in Resources
      BY <3>1, NeedType DEF Tasks
    <3>3. w \in Resources /\ \A d \in Dims : w[d] <= usage[e][d]
      BY <1>0, <3>2, VectorTypes
    <3>4. CanAllocate(TRUE, Capacity[e], usage[e], Req(generated).need)
            => CanAllocate(TRUE, Capacity[e], w, Req(generated).need)
      BY <1>0, <3>2, ReleaseFits
    <3> HIDE DEF w
    <3>5. UsageWithinCapacity'
      <4> SUFFICES ASSUME NEW f \in Nodes, NEW d \in Dims
                   PROVE  usage'[f][d] <= Capacity[f][d]
        BY DEF UsageWithinCapacity
      <4>1. CASE f = e
        BY <1>0, <3>1, <3>3, <4>1 DEF UsageWithinCapacity, Resources
      <4>2. CASE f # e
        BY <1>0, <3>1, <4>2 DEF UsageWithinCapacity
      <4> QED
        BY <4>1, <4>2
    <3>6. ViableFits'
      BY <1>0, <2>1, <3>1, <3>4 DEF ViableFits, IsViable
    <3> QED
      BY <3>5, <3>6
  <2>3. CASE ~ReleaseResources(e)
    <3>1. usage' = usage
      BY <1>7, <2>3 DEF ExecuteStep, StartTask, ActivateTask, FinishTask,
         CountExecution, RecordExecution, edgeVars
    <3> QED
      BY <2>1, <3>1, QuietCapacity
  <2> QED
    BY <2>2, <2>3
<1>8. ASSUME NEW e \in Nodes, FetchStep(e)
      PROVE  ViableFits' /\ UsageWithinCapacity'
  BY <1>8, QuietCapacity DEF FetchStep, threadVars, scanVars
<1>9. CASE StopStep \/ UNCHANGED vars
  BY <1>9, QuietCapacity DEF StopStep, vars, edgeVars, threadVars, scanVars
<1> QED
  BY <1>1, <1>2, <1>3, <1>4, <1>5, <1>6, <1>7, <1>8, <1>9, NextCases

-----------------------------------------------------------------------------
(* Rows. *)

\* Steps that neither place a task nor switch the strategy.
LEMMA QuietRows ==
  ASSUME RowsMatch, StrategyRecorded,
         UNCHANGED <<dbRows, assigned, used, generated, allocStrategy>>,
         \/ pc'[Producer] = pc[Producer]
         \/ pc'[Producer] \notin {"acquire", "scan", "read", "reserve",
                                 "saveFailure", "credit", "schedule",
                                 "saveAllocation"}
         \/ /\ pc[Producer] \in {"acquire", "scan", "read", "reserve"}
            /\ pc'[Producer] \in {"scan", "read", "reserve", "saveFailure"}
  PROVE  RowsMatch' /\ StrategyRecorded'
<1>1. \A t \in Tasks : Unplaced(t) => Unplaced(t)'
  BY DEF Unplaced
<1>2. Unplaced(generated) => Unplaced(generated)'
  BY DEF Unplaced
<1>3. RowsMatch'
  BY <1>1, <1>2 DEF RowsMatch, NotPlacedYet, StrategyKept
<1> QED
  BY <1>3 DEF StrategyRecorded

\* Switching the strategy is harmless while no placed task awaits its row.
LEMMA SwitchRows ==
  ASSUME RowsMatch, StrategyRecorded,
         UNCHANGED <<dbRows, assigned, used, generated>>,
         pc'[Producer] = pc[Producer]
           \/ pc'[Producer] \in {"setAllocation", "setScheduling", "generate"},
         pc[Producer] \notin {"credit", "schedule", "saveAllocation"}
  PROVE  RowsMatch' /\ StrategyRecorded'
<1>1. \A t \in Tasks : Unplaced(t) => Unplaced(t)'
  BY DEF Unplaced
<1>2. Unplaced(generated) => Unplaced(generated)'
  BY DEF Unplaced
<1>3. RowsMatch'
  BY <1>1, <1>2 DEF RowsMatch, NotPlacedYet, StrategyKept
<1> QED
  BY <1>3 DEF StrategyRecorded

\* A row names the node and the strategy that placed its task.
LEMMA RowsStep ==
  ASSUME TypeOK, Exclusive, Bounded, RowsMatch, StrategyRecorded, [Next]_vars
  PROVE  RowsMatch' /\ StrategyRecorded'
<1> USE RuntimeAssumption
<1>0. /\ pc \in [Threads -> ThreadPcs] /\ Producer \in Threads
      /\ \A c \in Clients : c \in Threads /\ c # Producer
      /\ cfgMutex = Free => pc[Producer] \notin {"credit", "schedule", "saveAllocation"}
      /\ generated \in 0..TaskCount
  BY DEF TypeOK, ThreadTypeOK, ScanTypeOK, Threads, Exclusive, Critical
<1>1. ASSUME NEW p \in Threads, ConfigureStep(p)
      PROVE  RowsMatch' /\ StrategyRecorded'
  <2>1. UNCHANGED <<dbRows, assigned, used, generated>>
    BY <1>1 DEF ConfigureStep, dbVars, taskVars
  <2>2. pc'[Producer] = pc[Producer]
          \/ pc'[Producer] \in {"setAllocation", "setScheduling", "generate"}
    BY <1>0, <1>1 DEF ConfigureStep, ReadLoad, Recommend, SetAllocation,
       SetScheduling, Goto
  <2>3. CASE SetAllocation(p)
    BY <1>0, <2>1, <2>2, <2>3, SwitchRows DEF SetAllocation
  <2>4. CASE ReadLoad(p) \/ Recommend(p) \/ SetScheduling(p)
    <3>1. allocStrategy' = allocStrategy
      BY <2>4 DEF ReadLoad, Recommend, SetScheduling
    <3> QED
      BY <2>1, <2>2, <3>1, QuietRows
  <2> QED
    BY <1>1, <2>3, <2>4 DEF ConfigureStep
<1>2. ASSUME NEW c \in Clients, ClientCall(c) \/ ApplyStep(c)
      PROVE  RowsMatch' /\ StrategyRecorded'
  <2>1. UNCHANGED <<dbRows, assigned, used, generated>>
    BY <1>2 DEF ClientCall, ApplyStep, dbVars, taskVars
  <2>2. pc'[Producer] = pc[Producer]
    BY <1>0, <1>2 DEF ClientCall, ApplyStep, RequestAutomatic, RequestManual,
       ApplyAutomatic, ApplyManual, ApplyManualScheduling, Goto
  <2>3. CASE ApplyManual(c)
    BY <1>0, <2>1, <2>2, <2>3, SwitchRows DEF ApplyManual
  <2>4. CASE ~ApplyManual(c)
    <3>1. allocStrategy' = allocStrategy
      BY <1>2, <2>4 DEF ClientCall, ApplyStep, ApplyAutomatic, ApplyManualScheduling,
         allocVars
    <3> QED
      BY <2>1, <2>2, <3>1, QuietRows
  <2> QED
    BY <2>3, <2>4
<1>3. CASE LoopStep
  <2>1. UNCHANGED <<dbRows, assigned, used, allocStrategy>>
    BY <1>3 DEF LoopStep
  <2>2. CASE Generate
    <3>1. generated' = generated + 1 /\ pc'[Producer] = "acquire"
      BY <1>0, <2>2 DEF Generate, Goto
    <3>2. generated + 1 \in Tasks
      BY <1>0, <2>2 DEF Generate, Bounded, Tasks
    <3>3. \A t \in Tasks : Unplaced(t) => Unplaced(t)'
      BY <2>1 DEF Unplaced
    <3>4. \A t \in Tasks : t > generated' => Unplaced(t)'
      BY <1>0, <3>1, <3>3 DEF RowsMatch, NotPlacedYet, StrategyKept, Tasks
    <3>5. Unplaced(generated + 1)
      BY <1>0, <3>2 DEF RowsMatch, NotPlacedYet, StrategyKept
    <3>6. Unplaced(generated)'
      BY <2>1, <3>1, <3>5 DEF Unplaced
    <3> QED
      BY <2>1, <3>1, <3>4, <3>6 DEF RowsMatch, NotPlacedYet, StrategyKept, StrategyRecorded
  <2>3. CASE BeginIteration \/ LeaveLoop \/ AcquireConfiguration
    <3>1. generated' = generated
      BY <2>3 DEF BeginIteration, LeaveLoop, AcquireConfiguration
    <3>2. \/ pc'[Producer] \in {"recommend", "generate", "poll"}
          \/ pc[Producer] = "acquire" /\ pc'[Producer] = "scan"
      BY <1>0, <2>3 DEF BeginIteration, LeaveLoop, AcquireConfiguration, Goto
    <3> QED
      BY <2>1, <3>1, <3>2, QuietRows
  <2> QED
    BY <1>3, <2>2, <2>3 DEF LoopStep
<1>4. CASE ScanStep
  <2>1. UNCHANGED <<dbRows, assigned, used, generated, allocStrategy>>
    BY <1>4 DEF ScanStep, dbVars, taskVars
  <2>2. /\ pc[Producer] \in {"scan", "read"}
        /\ pc'[Producer] \in {"scan", "read", "reserve", "saveFailure"}
    BY <1>0, <1>4 DEF ScanStep, ScanEdge, RetryAllocation, GiveUpAllocation,
       RankViable, ReadEdge, Goto
  <2> QED
    BY <2>1, <2>2, QuietRows
<1>5. CASE CommitStep
  <2>0. /\ generated \in Tasks /\ generated' = generated
        /\ allocStrategy' = allocStrategy
    BY <1>5 DEF CommitStep, Bounded, Critical, ReserveEdge, CreditAllocation,
       ScheduleTask, SaveAllocation, SaveAllocationFailure
  <2>1. CASE ReserveEdge
    <3>1. PICK e \in viable : assigned' = [assigned EXCEPT ![generated] = e]
      BY <2>1 DEF ReserveEdge
    <3>2. /\ used' = [used EXCEPT ![generated] = allocStrategy]
          /\ dbRows' = dbRows /\ pc'[Producer] = "credit"
          /\ dbRows[generated] = <<>>
      BY <1>0, <2>1 DEF ReserveEdge, Goto, RowsMatch, NotPlacedYet, StrategyKept, Unplaced
    <3>3. assigned \in [Tasks -> Nodes \cup {NoNode}]
          /\ used \in [Tasks -> Strategies \cup {"none"}]
      BY DEF TypeOK, TaskTypeOK
    <3>4. \A t \in Tasks : t # generated => assigned'[t] = assigned[t] /\ used'[t] = used[t]
      BY <3>1, <3>2, <3>3
    <3>5. RowsMatch'
      <4>1. ASSUME NEW t \in Tasks, t > generated PROVE Unplaced(t)'
        <5>1. t # generated
          BY <2>0, <4>1 DEF Tasks
        <5>2. Unplaced(t)
          BY <4>1 DEF RowsMatch, NotPlacedYet, StrategyKept
        <5> QED
          BY <3>2, <3>4, <5>1, <5>2 DEF Unplaced
      <4> QED
        BY <2>0, <3>2, <3>3, <4>1 DEF RowsMatch, NotPlacedYet, StrategyKept
    <3>6. StrategyRecorded'
      <4> SUFFICES ASSUME NEW t \in Tasks
                   PROVE  /\ Len(dbRows'[t]) <= 1
                          /\ \A k \in DOMAIN dbRows'[t] : dbRows'[t][k] =
                               [edge |-> assigned'[t], strategy |-> used'[t]]
        BY DEF StrategyRecorded
      <4>1. CASE t = generated
        BY <3>2, <4>1
      <4>2. CASE t # generated
        BY <3>2, <3>4, <4>2 DEF StrategyRecorded
      <4> QED
        BY <4>1, <4>2
    <3> QED
      BY <3>5, <3>6
  <2>2. CASE CreditAllocation \/ ScheduleTask
    <3>1. UNCHANGED <<dbRows, assigned, used>>
      BY <2>2 DEF CreditAllocation, ScheduleTask, dbVars, taskVars
    <3>2. \/ pc[Producer] = "credit" /\ pc'[Producer] = "schedule"
          \/ pc[Producer] = "schedule" /\ pc'[Producer] = "saveAllocation"
      BY <1>0, <2>2 DEF CreditAllocation, ScheduleTask, Goto
    <3>3. \A t \in Tasks : Unplaced(t) => Unplaced(t)'
      BY <3>1 DEF Unplaced
    <3> QED
      BY <2>0, <3>1, <3>2, <3>3 DEF RowsMatch, NotPlacedYet, StrategyKept, StrategyRecorded
  <2>3. CASE SaveAllocation \/ SaveAllocationFailure
    <3> DEFINE row == [edge |-> assigned[generated], strategy |-> used[generated]]
    <3>1. /\ dbRows' = [dbRows EXCEPT ![generated] = Append(@, row)]
          /\ dbRows[generated] = <<>>
      BY <2>3 DEF SaveAllocation, SaveAllocationFailure, RowsMatch, NotPlacedYet,
                  StrategyKept, Unplaced
    <3>2. UNCHANGED <<assigned, used>> /\ pc'[Producer] = "head"
      BY <1>0, <2>3 DEF SaveAllocation, SaveAllocationFailure, taskVars, Goto
    <3>3. dbRows \in [Tasks -> Seq(Rows)]
      BY DEF TypeOK, DatabaseTypeOK
    <3>4. dbRows'[generated] = <<row>>
      BY <2>0, <3>1, <3>3
    <3>5. \A t \in Tasks : t # generated => dbRows'[t] = dbRows[t]
      BY <3>1, <3>3
    <3> HIDE DEF row
    <3>6. RowsMatch'
      <4>1. ASSUME NEW t \in Tasks, t > generated PROVE Unplaced(t)'
        <5>1. t # generated
          BY <2>0, <4>1 DEF Tasks
        <5>2. Unplaced(t)
          BY <4>1 DEF RowsMatch, NotPlacedYet, StrategyKept
        <5> QED
          BY <3>2, <3>5, <5>1, <5>2 DEF Unplaced
      <4> QED
        BY <2>0, <3>2, <4>1 DEF RowsMatch, NotPlacedYet, StrategyKept
    <3>7. StrategyRecorded'
      <4> SUFFICES ASSUME NEW t \in Tasks
                   PROVE  /\ Len(dbRows'[t]) <= 1
                          /\ \A k \in DOMAIN dbRows'[t] : dbRows'[t][k] =
                               [edge |-> assigned'[t], strategy |-> used'[t]]
        BY DEF StrategyRecorded
      <4>1. CASE t = generated
        <5>1. Len(<<row>>) <= 1 /\ \A k \in DOMAIN <<row>> : <<row>>[k] = row
          OBVIOUS
        <5>2. row = [edge |-> assigned'[t], strategy |-> used'[t]]
          BY <3>2, <4>1 DEF row
        <5>3. dbRows'[t] = <<row>>
          BY <3>4, <4>1
        <5> QED
          BY <5>1, <5>2, <5>3, Zenon
      <4>2. CASE t # generated
        BY <3>2, <3>5, <4>2 DEF StrategyRecorded
      <4> QED
        BY <4>1, <4>2
    <3> QED
      BY <3>6, <3>7
  <2> QED
    BY <1>5, <2>1, <2>2, <2>3 DEF CommitStep
<1>6. CASE DrainStep
  <2>1. UNCHANGED <<dbRows, assigned, used, generated, allocStrategy>>
    BY <1>6 DEF DrainStep, dbVars, taskVars, allocVars
  <2>2. pc'[Producer] \in {"poll", "finish", "done"}
    BY <1>0, <1>6 DEF DrainStep, DrainPoll, DrainStillActive, DrainDone, DrainGiveUp,
       CompleteProcessing, Goto
  <2> QED
    BY <2>1, <2>2, QuietRows
<1>7. ASSUME NEW e \in Nodes, FetchStep(e) \/ ExecuteStep(e)
      PROVE  RowsMatch' /\ StrategyRecorded'
  BY <1>7, QuietRows DEF FetchStep, ExecuteStep, dbVars, taskVars, allocVars, threadVars
<1>8. CASE StopStep \/ UNCHANGED vars
  BY <1>8, QuietRows DEF StopStep, vars, dbVars, taskVars, allocVars, threadVars
<1> QED
  BY <1>1, <1>2, <1>3, <1>4, <1>5, <1>6, <1>7, <1>8, NextCases

\* Steps that place nothing.
LEMMA QuietPlacement ==
  ASSUME NotPlacedYet, UNCHANGED <<dbRows, assigned, used, generated>>,
         pc'[Producer] \in {"acquire", "scan", "read", "reserve", "saveFailure"}
           => pc[Producer] \in {"acquire", "scan", "read", "reserve", "saveFailure"}
  PROVE  NotPlacedYet'
<1>1. \A t : Unplaced(t) => Unplaced(t)'
  BY DEF Unplaced
<1>2. Unplaced(generated) => Unplaced(generated)'
  BY DEF Unplaced
<1> QED
  BY <1>1, <1>2 DEF NotPlacedYet

\* A task that is being placed or recorded has no successor yet.
LEMMA PlacingStep ==
  ASSUME TypeOK, NotPlacedYet, generated \in Tasks, generated' = generated,
         pc'[Producer] \notin {"acquire", "scan", "read", "reserve", "saveFailure"},
         \A t \in Tasks : t # generated =>
           dbRows'[t] = dbRows[t] /\ assigned'[t] = assigned[t] /\ used'[t] = used[t]
  PROVE  NotPlacedYet'
<1>1. ASSUME NEW t \in Tasks, t > generated PROVE Unplaced(t)'
  <2>1. t # generated
    BY <1>1 DEF Tasks
  <2> QED
    BY <1>1, <2>1 DEF NotPlacedYet, Unplaced
<1> QED
  BY <1>1 DEF NotPlacedYet

\* A task has no node and no row before its turn, whoever takes a step.
LEMMA NotPlacedStep ==
  ASSUME TypeOK, Bounded, NotPlacedYet, [Next]_vars
  PROVE  NotPlacedYet'
<1> USE RuntimeAssumption
<1>0. /\ pc \in [Threads -> ThreadPcs] /\ Producer \in Threads
      /\ \A c \in Clients : c \in Threads /\ c # Producer
      /\ generated \in 0..TaskCount
      /\ assigned \in [Tasks -> Nodes \cup {NoNode}]
      /\ used \in [Tasks -> Strategies \cup {"none"}] /\ dbRows \in [Tasks -> Seq(Rows)]
  BY DEF TypeOK, ThreadTypeOK, ScanTypeOK, TaskTypeOK, DatabaseTypeOK, Threads
<1>1. ASSUME NEW p \in Threads, ConfigureStep(p)
      PROVE  NotPlacedYet'
  <2>1. UNCHANGED <<dbRows, assigned, used, generated>>
    BY <1>1 DEF ConfigureStep, dbVars, taskVars
  <2>2. pc'[Producer] = pc[Producer]
          \/ pc'[Producer] \in {"setAllocation", "setScheduling", "generate"}
    BY <1>0, <1>1 DEF ConfigureStep, ReadLoad, Recommend, SetAllocation,
       SetScheduling, Goto
  <2> QED
    BY <2>1, <2>2, QuietPlacement
<1>2. ASSUME NEW c \in Clients, ClientCall(c) \/ ApplyStep(c)
      PROVE  NotPlacedYet'
  <2>1. UNCHANGED <<dbRows, assigned, used, generated>>
    BY <1>2 DEF ClientCall, ApplyStep, dbVars, taskVars
  <2>2. pc'[Producer] = pc[Producer]
    BY <1>0, <1>2 DEF ClientCall, ApplyStep, RequestAutomatic, RequestManual,
       ApplyAutomatic, ApplyManual, ApplyManualScheduling, Goto
  <2> QED
    BY <2>1, <2>2, QuietPlacement
<1>3. CASE LoopStep
  <2>1. UNCHANGED <<dbRows, assigned, used>>
    BY <1>3 DEF LoopStep
  <2>2. CASE Generate
    <3>1. generated' = generated + 1 /\ generated + 1 \in Tasks
      BY <1>0, <2>2 DEF Generate, Bounded, Tasks
    <3>2. \A t : Unplaced(t) => Unplaced(t)'
      BY <2>1 DEF Unplaced
    <3>3. \A t \in Tasks : t > generated' => Unplaced(t)'
      BY <1>0, <3>1, <3>2 DEF NotPlacedYet, Tasks
    <3>4. Unplaced(generated + 1)
      BY <1>0, <3>1 DEF NotPlacedYet
    <3>5. Unplaced(generated)'
      BY <2>1, <3>1, <3>4 DEF Unplaced
    <3> QED
      BY <3>3, <3>5 DEF NotPlacedYet
  <2>3. CASE BeginIteration \/ LeaveLoop \/ AcquireConfiguration
    <3>1. generated' = generated
      BY <2>3 DEF BeginIteration, LeaveLoop, AcquireConfiguration
    <3>2. \/ pc'[Producer] \in {"recommend", "generate", "poll"}
          \/ pc[Producer] = "acquire" /\ pc'[Producer] = "scan"
      BY <1>0, <2>3 DEF BeginIteration, LeaveLoop, AcquireConfiguration, Goto
    <3> QED
      BY <2>1, <3>1, <3>2, QuietPlacement
  <2> QED
    BY <1>3, <2>2, <2>3 DEF LoopStep
<1>4. CASE ScanStep
  <2>1. UNCHANGED <<dbRows, assigned, used, generated>>
    BY <1>4 DEF ScanStep, dbVars, taskVars
  <2>2. pc[Producer] \in {"scan", "read"}
    BY <1>4 DEF ScanStep, ScanEdge, RetryAllocation, GiveUpAllocation, RankViable, ReadEdge
  <2> QED
    BY <2>1, <2>2, QuietPlacement
<1>5. CASE CommitStep
  <2>1. generated \in Tasks /\ generated' = generated
    BY <1>5 DEF CommitStep, Bounded, Critical, ReserveEdge, CreditAllocation,
       ScheduleTask, SaveAllocation, SaveAllocationFailure
  <2>2. pc'[Producer] \in {"credit", "schedule", "saveAllocation", "head"}
    BY <1>0, <1>5 DEF CommitStep, ReserveEdge, CreditAllocation, ScheduleTask,
       SaveAllocation, SaveAllocationFailure, Goto
  <2>3. ASSUME NEW t \in Tasks, t # generated
        PROVE  dbRows'[t] = dbRows[t] /\ assigned'[t] = assigned[t] /\ used'[t] = used[t]
    <3>1. CASE ReserveEdge
      BY <1>0, <2>1, <2>3, <3>1 DEF ReserveEdge
    <3>2. CASE CreditAllocation \/ ScheduleTask
      BY <3>2 DEF CreditAllocation, ScheduleTask, taskVars
    <3>3. CASE SaveAllocation \/ SaveAllocationFailure
      BY <1>0, <2>1, <2>3, <3>3 DEF SaveAllocation, SaveAllocationFailure, taskVars
    <3> QED
      BY <1>5, <3>1, <3>2, <3>3 DEF CommitStep
  <2> QED
    BY <2>1, <2>2, <2>3, PlacingStep
<1>6. CASE DrainStep
  <2>1. UNCHANGED <<dbRows, assigned, used, generated>>
    BY <1>6 DEF DrainStep, dbVars, taskVars
  <2>2. pc'[Producer] \in {"poll", "finish", "done"}
    BY <1>0, <1>6 DEF DrainStep, DrainPoll, DrainStillActive, DrainDone, DrainGiveUp,
       CompleteProcessing, Goto
  <2> QED
    BY <2>1, <2>2, QuietPlacement
<1>7. ASSUME NEW e \in Nodes, FetchStep(e) \/ ExecuteStep(e)
      PROVE  NotPlacedYet'
  <2>1. UNCHANGED <<dbRows, assigned, used, generated, pc>>
    BY <1>7 DEF FetchStep, ExecuteStep, dbVars, taskVars, threadVars
  <2> QED
    BY <2>1, QuietPlacement
<1>8. CASE StopStep \/ UNCHANGED vars
  <2>1. UNCHANGED <<dbRows, assigned, used, generated, pc>>
    BY <1>8 DEF StopStep, vars, dbVars, taskVars, threadVars
  <2> QED
    BY <2>1, QuietPlacement
<1> QED
  BY <1>1, <1>2, <1>3, <1>4, <1>5, <1>6, <1>7, <1>8, NextCases

\* Every step keeps the part of the invariant that ignores strategies.
LEMMA PlacementStep == PlacementInv /\ [Next]_vars => PlacementInv'
BY TypeStep, ControlStep, CapacityStep, NotPlacedStep DEF PlacementInv

-----------------------------------------------------------------------------
(* Theorems. *)

\* The invariant holds when start() returns.
LEMMA RuntimeInit == Init => RuntimeInv
<1> SUFFICES ASSUME Init PROVE RuntimeInv
  OBVIOUS
<1> USE NodeAssumption, RuntimeAssumption
<1>1. TypeOK
  BY InitType
<1>2. /\ pc = [p \in Threads |-> IF p = Producer THEN "head" ELSE "idle"]
      /\ wpc = [e \in Nodes |-> "idle"] /\ Producer \in Threads
  BY DEF Init, Threads
<1>3. Exclusive /\ Bounded /\ HandsFull /\ ViableFits
  BY <1>2 DEF Exclusive, Bounded, HandsFull, ViableFits, Critical
<1>4. UsageWithinCapacity
  BY DEF Init, UsageWithinCapacity, NoUsage, Resources
<1>5. RowsMatch /\ StrategyRecorded
  BY <1>2 DEF Init, RowsMatch, NotPlacedYet, StrategyKept, StrategyRecorded, Unplaced
<1> QED
  BY <1>1, <1>3, <1>4, <1>5 DEF RuntimeInv, PlacementInv, RowsMatch

\* Every step keeps the invariant.
LEMMA RuntimeStep == RuntimeInv /\ [Next]_vars => RuntimeInv'
<1>1. RuntimeInv <=> PlacementInv /\ RowsMatch /\ StrategyRecorded
  BY DEF RuntimeInv, PlacementInv, RowsMatch
<1>2. RuntimeInv /\ [Next]_vars => RowsMatch' /\ StrategyRecorded'
  BY <1>1, RowsStep DEF PlacementInv
<1>3. RuntimeInv /\ [Next]_vars => PlacementInv'
  BY <1>1, PlacementStep
<1> QED
  BY <1>2, <1>3 DEF RuntimeInv, RowsMatch

\* The invariant holds in every reachable state.
THEOREM RuntimeInvariance == Spec => []RuntimeInv
BY RuntimeInit, RuntimeStep, PTL DEF Spec

\* So does the part that ignores strategies.
LEMMA PlacementInvariance == Spec => []PlacementInv
<1>1. RuntimeInv => PlacementInv
  BY DEF RuntimeInv
<1> QED
  BY <1>1, RuntimeInvariance, PTL

\* Whatever the threads do, every variable keeps to its type and bound.
THEOREM TypeCorrectness == Spec => []TypeOK
<1>1. RuntimeInv => TypeOK
  BY DEF RuntimeInv, PlacementInv
<1> QED
  BY <1>1, RuntimeInvariance, PTL

\* No node ever has more reserved than its capacity, in any dimension, under
\* any strategy, although allocateTaskWithRetry checks and reserves in
\* separate critical sections.
THEOREM NoOvercommit == Spec => []UsageWithinCapacity
<1>1. RuntimeInv => UsageWithinCapacity
  BY DEF RuntimeInv, PlacementInv
<1> QED
  BY <1>1, RuntimeInvariance, PTL

\* Every row of task_allocations names the node and the strategy that placed
\* its task, whoever reconfigures the runtime meanwhile.
THEOREM RowsAreTruthful == Spec => []StrategyRecorded
<1>1. RuntimeInv => StrategyRecorded
  BY DEF RuntimeInv, PlacementInv
<1> QED
  BY <1>1, RuntimeInvariance, PTL

-----------------------------------------------------------------------------
(***************************************************************************)
(* Concurrent reconfigurations of the live runtime never mix.              *)
(*                                                                         *)
(* Between the two calls that switch allocation and scheduling the pair is *)
(* mixed, and EffectiveIntended alone does not say how the second call     *)
(* completes it: whoever has made the first call has the other half of the *)
(* same configuration in hand, and exclusion on configuration_mutex_       *)
(* leaves one such thread.                                                 *)
(***************************************************************************)

\* A thread is between the two halves of a switch.
Halfway == {"setScheduling", "setPolicy"}

\* What a thread is about to install was chosen as a whole; halfway, the
\* allocator has its first half; when nobody is halfway the pair is whole.
SwitchesWhole ==
  /\ \A p \in Threads :
       /\ pc[p] \in Halfway \cup {"setAllocation", "manual"} => target[p] \in Intended
       /\ pc[p] \in Halfway => allocStrategy = target[p].allocation
  /\ (\A p \in Threads : pc[p] \notin Halfway) => Effective \in Intended

\* Every recommendation is one of three.
LEMMA RecommendedIntended ==
  ASSUME NEW x \in Nat
  PROVE  Recommended(x) \in Intended
<1> DEFINE unit == Scale * NodeCount
<1>1. unit \in Nat /\ unit > 0
  BY NodeAssumption, AllocatorAssumption
<1>2. 60 * Scale * NodeCount = 60 * unit /\ 70 * Scale * NodeCount = 70 * unit
  BY NodeAssumption, AllocatorAssumption
<1> HIDE DEF unit
<1>3. CASE x < 60 * unit
  <2>1. Recommended(x) = Recommended(0)
    BY <1>1, <1>2, <1>3 DEF Recommended
  <2> QED
    BY <2>1 DEF Intended
<1>4. CASE x >= 60 * unit /\ x < 70 * unit
  <2>1. Recommended(x) = Recommended(60 * Scale * NodeCount)
    BY <1>1, <1>2, <1>4 DEF Recommended
  <2> QED
    BY <2>1 DEF Intended
<1>5. CASE x >= 70 * unit
  <2>1. Recommended(x) = Recommended(70 * Scale * NodeCount)
    BY <1>1, <1>2, <1>5 DEF Recommended
  <2> QED
    BY <2>1 DEF Intended
<1> QED
  BY <1>1, <1>3, <1>4, <1>5

\* Initially the pair is the requested one or the recommendation.
LEMMA SwitchesInit == Init => SwitchesWhole
<1> SUFFICES ASSUME Init PROVE SwitchesWhole
  OBVIOUS
<1>1. PICK c \in InitialConfigs :
        LET choice == [allocation |-> c.allocation, scheduling |-> c.scheduling]
            effective == IF c.automatic THEN Recommended(0) ELSE choice
        IN  allocStrategy = effective.allocation /\ schedStrategy = effective.scheduling
  BY Zenon DEF Init
<1>2. Effective \in Intended
  <2>1. CASE c.automatic
    <3>1. Effective = Recommended(0)
      BY <1>1, <2>1 DEF Effective, Recommended
    <3> QED
      BY <3>1 DEF Intended
  <2>2. CASE ~c.automatic
    <3>1. Effective = [allocation |-> c.allocation, scheduling |-> c.scheduling]
      BY <1>1, <2>2 DEF Effective
    <3> QED
      BY <2>2, <3>1 DEF Intended
  <2> QED
    BY <2>1, <2>2
<1>3. \A p \in Threads : pc[p] \in {"head", "idle"}
  BY DEF Init
<1> QED
  BY <1>2, <1>3 DEF SwitchesWhole, Halfway

\* Steps that change no configuration and bring nobody near a switch.
LEMMA QuietSwitches ==
  ASSUME SwitchesWhole, UNCHANGED <<allocStrategy, schedStrategy, target>>,
         \A p \in Threads :
           \/ pc'[p] = pc[p]
           \/ /\ pc[p] \notin Halfway
              /\ pc'[p] \notin Halfway \cup {"setAllocation", "manual"}
  PROVE  SwitchesWhole'
<1>1. \A p \in Threads : pc'[p] \in Halfway <=> pc[p] \in Halfway
  BY DEF Halfway
<1>2. Effective' = Effective
  BY DEF Effective
<1>3. Intended' = Intended
  BY DEF Intended, Recommended
<1> QED
  BY <1>1, <1>2, <1>3 DEF SwitchesWhole

\* The first call of a switch: under configuration_mutex_ nobody else is
\* halfway, and the thread that makes the call is from now on.
LEMMA FirstHalf ==
  ASSUME TypeOK, Exclusive, SwitchesWhole, NEW p \in Threads, cfgMutex = Free,
         pc[p] \in {"setAllocation", "manual"}, NEW label \in Halfway,
         pc' = [pc EXCEPT ![p] = label], allocStrategy' = target[p].allocation,
         target' = target
  PROVE  SwitchesWhole'
<1>1. pc \in [Threads -> ThreadPcs] /\ \A q \in Threads : q # Free
  BY RuntimeAssumption DEF TypeOK, ThreadTypeOK
<1>2. \A q \in Threads : pc[q] \notin Halfway
  BY <1>1 DEF Exclusive, Critical, Halfway
<1>3. pc'[p] = label /\ \A q \in Threads : q # p => pc'[q] = pc[q]
  BY <1>1
<1>4. Intended' = Intended
  BY DEF Intended, Recommended
<1>5. target[p] \in Intended
  BY DEF SwitchesWhole
<1>6. \A q \in Threads :
        pc'[q] \in Halfway \cup {"setAllocation", "manual"} => target'[q] \in Intended'
  BY <1>3, <1>4, <1>5 DEF SwitchesWhole
<1>7. \A q \in Threads : pc'[q] \in Halfway => allocStrategy' = target'[q].allocation
  BY <1>2, <1>3
<1>8. ~ \A q \in Threads : pc'[q] \notin Halfway
  BY <1>3
<1> QED
  BY <1>6, <1>7, <1>8 DEF SwitchesWhole

\* The second call completes what the first began: the holder of
\* configuration_mutex_ is the only thread that was halfway.
LEMMA SecondHalf ==
  ASSUME TypeOK, Exclusive, SwitchesWhole, NEW p \in Threads, pc[p] \in Halfway,
         NEW label, label \notin Halfway \cup {"setAllocation", "manual"},
         pc' = [pc EXCEPT ![p] = label], allocStrategy' = allocStrategy,
         schedStrategy' = target[p].scheduling, target' = target
  PROVE  SwitchesWhole'
<1>1. pc \in [Threads -> ThreadPcs] /\ target[p] \in Configurations
  BY DEF TypeOK, ThreadTypeOK
<1>2. pc'[p] = label /\ \A q \in Threads : q # p => pc'[q] = pc[q]
  BY <1>1
<1>3. \A q \in Threads : pc'[q] \notin Halfway
  BY <1>2 DEF Exclusive, Critical, Halfway
<1>4. Intended' = Intended
  BY DEF Intended, Recommended
<1>5. target[p] \in Intended /\ allocStrategy = target[p].allocation
  BY DEF SwitchesWhole
<1>6. Effective' = target[p]
  BY <1>1, <1>5 DEF Effective, Configurations
<1>7. \A q \in Threads :
        pc'[q] \in Halfway \cup {"setAllocation", "manual"} => target'[q] \in Intended'
  BY <1>2, <1>4 DEF SwitchesWhole
<1> QED
  BY <1>3, <1>4, <1>5, <1>6, <1>7 DEF SwitchesWhole

\* A thread that has made up its mind: a recommendation, or a request.
LEMMA ChosenWhole ==
  ASSUME TypeOK, SwitchesWhole, NEW p \in Threads, pc[p] \notin Halfway,
         NEW label \in {"setAllocation", "manual"}, NEW c \in Intended,
         pc' = [pc EXCEPT ![p] = label], target' = [target EXCEPT ![p] = c],
         UNCHANGED <<allocStrategy, schedStrategy>>
  PROVE  SwitchesWhole'
<1>1. pc \in [Threads -> ThreadPcs] /\ target \in [Threads -> Configurations]
  BY DEF TypeOK, ThreadTypeOK
<1>2. /\ pc'[p] = label /\ target'[p] = c
      /\ \A q \in Threads : q # p => pc'[q] = pc[q] /\ target'[q] = target[q]
  BY <1>1
<1>3. label \notin Halfway
  BY DEF Halfway
<1>4. Intended' = Intended
  BY DEF Intended, Recommended
<1>5. Effective' = Effective
  BY DEF Effective
<1>6. \A q \in Threads :
        pc'[q] \in Halfway \cup {"setAllocation", "manual"} => target'[q] \in Intended'
  BY <1>2, <1>4 DEF SwitchesWhole
<1>7. \A q \in Threads : pc'[q] \in Halfway => allocStrategy' = target'[q].allocation
  BY <1>2, <1>3 DEF SwitchesWhole
<1>8. (\A q \in Threads : pc'[q] \notin Halfway) => \A q \in Threads : pc[q] \notin Halfway
  BY <1>2
<1> QED
  BY <1>4, <1>5, <1>6, <1>7, <1>8 DEF SwitchesWhole

\* Every step keeps the switches whole.
LEMMA SwitchesStep ==
  ASSUME RuntimeInv, SwitchesWhole, [Next]_vars
  PROVE  SwitchesWhole'
<1>0. /\ TypeOK /\ Exclusive /\ pc \in [Threads -> ThreadPcs]
      /\ load \in [Threads -> Nat]
      /\ Producer \in Threads /\ \A c \in Clients : c \in Threads
  BY DEF RuntimeInv, PlacementInv, TypeOK, ThreadTypeOK, Threads
<1>1. ASSUME NEW p \in Threads, ConfigureStep(p)
      PROVE  SwitchesWhole'
  <2>1. CASE ReadLoad(p)
    BY <2>1, QuietSwitches DEF ReadLoad
  <2>2. CASE Recommend(p)
    <3>1. Recommended(load[p]) \in Intended
      BY <1>0, RecommendedIntended
    <3>2. pc[p] \notin Halfway
      BY <2>2 DEF Recommend, Halfway
    <3> QED
      BY <1>0, <2>2, <3>1, <3>2, ChosenWhole DEF Recommend, Goto
  <2>3. CASE SetAllocation(p)
    BY <1>0, <2>3, FirstHalf DEF SetAllocation, Goto, Halfway
  <2>4. CASE SetScheduling(p)
    <3> DEFINE label == IF p = Producer THEN "generate" ELSE "idle"
    <3>1. label \notin Halfway \cup {"setAllocation", "manual"} /\ pc[p] \in Halfway
      BY <2>4 DEF SetScheduling, Halfway
    <3>2. pc' = [pc EXCEPT ![p] = label]
      BY <2>4 DEF SetScheduling, Goto
    <3> HIDE DEF label
    <3> QED
      BY <1>0, <2>4, <3>1, <3>2, SecondHalf DEF SetScheduling
  <2> QED
    BY <1>1, <2>1, <2>2, <2>3, <2>4 DEF ConfigureStep
<1>2. ASSUME NEW c \in Clients, ClientCall(c)
      PROVE  SwitchesWhole'
  <2>1. UNCHANGED <<allocStrategy, schedStrategy>>
    BY <1>2 DEF ClientCall, allocVars, schedVars
  <2>2. CASE RequestAutomatic(c)
    BY <1>0, <2>1, <2>2, QuietSwitches DEF RequestAutomatic, Goto, Halfway
  <2>3. CASE RequestManual(c)
    <3>1. PICK r \in ManualRequests : target' = [target EXCEPT ![c] = r]
      BY <2>3 DEF RequestManual
    <3>2. r \in Intended
      BY DEF Intended
    <3>3. pc[c] \notin Halfway
      BY <2>3 DEF RequestManual, Halfway
    <3> QED
      BY <1>0, <2>1, <2>3, <3>1, <3>2, <3>3, ChosenWhole DEF RequestManual, Goto
  <2> QED
    BY <1>2, <2>2, <2>3 DEF ClientCall
<1>3. ASSUME NEW c \in Clients, ApplyStep(c)
      PROVE  SwitchesWhole'
  <2>1. target' = target
    BY <1>3 DEF ApplyStep
  <2>2. CASE ApplyAutomatic(c)
    BY <1>0, <2>1, <2>2, QuietSwitches DEF ApplyAutomatic, Goto, Halfway
  <2>3. CASE ApplyManual(c)
    BY <1>0, <2>1, <2>3, FirstHalf DEF ApplyManual, Goto, Halfway
  <2>4. CASE ApplyManualScheduling(c)
    BY <1>0, <2>1, <2>4, SecondHalf DEF ApplyManualScheduling, Goto, Halfway
  <2> QED
    BY <1>3, <2>2, <2>3, <2>4 DEF ApplyStep
<1>4. ASSUME LoopStep
      PROVE  SwitchesWhole'
  <2>1. UNCHANGED <<allocStrategy, schedStrategy, target>>
    BY <1>4 DEF LoopStep, schedVars
  <2> QED
    BY <1>0, <1>4, <2>1, QuietSwitches DEF LoopStep, BeginIteration, LeaveLoop,
       Generate, AcquireConfiguration, Goto, Halfway
<1>5. ASSUME ScanStep
      PROVE  SwitchesWhole'
  <2>1. UNCHANGED <<allocStrategy, schedStrategy, target>>
    BY <1>5 DEF ScanStep, schedVars
  <2> QED
    BY <1>0, <1>5, <2>1, QuietSwitches DEF ScanStep, ScanEdge, RetryAllocation,
       GiveUpAllocation, RankViable, ReadEdge, Goto, Halfway
<1>6. ASSUME CommitStep
      PROVE  SwitchesWhole'
  <2>1. UNCHANGED <<allocStrategy, schedStrategy, target>>
    BY <1>6 DEF CommitStep
  <2> QED
    BY <1>0, <1>6, <2>1, QuietSwitches DEF CommitStep, ReserveEdge, CreditAllocation,
       ScheduleTask, SaveAllocation, SaveAllocationFailure, Goto, Halfway
<1>7. ASSUME DrainStep
      PROVE  SwitchesWhole'
  <2>1. UNCHANGED <<allocStrategy, schedStrategy, target>>
    BY <1>7 DEF DrainStep, allocVars, schedVars
  <2> QED
    BY <1>0, <1>7, <2>1, QuietSwitches DEF DrainStep, DrainPoll, DrainStillActive,
       DrainDone, DrainGiveUp, CompleteProcessing, Goto, Halfway
<1>8. ASSUME (\E e \in Nodes : FetchStep(e) \/ ExecuteStep(e)) \/ StopStep
             \/ UNCHANGED vars
      PROVE  SwitchesWhole'
  <2>1. UNCHANGED <<allocStrategy, schedStrategy, target, pc>>
    BY <1>8 DEF FetchStep, ExecuteStep, StopStep, vars, allocVars, schedVars,
       threadVars
  <2> QED
    BY <2>1, QuietSwitches
<1> QED
  BY <1>1, <1>2, <1>3, <1>4, <1>5, <1>6, <1>7, <1>8, NextCases

\* Whoever can take configuration_mutex_ finds an allocation strategy and a
\* scheduling policy that one caller chose together, however many clients
\* reconfigure the runtime while the producer installs recommendations.
THEOREM ConfigurationsNeverMix == Spec => []EffectiveIntended
<1>1. SwitchesWhole /\ RuntimeInv /\ [Next]_vars => SwitchesWhole'
  BY SwitchesStep
<1>2. SwitchesWhole /\ RuntimeInv => EffectiveIntended
  <2> SUFFICES ASSUME SwitchesWhole, RuntimeInv, cfgMutex = Free
               PROVE  Effective \in Intended
    BY DEF EffectiveIntended
  <2>1. \A p \in Threads : pc[p] \notin Halfway
    BY RuntimeAssumption DEF RuntimeInv, PlacementInv, Exclusive, Critical, Halfway
  <2> QED
    BY <2>1 DEF SwitchesWhole
<1> QED
  BY <1>1, <1>2, SwitchesInit, RuntimeInvariance, PTL DEF Spec

-----------------------------------------------------------------------------
(***************************************************************************)
(* Queues stay in arrival order while getNextTask empties and refills them.*)
(*                                                                         *)
(* Inside getNextTask a node's tasks are split over the queue, the scratch *)
(* buffer and the worker's hands.  The invariant says how the parts are    *)
(* ordered relative to each other, that the scheduler's mutex keeps the    *)
(* producer out meanwhile, and that a task the producer has yet to enqueue *)
(* is younger than all that are queued.                                    *)
(***************************************************************************)

\* Where a worker holds the scheduler's strategy_mutex_.
Held == {"drain", "restore"}

\* Where the producer has created a task and not yet enqueued it.
Unqueued == {"acquire", "scan", "read", "reserve", "credit", "schedule"}

\* The youngest task that may be in a queue.
Youngest == IF pc[Producer] \in Unqueued THEN generated - 1 ELSE generated

UpTo(seq, n) == \A i \in DOMAIN seq : seq[i] <= n
Before(s, t) == \A i \in DOMAIN s, j \in DOMAIN t : s[i] < t[j]

InOrder(e) ==
  /\ wpc[e] \in Held <=> schedMutex = e
  /\ wpc[e] \notin Held => scratch[e] = <<>>
  /\ Increasing(queue[e]) /\ Increasing(scratch[e])
  /\ wpc[e] = "drain" => Before(scratch[e], queue[e])
  /\ wpc[e] = "restore" => Before(queue[e], scratch[e])
  /\ UpTo(queue[e], Youngest) /\ UpTo(scratch[e], Youngest)

QueuesInOrder == \A e \in Nodes : InOrder(e)

-----------------------------------------------------------------------------
(* Increasing sequences. *)

\* The elements of a tail are the ones after the head.
LEMMA TailElements ==
  ASSUME NEW s \in Seq(Tasks), s # <<>>
  PROVE  /\ Head(s) = s[1] /\ 1 \in DOMAIN s /\ DOMAIN s = 1..Len(s)
         /\ Tail(s) \in Seq(Tasks)
         /\ \A i \in DOMAIN Tail(s) : i \in Nat /\ i + 1 \in DOMAIN s
                                      /\ Tail(s)[i] = s[i + 1] /\ i + 1 > 1
BY DEF Tasks

\* Appending adds one element at the end.
LEMMA AppendElements ==
  ASSUME NEW s \in Seq(Tasks), NEW t \in Tasks
  PROVE  /\ Append(s, t) \in Seq(Tasks)
         /\ \A i \in DOMAIN Append(s, t) :
              \/ i \in DOMAIN s /\ Append(s, t)[i] = s[i]
              \/ i = Len(s) + 1 /\ Append(s, t)[i] = t
         /\ DOMAIN s = 1..Len(s) /\ Len(s) \in Nat
BY AppendProperties

\* Removing the head of an increasing sequence keeps it increasing, and the
\* head is before the rest.
LEMMA TailOrder ==
  ASSUME NEW s \in Seq(Tasks), s # <<>>, Increasing(s)
  PROVE  /\ Increasing(Tail(s))
         /\ \A i \in DOMAIN Tail(s) : Head(s) < Tail(s)[i]
         /\ \A i \in DOMAIN Tail(s) : \E j \in DOMAIN s : Tail(s)[i] = s[j]
<1>1. ASSUME NEW i \in DOMAIN Tail(s), NEW j \in DOMAIN Tail(s), i < j
      PROVE  Tail(s)[i] < Tail(s)[j]
  <2>1. /\ i + 1 \in DOMAIN s /\ j + 1 \in DOMAIN s /\ i + 1 < j + 1
        /\ Tail(s)[i] = s[i + 1] /\ Tail(s)[j] = s[j + 1]
    BY <1>1, TailElements
  <2> QED
    BY <2>1 DEF Increasing
<1>2. ASSUME NEW i \in DOMAIN Tail(s)
      PROVE  Head(s) < Tail(s)[i] /\ \E j \in DOMAIN s : Tail(s)[i] = s[j]
  <2>1. /\ i + 1 \in DOMAIN s /\ 1 \in DOMAIN s /\ 1 < i + 1
        /\ Tail(s)[i] = s[i + 1] /\ Head(s) = s[1]
    BY <1>2, TailElements
  <2> QED
    BY <2>1 DEF Increasing
<1> QED
  BY <1>1, <1>2 DEF Increasing

\* Appending an element after all others keeps a sequence increasing.
LEMMA AppendOrder ==
  ASSUME NEW s \in Seq(Tasks), NEW t \in Tasks, Increasing(s),
         \A i \in DOMAIN s : s[i] < t
  PROVE  Increasing(Append(s, t))
<1> SUFFICES ASSUME NEW i \in DOMAIN Append(s, t), NEW j \in DOMAIN Append(s, t), i < j
             PROVE  Append(s, t)[i] < Append(s, t)[j]
  BY DEF Increasing
<1>1. i \in DOMAIN s /\ Append(s, t)[i] = s[i]
  BY AppendElements
<1> QED
  BY <1>1, AppendElements DEF Increasing

\* A sequence without its position m.
Without(s, m) == SubSeq(s, 1, m - 1) \o SubSeq(s, m + 1, Len(s))

\* Arithmetic of the positions.
LEMMA Shift ==
  ASSUME NEW n \in Int, NEW m \in Int
  PROVE  /\ n - (m + 1) + 1 = n - m /\ m - 1 - 1 + 1 = m - 1
         /\ \A i \in Int : m + 1 + i - 1 = m + i /\ 1 + i - 1 = i
         /\ (m - 1) + (n - m) = n - 1
         /\ m <= n => (IF m + 1 <= n THEN n - m ELSE 0) = n - m
         /\ 1 <= m => (IF 1 <= m - 1 THEN m - 1 ELSE 0) = m - 1
OBVIOUS

\* The elements of the part before position m and of the part after it.
LEMMA Parts ==
  ASSUME NEW s \in Seq(Tasks), NEW n \in Nat, n = Len(s),
         NEW m \in Int, 1 <= m, m <= n
  PROVE  /\ SubSeq(s, 1, m - 1) \in Seq(Tasks) /\ SubSeq(s, m + 1, n) \in Seq(Tasks)
         /\ Len(SubSeq(s, 1, m - 1)) = m - 1 /\ Len(SubSeq(s, m + 1, n)) = n - m
         /\ \A i \in 1..(m - 1) : SubSeq(s, 1, m - 1)[i] = s[i]
         /\ \A i \in 1..(n - m) : SubSeq(s, m + 1, n)[i] = s[m + i]
<1> DEFINE a == SubSeq(s, 1, m - 1)
           b == SubSeq(s, m + 1, n)
<1>1. \A i \in 1..n : s[i] \in Tasks
  OBVIOUS
<1>2. /\ a \in Seq(Tasks) /\ Len(a) = IF 1 <= m - 1 THEN m - 1 - 1 + 1 ELSE 0
      /\ \A i \in 1..(m - 1 - 1 + 1) : a[i] = s[1 + i - 1]
  <2>1. \A i \in 1..(m - 1) : s[i] \in Tasks
    BY <1>1
  <2> QED
    BY <2>1, SubSeqProperties
<1>3. /\ b \in Seq(Tasks) /\ Len(b) = IF m + 1 <= n THEN n - (m + 1) + 1 ELSE 0
      /\ \A i \in 1..(n - (m + 1) + 1) : b[i] = s[m + 1 + i - 1]
  <2>1. \A i \in (m + 1)..n : s[i] \in Tasks
    BY <1>1
  <2> QED
    BY <2>1, SubSeqProperties
<1> HIDE DEF a, b
<1>4. Len(a) = m - 1 /\ \A i \in 1..(m - 1) : a[i] = s[i]
  BY <1>2, Shift
<1>5. Len(b) = n - m /\ \A i \in 1..(n - m) : b[i] = s[m + i]
  BY <1>3, Shift
<1> QED
  BY <1>2, <1>3, <1>4, <1>5 DEF a, b

\* Position i of what is left is position i or i + 1 of the original.
LEMMA WithoutElements ==
  ASSUME NEW s \in Seq(Tasks), NEW n \in Nat, n = Len(s),
         NEW m \in Int, 1 <= m, m <= n
  PROVE  /\ DOMAIN Without(s, m) = 1..(n - 1)
         /\ \A i \in 1..(n - 1) :
              Without(s, m)[i] = s[IF i < m THEN i ELSE i + 1]
<1> DEFINE a == SubSeq(s, 1, m - 1)
           b == SubSeq(s, m + 1, n)
           r == a \o b
<1>1. /\ a \in Seq(Tasks) /\ b \in Seq(Tasks)
      /\ Len(a) = m - 1 /\ Len(b) = n - m
      /\ \A i \in 1..(m - 1) : a[i] = s[i]
      /\ \A i \in 1..(n - m) : b[i] = s[m + i]
  BY Parts
<1>2. Without(s, m) = r
  BY DEF Without
<1> HIDE DEF a, b
<1>3. /\ r \in Seq(Tasks) /\ Len(r) = Len(a) + Len(b)
      /\ \A i \in 1..(Len(a) + Len(b)) :
           r[i] = IF i <= Len(a) THEN a[i] ELSE b[i - Len(a)]
  BY <1>1, ConcatProperties
<1> HIDE DEF r
<1>4. Len(a) + Len(b) = n - 1
  BY <1>1, Shift
<1>5. DOMAIN r = 1..(n - 1)
  BY <1>3, <1>4
<1>6. \A i \in 1..(n - 1) : r[i] = IF i <= m - 1 THEN a[i] ELSE b[i - (m - 1)]
  BY <1>1, <1>3, <1>4
<1>7. ASSUME NEW i \in 1..(n - 1)
      PROVE  r[i] = s[IF i < m THEN i ELSE i + 1]
  <2>1. CASE i < m
    <3>1. i \in 1..(m - 1) /\ i <= m - 1
      BY <2>1
    <3> QED
      BY <1>1, <1>6, <2>1, <3>1
  <2>2. CASE ~(i < m)
    <3>1. i - (m - 1) \in 1..(n - m) /\ ~(i <= m - 1) /\ m + (i - (m - 1)) = i + 1
      BY <2>2
    <3>2. b[i - (m - 1)] = s[i + 1]
      BY <1>1, <3>1
    <3> QED
      BY <1>6, <2>2, <3>1, <3>2
  <2> QED
    BY <2>1, <2>2
<1> QED
  BY <1>2, <1>5, <1>7

\* Taking one position out keeps a sequence increasing.
LEMMA WithoutOrder ==
  ASSUME NEW s \in Seq(Tasks), Increasing(s), NEW m \in DOMAIN s
  PROVE  /\ Increasing(Without(s, m))
         /\ \A i \in DOMAIN Without(s, m) : \E j \in DOMAIN s : Without(s, m)[i] = s[j]
<1>1. PICK n \in Nat : n = Len(s) /\ DOMAIN s = 1..n
  OBVIOUS
<1>2. m \in Int /\ 1 <= m /\ m <= n
  BY <1>1
<1> DEFINE r == Without(s, m)
           at(i) == IF i < m THEN i ELSE i + 1
<1>3. DOMAIN r = 1..(n - 1) /\ \A i \in 1..(n - 1) : r[i] = s[at(i)]
  BY <1>1, <1>2, WithoutElements
<1> HIDE DEF r
<1>4. ASSUME NEW i \in DOMAIN r
      PROVE  at(i) \in DOMAIN s /\ r[i] = s[at(i)]
  BY <1>1, <1>2, <1>3, <1>4
<1>5. ASSUME NEW i \in DOMAIN r, NEW j \in DOMAIN r, i < j
      PROVE  r[i] < r[j]
  <2>1. i \in Int /\ j \in Int
    BY <1>3
  <2>2. at(i) < at(j)
    BY <1>2, <1>5, <2>1
  <2> HIDE DEF at
  <2> QED
    BY <1>4, <2>2 DEF Increasing
<1> HIDE DEF at
<1>6. Increasing(r) /\ \A i \in DOMAIN r : \E j \in DOMAIN s : r[i] = s[j]
  BY <1>4, <1>5 DEF Increasing
<1> QED
  BY <1>6 DEF r

-----------------------------------------------------------------------------
(* The runtime. *)

\* Initially every queue is empty.
LEMMA OrderInit == Init => QueuesInOrder
<1> SUFFICES ASSUME Init, NEW e \in Nodes PROVE InOrder(e)
  BY DEF QueuesInOrder
<1>1. queue[e] = <<>> /\ scratch[e] = <<>> /\ wpc[e] = "idle" /\ schedMutex = NoNode
  BY DEF Init
<1>2. schedMutex # e
  BY <1>1, NodeAssumption DEF NoNode, Nodes
<1> QED
  BY <1>1, <1>2 DEF InOrder, Held, Increasing, Before, UpTo

\* Steps that leave queues and buffers alone and take no lock.
LEMMA QuietOrder ==
  ASSUME TypeOK, QueuesInOrder, UNCHANGED <<queue, scratch, schedMutex>>,
         Youngest \in Int, Youngest' \in Int, Youngest <= Youngest',
         \A e \in Nodes : \/ wpc'[e] = wpc[e]
                          \/ wpc[e] \notin Held /\ wpc'[e] \notin Held
  PROVE  QueuesInOrder'
<1> SUFFICES ASSUME NEW e \in Nodes PROVE InOrder(e)'
  BY DEF QueuesInOrder
<1>1. InOrder(e)
  BY DEF QueuesInOrder
<1>2. queue[e] \in Seq(Tasks) /\ scratch[e] \in Seq(Tasks)
  BY DEF TypeOK, EdgeTypeOK, WorkerTypeOK
<1>3. UpTo(queue[e], Youngest') /\ UpTo(scratch[e], Youngest')
  <2>1. ASSUME NEW s \in Seq(Tasks), UpTo(s, Youngest)
        PROVE  UpTo(s, Youngest')
    <3>1. \A i \in DOMAIN s : s[i] \in Tasks
      OBVIOUS
    <3>2. \A i \in DOMAIN s : s[i] \in Int
      BY <3>1 DEF Tasks
    <3> QED
      BY <2>1, <3>2 DEF UpTo
  <2> QED
    BY <1>1, <1>2, <2>1 DEF InOrder
<1>4. /\ wpc'[e] \in Held <=> wpc[e] \in Held
      /\ wpc'[e] \in Held => wpc'[e] = wpc[e]
  OBVIOUS
<1> QED
  BY <1>1, <1>3, <1>4 DEF InOrder, Held

\* A worker in getNextTask keeps the order.
LEMMA FetchOrder ==
  ASSUME TypeOK, QueuesInOrder, NEW e \in Nodes, FetchStep(e)
  PROVE  QueuesInOrder'
<1> DEFINE q == queue[e]
           s == scratch[e]
<1>0. /\ q \in Seq(Tasks) /\ s \in Seq(Tasks) /\ InOrder(e)
      /\ queue \in [Nodes -> Seq(Tasks)] /\ scratch \in [Nodes -> Seq(Tasks)]
      /\ wpc \in [Nodes -> WorkerPcs]
      /\ NoNode \notin Nodes
  BY NodeAssumption DEF TypeOK, EdgeTypeOK, WorkerTypeOK, QueuesInOrder, NoNode, Nodes
<1>1. Youngest' = Youngest
  BY DEF FetchStep, threadVars, Youngest
<1>2. ASSUME InOrder(e)', \A f \in Nodes : f # e => /\ queue'[f] = queue[f]
                                                    /\ scratch'[f] = scratch[f]
                                                    /\ wpc'[f] = wpc[f]
                                                    /\ schedMutex' = f <=> schedMutex = f
      PROVE  QueuesInOrder'
  BY <1>1, <1>2 DEF QueuesInOrder, InOrder
<1>3. CASE CheckRunning(e) \/ FetchNothing(e)
  <2>1. InOrder(e)'
    BY <1>0, <1>1, <1>3 DEF CheckRunning, FetchNothing, GotoWorker, InOrder, Held
  <2> QED
    BY <1>0, <1>2, <1>3, <2>1 DEF CheckRunning, FetchNothing, GotoWorker
<1>4. CASE DequeueFifo(e)
  <2>1. /\ wpc[e] = "fetch" /\ wpc'[e] = "start" /\ q # <<>> /\ queue'[e] = Tail(q)
        /\ schedMutex' = schedMutex /\ scratch'[e] = s
    BY <1>0, <1>4 DEF DequeueFifo, GotoWorker
  <2>2. Increasing(Tail(q)) /\ UpTo(Tail(q), Youngest)
    BY <1>0, <2>1, TailOrder DEF InOrder, UpTo
  <2>3. InOrder(e)'
    BY <1>0, <1>1, <2>1, <2>2 DEF InOrder, Held
  <2> QED
    BY <1>0, <1>2, <1>4, <2>3 DEF DequeueFifo, GotoWorker
<1>5. CASE BeginDrain(e)
  <2>1. /\ wpc[e] = "fetch" /\ wpc'[e] = "drain" /\ queue'[e] = q /\ scratch'[e] = s
        /\ schedMutex = NoNode /\ schedMutex' = e
    BY <1>0, <1>5 DEF BeginDrain, GotoWorker
  <2>2. InOrder(e)'
    BY <1>0, <1>1, <2>1 DEF InOrder, Held, Before
  <2> QED
    BY <1>0, <1>2, <1>5, <2>1, <2>2 DEF BeginDrain, GotoWorker
<1>6. CASE DrainOne(e)
  <2>1. /\ wpc[e] = "drain" /\ wpc'[e] = "drain" /\ q # <<>> /\ queue'[e] = Tail(q)
        /\ scratch'[e] = Append(s, Head(q)) /\ schedMutex' = schedMutex
    BY <1>0, <1>6 DEF DrainOne
  <2>2. /\ Increasing(q) /\ Increasing(s) /\ Before(s, q)
        /\ UpTo(q, Youngest) /\ UpTo(s, Youngest)
    BY <1>0, <2>1 DEF InOrder
  <2>3. Head(q) \in Tasks /\ Head(q) = q[1] /\ 1 \in DOMAIN q
    BY <1>0, <2>1, TailElements
  <2>4. Increasing(Tail(q)) /\ UpTo(Tail(q), Youngest)
    BY <1>0, <2>1, <2>2, TailOrder DEF UpTo
  <2>5. Increasing(Append(s, Head(q)))
    BY <1>0, <2>2, <2>3, AppendOrder DEF Before
  <2>6. UpTo(Append(s, Head(q)), Youngest)
    BY <1>0, <2>2, <2>3, AppendElements DEF UpTo
  <2>7. Before(Append(s, Head(q)), Tail(q))
    BY <1>0, <2>1, <2>2, <2>3, AppendElements, TailOrder DEF Before
  <2>8. InOrder(e)'
    BY <1>0, <1>1, <2>1, <2>4, <2>5, <2>6, <2>7 DEF InOrder, Held
  <2> QED
    BY <1>0, <1>2, <1>6, <2>8 DEF DrainOne
<1>7. CASE SelectTask(e)
  <2>1. PICK k \in DOMAIN s : scratch' = [scratch EXCEPT ![e] = Without(s, k)]
    BY <1>7 DEF SelectTask, Without
  <2>2. /\ wpc[e] = "drain" /\ wpc'[e] = "restore" /\ q = <<>> /\ queue' = queue
        /\ schedMutex' = schedMutex
    BY <1>0, <1>7 DEF SelectTask, GotoWorker
  <2>3. Increasing(Without(s, k)) /\ UpTo(Without(s, k), Youngest)
    BY <1>0, WithoutOrder DEF InOrder, UpTo
  <2>4. scratch'[e] = Without(s, k) /\ queue'[e] = <<>>
    BY <1>0, <2>1, <2>2
  <2>5. InOrder(e)'
    BY <1>0, <1>1, <2>2, <2>3, <2>4 DEF InOrder, Held, Before, Increasing, UpTo
  <2> QED
    BY <1>0, <1>2, <1>7, <2>1, <2>2, <2>5 DEF SelectTask, GotoWorker
<1>8. CASE RestoreOne(e)
  <2>1. /\ wpc[e] = "restore" /\ wpc'[e] = "restore" /\ s # <<>>
        /\ scratch'[e] = Tail(s) /\ queue'[e] = Append(q, Head(s))
        /\ schedMutex' = schedMutex
    BY <1>0, <1>8 DEF RestoreOne
  <2>2. /\ Increasing(q) /\ Increasing(s) /\ Before(q, s)
        /\ UpTo(q, Youngest) /\ UpTo(s, Youngest)
    BY <1>0, <2>1 DEF InOrder
  <2>3. Head(s) \in Tasks /\ Head(s) = s[1] /\ 1 \in DOMAIN s
    BY <1>0, <2>1, TailElements
  <2>4. Increasing(Tail(s)) /\ UpTo(Tail(s), Youngest)
    BY <1>0, <2>1, <2>2, TailOrder DEF UpTo
  <2>5. Increasing(Append(q, Head(s)))
    BY <1>0, <2>2, <2>3, AppendOrder DEF Before
  <2>6. UpTo(Append(q, Head(s)), Youngest)
    BY <1>0, <2>2, <2>3, AppendElements DEF UpTo
  <2>7. Before(Append(q, Head(s)), Tail(s))
    BY <1>0, <2>1, <2>2, <2>3, AppendElements, TailOrder DEF Before
  <2>8. InOrder(e)'
    BY <1>0, <1>1, <2>1, <2>4, <2>5, <2>6, <2>7 DEF InOrder, Held
  <2> QED
    BY <1>0, <1>2, <1>8, <2>8 DEF RestoreOne
<1>9. CASE ReturnTask(e)
  <2>1. /\ wpc[e] = "restore" /\ wpc'[e] = "start" /\ s = <<>> /\ queue'[e] = q
        /\ scratch'[e] = s /\ schedMutex' = NoNode /\ schedMutex = e
    BY <1>0, <1>9 DEF ReturnTask, GotoWorker, InOrder, Held
  <2>2. InOrder(e)'
    BY <1>0, <1>1, <2>1 DEF InOrder, Held
  <2> QED
    BY <1>0, <1>2, <1>9, <2>1, <2>2 DEF ReturnTask, GotoWorker
<1> QED
  BY <1>3, <1>4, <1>5, <1>6, <1>7, <1>8, <1>9 DEF FetchStep

\* scheduleTask waits for the scheduler's mutex, so every queue is whole, and
\* appends the youngest task.
LEMMA EnqueueOrder ==
  ASSUME TypeOK, Bounded, QueuesInOrder, CommitStep, ScheduleTask
  PROVE  QueuesInOrder'
<1>0. /\ queue \in [Nodes -> Seq(Tasks)] /\ scratch \in [Nodes -> Seq(Tasks)]
      /\ Producer \in Threads /\ pc \in [Threads -> ThreadPcs]
      /\ assigned \in [Tasks -> Nodes \cup {NoNode}] /\ NoNode \notin Nodes
  BY NodeAssumption DEF TypeOK, EdgeTypeOK, WorkerTypeOK, TaskTypeOK, ThreadTypeOK,
     Threads, NoNode, Nodes
<1>1. /\ pc[Producer] = "schedule" /\ pc'[Producer] = "saveAllocation"
      /\ generated' = generated /\ schedMutex = NoNode
      /\ UNCHANGED <<schedMutex, scratch, wpc>>
  BY <1>0 DEF CommitStep, ScheduleTask, Goto, workVars
<1>2. generated \in Tasks /\ generated \in Int
  BY <1>1 DEF Bounded, Critical, Tasks
<1>3. Youngest = generated - 1 /\ Youngest' = generated
  BY <1>1 DEF Youngest, Unqueued
<1> SUFFICES ASSUME NEW e \in Nodes PROVE InOrder(e)'
  BY DEF QueuesInOrder
<1>4. InOrder(e) /\ wpc[e] \notin Held /\ scratch[e] = <<>> /\ queue[e] \in Seq(Tasks)
  BY <1>0, <1>1 DEF QueuesInOrder, InOrder
<1>5. \A i \in DOMAIN queue[e] : queue[e][i] \in Int /\ queue[e][i] <= generated - 1
  <2>1. \A i \in DOMAIN queue[e] : queue[e][i] \in Tasks
    BY <1>4
  <2> QED
    BY <1>3, <1>4, <2>1 DEF InOrder, UpTo, Tasks
<1>6. \A i \in DOMAIN queue[e] : queue[e][i] < generated /\ queue[e][i] <= generated
  BY <1>2, <1>5
<1>7. queue'[e] = queue[e] \/ queue'[e] = Append(queue[e], generated)
  BY <1>0 DEF ScheduleTask
<1>8. Increasing(queue'[e]) /\ UpTo(queue'[e], generated)
  <2>1. CASE queue'[e] = queue[e]
    BY <1>4, <1>6, <2>1 DEF InOrder, UpTo
  <2>2. CASE queue'[e] = Append(queue[e], generated)
    <3>1. Increasing(Append(queue[e], generated))
      BY <1>2, <1>4, <1>6, AppendOrder DEF InOrder
    <3>2. generated <= generated
      BY <1>2
    <3>3. UpTo(Append(queue[e], generated), generated)
      BY <1>2, <1>4, <1>6, <3>2, AppendElements DEF UpTo
    <3> QED
      BY <2>2, <3>1, <3>3
  <2> QED
    BY <1>7, <2>1, <2>2
<1> QED
  BY <1>0, <1>1, <1>3, <1>4, <1>8 DEF InOrder, Held, UpTo, Increasing

\* Every step keeps the order.
LEMMA OrderStep ==
  ASSUME PlacementInv, QueuesInOrder, [Next]_vars
  PROVE  QueuesInOrder'
<1>0. /\ TypeOK /\ Bounded /\ generated \in Int
      /\ pc \in [Threads -> ThreadPcs] /\ wpc \in [Nodes -> WorkerPcs]
      /\ Producer \in Threads /\ \A c \in Clients : c \in Threads /\ c # Producer
  BY RuntimeAssumption DEF PlacementInv, TypeOK, ThreadTypeOK, WorkerTypeOK, ScanTypeOK,
     Threads
<1>1. Youngest \in Int /\ Youngest <= Youngest
  BY <1>0 DEF Youngest
<1>2. ASSUME UNCHANGED <<queue, scratch, schedMutex, wpc>>,
             Youngest' \in Int, Youngest <= Youngest'
      PROVE  QueuesInOrder'
  BY <1>0, <1>1, <1>2, QuietOrder
<1>3. ASSUME NEW p \in Threads, ConfigureStep(p)
      PROVE  QueuesInOrder'
  <2>1. UNCHANGED <<queue, scratch, schedMutex, wpc, generated>>
    BY <1>3 DEF ConfigureStep, edgeVars, workVars
  <2>2. pc'[Producer] \in Unqueued <=> pc[Producer] \in Unqueued
    BY <1>0, <1>3 DEF ConfigureStep, ReadLoad, Recommend, SetAllocation, SetScheduling,
       Goto, Unqueued
  <2>3. Youngest' = Youngest
    BY <2>1, <2>2 DEF Youngest
  <2> QED
    BY <1>1, <1>2, <2>1, <2>3
<1>4. ASSUME NEW c \in Clients, ClientCall(c) \/ ApplyStep(c)
      PROVE  QueuesInOrder'
  <2>1. UNCHANGED <<queue, scratch, schedMutex, wpc, generated>>
    BY <1>4 DEF ClientCall, ApplyStep, edgeVars, workVars, schedVars
  <2>2. pc'[Producer] = pc[Producer]
    BY <1>0, <1>4 DEF ClientCall, ApplyStep, RequestAutomatic, RequestManual,
       ApplyAutomatic, ApplyManual, ApplyManualScheduling, Goto
  <2>3. Youngest' = Youngest
    BY <2>1, <2>2 DEF Youngest
  <2> QED
    BY <1>1, <1>2, <2>1, <2>3
<1>5. ASSUME LoopStep
      PROVE  QueuesInOrder'
  <2>1. UNCHANGED <<queue, scratch, schedMutex, wpc>>
    BY <1>5 DEF LoopStep, edgeVars, workVars, schedVars
  <2>2. Youngest' = Youngest
    <3>1. CASE Generate
      <4>1. /\ pc[Producer] = "generate" /\ pc'[Producer] = "acquire"
            /\ generated' = generated + 1
        BY <1>0, <3>1 DEF Generate, Goto
      <4>2. Youngest = generated
        BY <4>1 DEF Youngest, Unqueued
      <4>3. Youngest' = generated' - 1
        BY <4>1 DEF Youngest, Unqueued
      <4> QED
        BY <1>0, <4>1, <4>2, <4>3
    <3>2. CASE BeginIteration \/ LeaveLoop \/ AcquireConfiguration
      BY <1>0, <3>2 DEF BeginIteration, LeaveLoop, AcquireConfiguration, Goto, Youngest,
         Unqueued
    <3> QED
      BY <1>5, <3>1, <3>2 DEF LoopStep
  <2> QED
    BY <1>1, <1>2, <2>1, <2>2
<1>6. ASSUME ScanStep
      PROVE  QueuesInOrder'
  <2>1. UNCHANGED <<queue, scratch, schedMutex, wpc, generated>>
    BY <1>6 DEF ScanStep, edgeVars, workVars, schedVars
  <2>2. pc[Producer] \in Unqueued
    BY <1>6 DEF ScanStep, ScanEdge, RetryAllocation, GiveUpAllocation, RankViable,
       ReadEdge, Unqueued
  <2>3. Youngest' \in Int /\ Youngest <= Youngest'
    BY <1>0, <2>1, <2>2 DEF Youngest
  <2> QED
    BY <1>2, <2>1, <2>3
<1>7. ASSUME CommitStep
      PROVE  QueuesInOrder'
  <2>1. CASE ScheduleTask
    BY <1>0, <1>7, <2>1, EnqueueOrder
  <2>2. CASE ReserveEdge \/ CreditAllocation \/ SaveAllocation \/ SaveAllocationFailure
    <3>1. UNCHANGED <<queue, scratch, schedMutex, wpc, generated>>
      BY <1>7, <2>2 DEF CommitStep, ReserveEdge, CreditAllocation, SaveAllocation,
         SaveAllocationFailure, edgeVars, workVars
    <3>2. pc'[Producer] \in Unqueued <=> pc[Producer] \in Unqueued
      BY <1>0, <2>2 DEF ReserveEdge, CreditAllocation, SaveAllocation,
         SaveAllocationFailure, Goto, Unqueued
    <3>3. Youngest' = Youngest
      BY <3>1, <3>2 DEF Youngest
    <3> QED
      BY <1>1, <1>2, <3>1, <3>3
  <2> QED
    BY <1>7, <2>1, <2>2 DEF CommitStep
<1>8. ASSUME DrainStep
      PROVE  QueuesInOrder'
  <2>1. UNCHANGED <<queue, scratch, schedMutex, wpc, generated>>
    BY <1>8 DEF DrainStep, edgeVars, workVars, schedVars
  <2>2. pc'[Producer] \in Unqueued <=> pc[Producer] \in Unqueued
    BY <1>0, <1>8 DEF DrainStep, DrainPoll, DrainStillActive, DrainDone, DrainGiveUp,
       CompleteProcessing, Goto, Unqueued
  <2>3. Youngest' = Youngest
    BY <2>1, <2>2 DEF Youngest
  <2> QED
    BY <1>1, <1>2, <2>1, <2>3
<1>9. ASSUME NEW e \in Nodes, FetchStep(e)
      PROVE  QueuesInOrder'
  BY <1>0, <1>9, FetchOrder
<1>10. ASSUME NEW e \in Nodes, ExecuteStep(e)
       PROVE  QueuesInOrder'
  <2>1. UNCHANGED <<queue, scratch, schedMutex, generated, pc>>
    BY <1>10 DEF ExecuteStep, schedVars, threadVars
  <2>2. \A f \in Nodes : \/ wpc'[f] = wpc[f]
                         \/ wpc[f] \notin Held /\ wpc'[f] \notin Held
    BY <1>0, <1>10 DEF ExecuteStep, StartTask, ActivateTask, FinishTask,
       ReleaseResources, CountExecution, RecordExecution, GotoWorker, Held
  <2>3. Youngest' = Youngest
    BY <2>1 DEF Youngest
  <2> QED
    BY <1>0, <1>1, <2>1, <2>2, <2>3, QuietOrder
<1>11. ASSUME StopStep \/ UNCHANGED vars
       PROVE  QueuesInOrder'
  <2>1. UNCHANGED <<queue, scratch, schedMutex, wpc, generated, pc>>
    BY <1>11 DEF StopStep, vars, edgeVars, schedVars, workVars, threadVars
  <2>2. Youngest' = Youngest
    BY <2>1 DEF Youngest
  <2> QED
    BY <1>1, <1>2, <2>1, <2>2
<1> QED
  BY <1>3, <1>4, <1>5, <1>6, <1>7, <1>8, <1>9, <1>10, <1>11, NextCases

\* Whatever the policy and however often it is switched, emptying a queue and
\* refilling it keeps the tasks that were not selected in arrival order, and
\* no task arrives in between.
THEOREM ArrivalOrderKept == Spec => []QueueInArrivalOrder
<1>1. QueuesInOrder /\ PlacementInv /\ [Next]_vars => QueuesInOrder'
  BY OrderStep
<1>2. QueuesInOrder => QueueInArrivalOrder
  BY DEF QueuesInOrder, InOrder, QueueInArrivalOrder
<1> QED
  BY <1>1, <1>2, OrderInit, PlacementInvariance, PTL DEF Spec
=============================================================================
