----------------------- MODULE ResourceControlProofs -------------------------
(***************************************************************************)
(* Type correctness and capacity of the resource controller, for any       *)
(* fleet, any tasks and any number of threads that place tasks.            *)
(***************************************************************************)
EXTENDS ResourceControl, EdgeNodeProofs

\* A thread that places or schedules a task holds one; a thread that handles
\* a failure has a node; a worker that executes has a task.
Locals ==
  /\ \A p \in Threads :
       /\ pc[p] \in {"allocate", "scan", "locate", "schedule"} => job[p] \in Tasks
       /\ pc[p] \in {"lookup", "drain", "take"} => subject[p] \in Nodes
       /\ pc[p] # "check" => subject[p] \in Nodes \cup {NoNode}
       /\ pc[p] = "check" => subject[p] # NoNode
  /\ \A e \in Nodes : wpc[e] = "run" => hand[e] \in Tasks
  /\ subject[Controller] = NoNode

\* getViableEdges runs under strategy_mutex_.
Exclusive == \A p \in Threads : pc[p] = "scan" => allocMutex = p

\* What getViableEdges found to fit still fits, without background load.
ViableFits ==
  \A p \in Threads : pc[p] = "scan" =>
    \A e \in viable, d \in Dims \ FluctuatingDims :
      usage[e][d] + TaskNeed[job[p]][d] <= Capacity[e][d]

Placing == Exclusive /\ ViableFits /\ CapacityKept

ControlInv == ControlTypeOK /\ Locals /\ Placing

\* The initial state satisfies the invariant.
LEMMA InitControl == Init => ControlInv
<1> SUFFICES ASSUME Init PROVE ControlInv
  OBVIOUS
<1>1. ControlTypeOK
  <2>1. avail \in [Nodes -> BOOLEAN] /\ running \in BOOLEAN
    BY Zenon DEF Init
  <2>2. /\ usage \in [Nodes -> Resources]
        /\ queue \in [Nodes -> Seq(Tasks \cup {NoTask})] /\ pending \in Seq(Tasks)
        /\ scratch \in [Nodes -> Seq(Tasks \cup {NoTask})]
        /\ hand \in [Nodes -> Tasks \cup {NoTask}]
        /\ wpc \in [Nodes -> WorkerLabels] /\ schedMutex \in Nodes \cup {NoNode}
    BY DEF Init, Resources, NoUsage, WorkerLabels
  <2>3. /\ nodesMutex \in Callers \cup {Free} /\ allocMutex \in Threads \cup {Free}
        /\ viable \in SUBSET Nodes /\ drained \in SUBSET (Nodes \X Tasks)
    BY DEF Init
  <2>4. /\ cursor \in 1..NodeCount + 1 /\ created \in 0..TaskCount
        /\ checks \in 0..MaxChecks
    BY NodeAssumption, ControlAssumption DEF Init
  <2>5. /\ status \in [Tasks -> Statuses]
        /\ assigned \in [Tasks -> Nodes \cup {NoNode}]
    BY DEF Init, Statuses
  <2>6. /\ pc \in [Threads -> Labels]
        /\ job \in [Threads -> Tasks \cup {NoTask}]
        /\ subject \in [Threads -> 0..NodeCount + 1]
    BY NodeAssumption DEF Init, Labels, NoNode
  <2> QED
    BY <2>1, <2>2, <2>3, <2>4, <2>5, <2>6 DEF ControlTypeOK
<1>2. Locals /\ Exclusive /\ ViableFits
  BY ControlAssumption DEF Init, Locals, Exclusive, ViableFits, Threads
<1>3. CapacityKept
  BY NodeAssumption DEF Init, CapacityKept, NoUsage, Resources
<1> QED
  BY <1>1, <1>2, <1>3 DEF ControlInv, Placing

\* What canAllocate says of the dimensions without background load.
LEMMA CanAllocateFits ==
  ASSUME NEW a, NEW cap \in Resources, NEW use \in Resources, NEW req \in Resources,
         CanAllocate(a, cap, use, req)
  PROVE  \A d \in Dims : use[d] + req[d] <= cap[d]
<1>1. \A d \in Dims : cap[d] - use[d] >= req[d]
  BY Zenon DEF CanAllocate
<1> QED
  BY <1>1 DEF Resources

\* A reservation and a release map resource vectors to resource vectors, and
\* a release adds nothing.
LEMMA ResourceSteps ==
  ASSUME NEW use \in Resources, NEW req \in Resources
  PROVE  /\ AllocateResources(use, req) \in Resources
         /\ DeallocateResources(use, req) \in Resources
         /\ \A d \in Dims : DeallocateResources(use, req)[d] <= use[d]
<1>1. AllocateResources(use, req) \in Resources
  BY DEF AllocateResources, Resources
<1>2. /\ DeallocateResources(use, req) \in Resources
      /\ \A d \in Dims : DeallocateResources(use, req)[d] <= use[d]
  BY DEF DeallocateResources, Resources
<1> QED
  BY <1>1, <1>2

\* A fluctuation keeps to resource vectors and moves no bandwidth.
LEMMA FluctuationStep ==
  ASSUME NEW use \in Resources, NEW cap \in Resources,
         NEW delta \in [FluctuatingDims -> Int]
  PROVE  /\ SimulateResourceFluctuation(use, cap, delta) \in Resources
         /\ \A d \in Dims \ FluctuatingDims :
              SimulateResourceFluctuation(use, cap, delta)[d] = use[d]
<1>1. \A d \in FluctuatingDims : Clamp(use[d] + delta[d], 0, cap[d]) \in Nat
  BY DEF Clamp, Resources, FluctuatingDims, Dims
<1> QED
  BY <1>1 DEF SimulateResourceFluctuation, Resources

\* No step outside allocateTask endangers a placement in progress: it lets
\* nobody into the scan, and only returns resources.
LEMMA OthersKeepPlacing ==
  ASSUME ControlTypeOK, Placing, UNCHANGED allocVars,
         usage' \in [Nodes -> Resources],
         \A e \in Nodes, d \in Dims \ FluctuatingDims : usage'[e][d] <= usage[e][d],
         \A p \in Threads : pc'[p] = "scan" => pc[p] = "scan" /\ job'[p] = job[p],
         \A p \in Threads : pc[p] = "scan" => job[p] \in Tasks
  PROVE  Placing'
<1>1. Exclusive'
  BY DEF Placing, Exclusive, allocVars
<1>2. ViableFits'
  <2> SUFFICES ASSUME NEW p \in Threads, pc'[p] = "scan",
                      NEW e \in viable, NEW d \in Dims \ FluctuatingDims
               PROVE  usage'[e][d] + TaskNeed[job'[p]][d] <= Capacity[e][d]
    BY DEF ViableFits, allocVars
  <2>1. usage[e][d] + TaskNeed[job[p]][d] <= Capacity[e][d]
    BY DEF Placing, ViableFits
  <2>2. /\ e \in Nodes /\ job[p] \in Tasks /\ job'[p] = job[p]
        /\ usage'[e][d] <= usage[e][d]
    BY DEF ControlTypeOK
  <2>3. /\ usage[e][d] \in Nat /\ usage'[e][d] \in Nat
        /\ TaskNeed[job[p]][d] \in Nat /\ Capacity[e][d] \in Nat
    BY <2>2, NodeAssumption, ControlAssumption DEF ControlTypeOK, Resources
  <2> QED
    BY <2>1, <2>2, <2>3
<1>3. CapacityKept'
  <2> SUFFICES ASSUME NEW e \in Nodes, NEW d \in Dims \ FluctuatingDims
               PROVE  usage'[e][d] <= Capacity[e][d]
    BY DEF CapacityKept
  <2>1. usage[e][d] <= Capacity[e][d]
    BY DEF Placing, CapacityKept
  <2>2. usage[e][d] \in Nat /\ usage'[e][d] \in Nat /\ Capacity[e][d] \in Nat
    BY NodeAssumption DEF ControlTypeOK, Resources
  <2> QED
    BY <2>1, <2>2
<1> QED
  BY <1>1, <1>2, <1>3 DEF Placing

-----------------------------------------------------------------------------

\* allocateTask locks before it scans.
LEMMA BeginAllocationKeeps ==
  ASSUME ControlInv, NEW p \in Threads, BeginAllocation(p), AllocationStep(p)
  PROVE  ControlInv'
<1>1. /\ pc[p] = "allocate" /\ allocMutex = Free /\ allocMutex' = p
      /\ cursor' = 1 /\ viable' = {}
      /\ pc' = [pc EXCEPT ![p] = "scan"]
      /\ UNCHANGED <<usage, queue, status, assigned, job, subject, avail, workVars,
                     nodesMutex, created, pending, running, checks, drained>>
  BY DEF BeginAllocation, AllocationStep, Goto, taskVars
<1>2. ControlTypeOK'
  BY <1>1, NodeAssumption DEF ControlInv, ControlTypeOK, Labels, workVars
<1>3. Locals'
  BY <1>1 DEF ControlInv, ControlTypeOK, Locals, workVars
<1>4. Exclusive'
  BY <1>1, ControlAssumption DEF ControlInv, ControlTypeOK, Placing, Exclusive
<1>5. ViableFits' /\ CapacityKept'
  BY <1>1 DEF ControlInv, Placing, ViableFits, CapacityKept
<1> QED
  BY <1>2, <1>3, <1>4, <1>5 DEF ControlInv, Placing

\* A node joins the viable ones only if the task fits.
LEMMA ScanEdgeKeeps ==
  ASSUME ControlInv, NEW p \in Threads, ScanEdge(p), AllocationStep(p)
  PROVE  ControlInv'
<1> DEFINE Fits == CanAllocate(avail[cursor], Capacity[cursor], usage[cursor],
                               TaskNeed[job[p]])
<1>1. /\ pc[p] = "scan" /\ cursor <= NodeCount
      /\ viable' = IF Fits THEN viable \cup {cursor} ELSE viable
      /\ cursor' = cursor + 1
      /\ UNCHANGED <<usage, queue, status, assigned, allocMutex, pc, job, subject,
                     avail, workVars, nodesMutex, created, pending, running, checks,
                     drained>>
  BY DEF ScanEdge, AllocationStep, taskVars
<1>2. cursor \in Nodes /\ job[p] \in Tasks
  BY <1>1, NodeAssumption DEF ControlInv, ControlTypeOK, Locals, Nodes
<1>3. ControlTypeOK'
  <2>1. cursor' \in 1..NodeCount + 1 /\ viable' \in SUBSET Nodes
    BY <1>1, <1>2, NodeAssumption DEF ControlInv, ControlTypeOK, Nodes
  <2> QED
    BY <1>1, <2>1 DEF ControlInv, ControlTypeOK, workVars
<1>4. Locals' /\ Exclusive' /\ CapacityKept'
  BY <1>1 DEF ControlInv, Locals, Placing, Exclusive, CapacityKept, workVars
<1>5. ViableFits'
  <2>1. Fits => \A d \in Dims :
          usage[cursor][d] + TaskNeed[job[p]][d] <= Capacity[cursor][d]
    BY <1>2, CanAllocateFits, NodeAssumption, ControlAssumption
    DEF ControlInv, ControlTypeOK, workVars
  <2>2. \A q \in Threads : pc[q] = "scan" => q = p
    BY <1>1 DEF ControlInv, Placing, Exclusive
  <2> SUFFICES ASSUME NEW e \in viable', NEW d \in Dims \ FluctuatingDims
               PROVE  usage[e][d] + TaskNeed[job[p]][d] <= Capacity[e][d]
    BY <1>1, <2>2 DEF ViableFits
  <2>3. CASE e \in viable
    BY <1>1, <2>3 DEF ControlInv, Placing, ViableFits
  <2>4. CASE Fits /\ e = cursor
    BY <2>1, <2>4
  <2> QED
    BY <1>1, <2>3, <2>4
<1> QED
  BY <1>3, <1>4, <1>5 DEF ControlInv, Placing

\* What was viable at its turn in the scan can be reserved.
LEMMA ReserveEdgeKeeps ==
  ASSUME ControlInv, NEW p \in Threads, ReserveEdge(p), AllocationStep(p)
  PROVE  ControlInv'
<1>1. PICK e \in viable :
        /\ usage' = [usage EXCEPT ![e] = AllocateResources(usage[e], TaskNeed[job[p]])]
        /\ assigned' = [assigned EXCEPT ![job[p]] = e]
  BY DEF ReserveEdge
<1>2. /\ pc[p] = "scan" /\ allocMutex' = Free
      /\ status' = [status EXCEPT ![job[p]] = "QUEUED"]
      /\ cursor' = 1 /\ viable' = {}
      /\ UNCHANGED <<queue, subject, avail, workVars, nodesMutex,
                     created, pending, running, checks, drained>>
  BY DEF ReserveEdge, AllocationStep
<1>3. /\ \/ AfterAllocation(p) = "idle" /\ pc' = [pc EXCEPT ![p] = "locate"] /\ job' = job
         \/ /\ AfterAllocation(p) # "idle"
            /\ pc' = [pc EXCEPT ![p] = AfterAllocation(p)]
            /\ job' = [job EXCEPT ![p] = NoTask]
  BY DEF ReserveEdge, Goto
<1>4. /\ AfterAllocation(p) \in {"metrics", "drain", "idle"}
      /\ AfterAllocation(p) = "drain" => subject[p] # NoNode
  BY DEF AfterAllocation
<1>5. e \in Nodes /\ job[p] \in Tasks /\ subject[p] \in Nodes \cup {NoNode}
  BY <1>1, <1>2 DEF ControlInv, ControlTypeOK, Locals, workVars
<1>6. /\ usage[e] \in Resources /\ TaskNeed[job[p]] \in Resources
      /\ Capacity[e] \in Resources
  BY <1>5, NodeAssumption, ControlAssumption DEF ControlInv, ControlTypeOK, workVars
<1>7. AllocateResources(usage[e], TaskNeed[job[p]]) \in Resources
  BY <1>6, ResourceSteps
<1>8. ControlTypeOK'
  <2>1. usage' \in [Nodes -> Resources] /\ assigned' \in [Tasks -> Nodes \cup {NoNode}]
    BY <1>1, <1>5, <1>7 DEF ControlInv, ControlTypeOK, workVars
  <2>2. status' \in [Tasks -> Statuses]
    BY <1>2, <1>5 DEF ControlInv, ControlTypeOK, Statuses
  <2>3. pc' \in [Threads -> Labels] /\ job' \in [Threads -> Tasks \cup {NoTask}]
    BY <1>3, <1>4 DEF ControlInv, ControlTypeOK, Labels, workVars
  <2>4. cursor' \in 1..NodeCount + 1 /\ viable' \in SUBSET Nodes
    BY <1>2, NodeAssumption
  <2> QED
    BY <1>2, <2>1, <2>2, <2>3, <2>4 DEF ControlInv, ControlTypeOK, workVars
<1>9. /\ \A q \in Threads : q # p => pc'[q] = pc[q] /\ job'[q] = job[q]
      /\ pc'[p] \in {"locate", "metrics", "drain", "idle"}
      /\ pc'[p] = "locate" => job'[p] \in Tasks
      /\ pc'[p] = "drain" => subject[p] \in Nodes
  <2>1. CASE pc' = [pc EXCEPT ![p] = "locate"] /\ job' = job
    BY <2>1, <1>5 DEF ControlInv, ControlTypeOK, workVars
  <2>2. CASE /\ pc' = [pc EXCEPT ![p] = AfterAllocation(p)]
             /\ job' = [job EXCEPT ![p] = NoTask]
    <3>1. pc'[p] = AfterAllocation(p)
      BY <2>2 DEF ControlInv, ControlTypeOK, workVars
    <3> QED
      BY <2>2, <3>1, <1>4, <1>5 DEF ControlInv, ControlTypeOK, workVars
  <2> QED
    BY <1>3, <2>1, <2>2
<1>10. Locals'
  <2>1. Controller \in Threads
    BY DEF Threads
  <2> QED
    BY <1>2, <1>9, <2>1 DEF ControlInv, Locals, workVars
<1>11. Exclusive' /\ ViableFits'
  <2>1. \A q \in Threads : pc'[q] # "scan"
    BY <1>2, <1>9 DEF ControlInv, Placing, Exclusive
  <2> QED
    BY <2>1 DEF Exclusive, ViableFits
<1>12. CapacityKept'
  <2> SUFFICES ASSUME NEW f \in Nodes, NEW d \in Dims \ FluctuatingDims
               PROVE  usage'[f][d] <= Capacity[f][d]
    BY DEF CapacityKept
  <2>1. CASE f # e
    BY <1>1, <2>1 DEF ControlInv, ControlTypeOK, Placing, CapacityKept
  <2>2. CASE f = e
    <3>1. usage'[e] = AllocateResources(usage[e], TaskNeed[job[p]])
      BY <1>1, <1>5 DEF ControlInv, ControlTypeOK, workVars
    <3>2. usage[e][d] + TaskNeed[job[p]][d] <= Capacity[e][d]
      BY <1>1, <1>2 DEF ControlInv, Placing, ViableFits
    <3> QED
      BY <2>2, <3>1, <3>2 DEF AllocateResources
  <2> QED
    BY <2>1, <2>2
<1> QED
  BY <1>8, <1>10, <1>11, <1>12 DEF ControlInv, Placing

\* Without a viable node the attempt ends; scheduleTask enqueues.
LEMMA FailOrScheduleKeeps ==
  ASSUME ControlInv, NEW p \in Threads,
         FailAllocation(p) \/ LocateNode(p) \/ ScheduleTask(p), AllocationStep(p)
  PROVE  ControlInv'
<1>1. Controller \in Threads
  BY DEF Threads
<1>2. CASE FailAllocation(p)
  <2>1. /\ pc[p] = "scan" /\ allocMutex' = Free
        /\ job' = [job EXCEPT ![p] = NoTask]
        /\ pc' = [pc EXCEPT ![p] = AfterAllocation(p)]
        /\ cursor' = 1 /\ viable' = {}
        /\ UNCHANGED <<usage, queue, status, assigned, subject,
                       avail, workVars, nodesMutex, created, pending, running, checks,
                       drained>>
    BY <1>2 DEF FailAllocation, AllocationStep, Goto, taskVars
  <2>2. /\ AfterAllocation(p) \in {"metrics", "drain", "idle"}
        /\ AfterAllocation(p) = "drain" => subject[p] # NoNode
    BY DEF AfterAllocation
  <2>3. ControlTypeOK'
    BY <2>1, <2>2, NodeAssumption DEF ControlInv, ControlTypeOK, Labels, workVars
  <2>4. /\ \A q \in Threads : q # p => pc'[q] = pc[q] /\ job'[q] = job[q]
        /\ pc'[p] = AfterAllocation(p)
    BY <2>1 DEF ControlInv, ControlTypeOK, workVars
  <2>5. Locals'
    BY <1>1, <2>1, <2>2, <2>4 DEF ControlInv, Locals, workVars
  <2>6. \A q \in Threads : pc'[q] # "scan"
    BY <2>1, <2>2, <2>4 DEF ControlInv, Placing, Exclusive
  <2>7. Placing'
    BY <2>1, <2>6 DEF ControlInv, Placing, Exclusive, ViableFits, CapacityKept
  <2> QED
    BY <2>3, <2>5, <2>7 DEF ControlInv
<1>3. CASE ScheduleTask(p)
  <2>1. /\ pc[p] = "schedule"
        /\ status' = [status EXCEPT ![job[p]] = "QUEUED"]
        /\ queue' = [queue EXCEPT ![assigned[job[p]]]
                        = Append(queue[assigned[job[p]]], job[p])]
        /\ job' = [job EXCEPT ![p] = NoTask]
        /\ pc' = [pc EXCEPT ![p] = "idle"]
        /\ UNCHANGED <<usage, assigned, allocMutex, cursor, viable, subject,
                       avail, workVars, nodesMutex, created, pending, running, checks,
                       drained>>
    BY <1>3 DEF ScheduleTask, AllocationStep, Goto, taskVars, allocVars
  <2>2. queue' \in [Nodes -> Seq(Tasks \cup {NoTask})]
    <3> DEFINE a == assigned[job[p]]
    <3>1. job[p] \in Tasks /\ queue \in [Nodes -> Seq(Tasks \cup {NoTask})]
      BY <2>1 DEF ControlInv, ControlTypeOK, Locals, workVars
    <3>2. a \in Nodes => Append(queue[a], job[p]) \in Seq(Tasks \cup {NoTask})
      BY <3>1
    <3>3. queue' = [queue EXCEPT ![a] = Append(queue[a], job[p])]
      BY <2>1
    <3> HIDE DEF a
    <3> QED
      BY <3>1, <3>2, <3>3
  <2>3. ControlTypeOK'
    <3>1. job[p] \in Tasks
      BY <2>1 DEF ControlInv, Locals, workVars
    <3> QED
      BY <2>1, <2>2, <3>1 DEF ControlInv, ControlTypeOK, Labels, Statuses, workVars
  <2>4. /\ \A q \in Threads : q # p => pc'[q] = pc[q] /\ job'[q] = job[q]
        /\ pc'[p] = "idle"
    BY <2>1 DEF ControlInv, ControlTypeOK, workVars
  <2>5. Locals'
    BY <1>1, <2>1, <2>4 DEF ControlInv, Locals, workVars
  <2>6. Placing'
    BY <2>1, <2>4 DEF ControlInv, Placing, Exclusive, ViableFits, CapacityKept
  <2> QED
    BY <2>3, <2>5, <2>6 DEF ControlInv
<1>4. CASE LocateNode(p)
  <2>1. /\ pc[p] = "locate" /\ pc' = [pc EXCEPT ![p] = "schedule"]
        /\ UNCHANGED <<usage, queue, status, assigned, allocMutex, cursor, viable,
                       job, subject, avail, workVars, nodesMutex, created, pending,
                       running, checks, drained>>
    BY <1>4 DEF LocateNode, AllocationStep, Goto, taskVars, allocVars
  <2>2. ControlTypeOK'
    BY <2>1 DEF ControlInv, ControlTypeOK, Labels, workVars
  <2>3. \A q \in Threads : q # p => pc'[q] = pc[q]
    BY <2>1 DEF ControlInv, ControlTypeOK, workVars
  <2>4. pc'[p] = "schedule"
    BY <2>1 DEF ControlInv, ControlTypeOK, workVars
  <2>5. Locals'
    BY <1>1, <2>1, <2>3, <2>4 DEF ControlInv, Locals, workVars
  <2>6. Placing'
    BY <2>1, <2>3, <2>4 DEF ControlInv, Placing, Exclusive, ViableFits, CapacityKept
  <2> QED
    BY <2>2, <2>5, <2>6 DEF ControlInv
<1> QED
  BY <1>2, <1>3, <1>4

\* Every step of allocateTask and of the scheduling after it.
LEMMA AllocationStepKeeps ==
  ASSUME ControlInv, NEW p \in Threads, AllocationStep(p)
  PROVE  ControlInv'
<1>1. \/ BeginAllocation(p) \/ ScanEdge(p) \/ ReserveEdge(p)
      \/ FailAllocation(p) \/ LocateNode(p) \/ ScheduleTask(p)
  BY DEF AllocationStep
<1> QED
  BY <1>1, BeginAllocationKeeps, ScanEdgeKeeps, ReserveEdgeKeeps, FailOrScheduleKeeps

-----------------------------------------------------------------------------

\* createTaskFromSensorData, and a caller that places its own task.
LEMMA CreateStepKeeps ==
  ASSUME ControlInv, NEW c \in Submitters, CreateStep(c)
  PROVE  ControlInv'
<1>1. /\ created < TaskCount /\ created' = created + 1
      /\ status' = [status EXCEPT ![created + 1] = "CREATED"]
      /\ pc[c] = "idle"
      /\ UNCHANGED <<usage, queue, assigned, allocMutex, cursor, viable, subject, avail, workVars,
                     nodesMutex, running, checks, drained>>
  BY DEF CreateStep, CreateTask, SubmitTask, nodeVars, allocVars, threadVars
<1>2. created + 1 \in Tasks /\ c \in Threads /\ Controller \in Threads /\ c # Controller
  BY <1>1, ControlAssumption DEF ControlInv, ControlTypeOK, Tasks, Callers, Threads
<1>3. /\ created' \in 0..TaskCount /\ status' \in [Tasks -> Statuses]
  BY <1>1, <1>2, ControlAssumption DEF ControlInv, ControlTypeOK, Statuses
<1>4. CASE CreateTask(c)
  <2>1. pending' = Append(pending, created + 1) /\ UNCHANGED <<pc, job>>
    BY <1>4 DEF CreateTask, threadVars
  <2>2. pending' \in Seq(Tasks) /\ pending' # <<>>
    BY <1>2, <2>1 DEF ControlInv, ControlTypeOK, workVars
  <2>3. ControlTypeOK'
    BY <1>1, <1>3, <2>1, <2>2 DEF ControlInv, ControlTypeOK, workVars
  <2>4. Locals'
    BY <1>1, <2>1, <2>2 DEF ControlInv, Locals, workVars
  <2>5. Placing'
    BY <1>1, <2>1 DEF ControlInv, Placing, Exclusive, ViableFits, CapacityKept
  <2> QED
    BY <2>3, <2>4, <2>5 DEF ControlInv
<1>5. CASE SubmitTask(c)
  <2>1. /\ job' = [job EXCEPT ![c] = created + 1]
        /\ pc' = [pc EXCEPT ![c] = "allocate"] /\ UNCHANGED pending
    BY <1>5 DEF SubmitTask, Goto
  <2>2. ControlTypeOK'
    BY <1>1, <1>2, <1>3, <2>1 DEF ControlInv, ControlTypeOK, Labels, workVars
  <2>3. /\ \A q \in Threads : q # c => pc'[q] = pc[q] /\ job'[q] = job[q]
        /\ pc'[c] = "allocate" /\ job'[c] \in Tasks
    BY <1>2, <2>1 DEF ControlInv, ControlTypeOK, workVars
  <2>4. Locals'
    BY <1>1, <1>2, <2>1, <2>3 DEF ControlInv, Locals, workVars
  <2>5. Placing'
    BY <1>1, <2>3 DEF ControlInv, Placing, Exclusive, ViableFits, CapacityKept
  <2> QED
    BY <2>2, <2>4, <2>5 DEF ControlInv
<1> QED
  BY <1>4, <1>5 DEF CreateStep

\* processingLoop; the fluctuation of the metrics moves no bandwidth.
LEMMA LoopStepKeeps ==
  ASSUME ControlInv, LoopStep
  PROVE  ControlInv'
<1>1. /\ UNCHANGED <<avail, queue, workVars, nodesMutex, allocVars, created, status,
                     assigned, subject, checks, drained>>
      /\ UNCHANGED running
  BY DEF LoopStep, LoopTest, Fetch, UpdateResourceMetrics, ControlFrame, taskVars
<1>2. UNCHANGED <<allocMutex, cursor, viable>> /\ Controller \in Threads
  BY <1>1 DEF allocVars, Threads
<1>3. CASE LoopTest
  <2>1. /\ pc[Controller] = "loop"
        /\ pc' = [pc EXCEPT ![Controller] = IF running THEN "metrics" ELSE "off"]
        /\ UNCHANGED <<usage, pending, job>>
    BY <1>3 DEF LoopTest, Goto
  <2>2. /\ pc'[Controller] \in {"off", "metrics"}
        /\ \A q \in Threads : q # Controller => pc'[q] = pc[q]
        /\ pc' \in [Threads -> Labels]
    BY <1>2, <2>1 DEF ControlInv, ControlTypeOK, Labels, workVars
  <2>3. ControlTypeOK'
    BY <1>1, <1>2, <2>1, <2>2 DEF ControlInv, ControlTypeOK, workVars
  <2>4. Locals'
    BY <1>1, <2>1, <2>2 DEF ControlInv, Locals, workVars
  <2>5. Placing'
    BY <1>2, <2>1, <2>2 DEF ControlInv, Placing, Exclusive, ViableFits, CapacityKept
  <2> QED
    BY <2>3, <2>4, <2>5 DEF ControlInv
<1>4. CASE Fetch
  <2>1. /\ pc[Controller] = "loop" /\ pending # <<>>
        /\ job' = [job EXCEPT ![Controller] = Head(pending)]
        /\ pending' = Tail(pending)
        /\ pc' = [pc EXCEPT ![Controller] = "allocate"]
        /\ UNCHANGED usage
    BY <1>4 DEF Fetch, Goto
  <2>2. Head(pending) \in Tasks /\ pending' \in Seq(Tasks)
    BY <2>1 DEF ControlInv, ControlTypeOK, Locals, workVars
  <2>3. /\ pc'[Controller] = "allocate" /\ job'[Controller] \in Tasks
        /\ \A q \in Threads : q # Controller => pc'[q] = pc[q] /\ job'[q] = job[q]
        /\ pc' \in [Threads -> Labels] /\ job' \in [Threads -> Tasks \cup {NoTask}]
    BY <1>2, <2>1, <2>2 DEF ControlInv, ControlTypeOK, Labels, workVars
  <2>4. ControlTypeOK'
    BY <1>1, <1>2, <2>1, <2>2, <2>3 DEF ControlInv, ControlTypeOK, workVars
  <2>5. Locals'
    BY <1>1, <2>1, <2>3 DEF ControlInv, Locals, workVars
  <2>6. Placing'
    BY <1>2, <2>1, <2>3 DEF ControlInv, Placing, Exclusive, ViableFits, CapacityKept
  <2> QED
    BY <2>4, <2>5, <2>6 DEF ControlInv
<1>5. CASE UpdateResourceMetrics
  <2>1. PICK delta \in Fluctuations :
          usage' = [e \in Nodes |->
                      IF avail[e]
                      THEN SimulateResourceFluctuation(usage[e], Capacity[e], delta[e])
                      ELSE usage[e]]
    BY <1>5 DEF UpdateResourceMetrics
  <2>2. /\ pc[Controller] = "metrics" /\ pc' = [pc EXCEPT ![Controller] = "loop"]
        /\ UNCHANGED <<pending, job>>
    BY <1>5 DEF UpdateResourceMetrics, Goto
  <2>3. ASSUME NEW e \in Nodes
        PROVE  /\ usage'[e] \in Resources
               /\ \A d \in Dims \ FluctuatingDims : usage'[e][d] = usage[e][d]
    <3>1. usage[e] \in Resources /\ Capacity[e] \in Resources
      BY NodeAssumption DEF ControlInv, ControlTypeOK, workVars
    <3>2. delta[e] \in [FluctuatingDims -> Int]
      BY <2>1, ControlAssumption
    <3>3. CASE avail[e]
      <4>1. usage'[e] = SimulateResourceFluctuation(usage[e], Capacity[e], delta[e])
        BY <2>1, <3>3, Zenon
      <4>2. /\ SimulateResourceFluctuation(usage[e], Capacity[e], delta[e]) \in Resources
            /\ \A d \in Dims \ FluctuatingDims :
                 SimulateResourceFluctuation(usage[e], Capacity[e], delta[e])[d] = usage[e][d]
        BY <3>1, <3>2, FluctuationStep, Zenon
      <4> QED
        BY <4>1, <4>2, Zenon
    <3>4. CASE ~avail[e]
      <4>1. usage'[e] = usage[e]
        BY <2>1, <3>4, Zenon
      <4> QED
        BY <3>1, <4>1
    <3> QED
      BY <3>3, <3>4, Zenon
  <2>4. usage' \in [Nodes -> Resources]
    BY <2>1, <2>3, Zenon
  <2>5. /\ pc'[Controller] = "loop" /\ pc' \in [Threads -> Labels]
        /\ \A q \in Threads : q # Controller => pc'[q] = pc[q]
    BY <1>2, <2>2 DEF ControlInv, ControlTypeOK, Labels, workVars
  <2>6. ControlTypeOK'
    BY <1>1, <1>2, <2>2, <2>4, <2>5 DEF ControlInv, ControlTypeOK, workVars
  <2>7. Locals'
    BY <1>1, <2>2, <2>5 DEF ControlInv, Locals, workVars
  <2>8. \A e \in Nodes, d \in Dims \ FluctuatingDims : usage'[e][d] <= usage[e][d]
    BY <2>3 DEF ControlInv, ControlTypeOK, Resources
  <2>9. /\ \A p \in Threads : pc'[p] = "scan" => pc[p] = "scan" /\ job'[p] = job[p]
        /\ \A p \in Threads : pc[p] = "scan" => job[p] \in Tasks
    BY <2>2, <2>5 DEF ControlInv, Locals, workVars
  <2>10. Placing'
    BY <1>1, <2>4, <2>8, <2>9, OthersKeepPlacing DEF ControlInv
  <2> QED
    BY <2>6, <2>7, <2>10 DEF ControlInv
<1> QED
  BY <1>3, <1>4, <1>5 DEF LoopStep

\* start(), stop() and its join move one program counter.
LEMMA StartJoinKeeps ==
  ASSUME ControlInv, NEW c \in Callers, StartStep(c) \/ JoinStep(c)
  PROVE  ControlInv'
<1>1. /\ UNCHANGED <<avail, queue, workVars, nodesMutex, allocVars, created, status,
                     assigned, subject, checks, drained>>
      /\ UNCHANGED <<usage, pending, job>>
  BY DEF StartStep, JoinStep, Start, Stop, Join, ControlFrame, taskVars
<1>2. UNCHANGED <<allocMutex, cursor, viable>> /\ Controller \in Threads /\ c \in Threads
  BY <1>1 DEF allocVars, Threads
<1>3. PICK q \in Threads, l \in {"loop", "joining", "idle"} :
        /\ pc' = [pc EXCEPT ![q] = l]
        /\ pc[q] \notin {"check", "scan"} \/ q = Controller
        /\ running' \in BOOLEAN
  <2>1. CASE StartStep(c) /\ Start(c)
    BY <1>2, <2>1, Zenon DEF Start, Goto
  <2>2. CASE StartStep(c) /\ Stop(c)
    BY <1>2, <2>2, Zenon DEF Stop, Goto
  <2>3. CASE JoinStep(c)
    BY <1>2, <2>3, Zenon DEF JoinStep, Join, Goto, ControlInv, ControlTypeOK
  <2> QED
    BY <2>1, <2>2, <2>3 DEF StartStep
<1>4. /\ pc'[q] = l /\ pc' \in [Threads -> Labels]
      /\ \A p \in Threads : p # q => pc'[p] = pc[p]
  BY <1>3 DEF ControlInv, ControlTypeOK, Labels, workVars
<1>5. ControlTypeOK'
  BY <1>1, <1>2, <1>3, <1>4 DEF ControlInv, ControlTypeOK, workVars
<1>6. subject[q] \in Nodes \cup {NoNode}
  BY <1>2, <1>3 DEF ControlInv, Locals, workVars
<1>7. Locals'
  BY <1>1, <1>2, <1>3, <1>4, <1>6 DEF ControlInv, Locals, workVars
<1>8. Placing'
  BY <1>1, <1>2, <1>3, <1>4
  DEF ControlInv, Placing, Exclusive, ViableFits, CapacityKept
<1> QED
  BY <1>5, <1>7, <1>8 DEF ControlInv

\* The calls of the monitor.
LEMMA MonitorCallKeeps ==
  ASSUME ControlInv, NEW c \in Operators, MonitorCall(c)
  PROVE  ControlInv'
<1>1. /\ UNCHANGED <<usage, queue, workVars, allocMutex, cursor, viable, created, pending,
                     status, assigned, running, drained>>
      /\ UNCHANGED job /\ pc[c] = "idle"
  BY DEF MonitorCall, SimulateNodeFailure, RecoverNodeFromFailure, BeginHealthCheck,
         allocVars, taskVars, threadVars
<1>2. c \in Callers /\ c \in Threads /\ Controller \in Threads /\ c # Controller
  BY ControlAssumption DEF Callers, Threads
<1>3. PICK n \in Nodes \cup {NoNode}, l \in {"lookup", "idle", "check"} :
        /\ pc' = [pc EXCEPT ![c] = l] /\ subject' = [subject EXCEPT ![c] = n]
        /\ l \in {"lookup", "check"} => n \in Nodes
  <2>1. CASE SimulateNodeFailure(c)
    BY <2>1 DEF SimulateNodeFailure, Goto
  <2>2. CASE RecoverNodeFromFailure(c)
    <3>1. pc' = [pc EXCEPT ![c] = "idle"] /\ subject' = [subject EXCEPT ![c] = subject[c]]
      BY <1>1, <1>2, <2>2
      DEF RecoverNodeFromFailure, threadVars, ControlInv, ControlTypeOK
    <3>2. subject[c] \in Nodes \cup {NoNode}
      BY <1>1, <1>2 DEF ControlInv, Locals, workVars
    <3> QED
      BY <3>1, <3>2
  <2>3. CASE BeginHealthCheck(c)
    <3>1. 1 \in Nodes
      BY NodeAssumption DEF Nodes
    <3> QED
      BY <2>3, <3>1 DEF BeginHealthCheck, Goto
  <2> QED
    BY <2>1, <2>2, <2>3 DEF MonitorCall
<1>4. avail' \in [Nodes -> BOOLEAN]
  <2>1. avail \in [Nodes -> BOOLEAN]
    BY DEF ControlInv, ControlTypeOK, workVars
  <2>2. CASE SimulateNodeFailure(c)
    <3>1. PICK e \in Nodes : avail' = [avail EXCEPT ![e] = FALSE]
      BY <2>2, Zenon DEF SimulateNodeFailure
    <3> QED
      BY <2>1, <3>1
  <2>3. CASE RecoverNodeFromFailure(c)
    <3>1. PICK e \in Nodes : avail' = [avail EXCEPT ![e] = TRUE]
      BY <2>3, Zenon DEF RecoverNodeFromFailure
    <3> QED
      BY <2>1, <3>1
  <2>4. CASE BeginHealthCheck(c)
    BY <2>1, <2>4 DEF BeginHealthCheck
  <2> QED
    BY <2>2, <2>3, <2>4 DEF MonitorCall
<1>5. nodesMutex' \in Callers \cup {Free} /\ checks' \in 0..MaxChecks
  BY <1>2, ControlAssumption
  DEF MonitorCall, SimulateNodeFailure, RecoverNodeFromFailure, BeginHealthCheck,
      ControlInv, ControlTypeOK
<1>6. /\ pc' \in [Threads -> Labels] /\ subject' \in [Threads -> 0..NodeCount + 1]
      /\ \A p \in Threads : p # c => pc'[p] = pc[p] /\ subject'[p] = subject[p]
      /\ pc'[c] = l /\ subject'[c] = n
  <2>1. n \in 0..NodeCount + 1
    BY NodeAssumption DEF Nodes, NoNode
  <2> QED
    BY <1>2, <1>3, <2>1 DEF ControlInv, ControlTypeOK, Labels, workVars
<1>7. ControlTypeOK'
  BY <1>1, <1>4, <1>5, <1>6 DEF ControlInv, ControlTypeOK, workVars
<1>8. Locals'
  <2>1. NoNode \notin Nodes
    BY DEF NoNode, Nodes
  <2> QED
    BY <1>1, <1>2, <1>3, <1>6, <2>1 DEF ControlInv, Locals, workVars
<1>9. Placing'
  BY <1>1, <1>3, <1>6 DEF ControlInv, Placing, Exclusive, ViableFits, CapacityKept
<1> QED
  BY <1>7, <1>8, <1>9 DEF ControlInv

\* dequeueTask returns a task or null, and leaves a queue of such.
LEMMA DequeueTypes ==
  ASSUME ControlTypeOK, NEW e \in Nodes
  PROVE  /\ Front(e) \in Tasks \cup {NoTask}
         /\ Dequeue(e) => queue' \in [Nodes -> Seq(Tasks \cup {NoTask})]
<1>1. /\ queue[e] \in Seq(Tasks \cup {NoTask})
      /\ queue \in [Nodes -> Seq(Tasks \cup {NoTask})]
  BY DEF ControlTypeOK
<1>2. Front(e) \in Tasks \cup {NoTask}
  BY <1>1 DEF Front
<1> DEFINE rest == IF queue[e] = <<>> THEN queue[e] ELSE Tail(queue[e])
<1>3. rest \in Seq(Tasks \cup {NoTask})
  BY <1>1
<1>4. Dequeue(e) => queue' = [queue EXCEPT ![e] = rest]
  BY DEF Dequeue
<1> HIDE DEF rest
<1> QED
  BY <1>1, <1>2, <1>3, <1>4

\* The health check's loop and the status callback.
LEMMA HandlerStepKeeps ==
  ASSUME ControlInv, NEW c \in Callers, HandlerStep(c)
  PROVE  ControlInv'
<1>1. UNCHANGED <<avail, usage, workVars, allocMutex, cursor, viable, created, pending,
                  running, checks>>
  BY DEF HandlerStep, allocVars
<1>2. c \in Threads /\ Controller \in Threads /\ c # Controller
  BY ControlAssumption DEF Threads
<1>3. nodesMutex' \in Callers \cup {Free}
  BY DEF HandlerStep, CheckNode, EndHealthCheck, LookUpNode, DrainTest, TakeNothing,
         TakeTask, ControlInv, ControlTypeOK
<1>4. CASE TakeTask(c)
  <2> DEFINE n == subject[c]
             t == Front(n)
  <2>1. /\ pc[c] = "take" /\ t # NoTask
        /\ job' = [job EXCEPT ![c] = t]
        /\ status' = [status EXCEPT ![t] = "REALLOCATED"]
        /\ assigned' = [assigned EXCEPT ![t] = NoNode]
        /\ drained' = drained \cup {<<n, t>>}
        /\ Dequeue(n)
        /\ pc' = [pc EXCEPT ![c] = "allocate"]
        /\ UNCHANGED subject
    BY <1>4 DEF TakeTask, Goto
  <2>2. n \in Nodes
    BY <1>2, <2>1 DEF ControlInv, Locals, workVars
  <2>3. /\ t \in Tasks \cup {NoTask}
        /\ queue' \in [Nodes -> Seq(Tasks \cup {NoTask})]
    BY <2>1, <2>2, DequeueTypes DEF ControlInv
  <2>4. t \in Tasks
    BY <2>1, <2>3
  <2> HIDE DEF n, t
  <2>5. /\ queue' \in [Nodes -> Seq(Tasks \cup {NoTask})]
        /\ status' \in [Tasks -> Statuses]
        /\ assigned' \in [Tasks -> Nodes \cup {NoNode}]
        /\ drained' \in SUBSET (Nodes \X Tasks)
    BY <2>1, <2>2, <2>3, <2>4 DEF ControlInv, ControlTypeOK, Statuses
  <2>6. /\ pc' \in [Threads -> Labels] /\ job' \in [Threads -> Tasks \cup {NoTask}]
        /\ \A p \in Threads : p # c => pc'[p] = pc[p] /\ job'[p] = job[p]
        /\ pc'[c] = "allocate" /\ job'[c] = t
    BY <1>2, <2>1, <2>4 DEF ControlInv, ControlTypeOK, Labels, workVars
  <2>7. ControlTypeOK'
    BY <1>1, <1>3, <2>1, <2>5, <2>6 DEF ControlInv, ControlTypeOK, workVars
  <2>8. Locals'
    BY <1>1, <1>2, <2>1, <2>4, <2>6 DEF ControlInv, Locals, workVars
  <2>9. Placing'
    BY <1>1, <2>6 DEF ControlInv, Placing, Exclusive, ViableFits, CapacityKept
  <2> QED
    BY <2>7, <2>8, <2>9 DEF ControlInv
<1>5. CASE CheckNode(c) \/ EndHealthCheck(c) \/ LookUpNode(c) \/ DrainTest(c) \/ TakeNothing(c)
  <2>1. /\ UNCHANGED <<status, assigned, job, drained>>
        /\ pc[c] \in {"check", "lookup", "drain", "take"}
        /\ queue' = queue \/ (pc[c] = "take" /\ Dequeue(subject[c]))
    BY <1>5 DEF CheckNode, EndHealthCheck, LookUpNode, DrainTest, TakeNothing, taskVars
  <2>2. subject[c] \in 1..NodeCount + 1 /\ (pc[c] # "check" => subject[c] \in Nodes)
    BY <1>2, <2>1, NodeAssumption
    DEF ControlInv, ControlTypeOK, Locals, NoNode, Nodes
  <2>3. PICK n \in 0..NodeCount + 1, l \in {"check", "lookup", "idle", "drain", "take"} :
          /\ pc' = [pc EXCEPT ![c] = l] /\ subject' = [subject EXCEPT ![c] = n]
          /\ l = "check" => n # NoNode
          /\ l # "check" => n \in Nodes \cup {NoNode}
          /\ l \in {"lookup", "drain", "take"} => n \in Nodes
    <3>1. /\ pc = [pc EXCEPT ![c] = pc[c]] /\ subject = [subject EXCEPT ![c] = subject[c]]
      BY <1>2 DEF ControlInv, ControlTypeOK, workVars
    <3>2. CASE CheckNode(c)
      <4>1. /\ pc[c] = "check" /\ subject[c] <= NodeCount
            /\ \/ pc' = pc /\ subject' = [subject EXCEPT ![c] = subject[c] + 1]
               \/ pc' = [pc EXCEPT ![c] = "lookup"] /\ subject' = subject
        BY <3>2 DEF CheckNode, Goto
      <4>2. /\ subject[c] \in Nodes
            /\ subject[c] + 1 \in 0..NodeCount + 1 /\ subject[c] + 1 # NoNode
        BY <2>2, <4>1, NodeAssumption DEF Nodes, NoNode
      <4> QED
        BY <2>2, <3>1, <4>1, <4>2
    <3>3. CASE EndHealthCheck(c)
      <4>1. NoNode \in 0..NodeCount + 1
        BY NodeAssumption DEF NoNode
      <4> QED
        BY <3>3, <4>1 DEF EndHealthCheck, Goto
    <3>4. CASE LookUpNode(c)
      BY <2>2, <3>1, <3>4 DEF LookUpNode, Goto
    <3>5. CASE DrainTest(c)
      <4>1. NoNode \in 0..NodeCount + 1
        BY NodeAssumption DEF NoNode
      <4> QED
        BY <2>2, <3>1, <3>5, <4>1 DEF DrainTest, Goto
    <3>6. CASE TakeNothing(c)
      BY <2>2, <3>1, <3>6 DEF TakeNothing, Goto
    <3> QED
      BY <1>5, <3>2, <3>3, <3>4, <3>5, <3>6
  <2>4. /\ pc' \in [Threads -> Labels] /\ subject' \in [Threads -> 0..NodeCount + 1]
        /\ \A p \in Threads : p # c => pc'[p] = pc[p] /\ subject'[p] = subject[p]
        /\ pc'[c] = l /\ subject'[c] = n
    BY <1>2, <2>3 DEF ControlInv, ControlTypeOK, Labels, workVars
  <2>5. ControlTypeOK'
    <3>1. queue' \in [Nodes -> Seq(Tasks \cup {NoTask})]
      BY <2>1, <2>2, DequeueTypes DEF ControlInv, ControlTypeOK, workVars
    <3> QED
      BY <1>1, <1>3, <2>1, <2>4, <3>1 DEF ControlInv, ControlTypeOK, workVars
  <2>6. Locals'
    BY <1>1, <1>2, <2>1, <2>3, <2>4 DEF ControlInv, Locals, workVars
  <2>7. Placing'
    BY <1>1, <2>1, <2>3, <2>4 DEF ControlInv, Placing, Exclusive, ViableFits, CapacityKept
  <2> QED
    BY <2>5, <2>6, <2>7 DEF ControlInv
<1> QED
  BY <1>4, <1>5 DEF HandlerStep

\* What getNextTask returns goes into the worker's hands.
LEMMA ReturnTypes ==
  ASSUME ControlTypeOK, NEW e \in Nodes, NEW t \in Tasks \cup {NoTask},
         ReturnTask(e, t)
  PROVE  /\ hand' \in [Nodes -> Tasks \cup {NoTask}] /\ hand'[e] = t
         /\ wpc' \in [Nodes -> WorkerLabels] /\ status' \in [Tasks -> Statuses]
         /\ schedMutex' = NoNode
         /\ \A f \in Nodes : f # e => wpc'[f] = wpc[f] /\ hand'[f] = hand[f]
         /\ wpc'[e] = "run" => t \in Tasks
<1>1. /\ hand' = [hand EXCEPT ![e] = t] /\ schedMutex' = NoNode
      /\ \/ t = NoTask /\ wpc' = [wpc EXCEPT ![e] = "idle"] /\ status' = status
         \/ /\ t # NoTask /\ wpc' = [wpc EXCEPT ![e] = "run"]
            /\ status' = [status EXCEPT ![t] = "RUNNING"]
  BY DEF ReturnTask, GotoWorker
<1> QED
  BY <1>1 DEF ControlTypeOK, WorkerLabels, Statuses

\* The position selected is a task or a null, as is what remains.
LEMMA SelectTypes ==
  ASSUME NEW S, NEW s \in Seq(S), NEW k \in DOMAIN s
  PROVE  s[k] \in S /\ SubSeq(s, 1, k - 1) \o SubSeq(s, k + 1, Len(s)) \in Seq(S)
<1>1. k \in 1..Len(s) /\ s[k] \in S
  OBVIOUS
<1>2. SubSeq(s, 1, k - 1) \in Seq(S) /\ SubSeq(s, k + 1, Len(s)) \in Seq(S)
  BY <1>1
<1> QED
  BY <1>1, <1>2

\* The steps of getNextTask before it returns keep to their types and leave
\* the status of every task alone.
LEMMA FetchTypes ==
  ASSUME ControlTypeOK, NEW e \in Nodes,
         \/ BeginFetch(e) \/ DrainQueue(e) \/ PullTask(e) \/ SelectTask(e)
         \/ CompareNull(e) \/ RestoreOne(e)
  PROVE  /\ queue' \in [Nodes -> Seq(Tasks \cup {NoTask})]
         /\ scratch' \in [Nodes -> Seq(Tasks \cup {NoTask})]
         /\ hand' \in [Nodes -> Tasks \cup {NoTask}]
         /\ wpc' \in [Nodes -> WorkerLabels] /\ schedMutex' \in Nodes \cup {NoNode}
         /\ \A f \in Nodes : f # e => wpc'[f] = wpc[f] /\ hand'[f] = hand[f]
         /\ wpc'[e] # "run"
         /\ UNCHANGED <<usage, status>>
<1>1. /\ queue[e] \in Seq(Tasks \cup {NoTask}) /\ scratch[e] \in Seq(Tasks \cup {NoTask})
      /\ Front(e) \in Tasks \cup {NoTask}
  BY DequeueTypes DEF ControlTypeOK
<1>2. CASE BeginFetch(e)
  <2>1. PICK l \in {"fifo", "drain"} : wpc' = [wpc EXCEPT ![e] = l]
    BY <1>2 DEF BeginFetch, GotoWorker
  <2> QED
    BY <1>2, <2>1 DEF BeginFetch, ControlTypeOK, WorkerLabels
<1>3. CASE DrainQueue(e) \/ CompareNull(e)
  BY <1>3 DEF DrainQueue, CompareNull, GotoWorker, ControlTypeOK, WorkerLabels
<1>4. CASE PullTask(e)
  <2>1. queue' \in [Nodes -> Seq(Tasks \cup {NoTask})]
    BY <1>4, DequeueTypes DEF PullTask
  <2>2. Append(scratch[e], Front(e)) \in Seq(Tasks \cup {NoTask})
    BY <1>1
  <2>3. scratch' = [scratch EXCEPT ![e] = Append(scratch[e], Front(e))]
    BY <1>4 DEF PullTask
  <2>4. scratch' \in [Nodes -> Seq(Tasks \cup {NoTask})]
    BY <2>2, <2>3 DEF ControlTypeOK
  <2>5. wpc' = [wpc EXCEPT ![e] = "drain"] /\ UNCHANGED <<usage, status, hand, schedMutex>>
    BY <1>4 DEF PullTask, GotoWorker
  <2> QED
    BY <2>1, <2>4, <2>5 DEF ControlTypeOK, WorkerLabels
<1>5. CASE SelectTask(e)
  <2> DEFINE s == scratch[e]
  <2>1. PICK k \in DOMAIN s :
          /\ hand' = [hand EXCEPT ![e] = s[k]]
          /\ scratch' = [scratch EXCEPT ![e] =
                           SubSeq(s, 1, k - 1) \o SubSeq(s, k + 1, Len(s))]
    BY <1>5 DEF SelectTask
  <2>2. /\ s[k] \in Tasks \cup {NoTask}
        /\ SubSeq(s, 1, k - 1) \o SubSeq(s, k + 1, Len(s)) \in Seq(Tasks \cup {NoTask})
    BY <1>1, SelectTypes
  <2> HIDE DEF s
  <2>3. /\ scratch' \in [Nodes -> Seq(Tasks \cup {NoTask})]
        /\ hand' \in [Nodes -> Tasks \cup {NoTask}]
        /\ \A f \in Nodes : f # e => hand'[f] = hand[f]
    BY <2>1, <2>2 DEF ControlTypeOK
  <2>4. /\ wpc' = [wpc EXCEPT ![e] = "restore"]
        /\ UNCHANGED <<usage, queue, status, schedMutex>>
    BY <1>5 DEF SelectTask, GotoWorker
  <2> QED
    BY <2>3, <2>4 DEF ControlTypeOK, WorkerLabels
<1>6. CASE RestoreOne(e)
  <2> DEFINE q == Append(queue[e], Head(scratch[e]))
             s == Tail(scratch[e])
  <2>1. /\ wpc[e] = "restore" /\ scratch[e] # <<>>
        /\ queue' = [queue EXCEPT ![e] = q] /\ scratch' = [scratch EXCEPT ![e] = s]
        /\ UNCHANGED <<usage, status, wpc, hand, schedMutex>>
    BY <1>6 DEF RestoreOne
  <2>2. q \in Seq(Tasks \cup {NoTask}) /\ s \in Seq(Tasks \cup {NoTask})
    BY <1>1, <2>1
  <2> HIDE DEF q, s
  <2> QED
    BY <2>1, <2>2 DEF ControlTypeOK
<1> QED
  BY <1>2, <1>3, <1>4, <1>5, <1>6

\* The worker of a node only returns resources.
LEMMA WorkerStepKeeps ==
  ASSUME ControlInv, NEW e \in Nodes, WorkerStep(e)
  PROVE  ControlInv'
<1>1. /\ UNCHANGED <<avail, nodesMutex, allocVars, created, pending, assigned, running,
                     pc, job, subject, checks, drained>>
      /\ UNCHANGED <<allocMutex, cursor, viable>>
  BY DEF WorkerStep, threadVars, allocVars
<1>2. /\ \A p \in Threads : pc'[p] = "scan" => pc[p] = "scan" /\ job'[p] = job[p]
      /\ \A p \in Threads : pc[p] = "scan" => job[p] \in Tasks
      /\ ControlTypeOK /\ Placing
  BY <1>1 DEF ControlInv, Locals
<1>3. SUFFICES /\ queue' \in [Nodes -> Seq(Tasks \cup {NoTask})]
               /\ scratch' \in [Nodes -> Seq(Tasks \cup {NoTask})]
               /\ hand' \in [Nodes -> Tasks \cup {NoTask}]
               /\ wpc' \in [Nodes -> WorkerLabels] /\ schedMutex' \in Nodes \cup {NoNode}
               /\ status' \in [Tasks -> Statuses]
               /\ usage' \in [Nodes -> Resources]
               /\ \A f \in Nodes, d \in Dims \ FluctuatingDims : usage'[f][d] <= usage[f][d]
               /\ \A f \in Nodes : wpc'[f] = "run" => hand'[f] \in Tasks
  <2>1. ASSUME /\ queue' \in [Nodes -> Seq(Tasks \cup {NoTask})]
               /\ scratch' \in [Nodes -> Seq(Tasks \cup {NoTask})]
               /\ hand' \in [Nodes -> Tasks \cup {NoTask}]
               /\ wpc' \in [Nodes -> WorkerLabels] /\ schedMutex' \in Nodes \cup {NoNode}
               /\ status' \in [Tasks -> Statuses]
               /\ usage' \in [Nodes -> Resources]
               /\ \A f \in Nodes, d \in Dims \ FluctuatingDims : usage'[f][d] <= usage[f][d]
               /\ \A f \in Nodes : wpc'[f] = "run" => hand'[f] \in Tasks
        PROVE  ControlInv'
    <3>1. ControlTypeOK'
      BY <1>1, <1>2, <2>1 DEF ControlTypeOK
    <3>2. Locals'
      BY <1>1, <2>1 DEF ControlInv, Locals
    <3>3. Placing'
      BY <1>1, <1>2, <2>1, OthersKeepPlacing
    <3> QED
      BY <3>1, <3>2, <3>3 DEF ControlInv
  <2> QED
    BY <2>1
<1>4. \A f \in Nodes : wpc[f] = "run" => hand[f] \in Tasks
  BY DEF ControlInv, Locals
<1>5. usage' = usage => /\ usage' \in [Nodes -> Resources]
                        /\ \A f \in Nodes, d \in Dims \ FluctuatingDims :
                             usage'[f][d] <= usage[f][d]
  BY <1>2 DEF ControlTypeOK, Resources
<1>6. CASE \/ BeginFetch(e) \/ DrainQueue(e) \/ PullTask(e) \/ SelectTask(e)
           \/ CompareNull(e) \/ RestoreOne(e)
  BY <1>2, <1>4, <1>5, <1>6, FetchTypes DEF ControlTypeOK
<1>7. CASE DequeueFifo(e) \/ DrainedNothing(e) \/ EndRestore(e)
  <2>1. /\ usage' = usage /\ scratch' = scratch
        /\ queue' = queue \/ Dequeue(e)
        /\ ReturnTask(e, Front(e)) \/ ReturnTask(e, NoTask) \/ ReturnTask(e, hand[e])
    BY <1>7 DEF DequeueFifo, DrainedNothing, EndRestore
  <2>2. PICK t \in Tasks \cup {NoTask} : ReturnTask(e, t)
    BY <1>2, <2>1, DequeueTypes DEF ControlTypeOK
  <2>3. queue' \in [Nodes -> Seq(Tasks \cup {NoTask})]
    BY <1>2, <2>1, DequeueTypes DEF ControlTypeOK
  <2> QED
    BY <1>2, <1>4, <1>5, <2>1, <2>2, <2>3, ReturnTypes DEF ControlTypeOK
<1>8. CASE FinishTask(e)
  <2>1. /\ hand[e] \in Tasks
        /\ status' = [status EXCEPT ![hand[e]] = "FINISHED"]
        /\ usage' = [usage EXCEPT ![e] = DeallocateResources(usage[e], TaskNeed[hand[e]])]
        /\ hand' = [hand EXCEPT ![e] = NoTask] /\ wpc' = [wpc EXCEPT ![e] = "idle"]
        /\ UNCHANGED <<queue, scratch, schedMutex>>
    BY <1>4, <1>8 DEF FinishTask, GotoWorker
  <2>2. /\ DeallocateResources(usage[e], TaskNeed[hand[e]]) \in Resources
        /\ \A d \in Dims : DeallocateResources(usage[e], TaskNeed[hand[e]])[d] <= usage[e][d]
    BY <1>2, <2>1, ResourceSteps, ControlAssumption DEF ControlTypeOK
  <2>3. usage' \in [Nodes -> Resources]
    BY <1>2, <2>1, <2>2 DEF ControlTypeOK
  <2>4. ASSUME NEW f \in Nodes, NEW d \in Dims \ FluctuatingDims
        PROVE  usage'[f][d] <= usage[f][d]
    <3>1. CASE f = e
      <4>1. usage'[e] = DeallocateResources(usage[e], TaskNeed[hand[e]])
        BY <1>2, <2>1 DEF ControlTypeOK
      <4> QED
        BY <2>2, <3>1, <4>1
    <3>2. CASE f # e
      <4>1. usage'[f] = usage[f] /\ usage[f][d] \in Nat
        BY <1>2, <2>1, <3>2 DEF ControlTypeOK, Resources
      <4> QED
        BY <4>1
    <3> QED
      BY <3>1, <3>2
  <2>5. /\ status' \in [Tasks -> Statuses] /\ hand' \in [Nodes -> Tasks \cup {NoTask}]
        /\ wpc' \in [Nodes -> WorkerLabels]
        /\ \A f \in Nodes : wpc'[f] = "run" => hand'[f] \in Tasks
    BY <1>2, <1>4, <2>1 DEF ControlTypeOK, Statuses, WorkerLabels
  <2> QED
    BY <1>2, <2>1, <2>3, <2>4, <2>5 DEF ControlTypeOK
<1> QED
  BY <1>6, <1>7, <1>8 DEF WorkerStep

-----------------------------------------------------------------------------

\* The invariant holds in every reachable state.
THEOREM ControlInvariance == Spec => []ControlInv
<1>1. ControlInv /\ UNCHANGED vars => ControlInv'
  BY DEF ControlInv, ControlTypeOK, Locals, Placing, Exclusive, ViableFits,
         CapacityKept, vars, nodeVars, workVars, allocVars, taskVars, threadVars
<1>2. ASSUME ControlInv, Next PROVE ControlInv'
  <2>2. ASSUME NEW p \in Threads, ThreadStep(p) PROVE ControlInv'
    BY <1>2, <2>2, AllocationStepKeeps, LoopStepKeeps, HandlerStepKeeps, StartJoinKeeps
    DEF ThreadStep
  <2>3. ASSUME NEW c \in Submitters, CreateStep(c) PROVE ControlInv'
    BY <1>2, <2>3, CreateStepKeeps
  <2>1. ASSUME NEW c \in Owners, StartStep(c) PROVE ControlInv'
    BY <1>2, <2>1, StartJoinKeeps DEF Callers
  <2>4. ASSUME NEW c \in Operators, MonitorCall(c) PROVE ControlInv'
    BY <1>2, <2>4, MonitorCallKeeps
  <2>5. ASSUME NEW e \in Nodes, WorkerStep(e) PROVE ControlInv'
    BY <1>2, <2>5, WorkerStepKeeps
  <2> QED
    BY <1>2, <2>1, <2>2, <2>3, <2>4, <2>5 DEF Next
<1> QED
  BY <1>1, <1>2, InitControl, PTL DEF Spec

\* Every variable of the controller keeps to its type.
THEOREM ControlTypes == Spec => []ControlTypeOK
<1>1. ControlInv => ControlTypeOK
  BY DEF ControlInv
<1> QED
  BY <1>1, ControlInvariance, PTL

\* Concurrent placements never overcommit a resource without background load.
THEOREM ControlCapacity == Spec => []CapacityKept
<1>1. ControlInv => CapacityKept
  BY DEF ControlInv, Placing
<1> QED
  BY <1>1, ControlInvariance, PTL
-----------------------------------------------------------------------------
(***************************************************************************)
(* Each task is in one place, and bandwidth is explained.                  *)
(*                                                                         *)
(* Neither is inductive.  What keeps a task in one place is what its       *)
(* status says about where it can be: a node's queue, its worker's buffer  *)
(* and its worker's hand hold only tasks of that node, in one of the three *)
(* each, and a failure handler that has taken a task never puts it into a  *)
(* queue again.  Only the latter keeps a task from being taken twice from  *)
(* one node, and its bandwidth from leaking twice.                         *)
(***************************************************************************)

In(seq, t) == \E k \in DOMAIN seq : seq[k] = t
\* No task, as opposed to null, is in the sequence twice.
Once(seq) == \A i, j \in DOMAIN seq : seq[i] = seq[j] /\ seq[i] # NoTask => i = j

\* The node or its worker has t.
Has(e, t) == In(queue[e], t) \/ In(scratch[e], t) \/ hand[e] = t

\* No failure handler has taken t.
Undrained(t) == \A e \in Nodes : <<e, t>> \notin drained

\* Where a thread has a task in its hands.
Working == {"allocate", "scan", "locate", "schedule"}

\* A task exists once it is created, and is placed and taken only later.
Unborn == \A t \in Tasks : t > created => status[t] = "ABSENT"
Unplaced ==
  \A t \in Tasks :
    status[t] \in {"ABSENT", "CREATED"} => assigned[t] = NoNode /\ Undrained(t)

JobPlace == \A p \in Threads : job[p] # NoTask => pc[p] \in Working

\* A task that is to be placed is new, or a failure handler has taken it; one
\* that is to be scheduled is new.
JobState ==
  \A p \in Threads :
    /\ pc[p] \in {"allocate", "scan"} =>
         /\ assigned[job[p]] = NoNode
         /\ \/ status[job[p]] = "CREATED"
            \/ status[job[p]] = "REALLOCATED" /\ p # Controller /\ subject[p] # NoNode
    /\ pc[p] \in {"locate", "schedule"} =>
         /\ status[job[p]] = "QUEUED" /\ assigned[job[p]] \in Nodes
         /\ Undrained(job[p])

JobAlone ==
  \A p \in Threads :
    job[p] # NoTask =>
      /\ ~In(pending, job[p]) /\ \A e \in Nodes : ~Has(e, job[p])
      /\ \A q \in Threads : job[q] = job[p] => q = p

Waiting == Once(pending) /\ \A t \in Tasks : In(pending, t) => status[t] = "CREATED"

\* The queue, the buffer and the worker's hand do not share a task.
Separate(e) ==
  /\ Once(queue[e]) /\ Once(scratch[e])
  /\ \A t \in Tasks :
       /\ In(queue[e], t) => ~In(scratch[e], t) /\ hand[e] # t
       /\ In(scratch[e], t) => hand[e] # t

AtNodes ==
  \A e \in Nodes :
    /\ Separate(e)
    /\ \A t \in Tasks : Has(e, t) =>
         /\ assigned[t] = e /\ Undrained(t)
         /\ status[t] = IF wpc[e] = "run" /\ hand[e] = t THEN "RUNNING" ELSE "QUEUED"

PlaceInv ==
  Unborn /\ Unplaced /\ JobPlace /\ JobState /\ JobAlone /\ Waiting /\ AtNodes

\* While nobody joins it and the flag is down, the processing thread is gone.
Parked == ~running /\ NobodyStops => pc[Controller] = "off"

HeldInv == ControlInv /\ PlaceInv /\ Parked

-----------------------------------------------------------------------------
(* Sequences without repetition. *)

\* A sequence has no other elements than its head and those of its tail.
LEMMA TailOnce ==
  ASSUME NEW S, NEW s \in Seq(S), s # <<>>, Once(s)
  PROVE  /\ Head(s) \in S /\ In(s, Head(s)) /\ Once(Tail(s))
         /\ \A t : In(Tail(s), t) => In(s, t) /\ (t = Head(s) => t = NoTask)
<1>1. /\ Len(s) \in Nat /\ 1 \in DOMAIN s /\ Head(s) = s[1] /\ s[1] \in S
      /\ DOMAIN s = 1..Len(s)
      /\ DOMAIN Tail(s) = 1..(Len(s) - 1)
      /\ \A i \in DOMAIN Tail(s) : Tail(s)[i] = s[i + 1]
  OBVIOUS
<1>2. \A i \in DOMAIN Tail(s) : i \in Int /\ i + 1 \in DOMAIN s /\ i + 1 # 1
  BY <1>1
<1>3. \A t : In(Tail(s), t) => In(s, t) /\ (t = Head(s) => t = NoTask)
  BY <1>1, <1>2 DEF In, Once
<1>4. Once(Tail(s))
  BY <1>1, <1>2 DEF Once
<1> QED
  BY <1>1, <1>3, <1>4 DEF In

\* What is appended is the only new element.
LEMMA AppendOnce ==
  ASSUME NEW S, NEW s \in Seq(S), NEW x \in S, Once(s), x # NoTask => ~In(s, x)
  PROVE  Once(Append(s, x)) /\ \A t : In(Append(s, x), t) => In(s, t) \/ t = x
<1>1. /\ Len(s) \in Nat /\ DOMAIN s = 1..Len(s)
      /\ DOMAIN Append(s, x) = 1..(Len(s) + 1)
      /\ \A i \in 1..Len(s) : Append(s, x)[i] = s[i]
      /\ Append(s, x)[Len(s) + 1] = x
  OBVIOUS
<1>2. \A i \in DOMAIN Append(s, x) : i \in DOMAIN s \/ i = Len(s) + 1
  BY <1>1
<1>3. \A i \in DOMAIN s : Append(s, x)[i] = s[i] /\ (x # NoTask => s[i] # x)
  BY <1>1 DEF In
<1>4. Once(Append(s, x))
  <2> SUFFICES ASSUME NEW i \in DOMAIN Append(s, x), NEW j \in DOMAIN Append(s, x),
                      Append(s, x)[i] = Append(s, x)[j], Append(s, x)[i] # NoTask
               PROVE  i = j
    BY DEF Once
  <2>1. CASE i \in DOMAIN s /\ j \in DOMAIN s
    BY <1>3, <2>1 DEF Once
  <2>2. CASE i = Len(s) + 1 \/ j = Len(s) + 1
    BY <1>1, <1>2, <1>3, <2>2
  <2> QED
    BY <1>2, <2>1, <2>2
<1>5. \A t : In(Append(s, x), t) => In(s, t) \/ t = x
  BY <1>1, <1>2, <1>3 DEF In
<1> QED
  BY <1>4, <1>5

\* The elements of a concatenation.
LEMMA JoinAt ==
  ASSUME NEW S, NEW u \in Seq(S), NEW v \in Seq(S)
  PROVE  /\ DOMAIN (u \o v) = 1..(Len(u) + Len(v))
         /\ \A i \in 1..Len(u) : (u \o v)[i] = u[i]
         /\ \A i \in 1..Len(v) : (u \o v)[Len(u) + i] = v[i]
<1>1. Len(u) \in Nat /\ Len(v) \in Nat
  OBVIOUS
<1>2. DOMAIN (u \o v) = 1..(Len(u) + Len(v))
  OBVIOUS
<1>3. \A i \in 1..Len(u) : (u \o v)[i] = u[i]
  BY <1>1
<1>4. ASSUME NEW i \in 1..Len(v) PROVE (u \o v)[Len(u) + i] = v[i]
  <2>1. Len(u) + i \in 1..(Len(u) + Len(v)) /\ ~(Len(u) + i <= Len(u)) /\ Len(u) + i - Len(u) = i
    BY <1>1
  <2> QED
    BY <1>1, <2>1
<1> QED
  BY <1>2, <1>3, <1>4

\* A sequence without its k-th element.
LEMMA CutOnce ==
  ASSUME NEW S, NEW s \in Seq(S), NEW k \in DOMAIN s, Once(s),
         NEW cut, cut = SubSeq(s, 1, k - 1) \o SubSeq(s, k + 1, Len(s))
  PROVE  /\ Once(cut) /\ In(s, s[k])
         /\ \A t : In(cut, t) => In(s, t) /\ (t = s[k] => t = NoTask)
<1> DEFINE at(i) == IF i < k THEN i ELSE i + 1
<1>1. k \in 1..Len(s) /\ k \in Int /\ Len(s) \in Nat /\ DOMAIN s = 1..Len(s)
  OBVIOUS
<1>2. /\ Len(SubSeq(s, 1, k - 1)) = k - 1
      /\ SubSeq(s, 1, k - 1) \in Seq(S)
      /\ \A i \in 1..(k - 1) : SubSeq(s, 1, k - 1)[i] = s[i]
  BY <1>1
<1>3. /\ Len(SubSeq(s, k + 1, Len(s))) = Len(s) - k
      /\ SubSeq(s, k + 1, Len(s)) \in Seq(S)
      /\ \A i \in 1..(Len(s) - k) : SubSeq(s, k + 1, Len(s))[i] = s[k + i]
  <2> DEFINE m == k + 1
             e == Len(s)
  <2>1. m \in Int /\ e \in Int /\ 1 <= m /\ m <= e + 1 /\ e = Len(s) /\ s \in Seq(S)
    BY <1>1
  <2> HIDE DEF m, e
  <2>2. /\ Len(SubSeq(s, m, e)) = e - m + 1
        /\ \A i \in 1..(e - m + 1) : SubSeq(s, m, e)[i] = s[m + i - 1]
    BY <2>1
  <2>3. SubSeq(s, m, e) \in Seq(S)
    BY <2>1
  <2>4. m = k + 1 /\ e = Len(s) /\ e - m + 1 = Len(s) - k
    BY <1>1 DEF m, e
  <2>5. ASSUME NEW i \in 1..(Len(s) - k) PROVE SubSeq(s, m, e)[i] = s[k + i]
    <3>1. i \in 1..(e - m + 1)
      BY <2>4
    <3>2. m + i - 1 = k + i
      BY <1>1, <2>4
    <3>3. SubSeq(s, m, e)[i] = s[m + i - 1]
      BY <2>2, <3>1
    <3> QED
      BY <3>2, <3>3
  <2>6. Len(SubSeq(s, m, e)) = Len(s) - k
    BY <2>2, <2>4
  <2> QED
    BY <2>3, <2>5, <2>6, Zenon DEF m, e
<1> DEFINE u == SubSeq(s, 1, k - 1)
           v == SubSeq(s, k + 1, Len(s))
<1>4. /\ cut = u \o v /\ u \in Seq(S) /\ v \in Seq(S)
      /\ Len(u) = k - 1 /\ Len(v) = Len(s) - k
      /\ \A i \in 1..(k - 1) : u[i] = s[i]
      /\ \A i \in 1..(Len(s) - k) : v[i] = s[k + i]
  BY <1>2, <1>3
<1> HIDE DEF u, v
<1>5. /\ DOMAIN cut = 1..(Len(u) + Len(v))
      /\ \A i \in 1..Len(u) : cut[i] = u[i]
      /\ \A i \in 1..Len(v) : cut[Len(u) + i] = v[i]
  <2>1. u \in Seq(S) /\ v \in Seq(S) /\ cut = u \o v
    BY <1>4
  <2>2. /\ DOMAIN (u \o v) = 1..(Len(u) + Len(v))
        /\ \A i \in 1..Len(u) : (u \o v)[i] = u[i]
        /\ \A i \in 1..Len(v) : (u \o v)[Len(u) + i] = v[i]
    BY <2>1, JoinAt
  <2> QED
    BY <2>1, <2>2
<1>6. ASSUME NEW i \in DOMAIN cut
      PROVE  i \in Int /\ at(i) \in DOMAIN s /\ at(i) # k /\ cut[i] = s[at(i)]
  <2>1. i \in Int /\ 1 <= i /\ i <= Len(s) - 1
    BY <1>1, <1>4, <1>5
  <2>2. CASE i < k
    <3>1. at(i) = i /\ i \in DOMAIN s /\ i \in 1..(k - 1)
      BY <1>1, <2>1, <2>2
    <3>2. i \in 1..Len(u) /\ u[i] = s[i]
      BY <1>4, <3>1
    <3>3. cut[i] = u[i]
      BY <1>5, <3>2
    <3> QED
      BY <2>1, <2>2, <3>1, <3>2, <3>3
  <2>3. CASE ~(i < k)
    <3>1. PICK j \in Int : j = i - (k - 1)
      BY <1>1, <2>1
    <3>2. j \in 1..(Len(s) - k) /\ i = Len(u) + j /\ i + 1 = k + j
      <4>1. Len(u) \in Int /\ Len(u) = k - 1
        BY <1>1, <1>4
      <4>2. i >= k
        BY <1>1, <2>1, <2>3
      <4> QED
        BY <1>1, <2>1, <3>1, <4>1, <4>2
    <3>3. cut[i] = s[k + j]
      BY <1>4, <1>5, <3>2
    <3>4. at(i) = k + j
      BY <2>3, <3>2
    <3>5. k + j \in DOMAIN s /\ k + j # k
      BY <1>1, <3>2
    <3> HIDE DEF at
    <3> QED
      BY <2>1, <3>3, <3>4, <3>5
  <2> QED
    BY <2>2, <2>3
<1>7. \A i, j \in DOMAIN cut : at(i) = at(j) => i = j
  BY <1>1, <1>6
<1> HIDE DEF at
<1>8. Once(cut)
  <2> SUFFICES ASSUME NEW i \in DOMAIN cut, NEW j \in DOMAIN cut, cut[i] = cut[j],
                      cut[i] # NoTask
               PROVE  i = j
    BY DEF Once
  <2>1. at(i) = at(j)
    BY <1>6 DEF Once
  <2> QED
    BY <1>7, <2>1
<1>9. \A t : In(cut, t) => In(s, t) /\ (t = s[k] => t = NoTask)
  <2> SUFFICES ASSUME NEW i \in DOMAIN cut
               PROVE  In(s, cut[i]) /\ (cut[i] = s[k] => cut[i] = NoTask)
    BY DEF In
  <2>1. at(i) \in DOMAIN s /\ at(i) # k /\ cut[i] = s[at(i)]
    BY <1>6
  <2> QED
    BY <2>1 DEF In, Once
<1> QED
  BY <1>8, <1>9 DEF In

-----------------------------------------------------------------------------
(* One place, step by step. *)

\* What the steps below need of the types.
LEMMA PlaceTypes ==
  ASSUME ControlInv
  PROVE  /\ pc \in [Threads -> Labels] /\ job \in [Threads -> Tasks \cup {NoTask}]
         /\ status \in [Tasks -> Statuses] /\ assigned \in [Tasks -> Nodes \cup {NoNode}]
         /\ queue \in [Nodes -> Seq(Tasks \cup {NoTask})] /\ pending \in Seq(Tasks)
         /\ scratch \in [Nodes -> Seq(Tasks \cup {NoTask})]
         /\ wpc \in [Nodes -> WorkerLabels] /\ hand \in [Nodes -> Tasks \cup {NoTask}]
         /\ created \in 0..TaskCount /\ TaskCount \in Nat
         /\ NoTask \notin Tasks /\ NoNode \notin Nodes
         /\ \A t \in Tasks : t \in Int
         /\ Controller \in Threads /\ \A c \in Callers : c \in Threads /\ c # Controller
         /\ \A p \in Threads : pc[p] \in Working => job[p] \in Tasks
<1>1. \A p \in Threads : pc[p] \in Working => job[p] \in Tasks
  BY DEF ControlInv, Locals, Working
<1>2. NoTask \notin Tasks /\ NoNode \notin Nodes /\ \A t \in Tasks : t \in Int
  BY NodeAssumption DEF NoTask, NoNode, Tasks, Nodes
<1> QED
  BY <1>1, <1>2, ControlAssumption DEF ControlInv, ControlTypeOK, Threads

\* A task in a thread's hands is nowhere else.
LEMMA Elsewhere ==
  ASSUME ControlInv, PlaceInv, NEW p \in Threads, pc[p] \in Working
  PROVE  /\ job[p] \in Tasks
         /\ status[job[p]] \in {"CREATED", "REALLOCATED", "QUEUED"}
         /\ ~In(pending, job[p])
         /\ \A e \in Nodes : ~Has(e, job[p])
         /\ \A q \in Threads : q # p => job[q] # job[p]
<1>1. job[p] \in Tasks /\ job[p] # NoTask
  BY PlaceTypes
<1>2. status[job[p]] \in {"CREATED", "REALLOCATED", "QUEUED"}
  BY DEF PlaceInv, JobState, Working
<1> QED
  BY <1>1, <1>2 DEF PlaceInv, JobAlone

\* A task at a node is nowhere else, and placed there.
LEMMA AtNode ==
  ASSUME ControlInv, PlaceInv, NEW n \in Nodes, NEW h \in Tasks, Has(n, h)
  PROVE  /\ status[h] \in {"QUEUED", "RUNNING"} /\ assigned[h] = n /\ Undrained(h)
         /\ ~In(pending, h)
         /\ \A e \in Nodes : e # n => ~Has(e, h)
         /\ \A p \in Threads : job[p] # h
<1>1. status[h] \in {"QUEUED", "RUNNING"} /\ assigned[h] = n /\ Undrained(h)
  BY DEF PlaceInv, AtNodes
<1>2. ~In(pending, h)
  BY <1>1 DEF PlaceInv, Waiting
<1>3. \A e \in Nodes : e # n => ~Has(e, h)
  BY <1>1 DEF PlaceInv, AtNodes
<1>4. \A p \in Threads : job[p] # h
  <2> SUFFICES ASSUME NEW p \in Threads, job[p] = h PROVE FALSE
    OBVIOUS
  <2>1. job[p] # NoTask
    BY PlaceTypes
  <2> QED
    BY <2>1 DEF PlaceInv, JobAlone
<1> QED
  BY <1>1, <1>2, <1>3, <1>4

\* dequeueTask takes the front, and no task remains that was taken.
LEMMA DequeueOnce ==
  ASSUME ControlInv, NEW n \in Nodes, Once(queue[n]), Dequeue(n)
  PROVE  /\ Front(n) \in Tasks \cup {NoTask}
         /\ Front(n) # NoTask => Front(n) \in Tasks /\ In(queue[n], Front(n))
         /\ Once(queue'[n])
         /\ \A t : In(queue'[n], t) => In(queue[n], t) /\ (t = Front(n) => t = NoTask)
         /\ \A e \in Nodes : e # n => queue'[e] = queue[e]
<1>0. queue \in [Nodes -> Seq(Tasks \cup {NoTask})]
  BY PlaceTypes
<1>1. \A e \in Nodes : e # n => queue'[e] = queue[e]
  BY <1>0 DEF Dequeue
<1>2. CASE queue[n] = <<>>
  <2>1. queue'[n] = queue[n] /\ Front(n) = NoTask
    BY <1>0, <1>2 DEF Dequeue, Front
  <2> QED
    BY <1>1, <2>1
<1>3. CASE queue[n] # <<>>
  <2>1. queue'[n] = Tail(queue[n]) /\ Front(n) = Head(queue[n])
    BY <1>0, <1>3 DEF Dequeue, Front
  <2>2. queue[n] \in Seq(Tasks \cup {NoTask})
    BY <1>0
  <2> QED
    BY <1>1, <1>3, <2>1, <2>2, TailOnce
<1> QED
  BY <1>2, <1>3

\* Steps that move no task.
LEMMA QuietPlaces ==
  ASSUME PlaceInv,
         UNCHANGED <<pending, queue, scratch, hand, wpc, job, status, assigned, drained,
                     created>>,
         \A p \in Threads :
           \/ pc'[p] = pc[p] /\ subject'[p] = subject[p]
           \/ pc[p] \notin Working /\ pc'[p] \notin Working
           \/ /\ <<pc[p], pc'[p]>> \in {<<"allocate", "scan">>, <<"locate", "schedule">>}
              /\ subject'[p] = subject[p]
  PROVE  PlaceInv'
<1>1. Unborn' /\ Unplaced' /\ JobAlone' /\ Waiting' /\ AtNodes'
  BY DEF PlaceInv, Unborn, Unplaced, JobAlone, Waiting, AtNodes, Separate, Has, Undrained
<1>2. JobPlace'
  BY DEF PlaceInv, JobPlace, Working
<1>3. JobState'
  <2> SUFFICES ASSUME NEW p \in Threads
               PROVE  /\ pc'[p] \in {"allocate", "scan"} =>
                           /\ assigned[job[p]] = NoNode
                           /\ \/ status[job[p]] = "CREATED"
                              \/ /\ status[job[p]] = "REALLOCATED" /\ p # Controller
                                 /\ subject'[p] # NoNode
                      /\ pc'[p] \in {"locate", "schedule"} =>
                           /\ status[job[p]] = "QUEUED" /\ assigned[job[p]] \in Nodes
                           /\ Undrained(job[p])
    BY DEF JobState, Undrained
  <2> QED
    BY DEF PlaceInv, JobState, Working
<1> QED
  BY <1>1, <1>2, <1>3 DEF PlaceInv

\* ReserveEdge places the task in the thread's hands.
LEMMA ReservePlaces ==
  ASSUME ControlInv, PlaceInv, NEW p \in Threads, ReserveEdge(p), AllocationStep(p)
  PROVE  PlaceInv'
<1>0. /\ pc \in [Threads -> Labels] /\ job \in [Threads -> Tasks \cup {NoTask}]
      /\ status \in [Tasks -> Statuses] /\ assigned \in [Tasks -> Nodes \cup {NoNode}]
      /\ created \in 0..TaskCount /\ NoTask \notin Tasks /\ viable \subseteq Nodes
  BY PlaceTypes DEF ControlInv, ControlTypeOK
<1>1. /\ pc[p] = "scan"
      /\ UNCHANGED <<queue, scratch, hand, wpc, subject, created, pending, drained>>
      /\ status' = [status EXCEPT ![job[p]] = "QUEUED"]
  BY DEF ReserveEdge, AllocationStep, workVars
<1>2. PICK e \in Nodes : assigned' = [assigned EXCEPT ![job[p]] = e]
  BY <1>0 DEF ReserveEdge
<1>j. PICK j \in Tasks : j = job[p]
  BY <1>1, Elsewhere DEF Working
<1>3. /\ status[j] \in {"CREATED", "REALLOCATED"} /\ ~In(pending, j)
      /\ \A f \in Nodes : ~Has(f, j)
      /\ \A q \in Threads : q # p => job[q] # j
  BY <1>1, <1>j, Elsewhere DEF Working, PlaceInv, JobState
<1>4. /\ status'[j] = "QUEUED" /\ assigned'[j] = e
      /\ \A t \in Tasks : t # j => status'[t] = status[t] /\ assigned'[t] = assigned[t]
  BY <1>0, <1>1, <1>2, <1>j
<1>5. \/ /\ pc' = [pc EXCEPT ![p] = "locate"] /\ job' = job
         /\ (p = Controller \/ subject[p] # NoNode => FALSE)
      \/ /\ pc' = [pc EXCEPT ![p] = AfterAllocation(p)] /\ job' = [job EXCEPT ![p] = NoTask]
         /\ AfterAllocation(p) \notin Working
  BY DEF ReserveEdge, Goto, AfterAllocation, Working
<1>6. Unborn' /\ Unplaced' /\ Waiting' /\ AtNodes'
  <2>1. Unborn'
    BY <1>0, <1>1, <1>3, <1>4 DEF PlaceInv, Unborn
  <2>2. Unplaced'
    BY <1>1, <1>4 DEF PlaceInv, Unplaced, Undrained
  <2>3. Waiting'
    BY <1>1, <1>3, <1>4 DEF PlaceInv, Waiting
  <2>5. AtNodes'
    <3>1. \A f \in Nodes : Separate(f)' /\ \A t \in Tasks : Has(f, t)' <=> Has(f, t)
      BY <1>1 DEF PlaceInv, AtNodes, Separate, Has
    <3> QED
      BY <1>1, <1>3, <1>4, <3>1 DEF PlaceInv, AtNodes, Undrained
  <2> QED
    BY <2>1, <2>2, <2>3, <2>5
<1>7. JobPlace' /\ JobAlone'
  BY <1>0, <1>1, <1>5 DEF PlaceInv, JobPlace, JobAlone, Working, Has
<1>8. JobState'
  <2> SUFFICES ASSUME NEW q \in Threads, pc'[q] \in Working
               PROVE  /\ pc'[q] \in {"allocate", "scan"} =>
                           /\ assigned'[job'[q]] = NoNode
                           /\ \/ status'[job'[q]] = "CREATED"
                              \/ /\ status'[job'[q]] = "REALLOCATED" /\ q # Controller
                                 /\ subject'[q] # NoNode
                      /\ pc'[q] \in {"locate", "schedule"} =>
                           /\ status'[job'[q]] = "QUEUED" /\ assigned'[job'[q]] \in Nodes
                           /\ \A f \in Nodes : <<f, job'[q]>> \notin drained'
    BY DEF JobState, Working, Undrained
  <2>1. CASE q # p
    <3>1. pc'[q] = pc[q] /\ job'[q] = job[q]
      BY <1>0, <1>5, <2>1
    <3>2. job[q] \in Tasks /\ job[q] # j
      BY <1>3, <2>1, <3>1, Elsewhere
    <3> QED
      BY <1>1, <1>4, <3>1, <3>2 DEF PlaceInv, JobState, Undrained
  <2>2. CASE q = p
    <3>1. pc'[p] = "locate" /\ job'[p] = j /\ p # Controller /\ subject[p] = NoNode
      BY <1>0, <1>5, <1>j, <2>2
    <3>2. Undrained(j)
      BY <1>1, <1>j, <3>1 DEF PlaceInv, JobState, Unplaced
    <3> QED
      BY <1>1, <1>4, <2>2, <3>1, <3>2 DEF Undrained
  <2> QED
    BY <2>1, <2>2
<1> QED
  BY <1>6, <1>7, <1>8 DEF PlaceInv

\* FailAllocation lets go of the task.
LEMMA FailPlaces ==
  ASSUME ControlInv, PlaceInv, NEW p \in Threads, FailAllocation(p), AllocationStep(p)
  PROVE  PlaceInv'
<1>0. pc \in [Threads -> Labels] /\ job \in [Threads -> Tasks \cup {NoTask}]
  BY PlaceTypes
<1>1. /\ UNCHANGED <<queue, scratch, hand, wpc, subject, created, pending, drained,
                     status, assigned>>
      /\ pc' = [pc EXCEPT ![p] = AfterAllocation(p)] /\ job' = [job EXCEPT ![p] = NoTask]
      /\ AfterAllocation(p) \notin Working
  BY DEF FailAllocation, AllocationStep, Goto, AfterAllocation, Working, taskVars, workVars
<1>2. Unborn' /\ Unplaced' /\ Waiting' /\ AtNodes'
  BY <1>1 DEF PlaceInv, Unborn, Unplaced, Waiting, AtNodes, Separate, Has, Undrained
<1>3. JobPlace' /\ JobAlone' /\ JobState'
  BY <1>0, <1>1 DEF PlaceInv, JobPlace, JobAlone, JobState, Working, Undrained, Has
<1> QED
  BY <1>2, <1>3 DEF PlaceInv

\* ScheduleTask moves the task from the thread's hands to its node's queue.
LEMMA SchedulePlaces ==
  ASSUME ControlInv, PlaceInv, NEW p \in Threads, ScheduleTask(p), AllocationStep(p)
  PROVE  PlaceInv'
<1>0. /\ pc \in [Threads -> Labels] /\ job \in [Threads -> Tasks \cup {NoTask}]
      /\ queue \in [Nodes -> Seq(Tasks \cup {NoTask})] /\ NoTask \notin Tasks
      /\ status \in [Tasks -> Statuses]
  BY PlaceTypes
<1>1. /\ UNCHANGED <<scratch, hand, wpc, subject, created, pending, drained, assigned>>
      /\ pc[p] = "schedule" /\ pc' = [pc EXCEPT ![p] = "idle"]
      /\ job' = [job EXCEPT ![p] = NoTask]
      /\ status' = [status EXCEPT ![job[p]] = "QUEUED"]
      /\ queue' = [queue EXCEPT ![assigned[job[p]]] = Append(@, job[p])]
  BY DEF ScheduleTask, AllocationStep, Goto, workVars
<1>j. PICK j \in Tasks : j = job[p]
  BY <1>1, Elsewhere DEF Working
<1>2. /\ status[j] = "QUEUED" /\ Undrained(j) /\ assigned[j] \in Nodes /\ ~In(pending, j)
      /\ \A f \in Nodes : ~Has(f, j)
      /\ \A q \in Threads : q # p => job[q] # j
  BY <1>1, <1>j, Elsewhere DEF Working, PlaceInv, JobState
<1>s. status' = status
  BY <1>0, <1>1, <1>2, <1>j
<1>n. PICK n \in Nodes : n = assigned[j]
  BY <1>2
<1>3. /\ queue'[n] = Append(queue[n], j) /\ \A f \in Nodes : f # n => queue'[f] = queue[f]
  BY <1>0, <1>1, <1>j, <1>n
<1>4. Once(queue'[n]) /\ \A t : In(queue'[n], t) => In(queue[n], t) \/ t = j
  <2>1. Once(queue[n]) /\ ~In(queue[n], j) /\ queue[n] \in Seq(Tasks \cup {NoTask})
    BY <1>0, <1>2 DEF PlaceInv, AtNodes, Separate, Has
  <2> QED
    BY <1>3, <2>1, AppendOnce
<1>h. \A f \in Nodes, t \in Tasks : Has(f, t)' => Has(f, t) \/ (f = n /\ t = j)
  BY <1>1, <1>3, <1>4 DEF Has
<1>5. Unborn' /\ Unplaced' /\ Waiting'
  BY <1>1, <1>s DEF PlaceInv, Unborn, Unplaced, Waiting, Undrained
<1>6. AtNodes'
  <2>1. \A f \in Nodes : Separate(f)'
    <3> SUFFICES ASSUME NEW f \in Nodes PROVE Separate(f)'
      OBVIOUS
    <3>1. CASE f = n
      BY <1>1, <1>2, <1>4, <3>1 DEF PlaceInv, AtNodes, Separate, Has
    <3>2. CASE f # n
      BY <1>1, <1>3, <3>2 DEF PlaceInv, AtNodes, Separate
    <3> QED
      BY <3>1, <3>2
  <2>2. hand[n] # j
    BY <1>2 DEF Has
  <2> QED
    BY <1>1, <1>2, <1>s, <1>n, <1>h, <2>1, <2>2 DEF PlaceInv, AtNodes, Undrained
<1>7. JobPlace' /\ JobState'
  BY <1>0, <1>1, <1>s DEF PlaceInv, JobPlace, JobState, Working, Undrained
<1>8. JobAlone'
  <2>1. \A q \in Threads : job'[q] # NoTask =>
          q # p /\ job'[q] = job[q] /\ job[q] # j /\ job[q] \in Tasks
    BY <1>0, <1>1, <1>2
  <2> QED
    BY <1>1, <1>h, <2>1 DEF PlaceInv, JobAlone
<1> QED
  BY <1>5, <1>6, <1>7, <1>8 DEF PlaceInv

\* The facts about a new task: it is nowhere.
LEMMA NewTask ==
  ASSUME ControlInv, PlaceInv, created < TaskCount
  PROVE  /\ created + 1 \in Tasks /\ status[created + 1] = "ABSENT"
         /\ assigned[created + 1] = NoNode /\ Undrained(created + 1)
         /\ ~In(pending, created + 1)
         /\ \A e \in Nodes : ~Has(e, created + 1)
         /\ \A p \in Threads : job[p] # created + 1
<1>0. created \in 0..TaskCount /\ TaskCount \in Nat
  BY PlaceTypes
<1>1. PICK n \in Tasks : n = created + 1 /\ n > created
  BY <1>0 DEF Tasks
<1>2. status[n] = "ABSENT" /\ assigned[n] = NoNode /\ Undrained(n)
  BY <1>1 DEF PlaceInv, Unborn, Unplaced
<1>3. /\ ~In(pending, n)
      /\ \A e \in Nodes : ~Has(e, n)
  BY <1>2 DEF PlaceInv, Waiting, AtNodes
<1>4. \A p \in Threads : job[p] # n
  <2> SUFFICES ASSUME NEW p \in Threads, job[p] = n PROVE FALSE
    OBVIOUS
  <2>1. pc[p] \in Working
    BY PlaceTypes DEF PlaceInv, JobPlace
  <2> QED
    BY <1>2, <2>1, Elsewhere
<1> QED
  BY <1>1, <1>2, <1>3, <1>4

\* CreateTask and SubmitTask make a task and put it in one place.
LEMMA CreatePlaces ==
  ASSUME ControlInv, PlaceInv, NEW c \in Submitters, CreateStep(c)
  PROVE  PlaceInv'
<1>0. /\ pc \in [Threads -> Labels] /\ job \in [Threads -> Tasks \cup {NoTask}]
      /\ status \in [Tasks -> Statuses] /\ pending \in Seq(Tasks) /\ created \in Nat
      /\ NoTask \notin Tasks /\ c \in Threads /\ \A t \in Tasks : t \in Int
      /\ hand \in [Nodes -> Tasks \cup {NoTask}]
      /\ \A p \in Threads : pc[p] \in Working => job[p] \in Tasks
  BY PlaceTypes DEF Callers
<1>1. /\ created < TaskCount /\ created' = created + 1 /\ pc[c] = "idle"
      /\ status' = [status EXCEPT ![created + 1] = "CREATED"]
      /\ UNCHANGED <<queue, scratch, hand, wpc, subject, drained, assigned>>
  BY DEF CreateStep, CreateTask, SubmitTask, nodeVars, workVars, threadVars
<1>n. PICK n \in Tasks : n = created + 1
  BY <1>1, NewTask
<1>2. /\ status[n] = "ABSENT" /\ assigned[n] = NoNode /\ Undrained(n) /\ ~In(pending, n)
      /\ \A e \in Nodes : ~Has(e, n)
      /\ \A p \in Threads : job[p] # n
  BY <1>1, <1>n, NewTask
<1>3. status'[n] = "CREATED" /\ \A t \in Tasks : t # n => status'[t] = status[t]
  BY <1>0, <1>1, <1>n
<1>4. Unborn' /\ Unplaced'
  <2>1. \A t \in Tasks : t > created' => t > created /\ t # n
    BY <1>0, <1>1, <1>n
  <2> QED
    BY <1>1, <1>2, <1>3, <2>1 DEF PlaceInv, Unborn, Unplaced, Undrained
<1>h. \A e \in Nodes : Separate(e)' /\ \A t \in Tasks : Has(e, t)' <=> Has(e, t)
  BY <1>1 DEF PlaceInv, AtNodes, Separate, Has
<1>5. AtNodes'
  BY <1>1, <1>2, <1>3, <1>h DEF PlaceInv, AtNodes, Undrained
<1>6. CASE CreateTask(c)
  <2>1. pending' = Append(pending, n) /\ UNCHANGED <<pc, job>>
    BY <1>6, <1>n DEF CreateTask, threadVars
  <2>2. Once(pending') /\ \A t : In(pending', t) => In(pending, t) \/ t = n
    BY <1>0, <1>2, <2>1, AppendOnce DEF PlaceInv, Waiting
  <2>3. Waiting'
    BY <1>3, <2>2 DEF PlaceInv, Waiting
  <2>4. JobPlace' /\ JobAlone'
    BY <1>0, <1>1, <1>2, <1>h, <2>1, <2>2 DEF PlaceInv, JobPlace, JobAlone
  <2>5. JobState'
    BY <1>0, <1>1, <1>2, <1>3, <2>1 DEF PlaceInv, JobState, Undrained, Working
  <2> QED
    BY <1>4, <1>5, <2>3, <2>4, <2>5 DEF PlaceInv
<1>7. CASE SubmitTask(c)
  <2>1. /\ UNCHANGED pending /\ job' = [job EXCEPT ![c] = n]
        /\ pc' = [pc EXCEPT ![c] = "allocate"]
    BY <1>7, <1>n DEF SubmitTask, Goto
  <2>2. Waiting'
    BY <1>2, <1>3, <2>1 DEF PlaceInv, Waiting
  <2>3. JobPlace' /\ JobAlone'
    BY <1>0, <1>1, <1>2, <1>h, <2>1 DEF PlaceInv, JobPlace, JobAlone, Working
  <2>4. JobState'
    <3>1. /\ pc'[c] = "allocate" /\ job'[c] = n
          /\ \A p \in Threads : p # c => pc'[p] = pc[p] /\ job'[p] = job[p]
      BY <1>0, <2>1
    <3> QED
      BY <1>0, <1>1, <1>2, <1>3, <3>1 DEF PlaceInv, JobState, Undrained, Working
  <2> QED
    BY <1>4, <1>5, <2>2, <2>3, <2>4 DEF PlaceInv
<1> QED
  BY <1>6, <1>7 DEF CreateStep

\* The processing thread takes a task from the TaskManager's queue.
LEMMA LoopPlaces ==
  ASSUME ControlInv, PlaceInv, LoopStep
  PROVE  PlaceInv'
<1>0. /\ pc \in [Threads -> Labels] /\ job \in [Threads -> Tasks \cup {NoTask}]
      /\ pending \in Seq(Tasks) /\ NoTask \notin Tasks /\ Controller \in Threads
      /\ \A p \in Threads : pc[p] \in Working => job[p] \in Tasks
  BY PlaceTypes
<1>1. UNCHANGED <<queue, scratch, hand, wpc, created, status, assigned, subject, drained>>
  BY DEF LoopStep, ControlFrame, workVars, taskVars
<1>2. CASE LoopTest \/ UpdateResourceMetrics
  <2>1. /\ UNCHANGED <<pending, job>> /\ pc[Controller] \in {"loop", "metrics"}
        /\ pc' = [pc EXCEPT ![Controller] = pc'[Controller]]
        /\ pc'[Controller] \in {"off", "metrics", "loop"}
    BY <1>0, <1>2 DEF LoopTest, UpdateResourceMetrics, Goto
  <2>2. \A p \in Threads :
          pc'[p] = pc[p] \/ (pc[p] \notin Working /\ pc'[p] \notin Working)
    BY <1>0, <2>1 DEF Working
  <2> QED
    BY <1>1, <2>1, <2>2, QuietPlaces
<1>3. CASE Fetch
  <2>1. /\ pc[Controller] = "loop" /\ pending # <<>>
        /\ job' = [job EXCEPT ![Controller] = Head(pending)]
        /\ pending' = Tail(pending) /\ pc' = [pc EXCEPT ![Controller] = "allocate"]
    BY <1>3 DEF Fetch, Goto
  <2>h. PICK h \in Tasks : h = Head(pending)
    BY <1>0, <2>1
  <2>2. /\ In(pending, h) /\ ~In(pending', h) /\ Once(pending')
        /\ \A t : In(pending', t) => In(pending, t)
    <3>1. Once(pending) /\ h # NoTask
      BY <1>0 DEF PlaceInv, Waiting
    <3> QED
      BY <1>0, <2>1, <2>h, <3>1, TailOnce
  <2>3. /\ status[h] = "CREATED" /\ assigned[h] = NoNode
        /\ \A e \in Nodes : ~Has(e, h)
        /\ \A p \in Threads : job[p] # h
    BY <1>0, <2>2 DEF PlaceInv, Waiting, Unplaced, AtNodes, JobAlone
  <2>4. /\ pc'[Controller] = "allocate" /\ job'[Controller] = h
        /\ \A p \in Threads : p # Controller => pc'[p] = pc[p] /\ job'[p] = job[p]
    BY <1>0, <2>1, <2>h
  <2>5. Unborn' /\ Unplaced' /\ AtNodes' /\ Waiting'
    BY <1>1, <2>2 DEF PlaceInv, Unborn, Unplaced, AtNodes, Separate, Has, Waiting, Undrained
  <2>6. JobPlace' /\ JobState'
    BY <1>0, <1>1, <2>3, <2>4 DEF PlaceInv, JobPlace, JobState, Undrained, Working
  <2>7. JobAlone'
    BY <1>0, <1>1, <2>2, <2>3, <2>4 DEF PlaceInv, JobAlone, Has
  <2> QED
    BY <2>5, <2>6, <2>7 DEF PlaceInv
<1> QED
  BY <1>2, <1>3 DEF LoopStep

\* A failure handler takes a task from its node, or a null; the other steps
\* of monitor and handlers move nothing.
LEMMA HandlerPlaces ==
  ASSUME ControlInv, PlaceInv, NEW c \in Callers, HandlerStep(c)
  PROVE  PlaceInv'
<1>0. /\ pc \in [Threads -> Labels] /\ job \in [Threads -> Tasks \cup {NoTask}]
      /\ status \in [Tasks -> Statuses] /\ assigned \in [Tasks -> Nodes \cup {NoNode}]
      /\ NoTask \notin Tasks /\ NoNode \notin Nodes
      /\ c \in Threads /\ c # Controller
      /\ \A p \in Threads : pc[p] \in Working => job[p] \in Tasks
  BY PlaceTypes
<1>s. subject \in [Threads -> 0..NodeCount + 1]
  BY DEF ControlInv, ControlTypeOK
<1>1. UNCHANGED <<scratch, hand, wpc, created, pending>>
  BY DEF HandlerStep, workVars
<1>2. CASE CheckNode(c) \/ EndHealthCheck(c) \/ LookUpNode(c) \/ DrainTest(c)
  <2>1. UNCHANGED <<queue, job, status, assigned, drained>>
    BY <1>2 DEF CheckNode, EndHealthCheck, LookUpNode, DrainTest, taskVars
  <2>2. /\ pc[c] \in {"check", "lookup", "drain", "take"}
        /\ pc'[c] \in {"check", "lookup", "idle", "drain", "take"}
        /\ \A p \in Threads : p # c => pc'[p] = pc[p] /\ subject'[p] = subject[p]
    BY <1>0, <1>s, <1>2 DEF CheckNode, EndHealthCheck, LookUpNode, DrainTest, Goto
  <2>3. pc[c] \notin Working /\ pc'[c] \notin Working
    BY <2>2 DEF Working
  <2> QED
    BY <1>1, <2>1, <2>2, <2>3, QuietPlaces
<1>3. CASE TakeNothing(c) \/ TakeTask(c)
  <2>n. PICK n \in Nodes : n = subject[c]
    BY <1>0, <1>3 DEF TakeNothing, TakeTask, ControlInv, Locals
  <2>1. Dequeue(n) /\ Once(queue[n])
    BY <1>3, <2>n DEF TakeNothing, TakeTask, PlaceInv, AtNodes, Separate
  <2>h. PICK h \in Tasks \cup {NoTask} : h = Front(n)
    BY <2>1, DequeueOnce
  <2>2. /\ h # NoTask => h \in Tasks /\ In(queue[n], h)
        /\ Once(queue'[n]) /\ \A e \in Nodes : e # n => queue'[e] = queue[e]
        /\ \A t : In(queue'[n], t) => In(queue[n], t) /\ (t = h => t = NoTask)
    BY <2>1, <2>h, DequeueOnce
  <2>3. \A e \in Nodes :
          /\ Separate(e)' /\ \A t \in Tasks : Has(e, t)' => Has(e, t)
    <3> SUFFICES ASSUME NEW e \in Nodes
                 PROVE  Separate(e)' /\ \A t \in Tasks : Has(e, t)' => Has(e, t)
      OBVIOUS
    <3>1. Once(queue'[e]) /\ \A t : In(queue'[e], t) => In(queue[e], t)
      BY <2>2 DEF PlaceInv, AtNodes, Separate
    <3> QED
      BY <1>1, <3>1 DEF PlaceInv, AtNodes, Separate, Has
  <2>4. CASE TakeNothing(c)
    <3>1. /\ pc[c] = "take" /\ pc' = [pc EXCEPT ![c] = "drain"]
          /\ UNCHANGED <<job, status, assigned, drained, subject>>
      BY <2>4 DEF TakeNothing, Goto, taskVars
    <3>2. Unborn' /\ Unplaced' /\ Waiting' /\ JobPlace'
      BY <1>0, <1>1, <3>1
      DEF PlaceInv, Unborn, Unplaced, Waiting, JobPlace, Undrained, Working
    <3>3. AtNodes'
      BY <1>1, <2>3, <3>1 DEF PlaceInv, AtNodes, Undrained
    <3>4. JobAlone'
      BY <1>0, <1>1, <2>3, <3>1 DEF PlaceInv, JobAlone
    <3>5. JobState'
      BY <1>0, <3>1 DEF PlaceInv, JobState, Undrained
    <3> QED
      BY <3>2, <3>3, <3>4, <3>5 DEF PlaceInv
  <2>5. CASE TakeTask(c)
    <3>1. /\ pc[c] = "take" /\ pc' = [pc EXCEPT ![c] = "allocate"] /\ UNCHANGED subject
          /\ job' = [job EXCEPT ![c] = h]
          /\ status' = [status EXCEPT ![h] = "REALLOCATED"]
          /\ assigned' = [assigned EXCEPT ![h] = NoNode]
          /\ drained' = drained \cup {<<n, h>>}
      BY <2>5, <2>n, <2>h DEF TakeTask, Goto
    <3>2. h \in Tasks /\ In(queue[n], h) /\ Has(n, h)
      BY <2>2, <2>5, <2>h, <2>n DEF TakeTask, Has
    <3>3. /\ status[h] \in {"QUEUED", "RUNNING"} /\ assigned[h] = n /\ Undrained(h)
          /\ ~In(pending, h)
          /\ \A e \in Nodes : e # n => ~Has(e, h)
          /\ \A p \in Threads : job[p] # h
      BY <3>2, AtNode
    <3>4. \A e \in Nodes : ~Has(e, h)'
      <4>1. ~Has(n, h)'
        BY <1>0, <1>1, <2>2, <3>2 DEF PlaceInv, AtNodes, Separate, Has
      <4>2. \A e \in Nodes : e # n => ~Has(e, h)'
        BY <2>3, <3>2, <3>3
      <4> QED
        BY <4>1, <4>2
    <3>5. /\ status'[h] = "REALLOCATED" /\ assigned'[h] = NoNode
          /\ \A t \in Tasks : t # h =>
               /\ status'[t] = status[t] /\ assigned'[t] = assigned[t]
               /\ Undrained(t) => Undrained(t)'
      BY <1>0, <3>1, <3>2 DEF Undrained
    <3>6. /\ pc'[c] = "allocate" /\ job'[c] = h
          /\ \A p \in Threads : p # c => pc'[p] = pc[p] /\ job'[p] = job[p]
      BY <1>0, <3>1
    <3>7. Unborn' /\ Unplaced' /\ Waiting'
      BY <1>1, <3>3, <3>5 DEF PlaceInv, Unborn, Unplaced, Waiting
    <3>8. AtNodes'
      <4>1. \A e \in Nodes, t \in Tasks : Has(e, t)' => t # h /\ Has(e, t)
        BY <2>3, <3>4
      <4> QED
        BY <1>1, <2>3, <3>5, <4>1 DEF PlaceInv, AtNodes
    <3>9. JobPlace'
      BY <3>6 DEF PlaceInv, JobPlace, Working
    <3>10. JobAlone'
      BY <1>0, <1>1, <2>3, <3>2, <3>3, <3>4, <3>6 DEF PlaceInv, JobAlone
    <3>11. JobState'
      <4> SUFFICES ASSUME NEW q \in Threads, pc'[q] \in Working
                   PROVE  /\ pc'[q] \in {"allocate", "scan"} =>
                               /\ assigned'[job'[q]] = NoNode
                               /\ \/ status'[job'[q]] = "CREATED"
                                  \/ /\ status'[job'[q]] = "REALLOCATED"
                                     /\ q # Controller /\ subject'[q] # NoNode
                          /\ pc'[q] \in {"locate", "schedule"} =>
                               /\ status'[job'[q]] = "QUEUED" /\ assigned'[job'[q]] \in Nodes
                               /\ \A f \in Nodes : <<f, job'[q]>> \notin drained'
        BY DEF JobState, Working, Undrained
      <4>1. CASE q = c
        BY <1>0, <2>n, <3>1, <3>5, <3>6, <4>1
      <4>2. CASE q # c
        <5>1. pc'[q] = pc[q] /\ job'[q] = job[q] /\ job[q] \in Tasks /\ job[q] # h
          BY <1>0, <3>3, <3>6, <4>2
        <5>2. \A f \in Nodes : <<f, job[q]>> \notin drained => <<f, job[q]>> \notin drained'
          BY <3>1, <5>1
        <5> QED
          BY <3>1, <3>5, <5>1, <5>2 DEF PlaceInv, JobState, Undrained
      <4> QED
        BY <4>1, <4>2
    <3> QED
      BY <3>7, <3>8, <3>9, <3>10, <3>11 DEF PlaceInv
  <2> QED
    BY <1>3, <2>4, <2>5
<1> QED
  BY <1>2, <1>3 DEF HandlerStep

\* A worker that moves tasks only between its node's queue, its buffer and its
\* hand keeps each in one place.
LEMMA NodeMoves ==
  ASSUME ControlInv, PlaceInv, NEW n \in Nodes,
         UNCHANGED <<created, pending, assigned, pc, job, subject, drained>>,
         \A e \in Nodes : e # n =>
           /\ queue'[e] = queue[e] /\ scratch'[e] = scratch[e]
           /\ hand'[e] = hand[e] /\ wpc'[e] = wpc[e],
         Separate(n)',
         \A t \in Tasks : Has(n, t)' =>
           /\ Has(n, t)
           /\ status'[t] = IF wpc'[n] = "run" /\ hand'[n] = t THEN "RUNNING" ELSE "QUEUED",
         \A t \in Tasks : status'[t] # status[t] =>
           Has(n, t) /\ status'[t] \in {"RUNNING", "FINISHED"}
  PROVE  PlaceInv'
<1>1. \A e \in Nodes, t \in Tasks : Has(e, t)' => Has(e, t)
  BY DEF Has
<1>2. \A t \in Tasks : status'[t] # status[t] =>
        /\ status[t] \in {"QUEUED", "RUNNING"} /\ status'[t] \in {"RUNNING", "FINISHED"}
        /\ \A e \in Nodes : e # n => ~Has(e, t)
        /\ \A p \in Threads : job[p] # t
  BY AtNode
<1>3. Unborn' /\ Unplaced' /\ Waiting'
  BY <1>2 DEF PlaceInv, Unborn, Unplaced, Waiting, Undrained
<1>4. JobPlace' /\ JobAlone'
  BY <1>1, PlaceTypes DEF PlaceInv, JobPlace, JobAlone
<1>5. JobState'
  BY <1>2, PlaceTypes DEF PlaceInv, JobState, Undrained, Working
<1>6. AtNodes'
  <2> SUFFICES ASSUME NEW e \in Nodes
               PROVE  /\ Separate(e)'
                      /\ \A t \in Tasks : Has(e, t)' =>
                           /\ assigned[t] = e /\ Undrained(t)
                           /\ status'[t] = IF wpc'[e] = "run" /\ hand'[e] = t
                                           THEN "RUNNING" ELSE "QUEUED"
    BY DEF AtNodes, Undrained
  <2>1. \A t \in Tasks : Has(e, t)' => assigned[t] = e /\ Undrained(t)
    BY <1>1 DEF PlaceInv, AtNodes
  <2>2. CASE e = n
    BY <2>1, <2>2
  <2>3. CASE e # n
    <3>1. Separate(e)'
      BY <2>3 DEF PlaceInv, AtNodes, Separate
    <3>2. \A t \in Tasks : Has(e, t)' => status'[t] = status[t]
      BY <1>1, <1>2, <2>3
    <3> QED
      BY <1>1, <2>1, <2>3, <3>1, <3>2 DEF PlaceInv, AtNodes
  <2> QED
    BY <2>2, <2>3
<1> QED
  BY <1>3, <1>4, <1>5, <1>6 DEF PlaceInv

\* What getNextTask returns is taken from the queue, or was selected.
LEMMA ReturnPlaces ==
  ASSUME ControlInv, PlaceInv, NEW n \in Nodes, NEW t \in Tasks \cup {NoTask},
         WorkerStep(n), ReturnTask(n, t), wpc[n] # "run",
         t # NoTask => Has(n, t),
         Once(queue'[n]),
         \A u \in Tasks : In(queue'[n], u) => In(queue[n], u) /\ u # t,
         \A u \in Tasks : In(scratch[n], u) => u # t,
         scratch' = scratch,
         \A e \in Nodes : e # n => queue'[e] = queue[e]
  PROVE  /\ PlaceInv'
         /\ \A u \in Tasks : status'[u] # status[u] => Has(n, u) /\ status'[u] = "RUNNING"
<1>0. /\ status \in [Tasks -> Statuses] /\ hand \in [Nodes -> Tasks \cup {NoTask}]
      /\ wpc \in [Nodes -> WorkerLabels] /\ NoTask \notin Tasks
  BY PlaceTypes
<1>1. UNCHANGED <<created, pending, assigned, pc, job, subject, drained>>
  BY DEF WorkerStep, threadVars
<1>2. /\ hand'[n] = t /\ \A e \in Nodes : e # n => hand'[e] = hand[e] /\ wpc'[e] = wpc[e]
      /\ wpc'[n] = IF t = NoTask THEN "idle" ELSE "run"
      /\ \A u \in Tasks : status'[u] = IF u = t THEN "RUNNING" ELSE status[u]
  BY <1>0 DEF ReturnTask, GotoWorker
<1>3. Separate(n)'
  BY <1>2 DEF PlaceInv, AtNodes, Separate
<1>4. \A u \in Tasks : Has(n, u)' => Has(n, u)
  BY <1>0, <1>2 DEF Has
<1>5. \A u \in Tasks : Has(n, u) => status[u] = "QUEUED"
  BY DEF PlaceInv, AtNodes
<1>6. \A u \in Tasks : status'[u] # status[u] => Has(n, u) /\ status'[u] = "RUNNING"
  BY <1>0, <1>2
<1>7. \A u \in Tasks : Has(n, u)' =>
        status'[u] = IF wpc'[n] = "run" /\ hand'[n] = u THEN "RUNNING" ELSE "QUEUED"
  BY <1>0, <1>2, <1>4, <1>5
<1> QED
  BY <1>1, <1>2, <1>3, <1>4, <1>6, <1>7, NodeMoves

\* The steps of getNextTask before it returns move tasks between the queue,
\* the buffer and the selection.
LEMMA FetchPlaces ==
  ASSUME ControlInv, PlaceInv, NEW n \in Nodes, WorkerStep(n),
         \/ BeginFetch(n) \/ DrainQueue(n) \/ PullTask(n) \/ SelectTask(n)
         \/ CompareNull(n) \/ RestoreOne(n)
  PROVE  PlaceInv' /\ UNCHANGED status
<1>0. /\ hand \in [Nodes -> Tasks \cup {NoTask}] /\ wpc \in [Nodes -> WorkerLabels]
      /\ NoTask \notin Tasks
      /\ queue \in [Nodes -> Seq(Tasks \cup {NoTask})]
      /\ scratch \in [Nodes -> Seq(Tasks \cup {NoTask})]
      /\ queue[n] \in Seq(Tasks \cup {NoTask}) /\ scratch[n] \in Seq(Tasks \cup {NoTask})
  BY PlaceTypes
<1>1. UNCHANGED <<created, pending, assigned, pc, job, subject, drained>>
  BY DEF WorkerStep, threadVars
<1>2. /\ Once(queue[n]) /\ Once(scratch[n])
      /\ \A t \in Tasks : In(queue[n], t) => ~In(scratch[n], t) /\ hand[n] # t
      /\ \A t \in Tasks : In(scratch[n], t) => hand[n] # t
  BY DEF PlaceInv, AtNodes, Separate
<1>3. SUFFICES /\ \A e \in Nodes : e # n =>
                    /\ queue'[e] = queue[e] /\ scratch'[e] = scratch[e]
                    /\ hand'[e] = hand[e] /\ wpc'[e] = wpc[e]
               /\ wpc[n] # "run" /\ wpc'[n] # "run" /\ UNCHANGED status
               /\ Separate(n)' /\ \A t \in Tasks : Has(n, t)' => Has(n, t)
  <2>1. ASSUME /\ \A e \in Nodes : e # n =>
                    /\ queue'[e] = queue[e] /\ scratch'[e] = scratch[e]
                    /\ hand'[e] = hand[e] /\ wpc'[e] = wpc[e]
               /\ wpc[n] # "run" /\ wpc'[n] # "run" /\ UNCHANGED status
               /\ Separate(n)' /\ \A t \in Tasks : Has(n, t)' => Has(n, t)
        PROVE  PlaceInv' /\ UNCHANGED status
    <3>1. \A t \in Tasks : Has(n, t) => status[t] = "QUEUED"
      BY <2>1 DEF PlaceInv, AtNodes
    <3> QED
      BY <1>1, <2>1, <3>1, NodeMoves
  <2> QED
    BY <2>1
<1>4. CASE BeginFetch(n) \/ DrainQueue(n) \/ CompareNull(n)
  <2>1. /\ UNCHANGED <<queue, scratch, hand, status>> /\ wpc[n] \in {"idle", "drain"}
        /\ \E l \in {"fifo", "drain", "pull", "crashed"} : wpc' = [wpc EXCEPT ![n] = l]
    BY <1>4 DEF BeginFetch, DrainQueue, CompareNull, GotoWorker
  <2> QED
    BY <1>0, <1>2, <2>1 DEF Separate, Has
<1>5. CASE PullTask(n)
  <2>h. PICK h \in Tasks \cup {NoTask} : h = Front(n)
    BY <1>2, <1>5, DequeueOnce DEF PullTask
  <2>1. /\ wpc[n] = "pull" /\ wpc' = [wpc EXCEPT ![n] = "drain"]
        /\ UNCHANGED <<hand, status>>
        /\ scratch' = [scratch EXCEPT ![n] = Append(@, h)] /\ Dequeue(n)
    BY <1>5, <2>h DEF PullTask, GotoWorker
  <2>2. /\ h # NoTask => h \in Tasks /\ In(queue[n], h)
        /\ Once(queue'[n]) /\ \A e \in Nodes : e # n => queue'[e] = queue[e]
        /\ \A t : In(queue'[n], t) => In(queue[n], t) /\ (t = h => t = NoTask)
    BY <1>2, <2>1, <2>h, DequeueOnce
  <2>3. Once(scratch'[n]) /\ \A t : In(scratch'[n], t) => In(scratch[n], t) \/ t = h
    <3>1. scratch'[n] = Append(scratch[n], h) /\ (h # NoTask => ~In(scratch[n], h))
      BY <1>0, <1>2, <2>1, <2>2
    <3> QED
      BY <1>0, <1>2, <3>1, AppendOnce
  <2> QED
    BY <1>0, <1>2, <2>1, <2>2, <2>3 DEF Separate, Has
<1>6. CASE SelectTask(n)
  <2> DEFINE s == scratch[n]
  <2>1. PICK k \in DOMAIN s :
          /\ hand' = [hand EXCEPT ![n] = s[k]]
          /\ scratch' = [scratch EXCEPT ![n] =
                           SubSeq(s, 1, k - 1) \o SubSeq(s, k + 1, Len(s))]
    BY <1>6 DEF SelectTask
  <2>2. /\ wpc[n] = "drain" /\ wpc' = [wpc EXCEPT ![n] = "restore"]
        /\ UNCHANGED <<queue, status>>
    BY <1>6 DEF SelectTask, GotoWorker
  <2>3. /\ Once(scratch'[n]) /\ In(s, s[k])
        /\ \A t : In(scratch'[n], t) => In(s, t) /\ (t = s[k] => t = NoTask)
    <3>1. scratch'[n] = SubSeq(s, 1, k - 1) \o SubSeq(s, k + 1, Len(s))
      BY <1>0, <2>1
    <3>2. s \in Seq(Tasks \cup {NoTask}) /\ Once(s)
      BY <1>0, <1>2
    <3> HIDE DEF s
    <3> QED
      BY <3>1, <3>2, CutOnce
  <2>4. hand'[n] = s[k] /\ \A e \in Nodes : e # n => hand'[e] = hand[e]
    BY <1>0, <2>1
  <2>5. \A e \in Nodes : e # n => scratch'[e] = scratch[e] /\ wpc'[e] = wpc[e]
    BY <1>0, <2>1, <2>2
  <2>6. wpc'[n] = "restore"
    BY <1>0, <2>2
  <2>7. Separate(n)'
    BY <1>0, <1>2, <2>2, <2>3, <2>4 DEF Separate
  <2>8. \A t \in Tasks : Has(n, t)' => Has(n, t)
    BY <2>2, <2>3, <2>4 DEF Has
  <2> QED
    BY <2>2, <2>4, <2>5, <2>6, <2>7, <2>8
<1>7. CASE RestoreOne(n)
  <2>1. /\ wpc[n] = "restore" /\ scratch[n] # <<>> /\ UNCHANGED <<wpc, hand, status>>
        /\ queue' = [queue EXCEPT ![n] = Append(@, Head(scratch[n]))]
        /\ scratch' = [scratch EXCEPT ![n] = Tail(@)]
    BY <1>7 DEF RestoreOne
  <2>h. PICK h \in Tasks \cup {NoTask} : h = Head(scratch[n])
    BY <1>0, <2>1
  <2>2. /\ scratch'[n] = Tail(scratch[n]) /\ queue'[n] = Append(queue[n], h)
        /\ \A e \in Nodes : e # n => queue'[e] = queue[e] /\ scratch'[e] = scratch[e]
    BY <1>0, <2>1, <2>h
  <2>3. /\ In(scratch[n], h) /\ Once(scratch'[n])
        /\ \A t : In(scratch'[n], t) => In(scratch[n], t) /\ (t = h => t = NoTask)
    BY <1>0, <1>2, <2>1, <2>2, <2>h, TailOnce
  <2>4. Once(queue'[n]) /\ \A t : In(queue'[n], t) => In(queue[n], t) \/ t = h
    <3>1. h # NoTask => ~In(queue[n], h)
      BY <1>2, <2>3
    <3> QED
      BY <1>0, <1>2, <2>2, <3>1, AppendOnce
  <2> QED
    BY <1>0, <1>2, <2>1, <2>2, <2>3, <2>4 DEF Separate, Has
<1> QED
  BY <1>4, <1>5, <1>6, <1>7

\* A worker keeps each task in one place, and nothing but the end of an
\* execution takes it away from the node.
LEMMA WorkerPlaces ==
  ASSUME ControlInv, PlaceInv, NEW n \in Nodes, WorkerStep(n)
  PROVE  /\ PlaceInv'
         /\ \/ FinishTask(n)
            \/ \A t \in Tasks : status'[t] # status[t] => Has(n, t) /\ status'[t] = "RUNNING"
<1>0. /\ status \in [Tasks -> Statuses] /\ hand \in [Nodes -> Tasks \cup {NoTask}]
      /\ wpc \in [Nodes -> WorkerLabels] /\ NoTask \notin Tasks
  BY PlaceTypes
<1>1. UNCHANGED <<created, pending, assigned, pc, job, subject, drained>>
  BY DEF WorkerStep, threadVars
<1>2. /\ Once(queue[n]) /\ Once(scratch[n])
      /\ \A t \in Tasks : In(queue[n], t) => ~In(scratch[n], t) /\ hand[n] # t
      /\ \A t \in Tasks : In(scratch[n], t) => hand[n] # t
  BY DEF PlaceInv, AtNodes, Separate
<1>3. CASE \/ BeginFetch(n) \/ DrainQueue(n) \/ PullTask(n) \/ SelectTask(n)
           \/ CompareNull(n) \/ RestoreOne(n)
  BY <1>3, FetchPlaces
<1>4. CASE DequeueFifo(n)
  <2>h. PICK h \in Tasks \cup {NoTask} : h = Front(n)
    BY <1>2, <1>4, DequeueOnce DEF DequeueFifo
  <2>1. /\ wpc[n] = "fifo" /\ Dequeue(n) /\ ReturnTask(n, h) /\ UNCHANGED scratch
    BY <1>4, <2>h DEF DequeueFifo
  <2>2. /\ h # NoTask => h \in Tasks /\ In(queue[n], h)
        /\ Once(queue'[n]) /\ \A e \in Nodes : e # n => queue'[e] = queue[e]
        /\ \A t : In(queue'[n], t) => In(queue[n], t) /\ (t = h => t = NoTask)
    BY <1>2, <2>1, <2>h, DequeueOnce
  <2>3. /\ \A u \in Tasks : In(queue'[n], u) => In(queue[n], u) /\ u # h
        /\ \A u \in Tasks : In(scratch[n], u) => u # h
        /\ h # NoTask => Has(n, h)
    BY <1>0, <1>2, <2>2 DEF Has
  <2> QED
    BY <2>1, <2>2, <2>3, ReturnPlaces
<1>5. CASE DrainedNothing(n)
  <2>1. wpc[n] = "drain" /\ ReturnTask(n, NoTask) /\ UNCHANGED <<queue, scratch>>
    BY <1>5 DEF DrainedNothing
  <2> QED
    BY <1>0, <1>2, <2>1, ReturnPlaces
<1>6. CASE EndRestore(n)
  <2>1. wpc[n] = "restore" /\ ReturnTask(n, hand[n]) /\ UNCHANGED <<queue, scratch>>
    BY <1>6 DEF EndRestore
  <2>2. hand[n] \in Tasks \cup {NoTask} /\ Has(n, hand[n])
    BY <1>0 DEF Has
  <2> QED
    BY <1>0, <1>2, <2>1, <2>2, ReturnPlaces
<1>7. CASE FinishTask(n)
  <2>h. PICK h \in Tasks : h = hand[n]
    BY <1>7 DEF FinishTask, ControlInv, Locals
  <2>1. /\ UNCHANGED <<queue, scratch>>
        /\ hand'[n] = NoTask /\ wpc'[n] = "idle" /\ wpc[n] = "run"
        /\ \A e \in Nodes : e # n => hand'[e] = hand[e] /\ wpc'[e] = wpc[e]
        /\ \A t \in Tasks : status'[t] = IF t = h THEN "FINISHED" ELSE status[t]
    BY <1>0, <1>7, <2>h DEF FinishTask, GotoWorker
  <2>2. Separate(n)'
    BY <1>0, <1>2, <2>1 DEF Separate
  <2>3. \A t \in Tasks : Has(n, t)' => Has(n, t) /\ t # h /\ status[t] = "QUEUED"
    BY <1>0, <1>2, <2>1, <2>h DEF Has, PlaceInv, AtNodes
  <2>4. Has(n, h)
    BY <2>h DEF Has
  <2>5. PlaceInv'
    BY <1>1, <2>1, <2>2, <2>3, <2>4, NodeMoves
  <2> QED
    BY <1>7, <2>5
<1> QED
  BY <1>3, <1>4, <1>5, <1>6, <1>7 DEF WorkerStep

\* start(), stop(), its join, and the calls of the monitor move no task.
LEMMA CallPlaces ==
  ASSUME ControlInv, PlaceInv, Parked, NEW c \in Callers,
         StartStep(c) \/ JoinStep(c) \/ MonitorCall(c)
  PROVE  PlaceInv'
<1>0. pc \in [Threads -> Labels] /\ c \in Threads /\ c # Controller
  BY PlaceTypes
<1>s. subject \in [Threads -> 0..NodeCount + 1]
  BY DEF ControlInv, ControlTypeOK
<1>1. UNCHANGED <<pending, queue, scratch, hand, wpc, job, status, assigned, drained,
                  created>>
  BY DEF StartStep, JoinStep, MonitorCall, Start, Stop, Join, SimulateNodeFailure,
     RecoverNodeFromFailure, BeginHealthCheck, ControlFrame, workVars, taskVars, threadVars
<1>2. ASSUME NEW p \in Threads
      PROVE  \/ pc'[p] = pc[p] /\ subject'[p] = subject[p]
             \/ pc[p] \notin Working /\ pc'[p] \notin Working
  <2>1. CASE Start(c) /\ ControlFrame
    <3>1. pc[Controller] = "off" /\ pc' = [pc EXCEPT ![Controller] = "loop"] /\ UNCHANGED subject
      BY <2>1 DEF Start, Parked, Goto, ControlFrame
    <3> QED
      BY <1>0, <3>1 DEF Working
  <2>2. CASE (Stop(c) \/ Join(c)) /\ ControlFrame
    <3>1. /\ pc[c] \in {"idle", "joining"} /\ UNCHANGED subject
          /\ pc' = [pc EXCEPT ![c] = "joining"] \/ pc' = [pc EXCEPT ![c] = "idle"]
      BY <2>2 DEF Stop, Join, Goto, ControlFrame
    <3> QED
      BY <1>0, <3>1 DEF Working
  <2>3. CASE MonitorCall(c)
    <3>1. /\ pc[c] = "idle"
          /\ \/ UNCHANGED <<pc, subject>>
             \/ /\ pc' = [pc EXCEPT ![c] = "lookup"] \/ pc' = [pc EXCEPT ![c] = "check"]
                /\ \A q \in Threads : q # c => subject'[q] = subject[q]
      BY <1>s, <2>3 DEF MonitorCall, SimulateNodeFailure, RecoverNodeFromFailure,
         BeginHealthCheck, Goto, threadVars
    <3> QED
      BY <1>0, <3>1 DEF Working
  <2> QED
    BY <2>1, <2>2, <2>3 DEF StartStep, JoinStep
<1> QED
  BY <1>1, <1>2, QuietPlaces

\* Every step keeps each task in one place.
LEMMA PlaceStep == ControlInv /\ PlaceInv /\ Parked /\ [Next]_vars => PlaceInv'
<1> SUFFICES ASSUME ControlInv, PlaceInv, Parked, [Next]_vars PROVE PlaceInv'
  OBVIOUS
<1>1. ASSUME NEW p \in Threads, AllocationStep(p)
      PROVE  PlaceInv'
  <2>1. CASE BeginAllocation(p) \/ ScanEdge(p) \/ LocateNode(p)
    <3>1. UNCHANGED <<pending, queue, scratch, hand, wpc, job, status, assigned, drained,
                      created, subject>>
      BY <1>1, <2>1
      DEF BeginAllocation, ScanEdge, LocateNode, AllocationStep, workVars, taskVars
    <3>2. \/ pc' = pc
          \/ pc[p] = "allocate" /\ pc' = [pc EXCEPT ![p] = "scan"]
          \/ pc[p] = "locate" /\ pc' = [pc EXCEPT ![p] = "schedule"]
      BY <2>1 DEF BeginAllocation, ScanEdge, LocateNode, Goto
    <3>3. \A q \in Threads :
            \/ pc'[q] = pc[q]
            \/ <<pc[q], pc'[q]>> \in {<<"allocate", "scan">>, <<"locate", "schedule">>}
      BY <3>2, PlaceTypes
    <3> QED
      BY <3>1, <3>3, QuietPlaces
  <2> QED
    BY <1>1, <2>1, ReservePlaces, FailPlaces, SchedulePlaces DEF AllocationStep
<1>2. ASSUME NEW c \in Callers, StartStep(c) \/ MonitorCall(c)
      PROVE  PlaceInv'
  BY <1>2, CallPlaces
<1>3. ASSUME NEW p \in Threads, ThreadStep(p)
      PROVE  PlaceInv'
  BY <1>1, <1>3, LoopPlaces, HandlerPlaces, CallPlaces DEF ThreadStep
<1>4. CASE UNCHANGED vars
  <2>1. UNCHANGED <<pending, queue, scratch, hand, wpc, job, status, assigned, drained,
                    created, subject, pc>>
    BY <1>4 DEF vars, nodeVars, workVars, taskVars, threadVars
  <2> QED
    BY <2>1, QuietPlaces
<1> QED
  BY <1>2, <1>3, <1>4, CreatePlaces, WorkerPlaces DEF Next, Callers

\* The processing thread ends before start() can be called again.
LEMMA ParkedStep == ControlInv /\ Parked /\ [Next]_vars => Parked'
<1> SUFFICES ASSUME ControlInv, Parked, [Next]_vars, ~running', NobodyStops'
             PROVE  pc'[Controller] = "off"
  BY DEF Parked
<1>0. /\ pc \in [Threads -> Labels] /\ Controller \in Threads
      /\ \A c \in Callers : c \in Threads /\ c # Controller
  BY PlaceTypes
<1>1. ASSUME UNCHANGED running, \A c \in Callers : pc'[c] # pc[c] => pc[c] # "joining"
      PROVE  pc[Controller] = "off"
  <2>1. NobodyStops
    BY <1>1 DEF NobodyStops
  <2> QED
    BY <1>1, <2>1 DEF Parked
<1>2. CASE LoopStep
  <2>1. /\ UNCHANGED running /\ pc[Controller] \in {"loop", "metrics"}
        /\ pc' = [pc EXCEPT ![Controller] = pc'[Controller]]
    BY <1>0, <1>2 DEF LoopStep, LoopTest, Fetch, UpdateResourceMetrics, Goto
  <2> QED
    BY <1>0, <1>1, <2>1
<1>3. ASSUME NEW p \in Threads, AllocationStep(p)
      PROVE  pc'[Controller] = "off"
  <2>1. /\ UNCHANGED running /\ pc[p] \in Working
        /\ pc' = [pc EXCEPT ![p] = pc'[p]]
    BY <1>0, <1>3 DEF AllocationStep, BeginAllocation, ScanEdge, ReserveEdge, FailAllocation,
       LocateNode, ScheduleTask, Goto, Working
  <2>2. pc[Controller] = "off"
    BY <1>0, <1>1, <2>1 DEF Working
  <2> QED
    BY <1>0, <2>1, <2>2 DEF Working
<1>4. ASSUME NEW c \in Callers, HandlerStep(c) \/ CreateStep(c) \/ MonitorCall(c)
      PROVE  pc'[Controller] = "off"
  <2>1. /\ UNCHANGED running /\ pc[c] \in {"check", "lookup", "drain", "take", "idle"}
        /\ pc' = [pc EXCEPT ![c] = pc'[c]]
    BY <1>0, <1>4 DEF HandlerStep, CheckNode, EndHealthCheck, LookUpNode, DrainTest,
       TakeNothing, TakeTask, CreateStep, CreateTask, SubmitTask, MonitorCall,
       SimulateNodeFailure, RecoverNodeFromFailure, BeginHealthCheck, Goto, threadVars
  <2> QED
    BY <1>0, <1>1, <2>1
<1>5. ASSUME NEW c \in Callers, StartStep(c) \/ JoinStep(c)
      PROVE  pc'[Controller] = "off"
  <2>1. CASE Start(c)
    BY <2>1 DEF Start
  <2>2. CASE Stop(c)
    <3>1. pc'[c] = "joining"
      BY <1>0, <2>2 DEF Stop, Goto
    <3> QED
      BY <3>1 DEF NobodyStops
  <2>3. CASE Join(c)
    BY <1>0, <2>3 DEF Join, Goto
  <2> QED
    BY <1>5, <2>1, <2>2, <2>3 DEF StartStep, JoinStep
<1>6. ASSUME (\E e \in Nodes : WorkerStep(e)) \/ UNCHANGED vars
      PROVE  pc'[Controller] = "off"
  <2>1. UNCHANGED <<running, pc>>
    BY <1>6 DEF WorkerStep, vars, threadVars
  <2> QED
    BY <1>1, <2>1
<1> QED
  BY <1>2, <1>3, <1>4, <1>5, <1>6 DEF Next, ThreadStep, Callers

\* Nothing exists at the start.
LEMMA PlaceInit == Init => PlaceInv /\ Parked
<1> SUFFICES ASSUME Init PROVE PlaceInv /\ Parked
  OBVIOUS
<1>1. Unborn /\ Unplaced
  BY DEF Init, Unborn, Unplaced, Undrained
<1>2. JobPlace /\ JobState /\ JobAlone
  BY DEF Init, JobPlace, JobState, JobAlone
<1>3. Waiting /\ AtNodes
  BY PlaceTypes, InitControl DEF Init, Waiting, AtNodes, Separate, Has, In, Once
<1>4. Parked
  BY DEF Init, Parked, Threads
<1> QED
  BY <1>1, <1>2, <1>3, <1>4 DEF PlaceInv

\* The invariants hold in every reachable state.
THEOREM HeldInvariance == Spec => []HeldInv
<1>1. ControlInv /\ (PlaceInv /\ Parked) => HeldInv
  BY DEF HeldInv
<1> QED
  BY <1>1, PlaceInit, PlaceStep, ParkedStep, ControlInvariance, PTL DEF Spec

-----------------------------------------------------------------------------
(* One place, as OneHolder counts it. *)

\* A set in which all elements are equal.
LEMMA AtMostOne ==
  ASSUME NEW S, \A x, y \in S : x = y
  PROVE  Cardinality(S) = IF S = {} THEN 0 ELSE 1
<1>1. CASE S = {}
  BY <1>1, FS_EmptySet
<1>2. CASE S # {}
  <2>1. PICK x : S = {x}
    BY <1>2
  <2> QED
    BY <1>2, <2>1, FS_Singleton
<1> QED
  BY <1>1, <1>2

\* How often t is in a node's queue and its worker's buffer.
AtEach(t) == [e \in Nodes |-> At(queue[e], t) + At(scratch[e], t)]

\* The occurrences at all nodes as a sum of a function.
LEMMA AtAllIsSum ==
  ASSUME NEW t
  PROVE  MapThenSumSet(LAMBDA e : At(queue[e], t) + At(scratch[e], t), Nodes)
           = SumOver(AtEach(t), Nodes)
<1> DEFINE Recursion(g) ==
      g = [s \in SUBSET Nodes |-> IF s = {} THEN 0
             ELSE (At(queue[Picked(s)], t) + At(scratch[Picked(s)], t)) + g[s \ {Picked(s)}]]
<1>1. MapThenSumSet(LAMBDA e : At(queue[e], t) + At(scratch[e], t), Nodes)
        = (CHOOSE g : Recursion(g))[Nodes]
  BY DEF MapThenSumSet, MapThenFoldSet, Picked
<1>2. ASSUME NEW g
      PROVE  Adds(g, AtEach(t), Nodes) <=> Recursion(g)
  <2>1. \A s \in SUBSET Nodes : s # {} =>
          AtEach(t)[Picked(s)] = At(queue[Picked(s)], t) + At(scratch[Picked(s)], t)
    BY PickedIn DEF AtEach
  <2> QED
    BY <2>1 DEF Adds
<1> HIDE DEF Recursion
<1>3. (CHOOSE g : Adds(g, AtEach(t), Nodes)) = CHOOSE g : Recursion(g)
  BY <1>2
<1> QED
  BY <1>1, <1>3, SumUnfold

\* A task that is nowhere twice in a sequence.
LEMMA AtOnce ==
  ASSUME NEW s, Once(s), NEW t \in Tasks
  PROVE  At(s, t) = IF In(s, t) THEN 1 ELSE 0
<1> DEFINE I == {i \in DOMAIN s : s[i] = t}
<1>1. t # NoTask
  BY DEF Tasks, NoTask
<1>2. \A i, j \in I : i = j
  BY <1>1 DEF Once
<1>3. I = {} <=> ~In(s, t)
  BY DEF In
<1>4. At(s, t) = Cardinality(I)
  BY DEF At
<1> HIDE DEF I
<1> QED
  BY <1>2, <1>3, <1>4, AtMostOne

\* At most one node has t in its queue or buffer, and there once.
LEMMA NearOnce ==
  ASSUME HeldInv, NEW t \in Tasks
  PROVE  SumOver(AtEach(t), Nodes) =
           IF \E e \in Nodes : In(queue[e], t) \/ In(scratch[e], t) THEN 1 ELSE 0
<1> DEFINE near(e) == In(queue[e], t) \/ In(scratch[e], t)
<1>0. PlaceInv /\ IsFiniteSet(Nodes)
  BY NodeAssumption, FS_Interval DEF HeldInv, Nodes
<1>1. \A e \in Nodes : AtEach(t)[e] = IF near(e) THEN 1 ELSE 0
  <2> SUFFICES ASSUME NEW e \in Nodes
               PROVE  AtEach(t)[e] = IF near(e) THEN 1 ELSE 0
    OBVIOUS
  <2>1. /\ Once(queue[e]) /\ Once(scratch[e])
        /\ In(queue[e], t) => ~In(scratch[e], t)
    BY <1>0 DEF PlaceInv, AtNodes, Separate
  <2>2. /\ At(queue[e], t) = IF In(queue[e], t) THEN 1 ELSE 0
        /\ At(scratch[e], t) = IF In(scratch[e], t) THEN 1 ELSE 0
    BY <2>1, AtOnce
  <2> QED
    BY <2>1, <2>2 DEF AtEach
<1>2. \A e, f \in Nodes : near(e) /\ near(f) => e = f
  BY <1>0 DEF PlaceInv, AtNodes, Has
<1> DEFINE F == AtEach(t)
<1> HIDE DEF near, F
<1>3. CASE \A e \in Nodes : ~near(e)
  <2>1. \A e \in Nodes : F[e] = 0
    BY <1>1, <1>3 DEF F
  <2>2. SumOver(F, Nodes) = 0
    BY <1>0, <2>1, SumZero
  <2> QED
    BY <1>3, <2>2 DEF F, near
<1>4. ASSUME NEW n \in Nodes, near(n)
      PROVE  SumOver(F, Nodes) = 1
  <2>1. /\ \A e \in Nodes : F[e] \in Nat
        /\ F[n] = 1 /\ \A e \in Nodes \ {n} : F[e] = 0
    BY <1>1, <1>2, <1>4 DEF F
  <2>2. IsFiniteSet(Nodes \ {n})
    BY <1>0, FS_Subset
  <2>3. SumOver(F, Nodes \ {n}) = 0
    BY <2>1, <2>2, SumZero
  <2>4. SumOver(F, Nodes) = F[n] + SumOver(F, Nodes \ {n})
    BY <1>0, <2>1, SumRemove
  <2> QED
    BY <2>1, <2>3, <2>4
<1> QED
  BY <1>3, <1>4 DEF F, near

\* A task is in one of the kinds of places, and there once.
LEMMA HeldOnce == HeldInv => OneHolder
<1> SUFFICES ASSUME HeldInv, NEW t \in Tasks
             PROVE  At(pending, t)
                      + Cardinality({p \in Threads : job[p] = t})
                      + Cardinality({e \in Nodes : hand[e] = t})
                      + MapThenSumSet(LAMBDA e : At(queue[e], t) + At(scratch[e], t), Nodes)
                      <= 1
  BY Zenon DEF OneHolder
<1> DEFINE J == {p \in Threads : job[p] = t}
           H == {e \in Nodes : hand[e] = t}
           Near == \E e \in Nodes : In(queue[e], t) \/ In(scratch[e], t)
<1>0. ControlInv /\ PlaceInv /\ t # NoTask
  BY PlaceTypes DEF HeldInv
<1>1. At(pending, t) = IF In(pending, t) THEN 1 ELSE 0
  BY <1>0, AtOnce DEF PlaceInv, Waiting
<1>2. \A p, q \in J : p = q
  BY <1>0 DEF PlaceInv, JobAlone
<1>3. \A e \in H : Has(e, t)
  BY DEF Has
<1>4. \A e, f \in H : e = f
  BY <1>0, <1>3, AtNode
<1>5. J # {} => ~In(pending, t) /\ H = {} /\ ~Near
  BY <1>0 DEF PlaceInv, JobAlone, Has
<1>6. H # {} => ~In(pending, t) /\ ~Near
  <2> SUFFICES ASSUME NEW e \in Nodes, hand[e] = t PROVE ~In(pending, t) /\ ~Near
    OBVIOUS
  <2>1. Has(e, t)
    BY DEF Has
  <2>2. ~In(pending, t) /\ \A f \in Nodes : f # e => ~Has(f, t)
    BY <1>0, <2>1, AtNode
  <2>3. ~In(queue[e], t) /\ ~In(scratch[e], t)
    BY <1>0 DEF PlaceInv, AtNodes, Separate
  <2> QED
    BY <2>2, <2>3 DEF Has
<1>7. Near => ~In(pending, t)
  BY <1>0, AtNode DEF Has
<1>8. MapThenSumSet(LAMBDA e : At(queue[e], t) + At(scratch[e], t), Nodes)
        = IF Near THEN 1 ELSE 0
  BY AtAllIsSum, NearOnce, Zenon
<1> HIDE DEF J, H, Near
<1>9. /\ Cardinality(J) = IF J = {} THEN 0 ELSE 1
      /\ Cardinality(H) = IF H = {} THEN 0 ELSE 1
  BY <1>2, <1>4, AtMostOne
<1>10. At(pending, t) + Cardinality(J) + Cardinality(H) + (IF Near THEN 1 ELSE 0) <= 1
  BY <1>1, <1>5, <1>6, <1>7, <1>9
<1> QED
  BY <1>8, <1>10, Zenon DEF J, H

\* While any number of threads create, place and schedule tasks, and failure
\* handlers take them from queues that workers empty and refill step by step, a
\* task is in at most one place.
THEOREM ControlHoldsOnce == Spec => []OneHolder
BY HeldOnce, HeldInvariance, PTL

-----------------------------------------------------------------------------
(* Bandwidth. *)

Band == [t \in Tasks |-> TaskNeed[t]["bandwidth"]]

\* Bandwidth as a sum of a function.
LEMMA BandwidthIsSum ==
  ASSUME NEW S \in SUBSET Tasks
  PROVE  Bandwidth(S) = SumOver(Band, S)
<1> DEFINE Recursion(g) ==
      g = [s \in SUBSET S |-> IF s = {} THEN 0
                              ELSE TaskNeed[Picked(s)]["bandwidth"] + g[s \ {Picked(s)}]]
<1>1. Bandwidth(S) = (CHOOSE g : Recursion(g))[S]
  BY DEF Bandwidth, MapThenSumSet, MapThenFoldSet, Picked
<1>2. ASSUME NEW g
      PROVE  Adds(g, Band, S) <=> Recursion(g)
  <2>1. \A s \in SUBSET S : s # {} => Band[Picked(s)] = TaskNeed[Picked(s)]["bandwidth"]
    BY PickedIn DEF Band
  <2> QED
    BY <2>1 DEF Adds
<1> HIDE DEF Recursion
<1>3. (CHOOSE g : Adds(g, Band, S)) = CHOOSE g : Recursion(g)
  BY <1>2
<1> QED
  BY <1>1, <1>3, SumUnfold

\* Every set of tasks is finite, and reserves a natural.
LEMMA BandwidthTypes ==
  /\ \A S \in SUBSET Tasks : IsFiniteSet(S) /\ SumOver(Band, S) \in Nat
  /\ \A t \in Tasks : Band[t] \in Nat /\ Band[t] = TaskNeed[t]["bandwidth"]
<1>1. \A t \in Tasks : Band[t] \in Nat /\ Band[t] = TaskNeed[t]["bandwidth"]
  BY ControlAssumption DEF Band, Resources, Dims
<1>2. \A S \in SUBSET Tasks : IsFiniteSet(S)
  <2>1. TaskCount \in Int /\ 1 \in Int
    BY ControlAssumption
  <2>2. IsFiniteSet(Tasks)
    BY <2>1, FS_Interval DEF Tasks
  <2> QED
    BY <2>2, FS_Subset
<1>3. ASSUME NEW S \in SUBSET Tasks
      PROVE  SumOver(Band, S) \in Nat
  BY <1>1, <1>2, SumNat
<1> QED
  BY <1>1, <1>2, <1>3

\* One task more.
LEMMA BandwidthMore ==
  ASSUME NEW S \in SUBSET Tasks, NEW t \in Tasks \ S
  PROVE  SumOver(Band, S \cup {t}) = SumOver(Band, S) + Band[t]
<1>1. IsFiniteSet(S) /\ \A y \in S \cup {t} : Band[y] \in Nat
  BY BandwidthTypes
<1> QED
  BY <1>1, SumAdd

\* One task less.
LEMMA BandwidthLess ==
  ASSUME NEW S \in SUBSET Tasks, NEW t \in S
  PROVE  Band[t] <= SumOver(Band, S) /\ SumOver(Band, S \ {t}) = SumOver(Band, S) - Band[t]
<1>1. IsFiniteSet(S) /\ \A y \in S : Band[y] \in Nat
  BY BandwidthTypes
<1> QED
  BY <1>1, SumContains

ExplainedNow ==
  \A e \in Nodes :
    usage[e]["bandwidth"] = SumOver(Band, Placed(e)) + SumOver(Band, Leaked(e))

\* Both kinds of claims on a node are sets of tasks.
LEMMA ClaimSets == \A e : Placed(e) \in SUBSET Tasks /\ Leaked(e) \in SUBSET Tasks
BY DEF Placed, Leaked

\* Steps that reserve and release no bandwidth.
LEMMA QuietBandwidth ==
  ASSUME ExplainedNow, UNCHANGED <<assigned, drained>>,
         \A e \in Nodes : usage'[e]["bandwidth"] = usage[e]["bandwidth"],
         \A t \in Tasks : assigned[t] \in Nodes =>
           (status'[t] \in {"QUEUED", "RUNNING"} <=> status[t] \in {"QUEUED", "RUNNING"})
  PROVE  ExplainedNow'
<1>1. \A e \in Nodes : Placed(e)' = Placed(e) /\ Leaked(e)' = Leaked(e)
  BY DEF Placed, Leaked
<1> QED
  BY <1>1 DEF ExplainedNow

\* ReserveEdge adds one task and its bandwidth to one node.
LEMMA ReserveBandwidth ==
  ASSUME HeldInv, ExplainedNow, NEW p \in Threads, ReserveEdge(p), AllocationStep(p)
  PROVE  ExplainedNow'
<1>0. /\ status \in [Tasks -> Statuses] /\ assigned \in [Tasks -> Nodes \cup {NoNode}]
      /\ usage \in [Nodes -> Resources] /\ viable \subseteq Nodes /\ NoNode \notin Nodes
      /\ ControlInv /\ PlaceInv
  BY PlaceTypes DEF HeldInv, ControlInv, ControlTypeOK
<1>1. /\ pc[p] = "scan" /\ UNCHANGED drained
      /\ status' = [status EXCEPT ![job[p]] = "QUEUED"]
  BY DEF ReserveEdge, AllocationStep
<1>j. PICK j \in Tasks : j = job[p]
  BY <1>0, <1>1, Elsewhere DEF Working
<1>2. PICK n \in Nodes :
        /\ assigned' = [assigned EXCEPT ![j] = n]
        /\ usage' = [usage EXCEPT ![n] = AllocateResources(@, TaskNeed[j])]
  BY <1>0, <1>j DEF ReserveEdge
<1>3. assigned[j] = NoNode
  BY <1>0, <1>1, <1>j DEF PlaceInv, JobState
<1>4. ASSUME NEW e \in Nodes
      PROVE  usage'[e]["bandwidth"] = SumOver(Band, Placed(e)') + SumOver(Band, Leaked(e)')
  <2>1. Leaked(e)' = Leaked(e)
    BY <1>1 DEF Leaked
  <2>2. CASE e # n
    <3>1. Placed(e)' = Placed(e) /\ usage'[e] = usage[e]
      BY <1>0, <1>1, <1>j, <1>2, <1>3, <2>2 DEF Placed
    <3> QED
      BY <2>1, <3>1 DEF ExplainedNow
  <2>3. CASE e = n
    <3>1. Placed(e)' = Placed(e) \cup {j} /\ j \notin Placed(e)
      BY <1>0, <1>1, <1>j, <1>2, <1>3, <2>3 DEF Placed
    <3>2. usage'[e]["bandwidth"] = usage[e]["bandwidth"] + Band[j]
      BY <1>0, <1>2, <2>3, BandwidthTypes DEF AllocateResources, Dims
    <3>3. SumOver(Band, Placed(e)') = SumOver(Band, Placed(e)) + Band[j]
      BY <3>1, ClaimSets, BandwidthMore
    <3>4. SumOver(Band, Placed(e)) \in Nat /\ SumOver(Band, Leaked(e)) \in Nat /\ Band[j] \in Nat
      BY BandwidthTypes, ClaimSets
    <3> QED
      BY <2>1, <3>2, <3>3, <3>4 DEF ExplainedNow
  <2> QED
    BY <2>2, <2>3
<1> QED
  BY <1>4 DEF ExplainedNow

\* TakeTask turns a claim of one node into a leak of the same size.
LEMMA TakeLeaks ==
  ASSUME HeldInv, ExplainedNow, NEW c \in Callers, TakeTask(c), HandlerStep(c)
  PROVE  ExplainedNow'
<1>0. /\ status \in [Tasks -> Statuses] /\ assigned \in [Tasks -> Nodes \cup {NoNode}]
      /\ NoNode \notin Nodes /\ c \in Threads
      /\ ControlInv /\ PlaceInv
  BY PlaceTypes DEF HeldInv
<1>n. PICK n \in Nodes : n = subject[c]
  BY <1>0 DEF TakeTask, ControlInv, Locals
<1>1. Front(n) # NoTask /\ Dequeue(n) /\ UNCHANGED usage
  BY <1>n DEF TakeTask, HandlerStep
<1>h. PICK h \in Tasks : h = Front(n) /\ Has(n, h)
  <2>1. Once(queue[n])
    BY <1>0 DEF PlaceInv, AtNodes, Separate
  <2> QED
    BY <1>0, <1>1, <2>1, DequeueOnce DEF Has
<1>2. /\ status' = [status EXCEPT ![h] = "REALLOCATED"]
      /\ assigned' = [assigned EXCEPT ![h] = NoNode]
      /\ drained' = drained \cup {<<n, h>>}
  BY <1>n, <1>h DEF TakeTask
<1>3. status[h] \in {"QUEUED", "RUNNING"} /\ assigned[h] = n /\ <<n, h>> \notin drained
  BY <1>0, <1>h, AtNode DEF Undrained
<1>4. ASSUME NEW e \in Nodes
      PROVE  usage'[e]["bandwidth"] = SumOver(Band, Placed(e)') + SumOver(Band, Leaked(e)')
  <2>1. CASE e # n
    <3>1. Placed(e)' = Placed(e) /\ Leaked(e)' = Leaked(e)
      BY <1>0, <1>2, <1>3, <2>1 DEF Placed, Leaked
    <3> QED
      BY <1>1, <3>1 DEF ExplainedNow
  <2>2. CASE e = n
    <3>1. Placed(e)' = Placed(e) \ {h} /\ h \in Placed(e)
      BY <1>0, <1>2, <1>3, <2>2 DEF Placed
    <3>2. Leaked(e)' = Leaked(e) \cup {h} /\ h \notin Leaked(e)
      BY <1>2, <1>3, <2>2 DEF Leaked
    <3>3. SumOver(Band, Placed(e)') = SumOver(Band, Placed(e)) - Band[h]
      BY <3>1, ClaimSets, BandwidthLess
    <3>4. SumOver(Band, Leaked(e)') = SumOver(Band, Leaked(e)) + Band[h]
      BY <3>2, ClaimSets, BandwidthMore
    <3>5. SumOver(Band, Placed(e)) \in Nat /\ SumOver(Band, Leaked(e)) \in Nat /\ Band[h] \in Nat
      BY BandwidthTypes, ClaimSets
    <3> QED
      BY <1>1, <3>3, <3>4, <3>5 DEF ExplainedNow
  <2> QED
    BY <2>1, <2>2
<1> QED
  BY <1>4 DEF ExplainedNow

\* FinishTask returns what the task had reserved; the clamp never acts.
LEMMA FinishReturns ==
  ASSUME HeldInv, ExplainedNow, NEW n \in Nodes, FinishTask(n), WorkerStep(n)
  PROVE  ExplainedNow'
<1>0. /\ status \in [Tasks -> Statuses] /\ hand \in [Nodes -> Tasks \cup {NoTask}]
      /\ usage \in [Nodes -> Resources] /\ ControlInv /\ PlaceInv
  BY PlaceTypes DEF HeldInv, ControlInv, ControlTypeOK
<1>h. PICK h \in Tasks : h = hand[n]
  BY <1>0 DEF FinishTask, ControlInv, Locals
<1>1. /\ UNCHANGED <<assigned, drained>>
      /\ status' = [status EXCEPT ![h] = "FINISHED"]
      /\ usage' = [usage EXCEPT ![n] = DeallocateResources(@, TaskNeed[h])]
  BY <1>h DEF FinishTask, WorkerStep
<1>2. status[h] \in {"QUEUED", "RUNNING"} /\ assigned[h] = n
  BY <1>0, <1>h, AtNode DEF Has
<1>3. ASSUME NEW e \in Nodes
      PROVE  usage'[e]["bandwidth"] = SumOver(Band, Placed(e)') + SumOver(Band, Leaked(e)')
  <2>1. Leaked(e)' = Leaked(e)
    BY <1>1 DEF Leaked
  <2>2. CASE e # n
    <3>1. Placed(e)' = Placed(e) /\ usage'[e] = usage[e]
      BY <1>0, <1>1, <1>2, <2>2 DEF Placed
    <3> QED
      BY <2>1, <3>1 DEF ExplainedNow
  <2>3. CASE e = n
    <3>1. Placed(e)' = Placed(e) \ {h} /\ h \in Placed(e)
      BY <1>0, <1>1, <1>2, <2>3 DEF Placed
    <3>2. /\ Band[h] <= SumOver(Band, Placed(e))
          /\ SumOver(Band, Placed(e)') = SumOver(Band, Placed(e)) - Band[h]
      BY <3>1, ClaimSets, BandwidthLess
    <3>3. SumOver(Band, Placed(e)) \in Nat /\ SumOver(Band, Leaked(e)) \in Nat /\ Band[h] \in Nat
      BY BandwidthTypes, ClaimSets
    <3>4. usage[e]["bandwidth"] >= Band[h]
      BY <3>2, <3>3 DEF ExplainedNow
    <3>5. usage'[e]["bandwidth"] = usage[e]["bandwidth"] - Band[h]
      BY <1>0, <1>1, <2>3, <3>4, BandwidthTypes DEF DeallocateResources, Dims
    <3> QED
      BY <2>1, <3>2, <3>3, <3>5 DEF ExplainedNow
  <2> QED
    BY <2>2, <2>3
<1> QED
  BY <1>3 DEF ExplainedNow

\* Every step keeps bandwidth explained.
LEMMA BandwidthStep == HeldInv /\ ExplainedNow /\ [Next]_vars => ExplainedNow'
<1> SUFFICES ASSUME HeldInv, ExplainedNow, [Next]_vars PROVE ExplainedNow'
  OBVIOUS
<1>0. /\ status \in [Tasks -> Statuses] /\ assigned \in [Tasks -> Nodes \cup {NoNode}]
      /\ usage \in [Nodes -> Resources]
      /\ NoNode \notin Nodes /\ ControlInv /\ PlaceInv
  BY PlaceTypes DEF HeldInv, ControlInv, ControlTypeOK
<1>1. CASE LoopStep
  <2>1. UNCHANGED <<assigned, drained, status>>
    BY <1>1 DEF LoopStep, ControlFrame, taskVars
  <2>2. \A e \in Nodes : usage'[e]["bandwidth"] = usage[e]["bandwidth"]
    <3>1. CASE UpdateResourceMetrics
      <4>1. PICK delta \in Fluctuations :
              usage' = [e \in Nodes |->
                          IF avail[e]
                          THEN SimulateResourceFluctuation(usage[e], Capacity[e], delta[e])
                          ELSE usage[e]]
        BY <3>1 DEF UpdateResourceMetrics
      <4>2. "bandwidth" \in Dims \ FluctuatingDims
        BY DEF Dims, FluctuatingDims
      <4> QED
        BY <4>1, <4>2 DEF SimulateResourceFluctuation
    <3>2. CASE LoopTest \/ Fetch
      BY <3>2 DEF LoopTest, Fetch
    <3> QED
      BY <1>1, <3>1, <3>2 DEF LoopStep
  <2> QED
    BY <2>1, <2>2, QuietBandwidth
<1>2. ASSUME NEW p \in Threads, AllocationStep(p)
      PROVE  ExplainedNow'
  <2>1. CASE BeginAllocation(p) \/ ScanEdge(p) \/ FailAllocation(p) \/ LocateNode(p)
    <3>1. UNCHANGED <<assigned, drained, status, usage>>
      BY <1>2, <2>1 DEF AllocationStep, BeginAllocation, ScanEdge, FailAllocation,
         LocateNode, taskVars
    <3> QED
      BY <3>1, QuietBandwidth
  <2>2. CASE ScheduleTask(p)
    <3>1. /\ pc[p] = "schedule" /\ UNCHANGED <<assigned, drained, usage>>
          /\ status' = [status EXCEPT ![job[p]] = "QUEUED"]
      BY <1>2, <2>2 DEF AllocationStep, ScheduleTask
    <3>2. job[p] \in Tasks /\ status[job[p]] = "QUEUED"
      BY <1>0, <3>1, Elsewhere DEF Working, PlaceInv, JobState
    <3> QED
      BY <1>0, <3>1, <3>2, QuietBandwidth
  <2> QED
    BY <1>2, <2>1, <2>2, ReserveBandwidth DEF AllocationStep
<1>3. ASSUME NEW c \in Callers, HandlerStep(c)
      PROVE  ExplainedNow'
  <2>1. CASE ~TakeTask(c)
    <3>1. UNCHANGED <<assigned, drained, status, usage>>
      BY <1>3, <2>1 DEF HandlerStep, CheckNode, EndHealthCheck, LookUpNode, DrainTest,
         TakeNothing, taskVars
    <3> QED
      BY <3>1, QuietBandwidth
  <2> QED
    BY <1>3, <2>1, TakeLeaks
<1>4. ASSUME NEW c \in Callers, StartStep(c) \/ JoinStep(c) \/ MonitorCall(c)
      PROVE  ExplainedNow'
  <2>1. UNCHANGED <<assigned, drained, status, usage>>
    BY <1>4 DEF StartStep, JoinStep, MonitorCall, Start, Stop, Join, ControlFrame, taskVars
  <2> QED
    BY <2>1, QuietBandwidth
<1>5. ASSUME NEW c \in Submitters, CreateStep(c)
      PROVE  ExplainedNow'
  <2>1. /\ UNCHANGED <<assigned, drained, usage>> /\ created < TaskCount
        /\ status' = [status EXCEPT ![created + 1] = "CREATED"]
    BY <1>5 DEF CreateStep, CreateTask, SubmitTask, nodeVars
  <2>2. assigned[created + 1] = NoNode
    BY <1>0, <2>1, NewTask
  <2> QED
    BY <1>0, <2>1, <2>2, QuietBandwidth
<1>6. ASSUME NEW e \in Nodes, WorkerStep(e)
      PROVE  ExplainedNow'
  <2>1. CASE FinishTask(e)
    BY <1>6, <2>1, FinishReturns
  <2>2. CASE ~FinishTask(e)
    <3>1. UNCHANGED <<assigned, drained, usage>>
      BY <1>6, <2>2
      DEF WorkerStep, BeginFetch, DequeueFifo, DrainQueue, PullTask, DrainedNothing,
          SelectTask, CompareNull, RestoreOne, EndRestore
    <3>2. \A t \in Tasks : status'[t] # status[t] =>
            status[t] \in {"QUEUED", "RUNNING"} /\ status'[t] = "RUNNING"
      BY <1>0, <1>6, <2>2, WorkerPlaces, AtNode
    <3> QED
      BY <3>1, <3>2, QuietBandwidth
  <2> QED
    BY <2>1, <2>2
<1>7. CASE UNCHANGED vars
  BY <1>7, QuietBandwidth DEF vars, nodeVars, taskVars
<1> QED
  BY <1>1, <1>2, <1>3, <1>4, <1>5, <1>6, <1>7 DEF Next, ThreadStep, Callers

\* No bandwidth is reserved at the start.
LEMMA BandwidthInit == Init => ExplainedNow
<1> SUFFICES ASSUME Init, NEW e \in Nodes
             PROVE  usage[e]["bandwidth"] = SumOver(Band, Placed(e)) + SumOver(Band, Leaked(e))
  BY DEF ExplainedNow
<1>1. Placed(e) = {} /\ Leaked(e) = {} /\ usage[e]["bandwidth"] = 0
  BY DEF Init, Placed, Leaked, NoUsage, Dims
<1> QED
  BY <1>1, SumEmpty

\* A node's bandwidth is what its unfinished tasks reserved and what failure
\* handling left behind, for every fleet, any tasks and any threads.
THEOREM ControlBandwidth == Spec => []BandwidthExplained
<1>1. ExplainedNow => BandwidthExplained
  BY BandwidthIsSum, ClaimSets DEF ExplainedNow, BandwidthExplained
<1> QED
  BY <1>1, BandwidthInit, BandwidthStep, HeldInvariance, PTL DEF Spec

-----------------------------------------------------------------------------
(* Null pointers. *)

\* A failure handler has dequeued from the node.
HasDrained(e) == \E t \in Tasks : <<e, t>> \in drained

\* Unless one has, the node has no null, and a worker that saw a task in the
\* queue finds it there.
NoNulls(e) ==
  /\ wpc[e] # "crashed" /\ ~In(queue[e], NoTask) /\ ~In(scratch[e], NoTask)
  /\ wpc[e] = "pull" => queue[e] # <<>>

NullInv == \A e \in Nodes : HasDrained(e) \/ NoNulls(e)

\* The front of a queue without nulls is a task.
LEMMA FrontTask ==
  ASSUME ControlInv, PlaceInv, NEW n \in Nodes, ~In(queue[n], NoTask), queue[n] # <<>>
  PROVE  Front(n) # NoTask
<1>1. queue[n] \in Seq(Tasks \cup {NoTask}) /\ Once(queue[n])
  BY PlaceTypes DEF PlaceInv, AtNodes, Separate
<1>2. In(queue[n], Head(queue[n]))
  BY <1>1, TailOnce
<1> QED
  BY <1>2 DEF Front

\* What the steps of others leave of a node's queue, and what they add.
LEMMA QuietNulls ==
  ASSUME NullInv, UNCHANGED <<scratch, wpc>>, drained \subseteq drained',
         \A e \in Nodes :
           \/ queue'[e] = queue[e]
           \/ HasDrained(e)'
           \/ queue'[e] # <<>> /\ (~In(queue[e], NoTask) => ~In(queue'[e], NoTask))
  PROVE  NullInv'
<1> SUFFICES ASSUME NEW e \in Nodes, ~HasDrained(e)' PROVE NoNulls(e)'
  BY DEF NullInv
<1>1. ~HasDrained(e)
  BY DEF HasDrained
<1>2. NoNulls(e)
  BY <1>1 DEF NullInv
<1> QED
  BY <1>2 DEF NoNulls

\* A worker makes no null of its own.
LEMMA WorkerNulls ==
  ASSUME ControlInv, PlaceInv, NullInv, NEW n \in Nodes, WorkerStep(n)
  PROVE  NullInv'
<1>0. /\ queue \in [Nodes -> Seq(Tasks \cup {NoTask})]
      /\ scratch \in [Nodes -> Seq(Tasks \cup {NoTask})]
      /\ wpc \in [Nodes -> WorkerLabels]
      /\ queue[n] \in Seq(Tasks \cup {NoTask}) /\ scratch[n] \in Seq(Tasks \cup {NoTask})
      /\ Once(queue[n]) /\ Once(scratch[n])
  BY PlaceTypes DEF PlaceInv, AtNodes, Separate
<1>1. UNCHANGED drained /\ \A e \in Nodes : HasDrained(e)' <=> HasDrained(e)
  BY DEF WorkerStep, HasDrained
<1>2. \A e \in Nodes : e # n =>
        queue'[e] = queue[e] /\ scratch'[e] = scratch[e] /\ wpc'[e] = wpc[e]
  <2>1. /\ queue' = queue \/ Dequeue(n) \/ \E q : queue' = [queue EXCEPT ![n] = q]
        /\ scratch' = scratch \/ \E q : scratch' = [scratch EXCEPT ![n] = q]
        /\ wpc' = wpc \/ \E l : wpc' = [wpc EXCEPT ![n] = l]
    BY DEF WorkerStep, BeginFetch, DequeueFifo, DrainQueue, PullTask, DrainedNothing,
           SelectTask, CompareNull, RestoreOne, EndRestore, FinishTask, ReturnTask, GotoWorker
  <2> QED
    BY <1>0, <2>1 DEF Dequeue
<1>3. SUFFICES ASSUME NoNulls(n) PROVE NoNulls(n)'
  BY <1>1, <1>2 DEF NullInv, NoNulls
<1>4. wpc[n] # "crashed" /\ ~In(queue[n], NoTask) /\ ~In(scratch[n], NoTask)
  BY <1>3 DEF NoNulls
<1>5. CASE BeginFetch(n) \/ DrainQueue(n) \/ DrainedNothing(n) \/ EndRestore(n) \/ FinishTask(n)
  <2>1. UNCHANGED <<queue, scratch>>
    BY <1>5 DEF BeginFetch, DrainQueue, DrainedNothing, EndRestore, FinishTask
  <2>2. \E l \in {"idle", "fifo", "drain", "pull", "run"} :
          wpc' = [wpc EXCEPT ![n] = l] /\ (l = "pull" => queue[n] # <<>>)
    BY <1>5 DEF BeginFetch, DrainQueue, DrainedNothing, EndRestore, FinishTask, ReturnTask,
       GotoWorker
  <2> QED
    BY <1>0, <1>4, <2>1, <2>2 DEF NoNulls
<1>6. CASE DequeueFifo(n)
  <2>1. /\ Dequeue(n) /\ UNCHANGED scratch
        /\ \E l \in {"idle", "run"} : wpc' = [wpc EXCEPT ![n] = l]
    BY <1>6 DEF DequeueFifo, ReturnTask, GotoWorker
  <2>2. ~In(queue'[n], NoTask)
    BY <1>0, <1>4, <2>1, DequeueOnce
  <2> QED
    BY <1>0, <1>4, <2>1, <2>2 DEF NoNulls
<1>7. CASE PullTask(n)
  <2>1. /\ wpc[n] = "pull" /\ wpc' = [wpc EXCEPT ![n] = "drain"] /\ Dequeue(n)
        /\ scratch' = [scratch EXCEPT ![n] = Append(@, Front(n))]
    BY <1>7 DEF PullTask, GotoWorker
  <2>2. Front(n) # NoTask /\ Front(n) \in Tasks \cup {NoTask} /\ ~In(queue'[n], NoTask)
    BY <1>0, <1>3, <1>4, <2>1, FrontTask, DequeueOnce DEF NoNulls
  <2>3. ~In(scratch'[n], NoTask)
    <3>1. scratch'[n] = Append(scratch[n], Front(n)) /\ (Front(n) # NoTask => ~In(scratch[n], Front(n)))
      BY <1>0, <2>1, <2>2, DequeueOnce DEF PlaceInv, AtNodes, Separate
    <3> QED
      BY <1>0, <1>4, <2>2, <3>1, AppendOnce
  <2> QED
    BY <1>0, <2>1, <2>2, <2>3 DEF NoNulls
<1>8. CASE SelectTask(n)
  <2> DEFINE s == scratch[n]
  <2>1. PICK k \in DOMAIN s :
          scratch' = [scratch EXCEPT ![n] = SubSeq(s, 1, k - 1) \o SubSeq(s, k + 1, Len(s))]
    BY <1>8 DEF SelectTask
  <2>2. wpc' = [wpc EXCEPT ![n] = "restore"] /\ UNCHANGED queue
    BY <1>8 DEF SelectTask, GotoWorker
  <2>3. scratch'[n] = SubSeq(s, 1, k - 1) \o SubSeq(s, k + 1, Len(s))
    BY <1>0, <2>1
  <2>4. s \in Seq(Tasks \cup {NoTask}) /\ Once(s) /\ ~In(s, NoTask)
    BY <1>0, <1>4
  <2> HIDE DEF s
  <2>5. ~In(scratch'[n], NoTask)
    BY <2>3, <2>4, CutOnce
  <2> QED
    BY <1>0, <1>4, <2>2, <2>5 DEF NoNulls
<1>9. CASE CompareNull(n)
  BY <1>4, <1>9 DEF CompareNull, In
<1>10. CASE RestoreOne(n)
  <2> DEFINE h == Head(scratch[n])
  <2>1. /\ wpc[n] = "restore" /\ scratch[n] # <<>> /\ UNCHANGED wpc
        /\ queue'[n] = Append(queue[n], h) /\ scratch'[n] = Tail(scratch[n])
    BY <1>0, <1>10 DEF RestoreOne
  <2>2. /\ h \in Tasks \cup {NoTask} /\ In(scratch[n], h) /\ ~In(scratch'[n], NoTask)
    BY <1>0, <1>4, <2>1, TailOnce
  <2>3. h # NoTask /\ ~In(queue[n], h)
    BY <1>4, <2>2 DEF PlaceInv, AtNodes, Separate
  <2> HIDE DEF h
  <2>4. ~In(queue'[n], NoTask)
    <3>1. \A t : In(Append(queue[n], h), t) => In(queue[n], t) \/ t = h
      BY <1>0, <2>2, <2>3, AppendOnce
    <3> QED
      BY <1>4, <2>1, <2>3, <3>1
  <2> QED
    BY <1>4, <2>1, <2>2, <2>4 DEF NoNulls
<1> QED
  BY <1>5, <1>6, <1>7, <1>8, <1>9, <1>10 DEF WorkerStep

\* Only a failure handler that dequeues makes a null possible.
LEMMA NullStep == HeldInv /\ NullInv /\ [Next]_vars => NullInv'
<1> SUFFICES ASSUME HeldInv, NullInv, [Next]_vars PROVE NullInv'
  OBVIOUS
<1>0. /\ queue \in [Nodes -> Seq(Tasks \cup {NoTask})] /\ NoTask \notin Tasks
      /\ ControlInv /\ PlaceInv
  BY PlaceTypes DEF HeldInv
<1>1. ASSUME UNCHANGED <<queue, scratch, wpc, drained>>
      PROVE  NullInv'
  BY <1>1, QuietNulls
<1>2. ASSUME NEW p \in Threads, AllocationStep(p)
      PROVE  NullInv'
  <2>1. UNCHANGED <<scratch, wpc, drained>>
    BY <1>2 DEF AllocationStep, workVars
  <2>2. CASE ~ScheduleTask(p)
    <3>1. UNCHANGED queue
      BY <1>2, <2>2
      DEF AllocationStep, BeginAllocation, ScanEdge, ReserveEdge, FailAllocation, LocateNode
    <3> QED
      BY <1>1, <2>1, <3>1
  <2>3. CASE ScheduleTask(p)
    <3>1. PICK j \in Tasks : j = job[p]
      BY <1>0, <2>3, Elsewhere DEF ScheduleTask, Working
    <3>2. PICK n \in Nodes : n = assigned[j]
      BY <1>0, <2>3, <3>1 DEF ScheduleTask, PlaceInv, JobState
    <3>3. /\ queue'[n] = Append(queue[n], j) /\ \A e \in Nodes : e # n => queue'[e] = queue[e]
      BY <1>0, <2>3, <3>1, <3>2 DEF ScheduleTask
    <3>4. queue'[n] # <<>> /\ (~In(queue[n], NoTask) => ~In(queue'[n], NoTask))
      <4>1. /\ queue[n] \in Seq(Tasks \cup {NoTask}) /\ Once(queue[n])
            /\ ~In(queue[n], j) /\ j # NoTask
        BY <1>0, <2>3, <3>1, Elsewhere
        DEF ScheduleTask, Working, Has, PlaceInv, AtNodes, Separate
      <4>2. \A t : In(Append(queue[n], j), t) => In(queue[n], t) \/ t = j
        BY <4>1, AppendOnce
      <4>3. Append(queue[n], j) # <<>>
        BY <4>1
      <4> QED
        BY <3>3, <4>1, <4>2, <4>3
    <3> QED
      BY <2>1, <3>3, <3>4, QuietNulls
  <2> QED
    BY <2>2, <2>3
<1>3. CASE LoopStep
  BY <1>1, <1>3 DEF LoopStep, ControlFrame, workVars
<1>4. ASSUME NEW c \in Callers, HandlerStep(c)
      PROVE  NullInv'
  <2>1. UNCHANGED <<scratch, wpc>>
    BY <1>4 DEF HandlerStep, workVars
  <2>2. CASE CheckNode(c) \/ EndHealthCheck(c) \/ LookUpNode(c) \/ DrainTest(c)
    <3>1. UNCHANGED <<queue, drained>>
      BY <2>2 DEF CheckNode, EndHealthCheck, LookUpNode, DrainTest
    <3> QED
      BY <1>1, <2>1, <3>1
  <2>3. CASE TakeNothing(c) \/ TakeTask(c)
    <3>n. PICK n \in Nodes : n = subject[c]
      BY <1>0, <2>3 DEF TakeNothing, TakeTask, ControlInv, Locals, Threads
    <3>1. Dequeue(n) /\ \A e \in Nodes : e # n => queue'[e] = queue[e]
      BY <1>0, <2>3, <3>n DEF TakeNothing, TakeTask, Dequeue
    <3>2. CASE TakeTask(c)
      <4>1. drained' = drained \cup {<<n, Front(n)>>} /\ Front(n) # NoTask
        BY <3>2, <3>n DEF TakeTask
      <4>2. Front(n) \in Tasks
        BY <1>0, <4>1, DequeueTypes DEF ControlInv
      <4>3. HasDrained(n)' /\ drained \subseteq drained'
        BY <4>1, <4>2 DEF HasDrained
      <4> QED
        BY <2>1, <3>1, <4>3, QuietNulls
    <3>3. CASE TakeNothing(c)
      <4>1. Front(n) = NoTask /\ UNCHANGED drained
        BY <3>3, <3>n DEF TakeNothing
      <4>2. CASE queue[n] = <<>>
        <5>1. queue'[n] = queue[n]
          BY <1>0, <3>1, <4>2 DEF Dequeue
        <5> QED
          BY <2>1, <3>1, <4>1, <5>1, QuietNulls
      <4>3. CASE queue[n] # <<>>
        <5>1. ~NoNulls(n)
          BY <1>0, <4>1, <4>3, FrontTask DEF NoNulls
        <5>2. HasDrained(n)'
          BY <4>1, <5>1 DEF NullInv, HasDrained
        <5> QED
          BY <2>1, <3>1, <4>1, <5>2, QuietNulls
      <4> QED
        BY <4>2, <4>3
    <3> QED
      BY <2>3, <3>2, <3>3
  <2> QED
    BY <1>4, <2>2, <2>3 DEF HandlerStep
<1>5. ASSUME NEW c \in Callers, StartStep(c) \/ JoinStep(c) \/ MonitorCall(c)
      PROVE  NullInv'
  BY <1>1, <1>5 DEF StartStep, JoinStep, MonitorCall, ControlFrame, workVars
<1>6. ASSUME NEW c \in Submitters, CreateStep(c)
      PROVE  NullInv'
  BY <1>1, <1>6 DEF CreateStep, nodeVars, workVars
<1>7. CASE UNCHANGED vars
  BY <1>1, <1>7 DEF vars, nodeVars, workVars
<1> QED
  BY <1>0, <1>2, <1>3, <1>4, <1>5, <1>6, <1>7, WorkerNulls DEF Next, ThreadStep, Callers

\* There is no null at the start.
LEMMA NullInit == Init => NullInv
BY DEF Init, NullInv, NoNulls, In

\* A null pointer, and the crash over one, come from a failure handler that
\* dequeued from the node while its worker emptied or refilled the queue.
THEOREM ControlNulls == Spec => []NullsExplained
<1>1. NullInv => NullsExplained
  <2> SUFFICES ASSUME NullInv, NEW e \in Nodes, ~HasDrained(e)
               PROVE  /\ wpc[e] # "crashed"
                      /\ NoTask \notin Range(queue[e]) \cup Range(scratch[e])
    BY DEF NullsExplained, HasDrained
  <2>1. NoNulls(e)
    BY DEF NullInv
  <2> QED
    BY <2>1 DEF NoNulls, In, Range
<1> QED
  BY <1>1, NullInit, NullStep, HeldInvariance, PTL DEF Spec
=============================================================================
