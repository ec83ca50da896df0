--------------------------- MODULE ResourceControl ---------------------------
(***************************************************************************)
(* ResourceController (resource_controller.cpp) with what it orchestrates: *)
(* the TaskManager whose creation callback feeds it, the ResourceMonitor   *)
(* whose status callback reports node failures to it, the allocator, the   *)
(* nodes and their workers.                                                *)
(*                                                                         *)
(* Threads: the Controller (processingLoop), one worker a node, and the    *)
(* callers, threads of the program that uses these classes: Submitters     *)
(* create tasks or place a task themselves, as runExperiment does;         *)
(* Operators report failures and recoveries and ask for health checks;     *)
(* Owners start and stop the controller.  A thread may be all of these.    *)
(* A status callback runs on the thread that reports the failure.          *)
(*                                                                         *)
(* nodes_mutex_ and the two strategy_mutex_es are variables; they are      *)
(* std::mutex, so a thread that locks one it holds waits for ever.  A      *)
(* node's own critical sections are single steps: a failure handler takes  *)
(* no lock of the scheduler, so it may dequeue between any two of those    *)
(* getNextTask makes.  dequeueTask then returns null where the worker had  *)
(* just seen a task, and the null is treated like one.                     *)
(*                                                                         *)
(* Left open: which viable node allocateTask takes (ResourceAllocator has  *)
(* the strategies), the scheduling policy, which may be set between two    *)
(* fetches, and the task a comparing policy prefers (TaskScheduler).  The  *)
(* statistics counters are left out.                                       *)
(***************************************************************************)
EXTENDS EdgeNode

CONSTANTS
  Submitters,   \* threads that make tasks
  Operators,    \* threads that use the monitor
  Owners,       \* threads that start and stop the controller
  Controller,   \* the thread that runs processingLoop
  Free,         \* a mutex is not held
  TaskCount,    \* bound: tasks made, by the TaskManager or a caller
  TaskNeed,     \* resources each task requires
  Fluctuations, \* bound: how one updateResourceMetrics may move the nodes
  MaxChecks     \* bound: calls of checkEdgeNodeHealth

Tasks == 1..TaskCount
NoTask == 0
NoNode == 0
Callers == Submitters \cup Operators \cup Owners
Threads == Callers \cup {Controller}

ASSUME ControlAssumption ==
  /\ TaskCount \in Nat /\ MaxChecks \in Nat
  /\ Fluctuations \subseteq [Nodes -> [FluctuatingDims -> Int]]
  /\ TaskNeed \in [Tasks -> Resources]
  /\ Controller \notin Callers /\ Free \notin Threads

VARIABLES
  \* EdgeNode: is_available_, current_usage_, task_queue_
  avail, usage, queue,
  \* each node's worker: program counter, getNextTask's buffer, and the task
  \* it selected or executes
  wpc, scratch, hand,
  \* TaskScheduler::strategy_mutex_: the node whose worker holds it, or NoNode
  schedMutex,
  \* ResourceMonitor::nodes_mutex_, ResourceAllocator::strategy_mutex_
  nodesMutex, allocMutex,
  \* locals of getViableEdges, which runs under strategy_mutex_
  cursor, viable,
  \* TaskManager: task_counter_, task_queue_
  created, pending,
  \* Task: status_, assigned_edge_id_
  status, assigned,
  \* ResourceController: is_running_
  running,
  \* each thread: program counter, task it holds, and the node whose failure
  \* it handles or whose health it checks
  pc, job, subject,
  \* health checks made; ghost: the <<node, task>> pairs a failure handler dequeued
  checks, drained

nodeVars == <<avail, usage, queue>>
workVars == <<wpc, scratch, hand, schedMutex>>
allocVars == <<allocMutex, cursor, viable>>
taskVars == <<status, assigned>>
threadVars == <<pc, job, subject>>
vars == <<nodeVars, workVars, nodesMutex, allocVars, created, pending, taskVars,
          running, threadVars, checks, drained>>

Statuses == {"ABSENT", "CREATED", "QUEUED", "RUNNING", "FINISHED", "REALLOCATED"}
Labels ==
  {"off", "loop", "metrics", "idle", "lookup", "drain", "take",
   "allocate", "scan", "locate", "schedule", "check", "joining"}
WorkerLabels ==
  {"idle", "fifo", "drain", "pull", "restore", "run", "crashed"}

\* Every variable keeps to its type: tasks, nodes and threads only where they
\* belong, and no resource below zero.  NoTask in a node's queue or in the
\* scratch buffer is the null that dequeueTask returns from an empty queue.
ControlTypeOK ==
  /\ avail \in [Nodes -> BOOLEAN]
  /\ usage \in [Nodes -> Resources]
  /\ queue \in [Nodes -> Seq(Tasks \cup {NoTask})]
  /\ wpc \in [Nodes -> WorkerLabels]
  /\ scratch \in [Nodes -> Seq(Tasks \cup {NoTask})]
  /\ hand \in [Nodes -> Tasks \cup {NoTask}]
  /\ schedMutex \in Nodes \cup {NoNode}
  /\ nodesMutex \in Callers \cup {Free}
  /\ allocMutex \in Threads \cup {Free}
  /\ cursor \in 1..NodeCount + 1
  /\ viable \in SUBSET Nodes
  /\ created \in 0..TaskCount
  /\ pending \in Seq(Tasks)
  /\ status \in [Tasks -> Statuses]
  /\ assigned \in [Tasks -> Nodes \cup {NoNode}]
  /\ running \in BOOLEAN
  /\ pc \in [Threads -> Labels]
  /\ job \in [Threads -> Tasks \cup {NoTask}]
  /\ subject \in [Threads -> 0..NodeCount + 1]
  /\ checks \in 0..MaxChecks
  /\ drained \in SUBSET (Nodes \X Tasks)

\* Everything is constructed and registered; the controller is not started.
Init ==
  /\ avail = [e \in Nodes |-> TRUE]
  /\ usage = [e \in Nodes |-> NoUsage]
  /\ queue = [e \in Nodes |-> <<>>]
  /\ wpc = [e \in Nodes |-> "idle"]
  /\ scratch = [e \in Nodes |-> <<>>]
  /\ hand = [e \in Nodes |-> NoTask]
  /\ schedMutex = NoNode
  /\ nodesMutex = Free /\ allocMutex = Free
  /\ cursor = 1 /\ viable = {}
  /\ created = 0 /\ pending = <<>>
  /\ status = [t \in Tasks |-> "ABSENT"]
  /\ assigned = [t \in Tasks |-> NoNode]
  /\ running = FALSE
  /\ pc = [p \in Threads |-> IF p = Controller THEN "off" ELSE "idle"]
  /\ job = [p \in Threads |-> NoTask]
  /\ subject = [p \in Threads |-> NoNode]
  /\ checks = 0 /\ drained = {}

Goto(p, label) == pc' = [pc EXCEPT ![p] = label]

\* The process has not died of a null pointer; no step is taken afterwards.
Alive == \A e \in Nodes : wpc[e] # "crashed"

\* EdgeNode::dequeueTask: what it returns, and what it leaves of the queue.
Front(e) == IF queue[e] = <<>> THEN NoTask ELSE Head(queue[e])
Dequeue(e) == queue' = [queue EXCEPT ![e] = IF @ = <<>> THEN @ ELSE Tail(@)]

-----------------------------------------------------------------------------
(* allocateTask, called through allocateTaskNow. *)

BeginAllocation(p) ==
  /\ pc[p] = "allocate"
  /\ allocMutex = Free
  /\ allocMutex' = p
  /\ cursor' = 1 /\ viable' = {}
  /\ Goto(p, "scan")
  /\ UNCHANGED <<usage, queue, taskVars, job, subject>>

\* getViableEdges asks one node after another.
ScanEdge(p) ==
  /\ pc[p] = "scan" /\ cursor <= NodeCount
  /\ viable' = IF CanAllocate(avail[cursor], Capacity[cursor], usage[cursor],
                              TaskNeed[job[p]])
               THEN viable \cup {cursor} ELSE viable
  /\ cursor' = cursor + 1
  /\ UNCHANGED <<usage, queue, taskVars, allocMutex, pc, job, subject>>

\* Where allocateTaskNow returns to.
AfterAllocation(p) ==
  IF p = Controller THEN "metrics" ELSE IF subject[p] # NoNode THEN "drain" ELSE "idle"

\* Only a caller that placed the task itself goes on to schedule it; the
\* controller's own two callers of allocateTaskNow let go of the task.
ReserveEdge(p) ==
  /\ pc[p] = "scan" /\ cursor = NodeCount + 1
  /\ \E e \in viable :
       /\ usage' = [usage EXCEPT ![e] = AllocateResources(@, TaskNeed[job[p]])]
       /\ assigned' = [assigned EXCEPT ![job[p]] = e]
  /\ status' = [status EXCEPT ![job[p]] = "QUEUED"]
  /\ allocMutex' = Free
  /\ IF AfterAllocation(p) = "idle"
     THEN Goto(p, "locate") /\ UNCHANGED job
     ELSE Goto(p, AfterAllocation(p)) /\ job' = [job EXCEPT ![p] = NoTask]
  /\ cursor' = 1 /\ viable' = {}
  /\ UNCHANGED <<queue, subject>>

\* One attempt; a task without a node is counted as a failure and dropped.
FailAllocation(p) ==
  /\ pc[p] = "scan" /\ cursor = NodeCount + 1 /\ viable = {}
  /\ allocMutex' = Free
  /\ job' = [job EXCEPT ![p] = NoTask]
  /\ Goto(p, AfterAllocation(p))
  /\ cursor' = 1 /\ viable' = {}
  /\ UNCHANGED <<usage, queue, taskVars, subject>>

\* getEdgeNode of the node the allocation named locks nodes_mutex_.
LocateNode(c) ==
  /\ pc[c] = "locate" /\ nodesMutex = Free
  /\ Goto(c, "schedule")
  /\ UNCHANGED <<usage, queue, taskVars, allocVars, job, subject>>

\* scheduleTask on that node, whatever became of it since.
ScheduleTask(c) ==
  /\ pc[c] = "schedule" /\ schedMutex = NoNode
  /\ status' = [status EXCEPT ![job[c]] = "QUEUED"]
  /\ queue' = [queue EXCEPT ![assigned[job[c]]] = Append(@, job[c])]
  /\ job' = [job EXCEPT ![c] = NoTask]
  /\ Goto(c, "idle")
  /\ UNCHANGED <<usage, assigned, allocVars, subject>>

AllocationStep(p) ==
  /\ \/ BeginAllocation(p) \/ ScanEdge(p) \/ ReserveEdge(p)
     \/ FailAllocation(p) \/ LocateNode(p) \/ ScheduleTask(p)
  /\ Alive
  /\ UNCHANGED <<avail, workVars, nodesMutex, created, pending, running, checks,
                 drained>>

-----------------------------------------------------------------------------
(* Task creation. *)

\* createTaskFromSensorData: the creation callback, onTaskCreated, enqueues.
CreateTask(c) ==
  /\ pc[c] = "idle" /\ created < TaskCount
  /\ created' = created + 1
  /\ pending' = Append(pending, created + 1)
  /\ status' = [status EXCEPT ![created + 1] = "CREATED"]
  /\ UNCHANGED threadVars

\* A caller constructs a task itself and calls allocateTaskNow with it, then
\* scheduleTask: one from createTaskFromSensorData is enqueued by the callback.
SubmitTask(c) ==
  /\ pc[c] = "idle" /\ created < TaskCount
  /\ created' = created + 1
  /\ status' = [status EXCEPT ![created + 1] = "CREATED"]
  /\ job' = [job EXCEPT ![c] = created + 1]
  /\ Goto(c, "allocate")
  /\ UNCHANGED <<pending, subject>>

CreateStep(c) ==
  /\ CreateTask(c) \/ SubmitTask(c)
  /\ Alive
  /\ UNCHANGED <<nodeVars, workVars, nodesMutex, allocVars, assigned, running,
                 checks, drained>>

-----------------------------------------------------------------------------
(* processingLoop, start and stop. *)

\* Mutant: the flag is not looked at again.
LoopTestOnce ==
  /\ pc[Controller] = "loop" /\ pending = <<>>
  /\ Goto(Controller, "metrics")
  /\ UNCHANGED <<usage, pending, running, job>>

LoopTest ==
  /\ pc[Controller] = "loop" /\ (~running \/ pending = <<>>)
  /\ Goto(Controller, IF running THEN "metrics" ELSE "off")
  /\ UNCHANGED <<usage, pending, running, job>>

\* Only this thread removes tasks, so the test and dequeueTask are one step.
Fetch ==
  /\ pc[Controller] = "loop" /\ running /\ pending # <<>>
  /\ job' = [job EXCEPT ![Controller] = Head(pending)]
  /\ pending' = Tail(pending)
  /\ Goto(Controller, "allocate")
  /\ UNCHANGED <<usage, running>>

\* updateResourceMetrics.  Nodes fluctuate independently, and the loop runs
\* again and again, so one step for all of them loses no order.
UpdateResourceMetrics ==
  /\ pc[Controller] = "metrics"
  /\ nodesMutex = Free
  /\ \E delta \in Fluctuations :
       usage' = [e \in Nodes |->
                   IF avail[e]
                   THEN SimulateResourceFluctuation(usage[e], Capacity[e], delta[e])
                   ELSE usage[e]]
  /\ Goto(Controller, "loop")
  /\ UNCHANGED <<pending, running, job>>

\* start() and stop() are called by one caller at a time.
NobodyStops == \A c \in Callers : pc[c] # "joining"

Start(c) ==
  /\ pc[c] = "idle" /\ NobodyStops /\ ~running
  /\ running' = TRUE
  /\ Goto(Controller, "loop")
  /\ UNCHANGED <<usage, pending, job>>

Stop(c) ==
  /\ pc[c] = "idle" /\ NobodyStops /\ running
  /\ running' = FALSE
  /\ Goto(c, "joining")
  /\ UNCHANGED <<usage, pending, job>>

Join(c) ==
  /\ pc[c] = "joining" /\ pc[Controller] = "off"
  /\ Goto(c, "idle")
  /\ UNCHANGED <<usage, pending, running, job>>

ControlFrame ==
  /\ Alive
  /\ UNCHANGED <<avail, queue, workVars, nodesMutex, allocVars, created,
                 taskVars, subject, checks, drained>>

LoopStep == (LoopTest \/ Fetch \/ UpdateResourceMetrics) /\ ControlFrame
StartStep(c) == (Start(c) \/ Stop(c)) /\ ControlFrame
JoinStep(c) == Join(c) /\ ControlFrame

-----------------------------------------------------------------------------
(* ResourceMonitor and the controller's status callback. *)

\* simulateNodeFailure up to the callback, which runs without the mutex.
SimulateNodeFailure(c) ==
  /\ pc[c] = "idle" /\ nodesMutex = Free
  /\ \E e \in Nodes :
       /\ avail' = [avail EXCEPT ![e] = FALSE]
       /\ subject' = [subject EXCEPT ![c] = e]
  /\ Goto(c, "lookup")
  /\ UNCHANGED <<nodesMutex, job, checks>>

\* recoverNodeFromFailure; the controller ignores the callback.
RecoverNodeFromFailure(c) ==
  /\ pc[c] = "idle" /\ nodesMutex = Free
  /\ \E e \in Nodes : avail' = [avail EXCEPT ![e] = TRUE]
  /\ UNCHANGED <<nodesMutex, threadVars, checks>>

\* checkEdgeNodeHealth holds nodes_mutex_ from here to the end of its loop.
BeginHealthCheck(c) ==
  /\ pc[c] = "idle" /\ nodesMutex = Free
  /\ checks < MaxChecks /\ checks' = checks + 1
  /\ nodesMutex' = c
  /\ subject' = [subject EXCEPT ![c] = 1]
  /\ Goto(c, "check")
  /\ UNCHANGED <<avail, job>>

MonitorCall(c) ==
  /\ SimulateNodeFailure(c) \/ RecoverNodeFromFailure(c) \/ BeginHealthCheck(c)
  /\ Alive
  /\ UNCHANGED <<usage, queue, workVars, allocVars, created, pending, taskVars,
                 running, drained>>

\* The callback of a healthy node does nothing; that of another one is
\* handleNodeFailure, as for a failure reported directly.
CheckNode(c) ==
  /\ pc[c] = "check" /\ subject[c] <= NodeCount
  /\ IF avail[subject[c]]
     THEN subject' = [subject EXCEPT ![c] = @ + 1] /\ UNCHANGED pc
     ELSE Goto(c, "lookup") /\ UNCHANGED subject
  /\ UNCHANGED <<queue, nodesMutex, taskVars, job, drained>>

EndHealthCheck(c) ==
  /\ pc[c] = "check" /\ subject[c] = NodeCount + 1
  /\ nodesMutex' = Free
  /\ subject' = [subject EXCEPT ![c] = NoNode]
  /\ Goto(c, "idle")
  /\ UNCHANGED <<queue, taskVars, job, drained>>

\* getEdgeNode locks nodes_mutex_.
LookUpNode(c) ==
  /\ pc[c] = "lookup" /\ nodesMutex = Free
  /\ Goto(c, "drain")
  /\ UNCHANGED <<queue, nodesMutex, taskVars, job, subject, drained>>

\* Mutant: the loop goes on although the queue is empty.
DrainForever(c) ==
  /\ pc[c] = "drain"
  /\ Goto(c, "take")
  /\ UNCHANGED <<queue, nodesMutex, taskVars, job, subject, drained>>

\* while (failed_node->hasTasksInQueue())
DrainTest(c) ==
  /\ pc[c] = "drain"
  /\ IF queue[subject[c]] = <<>>
     THEN Goto(c, "idle") /\ subject' = [subject EXCEPT ![c] = NoNode]
     ELSE Goto(c, "take") /\ UNCHANGED subject
  /\ UNCHANGED <<queue, nodesMutex, taskVars, job, drained>>

\* The worker was faster, or had restored a null: continue.
TakeNothing(c) ==
  /\ pc[c] = "take" /\ Front(subject[c]) = NoTask
  /\ Dequeue(subject[c])
  /\ Goto(c, "drain")
  /\ UNCHANGED <<nodesMutex, taskVars, job, subject, drained>>

\* Mutant: front() without pop().
TakeFront(c) ==
  /\ pc[c] = "take" /\ Front(subject[c]) # NoTask
  /\ LET t == Front(subject[c])
     IN  /\ job' = [job EXCEPT ![c] = t]
         /\ status' = [status EXCEPT ![t] = "REALLOCATED"]
         /\ assigned' = [assigned EXCEPT ![t] = NoNode]
         /\ drained' = drained \cup {<<subject[c], t>>}
  /\ Goto(c, "allocate")
  /\ UNCHANGED <<queue, nodesMutex, subject>>

\* The reservation on the failed node is not returned.
TakeTask(c) ==
  /\ pc[c] = "take" /\ Front(subject[c]) # NoTask
  /\ LET t == Front(subject[c])
     IN  /\ job' = [job EXCEPT ![c] = t]
         /\ status' = [status EXCEPT ![t] = "REALLOCATED"]
         /\ assigned' = [assigned EXCEPT ![t] = NoNode]
         /\ drained' = drained \cup {<<subject[c], t>>}
  /\ Dequeue(subject[c])
  /\ Goto(c, "allocate")
  /\ UNCHANGED <<nodesMutex, subject>>

HandlerStep(c) ==
  /\ \/ CheckNode(c) \/ EndHealthCheck(c) \/ LookUpNode(c)
     \/ DrainTest(c) \/ TakeNothing(c) \/ TakeTask(c)
  /\ Alive
  /\ UNCHANGED <<avail, usage, workVars, allocVars, created, pending, running,
                 checks>>

-----------------------------------------------------------------------------
(* The worker of a node: getNextTask under the scheduler's mutex, which no *)
(* failure handler takes, then the execution.                              *)

GotoWorker(e, label) == wpc' = [wpc EXCEPT ![e] = label]

\* Mutant: the worker of a failed node rests.
BeginFetchIfAvailable(e) ==
  /\ wpc[e] = "idle" /\ schedMutex = NoNode /\ queue[e] # <<>> /\ avail[e]
  /\ schedMutex' = e
  /\ \E label \in {"fifo", "drain"} : GotoWorker(e, label)
  /\ UNCHANGED <<usage, queue, status, scratch, hand>>

\* The lock and the first hasTasksInQueue.  The worker does not ask whether
\* its node is available.
BeginFetch(e) ==
  /\ wpc[e] = "idle" /\ schedMutex = NoNode /\ queue[e] # <<>>
  /\ schedMutex' = e
  /\ \E label \in {"fifo", "drain"} : GotoWorker(e, label)
  /\ UNCHANGED <<usage, queue, status, scratch, hand>>

\* getNextTask returns: a null makes the worker sleep, a task is executed.
\* No other thread reads the status of a task in execution, so that it is
\* set to RUNNING here loses nothing.
ReturnTask(e, t) ==
  /\ schedMutex' = NoNode
  /\ hand' = [hand EXCEPT ![e] = t]
  /\ IF t = NoTask
     THEN GotoWorker(e, "idle") /\ UNCHANGED status
     ELSE GotoWorker(e, "run") /\ status' = [status EXCEPT ![t] = "RUNNING"]

DequeueFifo(e) ==
  /\ wpc[e] = "fifo"
  /\ Dequeue(e)
  /\ ReturnTask(e, Front(e))
  /\ UNCHANGED <<usage, scratch>>

\* The draining loop's hasTasksInQueue, and its dequeueTask.
DrainQueue(e) ==
  /\ wpc[e] = "drain" /\ queue[e] # <<>>
  /\ GotoWorker(e, "pull")
  /\ UNCHANGED <<usage, queue, status, scratch, hand, schedMutex>>

\* Mutant: the loop ends at the first null, which is kept.
PullToTheEnd(e) ==
  /\ wpc[e] = "pull"
  /\ scratch' = [scratch EXCEPT ![e] = Append(@, Front(e))]
  /\ Dequeue(e)
  /\ GotoWorker(e, IF queue[e] = <<>> THEN "drain" ELSE "pull")
  /\ UNCHANGED <<usage, status, hand, schedMutex>>

PullTask(e) ==
  /\ wpc[e] = "pull"
  /\ scratch' = [scratch EXCEPT ![e] = Append(@, Front(e))]
  /\ Dequeue(e)
  /\ GotoWorker(e, "drain")
  /\ UNCHANGED <<usage, status, hand, schedMutex>>

DrainedNothing(e) ==
  /\ wpc[e] = "drain" /\ queue[e] = <<>> /\ scratch[e] = <<>>
  /\ ReturnTask(e, NoTask)
  /\ UNCHANGED <<usage, queue, scratch>>

\* ROUND_ROBIN_TIME_SLICE takes the front, whatever it is; the other two
\* compare the tasks of a buffer that holds several.
SelectTask(e) ==
  /\ wpc[e] = "drain" /\ queue[e] = <<>>
  /\ \E k \in DOMAIN scratch[e] :
       /\ k = 1 \/ \A i \in DOMAIN scratch[e] : scratch[e][i] # NoTask
       /\ hand' = [hand EXCEPT ![e] = scratch[e][k]]
       /\ scratch' = [scratch EXCEPT ![e] =
                        SubSeq(@, 1, k - 1) \o SubSeq(@, k + 1, Len(@))]
  /\ GotoWorker(e, "restore")
  /\ UNCHANGED <<usage, queue, status, schedMutex>>

\* A comparing policy dereferences every entry, a null as well.
CompareNull(e) ==
  /\ wpc[e] = "drain" /\ queue[e] = <<>> /\ Len(scratch[e]) > 1
  /\ \E i \in DOMAIN scratch[e] : scratch[e][i] = NoTask
  /\ GotoWorker(e, "crashed")
  /\ UNCHANGED <<usage, queue, status, scratch, hand, schedMutex>>

RestoreOne(e) ==
  /\ wpc[e] = "restore" /\ scratch[e] # <<>>
  /\ queue' = [queue EXCEPT ![e] = Append(@, Head(scratch[e]))]
  /\ scratch' = [scratch EXCEPT ![e] = Tail(@)]
  /\ UNCHANGED <<usage, status, wpc, hand, schedMutex>>

EndRestore(e) ==
  /\ wpc[e] = "restore" /\ scratch[e] = <<>>
  /\ ReturnTask(e, hand[e])
  /\ UNCHANGED <<usage, queue, scratch>>

\* Completed or failed, and the reservation returned.
FinishTask(e) ==
  /\ wpc[e] = "run"
  /\ status' = [status EXCEPT ![hand[e]] = "FINISHED"]
  /\ usage' = [usage EXCEPT ![e] = DeallocateResources(@, TaskNeed[hand[e]])]
  /\ hand' = [hand EXCEPT ![e] = NoTask]
  /\ GotoWorker(e, "idle")
  /\ UNCHANGED <<queue, scratch, schedMutex>>

WorkerStep(e) ==
  /\ \/ BeginFetch(e) \/ DequeueFifo(e) \/ DrainQueue(e) \/ PullTask(e)
     \/ DrainedNothing(e) \/ SelectTask(e) \/ CompareNull(e)
     \/ RestoreOne(e) \/ EndRestore(e) \/ FinishTask(e)
  /\ Alive
  /\ UNCHANGED <<avail, nodesMutex, allocVars, created, pending, assigned,
                 running, threadVars, checks, drained>>

ThreadStep(p) ==
  \/ AllocationStep(p)
  \/ p = Controller /\ LoopStep
  \/ p \in Callers /\ (HandlerStep(p) \/ JoinStep(p))

Next ==
  \/ \E p \in Threads : ThreadStep(p)
  \/ \E c \in Submitters : CreateStep(c)
  \/ \E c \in Operators : MonitorCall(c)
  \/ \E c \in Owners : StartStep(c)
  \/ \E e \in Nodes : WorkerStep(e)

Spec == Init /\ [][Next]_vars

\* The operating system runs every thread that can run; nothing obliges a
\* caller to call.
FairSpec ==
  /\ Spec
  /\ \A p \in Threads : WF_vars(ThreadStep(p))
  /\ \A e \in Nodes : WF_vars(WorkerStep(e))

-----------------------------------------------------------------------------

\* A resource without background load is never overcommitted, although the
\* controller and any number of failure handlers place tasks at the same
\* time, each checking all nodes before it reserves on one.
CapacityKept ==
  \A e \in Nodes, d \in Dims \ FluctuatingDims : usage[e][d] <= Capacity[e][d]

Placed(e) == {t \in Tasks : assigned[t] = e /\ status[t] \in {"QUEUED", "RUNNING"}}
Leaked(e) == {t \in Tasks : <<e, t>> \in drained}
Bandwidth(tasks) == MapThenSumSet(LAMBDA t : TaskNeed[t]["bandwidth"], tasks)

\* A node's bandwidth is what its unfinished tasks reserved, once each, plus
\* the reservations that reallocateTasksFromFailedNode left behind when it
\* dequeued tasks there: that is the only leak, and nothing ever returns it.
BandwidthExplained ==
  \A e \in Nodes :
    usage[e]["bandwidth"] = Bandwidth(Placed(e)) + Bandwidth(Leaked(e))

At(seq, t) == Cardinality({i \in DOMAIN seq : seq[i] = t})

\* A task is in at most one place: the TaskManager's queue, one node's queue
\* or scratch buffer, one worker's or one thread's hands, while workers empty
\* and refill the node queue from which failure handlers dequeue.
OneHolder ==
  \A t \in Tasks :
    At(pending, t)
      + Cardinality({p \in Threads : job[p] = t})
      + Cardinality({e \in Nodes : hand[e] = t})
      + MapThenSumSet(LAMBDA e : At(queue[e], t) + At(scratch[e], t), Nodes) <= 1

\* A null pointer in a node's queue or in getNextTask's buffer, and the death
\* of the process when a policy compares it, come from a failure handler that
\* dequeued from that node and from nothing else: not from the draining loop,
\* nor from the refilling one.
NullsExplained ==
  \A e \in Nodes :
    \/ wpc[e] # "crashed"
       /\ NoTask \notin Range(queue[e]) \cup Range(scratch[e])
    \/ \E t \in Tasks : <<e, t>> \in drained
=============================================================================
