---------------------------- MODULE LiveRuntime -----------------------------
(***************************************************************************)
(* The live runtime (live_runtime.cpp) with the parts it composes: the     *)
(* allocator, the scheduler, one executor worker per node, the dashboard   *)
(* clients that call applyConfiguration, and the rows of the database.     *)
(*                                                                         *)
(* Threads: the Producer (processingLoop), one worker per node             *)
(* (executeTasksForEdge), any number of Clients (HTTP handlers), and the   *)
(* main thread, which may call stop() at any time.  A step is what a       *)
(* thread does between two points where another thread can observe it.     *)
(* configuration_mutex_ and the scheduler's strategy_mutex_ are variables. *)
(* The allocator's strategy_mutex_ is not: every thread that takes it to   *)
(* change something already holds configuration_mutex_.                    *)
(*                                                                         *)
(* Left out: the resource_history table, an append-only log of readings,   *)
(* and the elapsed-time totals.  Whether a task meets its deadline is a    *)
(* free choice made when it ends.                                          *)
(***************************************************************************)
EXTENDS ResourceAllocator, TaskScheduler

CONSTANTS
  DeviceProfile,      \* requirements of the tasks of device 1, 2, ...
  DueTime,            \* creation instant plus deadline_ms of each task
  TaskCount,          \* config_.task_count
  MaxRetries,         \* 200 in processingLoop
  Producer,           \* the thread that runs processingLoop
  Clients,            \* HTTP handler threads
  Free,               \* configuration_mutex_ is not held
  InitialConfigs,     \* command lines: [automatic, allocation, scheduling]
  ManualRequests,     \* what a client may ask for: [allocation, scheduling]
  AutomaticRequests,  \* whether a client may ask for automatic mode
  MaxRequests         \* bound: calls of applyConfiguration per client

Tasks == 1..TaskCount
NoTask == 0
NoNode == 0
Threads == {Producer} \cup Clients
Configurations == [allocation : Strategies, scheduling : Policies]

ASSUME RuntimeAssumption ==
  /\ Len(DeviceProfile) \in Nat \ {0}
  /\ DeviceProfile \in Seq(Requirements)
  /\ TaskCount \in Nat
  /\ DueTime \in [Tasks -> Nat]
  /\ MaxRetries \in Nat /\ MaxRequests \in Nat
  /\ Producer \notin Clients /\ Free \notin Threads
  /\ InitialConfigs \subseteq [automatic : BOOLEAN, allocation : Strategies,
                               scheduling : Policies]
  /\ ManualRequests \subseteq Configurations
  /\ AutomaticRequests \in BOOLEAN

\* Tasks come from the devices in turn; the sensor type fixes the profile.
Req(t) == DeviceProfile[((t - 1) % Len(DeviceProfile)) + 1]
Need(t) == Req(t).need

VARIABLES
  \* EdgeNode: current_usage_, task_queue_, total_tasks_processed_
  usage, queue, processed,
  \* ResourceAllocator: strategy_, round_robin_index_, its three counters
  allocStrategy, rrIndex, allocs,
  \* TaskScheduler: strategy_, total_tasks_scheduled_, strategy_mutex_ (the
  \* node whose worker holds it across steps, or NoNode)
  schedStrategy, scheduled, schedMutex,
  \* Task: status_, assigned_edge_id_; used is the strategy that placed it
  status, assigned, used,
  \* DatabaseManager: tasks.status, rows of task_allocations and, per task,
  \* the number of rows of task_execution
  dbStatus, dbRows, dbExec,
  \* every thread that may change the configuration: program counter and
  \* the choice it is about to install; configuration_mutex_'s holder;
  \* chooseRecommendedConfiguration: the next node to read, cpu_total so far
  pc, target, cfgMutex, probe, load,
  \* locals of processingLoop, allocateTaskWithRetry and the strategies;
  \* generated is generated_tasks_
  generated, attempt, cursor, viable, seenUsage, seenQueue,
  \* locals of the workers
  wpc, scratch, hand, met,
  \* TaskExecutor: active_tasks_, its two counters, is_running_
  active, executed, failed, execRunning,
  \* config_ as applyConfiguration leaves it; calls made so far
  automatic, requested, requests,
  \* stop(), running_, processing_complete_; outcome says why draining ended
  stopPc, running, complete, outcome

edgeVars == <<usage, queue, processed>>
allocVars == <<allocStrategy, rrIndex, allocs>>
schedVars == <<schedStrategy, scheduled, schedMutex>>
taskVars == <<status, assigned, used>>
dbVars == <<dbStatus, dbRows, dbExec>>
threadVars == <<pc, target, cfgMutex, probe, load>>
scanVars == <<attempt, cursor, viable, seenUsage, seenQueue>>
workVars == <<wpc, scratch, hand, met>>
execVars == <<active, executed, failed, execRunning>>
confVars == <<automatic, requested, requests>>
lifeVars == <<stopPc, running, complete, outcome>>
vars == <<edgeVars, allocVars, schedVars, taskVars, dbVars, threadVars,
          generated, scanVars, workVars, execVars, confVars, lifeVars>>

Statuses == {"ABSENT", "CREATED", "QUEUED", "RUNNING", "COMPLETED", "FAILED"}
Rows == [edge : Nodes \cup {NoNode}, strategy : Strategies \cup {"none"}]
ThreadPcs ==
  {"idle", "automatic", "manual", "setPolicy", "recommend", "setAllocation",
   "setScheduling", "head", "generate", "acquire", "scan", "read", "reserve",
   "credit", "schedule", "saveAllocation", "saveFailure", "poll", "finish", "done"}
WorkerPcs ==
  {"idle", "fetch", "drain", "restore", "start", "activate", "run", "release",
   "count", "record", "exited"}

EdgeTypeOK ==
  /\ usage \in [Nodes -> Resources]
  /\ queue \in [Nodes -> Seq(Tasks)]
  /\ processed \in [Nodes -> Nat]
AllocatorTypeOK ==
  /\ allocStrategy \in Strategies
  /\ rrIndex \in Nat
  /\ allocs \in [total : Nat, successful : Nat, failed : Nat]
SchedulerTypeOK ==
  /\ schedStrategy \in Policies
  /\ scheduled \in Nat
  /\ schedMutex \in Nodes \cup {NoNode}
TaskTypeOK ==
  /\ status \in [Tasks -> Statuses]
  /\ assigned \in [Tasks -> Nodes \cup {NoNode}]
  /\ used \in [Tasks -> Strategies \cup {"none"}]
DatabaseTypeOK ==
  /\ dbStatus \in [Tasks -> Statuses]
  /\ dbRows \in [Tasks -> Seq(Rows)]
  /\ dbExec \in [Tasks -> Nat]
ThreadTypeOK ==
  /\ pc \in [Threads -> ThreadPcs]
  /\ target \in [Threads -> Configurations]
  /\ cfgMutex \in Threads \cup {Free}
  /\ probe \in [Threads -> 1..NodeCount + 1]
  /\ load \in [Threads -> Nat]
ScanTypeOK ==
  /\ generated \in 0..TaskCount
  /\ attempt \in 0..MaxRetries
  /\ cursor \in 1..NodeCount + 1
  /\ viable \in SUBSET Nodes
  /\ seenUsage \in [Nodes -> Resources]
  /\ seenQueue \in [Nodes -> Nat]
WorkerTypeOK ==
  /\ wpc \in [Nodes -> WorkerPcs]
  /\ scratch \in [Nodes -> Seq(Tasks)]
  /\ hand \in [Nodes -> Tasks \cup {NoTask}]
  /\ met \in [Nodes -> BOOLEAN]
ExecutorTypeOK ==
  /\ active \in SUBSET Tasks
  /\ executed \in Nat /\ failed \in Nat
  /\ execRunning \in BOOLEAN
ConfigurationTypeOK ==
  /\ automatic \in BOOLEAN
  /\ requested \in Configurations
  /\ requests \in [Clients -> 0..MaxRequests]
LifeTypeOK ==
  /\ stopPc \in {"none", "requested", "joining", "stopped"}
  /\ running \in BOOLEAN /\ complete \in BOOLEAN
  /\ outcome \in {"none", "drained", "stopped", "expired"}

\* Every variable keeps to its type; in particular the producer never
\* generates more than task_count tasks nor retries beyond the limit.
TypeOK ==
  /\ EdgeTypeOK /\ AllocatorTypeOK /\ SchedulerTypeOK /\ TaskTypeOK
  /\ DatabaseTypeOK /\ ThreadTypeOK /\ ScanTypeOK /\ WorkerTypeOK
  /\ ExecutorTypeOK /\ ConfigurationTypeOK /\ LifeTypeOK

-----------------------------------------------------------------------------
(* chooseRecommendedConfiguration. *)

\* The CPU load of a node in percent, in units of 1/Scale.
CpuLoad(e) ==
  IF Capacity[e]["cpu"] > 0
  THEN (usage[e]["cpu"] * 100 * Scale) \div Capacity[e]["cpu"]
  ELSE 0

Recommended(cpuTotal) ==
  [allocation |-> IF cpuTotal >= 70 * Scale * NodeCount
                  THEN "LEAST_LOAD" ELSE "MULTI_CONSTRAINT",
   scheduling |-> IF cpuTotal >= 60 * Scale * NodeCount
                  THEN "EARLIEST_DEADLINE_FIRST" ELSE "PRIORITY_BASED"]

\* The state when start() has returned.  initialize() has installed the
\* recommendation for an idle fleet if the command line says --auto.
Init ==
  /\ usage = [e \in Nodes |-> NoUsage]
  /\ queue = [e \in Nodes |-> <<>>]
  /\ processed = [e \in Nodes |-> 0]
  /\ \E c \in InitialConfigs :
       LET choice == [allocation |-> c.allocation, scheduling |-> c.scheduling]
           effective == IF c.automatic THEN Recommended(0) ELSE choice
       IN  /\ automatic = c.automatic
           /\ requested = choice
           /\ allocStrategy = effective.allocation
           /\ schedStrategy = effective.scheduling
           /\ target = [p \in Threads |-> effective]
  /\ rrIndex = 0
  /\ allocs = [total |-> 0, successful |-> 0, failed |-> 0]
  /\ scheduled = 0 /\ schedMutex = NoNode
  /\ status = [t \in Tasks |-> "ABSENT"]
  /\ assigned = [t \in Tasks |-> NoNode]
  /\ used = [t \in Tasks |-> "none"]
  /\ dbStatus = [t \in Tasks |-> "ABSENT"]
  /\ dbRows = [t \in Tasks |-> <<>>]
  /\ dbExec = [t \in Tasks |-> 0]
  /\ pc = [p \in Threads |-> IF p = Producer THEN "head" ELSE "idle"]
  /\ cfgMutex = Free
  /\ probe = [p \in Threads |-> 1]
  /\ load = [p \in Threads |-> 0]
  /\ generated = 0 /\ attempt = 0 /\ cursor = 1 /\ viable = {}
  /\ seenUsage = [e \in Nodes |-> NoUsage]
  /\ seenQueue = [e \in Nodes |-> 0]
  /\ wpc = [e \in Nodes |-> "idle"]
  /\ scratch = [e \in Nodes |-> <<>>]
  /\ hand = [e \in Nodes |-> NoTask]
  /\ met = [e \in Nodes |-> FALSE]
  /\ active = {} /\ executed = 0 /\ failed = 0 /\ execRunning = TRUE
  /\ requests = [c \in Clients |-> 0]
  /\ stopPc = "none" /\ running = TRUE /\ complete = FALSE /\ outcome = "none"

Goto(p, label) == pc' = [pc EXCEPT ![p] = label]

\* The nodes are read one after another, before configuration_mutex_ is
\* taken.
ReadLoad(p) ==
  /\ pc[p] = "recommend"
  /\ probe[p] <= NodeCount
  /\ load' = [load EXCEPT ![p] = @ + CpuLoad(probe[p])]
  /\ probe' = [probe EXCEPT ![p] = @ + 1]
  /\ UNCHANGED <<allocStrategy, schedStrategy, pc, target, cfgMutex>>

Recommend(p) ==
  /\ pc[p] = "recommend"
  /\ probe[p] = NodeCount + 1
  /\ target' = [target EXCEPT ![p] = Recommended(load[p])]
  /\ load' = [load EXCEPT ![p] = 0]
  /\ probe' = [probe EXCEPT ![p] = 1]
  /\ Goto(p, "setAllocation")
  /\ UNCHANGED <<allocStrategy, schedStrategy, cfgMutex>>

\* Mutant: configuration_mutex_ is not taken.
SetAllocationUnlocked(p) ==
  /\ pc[p] = "setAllocation"
  /\ allocStrategy' = target[p].allocation
  /\ Goto(p, "setScheduling")
  /\ UNCHANGED <<schedStrategy, target, cfgMutex, probe, load>>

SetAllocation(p) ==
  /\ pc[p] = "setAllocation"
  /\ cfgMutex = Free
  /\ cfgMutex' = p
  /\ allocStrategy' = target[p].allocation
  /\ Goto(p, "setScheduling")
  /\ UNCHANGED <<schedStrategy, target, probe, load>>

SetScheduling(p) ==
  /\ pc[p] = "setScheduling"
  /\ schedMutex = NoNode
  /\ schedStrategy' = target[p].scheduling
  /\ cfgMutex' = Free
  /\ Goto(p, IF p = Producer THEN "generate" ELSE "idle")
  /\ UNCHANGED <<allocStrategy, target, probe, load>>

-----------------------------------------------------------------------------
(* applyConfiguration.  A call with an unsupported name changes nothing. *)

RequestAutomatic(c) ==
  /\ pc[c] = "idle" /\ requests[c] < MaxRequests /\ AutomaticRequests
  /\ requests' = [requests EXCEPT ![c] = @ + 1]
  /\ Goto(c, "automatic")
  /\ UNCHANGED target

ApplyAutomatic(c) ==
  /\ pc[c] = "automatic"
  /\ cfgMutex = Free
  /\ automatic' = TRUE
  /\ Goto(c, "recommend")
  /\ UNCHANGED <<allocStrategy, schedStrategy, cfgMutex, requested>>

RequestManual(c) ==
  /\ pc[c] = "idle" /\ requests[c] < MaxRequests
  /\ requests' = [requests EXCEPT ![c] = @ + 1]
  /\ \E r \in ManualRequests : target' = [target EXCEPT ![c] = r]
  /\ Goto(c, "manual")

\* Mutant: configuration_mutex_ is not taken.
ApplyManualUnlocked(c) ==
  /\ pc[c] = "manual"
  /\ allocStrategy' = target[c].allocation
  /\ Goto(c, "setPolicy")
  /\ UNCHANGED <<schedStrategy, automatic, requested, cfgMutex>>

ApplyManual(c) ==
  /\ pc[c] = "manual"
  /\ cfgMutex = Free
  /\ cfgMutex' = c
  /\ allocStrategy' = target[c].allocation
  /\ Goto(c, "setPolicy")
  /\ UNCHANGED <<schedStrategy, automatic, requested>>

ApplyManualScheduling(c) ==
  /\ pc[c] = "setPolicy"
  /\ schedMutex = NoNode
  /\ schedStrategy' = target[c].scheduling
  /\ automatic' = FALSE
  /\ requested' = target[c]
  /\ cfgMutex' = Free
  /\ Goto(c, "idle")
  /\ UNCHANGED allocStrategy

-----------------------------------------------------------------------------
(* processingLoop up to the draining loop. *)

\* automatic_mode is read without configuration_mutex_.
BeginIteration ==
  /\ pc[Producer] = "head"
  /\ generated < TaskCount
  /\ stopPc = "none"
  /\ Goto(Producer, IF automatic THEN "recommend" ELSE "generate")
  /\ UNCHANGED <<allocs, status, dbStatus, cfgMutex, generated, attempt,
                 cursor, viable>>

LeaveLoop ==
  /\ pc[Producer] = "head"
  /\ generated = TaskCount \/ stopPc # "none"
  /\ cursor' = 1
  /\ Goto(Producer, "poll")
  /\ UNCHANGED <<allocs, status, dbStatus, cfgMutex, generated, attempt,
                 viable>>

\* createTaskFromSensorData and saveTask.
Generate ==
  /\ pc[Producer] = "generate"
  /\ generated' = generated + 1
  /\ status' = [status EXCEPT ![generated + 1] = "CREATED"]
  /\ dbStatus' = [dbStatus EXCEPT ![generated + 1] = "CREATED"]
  /\ Goto(Producer, "acquire")
  /\ UNCHANGED <<allocs, cfgMutex, attempt, cursor, viable>>

AcquireConfiguration ==
  /\ pc[Producer] = "acquire"
  /\ cfgMutex = Free
  /\ cfgMutex' = Producer
  /\ allocs' = [allocs EXCEPT !.total = @ + 1]
  /\ attempt' = 0 /\ cursor' = 1 /\ viable' = {}
  /\ Goto(Producer, "scan")
  /\ UNCHANGED <<status, dbStatus, generated>>

\* getViableEdges asks one node after another.
ScanEdge ==
  /\ pc[Producer] = "scan"
  /\ cursor <= NodeCount
  /\ viable' = IF IsViable(cursor, usage, Req(generated))
               THEN viable \cup {cursor} ELSE viable
  /\ cursor' = cursor + 1
  /\ UNCHANGED <<allocs, pc, attempt, seenUsage, seenQueue>>

\* Mutants: a retry counts as a request; one retry too many.
RetryAllocationCounted ==
  /\ pc[Producer] = "scan"
  /\ cursor = NodeCount + 1 /\ viable = {} /\ attempt < MaxRetries
  /\ attempt' = attempt + 1
  /\ cursor' = 1
  /\ allocs' = [allocs EXCEPT !.total = @ + 1]
  /\ UNCHANGED <<pc, viable, seenUsage, seenQueue>>

RetryAllocationOnceMore ==
  /\ pc[Producer] = "scan"
  /\ cursor = NodeCount + 1 /\ viable = {} /\ attempt <= MaxRetries
  /\ attempt' = attempt + 1
  /\ cursor' = 1
  /\ UNCHANGED <<allocs, pc, viable, seenUsage, seenQueue>>

\* The retry sleeps with both mutexes held.
RetryAllocation ==
  /\ pc[Producer] = "scan"
  /\ cursor = NodeCount + 1 /\ viable = {} /\ attempt < MaxRetries
  /\ attempt' = attempt + 1
  /\ cursor' = 1
  /\ UNCHANGED <<allocs, pc, viable, seenUsage, seenQueue>>

GiveUpAllocation ==
  /\ pc[Producer] = "scan"
  /\ cursor = NodeCount + 1 /\ viable = {} /\ attempt = MaxRetries
  /\ allocs' = [allocs EXCEPT !.failed = @ + 1]
  /\ Goto(Producer, "saveFailure")
  /\ UNCHANGED scanVars

\* Round robin ranks nothing; the others read a key of each viable node.
RankViable ==
  /\ pc[Producer] = "scan"
  /\ cursor = NodeCount + 1 /\ viable # {}
  /\ cursor' = 1
  /\ Goto(Producer, IF allocStrategy = "ROUND_ROBIN" THEN "reserve" ELSE "read")
  /\ UNCHANGED <<allocs, attempt, viable, seenUsage, seenQueue>>

\* One pass of the loop over the viable nodes; workers run in between.
ReadEdge ==
  /\ pc[Producer] = "read"
  /\ cursor <= NodeCount
  /\ seenUsage' = [seenUsage EXCEPT ![cursor] = usage[cursor]]
  /\ seenQueue' = [seenQueue EXCEPT ![cursor] = Len(queue[cursor])]
  /\ cursor' = cursor + 1
  /\ Goto(Producer, IF cursor = NodeCount THEN "reserve" ELSE "read")
  /\ UNCHANGED <<allocs, attempt, viable>>

\* The node's mutex is held for usage and processed.  The task itself is
\* known to this thread alone until scheduleTask: its fields may change here.
ReserveEdge ==
  /\ pc[Producer] = "reserve"
  /\ \E e \in viable :
       /\ Picks(allocStrategy, e, viable, Req(generated), seenUsage, seenQueue,
                rrIndex)
       /\ usage' = [usage EXCEPT ![e] = AllocateResources(@, Need(generated))]
       /\ processed' = [processed EXCEPT ![e] = @ + 1]
       /\ assigned' = [assigned EXCEPT ![generated] = e]
  /\ rrIndex' = IF allocStrategy = "ROUND_ROBIN" THEN rrIndex + 1 ELSE rrIndex
  /\ status' = [status EXCEPT ![generated] = "QUEUED"]
  /\ used' = [used EXCEPT ![generated] = allocStrategy]
  /\ seenUsage' = [e \in Nodes |-> NoUsage]
  /\ seenQueue' = [e \in Nodes |-> 0]
  /\ viable' = {}
  /\ Goto(Producer, "credit")
  /\ UNCHANGED <<queue, allocs, scheduled, dbStatus, dbRows, cfgMutex>>

\* The rest of allocateTaskWithRetry, after the node's mutex is released.
CreditAllocation ==
  /\ pc[Producer] = "credit"
  /\ allocs' = [allocs EXCEPT !.successful = @ + 1]
  /\ dbStatus' = [dbStatus EXCEPT ![generated] = "QUEUED"]
  /\ Goto(Producer, "schedule")
  /\ UNCHANGED <<edgeVars, rrIndex, scheduled, taskVars, dbRows, cfgMutex,
                 viable, seenUsage, seenQueue>>

\* Mutant: the scheduler's strategy_mutex_ is not taken.
ScheduleTaskUnlocked ==
  /\ pc[Producer] = "schedule"
  /\ status' = [status EXCEPT ![generated] = "QUEUED"]
  /\ queue' = [queue EXCEPT ![assigned[generated]] = Append(@, generated)]
  /\ scheduled' = scheduled + 1
  /\ Goto(Producer, "saveAllocation")
  /\ UNCHANGED <<usage, processed, rrIndex, allocs, assigned, used, dbStatus,
                 dbRows, cfgMutex, viable, seenUsage, seenQueue>>

ScheduleTask ==
  /\ pc[Producer] = "schedule"
  /\ schedMutex = NoNode
  /\ status' = [status EXCEPT ![generated] = "QUEUED"]
  /\ queue' = [queue EXCEPT ![assigned[generated]] = Append(@, generated)]
  /\ scheduled' = scheduled + 1
  /\ Goto(Producer, "saveAllocation")
  /\ UNCHANGED <<usage, processed, rrIndex, allocs, assigned, used, dbStatus,
                 dbRows, cfgMutex, viable, seenUsage, seenQueue>>

\* Mutant: configuration_mutex_ is kept.
SaveAllocationLocked ==
  /\ pc[Producer] = "saveAllocation"
  /\ dbRows' = [dbRows EXCEPT ![generated] =
                  Append(@, [edge |-> assigned[generated],
                             strategy |-> allocStrategy])]
  /\ Goto(Producer, "head")
  /\ UNCHANGED <<edgeVars, rrIndex, allocs, scheduled, taskVars, dbStatus,
                 cfgMutex, viable, seenUsage, seenQueue>>

\* The row names the strategy getStrategy() returns now.
SaveAllocation ==
  /\ pc[Producer] = "saveAllocation"
  /\ dbRows' = [dbRows EXCEPT ![generated] =
                  Append(@, [edge |-> assigned[generated],
                             strategy |-> allocStrategy])]
  /\ cfgMutex' = Free
  /\ Goto(Producer, "head")
  /\ UNCHANGED <<edgeVars, rrIndex, allocs, scheduled, taskVars, dbStatus,
                 viable, seenUsage, seenQueue>>

SaveAllocationFailure ==
  /\ pc[Producer] = "saveFailure"
  /\ dbRows' = [dbRows EXCEPT ![generated] =
                  Append(@, [edge |-> NoNode, strategy |-> "none"])]
  /\ cfgMutex' = Free
  /\ Goto(Producer, "head")
  /\ UNCHANGED <<edgeVars, rrIndex, allocs, scheduled, taskVars, dbStatus,
                 viable, seenUsage, seenQueue>>

-----------------------------------------------------------------------------
(* processingLoop: draining. *)

\* hasTasksInQueue of one node after another; a queued task starts the
\* loop over after a sleep.  stop_requested_ is read at the loop head only.
DrainPoll ==
  /\ pc[Producer] = "poll"
  /\ cursor <= NodeCount
  /\ cursor = 1 => stopPc = "none"
  /\ cursor' = IF queue[cursor] = <<>> THEN cursor + 1 ELSE 1
  /\ UNCHANGED <<pc, running, complete, outcome>>

DrainStillActive ==
  /\ pc[Producer] = "poll"
  /\ cursor = NodeCount + 1 /\ active # {}
  /\ cursor' = 1
  /\ UNCHANGED <<pc, running, complete, outcome>>

DrainDone ==
  /\ pc[Producer] = "poll"
  /\ cursor = NodeCount + 1 /\ active = {}
  /\ outcome' = "drained"
  /\ Goto(Producer, "finish")
  /\ UNCHANGED <<cursor, running, complete>>

\* The loop condition fails: stop was requested, or 30 seconds are over.
DrainGiveUp ==
  /\ pc[Producer] = "poll"
  /\ cursor = 1
  /\ outcome' = IF stopPc = "none" THEN "expired" ELSE "stopped"
  /\ Goto(Producer, "finish")
  /\ UNCHANGED <<cursor, running, complete>>

CompleteProcessing ==
  /\ pc[Producer] = "finish"
  /\ complete' = TRUE
  /\ running' = FALSE
  /\ Goto(Producer, "done")
  /\ UNCHANGED <<cursor, outcome>>

-----------------------------------------------------------------------------
(* The worker of node e: executeTasksForEdge and getNextTask. *)

GotoWorker(e, label) == wpc' = [wpc EXCEPT ![e] = label]

\* Mutant: is_running_ is never read again.
CheckRunningNever(e) ==
  /\ wpc[e] = "idle"
  /\ GotoWorker(e, "fetch")
  /\ UNCHANGED <<queue, schedMutex, scratch, hand>>

\* is_running_ is read before getNextTask, not under its lock.
CheckRunning(e) ==
  /\ wpc[e] = "idle"
  /\ GotoWorker(e, IF execRunning THEN "fetch" ELSE "exited")
  /\ UNCHANGED <<queue, schedMutex, scratch, hand>>

\* Mutant: a worker that finds no task ends.
FetchNothingExits(e) ==
  /\ wpc[e] = "fetch" /\ schedMutex = NoNode
  /\ queue[e] = <<>>
  /\ GotoWorker(e, "exited")
  /\ UNCHANGED <<queue, schedMutex, scratch, hand>>

FetchNothing(e) ==
  /\ wpc[e] = "fetch" /\ schedMutex = NoNode
  /\ queue[e] = <<>>
  /\ GotoWorker(e, "idle")
  /\ UNCHANGED <<queue, schedMutex, scratch, hand>>

DequeueFifo(e) ==
  /\ wpc[e] = "fetch" /\ schedMutex = NoNode
  /\ queue[e] # <<>> /\ schedStrategy = "FIFO"
  /\ hand' = [hand EXCEPT ![e] = Head(queue[e])]
  /\ queue' = [queue EXCEPT ![e] = Tail(@)]
  /\ GotoWorker(e, "start")
  /\ UNCHANGED <<schedMutex, scratch>>

\* The other policies empty the queue into a scratch buffer, one task per
\* lock of the node's mutex, holding the scheduler's mutex throughout.
BeginDrain(e) ==
  /\ wpc[e] = "fetch" /\ schedMutex = NoNode
  /\ queue[e] # <<>> /\ schedStrategy # "FIFO"
  /\ schedMutex' = e
  /\ GotoWorker(e, "drain")
  /\ UNCHANGED <<queue, scratch, hand>>

DrainOne(e) ==
  /\ wpc[e] = "drain" /\ queue[e] # <<>>
  /\ scratch' = [scratch EXCEPT ![e] = Append(@, Head(queue[e]))]
  /\ queue' = [queue EXCEPT ![e] = Tail(@)]
  /\ UNCHANGED <<schedMutex, wpc, hand>>

SelectTask(e) ==
  /\ wpc[e] = "drain" /\ queue[e] = <<>>
  /\ \E k \in DOMAIN scratch[e] :
       /\ Selects(schedStrategy, k, scratch[e],
                  [t \in Tasks |-> Req(t).priority], DueTime)
       /\ hand' = [hand EXCEPT ![e] = scratch[e][k]]
       /\ scratch' = [scratch EXCEPT ![e] =
                        SubSeq(@, 1, k - 1) \o SubSeq(@, k + 1, Len(@))]
  /\ GotoWorker(e, "restore")
  /\ UNCHANGED <<queue, schedMutex>>

\* Mutant: a task that was not selected is dropped.
RestoreNothing(e) ==
  /\ wpc[e] = "restore" /\ scratch[e] # <<>>
  /\ scratch' = [scratch EXCEPT ![e] = Tail(@)]
  /\ UNCHANGED <<queue, schedMutex, wpc, hand>>

RestoreOne(e) ==
  /\ wpc[e] = "restore" /\ scratch[e] # <<>>
  /\ queue' = [queue EXCEPT ![e] = Append(@, Head(scratch[e]))]
  /\ scratch' = [scratch EXCEPT ![e] = Tail(@)]
  /\ UNCHANGED <<schedMutex, wpc, hand>>

ReturnTask(e) ==
  /\ wpc[e] = "restore" /\ scratch[e] = <<>>
  /\ schedMutex' = NoNode
  /\ GotoWorker(e, "start")
  /\ UNCHANGED <<queue, scratch, hand>>

-----------------------------------------------------------------------------
(* The worker of node e: simulateTaskExecution. *)

StartTask(e) ==
  /\ wpc[e] = "start"
  /\ status' = [status EXCEPT ![hand[e]] = "RUNNING"]
  /\ dbStatus' = [dbStatus EXCEPT ![hand[e]] = "RUNNING"]
  /\ GotoWorker(e, "activate")
  /\ UNCHANGED <<usage, dbExec, hand, met, active, executed, failed>>

ActivateTask(e) ==
  /\ wpc[e] = "activate"
  /\ active' = active \cup {hand[e]}
  /\ GotoWorker(e, "run")
  /\ UNCHANGED <<usage, status, dbStatus, dbExec, hand, met, executed, failed>>

\* Mutant: the task stays in active_tasks_.
FinishTaskActive(e) ==
  /\ wpc[e] = "run"
  /\ met' = [met EXCEPT ![e] = TRUE]
  /\ status' = [status EXCEPT ![hand[e]] = "COMPLETED"]
  /\ dbStatus' = [dbStatus EXCEPT ![hand[e]] = "COMPLETED"]
  /\ GotoWorker(e, "release")
  /\ UNCHANGED <<usage, dbExec, hand, active, executed, failed>>

FinishTask(e) ==
  /\ wpc[e] = "run"
  /\ \E inTime \in BOOLEAN :
       LET final == IF inTime THEN "COMPLETED" ELSE "FAILED"
       IN  /\ met' = [met EXCEPT ![e] = inTime]
           /\ status' = [status EXCEPT ![hand[e]] = final]
           /\ dbStatus' = [dbStatus EXCEPT ![hand[e]] = final]
  /\ active' = active \ {hand[e]}
  /\ GotoWorker(e, "release")
  /\ UNCHANGED <<usage, dbExec, hand, executed, failed>>

ReleaseResources(e) ==
  /\ wpc[e] = "release"
  /\ usage' = [usage EXCEPT ![e] = DeallocateResources(@, Need(hand[e]))]
  /\ GotoWorker(e, "count")
  /\ UNCHANGED <<status, dbStatus, dbExec, hand, met, active, executed,
                 failed>>

\* Under stats_mutex_.
CountExecution(e) ==
  /\ wpc[e] = "count"
  /\ executed' = IF met[e] THEN executed + 1 ELSE executed
  /\ failed' = IF met[e] THEN failed ELSE failed + 1
  /\ GotoWorker(e, "record")
  /\ UNCHANGED <<usage, status, dbStatus, dbExec, hand, met, active>>

\* saveTaskExecution.
RecordExecution(e) ==
  /\ wpc[e] = "record"
  /\ dbExec' = [dbExec EXCEPT ![hand[e]] = @ + 1]
  /\ hand' = [hand EXCEPT ![e] = NoTask]
  /\ met' = [met EXCEPT ![e] = FALSE]
  /\ GotoWorker(e, "idle")
  /\ UNCHANGED <<usage, status, dbStatus, active, executed, failed>>

-----------------------------------------------------------------------------
(* LiveRuntime::stop, which joins the producer, then the workers. *)

RequestStop ==
  /\ stopPc = "none"
  /\ stopPc' = "requested"
  /\ UNCHANGED <<execRunning, running>>

StopExecutor ==
  /\ stopPc = "requested"
  /\ pc[Producer] = "done"
  /\ execRunning' = FALSE
  /\ stopPc' = "joining"
  /\ UNCHANGED running

\* Mutant: the workers are not joined.
StopReturnsEarly ==
  /\ stopPc = "joining"
  /\ stopPc' = "stopped"
  /\ running' = FALSE
  /\ UNCHANGED execRunning

StopReturns ==
  /\ stopPc = "joining"
  /\ \A e \in Nodes : wpc[e] = "exited"
  /\ stopPc' = "stopped"
  /\ running' = FALSE
  /\ UNCHANGED execRunning

\* The process may rest here for ever.
Stopped == stopPc = "stopped" /\ UNCHANGED vars

-----------------------------------------------------------------------------

(* The steps of each thread, with what they leave alone. *)

ConfigureStep(p) ==
  /\ \/ ReadLoad(p) \/ Recommend(p) \/ SetAllocation(p) \/ SetScheduling(p)
  /\ UNCHANGED <<edgeVars, rrIndex, allocs, scheduled, schedMutex, taskVars,
                 dbVars, generated, scanVars, workVars, execVars, confVars,
                 lifeVars>>

ClientCall(c) ==
  /\ \/ RequestAutomatic(c) \/ RequestManual(c)
  /\ UNCHANGED <<edgeVars, allocVars, schedVars, taskVars, dbVars, cfgMutex,
                 probe, load, generated, scanVars, workVars, execVars,
                 automatic, requested, lifeVars>>

ApplyStep(c) ==
  /\ \/ ApplyAutomatic(c) \/ ApplyManual(c) \/ ApplyManualScheduling(c)
  /\ UNCHANGED <<edgeVars, rrIndex, allocs, scheduled, schedMutex, taskVars,
                 dbVars, target, probe, load, generated, scanVars, workVars,
                 execVars, requests, lifeVars>>

LoopStep ==
  /\ \/ BeginIteration \/ LeaveLoop \/ Generate \/ AcquireConfiguration
  /\ UNCHANGED <<edgeVars, allocStrategy, rrIndex, schedVars, assigned, used,
                 dbRows, dbExec, target, probe, load, seenUsage, seenQueue,
                 workVars, execVars, confVars, lifeVars>>

ScanStep ==
  /\ \/ ScanEdge \/ RetryAllocation \/ GiveUpAllocation \/ RankViable
     \/ ReadEdge
  /\ UNCHANGED <<edgeVars, allocStrategy, rrIndex, schedVars, taskVars,
                 dbVars, target, probe, load, cfgMutex, generated, workVars,
                 execVars, confVars, lifeVars>>

CommitStep ==
  /\ \/ ReserveEdge \/ CreditAllocation \/ ScheduleTask \/ SaveAllocation
     \/ SaveAllocationFailure
  /\ UNCHANGED <<allocStrategy, schedStrategy, schedMutex, dbExec, target,
                 probe, load, generated, attempt, cursor, workVars, execVars,
                 confVars, lifeVars>>

DrainStep ==
  /\ \/ DrainPoll \/ DrainStillActive \/ DrainDone \/ DrainGiveUp
     \/ CompleteProcessing
  /\ UNCHANGED <<edgeVars, allocVars, schedVars, taskVars, dbVars, target,
                 probe, load, cfgMutex, generated, attempt, viable,
                 seenUsage, seenQueue, workVars, execVars, confVars, stopPc>>

FetchStep(e) ==
  /\ \/ CheckRunning(e) \/ FetchNothing(e) \/ DequeueFifo(e) \/ BeginDrain(e)
     \/ DrainOne(e) \/ SelectTask(e) \/ RestoreOne(e) \/ ReturnTask(e)
  /\ UNCHANGED <<usage, processed, allocVars, schedStrategy, scheduled,
                 taskVars, dbVars, threadVars, generated, scanVars, met,
                 execVars, confVars, lifeVars>>

ExecuteStep(e) ==
  /\ \/ StartTask(e) \/ ActivateTask(e) \/ FinishTask(e)
     \/ ReleaseResources(e) \/ CountExecution(e) \/ RecordExecution(e)
  /\ UNCHANGED <<queue, processed, allocVars, schedVars, assigned, used,
                 dbRows, threadVars, generated, scanVars, scratch,
                 execRunning, confVars, lifeVars>>

StopStep ==
  /\ \/ RequestStop \/ StopExecutor \/ StopReturns
  /\ UNCHANGED <<edgeVars, allocVars, schedVars, taskVars, dbVars,
                 threadVars, generated, scanVars, workVars, active, executed,
                 failed, confVars, complete, outcome>>

ProducerStep ==
  LoopStep \/ ConfigureStep(Producer) \/ ScanStep \/ CommitStep \/ DrainStep

ClientStep(c) == ApplyStep(c) \/ ConfigureStep(c)

WorkerStep(e) == FetchStep(e) \/ ExecuteStep(e)

Next ==
  \/ ProducerStep
  \/ \E c \in Clients : ClientCall(c) \/ ClientStep(c)
  \/ \E e \in Nodes : WorkerStep(e)
  \/ StopStep \/ Stopped

Spec == Init /\ [][Next]_vars

\* The operating system runs every thread that can run.  Nothing obliges a
\* client to call or the main thread to stop, and no mutex is fair.
Fairness ==
  /\ WF_vars(ProducerStep)
  /\ \A c \in Clients : WF_vars(ClientStep(c))
  /\ \A e \in Nodes : WF_vars(WorkerStep(e))
  /\ WF_vars(stopPc # "none" /\ StopStep)

FairSpec == Spec /\ Fairness
=============================================================================
