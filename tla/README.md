# Verification of the multi-constraint IoT edge allocator

TLA+ models of the edge-allocation simulator in `src/`, the TLC runs that check
them on small instances, and TLAPS proofs for every fleet, workload and set of
clients.

- `tlc -config placement.cfg MCLiveRuntime` runs one check; `PROJECT.json` lists
  every run with its module, its properties and what is expected of it.
- `tlapm M.tla` checks the proofs of `EdgeNodeProofs`, `AllocationProofs`,
  `LiveRuntimeProofs`, `TaskProofs`, `ExperimentProofs`, `ResourceControlProofs`,
  `InvocationsProofs` and `HttpServerProofs`.

## 1. The system

The program generates tasks on behalf of simulated IoT devices, places each on
one of a fleet of edge nodes with limited CPU, RAM and bandwidth, queues it
there, executes it on the node's worker thread (by sleeping) and records
everything in SQLite.  It runs in batch mode (`runExperiment`, once, or four
times with `--compare`) or as a live runtime behind an HTTP dashboard (`--web`).
`ResourceController` is a third way to drive the same parts, with a thread of its
own and callbacks; `main` does not construct it.

| Component | State it keeps | Operations that change it |
|---|---|---|
| `EdgeNode` | usage vector, task queue, counter, availability (a plain `bool`); under `resource_mutex_` | `allocateResources`, `deallocateResources`, `enqueueTask`, `dequeueTask`, `simulateResourceFluctuation`, `setAvailable` |
| `ResourceAllocator` | strategy, round-robin index, three counters; under `strategy_mutex_` | `allocateTask`, `allocateTaskWithRetry`, `setStrategy` |
| `TaskScheduler` | policy, counter; under its own `strategy_mutex_` | `scheduleTask`, `getNextTask`, `setStrategy` |
| `TaskExecutor` | `active_tasks_`, counters, `is_running_`, one thread per node | `start`, `stop`, `executeTasksForEdge` |
| `LiveRuntime` | `config_` under `configuration_mutex_`; atomic flags; producer thread | `processingLoop`, `applyConfiguration`, `chooseRecommendedConfiguration`, `stop` |
| `runExperiment` | locals; same allocator, scheduler and executor | the batch loop, the polling drain, `executor->stop()` |
| `DatabaseManager` | seven tables, foreign keys, one connection under a mutex | `resetSimulationData`, the `save...` and `update...` statements |
| `ResourceMonitor` | map of nodes, status callback; under `nodes_mutex_` | `updateResourceMetrics`, `simulateNodeFailure`, `recoverNodeFromFailure`, `checkEdgeNodeHealth` |
| `ResourceController` | running flag, its thread | `start`, `stop`, `processingLoop`, `onTaskCreated`, `handleNodeFailure`, `allocateTaskNow`, `reallocateTasksFromFailedNode` |
| `HttpApiServer` | descriptor and running flag (atomics), serve thread, detached handler threads | `start`, `serve`, `stop`, `handleClient` |
| `TaskManager` | id counter, task queue, creation callbacks | `createTaskFromSensorData`, `enqueueTask`, `dequeueTask` |
| `TaskProfile`, devices, `MetricsCollector`, `Logger`, `MqttClient`, front end | profiles, random payloads, averages, output | see "Not modelled" |

How they meet.  The producer calls allocator, then scheduler, then database
while it holds `configuration_mutex_`; the workers call the scheduler (holding
its mutex while they drain and refill a queue), the node and the database; the
HTTP handlers call `applyConfiguration`, which takes `configuration_mutex_` and
sets allocator and scheduler one after the other; `stop` joins the producer,
then the workers.  Nodes are shared by everybody, one short critical section
per operation.  In `--web` mode `main` opens the database, starts the server and
the runtime, watches `isRunning()` and tears down in the order runtime, database,
server; the serve thread starts one detached thread a client.  The monitor's
status callback runs on whichever thread reports a failure, inside
`checkEdgeNodeHealth` with `nodes_mutex_` held, and calls back into monitor and
allocator; the controller's own thread and any caller of `allocateTaskNow` place
tasks at the same time.

What is hard here:

- *check then act* over separate critical sections: `canAllocate` and
  `allocateResources`, `getNextTask`'s drain and restore, the draining loops that
  read queues and active tasks one after another;
- *stale decisions*: `automatic_mode` is read and the recommendation computed
  before the mutex is taken under which it is installed;
- *two-part updates*: allocation strategy and scheduling policy, the placement
  and its row;
- *waiting with locks held*: the retry sleeps up to a second with
  `configuration_mutex_` and the allocator's mutex held;
- *one number for two things*: background load and reservations share
  `current_usage_`, and the clamp at zero hides what goes wrong;
- *callbacks under a lock*: a health check calls the controller, which locks the
  monitor's mutex again on the same thread;
- *two owners of one queue*: the failure handler dequeues from a node while its
  worker empties and refills the queue under a mutex that the handler does not
  take, and a caller may still be enqueueing;
- *readiness and teardown*: `start()` waits for the descriptor, not for the bind,
  and nobody joins the handlers;
- *restarts*: the reset must cope with whatever a killed process left behind.

`PROJECT.json` lists these as hazards, each at its line, with the properties
that cover it.  What makes each component correct:

| Component | Correct when |
|---|---|
| nodes and allocator | usage never exceeds capacity and, without background load, is exactly what the held tasks need; each strategy picks one viable node, by its own criterion |
| scheduler and executor | a task is in exactly one place until it ends, is never lost or doubled by drain and restore, releases once and gets one execution row |
| runtime | the effective configuration is one that somebody chose, and in manual mode the one requested; rows tell the truth; tasks settle, calls return, `stop` returns |
| experiment | the drain leaves no work behind; every worker is joined |
| resource controller | concurrent placements never overcommit bandwidth, a task has one holder, a null in a queue and every reservation have a known cause, queued tasks run, failure handling, health checks and `stop` return, a reallocated task reaches a queue |
| HTTP server | no handler meets a closed database or a destroyed server, the socket is closed once, `main` notices that the server gave up, the destructor returns |
| database over invocations | the reset succeeds after any crash; rows belong to this invocation and experiment |

## 2. Modules

| Module | Models | Uses |
|---|---|---|
| `EdgeNode` | resource arithmetic of `edge_node.cpp`, background fluctuation included | |
| `EdgeNodeProofs` | lemmas about sums over finite sets, in which the accounting is stated | `EdgeNode` |
| `ResourceAllocator` | `getViableEdges`, the score, the four strategies as predicates "the strategy picks e" | `EdgeNode` |
| `Allocation` | one choice of a node on any input, and what each strategy owes its callers | `ResourceAllocator` |
| `AllocationProofs` | theorems about the strategies | `Allocation`, `EdgeNodeProofs` |
| `TaskScheduler` | which position of the drained queue `getNextTask` takes | |
| `LiveRuntime` | producer, workers, clients and `stop`, with the allocator, scheduler, executor and database state they share | `EdgeNode`, `ResourceAllocator`, `TaskScheduler` |
| `RuntimeProperties` | the invariants, action and liveness properties, the refinement mapping | `LiveRuntime`, `TaskLedger` |
| `TaskLedger` | abstract specification: what the runtime promises about tasks and reservations | |
| `LiveRuntimeProofs` | theorems: types, capacity, rows, concurrent reconfigurations, order of the queues | `RuntimeProperties` |
| `TaskProofs` | theorems about a task's life: its places, its reservation, `stop`, the ledger, the counters | `LiveRuntimeProofs`, `EdgeNodeProofs` |
| `Experiment` | `runExperiment`: the steps of `LiveRuntime` with fluctuation, batch drain and join | `RuntimeProperties` |
| `ExperimentProofs` | theorems | `Experiment`, `TaskProofs` |
| `ResourceControl` | `ResourceController` with task manager, monitor, single-attempt allocator, nodes and workers | `EdgeNode` |
| `ResourceControlProofs` | theorems | `ResourceControl`, `EdgeNodeProofs` |
| `HttpServer` | the `--web` branch of `main` with `HttpApiServer` and its threads | |
| `HttpServerProofs` | theorems | `HttpServer` |
| `Invocations` | `main` over one SQLite file: reset, experiments, kill, restart | |
| `InvocationsProofs` | theorems | `Invocations` |
| `MCLiveRuntime`, `MCExperiment`, `MCInvocations`, `MCResourceControl`, `MCAllocator` | small instances; `MCAllocator` feeds the strategies all inputs of a small domain | |

### Grain of atomicity

A step of `LiveRuntime` is what one thread does between two points at which
another thread can observe or disturb it.  A critical section of a node, of
`active_tasks_` or of SQLite is one step.  Longer critical sections are several
steps with the mutex as a variable: `cfgMutex` is `configuration_mutex_`,
`schedMutex` the scheduler's mutex (held by a worker through drain, selection
and restore).  Each action names the code it stands for:

| Code | Actions |
|---|---|
| `processingLoop`, generation | `BeginIteration`, `LeaveLoop`, `Generate`, `AcquireConfiguration` |
| `allocateTaskWithRetry` | `ScanEdge` (one per node), `RetryAllocation`, `GiveUpAllocation`, `RankViable`, `ReadEdge` (one per node), `ReserveEdge` (the node's mutex), `CreditAllocation` (the allocator's counter, the status row) |
| `scheduleTask`, `saveAllocation`, `saveAllocationFailure` | `ScheduleTask`, `SaveAllocation`, `SaveAllocationFailure` |
| `processingLoop`, draining | `DrainPoll` (one per node), `DrainStillActive`, `DrainDone`, `DrainGiveUp`, `CompleteProcessing` |
| `chooseRecommendedConfiguration` | `ReadLoad` (one per node), `Recommend`, `SetAllocation`, `SetScheduling` |
| `applyConfiguration` | `RequestManual`, `ApplyManual`, `ApplyManualScheduling`; `RequestAutomatic`, `ApplyAutomatic`, then the recommendation |
| `getNextTask` | `FetchNothing`, `DequeueFifo`, `BeginDrain`, `DrainOne`, `SelectTask`, `RestoreOne`, `ReturnTask` |
| `executeTasksForEdge`, `simulateTaskExecution` | `CheckRunning`, `StartTask`, `ActivateTask`, `FinishTask`, `ReleaseResources`, `CountExecution` (`stats_mutex_`), `RecordExecution` (the database) |
| `LiveRuntime::stop`, `TaskExecutor::stop` | `RequestStop`, `StopExecutor`, `StopReturns` |

`ResourceControl` has three mutex variables, `nodesMutex` (held through a health
check), `allocMutex` (held through an allocation) and `schedMutex` (held by a
worker through `getNextTask`); `HttpServer` has none, its steps are the reads and
writes of atomics and the socket calls.

| Code | Actions |
|---|---|
| `ResourceController::start`, `stop`, `processingLoop` | `Start`, `Stop`, `Join`; `LoopTest`, `Fetch`, `UpdateResourceMetrics` |
| `createTaskFromSensorData` with `onTaskCreated`; a caller of `allocateTaskNow` | `CreateTask`; `SubmitTask`, an allocation, `LocateNode`, `ScheduleTask` |
| `allocateTaskNow`, `allocateTask` | `BeginAllocation`, `ScanEdge` (one per node), `ReserveEdge`, `FailAllocation` |
| `simulateNodeFailure`, `recoverNodeFromFailure` | `SimulateNodeFailure`, `RecoverNodeFromFailure` |
| `checkEdgeNodeHealth` | `BeginHealthCheck`, `CheckNode` (one per node), `EndHealthCheck` |
| `handleNodeFailure`, `reallocateTasksFromFailedNode` | `LookUpNode`, `DrainTest`, `TakeNothing`, `TakeTask`, then an allocation |
| `getNextTask` | `BeginFetch`, then `DequeueFifo`, or `DrainQueue` and `PullTask` in turn, then `DrainedNothing`, or `SelectTask` (or `CompareNull`), `RestoreOne`, `EndRestore` |
| `simulateTaskExecution` | `FinishTask` |
| `main --web` | `InitializeRuntime`, `StartRuntime`, `WatchEnds`, `StopRuntime`, `CloseDatabase`, `Exit` |
| `HttpApiServer::start` | `StartServer`, `Poll`, `ReportStart` |
| `serve` | `CreateSocket`, `CheckSocket`, `BindSocket`, `GiveUpSocket`, `GiveUpServing`, `ServeLoop`, `Accept`, `AcceptFails`, `AcceptError` |
| `HttpApiServer::stop` | `StopClearsFlag`, `StopReadsDescriptor`, `StopClosesSocket`, `StopJoins` |
| `handleClient` | `Receive`, `Query` |

### Abstractions

- Doubles are integers in units in which the built-in profiles are exact.  The
  score's divisions are fixed-point with `Scale`; in the runs the capacities
  divide it, so nothing is rounded.
- The multi-constraint score reads one node several times; the model reads a
  node's usage and queue together, and different nodes at different times.
- The allocator's `strategy_mutex_` is not a variable of `LiveRuntime`: there every
  thread that takes it to change something holds `configuration_mutex_`.
- `ReserveEdge` sets the placed task's status and node together with the node's
  reservation: until `scheduleTask` no thread but the producer knows the task.
- Whether a task meets its deadline is a free choice when it ends, and the
  30-second drain limit may strike at any pass of the loop.
- Earliest-deadline-first compares remaining times computed from a clock that
  moves during the scan; `ClockDrift` bounds by how much.
- SQLite statements succeed, except that the reset obeys foreign keys.
  `resource_history`, an append-only log, is in `Invocations` only.
- In `Invocations` tables are sets of rows that carry a ghost field (who wrote
  them) for the properties to read; what an
  experiment does between two statements is left to the other modules.
- In `Experiment` there is no `configuration_mutex_`; the variable stands for the
  allocator's mutex, which a lone producer always finds free.

- In `ResourceControl` which viable node `allocateTask` takes is left open, and so is
  the policy of every fetch and the task that a comparing policy prefers:
  strategies and policies are in the other modules.  What is kept of
  `getNextTask` is its order of calls: test, dequeue, buffer, select, refill.
  `dequeueTask` returns null from an empty queue, and the null is a member of
  queue and buffer; comparing it ends the process (`Alive`).
- A caller that places a task itself (`SubmitTask`) has constructed it without the
  task manager: one made by `createTaskFromSensorData` is in the manager's queue
  already, through the creation callback.
- In `ResourceControl` one step fluctuates all nodes; the loop repeats it for ever, so no
  order is lost.  `is_available_` is a plain `bool` read while another thread
  writes it; a step sees either value because it may come before or after the
  write.  The statistics counters are left out.  `drained` is a ghost: which
  tasks failure handlers took from which node.
- `Submitters`, `Operators` and `Owners` are the threads that make tasks, that use the
  monitor, and that start and stop the controller; a thread may be all of these,
  and in the runs one is submitter and owner and another is operator.
- `start()` and `stop()` of the controller are called by one thread at a time;
  the class does not protect its thread object.
- In `HttpServer` a socket, a bind or an accept fails whenever the environment
  likes; a request has a route or not; the half second of `start()` is `MaxPolls`
  passes of its loop.

Some definitions are preceded by a variant marked `Mutant`: a plausible mistake
in the same code.  No specification uses one.  Substituting it for the
definition must violate the property that `PROJECT.json` pairs it with, which
shows that the property depends on the code.

## 3. What the runs show

| Run | Instance | Result |
|---|---|---|
| `placement` | 3 tasks, 2 unequal nodes, 3 strategies, 1 reconfiguration, 1 retry | `TypeOK`, `UsageWithinCapacity`, `AccountingExact`, `HeldOnce`, `StrategyRecorded`, `CountersAgree` hold; every step is a step of `TaskLedger` (`ImplementsLedger`) |
| `reconfiguration` | 3 tasks on 1 node, every policy, switched by a client and by recommendations while tasks wait, `stop` any time, drift 1 | `QueueInArrivalOrder`, `StoppedCleanly`, `EffectiveIntended`, `StrategyRecorded` hold |
| `progress` | 3 tasks on a node that holds two, 1 retry and then failure, automatic mode, 1 manual request, `stop` any time | `TasksSettle`, `ProcessingCompletes`, `ConfigurationReturns`, `StopTerminates` hold |
| `experiment` | 3 tasks on a tight node, 2 strategies, fluctuation by up to 1 after every 2nd task | `BandwidthFits`, `BandwidthExact`, `HeldOnce`, `StoppedCleanly`, `ExperimentReturns` hold |
| `invocations` | 2 starts, 2 tasks, 2 compared strategies, kill anywhere | `ResetSucceeds`, `OnlyThisInvocation`, `ExecutionsAllocated` hold |
| `choice` | 3 unequal nodes, all loads, queue lengths and indices of a small domain | `PicksExactlyOne`, `NeverDominated`, `RoundRobinVisitsAll` hold |
| `controller` | 2 nodes, 2 tasks, a submitter and owner, an operator, 1 health check, fluctuation by up to 1 | `ControlTypeOK`, `CapacityKept`, `BandwidthExplained`, `OneHolder`, `NullsExplained`, `QueuedRuns`, `FailureHandlingReturns`, `StopReturns` hold |
| `http` | 2 handlers, 2 polls, sockets and binds that fail at will | `HttpTypeOK`, `HandlersServed`, `ZeroMeansBindFailed`, `ClosedOnce`, `GivingUpEndsMain`, `DestructorReturns` hold |
| `stale_recommendation` | 1 task, started with `--auto`, 1 manual request | `ManualEffective` violated |
| `experiment_drain` | as `experiment`, 1 strategy, no fluctuation | `QueuesDrained` violated |
| `lost_reallocation` | as `controller` | `ReallocatedIsScheduled` violated |
| `health_check` | as `controller` | `HealthCheckReturns` violated |

`FailureHandlingReturns` and `StopReturns` are conditional: they hold unless a
health check has met a failed node, which blocks `nodes_mutex_` for good
(`health_check`), or the process has died of a null.  `stop()` is called by
another thread than the one that handles failures and checks nodes, so that it
overlaps both and may wait behind the check.  `QueuedRuns` says that a queued task
runs *or* is taken by a failure handler, unless the process dies; what becomes
of a task that is taken is `lost_reallocation`.  `NullsExplained` names the only
cause a null can have.
`BandwidthExplained` counts what the failure handler leaves behind (the
reservation on the failed node is never returned), so it describes a leak
exactly and does not deny it.  `HandlersServed` speaks of a `start()` that
reported success: when it reports failure after half a second the serve thread
may still go on to listen, and a client accepted then is served while `main`
tears down.

The last four contrast the code with what its comments and documents say:

1. `stale_recommendation`.  The producer reads `automatic_mode`, a client
   switches to manual, and the producer installs its recommendation over the
   client's choice.  Nothing installs the choice again.
2. `experiment_drain`.  The polling loop of `runExperiment` sees an empty queue
   while the worker has its tasks in the scratch buffer; the tasks it puts
   back are abandoned by `executor->stop()`.
3. `lost_reallocation`.  `reallocateTasksFromFailedNode` places a task of the
   failed node on another one and lets go of it: the task is `QUEUED`, holds two
   reservations and is in no queue.
4. `health_check`.  `checkEdgeNodeHealth` holds `nodes_mutex_` when it calls the
   controller about a failed node, and `getEdgeNode` locks the same `std::mutex`
   on the same thread.

Observations met while modelling that have no run of their own:

- The draining loop of `processingLoop` (`live_runtime.cpp:201`) has the window of
  `experiment_drain`: a worker inside `getNextTask`, or between it and
  `active_tasks_.insert`, holds a task that is neither queued nor active, and
  `processing_complete_` is set with a task still to run.
- A downward fluctuation takes away part of a reservation (`edge_node.cpp:110`),
  so that more CPU and RAM may be reserved on a node than it has, although the
  clamped number `current_usage_` never shows it.  In the instance of `experiment`
  a task of CPU 1 is placed on a node of CPU 2, a fluctuation takes its 1 away,
  and a task of CPU 2 is admitted beside it.  `resource_allocator.cpp:110-111`
  says that retrying "never overcommits a node".  Only bandwidth, which does not
  fluctuate, is exact and bounded (`BandwidthExact`, `BandwidthFits`), and no property
  claims more.
- A failure handler dequeues without the scheduler's mutex.  If it takes a node's
  last task between the worker's `hasTasksInQueue` and `dequeueTask`
  (`task_scheduler.cpp:98-99`), the worker pushes a null into its buffer, and with
  another task beside it `PRIORITY_BASED` or `EARLIEST_DEADLINE_FIRST` dereferences the
  null (lines 112 and 121): `CompareNull`.  With a null alone, or in round robin,
  the null is returned or put back into the queue and taken for the end.
- While the worker has a node's tasks in its buffer, a failure handler sees the
  queue empty and returns; the tasks are put back on the failed node and executed
  there.  No document says that a failed node executes nothing, but
  `reallocateTasksFromFailedNode` means to leave none.
- `start()` of the HTTP server may report failure after half a second and the serve
  thread go on to create its socket and listen; `HandlersServed` excludes that case.
- `--compare` resets the tables once for four experiments that use the same task
  ids (`main.cpp:344`), and records `--strategy` in every row, not the strategy
  that placed the task (`main.cpp:235`).
- `DatabaseManager::close` takes no mutex.

### Bounds, and why they suffice

Two nodes are the least for which reading one after another, picking and ties
mean anything; the choice among three is in `choice`.  Three tasks are the least for
which a drained queue has an order to keep, and for which the third meets two
reservations: with the profiles chosen it fits in some states, must be retried
in others and is given up in others.  `placement` starts with a strategy that
ranks nodes and one that does not, and the client brings a third; the fourth is
in `experiment`, the choice itself in `choice`.  In `progress` the third task takes
the whole node, so that it is retried and given up while a client waits for
`configuration_mutex_`.  One retry and zero retries cover the loop's boundary;
`MaxRetries` is 200 in the code.  One client and the producer,
which installs recommendations, are two configuring threads, the least that can
mix configurations.  In
`invocations` two starts put one invocation's remains under the next one's
reset, and two compared strategies put one experiment after another.
`MaxRequests` and `MaxInvocations` bound the environment only.  In `controller` two
nodes give a failed node's task somewhere to go.  Node 2 has bandwidth for one
task, so that the controller, the submitter and the failure handler contend for
it; node 1 has room for both, so that its worker can have two entries in its
buffer, one of them null, while the handler dequeues.  The CPU of node 2
fluctuates below what the second task has reserved there, so that the clamp of
its release acts.  One health check is enough to meet a
failed node; `MaxChecks` is finite because checks repeated for ever could starve
every other user of an unfair mutex.  In `http` two polls are the least with
which `start()` can see the descriptor late, in time and never (50 in the code),
and two handlers let one be accepted while another still runs.

Deadlock is checked in every run of the runtime and the experiment.  `choice` and
`invocations` model single calls and processes that may rest; the process of
`http` ends; in `controller`, between calls, with nothing queued and the
controller stopped, nothing moves, and that nobody waits for ever there is what
its liveness properties say.

### Fairness

`FairSpec` assumes weak fairness of each thread: the operating system runs a
thread that can run.  It obliges no client to call, nor `main` to stop, and
does not make a mutex fair.  A sleep ends and a task's execution time is
finite, so these steps are fair too.  That calls return although no mutex is fair rests
on the workload being finite (`task_count`): the producer takes
`configuration_mutex_` finitely often.  `FairExperimentSpec` assumes the same
of the producer and the workers, `ResourceControl`'s `FairSpec` of the controller,
the workers and every thread that has made a call.  `HttpServer`'s `FairSpec` makes
`main` and the serve thread run; no client must come, none must send its request,
and no handler must end.

## 4. What is proved

Every invariant of the passing runs, the action property `ClosedOnce` and the
refinement of `TaskLedger` are theorems.
From the named assumptions about the constants only (`NodeAssumption`,
`AllocatorAssumption`, `ChoiceAssumption`, `SchedulerAssumption`,
`RuntimeAssumption`, `ExperimentAssumption`, `InvocationAssumption`,
`ControlAssumption`, `HttpAssumption`: at least one node and one device profile,
natural capacities, latencies and bounds, threads distinct from one another and
from "no holder", a configured strategy); one theorem, `PickIsNotDominated`, has a
hypothesis besides:

| Module | Theorem | Statement |
|---|---|---|
| `LiveRuntimeProofs` | `TypeCorrectness` | `Spec => []TypeOK` |
| | `NoOvercommit` | `Spec => []UsageWithinCapacity` |
| | `RowsAreTruthful` | `Spec => []StrategyRecorded` |
| | `ConfigurationsNeverMix` | `Spec => []EffectiveIntended` |
| | `ArrivalOrderKept` | `Spec => []QueueInArrivalOrder` |
| `TaskProofs` | `EachTaskInOnePlace` | `Spec => []HeldOnce` |
| | `StopIsClean` | `Spec => []StoppedCleanly` |
| | `AccountingIsExact` | `Spec => []AccountingExact` |
| | `RuntimeImplementsLedger` | `Spec => ImplementsLedger` |
| | `CountersTellOneStory` | `Spec => []CountersAgree` |
| `ExperimentProofs` | `ExperimentFits` | `ExperimentSpec => []BandwidthFits` |
| | `ExperimentBandwidth` | `ExperimentSpec => []BandwidthExact` |
| | `ExperimentHoldsOnce` | `ExperimentSpec => []HeldOnce` |
| | `ExperimentIsClean` | `ExperimentSpec => []StoppedCleanly` |
| `InvocationsProofs` | `ResetAlwaysSucceeds` | `Spec => []ResetSucceeds` |
| | `NothingInherited` | `Spec => []OnlyThisInvocation` |
| | `ExecutionsStay` | `Spec => []ExecutionsAllocated` |
| `ResourceControlProofs` | `ControlTypes` | `Spec => []ControlTypeOK` |
| | `ControlCapacity` | `Spec => []CapacityKept` |
| | `ControlHoldsOnce` | `Spec => []OneHolder` |
| | `ControlNulls` | `Spec => []NullsExplained` |
| | `ControlBandwidth` | `Spec => []BandwidthExplained` |
| `HttpServerProofs` | `HttpTyped` | `Spec => []HttpTypeOK` |
| | `HandlersAreServed` | `Spec => []HandlersServed` |
| | `ZeroExit` | `Spec => []ZeroMeansBindFailed` |
| | `SocketClosesOnce` | `Spec => ClosedOnce` |
| `AllocationProofs` | `OneIsPicked` | `Spec => []PicksExactlyOne` |
| | `RoundRobinIsFair` | `Spec => []RoundRobinVisitsAll` |
| | `PickIsNotDominated` | `ExactScores` implies `Spec => []NeverDominated` |

*The live runtime.*  The first three follow from `RuntimeInvariance`:
`Spec => []RuntimeInv`.  None of them is inductive alone, so `RuntimeInv` adds what
the code relies on without saying so:

- `Exclusive`: a thread inside a critical section is the holder of
  `configuration_mutex_`.  Without it two strategy switches, or a switch and a
  placement, could overlap.
- `Bounded`: past the loop test the producer still has a task to generate, and
  past `Generate` it has one in its hands.  Without it `generated` could leave
  `0..TaskCount` and a row could be written for no task.
- `HandsFull`: a worker past the selection has a task.
- `ViableFits`: what `canAllocate` found viable is still viable at the
  reservation.  This is the argument that makes the unprotected check-then-act
  safe: only the producer reserves, and workers only release.
- `NotPlacedYet`: a task not yet placed has no row and no node.
- `StrategyKept`: from placement to row the allocator's strategy is the one that
  placed the task.

All but the last, with types and capacity, are `PlacementInv`, which the batch
experiment keeps too; what is said of tasks below rests on it, and so holds of
both.

*Configurations.*  Between the two calls of a switch the pair is mixed.
`SwitchesWhole` says that a thread halfway has the other half of the same
configuration in hand, that what a thread is about to install was chosen as a
whole, and that the pair is whole when nobody is halfway.  By `Exclusive` at most
one thread is halfway, and none while the mutex is free.

*Scheduling.*  While a worker drains and restores, a node's tasks are spread over
the queue and the scratch buffer.  `QueuesInOrder` says that each part is in
arrival order and which part comes before which: drained tasks are older than
queued ones while draining, restored tasks older than the ones still to restore.
It holds because `schedMutex` keeps the producer out meanwhile, and because the
task the producer has in hand is younger than every queued one (`Youngest`), so
that appending it keeps the order.  Which task is taken out does not matter, so
the theorem covers every policy, also one switched between two fetches.

*Places.*  `PlacesInv` says that queue, scratch buffer, the worker's hands and the
producer's hands together hold exactly the tasks that wait or run at a node
(`Located`), that a task in hand is in neither queue nor buffer and is not the
producer's (`Apart`), and that an ended task has one execution row unless its
worker has yet to write it (`RowsOfEnded`).  `QueuesInOrder` supplies the rest: an
increasing queue holds a task at one position, so that the count in `HeldOnce` is
zero or one.  `StopIsClean` adds `Joined`: `stop` ends the producer before the
workers and returns after all of them, and neither comes back.

*Sums.*  `AccountingExact`, `BandwidthExact`, `BandwidthExplained` and the counters
speak of sums over sets of tasks or nodes, which the community modules define by
recursion over the subsets of the set.  The library's induction rules cannot be
instantiated with the provers at hand; `EdgeNodeProofs` argues by the smallest
exception instead (`MinimalSubset`): strict inclusion of finite sets is well
founded, so if a claim failed for some subset it would fail for a minimal one,
and one unfolding of the recursion refutes that.  In this way the recursion is
shown to have one solution (`AddsExists`, `AddsAgree`), and the sum not to depend on
the order in which elements are taken (`SumRemove`).  The other lemmas add or remove
an element, or change one summand.

*Reservations, the ledger, the counters.*  `LifeInv` says which states a task is in
while the producer or a worker has it.  With it, `LifeStep` shows that every step
of the runtime either leaves all tasks in their phases or moves one task along
its life (`LivesOn`), admits one (`IsAdmitted`: it fits, and its node's usage grows by
its need) or releases one (`IsReleased`).  The three theorems need only look at
these moves.  `ExactStep`: usage stays the sum of the needs of the tasks held, so
that the clamp in `deallocateResources` never takes effect.
`RuntimeImplementsLedger`: each move is an action of `TaskLedger`; that a task which
fits the node's usage fits beside the tasks held is where `AccountingIsExact` is
needed.  `CountersNow`: each move counts what it should.  The counters belong to
different mutexes, so they agree up to the calls that are between two of them:
the producer between reservation and credit or between credit and scheduling, a
worker between its count and its row (`Unwritten`).  A task is in flight from its
placement until its worker has counted it.

*The batch experiment.*  Most steps of `Experiment` are steps of the runtime and
reuse the lemmas about it.  The new ones are the fluctuation, which is clamped at
capacity, happens after a task is recorded, never between scan and reservation,
and moves no task, and the drain and join.  `ExperimentInv` is `TaskInv` and `Joined`
with the accounting of bandwidth alone (`ExactIn("bandwidth")`): the proof that a
move keeps the accounting is made for one resource at a time, and a fluctuation
spoils it for CPU and RAM.  That no more bandwidth is reserved than there is
(`ExperimentFits`) needs both halves: usage is within capacity, and is what is
reserved.

*The invocations.*  `StoreInv` says that the reset has emptied the tables it is
past (`ResetSoFar`), so that a deleted row never has children left whatever a
killed process had stored, and that everything executed or waiting was allocated
in the same experiment (`WorkAllocated`).

*The resource controller.*  Several threads reserve here, so `ViableFits` needs
the allocator's mutex: `ControlInv` says that a thread between scan and
reservation holds it, that what it found viable still has room in every resource
without background load (workers only release, fluctuation leaves those
resources alone, and no other thread reserves), and that a thread which places a
task has one in its hands and a failure handler has a node.  For CPU and RAM the
theorem would be false: a node may fill up between scan and reservation.
(That the invariant needs the mutex shows in this proof; the mutant of
`CapacityKept` is another one, a check that ignores what is in use.)
For `OneHolder`, `PlaceInv` relates a task's state to the places it can be in: the
manager's queue holds created tasks, a node's queue, scratch buffer and worker
hold tasks of that node that no failure handler has taken, each of them in one
of the three (`Separate`, which lets nulls repeat), a task in a thread's hands is in no queue
and in nobody else's hands (`JobAlone`), and a handler that took a task never puts
it into a queue again.  The last also says that a handler takes a task from a
node at most once, so that what it leaves reserved there is counted once: with
it, `ExplainedNow` follows step by step from the lemmas about sums.
For `NullsExplained`: a worker between test and dequeue (`pull`) finds its queue
empty only if a handler has dequeued there in between.  `Parked` says
that the processing thread is gone when the flag is down and nobody is joining,
so that a second `start()` never makes a second thread.

*The strategies.*  That a scan finds a first smallest node is shown with
`MinimalSubset` once more, and that it finds no second one from the order of the
ids (`ScanPicksOne`).  For round robin, a node's position among the viable ones is
a bijection onto the remainders (`RankBound`, `RankReached`), and as many
consecutive indices as there are nodes take every remainder (`EveryRemainder`).
`PickIsNotDominated` assumes `ExactScores`: capacities are positive and divide the
fixed-point `Scale`, so does 100, latencies are below 100 ms and queues no longer
than 100.  The instance of `choice` satisfies it.  Beyond these limits the statement
is false, of the code too: a node of latency 150 ms scores no worse than one of 100,
a node without any bandwidth like a full one.  Rounding is the model's own.

*The HTTP server.*  `HttpInv` ties the descriptor, the socket and the two program
counters together: before `start()` nothing exists; while the serve thread is
between creation and the loop the descriptor is set unless `stop()` took it; after
a successful `start()`, `main` leaves its watch only if the serve thread has given
up, which it can only do before it has accepted anybody.  Hence no handler then
exists during the teardown, which is why nobody has to wait for one.  `Owned`
says that a descriptor is the serve thread's until one side has taken it, and
that none is left once the socket is closed: for `ClosedOnce` neither side may
close what it has merely looked at.

The preservation proofs have one lemma per group of actions, and in it one step
per action.  Lemmas state once what the arithmetic preserves (`VectorTypes`,
`CpuLoadType`, `RecommendedType`, `ReqType`, `Limits`).

Model-checked only: the liveness properties (`TasksSettle`, `ProcessingCompletes`,
`ConfigurationReturns`, `StopTerminates`, `ExperimentReturns`, `QueuedRuns`,
`FailureHandlingReturns`, `StopReturns`, `GivingUpEndsMain`, `DestructorReturns`), since
fairness and ENABLED are out of the prover's reach, and the four disagreements,
which are counterexamples.

## 5. Not modelled

- `setAllocationWeights`, `EdgeNode::setLatencyMs`, `unregisterEdgeNode` and
  `unregisterTaskCreationCallback`: nothing calls them.
- The statistics counters of controller, monitor and task manager: only getters
  read them.
- HTTP request parsing and the JSON views: what matters of a request, whether it
  has a route and what it asks of the runtime, is a choice of the environment.
- `TaskProfile::loadProfiles`, `SimulationConfig`'s argument parsing: input, here a
  constant.
- The `SELECT` readers: they change nothing.
- `MetricsCollector`: floating-point averages read after the join; it keeps no
  state.
- `MqttClient`: a wrapper of an optional library that `main` does not use.
- `IoTDevice`, sensors, `Logger`, the front end: random payloads, output,
  presentation.

## 6. Plan

Done: the node, allocator, scheduler, executor and live runtime; the batch
experiment; the invocations; the resource controller with monitor and task
manager; the HTTP server in `main --web`; the theorems above.

Left, in this order:

1. That the clamp of `deallocateResources` never takes effect in the resource
   controller's bandwidth, as a corollary of `ControlBandwidth`.
2. Safety arguments for the liveness properties: the ranking functions on which
   the drain loop and the retry end, as invariants.
