----------------------------- MODULE Experiment -----------------------------
(***************************************************************************)
(* The batch mode: one call of runExperiment (main.cpp).  It drives the    *)
(* same allocator, scheduler, executor and database as LiveRuntime, whose  *)
(* steps it reuses, with one producer and no clients, and differs in four  *)
(* ways: node usage fluctuates after every FluctuationPeriod-th task, the  *)
(* row of an allocation names config.strategy, draining watches only the   *)
(* queues, and the executor is stopped as soon as they look empty.         *)
(*                                                                         *)
(* There is no configuration_mutex_ here; the variable stands for the      *)
(* allocator's strategy_mutex_, which the lone producer always finds free. *)
(***************************************************************************)
EXTENDS RuntimeProperties

CONSTANTS
  ConfiguredStrategy,   \* config.strategy
  FluctuationPeriod,    \* 100 in runExperiment
  Drift                 \* bound: units by which one fluctuation moves usage

ASSUME ExperimentAssumption ==
  /\ ConfiguredStrategy \in Strategies
  /\ FluctuationPeriod \in Nat \ {0}
  /\ Drift \in Nat
  /\ Clients = {}
  /\ \A c \in InitialConfigs : ~c.automatic

\* updateResourceMetrics after the tasks with index 0, 100, 200, ...
\* Fluctuations of different nodes are independent, so one step does all.
UpdateResourceMetrics ==
  IF (generated - 1) % FluctuationPeriod = 0
  THEN \E delta \in [Nodes -> [FluctuatingDims -> -Drift..Drift]] :
         usage' = [e \in Nodes |->
                     SimulateResourceFluctuation(usage[e], Capacity[e], delta[e])]
  ELSE usage' = usage

Placed(row) ==
  /\ dbRows' = [dbRows EXCEPT ![generated] = Append(@, row)]
  /\ cfgMutex' = Free
  /\ UpdateResourceMetrics
  /\ Goto(Producer, "head")
  /\ UNCHANGED <<queue, processed, rrIndex, allocs, scheduled, taskVars,
                 dbStatus, viable, seenUsage, seenQueue>>

\* saveAllocation with config.strategy, then the fluctuation.
RecordAllocation ==
  /\ pc[Producer] = "saveAllocation"
  /\ Placed([edge |-> assigned[generated], strategy |-> ConfiguredStrategy])

RecordFailure ==
  /\ pc[Producer] = "saveFailure"
  /\ Placed([edge |-> NoNode, strategy |-> "none"])

PlaceStep ==
  /\ \/ ReserveEdge \/ CreditAllocation \/ ScheduleTask
     \/ RecordAllocation \/ RecordFailure
  /\ UNCHANGED <<allocStrategy, schedStrategy, schedMutex, dbExec, target,
                 probe, load, generated, attempt, cursor, workVars, execVars,
                 confVars, lifeVars>>

\* The last node's queue was empty as well: the polling loop ends.
QueuesLookEmpty ==
  /\ pc[Producer] = "poll"
  /\ cursor = NodeCount + 1
  /\ outcome' = "drained"
  /\ Goto(Producer, "finish")
  /\ UNCHANGED <<cursor, running, complete>>

PollStep ==
  /\ DrainPoll \/ QueuesLookEmpty \/ DrainGiveUp
  /\ UNCHANGED <<edgeVars, allocVars, schedVars, taskVars, dbVars, target,
                 probe, load, cfgMutex, generated, attempt, viable,
                 seenUsage, seenQueue, workVars, execVars, confVars, stopPc>>

\* Mutant: is_running_ is not cleared.
StopWorkersRunning ==
  /\ pc[Producer] = "finish"
  /\ stopPc' = "joining"
  /\ Goto(Producer, "done")
  /\ UNCHANGED <<edgeVars, allocVars, schedVars, taskVars, dbVars, target,
                 probe, load, cfgMutex, generated, scanVars, workVars,
                 execVars, confVars, running, complete, outcome>>

\* executor->stop(): is_running_ is cleared, then every worker is joined.
StopWorkers ==
  /\ pc[Producer] = "finish"
  /\ execRunning' = FALSE
  /\ stopPc' = "joining"
  /\ Goto(Producer, "done")
  /\ UNCHANGED <<edgeVars, allocVars, schedVars, taskVars, dbVars, target,
                 probe, load, cfgMutex, generated, scanVars, workVars,
                 active, executed, failed, confVars, running, complete,
                 outcome>>

\* Mutant: the workers are not joined.
JoinNobody ==
  /\ stopPc = "joining"
  /\ stopPc' = "stopped"
  /\ UNCHANGED <<edgeVars, allocVars, schedVars, taskVars, dbVars,
                 threadVars, generated, scanVars, workVars, execVars,
                 confVars, running, complete, outcome>>

JoinWorkers ==
  /\ stopPc = "joining"
  /\ \A e \in Nodes : wpc[e] = "exited"
  /\ stopPc' = "stopped"
  /\ UNCHANGED <<edgeVars, allocVars, schedVars, taskVars, dbVars,
                 threadVars, generated, scanVars, workVars, execVars,
                 confVars, running, complete, outcome>>

RunStep == LoopStep \/ ScanStep \/ PlaceStep \/ PollStep \/ StopWorkers \/ JoinWorkers

ExperimentNext ==
  \/ RunStep
  \/ \E e \in Nodes : WorkerStep(e)
  \/ Stopped

ExperimentSpec == Init /\ [][ExperimentNext]_vars

FairExperimentSpec ==
  ExperimentSpec /\ WF_vars(RunStep) /\ \A e \in Nodes : WF_vars(WorkerStep(e))

-----------------------------------------------------------------------------

\* Bandwidth has no background load, so its accounting stays exact in a
\* fluctuating fleet.
BandwidthExact ==
  \A e \in Nodes : usage[e]["bandwidth"] = Reserved(Need, HeldBy(e))["bandwidth"]

\* Never is more bandwidth reserved on a node than it has.  This is as far as
\* "never overcommits a node" (resource_allocator.cpp:110) goes here: a
\* fluctuation that lowers the CPU or RAM in use makes room for a task that
\* the tasks already held leave no room for.
BandwidthFits ==
  \A e \in Nodes :
    Reserved(Need, HeldBy(e))["bandwidth"] <= Capacity[e]["bandwidth"]

\* When the polling loop ends because it saw every queue empty, stopping
\* the executor leaves no task in a queue.
QueuesDrained ==
  stopPc = "stopped" /\ outcome = "drained" => \A e \in Nodes : queue[e] = <<>>

\* runExperiment returns: the workload is placed or given up, the drain
\* ends and every worker is joined.
ExperimentReturns == <>(stopPc = "stopped")
=============================================================================
