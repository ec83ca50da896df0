---------------------------- MODULE Invocations -----------------------------
(***************************************************************************)
(* The simulator's runs over one SQLite file (main.cpp, with the tables    *)
(* and statements of database_manager.cpp): every invocation resets the    *)
(* simulation tables, registers the fleet and performs one experiment, or  *)
(* four with --compare, or serves the dashboard (--web).  A process may be *)
(* killed between any two statements; every statement commits by itself.   *)
(*                                                                         *)
(* What an experiment does between statements is left to Experiment and    *)
(* LiveRuntime: here a task may be allocated or refused, and any allocated *)
(* task may be executed before the executor is joined, or never.           *)
(***************************************************************************)
EXTENDS Integers, Sequences

CONSTANTS
  TaskCount,        \* config.task_count
  Configured,       \* config.strategy
  AllStrategies,    \* kAllStrategies, in the order --compare runs them
  MaxInvocations    \* bound: starts of the program

ASSUME InvocationAssumption ==
  /\ TaskCount \in Nat \ {0}
  /\ MaxInvocations \in Nat
  /\ Configured # "none"
  /\ Len(AllStrategies) \in Nat \ {0}

Tasks == 1..TaskCount
NoKey == 0
Fleet == 1      \* the key of the one device and of the one node

\* REFERENCES clauses: the parent table of a foreign key.
Parent == [tasks |-> "devices", task_allocations |-> "tasks",
           task_execution |-> "tasks", resource_history |-> "edge_nodes"]

\* The tables of the schema, but for the task profiles.
Tables == {"devices", "edge_nodes", "tasks", "task_allocations", "task_execution",
           "resource_history"}

\* Mutant: the nodes of the last fleet are kept.
NodesKept == <<"task_execution", "task_allocations", "resource_history", "tasks", "devices">>

\* Mutant: the tasks go before the rows that reference them.
TasksFirst == <<"tasks", "task_execution", "task_allocations",
                "resource_history", "edge_nodes", "devices">>

\* The DELETE statements of resetSimulationData, in their order.
ResetOrder == <<"task_execution", "task_allocations", "resource_history",
                "tasks", "edge_nodes", "devices">>

VARIABLES
  rows,        \* rows of each table
  pc,          \* where main() is
  invocation,  \* number of starts so far
  plan,        \* strategies of the experiments of this invocation
  experiment,  \* number of the current experiment
  step,        \* the next DELETE, then tasks generated
  waiting      \* tasks allocated in this experiment and not yet executed

vars == <<rows, pc, invocation, plan, experiment, step, waiting>>

\* An experiment is under way and its workers may write.
Running == {"begin", "produce", "place", "save"}

\* A row remembers the key it references, its writer and, in
\* task_allocations, the strategy column.
Row(key, parent, label) ==
  [key |-> key, parent |-> parent, run |-> invocation, exp |-> experiment,
   label |-> label]

Insert(table, row) == rows' = [rows EXCEPT ![table] = @ \cup {row}]

\* INSERT OR REPLACE: the old row with this key goes, its children stay.
Replace(table, row) ==
  rows' = [rows EXCEPT ![table] = {r \in @ : r.key # row.key} \cup {row}]

Init ==
  /\ rows = [t \in Tables |-> {}]
  /\ pc = "off" /\ invocation = 0 /\ experiment = 1 /\ step = 1
  /\ plan = <<Configured>> /\ waiting = {}

\* initialize() opens the file; the schemas survive from earlier runs.
Launch ==
  /\ pc = "off" /\ invocation < MaxInvocations
  /\ invocation' = invocation + 1
  /\ plan' \in {<<Configured>>, AllStrategies}
  /\ pc' = "reset" /\ experiment' = 1 /\ step' = 1 /\ waiting' = {}
  /\ UNCHANGED rows

\* PRAGMA foreign_keys = ON refuses to delete a row that is referenced.
Referenced(table) ==
  \E child \in DOMAIN Parent :
    /\ Parent[child] = table
    /\ \E c \in rows[child], r \in rows[table] : c.parent = r.key

ResetTable ==
  /\ pc = "reset" /\ step <= Len(ResetOrder)
  /\ IF Referenced(ResetOrder[step])
     THEN pc' = "failed" /\ UNCHANGED <<rows, step>>
     ELSE /\ rows' = [rows EXCEPT ![ResetOrder[step]] = {}]
          /\ step' = step + 1
          /\ UNCHANGED pc
  /\ UNCHANGED <<invocation, plan, experiment, waiting>>

CreateDevices ==
  /\ pc = "reset" /\ step = Len(ResetOrder) + 1
  /\ Replace("devices", Row(Fleet, NoKey, "none"))
  /\ pc' = "begin"
  /\ UNCHANGED <<invocation, plan, experiment, step, waiting>>

\* A new TaskManager numbers the tasks of every experiment from one.
BeginExperiment ==
  /\ pc = "begin"
  /\ Replace("edge_nodes", Row(Fleet, NoKey, "none"))
  /\ step' = 0
  /\ pc' = "produce"
  /\ UNCHANGED <<invocation, plan, experiment, waiting>>

SaveTask ==
  /\ pc = "produce" /\ step < TaskCount
  /\ Replace("tasks", Row(step + 1, Fleet, "none"))
  /\ step' = step + 1
  /\ pc' = "place"
  /\ UNCHANGED <<invocation, plan, experiment, waiting>>

\* The task is with the workers before its allocation has a row.
ScheduleTask ==
  /\ pc = "place"
  /\ waiting' = waiting \cup {step}
  /\ pc' = "save"
  /\ UNCHANGED <<rows, invocation, plan, experiment, step>>

SaveAllocation ==
  /\ pc = "save"
  /\ Insert("task_allocations", Row(NoKey, step, Configured))
  /\ pc' = "produce"
  /\ UNCHANGED <<invocation, plan, experiment, step, waiting>>

SaveAllocationFailure ==
  /\ pc = "place"
  /\ Insert("task_allocations", Row(NoKey, step, "none"))
  /\ pc' = "produce"
  /\ UNCHANGED <<invocation, plan, experiment, step, waiting>>

SaveTaskExecution(t) ==
  /\ pc \in Running /\ t \in waiting
  /\ Insert("task_execution", Row(NoKey, t, "none"))
  /\ waiting' = waiting \ {t}
  /\ UNCHANGED <<pc, invocation, plan, experiment, step>>

\* recordResourceSnapshots; only the web mode, a plan of one, calls it.
SaveResourceSnapshot ==
  /\ pc \in Running \ {"begin"} /\ Len(plan) = 1
  /\ Insert("resource_history", Row(NoKey, Fleet, "none"))
  /\ UNCHANGED <<pc, invocation, plan, experiment, step, waiting>>

\* Mutant: the workers of the experiment run on.
EndExperimentUnjoined ==
  /\ pc = "produce" /\ step = TaskCount
  /\ IF experiment < Len(plan)
     THEN pc' = "begin" /\ experiment' = experiment + 1
     ELSE pc' = "off" /\ UNCHANGED experiment
  /\ UNCHANGED <<rows, invocation, plan, step, waiting>>

\* The executor is joined; tasks still queued are abandoned.
EndExperiment ==
  /\ pc = "produce" /\ step = TaskCount
  /\ waiting' = {}
  /\ IF experiment < Len(plan)
     THEN pc' = "begin" /\ experiment' = experiment + 1
     ELSE pc' = "off" /\ UNCHANGED experiment
  /\ UNCHANGED <<rows, invocation, plan, step>>

\* The process dies; what was committed stays.
Kill ==
  /\ pc # "off"
  /\ pc' = "off"
  /\ UNCHANGED <<rows, invocation, plan, experiment, step, waiting>>

Next ==
  \/ Launch \/ ResetTable \/ CreateDevices \/ BeginExperiment
  \/ SaveTask \/ ScheduleTask \/ SaveAllocation \/ SaveAllocationFailure
  \/ \E t \in Tasks : SaveTaskExecution(t)
  \/ SaveResourceSnapshot \/ EndExperiment \/ Kill

Spec == Init /\ [][Next]_vars

-----------------------------------------------------------------------------

\* No state an earlier invocation can leave behind, killed or not, makes
\* resetSimulationData fail: children are deleted before their parents.
ResetSucceeds == pc # "failed"

\* Once an invocation has begun its first experiment, every row was written
\* by this invocation, although task ids repeat and the previous process
\* may have died between any two statements.
OnlyThisInvocation ==
  pc \in Running =>
    \A t \in Tables : \A r \in rows[t] : r.run = invocation

\* Between two experiments every row of task_execution has, in the same
\* experiment, an allocation of that task: no worker of an experiment that
\* is over writes into the next one, whose task ids are the same.
ExecutionsAllocated ==
  pc = "begin" =>
    \A x \in rows["task_execution"] :
      \E a \in rows["task_allocations"] :
        a.parent = x.parent /\ a.exp = x.exp /\ a.label # "none"
=============================================================================
