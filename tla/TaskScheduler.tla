---------------------------- MODULE TaskScheduler ---------------------------
(***************************************************************************)
(* The selection policies of task_scheduler.cpp: which position of the     *)
(* drained queue getNextTask takes.                                        *)
(***************************************************************************)
EXTENDS Integers, Sequences

CONSTANTS
  ClockDrift   \* ms the wall clock may advance during one EDF scan

ASSUME SchedulerAssumption == ClockDrift \in Nat

Policies ==
  {"FIFO", "PRIORITY_BASED", "EARLIEST_DEADLINE_FIRST", "ROUND_ROBIN_TIME_SLICE"}

\* std::max_element returns the first of the largest.
SelectsByPriority(k, scratch, priority) ==
  \A j \in DOMAIN scratch :
    \/ priority[scratch[k]] > priority[scratch[j]]
    \/ priority[scratch[k]] = priority[scratch[j]] /\ k <= j

\* std::min_element over getRemainingTimeMs().  Every comparison reads the
\* clock anew, so two tasks are told apart only up to the time that passes
\* during the scan; with a still clock the first of the most urgent wins.
SelectsByDeadline(k, scratch, due) ==
  \A j \in DOMAIN scratch :
    \/ due[scratch[k]] < due[scratch[j]] + ClockDrift
    \/ due[scratch[k]] = due[scratch[j]] /\ k <= j

\* The switch on strategy_ in getNextTask; FIFO never drains the queue.
Selects(policy, k, scratch, priority, due) ==
  \/ policy = "PRIORITY_BASED" /\ SelectsByPriority(k, scratch, priority)
  \/ policy = "EARLIEST_DEADLINE_FIRST" /\ SelectsByDeadline(k, scratch, due)
  \/ policy = "ROUND_ROBIN_TIME_SLICE" /\ k = 1
=============================================================================
