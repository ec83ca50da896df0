------------------------- MODULE RuntimeProperties --------------------------
(***************************************************************************)
(* What the live runtime is checked for.                                   *)
(***************************************************************************)
EXTENDS LiveRuntime

\* The tasks whose reservation node e carries: admitted and not yet ended,
\* or ended with deallocateResources still to come.
HeldBy(e) ==
  {t \in Tasks : /\ assigned[t] = e
                 /\ \/ status[t] \in {"QUEUED", "RUNNING"}
                    \/ hand[e] = t /\ wpc[e] = "release"}

\* A node's current_usage_ never exceeds its capacity: the check in
\* canAllocate and the reservation in allocateResources are separate critical
\* sections with worker steps in between.  (Here, without background load,
\* current_usage_ is what is reserved, by AccountingExact.)
UsageWithinCapacity ==
  \A e \in Nodes, d \in Dims : usage[e][d] <= Capacity[e][d]

\* A node's current_usage_ is exactly what the tasks it holds require: no
\* reservation is lost or given back twice, which the clamp at zero in
\* deallocateResources would hide.
AccountingExact == \A e \in Nodes : usage[e] = Reserved(Need, HeldBy(e))

At(seq, t) == {k \in DOMAIN seq : seq[k] = t}

\* How often t is in a place of node e: a position of the queue or of the
\* scratch buffer, the worker's hands, or the producer's between allocation
\* and scheduleTask.
PlacesAt(e, t) ==
  Cardinality(At(queue[e], t)) + Cardinality(At(scratch[e], t))
    + (IF hand[e] = t /\ wpc[e] \in {"restore", "start", "activate", "run"}
       THEN 1 ELSE 0)
    + (IF generated = t /\ assigned[t] = e /\ pc[Producer] \in {"credit", "schedule"}
       THEN 1 ELSE 0)

\* A task that waits or runs is in exactly one place, at the node it was
\* assigned to, and no other task is anywhere: getNextTask, which empties a
\* queue and refills it, neither loses nor duplicates one, and a task is
\* enqueued exactly once after allocation.
HeldOnce ==
  \A t \in Tasks, e \in Nodes :
    PlacesAt(e, t) =
      IF assigned[t] = e /\ status[t] \in {"QUEUED", "RUNNING"} THEN 1 ELSE 0

\* A row of task_allocations names the node and the strategy that really
\* placed the task, although strategies are switched at run time, and there
\* is at most one row per task.
StrategyRecorded ==
  \A t \in Tasks :
    /\ Len(dbRows[t]) <= 1
    /\ \A k \in DOMAIN dbRows[t] :
         dbRows[t][k] = [edge |-> assigned[t], strategy |-> used[t]]

Increasing(seq) == \A i, j \in DOMAIN seq : i < j => seq[i] < seq[j]

\* Outside getNextTask a node's queue is in arrival order: restoring the
\* tasks that were not selected keeps their order, and no task arrives
\* between the draining and the restoring.
QueueInArrivalOrder ==
  \A e \in Nodes : schedMutex # e => Increasing(queue[e])

Sum(f) == MapThenSumSet(LAMBDA e : f[e], Nodes)

\* Tasks with a reservation that the executor has not counted yet.
InFlight ==
  {t \in Tasks : \/ status[t] \in {"QUEUED", "RUNNING"}
                 \/ \E e \in Nodes : hand[e] = t /\ wpc[e] \in {"release", "count"}}

\* Workers that have counted an execution whose row is not written yet.
Unwritten == {e \in Nodes : wpc[e] = "record"}

\* One if the producer is at one of the labels, else zero.
InProgress(labels) == IF pc[Producer] \in labels THEN 1 ELSE 0

\* The counters of nodes, allocator, scheduler and executor and the rows of
\* task_execution, each kept under a mutex of its own, differ by no more
\* than the calls that are between two of these mutexes: every request is a
\* success, a failure or in progress, every success is in flight or
\* executed, every execution has its row or is about to get it.
CountersAgree ==
  /\ allocs.total = allocs.successful + allocs.failed
                      + InProgress({"scan", "read", "reserve", "credit"})
  /\ Sum(processed) = allocs.successful + InProgress({"credit"})
  /\ allocs.successful = scheduled + InProgress({"schedule"})
  /\ Sum(processed) = executed + failed + Cardinality(InFlight)
  /\ executed + failed =
       MapThenSumSet(LAMBDA t : dbExec[t], Tasks) + Cardinality(Unwritten)

\* Configurations that somebody chose as a whole.
Intended ==
  {[allocation |-> c.allocation, scheduling |-> c.scheduling] :
     c \in {c \in InitialConfigs : ~c.automatic}}
  \cup ManualRequests
  \cup {Recommended(x) : x \in {0, 60 * Scale * NodeCount, 70 * Scale * NodeCount}}

Effective == [allocation |-> allocStrategy, scheduling |-> schedStrategy]

\* Whoever can take configuration_mutex_ sees a pair that one caller chose:
\* concurrent applyConfiguration calls and recommendations never mix.
EffectiveIntended == cfgMutex = Free => Effective \in Intended

\* In manual mode the effective pair is the requested one.
ManualEffective == cfgMutex = Free /\ ~automatic => Effective = requested

\* When stop() has returned, no task is half done: none runs, every task
\* that ended has its execution row, and only queued tasks keep a
\* reservation.
StoppedCleanly ==
  stopPc = "stopped" =>
    /\ active = {}
    /\ \A t \in Tasks : /\ status[t] # "RUNNING"
                        /\ status[t] \in {"COMPLETED", "FAILED"} <=> dbExec[t] = 1
    /\ \A e \in Nodes : HeldBy(e) = {queue[e][k] : k \in DOMAIN queue[e]}

-----------------------------------------------------------------------------
(* The ledger this runtime implements. *)

LedgerPhase(t) ==
  CASE status[t] = "ABSENT" -> "absent"
    [] status[t] = "CREATED" -> IF dbRows[t] = <<>> THEN "new" ELSE "rejected"
    [] status[t] = "QUEUED" -> "admitted"
    [] status[t] = "RUNNING" -> "running"
    [] OTHER -> IF \E e \in Nodes : hand[e] = t /\ wpc[e] = "release"
                THEN "ended" ELSE "released"

Ledger == INSTANCE TaskLedger WITH
            phase <- [t \in Tasks |-> LedgerPhase(t)], place <- assigned

\* Every step of the runtime is a step of the ledger or leaves it alone: a
\* task is admitted only where the requirements of the tasks held leave
\* room, lives its life in order and once, and releases once.
ImplementsLedger == Ledger!Spec

-----------------------------------------------------------------------------
(* Liveness. *)

Settled(t) ==
  status[t] \in {"COMPLETED", "FAILED"} \/ (status[t] = "CREATED" /\ dbRows[t] # <<>>)

\* Unless the runtime is stopped, every task that is created ends or is
\* recorded as a failed allocation, whatever clients reconfigure meanwhile.
TasksSettle ==
  \A t \in Tasks : status[t] = "CREATED" ~> (Settled(t) \/ stopPc # "none")

\* The producer finishes and processing_complete_ is set.
ProcessingCompletes == <>complete

\* applyConfiguration returns, although the producer holds
\* configuration_mutex_ while it retries and workers hold the scheduler's.
ConfigurationReturns ==
  \A c \in Clients : pc[c] # "idle" ~> pc[c] = "idle"

\* stop() returns once it is called.
StopTerminates == stopPc = "requested" ~> stopPc = "stopped"
=============================================================================
