-------------------------- MODULE MCResourceControl --------------------------
(***************************************************************************)
(* A small instance of the resource controller for TLC, and its properties.*)
(***************************************************************************)
EXTENDS ResourceControl

Vector(c, r, b) == [d \in Dims |-> CASE d = "cpu" -> c
                                     [] d = "ram" -> r
                                     [] d = "bandwidth" -> b]

\* Node 1 has bandwidth for both tasks, node 2 for one, and either task may
\* go to either node: two threads can contend for the last unit of node 2.
MCCapacity == <<Vector(1, 0, 2), Vector(1, 0, 1)>>
MCNeed == [t \in Tasks |-> Vector(IF t = 2 THEN 1 ELSE 0, 0, 1)]
\* The CPU load of node 2 may fall, which takes away what the second task's
\* reservation added: the clamp at zero acts when that is returned.
MCFluctuations ==
  {[e \in Nodes |-> [d \in FluctuatingDims |->
      IF e = 2 /\ d = "cpu" THEN move ELSE 0]] : move \in {-1, 0}}

-----------------------------------------------------------------------------

\* c waits for nodes_mutex_, which it holds itself.
SelfLocked(c) == pc[c] = "lookup" /\ nodesMutex = c
NobodySelfLocked == \A c \in Callers : ~SelfLocked(c)

\* Queued tasks are worked off: executed, or dequeued by a failure handler.
\* No failure or recovery, and no handler that dequeues while the worker
\* empties and refills the queue, leaves one behind; unless the process dies.
QueuedRuns ==
  (\E e \in Nodes : queue[e] # <<>>) ~>
    \/ \A e \in Nodes : queue[e] = <<>> /\ scratch[e] = <<>> /\ hand[e] = NoTask
    \/ ~Alive

\* Handling a failure ends, although the worker empties and refills the queue
\* and callers fill it at the same time; only a health check that meets a
\* failed node keeps it, with every later call of the monitor, from
\* returning, or the death of the process.
FailureHandlingReturns ==
  \A c \in Operators :
    pc[c] = "lookup" ~> (pc[c] = "idle" \/ ~NobodySelfLocked \/ ~Alive)

\* stop() joins the processing thread, unless a health check has met a
\* failed node: then the thread waits for nodes_mutex_ and stop() for it.
StopReturns ==
  \A c \in Owners :
    pc[c] = "joining" ~> (pc[c] = "idle" \/ ~NobodySelfLocked \/ ~Alive)

\* Of a task taken from a failed node and placed anew: the scheduler
\* enqueues it at its new node, so that its worker runs it.
ReallocatedIsScheduled ==
  \A t \in Tasks :
    (status[t] = "QUEUED" /\ \E e \in Nodes : <<e, t>> \in drained)
      => \/ \E p \in Threads : job[p] = t
         \/ \E e \in Nodes : t \in Range(queue[e]) \cup Range(scratch[e]) \cup {hand[e]}

\* checkEdgeNodeHealth returns, whatever state it finds the nodes in.
HealthCheckReturns == \A c \in Operators : pc[c] = "check" ~> pc[c] = "idle"
=============================================================================
