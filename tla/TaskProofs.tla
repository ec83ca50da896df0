------------------------------ MODULE TaskProofs ------------------------------
(***************************************************************************)
(* The life of a task in the live runtime: where it is, what it reserves,  *)
(* who counts it.                                                          *)
(*                                                                         *)
(* Queue, scratch buffer, hands of the worker and hands of the producer    *)
(* together hold exactly the tasks that wait or run at a node; the parts   *)
(* are disjoint.  The order of the queues, proved in LiveRuntimeProofs,    *)
(* says that no part holds a task twice.  On this rest, further down, the  *)
(* accounting of reservations, the ledger and the counters.                *)
(***************************************************************************)
EXTENDS LiveRuntimeProofs, EdgeNodeProofs

-----------------------------------------------------------------------------
(* Places, and what stop() leaves behind. *)

Live == {"QUEUED", "RUNNING"}
Ended == {"COMPLETED", "FAILED"}

\* Where a worker has a task that has not ended, and one that has.
Handling == {"restore", "start", "activate", "run"}
Ending == {"release", "count", "record"}

In(seq, t) == \E k \in DOMAIN seq : seq[k] = t

Handed(e, t) == hand[e] = t /\ wpc[e] \in Handling
Pending(e, t) == generated = t /\ assigned[t] = e /\ pc[Producer] \in {"credit", "schedule"}

\* A task that waits or runs is at its node, and only such tasks are.
Located ==
  \A e \in Nodes, t \in Tasks :
    (In(queue[e], t) \/ In(scratch[e], t) \/ Handed(e, t) \/ Pending(e, t))
      <=> assigned[t] = e /\ status[t] \in Live

\* What a worker took is no longer where it took it from.
Apart ==
  \A e \in Nodes :
    wpc[e] \in Handling =>
      /\ ~In(queue[e], hand[e]) /\ ~In(scratch[e], hand[e])
      /\ pc[Producer] \in {"credit", "schedule"} => hand[e] # generated

\* Only an allocated task is queued, runs or ends.
Admitted ==
  /\ pc[Producer] \in {"credit", "schedule"} => assigned[generated] \in Nodes
  /\ \A t \in Tasks : assigned[t] = NoNode => status[t] \in {"ABSENT", "CREATED"}

\* A worker that releases or records a task has ended it at its node.
EndedHere ==
  \A e \in Nodes :
    wpc[e] \in Ending => assigned[hand[e]] = e /\ status[hand[e]] \in Ended

EndingNow(t) == \E e \in Nodes : hand[e] = t /\ wpc[e] \in Ending

\* One execution row for a task that ended, once its worker has written it.
RowsOfEnded ==
  \A t \in Tasks :
    dbExec[t] = IF status[t] \in Ended /\ ~EndingNow(t) THEN 1 ELSE 0

\* A running task, and one in active_tasks_, has a worker.
Worked ==
  /\ \A t \in active : \E e \in Nodes : hand[e] = t /\ wpc[e] = "run"
  /\ \A t \in Tasks : status[t] = "RUNNING" =>
       \E e \in Nodes : hand[e] = t /\ wpc[e] \in {"activate", "run"}

PlacesInv ==
  Located /\ Apart /\ Admitted /\ EndedHere /\ RowsOfEnded /\ Worked

\* stop() joins the producer before it stops the workers, and returns after
\* all of them.
Joined ==
  /\ stopPc \in {"joining", "stopped"} => pc[Producer] = "done"
  /\ stopPc = "stopped" => \A e \in Nodes : wpc[e] = "exited"

-----------------------------------------------------------------------------
(* Elements of sequences. *)

\* A sequence holds its head and what its tail holds; an increasing one
\* holds its head only once.
LEMMA TailIn ==
  ASSUME NEW s \in Seq(Tasks), s # <<>>
  PROVE  /\ Head(s) \in Tasks
         /\ \A t : In(s, t) <=> t = Head(s) \/ In(Tail(s), t)
         /\ Increasing(s) => ~In(Tail(s), Head(s))
<1>0. Head(s) \in Tasks
  OBVIOUS
<1>1. \A t : In(s, t) => t = Head(s) \/ In(Tail(s), t)
  <2> SUFFICES ASSUME NEW t, NEW k \in DOMAIN s, s[k] = t, t # Head(s)
               PROVE  In(Tail(s), t)
    BY DEF In
  <2>1. k \in 1..Len(s) /\ k # 1 /\ Len(s) \in Nat /\ Head(s) = s[1]
    OBVIOUS
  <2>2. k - 1 \in 1..(Len(s) - 1) /\ (k - 1) + 1 = k
    BY <2>1
  <2>3. DOMAIN Tail(s) = 1..(Len(s) - 1) /\ \A i \in 1..(Len(s) - 1) : Tail(s)[i] = s[i + 1]
    BY HeadTailProperties
  <2> QED
    BY <2>2, <2>3 DEF In
<1>2. \A t : t = Head(s) \/ In(Tail(s), t) => In(s, t)
  BY TailElements DEF In
<1>3. Increasing(s) => ~In(Tail(s), Head(s))
  <2> SUFFICES ASSUME Increasing(s), NEW i \in DOMAIN Tail(s), Tail(s)[i] = Head(s)
               PROVE  FALSE
    BY DEF In
  <2>1. Head(s) < Tail(s)[i] /\ Head(s) \in Int
    BY TailOrder, <1>0 DEF Tasks
  <2> QED
    BY <2>1
<1> QED
  BY <1>0, <1>1, <1>2, <1>3

\* Appending adds one element.
LEMMA AppendIn ==
  ASSUME NEW s \in Seq(Tasks), NEW x \in Tasks
  PROVE  \A t : In(Append(s, x), t) <=> In(s, t) \/ t = x
<1>1. /\ Len(s) \in Nat /\ DOMAIN s = 1..Len(s)
      /\ DOMAIN Append(s, x) = 1..(Len(s) + 1)
      /\ \A i \in 1..Len(s) : Append(s, x)[i] = s[i]
      /\ Append(s, x)[Len(s) + 1] = x
  BY AppendProperties
<1>2. Len(s) + 1 \in DOMAIN Append(s, x) /\ DOMAIN s \subseteq DOMAIN Append(s, x)
  BY <1>1
<1>3. \A i \in DOMAIN Append(s, x) : i \in DOMAIN s \/ i = Len(s) + 1
  BY <1>1
<1> QED
  BY <1>1, <1>2, <1>3 DEF In

\* An element of an increasing sequence has one position.
LEMMA OnePosition ==
  ASSUME NEW s \in Seq(Tasks), Increasing(s), NEW i \in DOMAIN s, NEW j \in DOMAIN s,
         s[i] = s[j]
  PROVE  i = j
<1>1. i \in Int /\ j \in Int /\ s[i] \in Tasks /\ s[j] \in Tasks
  OBVIOUS
<1>2. s[i] \in Int /\ s[j] \in Int
  BY <1>1 DEF Tasks
<1>3. ~(s[i] < s[j]) /\ ~(s[j] < s[i])
  BY <1>2
<1>4. ~(i < j) /\ ~(j < i)
  BY <1>3 DEF Increasing
<1> QED
  BY <1>1, <1>4

\* Taking position m out removes exactly what it holds.
LEMMA WithoutIn ==
  ASSUME NEW s \in Seq(Tasks), Increasing(s), NEW m \in DOMAIN s
  PROVE  /\ s[m] \in Tasks
         /\ \A t : In(s, t) <=> t = s[m] \/ In(Without(s, m), t)
         /\ ~In(Without(s, m), s[m])
<1>1. PICK n \in Nat : n = Len(s) /\ DOMAIN s = 1..n
  OBVIOUS
<1>2. m \in Int /\ 1 <= m /\ m <= n
  BY <1>1
<1> DEFINE r == Without(s, m)
           at(i) == IF i < m THEN i ELSE i + 1
<1>3. DOMAIN r = 1..(n - 1) /\ \A i \in 1..(n - 1) : r[i] = s[at(i)]
  BY <1>1, <1>2, WithoutElements
<1> HIDE DEF r
<1>4. \A i \in DOMAIN r : at(i) \in DOMAIN s /\ at(i) # m
  BY <1>1, <1>2, <1>3
<1>5. ASSUME NEW k \in DOMAIN s, k # m
      PROVE  \E i \in DOMAIN r : at(i) = k
  <2>1. CASE k < m
    <3>1. k \in 1..(n - 1) /\ at(k) = k
      BY <1>1, <1>2, <2>1
    <3> QED
      BY <1>3, <3>1
  <2>2. CASE ~(k < m)
    <3>1. k - 1 \in 1..(n - 1) /\ at(k - 1) = k
      BY <1>1, <1>2, <1>5, <2>2
    <3> QED
      BY <1>3, <3>1
  <2> QED
    BY <2>1, <2>2
<1> HIDE DEF at
<1>6. \A t : In(s, t) => t = s[m] \/ In(r, t)
  BY <1>3, <1>5 DEF In
<1>7. \A t : t = s[m] \/ In(r, t) => In(s, t)
  BY <1>3, <1>4 DEF In
<1>8. ~In(r, s[m])
  <2> SUFFICES ASSUME NEW i \in DOMAIN r, r[i] = s[m] PROVE FALSE
    BY DEF In
  <2>1. s[at(i)] = s[m] /\ at(i) \in DOMAIN s /\ at(i) # m
    BY <1>3, <1>4
  <2> QED
    BY <2>1, OnePosition
<1>9. s[m] \in Tasks
  OBVIOUS
<1> QED
  BY <1>6, <1>7, <1>8, <1>9 DEF r

\* In an increasing sequence an element counts once.
LEMMA CountOne ==
  ASSUME NEW s \in Seq(Tasks), Increasing(s), NEW t
  PROVE  Cardinality(At(s, t)) = IF In(s, t) THEN 1 ELSE 0
<1>1. CASE ~In(s, t)
  <2>1. At(s, t) = {}
    BY <1>1 DEF At, In
  <2> QED
    BY <1>1, <2>1, FS_EmptySet
<1>2. CASE In(s, t)
  <2>1. PICK k \in DOMAIN s : s[k] = t
    BY <1>2 DEF In
  <2>2. \A j \in DOMAIN s : s[j] = t => j = k
    BY <2>1, OnePosition
  <2>3. At(s, t) = {k}
    BY <2>1, <2>2 DEF At
  <2> QED
    BY <1>2, <2>3, FS_Singleton
<1> QED
  BY <1>1, <1>2

-----------------------------------------------------------------------------
(* The order in which stop() joins. *)

\* Every step keeps the order of the joins: the producer and the workers do
\* not come back once they have ended.
LEMMA JoinStep ==
  ASSUME TypeOK, Joined, [Next]_vars
  PROVE  Joined'
<1>0. /\ pc \in [Threads -> ThreadPcs] /\ wpc \in [Nodes -> WorkerPcs]
      /\ Producer \in Threads /\ \A c \in Clients : c \in Threads /\ c # Producer
  BY RuntimeAssumption DEF TypeOK, ThreadTypeOK, WorkerTypeOK, Threads
<1>1. ASSUME UNCHANGED stopPc, UNCHANGED wpc,
             pc[Producer] = "done" => pc'[Producer] = "done"
      PROVE  Joined'
  BY <1>1 DEF Joined
<1>2. ASSUME NEW p \in Threads, ConfigureStep(p)
      PROVE  Joined'
  BY <1>0, <1>1, <1>2 DEF ConfigureStep, ReadLoad, Recommend, SetAllocation,
     SetScheduling, Goto, lifeVars, workVars
<1>3. ASSUME NEW c \in Clients, ClientCall(c) \/ ApplyStep(c)
      PROVE  Joined'
  BY <1>0, <1>1, <1>3 DEF ClientCall, ApplyStep, RequestAutomatic, RequestManual,
     ApplyAutomatic, ApplyManual, ApplyManualScheduling, Goto, lifeVars, workVars
<1>4. CASE LoopStep
  BY <1>0, <1>1, <1>4 DEF LoopStep, BeginIteration, LeaveLoop, Generate,
     AcquireConfiguration, Goto, lifeVars, workVars
<1>5. CASE ScanStep
  BY <1>0, <1>1, <1>5 DEF ScanStep, ScanEdge, RetryAllocation, GiveUpAllocation,
     RankViable, ReadEdge, Goto, lifeVars, workVars
<1>6. CASE CommitStep
  BY <1>0, <1>1, <1>6 DEF CommitStep, ReserveEdge, CreditAllocation, ScheduleTask,
     SaveAllocation, SaveAllocationFailure, Goto, lifeVars, workVars
<1>7. CASE DrainStep
  BY <1>0, <1>1, <1>7 DEF DrainStep, DrainPoll, DrainStillActive, DrainDone, DrainGiveUp,
     CompleteProcessing, Goto, workVars
<1>8. ASSUME NEW e \in Nodes, FetchStep(e) \/ ExecuteStep(e)
      PROVE  Joined'
  <2>1. UNCHANGED <<stopPc, pc>>
    BY <1>8 DEF FetchStep, ExecuteStep, lifeVars, threadVars
  <2>2. wpc[e] # "exited"
    BY <1>8 DEF FetchStep, CheckRunning, FetchNothing, DequeueFifo, BeginDrain, DrainOne,
       SelectTask, RestoreOne, ReturnTask, ExecuteStep, StartTask, ActivateTask,
       FinishTask, ReleaseResources, CountExecution, RecordExecution
  <2> QED
    BY <2>1, <2>2 DEF Joined
<1>9. CASE StopStep
  BY <1>9 DEF StopStep, RequestStop, StopExecutor, StopReturns, threadVars, workVars, Joined
<1>10. CASE UNCHANGED vars
  BY <1>1, <1>10 DEF vars, lifeVars, workVars, threadVars
<1> QED
  BY <1>2, <1>3, <1>4, <1>5, <1>6, <1>7, <1>8, <1>9, <1>10, NextCases

-----------------------------------------------------------------------------
(* Where tasks are. *)

\* Initially there is no task.
LEMMA PlacesInit == Init => PlacesInv
<1> SUFFICES ASSUME Init PROVE PlacesInv
  OBVIOUS
<1>0. NoNode \notin Nodes /\ Producer \in Threads
  BY NodeAssumption DEF NoNode, Nodes, Threads
<1>1. /\ \A e \in Nodes : queue[e] = <<>> /\ scratch[e] = <<>> /\ wpc[e] = "idle"
      /\ \A t \in Tasks : status[t] = "ABSENT" /\ assigned[t] = NoNode /\ dbExec[t] = 0
      /\ pc[Producer] = "head" /\ active = {}
  BY <1>0 DEF Init
<1>2. Located
  BY <1>0, <1>1 DEF Located, In, Handed, Pending, Live, Handling
<1>3. Apart /\ Admitted /\ EndedHere /\ RowsOfEnded /\ Worked
  BY <1>1 DEF Apart, Admitted, EndedHere, RowsOfEnded, Worked, Handling, Ending, Ended
<1> QED
  BY <1>2, <1>3 DEF PlacesInv

\* Steps that move no task.
LEMMA QuietPlaces ==
  ASSUME PlacesInv,
         UNCHANGED <<queue, scratch, hand, wpc, assigned, status, dbExec, active, generated>>,
         pc'[Producer] \in {"credit", "schedule"} <=> pc[Producer] \in {"credit", "schedule"}
  PROVE  PlacesInv'
<1>1. Located' /\ Apart'
  BY DEF PlacesInv, Located, Apart, In, Handed, Pending
<1>2. Admitted' /\ EndedHere' /\ RowsOfEnded' /\ Worked'
  BY DEF PlacesInv, Admitted, EndedHere, RowsOfEnded, EndingNow, Worked
<1> QED
  BY <1>1, <1>2 DEF PlacesInv

\* A new task is nowhere yet.
LEMMA GeneratePlaces ==
  ASSUME PlacementInv, PlacesInv, LoopStep, Generate
  PROVE  PlacesInv'
<1>0. /\ Producer \in Threads /\ pc \in [Threads -> ThreadPcs] /\ generated \in Nat
      /\ status \in [Tasks -> Statuses] /\ NoNode \notin Nodes /\ HandsFull
  BY NodeAssumption DEF PlacementInv, TypeOK, ThreadTypeOK, ScanTypeOK, TaskTypeOK, Threads,
     NoNode, Nodes
<1>1. /\ pc[Producer] = "generate" /\ pc'[Producer] = "acquire"
      /\ generated' = generated + 1
      /\ status' = [status EXCEPT ![generated + 1] = "CREATED"]
      /\ UNCHANGED <<queue, scratch, hand, wpc, assigned, dbExec, active>>
  BY <1>0 DEF LoopStep, Generate, Goto, edgeVars, workVars, execVars
<1> DEFINE n == generated + 1
<1>2. n \in Tasks /\ assigned[n] = NoNode
  <2>1. generated < TaskCount /\ TaskCount \in Nat
    BY <1>1, RuntimeAssumption DEF PlacementInv, Bounded
  <2>2. n \in Tasks /\ n > generated
    BY <1>0, <2>1 DEF Tasks
  <2> QED
    BY <2>2 DEF PlacementInv, NotPlacedYet, Unplaced
<1>3. status[n] \in {"ABSENT", "CREATED"} /\ status'[n] = "CREATED"
      /\ \A t \in Tasks : t # n => status'[t] = status[t]
  BY <1>0, <1>1, <1>2 DEF PlacesInv, Admitted
<1> HIDE DEF n
<1>4. Located'
  <2> SUFFICES ASSUME NEW e \in Nodes, NEW t \in Tasks
               PROVE  (In(queue'[e], t) \/ In(scratch'[e], t) \/ Handed(e, t)' \/ Pending(e, t)')
                        <=> assigned'[t] = e /\ status'[t] \in Live
    BY DEF Located
  <2>1. (In(queue[e], t) \/ In(scratch[e], t) \/ Handed(e, t) \/ Pending(e, t))
           <=> assigned[t] = e /\ status[t] \in Live
    BY DEF PlacesInv, Located
  <2>2. /\ Handed(e, t)' <=> Handed(e, t)
        /\ ~Pending(e, t) /\ ~Pending(e, t)'
    BY <1>1 DEF Handed, Pending
  <2>3. assigned'[t] = e /\ status'[t] \in Live <=> assigned[t] = e /\ status[t] \in Live
    BY <1>0, <1>1, <1>2, <1>3
  <2> QED
    BY <1>1, <2>1, <2>2, <2>3
<1>5. Apart' /\ Admitted'
  BY <1>1, <1>3 DEF PlacesInv, Apart, Admitted
<1>6. EndedHere'
  <2>1. \A e \in Nodes : wpc[e] \in Ending => hand[e] \in Tasks /\ hand[e] # n
    BY <1>0, <1>2 DEF PlacesInv, EndedHere, HandsFull, Ending
  <2> QED
    BY <1>1, <1>3, <2>1 DEF PlacesInv, EndedHere
<1>7. RowsOfEnded'
  BY <1>1, <1>2, <1>3 DEF PlacesInv, RowsOfEnded, EndingNow, Ended
<1>8. Worked'
  BY <1>1, <1>3 DEF PlacesInv, Worked
<1> QED
  BY <1>4, <1>5, <1>6, <1>7, <1>8 DEF PlacesInv

\* A placed task is in the producer's hands.
LEMMA ReservePlaces ==
  ASSUME PlacementInv, PlacesInv, CommitStep, ReserveEdge
  PROVE  PlacesInv'
<1>0. /\ Producer \in Threads /\ pc \in [Threads -> ThreadPcs] /\ viable \subseteq Nodes
      /\ status \in [Tasks -> Statuses] /\ assigned \in [Tasks -> Nodes \cup {NoNode}]
      /\ NoNode \notin Nodes /\ HandsFull
  BY NodeAssumption DEF PlacementInv, TypeOK, ThreadTypeOK, ScanTypeOK, TaskTypeOK, Threads,
     NoNode, Nodes
<1>1. /\ pc[Producer] = "reserve" /\ pc'[Producer] = "credit"
      /\ UNCHANGED <<queue, scratch, hand, wpc, dbExec, active, generated>>
      /\ status' = [status EXCEPT ![generated] = "QUEUED"]
  BY <1>0 DEF CommitStep, ReserveEdge, Goto, workVars, execVars
<1>2. PICK n \in Nodes : assigned' = [assigned EXCEPT ![generated] = n]
  BY <1>0 DEF ReserveEdge
<1>3. generated \in Tasks /\ assigned[generated] = NoNode
  BY <1>1 DEF PlacementInv, Bounded, Critical, NotPlacedYet, Unplaced
<1>4. /\ status[generated] \in {"ABSENT", "CREATED"} /\ status'[generated] = "QUEUED"
      /\ assigned'[generated] = n
      /\ \A t \in Tasks : t # generated => status'[t] = status[t] /\ assigned'[t] = assigned[t]
  BY <1>0, <1>1, <1>2, <1>3 DEF PlacesInv, Admitted
<1>5. Located'
  <2> SUFFICES ASSUME NEW e \in Nodes, NEW t \in Tasks
               PROVE  (In(queue'[e], t) \/ In(scratch'[e], t) \/ Handed(e, t)' \/ Pending(e, t)')
                        <=> assigned'[t] = e /\ status'[t] \in Live
    BY DEF Located
  <2>1. (In(queue[e], t) \/ In(scratch[e], t) \/ Handed(e, t) \/ Pending(e, t))
           <=> assigned[t] = e /\ status[t] \in Live
    BY DEF PlacesInv, Located
  <2>2. /\ Handed(e, t)' <=> Handed(e, t)
        /\ ~Pending(e, t)
        /\ Pending(e, t)' <=> t = generated /\ assigned'[t] = e
    BY <1>1 DEF Handed, Pending
  <2>3. CASE t = generated
    BY <1>0, <1>1, <1>3, <1>4, <2>1, <2>2, <2>3 DEF Live
  <2>4. CASE t # generated
    BY <1>1, <1>4, <2>1, <2>2, <2>4
  <2> QED
    BY <2>3, <2>4
<1>6. Apart'
  <2>1. ASSUME NEW e \in Nodes, wpc[e] \in Handling
        PROVE  hand[e] # generated
    <3>1. hand[e] \in Tasks /\ Handed(e, hand[e])
      BY <1>0, <2>1 DEF HandsFull, Handed, Handling
    <3>2. assigned[hand[e]] = e
      BY <3>1 DEF PlacesInv, Located
    <3> QED
      BY <1>0, <1>3, <3>2
  <2> QED
    BY <1>1, <2>1 DEF PlacesInv, Apart
<1>7. Admitted'
  BY <1>0, <1>1, <1>4 DEF PlacesInv, Admitted
<1>8. EndedHere'
  <2>1. \A e \in Nodes : wpc[e] \in Ending => hand[e] \in Tasks /\ hand[e] # generated
    BY <1>0, <1>3 DEF PlacesInv, EndedHere, HandsFull, Ending
  <2> QED
    BY <1>1, <1>4, <2>1 DEF PlacesInv, EndedHere
<1>9. RowsOfEnded'
  BY <1>1, <1>3, <1>4 DEF PlacesInv, RowsOfEnded, EndingNow, Ended
<1>10. Worked'
  BY <1>1, <1>4 DEF PlacesInv, Worked
<1> QED
  BY <1>5, <1>6, <1>7, <1>8, <1>9, <1>10 DEF PlacesInv

\* scheduleTask moves the task from the producer's hands to the queue of its
\* node.
LEMMA EnqueuePlaces ==
  ASSUME PlacementInv, PlacesInv, CommitStep, ScheduleTask
  PROVE  PlacesInv'
<1>0. /\ Producer \in Threads /\ pc \in [Threads -> ThreadPcs]
      /\ status \in [Tasks -> Statuses] /\ queue \in [Nodes -> Seq(Tasks)]
      /\ NoNode \notin Nodes /\ HandsFull
  BY NodeAssumption DEF PlacementInv, TypeOK, ThreadTypeOK, EdgeTypeOK, TaskTypeOK, Threads,
     NoNode, Nodes
<1> DEFINE g == generated
           n == assigned[generated]
<1>1. /\ pc[Producer] = "schedule" /\ pc'[Producer] = "saveAllocation"
      /\ UNCHANGED <<scratch, hand, wpc, assigned, dbExec, active, generated>>
      /\ status' = [status EXCEPT ![g] = "QUEUED"]
      /\ queue' = [queue EXCEPT ![n] = Append(@, g)]
  BY <1>0 DEF CommitStep, ScheduleTask, Goto, workVars, execVars
<1>2. g \in Tasks /\ n \in Nodes
  BY <1>1 DEF PlacementInv, Bounded, Critical, PlacesInv, Admitted
<1>3. status[g] \in Live
  <2>1. Pending(n, g)
    BY <1>1 DEF Pending
  <2> QED
    BY <1>2, <2>1 DEF PlacesInv, Located
<1>4. /\ queue'[n] = Append(queue[n], g)
      /\ \A e \in Nodes : e # n => queue'[e] = queue[e]
      /\ status'[g] = "QUEUED" /\ \A t \in Tasks : t # g => status'[t] = status[t]
  BY <1>0, <1>1, <1>2
<1>5. \A e \in Nodes, t \in Tasks :
        In(queue'[e], t) <=> In(queue[e], t) \/ (e = n /\ t = g)
  <2>1. queue[n] \in Seq(Tasks)
    BY <1>0, <1>2
  <2>2. \A t : In(Append(queue[n], g), t) <=> In(queue[n], t) \/ t = g
    BY <1>2, <2>1, AppendIn
  <2> QED
    BY <1>4, <2>2
<1>6. Located'
  <2> SUFFICES ASSUME NEW e \in Nodes, NEW t \in Tasks
               PROVE  (In(queue'[e], t) \/ In(scratch'[e], t) \/ Handed(e, t)' \/ Pending(e, t)')
                        <=> assigned'[t] = e /\ status'[t] \in Live
    BY DEF Located
  <2>1. (In(queue[e], t) \/ In(scratch[e], t) \/ Handed(e, t) \/ Pending(e, t))
           <=> assigned[t] = e /\ status[t] \in Live
    BY DEF PlacesInv, Located
  <2>2. /\ Handed(e, t)' <=> Handed(e, t)
        /\ ~Pending(e, t)'
        /\ Pending(e, t) <=> t = g /\ e = n
    BY <1>1 DEF Handed, Pending
  <2>3. status'[t] \in Live <=> status[t] \in Live
    BY <1>3, <1>4 DEF Live
  <2> QED
    BY <1>1, <1>5, <2>1, <2>2, <2>3
<1>7. Apart'
  <2>1. \A e \in Nodes : wpc[e] \in Handling => hand[e] \in Tasks
    BY <1>0 DEF HandsFull, Handling
  <2>2. \A e \in Nodes : wpc[e] \in Handling => ~In(queue'[e], hand[e])
    BY <1>1, <1>5, <2>1 DEF PlacesInv, Apart
  <2> QED
    BY <1>1, <2>2 DEF PlacesInv, Apart
<1>8. Admitted'
  BY <1>0, <1>1, <1>2, <1>4 DEF PlacesInv, Admitted
<1>9. EndedHere'
  <2>1. \A e \in Nodes : wpc[e] \in Ending => hand[e] \in Tasks /\ hand[e] # g
    BY <1>0, <1>3 DEF PlacesInv, EndedHere, HandsFull, Ending, Live, Ended
  <2> QED
    BY <1>1, <1>4, <2>1 DEF PlacesInv, EndedHere
<1>10. RowsOfEnded'
  BY <1>1, <1>2, <1>3, <1>4 DEF PlacesInv, RowsOfEnded, EndingNow, Ended, Live
<1>11. Worked'
  BY <1>1, <1>4 DEF PlacesInv, Worked
<1> QED
  BY <1>6, <1>7, <1>8, <1>9, <1>10, <1>11 DEF PlacesInv

\* A worker that moves tasks between its places, or takes one in hand, keeps
\* every task where it was as a whole.
LEMMA MovePlaces ==
  ASSUME PlacesInv, NEW e \in Nodes,
         UNCHANGED <<assigned, status, dbExec, active, generated, pc>>,
         \A f \in Nodes : f # e => /\ queue'[f] = queue[f] /\ scratch'[f] = scratch[f]
                                   /\ hand'[f] = hand[f] /\ wpc'[f] = wpc[f],
         wpc[e] \notin Ending \cup {"activate", "run"},
         wpc'[e] \notin Ending \cup {"activate", "run"},
         \A t \in Tasks :
           (In(queue'[e], t) \/ In(scratch'[e], t) \/ Handed(e, t)')
             <=> (In(queue[e], t) \/ In(scratch[e], t) \/ Handed(e, t)),
         wpc'[e] \in Handling =>
           /\ ~In(queue'[e], hand'[e]) /\ ~In(scratch'[e], hand'[e])
           /\ pc[Producer] \in {"credit", "schedule"} => hand'[e] # generated
  PROVE  PlacesInv'
<1>1. Located'
  <2> SUFFICES ASSUME NEW f \in Nodes, NEW t \in Tasks
               PROVE  (In(queue'[f], t) \/ In(scratch'[f], t) \/ Handed(f, t)' \/ Pending(f, t)')
                        <=> assigned'[t] = f /\ status'[t] \in Live
    BY DEF Located
  <2>1. (In(queue[f], t) \/ In(scratch[f], t) \/ Handed(f, t) \/ Pending(f, t))
           <=> assigned[t] = f /\ status[t] \in Live
    BY DEF PlacesInv, Located
  <2>2. Pending(f, t)' <=> Pending(f, t)
    BY DEF Pending
  <2>3. (In(queue'[f], t) \/ In(scratch'[f], t) \/ Handed(f, t)')
          <=> (In(queue[f], t) \/ In(scratch[f], t) \/ Handed(f, t))
    <3>1. CASE f = e
      BY <3>1
    <3>2. CASE f # e
      BY <3>2 DEF Handed
    <3> QED
      BY <3>1, <3>2
  <2> QED
    BY <2>1, <2>2, <2>3
<1>2. Apart'
  <2> SUFFICES ASSUME NEW f \in Nodes, wpc'[f] \in Handling
               PROVE  /\ ~In(queue'[f], hand'[f]) /\ ~In(scratch'[f], hand'[f])
                      /\ pc'[Producer] \in {"credit", "schedule"} => hand'[f] # generated'
    BY DEF Apart
  <2>1. CASE f = e
    BY <2>1
  <2>2. CASE f # e
    BY <2>2 DEF PlacesInv, Apart
  <2> QED
    BY <2>1, <2>2
<1>3. Admitted' /\ EndedHere'
  BY DEF PlacesInv, Admitted, EndedHere
<1>4. \A t : EndingNow(t)' <=> EndingNow(t)
  BY DEF EndingNow
<1>5. RowsOfEnded'
  BY <1>4 DEF PlacesInv, RowsOfEnded
<1>6. Worked'
  BY DEF PlacesInv, Worked
<1> QED
  BY <1>1, <1>2, <1>3, <1>5, <1>6 DEF PlacesInv

\* getNextTask loses no task and doubles none.
LEMMA FetchPlaces ==
  ASSUME PlacementInv, QueuesInOrder, PlacesInv, NEW e \in Nodes, FetchStep(e)
  PROVE  PlacesInv'
<1> DEFINE q == queue[e]
           s == scratch[e]
<1>0. /\ q \in Seq(Tasks) /\ s \in Seq(Tasks) /\ InOrder(e)
      /\ queue \in [Nodes -> Seq(Tasks)] /\ scratch \in [Nodes -> Seq(Tasks)]
      /\ wpc \in [Nodes -> WorkerPcs] /\ hand \in [Nodes -> Tasks \cup {NoTask}]
  BY DEF PlacementInv, TypeOK, EdgeTypeOK, WorkerTypeOK, QueuesInOrder
<1>1. UNCHANGED <<assigned, status, dbExec, active, generated, pc>>
  BY DEF FetchStep, taskVars, dbVars, execVars, threadVars
<1>2. /\ Increasing(q) /\ Increasing(s)
      /\ \A t : pc[Producer] \in {"credit", "schedule"} /\ (In(q, t) \/ In(s, t))
                => t # generated
  <2>1. pc[Producer] \in {"credit", "schedule"} =>
          Youngest = generated - 1 /\ generated \in Int
    BY DEF Youngest, Unqueued, PlacementInv, TypeOK, ScanTypeOK
  <2>2. UpTo(q, Youngest) /\ UpTo(s, Youngest) /\ Increasing(q) /\ Increasing(s)
    BY <1>0 DEF InOrder
  <2> QED
    BY <2>1, <2>2 DEF UpTo, In
<1>3. CASE CheckRunning(e) \/ FetchNothing(e)
  <2>1. /\ wpc[e] \in {"idle", "fetch"} /\ wpc'[e] \in {"idle", "fetch", "exited"}
        /\ UNCHANGED <<queue, scratch, hand>>
        /\ \A f \in Nodes : f # e => wpc'[f] = wpc[f]
    BY <1>0, <1>3 DEF CheckRunning, FetchNothing, GotoWorker
  <2>2. \A t : ~Handed(e, t) /\ ~Handed(e, t)'
    BY <2>1 DEF Handed, Handling
  <2> QED
    BY <1>1, <2>1, <2>2, MovePlaces DEF Handling, Ending
<1>4. CASE DequeueFifo(e)
  <2>1. /\ wpc[e] = "fetch" /\ wpc'[e] = "start" /\ q # <<>> /\ queue'[e] = Tail(q)
        /\ scratch'[e] = s /\ hand'[e] = Head(q)
        /\ \A f \in Nodes : f # e => /\ queue'[f] = queue[f] /\ scratch'[f] = scratch[f]
                                     /\ hand'[f] = hand[f] /\ wpc'[f] = wpc[f]
    BY <1>0, <1>4 DEF DequeueFifo, GotoWorker
  <2>2. s = <<>>
    BY <1>0, <2>1 DEF InOrder, Held
  <2>3. /\ \A t : In(q, t) <=> t = Head(q) \/ In(Tail(q), t)
        /\ ~In(Tail(q), Head(q))
    BY <1>0, <1>2, <2>1, TailIn
  <2>4. \A t : ~Handed(e, t) /\ (Handed(e, t)' <=> t = Head(q))
    BY <2>1 DEF Handed, Handling
  <2>5. ~In(s, Head(q)) /\ (pc[Producer] \in {"credit", "schedule"} => Head(q) # generated)
    BY <1>2, <2>2, <2>3 DEF In
  <2> HIDE DEF q, s
  <2>6. \A t \in Tasks : (In(queue'[e], t) \/ In(scratch'[e], t) \/ Handed(e, t)')
                            <=> (In(queue[e], t) \/ In(scratch[e], t) \/ Handed(e, t))
    BY <2>1, <2>3, <2>4 DEF q, s
  <2> QED
    BY <1>1, <2>1, <2>3, <2>5, <2>6, MovePlaces DEF Handling, Ending
<1>5. CASE BeginDrain(e)
  <2>1. /\ wpc[e] = "fetch" /\ wpc'[e] = "drain" /\ UNCHANGED <<queue, scratch, hand>>
        /\ \A f \in Nodes : f # e => wpc'[f] = wpc[f]
    BY <1>0, <1>5 DEF BeginDrain, GotoWorker
  <2>2. \A t : ~Handed(e, t) /\ ~Handed(e, t)'
    BY <2>1 DEF Handed, Handling
  <2> QED
    BY <1>1, <2>1, <2>2, MovePlaces DEF Handling, Ending
<1>6. CASE DrainOne(e)
  <2>1. /\ wpc[e] = "drain" /\ wpc' = wpc /\ hand' = hand /\ q # <<>>
        /\ queue'[e] = Tail(q) /\ scratch'[e] = Append(s, Head(q))
        /\ \A f \in Nodes : f # e => queue'[f] = queue[f] /\ scratch'[f] = scratch[f]
    BY <1>0, <1>6 DEF DrainOne
  <2>2. Head(q) \in Tasks /\ \A t : In(q, t) <=> t = Head(q) \/ In(Tail(q), t)
    BY <1>0, <2>1, TailIn
  <2>3. \A t : In(Append(s, Head(q)), t) <=> In(s, t) \/ t = Head(q)
    BY <1>0, <2>2, AppendIn
  <2>4. \A t : ~Handed(e, t) /\ ~Handed(e, t)'
    BY <2>1 DEF Handed, Handling
  <2>5. \A t \in Tasks : (In(queue'[e], t) \/ In(scratch'[e], t) \/ Handed(e, t)')
                            <=> (In(queue[e], t) \/ In(scratch[e], t) \/ Handed(e, t))
    BY <2>1, <2>2, <2>3, <2>4
  <2> QED
    BY <1>1, <2>1, <2>5, MovePlaces DEF Handling, Ending
<1>7. CASE SelectTask(e)
  <2>1. PICK k \in DOMAIN s : /\ scratch' = [scratch EXCEPT ![e] = Without(s, k)]
                              /\ hand' = [hand EXCEPT ![e] = s[k]]
    BY <1>7 DEF SelectTask, Without
  <2>2. /\ wpc[e] = "drain" /\ wpc'[e] = "restore" /\ q = <<>> /\ queue' = queue
        /\ scratch'[e] = Without(s, k) /\ hand'[e] = s[k]
        /\ \A f \in Nodes : f # e => /\ scratch'[f] = scratch[f] /\ hand'[f] = hand[f]
                                     /\ wpc'[f] = wpc[f]
    BY <1>0, <1>7, <2>1 DEF SelectTask, GotoWorker
  <2>3. /\ \A t : In(s, t) <=> t = s[k] \/ In(Without(s, k), t)
        /\ ~In(Without(s, k), s[k])
    BY <1>0, <1>2, WithoutIn
  <2>4. \A t : ~Handed(e, t) /\ (Handed(e, t)' <=> t = s[k])
    BY <2>2 DEF Handed, Handling
  <2>5. ~In(q, s[k]) /\ (pc[Producer] \in {"credit", "schedule"} => s[k] # generated)
    BY <1>2, <2>2, <2>3 DEF In
  <2>6. \A t \in Tasks : (In(queue'[e], t) \/ In(scratch'[e], t) \/ Handed(e, t)')
                            <=> (In(queue[e], t) \/ In(scratch[e], t) \/ Handed(e, t))
    BY <2>2, <2>3, <2>4
  <2> QED
    BY <1>1, <2>2, <2>3, <2>5, <2>6, MovePlaces DEF Handling, Ending
<1>8. CASE RestoreOne(e)
  <2>1. /\ wpc[e] = "restore" /\ wpc' = wpc /\ hand' = hand /\ s # <<>>
        /\ scratch'[e] = Tail(s) /\ queue'[e] = Append(q, Head(s))
        /\ \A f \in Nodes : f # e => queue'[f] = queue[f] /\ scratch'[f] = scratch[f]
    BY <1>0, <1>8 DEF RestoreOne
  <2>2. Head(s) \in Tasks /\ \A t : In(s, t) <=> t = Head(s) \/ In(Tail(s), t)
    BY <1>0, <2>1, TailIn
  <2>3. \A t : In(Append(q, Head(s)), t) <=> In(q, t) \/ t = Head(s)
    BY <1>0, <2>2, AppendIn
  <2>4. \A t : Handed(e, t)' <=> Handed(e, t)
    BY <2>1 DEF Handed
  <2>5. \A t \in Tasks : (In(queue'[e], t) \/ In(scratch'[e], t) \/ Handed(e, t)')
                            <=> (In(queue[e], t) \/ In(scratch[e], t) \/ Handed(e, t))
    BY <2>1, <2>2, <2>3, <2>4
  <2>6. /\ ~In(q, hand[e]) /\ ~In(s, hand[e])
        /\ pc[Producer] \in {"credit", "schedule"} => hand[e] # generated
    BY <2>1 DEF PlacesInv, Apart, Handling
  <2>7. ~In(queue'[e], hand'[e]) /\ ~In(scratch'[e], hand'[e])
    BY <2>1, <2>2, <2>3, <2>6
  <2> QED
    BY <1>1, <2>1, <2>5, <2>6, <2>7, MovePlaces DEF Handling, Ending
<1>9. CASE ReturnTask(e)
  <2>1. /\ wpc[e] = "restore" /\ wpc'[e] = "start" /\ UNCHANGED <<queue, scratch, hand>>
        /\ \A f \in Nodes : f # e => wpc'[f] = wpc[f]
    BY <1>0, <1>9 DEF ReturnTask, GotoWorker
  <2>2. \A t : Handed(e, t)' <=> Handed(e, t)
    BY <2>1 DEF Handed, Handling
  <2>3. /\ ~In(q, hand[e]) /\ ~In(s, hand[e])
        /\ pc[Producer] \in {"credit", "schedule"} => hand[e] # generated
    BY <2>1 DEF PlacesInv, Apart, Handling
  <2> QED
    BY <1>1, <2>1, <2>2, <2>3, MovePlaces DEF Handling, Ending
<1> QED
  BY <1>3, <1>4, <1>5, <1>6, <1>7, <1>8, <1>9 DEF FetchStep

\* simulateTaskExecution ends a task once and writes one row for it.
LEMMA ExecutePlaces ==
  ASSUME PlacementInv, PlacesInv, NEW e \in Nodes, ExecuteStep(e)
  PROVE  PlacesInv'
<1>0. /\ wpc \in [Nodes -> WorkerPcs] /\ hand \in [Nodes -> Tasks \cup {NoTask}]
      /\ status \in [Tasks -> Statuses] /\ dbExec \in [Tasks -> Nat]
      /\ NoNode \notin Nodes
      /\ wpc[e] \in {"start", "activate", "run"} \cup Ending /\ hand[e] \in Tasks
  <2>1. wpc[e] \in {"start", "activate", "run"} \cup Ending
    BY DEF ExecuteStep, StartTask, ActivateTask, FinishTask, ReleaseResources,
       CountExecution, RecordExecution, Ending
  <2>2. hand[e] \in Tasks
    BY <2>1 DEF PlacementInv, HandsFull, Ending
  <2> QED
    BY <2>1, <2>2, NodeAssumption DEF PlacementInv, TypeOK, WorkerTypeOK, TaskTypeOK,
       DatabaseTypeOK, NoNode, Nodes
<1>h. PICK h \in Tasks : h = hand[e]
  BY <1>0
<1>1. UNCHANGED <<queue, scratch, assigned, generated, pc>>
  BY DEF ExecuteStep, threadVars
<1>2. \A f \in Nodes : f # e => hand'[f] = hand[f] /\ wpc'[f] = wpc[f]
  BY <1>0 DEF ExecuteStep, StartTask, ActivateTask, FinishTask, ReleaseResources,
     CountExecution, RecordExecution, GotoWorker
<1>3. /\ assigned[h] = e
      /\ wpc[e] \in {"start", "activate", "run"} =>
           /\ status[h] \in Live /\ ~In(queue[e], h) /\ ~In(scratch[e], h)
           /\ pc[Producer] \in {"credit", "schedule"} => h # generated
      /\ wpc[e] \in Ending => status[h] \in Ended
  <2>1. CASE wpc[e] \in {"start", "activate", "run"}
    <3>1. Handed(e, h) /\ wpc[e] \notin Ending
      BY <1>h, <2>1 DEF Handed, Handling, Ending
    <3> QED
      BY <1>h, <2>1, <3>1 DEF PlacesInv, Located, Apart, Handling
  <2>2. CASE wpc[e] \in Ending
    BY <1>h, <2>2 DEF PlacesInv, EndedHere, Ending
  <2> QED
    BY <1>0, <2>1, <2>2
\* Nobody else has this task.
<1>4. \A f \in Nodes : f # e /\ wpc[f] \in Handling \cup Ending => hand[f] # h
  <2>1. ASSUME NEW f \in Nodes, wpc[f] \in Handling \cup Ending, hand[f] = h
        PROVE  assigned[h] = f
    <3>1. CASE wpc[f] \in Handling
      BY <1>0, <2>1, <3>1 DEF PlacesInv, Located, Handed
    <3>2. CASE wpc[f] \in Ending
      BY <2>1, <3>2 DEF PlacesInv, EndedHere
    <3> QED
      BY <2>1, <3>1, <3>2
  <2> QED
    BY <1>3, <2>1
<1>5. Admitted' /\ (Located /\ Apart /\ EndedHere /\ RowsOfEnded /\ Worked)
  <2>1. \A t \in Tasks : t # h => status'[t] = status[t]
    BY <1>0, <1>h DEF ExecuteStep, StartTask, ActivateTask, FinishTask, ReleaseResources,
       CountExecution, RecordExecution
  <2> QED
    BY <1>0, <1>1, <1>3, <2>1 DEF PlacesInv, Admitted
<1>6. ASSUME \A t \in Tasks : t # h => (status'[t] \in Live <=> status[t] \in Live),
             \A t \in Tasks : t # h => ~Handed(e, t)',
             Handed(e, h)' <=> status'[h] \in Live,
             status'[h] \notin Live => wpc[e] \in {"start", "activate", "run"},
             status'[h] \in Live => status[h] \in Live
      PROVE  Located'
  <2> SUFFICES ASSUME NEW f \in Nodes, NEW t \in Tasks
               PROVE  (In(queue'[f], t) \/ In(scratch'[f], t) \/ Handed(f, t)' \/ Pending(f, t)')
                        <=> assigned'[t] = f /\ status'[t] \in Live
    BY DEF Located
  <2>1. (In(queue[f], t) \/ In(scratch[f], t) \/ Handed(f, t) \/ Pending(f, t))
           <=> assigned[t] = f /\ status[t] \in Live
    BY <1>5 DEF Located
  <2>2. /\ Pending(f, t)' <=> Pending(f, t)
        /\ f # e => (Handed(f, t)' <=> Handed(f, t))
    BY <1>1, <1>2 DEF Pending, Handed
  <2>3. CASE f # e
    <3>1. t = h => assigned[t] # f
      BY <1>3, <2>3
    <3> QED
      BY <1>1, <1>6, <2>1, <2>2, <2>3, <3>1
  <2>4. CASE f = e /\ t # h
    <3>1. ~Handed(e, t)
      BY <1>h, <2>4 DEF Handed
    <3> QED
      BY <1>1, <1>6, <2>1, <2>2, <2>4, <3>1
  <2>5. CASE f = e /\ t = h /\ status'[h] \in Live
    BY <1>1, <1>3, <1>6, <2>5
  <2>6. CASE f = e /\ t = h /\ status'[h] \notin Live
    <3>1. ~In(queue[e], h) /\ ~In(scratch[e], h) /\ ~Pending(e, h)
      BY <1>3, <1>6, <2>6 DEF Pending
    <3> QED
      BY <1>1, <1>6, <2>2, <2>6, <3>1
  <2> QED
    BY <2>3, <2>4, <2>5, <2>6
<1>7. CASE StartTask(e)
  <2>1. /\ wpc[e] = "start" /\ wpc'[e] = "activate" /\ UNCHANGED <<hand, dbExec, active>>
        /\ status'[h] = "RUNNING" /\ \A t \in Tasks : t # h => status'[t] = status[t]
    BY <1>h, <1>0, <1>7 DEF StartTask, GotoWorker
  <2>2. status[h] \in Live /\ Handed(e, h) /\ Handed(e, h)'
        /\ \A t \in Tasks : t # h => ~Handed(e, t)'
    BY <1>h, <1>3, <2>1 DEF Handed, Handling
  <2>3. Located'
    BY <1>6, <2>1, <2>2 DEF Live
  <2>4. Apart'
    BY <1>1, <1>2, <1>5, <2>1 DEF Apart, Handling
  <2>5. \A f \in Nodes : wpc'[f] \in Ending <=> wpc[f] \in Ending
    BY <1>2, <2>1 DEF Ending
  <2>6. EndedHere'
    <3>1. \A f \in Nodes : wpc[f] \in Ending => hand[f] # h /\ hand[f] \in Tasks
      BY <1>4, <2>1 DEF Ending, PlacementInv, HandsFull
    <3> QED
      BY <1>1, <1>5, <2>1, <2>5, <3>1 DEF EndedHere
  <2>7. RowsOfEnded'
    <3>1. \A t : EndingNow(t)' <=> EndingNow(t)
      BY <2>1, <2>5 DEF EndingNow
    <3>2. \A t \in Tasks : status'[t] \in Ended <=> status[t] \in Ended
      BY <2>1, <2>2 DEF Ended, Live
    <3> QED
      BY <1>5, <2>1, <3>1, <3>2 DEF RowsOfEnded
  <2>8. Worked'
    <3>1. \A f \in Nodes : wpc[f] \in {"activate", "run"} => wpc'[f] = wpc[f]
      BY <1>2, <2>1
    <3>2. hand'[e] = h /\ wpc'[e] \in {"activate", "run"}
      BY <1>h, <2>1
    <3> QED
      BY <1>5, <2>1, <3>1, <3>2 DEF Worked
  <2> QED
    BY <1>5, <2>3, <2>4, <2>6, <2>7, <2>8 DEF PlacesInv
<1>8. CASE ActivateTask(e)
  <2>1. /\ wpc[e] = "activate" /\ wpc'[e] = "run" /\ UNCHANGED <<hand, dbExec, status>>
        /\ active' = active \cup {h}
    BY <1>h, <1>0, <1>8 DEF ActivateTask, GotoWorker
  <2>2. status[h] \in Live /\ Handed(e, h) /\ Handed(e, h)'
        /\ \A t \in Tasks : t # h => ~Handed(e, t)'
    BY <1>h, <1>3, <2>1 DEF Handed, Handling
  <2>3. Located'
    BY <1>6, <2>1, <2>2
  <2>4. Apart'
    BY <1>1, <1>2, <1>5, <2>1 DEF Apart, Handling
  <2>5. \A f \in Nodes : wpc'[f] \in Ending <=> wpc[f] \in Ending
    BY <1>2, <2>1 DEF Ending
  <2>6. EndedHere' /\ RowsOfEnded'
    BY <1>1, <1>5, <2>1, <2>5 DEF EndedHere, RowsOfEnded, EndingNow
  <2>7. Worked'
    <3>1. \A f \in Nodes : /\ wpc[f] = "run" => wpc'[f] = "run"
                           /\ wpc[f] \in {"activate", "run"} => wpc'[f] \in {"activate", "run"}
      BY <1>2, <2>1
    <3>2. hand'[e] = h /\ wpc'[e] = "run"
      BY <1>h, <2>1
    <3> QED
      BY <1>5, <2>1, <3>1, <3>2 DEF Worked
  <2> QED
    BY <1>5, <2>3, <2>4, <2>6, <2>7 DEF PlacesInv
<1>9. CASE FinishTask(e)
  <2>1. /\ wpc[e] = "run" /\ wpc'[e] = "release" /\ UNCHANGED <<hand, dbExec>>
        /\ status'[h] \in Ended /\ \A t \in Tasks : t # h => status'[t] = status[t]
        /\ active' = active \ {h}
    BY <1>h, <1>0, <1>9 DEF FinishTask, GotoWorker, Ended
  <2>2. /\ status[h] \in Live /\ status'[h] \notin Live
        /\ \A t \in Tasks : ~Handed(e, t)'
    BY <1>3, <2>1 DEF Handed, Handling, Live, Ended
  <2>3. Located'
    BY <1>0, <1>6, <2>1, <2>2
  <2>4. Apart'
    BY <1>1, <1>2, <1>5, <2>1 DEF Apart, Handling
  <2>5. \A f \in Nodes : f # e => (wpc'[f] \in Ending <=> wpc[f] \in Ending)
    BY <1>2
  <2>6. EndedHere'
    <3> SUFFICES ASSUME NEW f \in Nodes, wpc'[f] \in Ending
                 PROVE  assigned'[hand'[f]] = f /\ status'[hand'[f]] \in Ended
      BY DEF EndedHere
    <3>1. CASE f = e
      BY <1>h, <1>1, <1>3, <2>1, <3>1
    <3>2. CASE f # e
      <4>1. wpc[f] \in Ending /\ hand[f] # h /\ hand[f] \in Tasks
        BY <1>4, <2>5, <3>2 DEF Ending, PlacementInv, HandsFull
      <4> QED
        BY <1>1, <1>5, <2>1, <4>1 DEF EndedHere
    <3> QED
      BY <3>1, <3>2
  <2>7. RowsOfEnded'
    <3>1. EndingNow(h)'
      BY <1>h, <2>1 DEF EndingNow, Ending
    <3>2. \A t \in Tasks : t # h => (EndingNow(t)' <=> EndingNow(t))
      BY <1>h, <2>1, <2>5 DEF EndingNow
    <3>3. dbExec[h] = 0
      BY <1>0, <1>5, <2>2 DEF RowsOfEnded, Live, Ended
    <3> QED
      BY <1>5, <2>1, <3>1, <3>2, <3>3 DEF RowsOfEnded
  <2>8. Worked'
    <3>1. \A f \in Nodes : hand[f] # h => wpc'[f] = wpc[f]
      BY <1>h, <1>2
    <3>2. status'[h] # "RUNNING"
      BY <2>1 DEF Ended
    <3> QED
      BY <1>5, <2>1, <3>1, <3>2 DEF Worked
  <2> QED
    BY <1>5, <2>3, <2>4, <2>6, <2>7, <2>8 DEF PlacesInv
<1>10. ASSUME wpc[e] \in Ending, wpc'[e] \notin Handling \cup {"activate", "run"},
              UNCHANGED <<status, active>>
       PROVE  Located' /\ Apart' /\ Worked'
  <2>1. wpc[e] \notin Handling
    BY <1>10 DEF Handling, Ending
  <2>2. \A f \in Nodes, t \in Tasks : /\ Handed(f, t)' <=> Handed(f, t)
                                      /\ Pending(f, t)' <=> Pending(f, t)
    BY <1>1, <1>2, <1>10, <2>1 DEF Handed, Pending
  <2>3. Located'
    BY <1>1, <1>5, <1>10, <2>2 DEF Located
  <2>4. Apart'
    BY <1>1, <1>2, <1>5, <1>10 DEF Apart
  <2>5. Worked'
    <3>1. \A f \in Nodes : wpc[f] \in {"activate", "run"} =>
            wpc'[f] = wpc[f] /\ hand'[f] = hand[f]
      BY <1>2, <1>10 DEF Ending
    <3> QED
      BY <1>5, <1>10, <3>1 DEF Worked
  <2> QED
    BY <2>3, <2>4, <2>5
<1>11. CASE ReleaseResources(e)
  <2>1. /\ wpc[e] = "release" /\ wpc'[e] = "count"
        /\ UNCHANGED <<hand, dbExec, status, active>>
    BY <1>0, <1>11 DEF ReleaseResources, GotoWorker
  <2>2. \A f \in Nodes : wpc'[f] \in Ending <=> wpc[f] \in Ending
    BY <1>2, <2>1 DEF Ending
  <2>3. EndedHere' /\ RowsOfEnded'
    BY <1>1, <1>5, <2>1, <2>2 DEF EndedHere, RowsOfEnded, EndingNow
  <2> QED
    BY <1>5, <1>10, <2>1, <2>3 DEF PlacesInv, Handling, Ending
<1>12. CASE CountExecution(e)
  <2>1. /\ wpc[e] = "count" /\ wpc'[e] = "record"
        /\ UNCHANGED <<hand, dbExec, status, active>>
    BY <1>0, <1>12 DEF CountExecution, GotoWorker
  <2>2. \A f \in Nodes : wpc'[f] \in Ending <=> wpc[f] \in Ending
    BY <1>2, <2>1 DEF Ending
  <2>3. EndedHere' /\ RowsOfEnded'
    BY <1>1, <1>5, <2>1, <2>2 DEF EndedHere, RowsOfEnded, EndingNow
  <2> QED
    BY <1>5, <1>10, <2>1, <2>3 DEF PlacesInv, Handling, Ending
<1>13. CASE RecordExecution(e)
  <2>1. /\ wpc[e] = "record" /\ wpc'[e] = "idle" /\ UNCHANGED <<status, active>>
        /\ dbExec'[h] = dbExec[h] + 1
        /\ \A t \in Tasks : t # h => dbExec'[t] = dbExec[t]
    BY <1>h, <1>0, <1>13 DEF RecordExecution, GotoWorker
  <2>2. \A f \in Nodes : wpc'[f] \in Ending <=> f # e /\ wpc[f] \in Ending
    BY <1>2, <2>1 DEF Ending
  <2>3. EndedHere'
    BY <1>1, <1>2, <1>5, <2>1, <2>2 DEF EndedHere
  <2>4. RowsOfEnded'
    <3>1. EndingNow(h) /\ ~EndingNow(h)'
      BY <1>h, <1>2, <1>4, <2>1, <2>2 DEF EndingNow, Ending
    <3>2. \A t \in Tasks : t # h => (EndingNow(t)' <=> EndingNow(t))
      BY <1>h, <1>2, <2>2 DEF EndingNow
    <3>3. status[h] \in Ended /\ dbExec[h] = 0
      BY <1>0, <1>3, <1>5, <2>1, <3>1 DEF RowsOfEnded, Ending
    <3> QED
      BY <1>5, <2>1, <3>1, <3>2, <3>3 DEF RowsOfEnded
  <2> QED
    BY <1>5, <1>10, <2>1, <2>3, <2>4 DEF PlacesInv, Handling, Ending
<1> QED
  BY <1>7, <1>8, <1>9, <1>11, <1>12, <1>13 DEF ExecuteStep

\* Every step keeps each task in its place.
LEMMA PlacesStep ==
  ASSUME PlacementInv, QueuesInOrder, PlacesInv, [Next]_vars
  PROVE  PlacesInv'
<1>0. /\ pc \in [Threads -> ThreadPcs] /\ Producer \in Threads
      /\ \A c \in Clients : c \in Threads /\ c # Producer
  BY RuntimeAssumption DEF PlacementInv, TypeOK, ThreadTypeOK, Threads
<1> DEFINE moved == <<queue, scratch, hand, wpc, assigned, status, dbExec, active, generated>>
<1>1. ASSUME NEW p \in Threads, ConfigureStep(p)
      PROVE  PlacesInv'
  <2>1. UNCHANGED moved
    BY <1>1 DEF ConfigureStep, edgeVars, workVars, taskVars, dbVars, execVars
  <2>2. pc'[Producer] \in {"credit", "schedule"} <=> pc[Producer] \in {"credit", "schedule"}
    BY <1>0, <1>1 DEF ConfigureStep, ReadLoad, Recommend, SetAllocation, SetScheduling, Goto
  <2> QED
    BY <2>1, <2>2, QuietPlaces
<1>2. ASSUME NEW c \in Clients, ClientCall(c) \/ ApplyStep(c)
      PROVE  PlacesInv'
  <2>1. UNCHANGED moved
    BY <1>2 DEF ClientCall, ApplyStep, edgeVars, workVars, taskVars, dbVars, execVars
  <2>2. pc'[Producer] = pc[Producer]
    BY <1>0, <1>2 DEF ClientCall, ApplyStep, RequestAutomatic, RequestManual,
       ApplyAutomatic, ApplyManual, ApplyManualScheduling, Goto
  <2> QED
    BY <2>1, <2>2, QuietPlaces
<1>3. CASE LoopStep
  <2>1. CASE Generate
    BY <1>3, <2>1, GeneratePlaces
  <2>2. CASE BeginIteration \/ LeaveLoop \/ AcquireConfiguration
    <3>1. UNCHANGED moved
      BY <1>3, <2>2 DEF LoopStep, BeginIteration, LeaveLoop, AcquireConfiguration, edgeVars,
         workVars, execVars
    <3>2. pc'[Producer] \in {"credit", "schedule"} <=> pc[Producer] \in {"credit", "schedule"}
      BY <1>0, <2>2 DEF BeginIteration, LeaveLoop, AcquireConfiguration, Goto
    <3> QED
      BY <3>1, <3>2, QuietPlaces
  <2> QED
    BY <1>3, <2>1, <2>2 DEF LoopStep
<1>4. CASE ScanStep
  <2>1. UNCHANGED moved
    BY <1>4 DEF ScanStep, edgeVars, workVars, taskVars, dbVars, execVars
  <2>2. pc'[Producer] \in {"credit", "schedule"} <=> pc[Producer] \in {"credit", "schedule"}
    BY <1>0, <1>4 DEF ScanStep, ScanEdge, RetryAllocation, GiveUpAllocation, RankViable,
       ReadEdge, Goto
  <2> QED
    BY <2>1, <2>2, QuietPlaces
<1>5. CASE CommitStep
  <2>1. CASE ReserveEdge
    BY <1>5, <2>1, ReservePlaces
  <2>2. CASE ScheduleTask
    BY <1>5, <2>2, EnqueuePlaces
  <2>3. CASE CreditAllocation \/ SaveAllocation \/ SaveAllocationFailure
    <3>1. UNCHANGED moved
      BY <1>5, <2>3 DEF CommitStep, CreditAllocation, SaveAllocation, SaveAllocationFailure,
         edgeVars, workVars, taskVars, execVars
    <3>2. pc'[Producer] \in {"credit", "schedule"} <=> pc[Producer] \in {"credit", "schedule"}
      BY <1>0, <2>3 DEF CreditAllocation, SaveAllocation, SaveAllocationFailure, Goto
    <3> QED
      BY <3>1, <3>2, QuietPlaces
  <2> QED
    BY <1>5, <2>1, <2>2, <2>3 DEF CommitStep
<1>6. CASE DrainStep
  <2>1. UNCHANGED moved
    BY <1>6 DEF DrainStep, edgeVars, workVars, taskVars, dbVars, execVars
  <2>2. pc'[Producer] \in {"credit", "schedule"} <=> pc[Producer] \in {"credit", "schedule"}
    BY <1>0, <1>6 DEF DrainStep, DrainPoll, DrainStillActive, DrainDone, DrainGiveUp,
       CompleteProcessing, Goto
  <2> QED
    BY <2>1, <2>2, QuietPlaces
<1>7. CASE StopStep \/ UNCHANGED vars
  <2>1. UNCHANGED moved /\ UNCHANGED pc
    BY <1>7 DEF StopStep, vars, edgeVars, workVars, taskVars, dbVars, execVars, threadVars
  <2> QED
    BY <2>1, QuietPlaces
<1> HIDE DEF moved
<1> QED
  BY <1>1, <1>2, <1>3, <1>4, <1>5, <1>6, <1>7, FetchPlaces, ExecutePlaces, NextCases

-----------------------------------------------------------------------------
(* The theorems. *)

\* The invariants hold in every state.
THEOREM PlacesInvariance == Spec => [](PlacementInv /\ QueuesInOrder /\ PlacesInv /\ Joined)
<1>1. Init => Joined
  BY DEF Init, Joined
<1>2. PlacementInv /\ QueuesInOrder /\ [Next]_vars => QueuesInOrder'
  BY OrderStep
<1>3. PlacementInv /\ QueuesInOrder /\ PlacesInv /\ [Next]_vars => PlacesInv'
  BY PlacesStep
<1>4. PlacementInv /\ Joined /\ [Next]_vars => Joined'
  BY JoinStep DEF PlacementInv
<1> QED
  BY <1>1, <1>2, <1>3, <1>4, OrderInit, PlacesInit, PlacementInvariance, PTL DEF Spec

\* Increasing, disjoint parts hold a task once.
LEMMA PlacesHeldOnce == PlacementInv /\ QueuesInOrder /\ PlacesInv => HeldOnce
<1> SUFFICES ASSUME PlacementInv, QueuesInOrder, PlacesInv, NEW t \in Tasks, NEW e \in Nodes
             PROVE  PlacesAt(e, t) = IF assigned[t] = e /\ status[t] \in {"QUEUED", "RUNNING"}
                                     THEN 1 ELSE 0
  BY DEF HeldOnce
<1> DEFINE q == In(queue[e], t)
           s == In(scratch[e], t)
           h == Handed(e, t)
           p == Pending(e, t)
<1>0. /\ queue[e] \in Seq(Tasks) /\ scratch[e] \in Seq(Tasks) /\ InOrder(e)
      /\ generated \in Int
  BY DEF PlacementInv, TypeOK, EdgeTypeOK, WorkerTypeOK, ScanTypeOK, QueuesInOrder
<1>1. /\ Cardinality(At(queue[e], t)) = IF q THEN 1 ELSE 0
      /\ Cardinality(At(scratch[e], t)) = IF s THEN 1 ELSE 0
  BY <1>0, CountOne DEF InOrder
<1>2. PlacesAt(e, t) = (IF q THEN 1 ELSE 0) + (IF s THEN 1 ELSE 0)
                         + (IF h THEN 1 ELSE 0) + (IF p THEN 1 ELSE 0)
  BY <1>1 DEF PlacesAt, Handed, Pending, Handling
<1>3. (q \/ s \/ h \/ p) <=> assigned[t] = e /\ status[t] \in {"QUEUED", "RUNNING"}
  BY DEF PlacesInv, Located, Live
<1>4. ~(q /\ s)
  <2> SUFFICES ASSUME NEW i \in DOMAIN queue[e], NEW j \in DOMAIN scratch[e],
                      queue[e][i] = t, scratch[e][j] = t
               PROVE  FALSE
    BY DEF In
  <2>1. wpc[e] \in Held
    BY <1>0 DEF InOrder
  <2>2. queue[e][i] < scratch[e][j] \/ scratch[e][j] < queue[e][i]
    BY <1>0, <2>1 DEF InOrder, Held, Before
  <2>3. t \in Int
    BY DEF Tasks
  <2> QED
    BY <2>2, <2>3
<1>5. ~(h /\ q) /\ ~(h /\ s) /\ ~(h /\ p)
  BY DEF PlacesInv, Apart, Handed, Pending
<1>6. ~(p /\ q) /\ ~(p /\ s)
  <2>1. p => Youngest = generated - 1 /\ t = generated
    BY DEF Pending, Youngest, Unqueued
  <2>2. (q \/ s) => t <= Youngest
    BY <1>0 DEF InOrder, UpTo, In
  <2> HIDE DEF p, q, s
  <2> QED
    BY <1>0, <2>1, <2>2
<1> HIDE DEF p, q, s, h
<1> QED
  BY <1>2, <1>3, <1>4, <1>5, <1>6


\* A task that waits or runs is in exactly one place of the node it was
\* assigned to, once: emptying and refilling a queue neither loses nor
\* duplicates a task.
THEOREM EachTaskInOnePlace == Spec => []HeldOnce
BY PlacesHeldOnce, PlacesInvariance, PTL

\* Once all threads are joined, every place but the queues is empty.
LEMMA JoinedCleanly == PlacementInv /\ QueuesInOrder /\ PlacesInv /\ Joined => StoppedCleanly
<1> SUFFICES ASSUME PlacementInv, QueuesInOrder, PlacesInv, Joined, stopPc = "stopped"
             PROVE  /\ active = {}
                    /\ \A t \in Tasks :
                         /\ status[t] # "RUNNING"
                         /\ status[t] \in {"COMPLETED", "FAILED"} <=> dbExec[t] = 1
                    /\ \A e \in Nodes : HeldBy(e) = {queue[e][k] : k \in DOMAIN queue[e]}
  BY DEF StoppedCleanly
<1>1. pc[Producer] = "done" /\ \A e \in Nodes : wpc[e] = "exited"
  BY DEF Joined
<1>2. active = {} /\ \A t \in Tasks : status[t] # "RUNNING"
  BY <1>1 DEF PlacesInv, Worked
<1>3. \A t \in Tasks : status[t] \in {"COMPLETED", "FAILED"} <=> dbExec[t] = 1
  BY <1>1 DEF PlacesInv, RowsOfEnded, EndingNow, Ending, Ended
<1>4. ASSUME NEW e \in Nodes
      PROVE  HeldBy(e) = {queue[e][k] : k \in DOMAIN queue[e]}
  <2>1. scratch[e] = <<>> /\ queue[e] \in Seq(Tasks)
    BY <1>1 DEF QueuesInOrder, InOrder, Held, PlacementInv, TypeOK, EdgeTypeOK
  <2>2. \A t \in Tasks : In(queue[e], t) <=> assigned[t] = e /\ status[t] \in Live
    BY <1>1, <2>1 DEF PlacesInv, Located, Handed, Pending, Handling, In
  <2>3. HeldBy(e) = {t \in Tasks : In(queue[e], t)}
    BY <1>1, <2>2 DEF HeldBy, Live
  <2>4. \A k \in DOMAIN queue[e] : queue[e][k] \in Tasks
    BY <2>1
  <2> QED
    BY <2>3, <2>4 DEF In
<1> QED
  BY <1>2, <1>3, <1>4


\* When stop() has returned no task is half done: none runs, every task that
\* ended has one execution row, and only queued tasks keep a reservation.
THEOREM StopIsClean == Spec => []StoppedCleanly
BY JoinedCleanly, PlacesInvariance, PTL

-----------------------------------------------------------------------------
(***************************************************************************)
(* Reservations are accounted for exactly, the counters of the components  *)
(* agree, and the runtime implements the ledger of TaskLedger.             *)
(*                                                                         *)
(* Every step of every thread is shown to be a move of at most one task in *)
(* its life, with what the move does to the usage of a node.  The three    *)
(* results follow from these moves alone.                                  *)
(***************************************************************************)

\* Where the producer has a task that is created and not placed.
Choosing == {"acquire", "scan", "read", "reserve", "saveFailure"}

\* A task exists once it is generated.
Unborn == \A t \in Tasks : t > generated => status[t] = "ABSENT"

\* Exactly the tasks that were placed have a node.
PlacedHaveNode ==
  \A t \in Tasks : assigned[t] = NoNode <=> status[t] \in {"ABSENT", "CREATED"}

\* The task in the producer's hands is not placed before ReserveEdge, and is
\* placed after it.
InHand ==
  /\ pc[Producer] \in Choosing => status[generated] = "CREATED"
  /\ pc[Producer] \in {"credit", "schedule", "saveAllocation"} => assigned[generated] # NoNode

\* What a worker executes has been started.
Started == \A e \in Nodes : wpc[e] \in {"activate", "run"} => status[hand[e]] = "RUNNING"

LifeInv == Unborn /\ PlacedHaveNode /\ InHand /\ Started

\* All that was proved before, and the above.
TaskInv == PlacementInv /\ QueuesInOrder /\ PlacesInv /\ LifeInv

-----------------------------------------------------------------------------
(* The moves. *)

\* Task t alone passes from one phase of the ledger to another.
Moves(t, from, to) ==
  /\ LedgerPhase(t) = from /\ LedgerPhase(t)' = to
  /\ \A u \in Tasks : u # t => LedgerPhase(u)' = LedgerPhase(u)

\* Moves that reserve nothing and release nothing.
LivesOn(t) ==
  /\ \/ Moves(t, "absent", "new") \/ Moves(t, "new", "rejected")
     \/ Moves(t, "admitted", "running") \/ Moves(t, "running", "ended")
  /\ assigned' = assigned

IsAdmitted(t, e) ==
  /\ Moves(t, "new", "admitted")
  /\ assigned' = [assigned EXCEPT ![t] = e]
  /\ CanAllocate(TRUE, Capacity[e], usage[e], Need(t))
  /\ usage' = [usage EXCEPT ![e] = AllocateResources(@, Need(t))]

IsReleased(t) ==
  /\ Moves(t, "ended", "released")
  /\ assigned' = assigned
  /\ usage' = [usage EXCEPT ![assigned[t]] = DeallocateResources(@, Need(t))]

Rests == assigned' = assigned /\ \A t \in Tasks : LedgerPhase(t)' = LedgerPhase(t)

Releasing(t) == \E e \in Nodes : hand[e] = t /\ wpc[e] = "release"

\* The phase of a task, case by case.
LEMMA PhaseCases ==
  ASSUME NEW t \in Tasks
  PROVE  /\ status[t] = "ABSENT" => LedgerPhase(t) = "absent"
         /\ status[t] = "CREATED" =>
              LedgerPhase(t) = IF dbRows[t] = <<>> THEN "new" ELSE "rejected"
         /\ status[t] = "QUEUED" => LedgerPhase(t) = "admitted"
         /\ status[t] = "RUNNING" => LedgerPhase(t) = "running"
         /\ status[t] \in Ended =>
              LedgerPhase(t) = IF Releasing(t) THEN "ended" ELSE "released"
BY DEF LedgerPhase, Releasing, Ended

\* The phase after a step, case by case.
LEMMA PhaseCasesNext ==
  ASSUME NEW t \in Tasks
  PROVE  /\ status'[t] = "ABSENT" => LedgerPhase(t)' = "absent"
         /\ status'[t] = "CREATED" =>
              LedgerPhase(t)' = IF dbRows'[t] = <<>> THEN "new" ELSE "rejected"
         /\ status'[t] = "QUEUED" => LedgerPhase(t)' = "admitted"
         /\ status'[t] = "RUNNING" => LedgerPhase(t)' = "running"
         /\ status'[t] \in Ended =>
              LedgerPhase(t)' = IF Releasing(t)' THEN "ended" ELSE "released"
BY DEF LedgerPhase, Releasing, Ended

\* A task keeps its phase when its status and its row stay, or it is placed
\* and only its row changes, and nobody begins or ends its release.
LEMMA SamePhase ==
  ASSUME NEW t \in Tasks, status'[t] = status[t],
         dbRows'[t] = dbRows[t] \/ status[t] # "CREATED",
         Releasing(t)' <=> Releasing(t)
  PROVE  LedgerPhase(t)' = LedgerPhase(t)
BY DEF LedgerPhase, Releasing

-----------------------------------------------------------------------------
(* The producer. *)

\* Steps after which every task is where it was.
LEMMA QuietLife ==
  ASSUME LifeInv,
         UNCHANGED <<status, assigned, generated, hand, wpc>>,
         \A t \in Tasks : dbRows'[t] = dbRows[t] \/ status[t] # "CREATED",
         pc'[Producer] \in Choosing => pc[Producer] \in Choosing,
         pc'[Producer] \in {"credit", "schedule", "saveAllocation"}
           => pc[Producer] \in {"credit", "schedule", "saveAllocation"}
  PROVE  LifeInv' /\ Rests
<1>1. Unborn' /\ PlacedHaveNode' /\ Started'
  BY DEF LifeInv, Unborn, PlacedHaveNode, Started
<1>2. InHand'
  BY DEF LifeInv, InHand
<1>3. ASSUME NEW t \in Tasks
      PROVE  LedgerPhase(t)' = LedgerPhase(t)
  BY SamePhase DEF Releasing
<1> QED
  BY <1>1, <1>2, <1>3 DEF LifeInv, Rests

\* Generate: a task arrives.
LEMMA GenerateLife ==
  ASSUME TaskInv, LoopStep, Generate
  PROVE  LifeInv' /\ UNCHANGED usage /\ \E t \in Tasks : LivesOn(t)
<1>0. /\ Producer \in Threads /\ pc \in [Threads -> ThreadPcs] /\ generated \in Nat
      /\ status \in [Tasks -> Statuses] /\ HandsFull /\ LifeInv
  BY DEF TaskInv, PlacementInv, TypeOK, ThreadTypeOK, ScanTypeOK, TaskTypeOK, Threads
<1>1. /\ pc[Producer] = "generate" /\ pc'[Producer] = "acquire"
      /\ generated' = generated + 1
      /\ status' = [status EXCEPT ![generated + 1] = "CREATED"]
      /\ UNCHANGED <<usage, hand, wpc, assigned, dbRows>>
  BY <1>0 DEF LoopStep, Generate, Goto, edgeVars, workVars
<1>2. PICK n \in Tasks : n = generated + 1
  <2>1. generated < TaskCount /\ TaskCount \in Nat
    BY <1>1, RuntimeAssumption DEF TaskInv, PlacementInv, Bounded
  <2> QED
    BY <1>0, <2>1 DEF Tasks
<1>3. /\ n > generated /\ status[n] = "ABSENT" /\ dbRows[n] = <<>> /\ status'[n] = "CREATED"
      /\ \A t \in Tasks : t # n => status'[t] = status[t]
  <2>1. n > generated
    BY <1>0, <1>2
  <2> QED
    BY <1>0, <1>1, <1>2, <2>1 DEF LifeInv, Unborn, TaskInv, PlacementInv, NotPlacedYet, Unplaced
<1>4. LedgerPhase(n) = "absent" /\ LedgerPhase(n)' = "new"
  BY <1>1, <1>3, PhaseCases, PhaseCasesNext
<1>5. \A u \in Tasks : u # n => LedgerPhase(u)' = LedgerPhase(u)
  BY <1>1, <1>3, SamePhase DEF Releasing
<1>6. LivesOn(n)
  BY <1>1, <1>4, <1>5 DEF LivesOn, Moves
<1>7. Unborn'
  <2>1. \A t \in Tasks : t > generated' => t > generated /\ t # n
    BY <1>0, <1>1, <1>2 DEF Tasks
  <2> QED
    BY <1>0, <1>3, <2>1 DEF LifeInv, Unborn
<1>8. PlacedHaveNode' /\ InHand'
  BY <1>0, <1>1, <1>2, <1>3 DEF LifeInv, PlacedHaveNode, InHand, Choosing
<1>9. Started'
  <2>1. \A e \in Nodes : wpc[e] \in {"activate", "run"} => hand[e] \in Tasks /\ hand[e] # n
    BY <1>0, <1>3 DEF HandsFull, LifeInv, Started
  <2> QED
    BY <1>0, <1>1, <1>3, <2>1 DEF LifeInv, Started
<1> QED
  BY <1>1, <1>6, <1>7, <1>8, <1>9 DEF LifeInv

\* ReserveEdge: a task is admitted where it fits.
LEMMA ReserveLife ==
  ASSUME TaskInv, ReserveEdge, UNCHANGED <<wpc, hand, generated>>
  PROVE  LifeInv' /\ \E t \in Tasks, e \in Nodes : IsAdmitted(t, e)
<1>0. /\ Producer \in Threads /\ pc \in [Threads -> ThreadPcs] /\ viable \subseteq Nodes
      /\ status \in [Tasks -> Statuses] /\ assigned \in [Tasks -> Nodes \cup {NoNode}]
      /\ generated \in Int /\ NoNode \notin Nodes /\ HandsFull /\ LifeInv
  BY NodeAssumption DEF TaskInv, PlacementInv, TypeOK, ThreadTypeOK, ScanTypeOK, TaskTypeOK,
     Threads, NoNode, Nodes
<1>1. /\ pc[Producer] = "reserve" /\ pc'[Producer] = "credit"
      /\ status' = [status EXCEPT ![generated] = "QUEUED"] /\ UNCHANGED dbRows
  BY <1>0 DEF ReserveEdge, Goto
<1>2. PICK e \in viable :
        /\ usage' = [usage EXCEPT ![e] = AllocateResources(@, Need(generated))]
        /\ assigned' = [assigned EXCEPT ![generated] = e]
  BY DEF ReserveEdge
<1>3. /\ generated \in Tasks /\ status[generated] = "CREATED" /\ dbRows[generated] = <<>>
      /\ IsViable(e, usage, Req(generated)) /\ e \in Nodes
  BY <1>0, <1>1 DEF TaskInv, PlacementInv, Bounded, Critical, NotPlacedYet, Unplaced, LifeInv,
     InHand, Choosing, ViableFits
<1>4. PICK g \in Tasks : g = generated
  BY <1>3
<1>5. /\ status'[g] = "QUEUED" /\ assigned'[g] = e
      /\ \A t \in Tasks : t # g => status'[t] = status[t] /\ assigned'[t] = assigned[t]
  BY <1>0, <1>1, <1>2, <1>4
<1>6. Moves(g, "new", "admitted")
  <2>1. LedgerPhase(g) = "new" /\ LedgerPhase(g)' = "admitted"
    BY <1>3, <1>4, <1>5, PhaseCases, PhaseCasesNext
  <2>2. \A u \in Tasks : u # g => LedgerPhase(u)' = LedgerPhase(u)
    BY <1>1, <1>5, SamePhase DEF Releasing
  <2> QED
    BY <2>1, <2>2 DEF Moves
<1>7. IsAdmitted(g, e)
  BY <1>2, <1>3, <1>4, <1>6 DEF IsAdmitted, IsViable, Need
<1>8. Unborn'
  BY <1>0, <1>3, <1>4, <1>5 DEF LifeInv, Unborn
<1>9. PlacedHaveNode' /\ InHand'
  BY <1>0, <1>1, <1>3, <1>4, <1>5 DEF LifeInv, PlacedHaveNode, InHand, Choosing
<1>10. Started'
  <2>1. \A f \in Nodes : wpc[f] \in {"activate", "run"} => hand[f] \in Tasks /\ hand[f] # g
    BY <1>0, <1>3, <1>4 DEF HandsFull, LifeInv, Started
  <2> QED
    BY <1>0, <1>5, <2>1 DEF LifeInv, Started
<1> QED
  BY <1>3, <1>7, <1>8, <1>9, <1>10 DEF LifeInv

\* ScheduleTask sets the status that ReserveEdge has set, before any worker
\* could have started the task.
LEMMA ScheduleLife ==
  ASSUME TaskInv, ScheduleTask, UNCHANGED <<wpc, hand, generated>>
  PROVE  LifeInv' /\ UNCHANGED <<usage, status>> /\ Rests
<1>0. /\ Producer \in Threads /\ pc \in [Threads -> ThreadPcs]
      /\ status \in [Tasks -> Statuses] /\ HandsFull /\ LifeInv
  BY DEF TaskInv, PlacementInv, TypeOK, ThreadTypeOK, TaskTypeOK, Threads
<1>1. /\ pc[Producer] = "schedule" /\ pc'[Producer] = "saveAllocation"
      /\ status' = [status EXCEPT ![generated] = "QUEUED"]
      /\ UNCHANGED <<usage, assigned, dbRows>>
  BY <1>0 DEF ScheduleTask, Goto
<1>2. PICK g \in Tasks : g = generated
  BY <1>1 DEF TaskInv, PlacementInv, Bounded, Critical
<1>3. status[g] = "QUEUED"
  <2>1. PICK n \in Nodes : n = assigned[g]
    BY <1>1, <1>2 DEF TaskInv, PlacesInv, Admitted
  <2>2. Pending(n, g)
    BY <1>1, <1>2, <2>1 DEF Pending
  <2>3. status[g] \in Live
    BY <2>2 DEF TaskInv, PlacesInv, Located
  <2>4. CASE status[g] = "RUNNING"
    <3>1. PICK f \in Nodes : hand[f] = g /\ wpc[f] \in {"activate", "run"}
      BY <2>4 DEF TaskInv, PlacesInv, Worked
    <3> QED
      BY <1>1, <1>2, <3>1 DEF TaskInv, PlacesInv, Apart, Handling
  <2> QED
    BY <2>3, <2>4 DEF Live
<1>4. status' = status
  BY <1>0, <1>1, <1>2, <1>3
<1>5. UNCHANGED <<status, assigned, generated, hand, wpc, dbRows>>
  BY <1>1, <1>4
<1> QED
  BY <1>0, <1>1, <1>5, QuietLife DEF Choosing

\* A row for a task that was given up: the only one of a task not placed.
LEMMA FailureLife ==
  ASSUME TaskInv, pc[Producer] = "saveFailure", pc'[Producer] = "head",
         UNCHANGED <<status, assigned, generated, hand, wpc>>,
         NEW row, dbRows' = [dbRows EXCEPT ![generated] = Append(@, row)]
  PROVE  LifeInv' /\ \E t \in Tasks : LivesOn(t)
<1>0. /\ dbRows \in [Tasks -> Seq(Rows)] /\ LifeInv
  BY DEF TaskInv, PlacementInv, TypeOK, DatabaseTypeOK
<1>1. PICK g \in Tasks : g = generated
  BY DEF TaskInv, PlacementInv, Bounded, Critical
<1>2. status[g] = "CREATED" /\ dbRows[g] = <<>>
  BY <1>0, <1>1 DEF LifeInv, InHand, Choosing, TaskInv, PlacementInv, NotPlacedYet, Unplaced
<1>3. dbRows'[g] # <<>> /\ \A t \in Tasks : t # g => dbRows'[t] = dbRows[t]
  <2>1. dbRows'[g] = Append(<<>>, row)
    BY <1>0, <1>1, <1>2
  <2> QED
    BY <1>0, <1>1, <2>1
<1>4. LedgerPhase(g) = "new" /\ LedgerPhase(g)' = "rejected"
  BY <1>2, <1>3, PhaseCases, PhaseCasesNext
<1>5. \A u \in Tasks : u # g => LedgerPhase(u)' = LedgerPhase(u)
  BY <1>3, SamePhase DEF Releasing
<1>6. LivesOn(g)
  BY <1>4, <1>5 DEF LivesOn, Moves
<1>7. LifeInv'
  BY <1>0 DEF LifeInv, Unborn, PlacedHaveNode, InHand, Started, Choosing
<1> QED
  BY <1>6, <1>7

\* A row for a task that was placed changes nothing in its life.
LEMMA SaveLife ==
  ASSUME TaskInv, pc[Producer] = "saveAllocation", pc'[Producer] = "head",
         UNCHANGED <<status, assigned, generated, hand, wpc>>,
         NEW row, dbRows' = [dbRows EXCEPT ![generated] = Append(@, row)]
  PROVE  LifeInv' /\ Rests
<1>0. dbRows \in [Tasks -> Seq(Rows)] /\ LifeInv
  BY DEF TaskInv, PlacementInv, TypeOK, DatabaseTypeOK
<1>1. PICK g \in Tasks : g = generated
  BY DEF TaskInv, PlacementInv, Bounded, Critical
<1>2. status[g] # "CREATED"
  BY <1>0, <1>1 DEF LifeInv, InHand, PlacedHaveNode
<1>3. \A t \in Tasks : t # g => dbRows'[t] = dbRows[t]
  BY <1>0, <1>1
<1> QED
  BY <1>0, <1>2, <1>3, QuietLife DEF Choosing

-----------------------------------------------------------------------------
(* The workers. *)

\* Fetching moves a task within its node.
LEMMA FetchLife ==
  ASSUME TaskInv, NEW e \in Nodes, FetchStep(e)
  PROVE  LifeInv' /\ UNCHANGED usage /\ Rests
<1>0. /\ wpc \in [Nodes -> WorkerPcs] /\ hand \in [Nodes -> Tasks \cup {NoTask}]
      /\ LifeInv
  BY DEF TaskInv, PlacementInv, TypeOK, WorkerTypeOK
<1>1. UNCHANGED <<usage, assigned, status, dbRows, generated, pc>>
  BY DEF FetchStep, taskVars, dbVars, threadVars
<1>2. \A f \in Nodes : f # e => hand'[f] = hand[f] /\ wpc'[f] = wpc[f]
  BY <1>0 DEF FetchStep, CheckRunning, FetchNothing, DequeueFifo, BeginDrain, DrainOne,
     SelectTask, RestoreOne, ReturnTask, GotoWorker
<1>3. wpc[e] \notin {"activate", "run", "release"} /\ wpc'[e] \notin {"activate", "run", "release"}
  BY <1>0 DEF FetchStep, CheckRunning, FetchNothing, DequeueFifo, BeginDrain, DrainOne,
     SelectTask, RestoreOne, ReturnTask, GotoWorker
<1>4. LifeInv'
  BY <1>0, <1>1, <1>2, <1>3 DEF LifeInv, Unborn, PlacedHaveNode, InHand, Started
<1>5. \A t \in Tasks : LedgerPhase(t)' = LedgerPhase(t)
  <2>1. \A t \in Tasks : Releasing(t)' <=> Releasing(t)
    BY <1>2, <1>3 DEF Releasing
  <2> QED
    BY <1>1, <2>1, SamePhase
<1> QED
  BY <1>1, <1>4, <1>5 DEF Rests

\* What a worker has in its hands is a task of its node, which has not ended
\* until the worker ends it.
LEMMA WorkerHolds ==
  ASSUME TaskInv, NEW f \in Nodes, wpc[f] \in Handling \cup Ending
  PROVE  /\ hand[f] \in Tasks /\ assigned[hand[f]] = f
         /\ wpc[f] \in Handling => status[hand[f]] \in Live
         /\ wpc[f] \in Ending => status[hand[f]] \in Ended
<1>0. HandsFull /\ PlacesInv
  BY DEF TaskInv, PlacementInv
<1>1. PICK u \in Tasks : u = hand[f]
  BY <1>0 DEF HandsFull, Handling, Ending
<1>2. wpc[f] \in Handling => Handed(f, u)
  BY <1>1 DEF Handed
<1> QED
  BY <1>0, <1>1, <1>2 DEF PlacesInv, Located, EndedHere

\* Executing starts, ends and releases the task in the worker's hands.
LEMMA ExecuteLife ==
  ASSUME TaskInv, NEW e \in Nodes, ExecuteStep(e)
  PROVE  /\ LifeInv'
         /\ \/ UNCHANGED usage /\ (Rests \/ \E t \in Tasks : LivesOn(t))
            \/ \E t \in Tasks : IsReleased(t)
<1>0. /\ wpc \in [Nodes -> WorkerPcs] /\ hand \in [Nodes -> Tasks \cup {NoTask}]
      /\ status \in [Tasks -> Statuses] /\ LifeInv /\ PlacesInv /\ HandsFull
  BY DEF TaskInv, PlacementInv, TypeOK, WorkerTypeOK, TaskTypeOK
<1>1. /\ wpc[e] \in {"start", "activate", "run"} \cup Ending
      /\ UNCHANGED <<assigned, dbRows, generated, pc>>
  BY DEF ExecuteStep, StartTask, ActivateTask, FinishTask, ReleaseResources,
     CountExecution, RecordExecution, Ending, threadVars
<1>h. PICK h \in Tasks : h = hand[e]
  BY <1>0, <1>1 DEF HandsFull, Ending
<1>2. \A f \in Nodes : f # e => hand'[f] = hand[f] /\ wpc'[f] = wpc[f]
  BY <1>0 DEF ExecuteStep, StartTask, ActivateTask, FinishTask, ReleaseResources,
     CountExecution, RecordExecution, GotoWorker
<1>3. ASSUME NEW f \in Nodes, wpc[f] \in Handling \cup Ending
      PROVE  /\ hand[f] \in Tasks /\ assigned[hand[f]] = f
             /\ wpc[f] \in Handling => status[hand[f]] \in Live
             /\ wpc[f] \in Ending => status[hand[f]] \in Ended
  BY <1>3, WorkerHolds
<1>4. \A f \in Nodes : f # e /\ wpc[f] \in Handling \cup Ending => hand[f] # h
  BY <1>h, <1>1, <1>3 DEF Handling, Ending
<1>5. assigned[h] = e /\ assigned[h] # NoNode
  BY <1>h, <1>1, <1>3, NodeAssumption DEF Handling, Ending, NoNode, Nodes
<1>6. ASSUME status[h] \notin {"ABSENT", "CREATED"}, status'[h] \notin {"ABSENT", "CREATED"},
             \A t \in Tasks : t # h => status'[t] = status[t]
      PROVE  Unborn' /\ PlacedHaveNode' /\ InHand'
  <2>1. h <= generated
    BY <1>0, <1>6 DEF LifeInv, Unborn, Tasks, TaskInv, PlacementInv, TypeOK, ScanTypeOK
  <2>2. Unborn'
    <3>1. \A t \in Tasks : t > generated => t # h
      BY <2>1 DEF Tasks, TaskInv, PlacementInv, TypeOK, ScanTypeOK
    <3> QED
      BY <1>0, <1>1, <1>6, <3>1 DEF LifeInv, Unborn
  <2>3. PlacedHaveNode'
    BY <1>0, <1>1, <1>5, <1>6 DEF LifeInv, PlacedHaveNode
  <2>4. InHand'
    <3>1. pc[Producer] \in Choosing => generated \in Tasks /\ status[generated] = "CREATED"
      BY <1>0 DEF LifeInv, InHand, Choosing, TaskInv, PlacementInv, Bounded, Critical
    <3>2. pc[Producer] \in Choosing => generated # h /\ status'[generated] = "CREATED"
      BY <1>6, <3>1
    <3> QED
      BY <1>0, <1>1, <3>2 DEF LifeInv, InHand
  <2> QED
    BY <2>2, <2>3, <2>4
<1>7. CASE StartTask(e)
  <2>1. /\ wpc[e] = "start" /\ wpc'[e] = "activate" /\ UNCHANGED <<usage, hand>>
        /\ status'[h] = "RUNNING" /\ \A t \in Tasks : t # h => status'[t] = status[t]
    BY <1>h, <1>0, <1>7 DEF StartTask, GotoWorker
  <2>2. status[h] = "QUEUED"
    <3>1. status[h] \in Live
      BY <1>h, <1>3, <2>1 DEF Handling
    <3>2. CASE status[h] = "RUNNING"
      <4>1. PICK f \in Nodes : hand[f] = h /\ wpc[f] \in {"activate", "run"}
        BY <1>0, <3>2 DEF PlacesInv, Worked
      <4> QED
        BY <1>4, <2>1, <4>1 DEF Handling
    <3> QED
      BY <3>1, <3>2 DEF Live
  <2>3. \A t \in Tasks : Releasing(t)' <=> Releasing(t)
    BY <1>2, <2>1 DEF Releasing
  <2>4. LivesOn(h)
    <3>1. LedgerPhase(h) = "admitted" /\ LedgerPhase(h)' = "running"
      BY <2>1, <2>2, PhaseCases, PhaseCasesNext
    <3>2. \A u \in Tasks : u # h => LedgerPhase(u)' = LedgerPhase(u)
      BY <1>1, <2>1, <2>3, SamePhase
    <3> QED
      BY <1>1, <3>1, <3>2 DEF LivesOn, Moves
  <2>5. Started'
    <3> SUFFICES ASSUME NEW f \in Nodes, wpc'[f] \in {"activate", "run"}
                 PROVE  status'[hand'[f]] = "RUNNING"
      BY DEF Started
    <3>1. CASE f = e
      BY <1>h, <2>1, <3>1
    <3>2. CASE f # e
      <4>1. hand[f] \in Tasks /\ hand[f] # h /\ status[hand[f]] = "RUNNING"
        BY <1>0, <1>2, <1>4, <3>2 DEF LifeInv, Started, HandsFull, Handling
      <4> QED
        BY <1>2, <2>1, <3>2, <4>1
    <3> QED
      BY <3>1, <3>2
  <2> QED
    BY <1>6, <2>1, <2>2, <2>4, <2>5 DEF LifeInv
<1>8. CASE ActivateTask(e)
  <2>1. /\ wpc[e] = "activate" /\ wpc'[e] = "run" /\ UNCHANGED <<usage, hand, status>>
    BY <1>0, <1>8 DEF ActivateTask, GotoWorker
  <2>2. \A t \in Tasks : Releasing(t)' <=> Releasing(t)
    BY <1>2, <2>1 DEF Releasing
  <2>3. Rests
    BY <1>1, <2>1, <2>2, SamePhase DEF Rests
  <2>4. LifeInv'
    BY <1>0, <1>1, <1>2, <2>1 DEF LifeInv, Unborn, PlacedHaveNode, InHand, Started
  <2> QED
    BY <2>1, <2>3, <2>4
<1>9. CASE FinishTask(e)
  <2>1. /\ wpc[e] = "run" /\ wpc'[e] = "release" /\ UNCHANGED <<usage, hand>>
        /\ status'[h] \in Ended /\ \A t \in Tasks : t # h => status'[t] = status[t]
    BY <1>h, <1>0, <1>9 DEF FinishTask, GotoWorker, Ended
  <2>2. status[h] = "RUNNING"
    BY <1>h, <1>0, <2>1 DEF LifeInv, Started
  <2>3. Releasing(h)' /\ \A t \in Tasks : t # h => (Releasing(t)' <=> Releasing(t))
    BY <1>h, <1>2, <2>1 DEF Releasing
  <2>4. LivesOn(h)
    <3>1. LedgerPhase(h) = "running" /\ LedgerPhase(h)' = "ended"
      BY <2>1, <2>2, <2>3, PhaseCases, PhaseCasesNext
    <3>2. \A u \in Tasks : u # h => LedgerPhase(u)' = LedgerPhase(u)
      BY <1>1, <2>1, <2>3, SamePhase
    <3> QED
      BY <1>1, <3>1, <3>2 DEF LivesOn, Moves
  <2>5. Started'
    <3> SUFFICES ASSUME NEW f \in Nodes, wpc'[f] \in {"activate", "run"}
                 PROVE  status'[hand'[f]] = "RUNNING"
      BY DEF Started
    <3>1. f # e
      BY <2>1
    <3>2. hand[f] \in Tasks /\ hand[f] # h /\ status[hand[f]] = "RUNNING"
      BY <1>0, <1>2, <1>4, <3>1 DEF LifeInv, Started, HandsFull, Handling
    <3> QED
      BY <1>2, <2>1, <3>1, <3>2
  <2>6. status'[h] \notin {"ABSENT", "CREATED"}
    BY <2>1 DEF Ended
  <2> QED
    BY <1>6, <2>1, <2>2, <2>4, <2>5, <2>6 DEF LifeInv
<1>10. CASE ReleaseResources(e)
  <2>1. /\ wpc[e] = "release" /\ wpc'[e] = "count" /\ UNCHANGED <<hand, status>>
        /\ usage' = [usage EXCEPT ![e] = DeallocateResources(@, Need(h))]
    BY <1>h, <1>0, <1>10 DEF ReleaseResources, GotoWorker
  <2>2. Releasing(h) /\ ~Releasing(h)'
    BY <1>h, <1>2, <1>4, <2>1 DEF Releasing, Ending
  <2>3. \A t \in Tasks : t # h => (Releasing(t)' <=> Releasing(t))
    BY <1>h, <1>2, <2>1 DEF Releasing
  <2>4. IsReleased(h)
    <3>1. status[h] \in Ended
      BY <1>h, <1>3, <2>1 DEF Ending
    <3>2. LedgerPhase(h) = "ended" /\ LedgerPhase(h)' = "released"
      BY <2>1, <2>2, <3>1, PhaseCases, PhaseCasesNext
    <3>3. \A u \in Tasks : u # h => LedgerPhase(u)' = LedgerPhase(u)
      BY <1>1, <2>1, <2>3, SamePhase
    <3> QED
      BY <1>1, <1>5, <2>1, <3>2, <3>3 DEF IsReleased, Moves
  <2>5. LifeInv'
    BY <1>0, <1>1, <1>2, <2>1 DEF LifeInv, Unborn, PlacedHaveNode, InHand, Started
  <2> QED
    BY <2>4, <2>5
<1>11. CASE CountExecution(e) \/ RecordExecution(e)
  <2>1. /\ wpc[e] \in {"count", "record"} /\ wpc'[e] \in {"record", "idle"}
        /\ UNCHANGED <<usage, status>>
    BY <1>0, <1>11 DEF CountExecution, RecordExecution, GotoWorker
  <2>2. \A t \in Tasks : Releasing(t)' <=> Releasing(t)
    BY <1>2, <2>1 DEF Releasing
  <2>3. Rests
    BY <1>1, <2>1, <2>2, SamePhase DEF Rests
  <2>4. LifeInv'
    BY <1>0, <1>1, <1>2, <2>1 DEF LifeInv, Unborn, PlacedHaveNode, InHand, Started
  <2> QED
    BY <2>1, <2>3, <2>4
<1> QED
  BY <1>7, <1>8, <1>9, <1>10, <1>11 DEF ExecuteStep

-----------------------------------------------------------------------------
(* All steps. *)

\* What a step may do to the tasks and to the usage of the nodes.
LedgerMove ==
  \/ UNCHANGED usage /\ (Rests \/ \E t \in Tasks : LivesOn(t))
  \/ \E t \in Tasks, e \in Nodes : IsAdmitted(t, e)
  \/ \E t \in Tasks : IsReleased(t)

\* Initially there are no tasks.
LEMMA LifeInit == Init => LifeInv
BY DEF Init, LifeInv, Unborn, PlacedHaveNode, InHand, Started, Choosing, Threads

\* Every step of the runtime is one of these moves.
LEMMA LifeStep == TaskInv /\ [Next]_vars => LifeInv' /\ LedgerMove
<1> SUFFICES ASSUME TaskInv, [Next]_vars PROVE LifeInv' /\ LedgerMove
  OBVIOUS
<1>0. /\ pc \in [Threads -> ThreadPcs] /\ Producer \in Threads /\ LifeInv
      /\ \A c \in Clients : c \in Threads /\ c # Producer
  BY RuntimeAssumption DEF TaskInv, PlacementInv, TypeOK, ThreadTypeOK, Threads
<1>1. ASSUME UNCHANGED <<usage, status, assigned, generated, hand, wpc, dbRows>>,
             pc'[Producer] \in Choosing => pc[Producer] \in Choosing,
             pc'[Producer] \in {"credit", "schedule", "saveAllocation"}
               => pc[Producer] \in {"credit", "schedule", "saveAllocation"}
      PROVE  LifeInv' /\ LedgerMove
  BY <1>0, <1>1, QuietLife DEF LedgerMove
<1>2. ASSUME NEW p \in Threads, ConfigureStep(p)
      PROVE  LifeInv' /\ LedgerMove
  <2>1. UNCHANGED <<usage, status, assigned, generated, hand, wpc, dbRows>>
    BY <1>2 DEF ConfigureStep, edgeVars, workVars, taskVars, dbVars
  <2>2. \/ pc'[Producer] = pc[Producer]
        \/ pc'[Producer] \in {"setAllocation", "setScheduling", "generate"}
    BY <1>0, <1>2 DEF ConfigureStep, ReadLoad, Recommend, SetAllocation, SetScheduling, Goto
  <2> QED
    BY <1>1, <2>1, <2>2 DEF Choosing
<1>3. ASSUME NEW c \in Clients, ClientCall(c) \/ ApplyStep(c)
      PROVE  LifeInv' /\ LedgerMove
  <2>1. UNCHANGED <<usage, status, assigned, generated, hand, wpc, dbRows>>
    BY <1>3 DEF ClientCall, ApplyStep, edgeVars, workVars, taskVars, dbVars
  <2>2. pc'[Producer] = pc[Producer]
    BY <1>0, <1>3 DEF ClientCall, ApplyStep, RequestAutomatic, RequestManual,
       ApplyAutomatic, ApplyManual, ApplyManualScheduling, Goto
  <2> QED
    BY <1>1, <2>1, <2>2
<1>4. CASE LoopStep
  <2>1. CASE Generate
    BY <1>4, <2>1, GenerateLife DEF LedgerMove
  <2>2. CASE BeginIteration \/ LeaveLoop
    <3>1. UNCHANGED <<usage, status, assigned, generated, hand, wpc, dbRows>>
      BY <1>4, <2>2 DEF LoopStep, BeginIteration, LeaveLoop, edgeVars, workVars
    <3>2. pc'[Producer] \in {"recommend", "generate", "poll"}
      BY <1>0, <2>2 DEF BeginIteration, LeaveLoop, Goto
    <3> QED
      BY <1>1, <3>1, <3>2 DEF Choosing
  <2>3. CASE AcquireConfiguration
    <3>1. UNCHANGED <<usage, status, assigned, generated, hand, wpc, dbRows>>
      BY <1>4, <2>3 DEF LoopStep, AcquireConfiguration, edgeVars, workVars
    <3>2. pc[Producer] = "acquire" /\ pc'[Producer] = "scan"
      BY <1>0, <2>3 DEF AcquireConfiguration, Goto
    <3> QED
      BY <1>1, <3>1, <3>2 DEF Choosing
  <2> QED
    BY <1>4, <2>1, <2>2, <2>3 DEF LoopStep
<1>5. CASE ScanStep
  <2>1. UNCHANGED <<usage, status, assigned, generated, hand, wpc, dbRows>>
    BY <1>5 DEF ScanStep, edgeVars, workVars, taskVars, dbVars
  <2>2. pc[Producer] \in Choosing /\ pc'[Producer] \in Choosing
    BY <1>0, <1>5 DEF ScanStep, ScanEdge, RetryAllocation, GiveUpAllocation, RankViable,
       ReadEdge, Goto, Choosing
  <2> QED
    BY <1>1, <2>1, <2>2 DEF Choosing
<1>6. CASE CommitStep
  <2>0. UNCHANGED <<generated, hand, wpc>>
    BY <1>6 DEF CommitStep, workVars
  <2>1. CASE ReserveEdge
    BY <2>0, <2>1, ReserveLife DEF LedgerMove
  <2>2. CASE ScheduleTask
    BY <2>0, <2>2, ScheduleLife DEF LedgerMove
  <2>3. CASE SaveAllocation
    <3>1. UNCHANGED <<usage, status, assigned>>
          /\ pc[Producer] = "saveAllocation" /\ pc'[Producer] = "head"
      BY <1>0, <2>3 DEF SaveAllocation, edgeVars, taskVars, Goto
    <3>2. PICK row : dbRows' = [dbRows EXCEPT ![generated] = Append(@, row)]
      BY <2>3 DEF SaveAllocation
    <3> QED
      BY <2>0, <3>1, <3>2, SaveLife DEF LedgerMove
  <2>4. CASE SaveAllocationFailure
    <3>1. UNCHANGED <<usage, status, assigned>>
          /\ pc[Producer] = "saveFailure" /\ pc'[Producer] = "head"
      BY <1>0, <2>4 DEF SaveAllocationFailure, edgeVars, taskVars, Goto
    <3>2. PICK row : dbRows' = [dbRows EXCEPT ![generated] = Append(@, row)]
      BY <2>4 DEF SaveAllocationFailure
    <3> QED
      BY <2>0, <3>1, <3>2, FailureLife DEF LedgerMove
  <2>5. CASE CreditAllocation
    <3>1. UNCHANGED <<usage, status, assigned, generated, hand, wpc, dbRows>>
      BY <2>0, <2>5 DEF CreditAllocation, edgeVars, taskVars
    <3>2. pc[Producer] = "credit" /\ pc'[Producer] = "schedule"
      BY <1>0, <2>5 DEF CreditAllocation, Goto
    <3> QED
      BY <1>1, <3>1, <3>2 DEF Choosing
  <2> QED
    BY <1>6, <2>1, <2>2, <2>3, <2>4, <2>5 DEF CommitStep
<1>7. CASE DrainStep
  <2>1. UNCHANGED <<usage, status, assigned, generated, hand, wpc, dbRows>>
    BY <1>7 DEF DrainStep, edgeVars, workVars, taskVars, dbVars
  <2>2. pc'[Producer] \in {"poll", "finish", "done"}
    BY <1>0, <1>7 DEF DrainStep, DrainPoll, DrainStillActive, DrainDone, DrainGiveUp,
       CompleteProcessing, Goto
  <2> QED
    BY <1>1, <2>1, <2>2 DEF Choosing
<1>8. ASSUME NEW e \in Nodes, FetchStep(e) \/ ExecuteStep(e)
      PROVE  LifeInv' /\ LedgerMove
  BY <1>8, FetchLife, ExecuteLife DEF LedgerMove
<1>9. CASE StopStep \/ UNCHANGED vars
  <2>1. UNCHANGED <<usage, status, assigned, generated, hand, wpc, dbRows>> /\ UNCHANGED pc
    BY <1>9 DEF StopStep, vars, edgeVars, workVars, taskVars, dbVars, threadVars
  <2> QED
    BY <1>1, <2>1
<1> QED
  BY <1>2, <1>3, <1>4, <1>5, <1>6, <1>7, <1>8, <1>9, NextCases

\* The invariants hold in every reachable state.
THEOREM TaskInvariance == Spec => []TaskInv
<1>1. LifeInv /\ (PlacementInv /\ QueuesInOrder /\ PlacesInv /\ Joined) => TaskInv
  BY DEF TaskInv
<1> QED
  BY <1>1, LifeInit, LifeStep, PlacesInvariance, PTL DEF Spec

-----------------------------------------------------------------------------
(* Usage is what the tasks held require. *)

Holding == {"admitted", "running", "ended"}

\* The tasks node e holds, by their phase.
HeldNow(e) == {t \in Tasks : assigned[t] = e /\ LedgerPhase(t) \in Holding}

\* In the states the runtime reaches, a reservation that is carried is one of
\* a task in these phases.
LEMMA HeldByPhase == TaskInv => \A e \in Nodes : HeldBy(e) = HeldNow(e)
<1> SUFFICES ASSUME TaskInv, NEW e \in Nodes, NEW t \in Tasks, assigned[t] = e
             PROVE  \/ status[t] \in {"QUEUED", "RUNNING"}
                    \/ hand[e] = t /\ wpc[e] = "release"
                    <=> LedgerPhase(t) \in Holding
  BY DEF HeldBy, HeldNow
<1>1. status[t] \in Statuses
  BY DEF TaskInv, PlacementInv, TypeOK, TaskTypeOK
<1>2. Releasing(t) => hand[e] = t /\ wpc[e] = "release"
  BY DEF Releasing, TaskInv, PlacesInv, EndedHere, Ending
<1>3. hand[e] = t /\ wpc[e] = "release" => status[t] \in Ended
  BY DEF TaskInv, PlacesInv, EndedHere, Ending
<1>4. hand[e] = t /\ wpc[e] = "release" => Releasing(t)
  BY DEF Releasing
<1>5. CASE status[t] \in {"ABSENT", "CREATED"}
  <2>1. LedgerPhase(t) \in {"absent", "new", "rejected"}
    BY <1>5, PhaseCases
  <2> QED
    BY <1>3, <1>5, <2>1 DEF Holding, Ended
<1>6. CASE status[t] \in {"QUEUED", "RUNNING"}
  BY <1>6, PhaseCases DEF Holding
<1>7. CASE status[t] \in Ended
  BY <1>2, <1>4, <1>7, PhaseCases DEF Holding, Ended
<1> QED
  BY <1>1, <1>5, <1>6, <1>7 DEF Statuses, Ended

\* What each task requires of one resource.
Claim(d) == [t \in Tasks |-> Need(t)[d]]

\* There are finitely many tasks, whose claims are naturals.
LEMMA ClaimsFinite ==
  /\ IsFiniteSet(Tasks) /\ \A S \in SUBSET Tasks : IsFiniteSet(S)
  /\ \A d \in Dims, t \in Tasks : Need(t)[d] \in Nat /\ Claim(d)[t] = Need(t)[d]
<1>1. IsFiniteSet(Tasks)
  BY Limits, FS_Interval DEF Tasks
<1>2. \A t \in Tasks : Need(t) \in Resources
  BY NeedType DEF Tasks
<1> QED
  BY <1>1, <1>2, FS_Subset DEF Claim, Resources

\* Reserved, resource by resource, as a sum of claims.
LEMMA ClaimsAdd ==
  ASSUME NEW S \in SUBSET Tasks, NEW d
  PROVE  MapThenSumSet(LAMBDA t : Need(t)[d], S) = SumOver(Claim(d), S)
<1> DEFINE Recursion(g) ==
      g = [s \in SUBSET S |-> IF s = {} THEN 0
                              ELSE Need(Picked(s))[d] + g[s \ {Picked(s)}]]
<1>1. MapThenSumSet(LAMBDA t : Need(t)[d], S) = (CHOOSE g : Recursion(g))[S]
  BY DEF MapThenSumSet, MapThenFoldSet, Picked
<1>2. ASSUME NEW g
      PROVE  Adds(g, Claim(d), S) <=> Recursion(g)
  <2>1. \A s \in SUBSET S : s # {} => Claim(d)[Picked(s)] = Need(Picked(s))[d]
    BY PickedIn DEF Claim
  <2> QED
    BY <2>1 DEF Adds
<1> HIDE DEF Recursion
<1>3. (CHOOSE g : Adds(g, Claim(d), S)) = CHOOSE g : Recursion(g)
  BY <1>2
<1> QED
  BY <1>1, <1>3, SumUnfold

\* What a set of tasks reserves, as sums of functions.
LEMMA ReservedIsSum ==
  ASSUME NEW S \in SUBSET Tasks
  PROVE  Reserved(Need, S) = [d \in Dims |-> SumOver(Claim(d), S)]
BY ClaimsAdd DEF Reserved

\* One more task held.
LEMMA ReservedMore ==
  ASSUME NEW S \in SUBSET Tasks, NEW t \in Tasks \ S
  PROVE  Reserved(Need, S \cup {t}) = AllocateResources(Reserved(Need, S), Need(t))
<1>1. ASSUME NEW d \in Dims
      PROVE  SumOver(Claim(d), S \cup {t}) = SumOver(Claim(d), S) + Need(t)[d]
  <2> DEFINE f == Claim(d)
  <2>1. /\ IsFiniteSet(S) /\ t \notin S /\ \A y \in S \cup {t} : f[y] \in Nat
        /\ f[t] = Need(t)[d]
    BY ClaimsFinite
  <2> HIDE DEF f
  <2>2. SumOver(f, S \cup {t}) = SumOver(f, S) + f[t]
    BY <2>1, SumAdd
  <2> QED
    BY <2>1, <2>2 DEF f
<1> QED
  BY <1>1, ReservedIsSum DEF AllocateResources

\* One task less: the clamp at zero in deallocateResources never acts.
LEMMA ReservedLess ==
  ASSUME NEW S \in SUBSET Tasks, NEW t \in S
  PROVE  Reserved(Need, S \ {t}) = DeallocateResources(Reserved(Need, S), Need(t))
<1>1. ASSUME NEW d \in Dims
      PROVE  /\ Need(t)[d] <= SumOver(Claim(d), S)
             /\ SumOver(Claim(d), S \ {t}) = SumOver(Claim(d), S) - Need(t)[d]
  <2> DEFINE f == Claim(d)
  <2>1. IsFiniteSet(S) /\ (\A y \in S : f[y] \in Nat) /\ f[t] = Need(t)[d]
    BY ClaimsFinite
  <2> HIDE DEF f
  <2>2. f[t] <= SumOver(f, S) /\ SumOver(f, S \ {t}) = SumOver(f, S) - f[t]
    BY <2>1, SumContains
  <2> QED
    BY <2>1, <2>2 DEF f
<1>2. \A d \in Dims : SumOver(Claim(d), S) \in Nat /\ Need(t)[d] \in Nat
  BY ClaimsFinite, SumNat
<1> QED
  BY <1>1, <1>2, ReservedIsSum DEF DeallocateResources

\* Nothing held.
LEMMA ReservedNone == Reserved(Need, {}) = NoUsage
BY ReservedIsSum, SumEmpty DEF NoUsage

\* The usage of one resource is what the tasks held require of it.
ExactIn(d) == \A e \in Nodes : usage[e][d] = Reserved(Need, HeldNow(e))[d]

ExactNow == \A d \in Dims : ExactIn(d)

\* Every move keeps the usage of every node what the tasks there require.
LEMMA ExactStep ==
  ASSUME TaskInv, LedgerMove, NEW d \in Dims, ExactIn(d)
  PROVE  ExactIn(d)'
<1> SUFFICES ASSUME NEW e \in Nodes
             PROVE  usage'[e][d] = Reserved(Need, HeldNow(e)')[d]
  BY DEF ExactIn
<1>0. /\ usage \in [Nodes -> Resources] /\ assigned \in [Tasks -> Nodes \cup {NoNode}]
      /\ usage[e][d] = Reserved(Need, HeldNow(e))[d] /\ HeldNow(e) \in SUBSET Tasks
  BY DEF TaskInv, PlacementInv, TypeOK, EdgeTypeOK, TaskTypeOK, ExactIn, HeldNow
<1>1. ASSUME assigned' = assigned, usage' = usage,
             \A t \in Tasks : LedgerPhase(t) \in Holding <=> LedgerPhase(t)' \in Holding
      PROVE  usage'[e][d] = Reserved(Need, HeldNow(e)')[d]
  <2>1. HeldNow(e)' = HeldNow(e)
    BY <1>1 DEF HeldNow
  <2> QED
    BY <1>0, <1>1, <2>1
<1>2. CASE UNCHANGED usage /\ Rests
  BY <1>1, <1>2 DEF Rests
<1>3. ASSUME NEW t \in Tasks, UNCHANGED usage, LivesOn(t)
      PROVE  usage'[e][d] = Reserved(Need, HeldNow(e)')[d]
  BY <1>1, <1>3 DEF LivesOn, Moves, Holding
<1>4. ASSUME NEW t \in Tasks, NEW f \in Nodes, IsAdmitted(t, f)
      PROVE  usage'[e][d] = Reserved(Need, HeldNow(e)')[d]
  <2>1. /\ LedgerPhase(t) \notin Holding /\ LedgerPhase(t)' \in Holding
        /\ assigned' = [assigned EXCEPT ![t] = f]
        /\ usage' = [usage EXCEPT ![f] = AllocateResources(@, Need(t))]
        /\ \A u \in Tasks : u # t => LedgerPhase(u)' = LedgerPhase(u)
    BY <1>4 DEF IsAdmitted, Moves, Holding
  <2>2. CASE e = f
    <3>1. HeldNow(e)' = HeldNow(e) \cup {t} /\ t \notin HeldNow(e)
      BY <1>0, <2>1, <2>2 DEF HeldNow
    <3>2. usage'[e][d] = AllocateResources(usage[e], Need(t))[d]
      BY <1>0, <2>1, <2>2
    <3>3. Reserved(Need, HeldNow(e)')[d]
            = AllocateResources(Reserved(Need, HeldNow(e)), Need(t))[d]
      BY <1>0, <3>1, ReservedMore
    <3> QED
      BY <1>0, <3>2, <3>3 DEF AllocateResources
  <2>3. CASE e # f
    <3>1. HeldNow(e)' = HeldNow(e)
      BY <1>0, <2>1, <2>3 DEF HeldNow
    <3> QED
      BY <1>0, <2>1, <2>3, <3>1
  <2> QED
    BY <2>2, <2>3
<1>5. ASSUME NEW t \in Tasks, IsReleased(t)
      PROVE  usage'[e][d] = Reserved(Need, HeldNow(e)')[d]
  <2>1. /\ LedgerPhase(t) \in Holding /\ LedgerPhase(t)' \notin Holding
        /\ assigned' = assigned
        /\ usage' = [usage EXCEPT ![assigned[t]] = DeallocateResources(@, Need(t))]
        /\ \A u \in Tasks : u # t => LedgerPhase(u)' = LedgerPhase(u)
    BY <1>5 DEF IsReleased, Moves, Holding
  <2>2. CASE e = assigned[t]
    <3>1. HeldNow(e)' = HeldNow(e) \ {t} /\ t \in HeldNow(e)
      BY <2>1, <2>2 DEF HeldNow
    <3>2. usage'[e][d] = DeallocateResources(usage[e], Need(t))[d]
      BY <1>0, <2>1, <2>2
    <3>3. Reserved(Need, HeldNow(e)')[d]
            = DeallocateResources(Reserved(Need, HeldNow(e)), Need(t))[d]
      BY <1>0, <3>1, ReservedLess
    <3> QED
      BY <1>0, <3>2, <3>3 DEF DeallocateResources
  <2>3. CASE e # assigned[t]
    <3>1. HeldNow(e)' = HeldNow(e)
      BY <2>1, <2>3 DEF HeldNow
    <3> QED
      BY <1>0, <2>1, <2>3, <3>1
  <2> QED
    BY <2>2, <2>3
<1> QED
  BY <1>2, <1>3, <1>4, <1>5 DEF LedgerMove

\* Nothing is reserved at the start.
LEMMA ExactInit == Init => ExactNow
<1> SUFFICES ASSUME Init, NEW e \in Nodes PROVE usage[e] = Reserved(Need, HeldNow(e))
  BY DEF ExactNow, ExactIn
<1>1. usage[e] = NoUsage /\ \A t \in Tasks : assigned[t] = NoNode
  BY DEF Init
<1>2. HeldNow(e) = {}
  BY <1>1, NodeAssumption DEF HeldNow, NoNode, Nodes
<1> QED
  BY <1>1, <1>2, ReservedNone

\* The usage stays exact in every behaviour.
LEMMA ExactInvariance == Spec => []ExactNow
<1>1. TaskInv /\ ExactNow /\ [Next]_vars => ExactNow'
  BY ExactStep, LifeStep DEF ExactNow
<1> QED
  BY <1>1, ExactInit, TaskInvariance, PTL DEF Spec

\* A node's current_usage_ is exactly what the tasks it holds require, for
\* every fleet, workload and reconfiguration: no reservation is lost, and
\* none is given back twice, which the clamp at zero would hide.
THEOREM AccountingIsExact == Spec => []AccountingExact
<1>1. TaskInv /\ ExactNow => AccountingExact
  <2> SUFFICES ASSUME TaskInv, ExactNow, NEW e \in Nodes
               PROVE  usage[e] = Reserved(Need, HeldNow(e))
    BY HeldByPhase DEF AccountingExact
  <2>1. usage[e] \in Resources /\ \A d \in Dims : usage[e][d] = Reserved(Need, HeldNow(e))[d]
    BY DEF ExactNow, ExactIn, TaskInv, PlacementInv, TypeOK, EdgeTypeOK
  <2>2. /\ usage[e] = [d \in Dims |-> usage[e][d]]
        /\ Reserved(Need, HeldNow(e)) = [d \in Dims |-> Reserved(Need, HeldNow(e))[d]]
    BY <2>1 DEF Resources, Reserved
  <2> QED
    BY <2>1, <2>2
<1> QED
  BY <1>1, TaskInvariance, ExactInvariance, PTL

-----------------------------------------------------------------------------
(* The ledger. *)

\* The ledger adds up claims as the nodes do.
LEMMA LedgerSum ==
  ASSUME NEW S \in SUBSET Tasks, NEW d
  PROVE  Ledger!MapThenSumSet(LAMBDA u : Need(u)[d], S) = SumOver(Claim(d), S)
<1>1. Ledger!MapThenSumSet(LAMBDA u : Need(u)[d], S)
        = MapThenSumSet(LAMBDA u : Need(u)[d], S)
  BY Zenon DEF MapThenSumSet, MapThenFoldSet, Ledger!MapThenSumSet, Ledger!MapThenFoldSet
<1>2. MapThenSumSet(LAMBDA u : Need(u)[d], S) = SumOver(Claim(d), S)
  BY ClaimsAdd
<1> QED
  BY <1>1, <1>2, Zenon

\* A node that can take a task has room for it in the ledger.
LEMMA RoomInLedger ==
  ASSUME TaskInv, ExactNow, NEW t \in Tasks, NEW e \in Nodes,
         CanAllocate(TRUE, Capacity[e], usage[e], Need(t))
  PROVE  Ledger!Fits(t, e)
<1>1. Ledger!HeldAt(e) = HeldNow(e)
  BY DEF Ledger!HeldAt, HeldNow, Holding
<1>2. HeldNow(e) \in SUBSET Tasks
  BY DEF HeldNow
<1>3. ASSUME NEW d \in Dims
      PROVE  Ledger!MapThenSumSet(LAMBDA u : Need(u)[d], Ledger!HeldAt(e)) + Need(t)[d]
               <= Capacity[e][d]
  <2>1. Ledger!MapThenSumSet(LAMBDA u : Need(u)[d], Ledger!HeldAt(e))
          = SumOver(Claim(d), HeldNow(e))
    BY <1>1, <1>2, LedgerSum
  <2>2. usage[e][d] = SumOver(Claim(d), HeldNow(e))
    BY <1>2, ReservedIsSum DEF ExactNow, ExactIn
  <2>3. Capacity[e][d] - usage[e][d] >= Need(t)[d]
    BY DEF CanAllocate
  <2>4. Capacity[e][d] \in Nat /\ usage[e][d] \in Nat /\ Need(t)[d] \in Nat
    BY NodeAssumption, ClaimsFinite DEF TaskInv, PlacementInv, TypeOK, EdgeTypeOK, Resources
  <2>5. usage[e][d] + Need(t)[d] <= Capacity[e][d]
    BY <2>3, <2>4
  <2> QED
    BY <2>1, <2>2, <2>5
<1> QED
  BY <1>3, Zenon DEF Ledger!Fits

\* Before anything arrives, the ledger is empty.
LEMMA LedgerInit == Init => Ledger!Init
<1> SUFFICES ASSUME Init PROVE Ledger!Init
  OBVIOUS
<1>1. \A t \in Tasks : LedgerPhase(t) = "absent"
  BY PhaseCases DEF Init
<1>2. assigned = [t \in Tasks |-> 0]
  BY DEF Init, NoNode
<1> QED
  BY <1>1, <1>2 DEF Ledger!Init

\* A move of a task is the same move in the ledger.
LEMMA LedgerMoves ==
  ASSUME NEW t \in Tasks, NEW from, NEW to, Moves(t, from, to)
  PROVE  Ledger!Move(t, from, to)
<1>1. [u \in Tasks |-> LedgerPhase(u)'] = [[u \in Tasks |-> LedgerPhase(u)] EXCEPT ![t] = to]
  BY DEF Moves
<1> QED
  BY <1>1 DEF Ledger!Move, Moves

\* Every move of the runtime is a step of the ledger, or none.
LEMMA LedgerNext ==
  TaskInv /\ ExactNow /\ LedgerMove
    => [Ledger!Next]_<<[t \in Tasks |-> LedgerPhase(t)], assigned>>
<1> SUFFICES ASSUME TaskInv, ExactNow, LedgerMove
             PROVE  Ledger!Next \/ UNCHANGED <<[t \in Tasks |-> LedgerPhase(t)], assigned>>
  OBVIOUS
<1>1. CASE Rests
  BY <1>1 DEF Rests
<1>2. ASSUME NEW t \in Tasks, LivesOn(t)
      PROVE  Ledger!Next
  BY <1>2, LedgerMoves DEF LivesOn, Ledger!Next, Ledger!Arrive, Ledger!Reject, Ledger!Start,
     Ledger!End
<1>3. ASSUME NEW t \in Tasks, NEW e \in Nodes, IsAdmitted(t, e)
      PROVE  Ledger!Next
  <2>1. Ledger!Fits(t, e)
    BY <1>3, RoomInLedger DEF IsAdmitted
  <2>2. Ledger!Admit(t, e)
    BY <1>3, <2>1, LedgerMoves DEF IsAdmitted, Ledger!Admit
  <2> QED
    BY <2>2 DEF Ledger!Next
<1>4. ASSUME NEW t \in Tasks, IsReleased(t)
      PROVE  Ledger!Next
  BY <1>4, LedgerMoves DEF IsReleased, Ledger!Next, Ledger!Release
<1> QED
  BY <1>1, <1>2, <1>3, <1>4 DEF LedgerMove

\* The runtime implements the ledger: whatever the threads do, a task arrives
\* once, is admitted only where the tasks held leave room or is rejected,
\* runs once, ends once and releases once.
THEOREM RuntimeImplementsLedger == Spec => ImplementsLedger
<1>1. TaskInv /\ ExactNow /\ [Next]_vars
        => [Ledger!Next]_<<[t \in Tasks |-> LedgerPhase(t)], assigned>>
  BY LifeStep, LedgerNext
<1> QED
  BY <1>1, LedgerInit, TaskInvariance, ExactInvariance, PTL
     DEF Spec, ImplementsLedger, Ledger!Spec

-----------------------------------------------------------------------------
(* The counters. *)

\* Where the allocator has counted a request and not its outcome.
Asking == {"scan", "read", "reserve", "credit"}

\* CountersAgree, with its sums as sums of functions.
CountersNow ==
  /\ allocs.total = allocs.successful + allocs.failed
                      + (IF pc[Producer] \in Asking THEN 1 ELSE 0)
  /\ SumOver(processed, Nodes) =
       allocs.successful + (IF pc[Producer] = "credit" THEN 1 ELSE 0)
  /\ allocs.successful = scheduled + (IF pc[Producer] = "schedule" THEN 1 ELSE 0)
  /\ SumOver(processed, Nodes) = executed + failed + Cardinality(InFlight)
  /\ executed + failed = SumOver(dbExec, Tasks) + Cardinality(Unwritten)

\* They say the same.
LEMMA CountersRestated == CountersNow <=> CountersAgree
<1>1. Sum(processed) = SumOver(processed, Nodes)
  BY Zenon DEF Sum, SumOver
<1>2. MapThenSumSet(LAMBDA t : dbExec[t], Tasks) = SumOver(dbExec, Tasks)
  BY Zenon DEF SumOver
<1>3. /\ InProgress({"scan", "read", "reserve", "credit"}) =
           IF pc[Producer] \in Asking THEN 1 ELSE 0
      /\ InProgress({"credit"}) = IF pc[Producer] = "credit" THEN 1 ELSE 0
      /\ InProgress({"schedule"}) = IF pc[Producer] = "schedule" THEN 1 ELSE 0
  BY DEF InProgress, Asking
<1> QED
  BY <1>1, <1>2, <1>3, Zenon DEF CountersNow, CountersAgree

\* The nodes and the tasks are finitely many, so are those the counters are
\* behind with.
LEMMA FiniteInstances ==
  /\ IsFiniteSet(Nodes) /\ IsFiniteSet(Tasks)
  /\ IsFiniteSet(InFlight) /\ IsFiniteSet(Unwritten)
  /\ Cardinality(InFlight) \in Nat /\ Cardinality(Unwritten) \in Nat
<1>1. IsFiniteSet(Nodes) /\ IsFiniteSet(Tasks)
  BY NodeAssumption, Limits, FS_Interval DEF Tasks, Nodes
<1>2. InFlight \subseteq Tasks /\ Unwritten \subseteq Nodes
  BY DEF InFlight, Unwritten
<1> QED
  BY <1>1, <1>2, FS_Subset, FS_CardinalityType

\* What is counted here is no longer missing there.
LEMMA OneMoved ==
  ASSUME NEW total, NEW counted \in Int, NEW missing \in Int,
         NEW countedNext, NEW missingNext, total = counted + missing,
         countedNext = counted + 1, missingNext = missing - 1
  PROVE  total = countedNext + missingNext
OBVIOUS

\* Where a worker has a task that ended and is not counted.
Uncounted == {"release", "count"}
UncountedNow(t) == \E e \in Nodes : hand[e] = t /\ wpc[e] \in Uncounted

\* A task is in flight from its placement until its worker has counted it.
LEMMA InFlightIs == InFlight = {t \in Tasks : status[t] \in Live \/ UncountedNow(t)}
BY DEF InFlight, UncountedNow, Uncounted, Live

\* The same after a step.
LEMMA InFlightIsNext ==
  InFlight' = {t \in Tasks : status'[t] \in Live \/ UncountedNow(t)'}
BY DEF InFlight, UncountedNow, Uncounted, Live

\* Steps that count nothing and leave the tasks in flight as they are.
LEMMA QuietCounters ==
  ASSUME CountersNow, UNCHANGED <<allocs, processed, scheduled, executed, failed, dbExec>>,
         InFlight' = InFlight, Unwritten' = Unwritten,
         pc'[Producer] \in Asking <=> pc[Producer] \in Asking,
         pc'[Producer] = "credit" <=> pc[Producer] = "credit",
         pc'[Producer] = "schedule" <=> pc[Producer] = "schedule"
  PROVE  CountersNow'
<1>1. /\ Cardinality(InFlight)' = Cardinality(InFlight)
      /\ Cardinality(Unwritten)' = Cardinality(Unwritten)
  OBVIOUS
<1> QED
  BY <1>1 DEF CountersNow

\* A step that touches neither the workers nor who is waiting or running
\* leaves the tasks in flight as they are.
LEMMA SameFlight ==
  ASSUME UNCHANGED <<hand, wpc>>,
         \A t \in Tasks : status'[t] \in Live <=> status[t] \in Live
  PROVE  InFlight' = InFlight /\ Unwritten' = Unwritten
<1>1. \A t \in Tasks : UncountedNow(t)' <=> UncountedNow(t)
  BY DEF UncountedNow
<1>2. Unwritten' = Unwritten
  BY DEF Unwritten
<1> QED
  BY <1>1, <1>2, InFlightIs, InFlightIsNext

\* ReserveEdge: one node counts a task that is now in flight; the allocator
\* is one behind.
LEMMA ReserveCounts ==
  ASSUME TaskInv, CountersNow, ReserveEdge, UNCHANGED <<wpc, hand, generated>>,
         UNCHANGED <<executed, failed, dbExec>>
  PROVE  CountersNow'
<1>0. /\ pc \in [Threads -> ThreadPcs] /\ Producer \in Threads /\ viable \subseteq Nodes
      /\ processed \in [Nodes -> Nat] /\ status \in [Tasks -> Statuses]
      /\ allocs \in [total : Nat, successful : Nat, failed : Nat]
      /\ scheduled \in Nat /\ executed \in Nat /\ failed \in Nat
  BY DEF TaskInv, PlacementInv, TypeOK, ThreadTypeOK, ScanTypeOK, EdgeTypeOK, TaskTypeOK,
     AllocatorTypeOK, SchedulerTypeOK, ExecutorTypeOK, Threads
<1>1. /\ pc[Producer] = "reserve" /\ pc'[Producer] = "credit"
      /\ UNCHANGED <<allocs, scheduled>>
      /\ status' = [status EXCEPT ![generated] = "QUEUED"]
  BY <1>0 DEF ReserveEdge, Goto
<1>2. PICK e \in Nodes : processed' = [processed EXCEPT ![e] = @ + 1]
  BY <1>0 DEF ReserveEdge
<1>3. SumOver(processed', Nodes) = SumOver(processed, Nodes) + 1
  BY <1>0, <1>2, SumBump, FiniteInstances
<1>4. PICK g \in Tasks : g = generated
  BY <1>1 DEF TaskInv, PlacementInv, Bounded, Critical
<1>5. g \notin InFlight /\ InFlight' = InFlight \cup {g}
  <2>1. status[g] = "CREATED" /\ status'[g] = "QUEUED"
        /\ \A t \in Tasks : t # g => status'[t] = status[t]
    BY <1>0, <1>1, <1>4 DEF TaskInv, LifeInv, InHand, Choosing
  <2>2. ~UncountedNow(g)
    BY <2>1 DEF UncountedNow, Uncounted, TaskInv, PlacesInv, EndedHere, Ending, Ended
  <2>3. \A t \in Tasks : UncountedNow(t)' <=> UncountedNow(t)
    BY DEF UncountedNow
  <2> QED
    BY <2>1, <2>2, <2>3, InFlightIs, InFlightIsNext DEF Live
<1>6. Cardinality(InFlight)' = Cardinality(InFlight) + 1
  BY <1>5, FiniteInstances, FS_AddElement
<1>7. Cardinality(Unwritten)' = Cardinality(Unwritten)
  BY DEF Unwritten
<1> QED
  BY <1>0, <1>1, <1>3, <1>6, <1>7, FiniteInstances DEF CountersNow, Asking

\* Executing: a task stays in flight until CountExecution counts it, and its
\* row is due until RecordExecution writes it.
LEMMA ExecuteCounts ==
  ASSUME TaskInv, CountersNow, NEW e \in Nodes, ExecuteStep(e)
  PROVE  CountersNow'
<1>0. /\ wpc \in [Nodes -> WorkerPcs] /\ hand \in [Nodes -> Tasks \cup {NoTask}]
      /\ status \in [Tasks -> Statuses] /\ dbExec \in [Tasks -> Nat]
      /\ executed \in Nat /\ failed \in Nat /\ allocs.successful \in Nat
  BY DEF TaskInv, PlacementInv, TypeOK, WorkerTypeOK, TaskTypeOK, DatabaseTypeOK,
     ExecutorTypeOK, AllocatorTypeOK
<1>1. /\ UNCHANGED <<allocs, processed, scheduled, pc>>
      /\ wpc[e] \in Handling \cup Ending
  BY DEF ExecuteStep, StartTask, ActivateTask, FinishTask, ReleaseResources,
     CountExecution, RecordExecution, Handling, Ending, allocVars, schedVars, threadVars
<1>h. PICK h \in Tasks : h = hand[e]
  BY <1>1, WorkerHolds
<1>2. \A f \in Nodes : f # e => hand'[f] = hand[f] /\ wpc'[f] = wpc[f]
  BY <1>0 DEF ExecuteStep, StartTask, ActivateTask, FinishTask, ReleaseResources,
     CountExecution, RecordExecution, GotoWorker
<1>3. \A t \in Tasks : t # h => status'[t] = status[t]
  BY <1>h, <1>0 DEF ExecuteStep, StartTask, ActivateTask, FinishTask, ReleaseResources,
     CountExecution, RecordExecution
<1>4. \A t \in Tasks : t # h => (UncountedNow(t)' <=> UncountedNow(t))
  <2>1. hand'[e] = h \/ hand'[e] = NoTask
    BY <1>h, <1>0 DEF ExecuteStep, StartTask, ActivateTask, FinishTask, ReleaseResources,
       CountExecution, RecordExecution
  <2>2. NoTask \notin Tasks
    BY DEF NoTask, Tasks
  <2> QED
    BY <1>h, <1>2, <2>1, <2>2 DEF UncountedNow
\* No other worker has this task.
<1>5. ASSUME NEW f \in Nodes, f # e, wpc[f] \in Handling \cup Ending
      PROVE  hand[f] # h
  BY <1>h, <1>1, <1>5, WorkerHolds
<1>6. CASE ~CountExecution(e) /\ ~RecordExecution(e)
  <2>1. /\ UNCHANGED <<executed, failed, dbExec, hand>>
        /\ status'[h] \in Live \/ wpc'[e] \in Uncounted
        /\ wpc[e] # "record" /\ wpc'[e] # "record"
        /\ wpc[e] \in Handling \cup Uncounted
    <3>1. CASE StartTask(e)
      BY <1>h, <1>0, <3>1 DEF StartTask, GotoWorker, Live, Handling
    <3>2. CASE ActivateTask(e)
      BY <1>h, <1>0, <3>2, WorkerHolds DEF ActivateTask, GotoWorker, Handling
    <3>3. CASE FinishTask(e) \/ ReleaseResources(e)
      BY <1>h, <1>0, <3>3 DEF FinishTask, ReleaseResources, GotoWorker, Handling, Uncounted
    <3> QED
      BY <1>6, <3>1, <3>2, <3>3 DEF ExecuteStep
  <2>2. status[h] \in Live \/ UncountedNow(h)
    BY <1>h, <2>1, WorkerHolds DEF UncountedNow
  <2>3. status'[h] \in Live \/ UncountedNow(h)'
    BY <1>h, <2>1 DEF UncountedNow
  <2>4. InFlight' = InFlight
    BY <1>3, <1>4, <2>2, <2>3, InFlightIs, InFlightIsNext
  <2>5. Unwritten' = Unwritten
    BY <1>2, <2>1 DEF Unwritten
  <2> QED
    BY <1>1, <2>1, <2>4, <2>5, QuietCounters
<1>7. CASE CountExecution(e)
  <2>1. /\ wpc[e] = "count" /\ wpc'[e] = "record"
        /\ UNCHANGED <<hand, dbExec, status>>
        /\ executed' + failed' = executed + failed + 1
    BY <1>h, <1>0, <1>7 DEF CountExecution, GotoWorker
  <2>2. status[h] \in Ended
    BY <1>h, <2>1, WorkerHolds DEF Ending
  <2>3. UncountedNow(h) /\ ~UncountedNow(h)'
    <3>1. UncountedNow(h)
      BY <1>h, <2>1 DEF UncountedNow, Uncounted
    <3> SUFFICES ASSUME NEW f \in Nodes, hand'[f] = h, wpc'[f] \in Uncounted
                 PROVE  FALSE
      BY <3>1 DEF UncountedNow
    <3>2. f # e
      BY <2>1 DEF Uncounted
    <3>3. hand[f] = h /\ wpc[f] \in Ending
      BY <1>2, <3>2 DEF Uncounted, Ending
    <3> QED
      BY <1>5, <3>2, <3>3
  <2>4. h \in InFlight /\ InFlight' = InFlight \ {h}
    BY <1>3, <1>4, <2>1, <2>2, <2>3, InFlightIs, InFlightIsNext DEF Live, Ended
  <2>5. Cardinality(InFlight)' = Cardinality(InFlight) - 1
    BY <2>4, FiniteInstances, FS_RemoveElement
  <2>6. e \notin Unwritten /\ Unwritten' = Unwritten \cup {e}
    BY <1>2, <2>1 DEF Unwritten
  <2>7. Cardinality(Unwritten)' = Cardinality(Unwritten) + 1
    BY <2>6, FiniteInstances, FS_AddElement
  <2> QED
    <3>1. Cardinality(InFlight) \in Int /\ Cardinality(Unwritten) \in Int
      BY FiniteInstances, FS_CardinalityType
    <3>2. SumOver(dbExec, Tasks) \in Int
      <4>1. \A x \in Tasks : dbExec[x] \in Nat
        BY <1>0
      <4> QED
        BY <4>1, SumNat, FiniteInstances
    <3>3. executed \in Int /\ failed \in Int /\ executed' \in Int /\ failed' \in Int
      BY <1>h, <1>0, <1>7 DEF CountExecution
    <3>4. SumOver(dbExec', Tasks) = SumOver(dbExec, Tasks)
      BY <2>1
    <3>5. UNCHANGED <<allocs, processed, scheduled, pc>>
      BY <1>1
    <3>6. executed' + failed' = SumOver(dbExec', Tasks) + Cardinality(Unwritten)'
      <4>1. executed + failed = SumOver(dbExec, Tasks) + Cardinality(Unwritten)
        BY DEF CountersNow
      <4>2. executed' + failed' = SumOver(dbExec, Tasks) + Cardinality(Unwritten) + 1
        BY <2>1, <4>1
      <4>3. Cardinality(Unwritten)' = Cardinality(Unwritten) + 1
        BY <2>7
      <4> QED
        BY <3>1, <3>2, <3>4, <4>2, <4>3
    <3>7. SumOver(processed, Nodes) = executed' + failed' + Cardinality(InFlight)'
      <4>1. SumOver(processed, Nodes) = executed + failed + Cardinality(InFlight)
        BY Zenon DEF CountersNow
      <4>2. executed' + failed' = executed + failed + 1
        BY <2>1
      <4>3. executed + failed \in Int
        BY <3>3
      <4> QED
        BY <2>5, <3>1, <4>1, <4>2, <4>3, OneMoved
    <3> QED
      BY <3>5, <3>6, <3>7 DEF CountersNow
<1>8. CASE RecordExecution(e)
  <2>1. /\ wpc[e] = "record" /\ wpc'[e] = "idle" /\ hand'[e] = NoTask
        /\ dbExec' = [dbExec EXCEPT ![h] = @ + 1]
        /\ UNCHANGED <<status, executed, failed>>
    BY <1>h, <1>0, <1>8 DEF RecordExecution, GotoWorker
  <2>2. ~UncountedNow(h)
    BY <1>5, <2>1 DEF UncountedNow, Uncounted, Ending
  <2>3. ~UncountedNow(h)'
    <3> SUFFICES ASSUME NEW f \in Nodes, hand'[f] = h, wpc'[f] \in Uncounted
                 PROVE  FALSE
      BY DEF UncountedNow
    <3>1. f # e
      BY <2>1 DEF Uncounted
    <3>2. hand[f] = h /\ wpc[f] \in Ending
      BY <1>2, <3>1 DEF Uncounted, Ending
    <3> QED
      BY <1>5, <3>1, <3>2
  <2>4. InFlight' = InFlight
    BY <1>3, <1>4, <2>1, <2>2, <2>3, InFlightIs, InFlightIsNext
  <2>5. Cardinality(InFlight)' = Cardinality(InFlight)
    BY <2>4
  <2>6. e \in Unwritten /\ Unwritten' = Unwritten \ {e}
    BY <1>2, <2>1 DEF Unwritten
  <2>7. Cardinality(Unwritten)' = Cardinality(Unwritten) - 1
    BY <2>6, FiniteInstances, FS_RemoveElement
  <2>8. SumOver(dbExec', Tasks) = SumOver(dbExec, Tasks) + 1
    BY <1>0, <2>1, SumBump, FiniteInstances
  <2>9. SumOver(dbExec, Tasks) \in Int
    <3>1. \A x \in Tasks : dbExec[x] \in Nat
      BY <1>0
    <3> QED
      BY <3>1, SumNat, FiniteInstances
  <2> QED
    BY <1>0, <1>1, <2>1, <2>5, <2>7, <2>8, <2>9, FiniteInstances DEF CountersNow
<1> QED
  BY <1>6, <1>7, <1>8

\* Every step keeps the counters in agreement.
LEMMA CountersStep == TaskInv /\ CountersNow /\ [Next]_vars => CountersNow'
<1> SUFFICES ASSUME TaskInv, CountersNow, [Next]_vars PROVE CountersNow'
  OBVIOUS
<1>0. /\ pc \in [Threads -> ThreadPcs] /\ Producer \in Threads
      /\ \A c \in Clients : c \in Threads /\ c # Producer
      /\ status \in [Tasks -> Statuses]
      /\ allocs \in [total : Nat, successful : Nat, failed : Nat]
      /\ scheduled \in Nat /\ generated \in Nat
      /\ wpc \in [Nodes -> WorkerPcs] /\ hand \in [Nodes -> Tasks \cup {NoTask}]
  BY RuntimeAssumption DEF TaskInv, PlacementInv, TypeOK, ThreadTypeOK, TaskTypeOK,
     AllocatorTypeOK, SchedulerTypeOK, ScanTypeOK, WorkerTypeOK, Threads
<1>1. ASSUME UNCHANGED <<allocs, processed, scheduled, executed, failed, dbExec>>,
             UNCHANGED <<hand, wpc, status>>,
             pc'[Producer] \in Asking <=> pc[Producer] \in Asking,
             pc'[Producer] = "credit" <=> pc[Producer] = "credit",
             pc'[Producer] = "schedule" <=> pc[Producer] = "schedule"
      PROVE  CountersNow'
  BY <1>1, SameFlight, QuietCounters
<1>2. ASSUME NEW p \in Threads, ConfigureStep(p)
      PROVE  CountersNow'
  <2>1. UNCHANGED <<allocs, processed, scheduled, executed, failed, dbExec, hand, wpc, status>>
    BY <1>2 DEF ConfigureStep, edgeVars, workVars, taskVars, dbVars, execVars
  <2>2. \/ pc'[Producer] = pc[Producer]
        \/ /\ pc[Producer] \in {"recommend", "setAllocation", "setScheduling"}
           /\ pc'[Producer] \in {"setAllocation", "setScheduling", "generate"}
    BY <1>0, <1>2 DEF ConfigureStep, ReadLoad, Recommend, SetAllocation, SetScheduling, Goto
  <2> QED
    BY <1>1, <2>1, <2>2 DEF Asking
<1>3. ASSUME NEW c \in Clients, ClientCall(c) \/ ApplyStep(c)
      PROVE  CountersNow'
  <2>1. UNCHANGED <<allocs, processed, scheduled, executed, failed, dbExec, hand, wpc, status>>
    BY <1>3 DEF ClientCall, ApplyStep, edgeVars, allocVars, schedVars, workVars, taskVars,
       dbVars, execVars
  <2>2. pc'[Producer] = pc[Producer]
    BY <1>0, <1>3 DEF ClientCall, ApplyStep, RequestAutomatic, RequestManual,
       ApplyAutomatic, ApplyManual, ApplyManualScheduling, Goto
  <2> QED
    BY <1>1, <2>1, <2>2
<1>4. CASE LoopStep
  <2>0. UNCHANGED <<processed, scheduled, executed, failed, dbExec, hand, wpc>>
    BY <1>4 DEF LoopStep, edgeVars, schedVars, workVars, execVars
  <2>1. CASE BeginIteration \/ LeaveLoop
    <3>1. UNCHANGED <<allocs, status>> /\ pc[Producer] = "head"
      BY <2>1 DEF BeginIteration, LeaveLoop
    <3>2. pc'[Producer] \in {"recommend", "generate", "poll"}
      BY <1>0, <2>1 DEF BeginIteration, LeaveLoop, Goto
    <3> QED
      BY <1>1, <2>0, <3>1, <3>2 DEF Asking
  <2>2. CASE Generate
    <3>1. /\ UNCHANGED allocs /\ pc[Producer] = "generate" /\ pc'[Producer] = "acquire"
          /\ status' = [status EXCEPT ![generated + 1] = "CREATED"]
      BY <1>0, <2>2 DEF Generate, Goto
    <3>2. \A t \in Tasks : status'[t] \in Live <=> status[t] \in Live
      <4>1. generated + 1 \in Tasks => status[generated + 1] = "ABSENT"
        BY <1>0 DEF TaskInv, LifeInv, Unborn
      <4> QED
        BY <1>0, <3>1, <4>1 DEF Live
    <3> QED
      BY <2>0, <3>1, <3>2, SameFlight, QuietCounters DEF Asking
  <2>3. CASE AcquireConfiguration
    <3>1. /\ allocs' = [allocs EXCEPT !.total = @ + 1] /\ UNCHANGED status
          /\ pc[Producer] = "acquire" /\ pc'[Producer] = "scan"
      BY <1>0, <2>3 DEF AcquireConfiguration, Goto
    <3>2. /\ Cardinality(InFlight)' = Cardinality(InFlight)
          /\ Cardinality(Unwritten)' = Cardinality(Unwritten)
      BY <2>0, <3>1, SameFlight
    <3>3. /\ allocs'.total = allocs.total + 1 /\ allocs'.failed = allocs.failed
          /\ allocs'.successful = allocs.successful
      BY <1>0, <3>1
    <3> QED
      BY <1>0, <2>0, <3>1, <3>2, <3>3 DEF CountersNow, Asking
  <2> QED
    BY <1>4, <2>1, <2>2, <2>3 DEF LoopStep
<1>5. CASE ScanStep
  <2>0. UNCHANGED <<processed, scheduled, executed, failed, dbExec, hand, wpc, status>>
    BY <1>5 DEF ScanStep, edgeVars, schedVars, taskVars, dbVars, workVars, execVars
  <2>1. CASE GiveUpAllocation
    <3>1. /\ allocs' = [allocs EXCEPT !.failed = @ + 1]
          /\ pc[Producer] = "scan" /\ pc'[Producer] = "saveFailure"
      BY <1>0, <2>1 DEF GiveUpAllocation, Goto
    <3>2. /\ Cardinality(InFlight)' = Cardinality(InFlight)
          /\ Cardinality(Unwritten)' = Cardinality(Unwritten)
      BY <2>0, SameFlight
    <3>3. /\ allocs'.total = allocs.total /\ allocs'.failed = allocs.failed + 1
          /\ allocs'.successful = allocs.successful
      BY <1>0, <3>1
    <3> QED
      BY <1>0, <2>0, <3>1, <3>2, <3>3 DEF CountersNow, Asking
  <2>2. CASE ScanEdge \/ RetryAllocation \/ RankViable \/ ReadEdge
    <3>1. /\ UNCHANGED allocs
          /\ pc[Producer] \in Asking \ {"credit"} /\ pc'[Producer] \in Asking \ {"credit"}
      BY <1>0, <2>2 DEF ScanEdge, RetryAllocation, RankViable, ReadEdge, Goto, Asking
    <3> QED
      BY <1>1, <2>0, <3>1 DEF Asking
  <2> QED
    BY <1>5, <2>1, <2>2 DEF ScanStep
<1>6. CASE CommitStep
  <2>0. UNCHANGED <<generated, executed, failed, dbExec, hand, wpc>>
    BY <1>6 DEF CommitStep, workVars, execVars
  <2>1. CASE ReserveEdge
    BY <2>0, <2>1, ReserveCounts
  <2>2. CASE ScheduleTask
    <3>1. /\ UNCHANGED <<allocs, processed>> /\ scheduled' = scheduled + 1
          /\ pc[Producer] = "schedule" /\ pc'[Producer] = "saveAllocation"
      BY <1>0, <2>2 DEF ScheduleTask, Goto
    <3>2. /\ Cardinality(InFlight)' = Cardinality(InFlight)
          /\ Cardinality(Unwritten)' = Cardinality(Unwritten)
      BY <2>0, <2>2, ScheduleLife, SameFlight
    <3> QED
      BY <1>0, <2>0, <3>1, <3>2 DEF CountersNow, Asking
  <2>4. CASE CreditAllocation
    <3>1. /\ allocs' = [allocs EXCEPT !.successful = @ + 1]
          /\ UNCHANGED <<processed, scheduled, status>>
          /\ pc[Producer] = "credit" /\ pc'[Producer] = "schedule"
      BY <1>0, <2>4 DEF CreditAllocation, Goto, edgeVars, taskVars
    <3>2. /\ Cardinality(InFlight)' = Cardinality(InFlight)
          /\ Cardinality(Unwritten)' = Cardinality(Unwritten)
      BY <2>0, <3>1, SameFlight
    <3>3. /\ allocs'.total = allocs.total /\ allocs'.failed = allocs.failed
          /\ allocs'.successful = allocs.successful + 1
      BY <1>0, <3>1
    <3> QED
      BY <1>0, <2>0, <3>1, <3>2, <3>3 DEF CountersNow, Asking
  <2>3. CASE SaveAllocation \/ SaveAllocationFailure
    <3>1. /\ UNCHANGED <<allocs, processed, scheduled, status>>
          /\ pc[Producer] \in {"saveAllocation", "saveFailure"} /\ pc'[Producer] = "head"
      BY <1>0, <2>3 DEF SaveAllocation, SaveAllocationFailure, Goto, edgeVars, taskVars
    <3> QED
      BY <1>1, <2>0, <3>1 DEF Asking
  <2> QED
    BY <1>6, <2>1, <2>2, <2>3, <2>4 DEF CommitStep
<1>7. CASE DrainStep
  <2>1. UNCHANGED <<allocs, processed, scheduled, executed, failed, dbExec, hand, wpc, status>>
    BY <1>7 DEF DrainStep, edgeVars, allocVars, schedVars, workVars, taskVars, dbVars, execVars
  <2>2. /\ pc[Producer] \in {"poll", "finish"}
        /\ pc'[Producer] \in {"poll", "finish", "done"}
    BY <1>0, <1>7 DEF DrainStep, DrainPoll, DrainStillActive, DrainDone, DrainGiveUp,
       CompleteProcessing, Goto
  <2> QED
    BY <1>1, <2>1, <2>2 DEF Asking
<1>8. ASSUME NEW e \in Nodes, FetchStep(e)
      PROVE  CountersNow'
  <2>1. UNCHANGED <<allocs, processed, scheduled, executed, failed, dbExec, pc, status>>
    BY <1>8 DEF FetchStep, allocVars, taskVars, dbVars, execVars, threadVars
  <2>2. /\ \A f \in Nodes : f # e => hand'[f] = hand[f] /\ wpc'[f] = wpc[f]
        /\ wpc[e] \notin Ending /\ wpc'[e] \notin Ending
    BY <1>0, <1>8 DEF FetchStep, CheckRunning, FetchNothing, DequeueFifo, BeginDrain,
       DrainOne, SelectTask, RestoreOne, ReturnTask, GotoWorker, Ending
  <2>3. \A t \in Tasks : UncountedNow(t)' <=> UncountedNow(t)
    BY <2>2 DEF UncountedNow, Uncounted, Ending
  <2>4. InFlight' = InFlight /\ Unwritten' = Unwritten
    BY <2>1, <2>2, <2>3, InFlightIs, InFlightIsNext DEF Unwritten, Ending
  <2> QED
    BY <2>1, <2>4, QuietCounters
<1>9. ASSUME NEW e \in Nodes, ExecuteStep(e)
      PROVE  CountersNow'
  BY <1>9, ExecuteCounts
<1>10. CASE StopStep \/ UNCHANGED vars
  <2>1. UNCHANGED <<allocs, processed, scheduled, executed, failed, dbExec, hand, wpc, status, pc>>
    BY <1>10 DEF StopStep, vars, edgeVars, allocVars, schedVars, workVars, taskVars, dbVars,
       execVars, threadVars
  <2> QED
    BY <1>1, <2>1
<1> QED
  BY <1>2, <1>3, <1>4, <1>5, <1>6, <1>7, <1>8, <1>9, <1>10, NextCases

\* All counters start at zero.
LEMMA CountersInit == Init => CountersNow
<1> SUFFICES ASSUME Init PROVE CountersNow
  OBVIOUS
<1>1. /\ allocs = [total |-> 0, successful |-> 0, failed |-> 0]
      /\ scheduled = 0 /\ executed = 0 /\ failed = 0 /\ pc[Producer] = "head"
  BY DEF Init, Threads
<1>2. (\A e \in Nodes : processed[e] = 0) /\ (\A t \in Tasks : dbExec[t] = 0)
  BY DEF Init
<1>3. SumOver(processed, Nodes) = 0 /\ SumOver(dbExec, Tasks) = 0
  BY <1>2, SumZero, FiniteInstances
<1>4. InFlight = {} /\ Unwritten = {}
  BY InFlightIs DEF Init, UncountedNow, Uncounted, Live, Unwritten
<1>5. Cardinality(InFlight) = 0 /\ Cardinality(Unwritten) = 0
  BY <1>4, FS_EmptySet
<1> QED
  BY <1>1, <1>3, <1>5 DEF CountersNow, Asking

\* The counters of nodes, allocator, scheduler and executor and the rows of
\* task_execution, each written under its own mutex at its own moment, differ
\* by exactly the calls that are between two of these moments, in every
\* reachable state of every instance.
THEOREM CountersTellOneStory == Spec => []CountersAgree
<1>1. Spec => []CountersNow
  BY CountersInit, CountersStep, TaskInvariance, PTL DEF Spec
<1> QED
  BY <1>1, CountersRestated, PTL
=============================================================================
