-------------------------- MODULE InvocationsProofs --------------------------
(***************************************************************************)
(* What the tables hold after any number of invocations, killed anywhere,  *)
(* for any workload and any list of compared strategies.                   *)
(***************************************************************************)
EXTENDS Invocations, TLAPS

Entries ==
  [key : Nat, parent : Nat, run : Nat, exp : Nat, label : {Configured, "none"}]

StoreTypeOK ==
  /\ rows \in [Tables -> SUBSET Entries]
  /\ invocation \in Nat /\ experiment \in Nat /\ step \in Nat
  /\ waiting \in SUBSET Nat

\* The reset has emptied the tables it is past.
ResetSoFar ==
  pc = "reset" =>
    /\ step \in 1..7
    /\ \A i \in 1..6 : i < step => rows[ResetOrder[i]] = {}

\* Task t of experiment x was allocated, or is about to get its row.
Allocated(t, x) ==
  \/ \E a \in rows["task_allocations"] :
       a.parent = t /\ a.exp = x /\ a.label # "none"
  \/ pc = "save" /\ t = step /\ x = experiment

\* Whatever was executed or waits for a worker was allocated in the same
\* experiment; between experiments nothing waits.
WorkAllocated ==
  /\ pc \in Running =>
       /\ \A x \in rows["task_execution"] : Allocated(x.parent, x.exp)
       /\ \A t \in waiting : Allocated(t, experiment)
  /\ pc \in {"reset", "begin"} => waiting = {}

StoreInv ==
  StoreTypeOK /\ ResetSucceeds /\ ResetSoFar /\ OnlyThisInvocation /\ WorkAllocated

-----------------------------------------------------------------------------

\* The six tables, in the order of the reset.
LEMMA ResetTables ==
  /\ Tables = {"task_execution", "task_allocations", "resource_history", "tasks",
               "edge_nodes", "devices"}
  /\ Len(ResetOrder) = 6
  /\ ResetOrder[1] = "task_execution" /\ ResetOrder[2] = "task_allocations"
  /\ ResetOrder[3] = "resource_history" /\ ResetOrder[4] = "tasks"
  /\ ResetOrder[5] = "edge_nodes" /\ ResetOrder[6] = "devices"
<1>1. DOMAIN ResetOrder = {1, 2, 3, 4, 5, 6}
  BY DEF ResetOrder
<1> QED
  BY <1>1 DEF Tables, ResetOrder

\* A table whose turn has come is not referenced any more.
LEMMA ChildrenFirst ==
  ASSUME StoreTypeOK, NEW i \in 1..6,
         \A j \in 1..6 : j < i => rows[ResetOrder[j]] = {}
  PROVE  ~Referenced(ResetOrder[i])
<1> SUFFICES ASSUME NEW child \in DOMAIN Parent, Parent[child] = ResetOrder[i]
             PROVE  rows[child] = {}
  BY DEF Referenced
<1>1. /\ DOMAIN Parent = {"tasks", "task_allocations", "task_execution", "resource_history"}
      /\ Parent["tasks"] = "devices" /\ Parent["task_allocations"] = "tasks"
      /\ Parent["task_execution"] = "tasks"
      /\ Parent["resource_history"] = "edge_nodes"
  BY DEF Parent
<1>2. i \in {1, 2, 3, 4, 5, 6}
  OBVIOUS
<1>3. CASE child = "tasks"
  <2>1. i = 6
    BY <1>1, <1>2, <1>3, ResetTables
  <2> QED
    BY <1>3, <2>1, ResetTables
<1>4. CASE child \in {"task_allocations", "task_execution"}
  <2>1. i = 4
    BY <1>1, <1>2, <1>4, ResetTables
  <2> QED
    BY <1>4, <2>1, ResetTables
<1>5. CASE child = "resource_history"
  <2>1. i = 5
    BY <1>1, <1>2, <1>5, ResetTables
  <2> QED
    BY <1>5, <2>1, ResetTables
<1> QED
  BY <1>1, <1>3, <1>4, <1>5

\* A new row is an entry of the current invocation and experiment.
LEMMA RowType ==
  ASSUME StoreTypeOK, NEW k \in Nat, NEW p \in Nat, NEW l \in {Configured, "none"}
  PROVE  /\ Row(k, p, l) \in Entries
         /\ Row(k, p, l).run = invocation /\ Row(k, p, l).exp = experiment
         /\ Row(k, p, l).parent = p /\ Row(k, p, l).label = l
BY DEF Row, Entries, StoreTypeOK

\* The initial state satisfies the invariant.
LEMMA InitStore == Init => StoreInv
<1> SUFFICES ASSUME Init PROVE StoreInv
  OBVIOUS
<1>1. StoreTypeOK
  BY DEF Init, StoreTypeOK
<1> QED
  BY <1>1 DEF Init, StoreInv, ResetSucceeds, ResetSoFar, OnlyThisInvocation,
     WorkAllocated, Running

\* What writing a row to a table leaves true: nothing disappears from the
\* tables that only grow, and the row is of this invocation.
LEMMA WriteRow ==
  ASSUME StoreTypeOK, NEW table \in Tables, NEW row \in Entries,
         row.run = invocation,
         Insert(table, row) \/ Replace(table, row), UNCHANGED invocation
  PROVE  /\ rows' \in [Tables -> SUBSET Entries]
         /\ \A t \in Tables : t # table => rows'[t] = rows[t]
         /\ \A r \in rows'[table] : r \in rows[table] \/ r = row
         /\ (\A t \in Tables : \A r \in rows[t] : r.run = invocation)
              => \A t \in Tables : \A r \in rows'[t] : r.run = invocation'
BY DEF StoreTypeOK, Insert, Replace

\* Steps that keep the rows of both work tables keep their allocations.
LEMMA SameWork ==
  ASSUME StoreInv, pc' \in Running => pc \in Running /\ pc # "save",
         rows'["task_execution"] = rows["task_execution"],
         rows'["task_allocations"] = rows["task_allocations"],
         UNCHANGED <<experiment, waiting>>,
         pc' \in {"reset", "begin"} => pc = pc'
  PROVE  WorkAllocated'
<1>1. ASSUME NEW t, NEW x, Allocated(t, x), pc # "save"
      PROVE  Allocated(t, x)'
  BY <1>1 DEF Allocated
<1> QED
  BY <1>1 DEF WorkAllocated, StoreInv, Running

\* Every statement, crash and restart keeps the invariant.
LEMMA StoreStep == StoreInv /\ [Next]_vars => StoreInv'
<1> SUFFICES ASSUME StoreInv, [Next]_vars PROVE StoreInv'
  OBVIOUS
<1> USE DEF StoreInv, ResetSucceeds
<1>0. /\ StoreTypeOK /\ ResetSoFar /\ OnlyThisInvocation /\ WorkAllocated
      /\ TaskCount \in Nat /\ Fleet \in Nat /\ NoKey \in Nat
      /\ Configured # "none"
  BY InvocationAssumption DEF Fleet, NoKey
<1>1. CASE Launch
  <2>1. /\ pc' = "reset" /\ step' = 1 /\ waiting' = {} /\ rows' = rows
        /\ experiment' = 1 /\ invocation' = invocation + 1
    BY <1>1 DEF Launch
  <2>2. StoreTypeOK'
    BY <1>0, <2>1 DEF StoreTypeOK
  <2>3. ResetSoFar'
    BY <2>1 DEF ResetSoFar
  <2>4. OnlyThisInvocation' /\ WorkAllocated' /\ ResetSucceeds'
    BY <2>1 DEF OnlyThisInvocation, WorkAllocated, Running
  <2> QED
    BY <2>2, <2>3, <2>4
<1>2. CASE ResetTable
  <2>1. pc = "reset" /\ step \in 1..6
    BY <1>0, <1>2, ResetTables DEF ResetTable, ResetSoFar
  <2>2. ~Referenced(ResetOrder[step])
    BY <1>0, <2>1, ChildrenFirst DEF ResetSoFar
  <2>3. /\ rows' = [rows EXCEPT ![ResetOrder[step]] = {}] /\ step' = step + 1
        /\ UNCHANGED <<pc, invocation, experiment, waiting>>
    BY <1>2, <2>2 DEF ResetTable
  <2>4. \A i \in 1..6 : ResetOrder[i] \in Tables
    <3>1. \A i \in 1..6 : i \in {1, 2, 3, 4, 5, 6}
      OBVIOUS
    <3> QED
      BY <3>1, ResetTables
  <2>5. StoreTypeOK'
    <3>1. rows \in [Tables -> SUBSET Entries] /\ {} \in SUBSET Entries
      BY <1>0 DEF StoreTypeOK
    <3>2. rows' \in [Tables -> SUBSET Entries]
      BY <2>3, <3>1
    <3> QED
      BY <1>0, <2>1, <2>3, <3>2 DEF StoreTypeOK
  <2>6. ResetSoFar'
    BY <1>0, <2>1, <2>3, <2>4 DEF ResetSoFar, StoreTypeOK
  <2> QED
    BY <1>0, <2>1, <2>3, <2>5, <2>6 DEF OnlyThisInvocation, WorkAllocated, Running
<1>3. CASE CreateDevices
  <2>1. /\ pc = "reset" /\ step = 7 /\ pc' = "begin"
        /\ UNCHANGED <<invocation, experiment, step, waiting>>
    BY <1>3, ResetTables DEF CreateDevices
  <2>2. \A t \in Tables : rows[t] = {}
    BY <1>0, <2>1, ResetTables DEF ResetSoFar
  <2> DEFINE row == Row(Fleet, NoKey, "none")
  <2>3. row \in Entries /\ row.run = invocation
    BY <1>0, RowType
  <2>4. Replace("devices", row)
    BY <1>3 DEF CreateDevices
  <2> HIDE DEF row
  <2>5. /\ rows' \in [Tables -> SUBSET Entries]
        /\ \A t \in Tables : t # "devices" => rows'[t] = rows[t]
        /\ \A t \in Tables : \A r \in rows'[t] : r.run = invocation'
    BY <1>0, <2>1, <2>2, <2>3, <2>4, WriteRow, ResetTables
  <2>6. rows'["task_execution"] = {}
    BY <2>2, <2>5, ResetTables
  <2> QED
    BY <1>0, <2>1, <2>5, <2>6 DEF StoreTypeOK, ResetSoFar, OnlyThisInvocation,
       WorkAllocated, Running
<1>4. CASE BeginExperiment
  <2>1. /\ pc = "begin" /\ pc' = "produce" /\ step' = 0
        /\ UNCHANGED <<invocation, experiment, waiting>>
    BY <1>4 DEF BeginExperiment
  <2> DEFINE row == Row(Fleet, NoKey, "none")
  <2>2. row \in Entries /\ row.run = invocation
    BY <1>0, RowType
  <2>3. Replace("edge_nodes", row)
    BY <1>4 DEF BeginExperiment
  <2> HIDE DEF row
  <2>4. /\ rows' \in [Tables -> SUBSET Entries]
        /\ \A t \in Tables : t # "edge_nodes" => rows'[t] = rows[t]
        /\ \A t \in Tables : \A r \in rows'[t] : r.run = invocation'
    BY <1>0, <2>1, <2>2, <2>3, WriteRow, ResetTables DEF OnlyThisInvocation, Running
  <2>5. WorkAllocated'
    BY <2>1, <2>4, SameWork, ResetTables DEF Running
  <2> QED
    BY <1>0, <2>1, <2>4, <2>5 DEF StoreTypeOK, ResetSoFar, OnlyThisInvocation
<1>5. CASE SaveTask
  <2>1. /\ pc = "produce" /\ pc' = "place" /\ step' = step + 1
        /\ UNCHANGED <<invocation, experiment, waiting>>
    BY <1>5 DEF SaveTask
  <2> DEFINE row == Row(step + 1, Fleet, "none")
  <2>2. row \in Entries /\ row.run = invocation
    <3>1. step + 1 \in Nat
      BY <1>0 DEF StoreTypeOK
    <3> QED
      BY <1>0, <3>1, RowType
  <2>3. Replace("tasks", row)
    BY <1>5 DEF SaveTask
  <2> HIDE DEF row
  <2>4. /\ rows' \in [Tables -> SUBSET Entries]
        /\ \A t \in Tables : t # "tasks" => rows'[t] = rows[t]
        /\ \A t \in Tables : \A r \in rows'[t] : r.run = invocation'
    BY <1>0, <2>1, <2>2, <2>3, WriteRow, ResetTables DEF OnlyThisInvocation, Running
  <2>5. WorkAllocated'
    BY <2>1, <2>4, SameWork, ResetTables DEF Running
  <2> QED
    BY <1>0, <2>1, <2>4, <2>5 DEF StoreTypeOK, ResetSoFar, OnlyThisInvocation
<1>6. CASE ScheduleTask
  <2>1. /\ pc = "place" /\ pc' = "save" /\ waiting' = waiting \cup {step}
        /\ UNCHANGED <<rows, invocation, experiment, step>>
    BY <1>6 DEF ScheduleTask
  <2>2. \A t, x : Allocated(t, x) => Allocated(t, x)'
    BY <2>1 DEF Allocated
  <2>3. Allocated(step, experiment)'
    BY <2>1 DEF Allocated
  <2>4. WorkAllocated'
    BY <1>0, <2>1, <2>2, <2>3 DEF WorkAllocated, Running
  <2> QED
    BY <1>0, <2>1, <2>4 DEF StoreTypeOK, ResetSoFar, OnlyThisInvocation, Running
<1>7. CASE SaveAllocation \/ SaveAllocationFailure
  <2>1. PICK l \in {Configured, "none"} :
          /\ Insert("task_allocations", Row(NoKey, step, l))
          /\ (pc = "save" /\ l = Configured) \/ pc = "place"
    BY <1>7 DEF SaveAllocation, SaveAllocationFailure
  <2>2. /\ pc' = "produce"
        /\ UNCHANGED <<invocation, experiment, step, waiting>>
    BY <1>7 DEF SaveAllocation, SaveAllocationFailure
  <2> DEFINE row == Row(NoKey, step, l)
  <2>3. /\ row \in Entries /\ row.run = invocation /\ row.exp = experiment
        /\ row.parent = step /\ row.label = l
    BY <1>0, RowType DEF StoreTypeOK
  <2>4. Insert("task_allocations", row)
    BY <2>1
  <2> HIDE DEF row
  <2>5. /\ rows' \in [Tables -> SUBSET Entries]
        /\ \A t \in Tables : t # "task_allocations" => rows'[t] = rows[t]
        /\ \A t \in Tables : \A r \in rows'[t] : r.run = invocation'
    BY <1>0, <2>1, <2>2, <2>3, <2>4, WriteRow, ResetTables
    DEF OnlyThisInvocation, Running
  <2>6. rows'["task_allocations"] = rows["task_allocations"] \cup {row}
    BY <1>0, <2>4, ResetTables DEF Insert, StoreTypeOK
  <2>7. \A t, x : Allocated(t, x) => Allocated(t, x)'
    BY <1>0, <2>1, <2>2, <2>3, <2>6 DEF Allocated
  <2>8. WorkAllocated'
    BY <1>0, <2>1, <2>2, <2>5, <2>7, ResetTables DEF WorkAllocated, Running
  <2> QED
    BY <1>0, <2>2, <2>5, <2>8 DEF StoreTypeOK, ResetSoFar, OnlyThisInvocation
<1>8. ASSUME NEW n \in Tasks, SaveTaskExecution(n)
      PROVE  StoreInv'
  <2>1. /\ pc \in Running /\ n \in waiting /\ waiting' = waiting \ {n}
        /\ UNCHANGED <<pc, invocation, experiment, step>>
    BY <1>8 DEF SaveTaskExecution
  <2> DEFINE row == Row(NoKey, n, "none")
  <2>2. /\ row \in Entries /\ row.run = invocation /\ row.exp = experiment
        /\ row.parent = n
    BY <1>0, <2>1, RowType DEF StoreTypeOK
  <2>3. Insert("task_execution", row)
    BY <1>8 DEF SaveTaskExecution
  <2> HIDE DEF row
  <2>4. /\ rows' \in [Tables -> SUBSET Entries]
        /\ \A t \in Tables : t # "task_execution" => rows'[t] = rows[t]
        /\ \A r \in rows'["task_execution"] : r \in rows["task_execution"] \/ r = row
        /\ \A t \in Tables : \A r \in rows'[t] : r.run = invocation'
    BY <1>0, <2>1, <2>2, <2>3, WriteRow, ResetTables DEF OnlyThisInvocation
  <2>5. \A t, x : Allocated(t, x) => Allocated(t, x)'
    BY <2>1, <2>4, ResetTables DEF Allocated
  <2>6. Allocated(row.parent, row.exp)
    BY <1>0, <2>1, <2>2 DEF WorkAllocated
  <2>7. WorkAllocated'
    BY <1>0, <2>1, <2>4, <2>5, <2>6 DEF WorkAllocated, Running
  <2> QED
    BY <1>0, <2>1, <2>4, <2>7 DEF StoreTypeOK, ResetSoFar, OnlyThisInvocation, Running
<1>9. CASE SaveResourceSnapshot
  <2>1. pc \in Running \ {"begin"} /\ UNCHANGED <<pc, invocation, experiment, step, waiting>>
    BY <1>9 DEF SaveResourceSnapshot
  <2> DEFINE row == Row(NoKey, Fleet, "none")
  <2>2. row \in Entries /\ row.run = invocation
    BY <1>0, RowType
  <2>3. Insert("resource_history", row)
    BY <1>9 DEF SaveResourceSnapshot
  <2> HIDE DEF row
  <2>4. /\ rows' \in [Tables -> SUBSET Entries]
        /\ \A t \in Tables : t # "resource_history" => rows'[t] = rows[t]
        /\ \A t \in Tables : \A r \in rows'[t] : r.run = invocation'
    BY <1>0, <2>1, <2>2, <2>3, WriteRow, ResetTables DEF OnlyThisInvocation
  <2>5. \A t, x : Allocated(t, x) => Allocated(t, x)'
    BY <2>1, <2>4, ResetTables DEF Allocated
  <2>6. WorkAllocated'
    BY <1>0, <2>1, <2>4, <2>5, ResetTables DEF WorkAllocated, Running
  <2> QED
    BY <1>0, <2>1, <2>4, <2>6 DEF StoreTypeOK, ResetSoFar, OnlyThisInvocation, Running
<1>10. CASE EndExperiment
  <2>1. /\ pc = "produce" /\ pc' \in {"begin", "off"} /\ waiting' = {}
        /\ experiment' \in {experiment, experiment + 1}
        /\ UNCHANGED <<rows, invocation, step>>
    BY <1>10 DEF EndExperiment
  <2>2. \A t, x : Allocated(t, x) => Allocated(t, x)'
    BY <2>1 DEF Allocated
  <2>3. WorkAllocated'
    BY <1>0, <2>1, <2>2 DEF WorkAllocated, Running
  <2> QED
    BY <1>0, <2>1, <2>3 DEF StoreTypeOK, ResetSoFar, OnlyThisInvocation, Running
<1>11. CASE Kill
  BY <1>0, <1>11 DEF Kill, StoreTypeOK, ResetSoFar, OnlyThisInvocation,
     WorkAllocated, Running
<1>12. CASE UNCHANGED vars
  <2>1. UNCHANGED <<rows, pc, invocation, experiment, step, waiting>>
    BY <1>12 DEF vars
  <2>2. \A t, x : Allocated(t, x) => Allocated(t, x)'
    BY <2>1 DEF Allocated
  <2> QED
    BY <1>0, <2>1, <2>2 DEF StoreTypeOK, ResetSoFar, OnlyThisInvocation, WorkAllocated
<1> QED
  BY <1>1, <1>2, <1>3, <1>4, <1>5, <1>6, <1>7, <1>8, <1>9, <1>10, <1>11, <1>12
  DEF Next

\* The invariant holds in every reachable state.
THEOREM StoreInvariance == Spec => []StoreInv
BY InitStore, StoreStep, PTL DEF Spec

\* resetSimulationData succeeds after any history of invocations, each
\* killed between any two statements or not.
THEOREM ResetAlwaysSucceeds == Spec => []ResetSucceeds
<1>1. StoreInv => ResetSucceeds
  BY DEF StoreInv
<1> QED
  BY <1>1, StoreInvariance, PTL

\* While main() works, no table holds a row of an earlier invocation.
THEOREM NothingInherited == Spec => []OnlyThisInvocation
<1>1. StoreInv => OnlyThisInvocation
  BY DEF StoreInv
<1> QED
  BY <1>1, StoreInvariance, PTL

\* Joining the executor keeps the executions of one experiment out of the
\* next, however many experiments an invocation compares.
THEOREM ExecutionsStay == Spec => []ExecutionsAllocated
<1>1. StoreInv => ExecutionsAllocated
  BY DEF StoreInv, WorkAllocated, Allocated, ExecutionsAllocated, Running
<1> QED
  BY <1>1, StoreInvariance, PTL
=============================================================================
