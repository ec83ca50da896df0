----------------------------- MODULE TaskLedger -----------------------------
(***************************************************************************)
(* What the runtime promises about tasks and reservations, without         *)
(* threads, locks, queues or policies: a task arrives once; it is admitted *)
(* to one node, where the requirements of the tasks held there leave room  *)
(* for it, or it is rejected; an admitted task runs once, ends once and    *)
(* gives its reservation back once.                                        *)
(***************************************************************************)
EXTENDS Integers, FiniteSetsExt

CONSTANTS
  Tasks, Nodes, Dims,
  Capacity,    \* resource vector of each node
  Need(_)      \* resource vector of each task

VARIABLES
  phase,       \* where each task is in its life
  place        \* the node each admitted task was given, 0 before

Phases ==
  {"absent", "new", "rejected", "admitted", "running", "ended", "released"}

\* The tasks whose reservation node e carries.
HeldAt(e) ==
  {t \in Tasks : place[t] = e /\ phase[t] \in {"admitted", "running", "ended"}}

Fits(t, e) ==
  \A d \in Dims :
    MapThenSumSet(LAMBDA u : Need(u)[d], HeldAt(e)) + Need(t)[d] <= Capacity[e][d]

Init ==
  /\ phase = [t \in Tasks |-> "absent"]
  /\ place = [t \in Tasks |-> 0]

Move(t, from, to) == phase[t] = from /\ phase' = [phase EXCEPT ![t] = to]

Arrive(t) == Move(t, "absent", "new") /\ UNCHANGED place

Admit(t, e) ==
  /\ Move(t, "new", "admitted")
  /\ Fits(t, e)
  /\ place' = [place EXCEPT ![t] = e]

Reject(t) == Move(t, "new", "rejected") /\ UNCHANGED place

Start(t) == Move(t, "admitted", "running") /\ UNCHANGED place

End(t) == Move(t, "running", "ended") /\ UNCHANGED place

Release(t) == Move(t, "ended", "released") /\ UNCHANGED place

Next ==
  \E t \in Tasks :
    \/ Arrive(t) \/ Reject(t) \/ Start(t) \/ End(t) \/ Release(t)
    \/ \E e \in Nodes : Admit(t, e)

Spec == Init /\ [][Next]_<<phase, place>>
=============================================================================
