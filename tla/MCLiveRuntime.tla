--------------------------- MODULE MCLiveRuntime ----------------------------
(***************************************************************************)
(* Small instances of the live runtime for TLC.                            *)
(***************************************************************************)
EXTENDS RuntimeProperties

Vector(c, r, b) == [d \in Dims |-> CASE d = "cpu" -> c
                                     [] d = "ram" -> r
                                     [] d = "bandwidth" -> b]
Profile(c, r, b, p) == [need |-> Vector(c, r, b), priority |-> p]
Config(auto, a, s) == [automatic |-> auto, allocation |-> a, scheduling |-> s]
Choice(a, s) == [allocation |-> a, scheduling |-> s]

\* Two nodes: the second has less CPU, and bandwidth for one task only.  The
\* third task fits an idle node, or the first next to the second task;
\* otherwise it is retried and may be given up.
MCCapacityTwo == <<Vector(4, 4, 4), Vector(3, 4, 1)>>
MCLatencyTwo == <<20, 10>>
MCProfileTwo == <<Profile(2, 1, 1, 0), Profile(1, 2, 1, 3), Profile(3, 1, 1, 2)>>
MCDue == [t \in Tasks |-> (2 * t) % 5]

\* One node with room for three light tasks of different priorities.
MCCapacityOne == <<Vector(3, 3, 3)>>
MCLatencyOne == <<20>>
MCProfileOne == <<Profile(1, 1, 1, 1), Profile(1, 1, 1, 3), Profile(1, 1, 1, 0)>>

\* A node with room for the first two tasks; the third takes all of it and is
\* retried, and may be given up, while one of them is there.
MCCapacityTight == <<Vector(2, 2, 2)>>
MCProfileTight == <<Profile(1, 1, 1, 1), Profile(1, 1, 1, 3), Profile(2, 1, 1, 0)>>

\* Two strategies, one that ranks nodes and one that does not, paired with a
\* policy that drains and one that does not; the client's request brings a
\* third strategy, the batch instance (MCExperiment) the fourth.
MCConfigsAll ==
  {Config(FALSE, "ROUND_ROBIN", "FIFO"),
   Config(FALSE, "MULTI_CONSTRAINT", "PRIORITY_BASED")}
MCConfigsAutomatic == {Config(TRUE, "ROUND_ROBIN", "FIFO")}
\* With MCRequestsTwo and the recommendations these reach all four policies.
MCConfigsBoth ==
  {Config(FALSE, "LEAST_LOAD", "ROUND_ROBIN_TIME_SLICE")} \cup MCConfigsAutomatic

MCRequests == {Choice("LEAST_LOAD", "PRIORITY_BASED")}
MCRequestsTwo ==
  {Choice("LEAST_LOAD", "PRIORITY_BASED"), Choice("ROUND_ROBIN", "FIFO")}
=============================================================================
