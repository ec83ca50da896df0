---------------------------- MODULE MCAllocator -----------------------------
(***************************************************************************)
(* The four allocation strategies on every input of a small domain.        *)
(***************************************************************************)
EXTENDS Allocation

Vector(c, r, b) == [d \in Dims |-> CASE d = "cpu" -> c
                                     [] d = "ram" -> r
                                     [] d = "bandwidth" -> b]

\* Capacities divide Scale, so that the integer scores are exact.
MCCapacity == <<Vector(4, 4, 4), Vector(2, 4, 4), Vector(4, 2, 2)>>
MCLatency == <<20, 10, 10>>
MCLoads == {Vector(0, 0, 0), Vector(2, 0, 1), Vector(0, 2, 1), Vector(1, 1, 2)}
MCDemands == {[need |-> Vector(1, 1, 1), priority |-> p] : p \in {0, 3}}
             \cup {[need |-> Vector(4, 2, 0), priority |-> 1]}
=============================================================================
