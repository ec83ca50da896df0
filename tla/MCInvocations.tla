--------------------------- MODULE MCInvocations ----------------------------
(***************************************************************************)
(* Two starts of the program, with two of the four compared strategies.    *)
(***************************************************************************)
EXTENDS Invocations

MCAllStrategies == <<"ROUND_ROBIN", "MULTI_CONSTRAINT">>
=============================================================================
