---------------------------- MODULE MCExperiment ----------------------------
(***************************************************************************)
(* Small instances of the batch experiment for TLC.                        *)
(***************************************************************************)
EXTENDS Experiment, MCLiveRuntime

MCCapacitySmall == <<Vector(2, 2, 2)>>
MCPriority == {Config(FALSE, "MULTI_CONSTRAINT", "PRIORITY_BASED")}
MCExperimentConfigs ==
  MCPriority \cup {Config(FALSE, "PRIORITY_BASED", "FIFO")}
=============================================================================
