-------------------------- MODULE MCPipelineClient --------------------------
(***************************************************************************)
(* Instances of PipelineClient for TLC.                                    *)
(***************************************************************************)
EXTENDS PipelineClient

CONSTANT Twice

Calls == [p \in Callers |-> IF p \in Twice THEN 2 ELSE 1]
=============================================================================
