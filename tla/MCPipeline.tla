------------------------------ MODULE MCPipeline ------------------------------
(***************************************************************************)
(* Pipeline on small instances.                                            *)
(***************************************************************************)
EXTENDS Pipeline

=============================================================================
