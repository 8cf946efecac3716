---------------------------- MODULE MCPipeServer ----------------------------
(***************************************************************************)
(* Instances of PipeServer for TLC.                                        *)
(***************************************************************************)
EXTENDS PipeServer

CONSTANTS c1, h1
=============================================================================
