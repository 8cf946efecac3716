---------------------------- MODULE MCPipeClient ----------------------------
(***************************************************************************)
(* Instances of PipeClient for TLC: what the application calls where.      *)
(***************************************************************************)
EXTENDS PipeClient

\* Everything, from both threads.
EveryCall == [t \in Thread |-> ApiCall]

\* Sends from both threads, stopped from the application's own.
SendOnBoth == [t \in Thread |-> IF t = "app" THEN {"send", "stop"} ELSE {"send"}]
=============================================================================
