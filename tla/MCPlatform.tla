----------------------------- MODULE MCPlatform -----------------------------
(* Platform with a main thread and one worker.                             *)
EXTENDS Platform

=============================================================================
