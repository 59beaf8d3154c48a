-------------------------- MODULE MCCopilotRuntime --------------------------
(* Two requests, two clients and two owners for model checking             *)
(* CopilotRuntime: one owner to close and one to follow it.                *)
EXTENDS CopilotRuntime, TLC
============================================================================
