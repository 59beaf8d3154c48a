-------------------------- MODULE MCCopilotToolCalls --------------------------
(* A small instance of CopilotToolCalls: one call of a host tool and one of *)
(* a native tool, in a stream whose queue overflows.                        *)
EXTENDS CopilotToolCalls, TLC

CONSTANTS host, native, e1, e2

AllCalls == {host, native}
HostsCalls == {host}
EventIds == {e1, e2}
===============================================================================
