------------------------ MODULE MCWorkflowAdmission ------------------------
(* Two racing turns of one session beside a turn of another.               *)
EXTENDS WorkflowAdmission, TLC

CONSTANTS a1, a2, b1, sa, sb

MCCaller == {a1, a2, b1}
MCSession == {sa, sb}
MCSessionOf == a1 :> sa @@ a2 :> sa @@ b1 :> sb
Instances == Permutations(Instance)
============================================================================
