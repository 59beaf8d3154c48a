--------------------------- MODULE MCSessionTurn ---------------------------
(* Two requests for model checking SessionTurn. Init gives them every mix  *)
(* of roles, so the runs cover two turns of one session and a turn beside  *)
(* a leaf.                                                                 *)
EXTENDS SessionTurn
============================================================================
