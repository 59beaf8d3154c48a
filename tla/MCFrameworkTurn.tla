--------------------------- MODULE MCFrameworkTurn ---------------------------
EXTENDS FrameworkTurn

CONSTANTS t1, t2, t3, w1, w2
MCWorker == t1 :> w1 @@ t2 :> w1 @@ t3 :> w2
=============================================================================
