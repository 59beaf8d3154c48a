--------------------------- MODULE MCSessionFiles ---------------------------
(* A small instance of SessionFiles: the workspace, which is the second of  *)
(* two names, and paths of up to two names.                                 *)
EXTENDS SessionFiles

ShortPaths == {<<>>} \cup {<<a>> : a \in 1 .. 2} \cup {<<a, b>> : a, b \in 1 .. 2}
SecondName == <<2>>
=============================================================================
