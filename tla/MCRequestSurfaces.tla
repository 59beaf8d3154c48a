-------------------------- MODULE MCRequestSurfaces --------------------------
EXTENDS RequestSurfaces, TLC

CONSTANTS a1, r1, r2, c1

\* One request delegates, the other one shares its application and its clock.
CallsOfOne == (r1 :> {c1}) @@ (r2 :> {})
ThroughMost == (r1 :> Surfaces) @@ (r2 :> {"chat", "direct"})
=============================================================================
