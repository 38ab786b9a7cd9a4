----------------------------- MODULE MCSlatFlow -----------------------------
(* Instances of SlatFlow for TLC: a and b have the same number of points.  *)
EXTENDS SlatFlow, TLC

CONSTANTS a, b, c

MCPoints == (a :> 8) @@ (b :> 8) @@ (c :> 27)
=============================================================================
