--------------------------- MODULE MCLeaderWatch ---------------------------
(***************************************************************************)
(* LeaderWatch as LeaderWatch.cfg instantiates it: every constant is a set *)
(* of model values.  No symmetry, which liveness checking would not bear.  *)
(***************************************************************************)
EXTENDS LeaderWatch
=============================================================================
