---------------------------- MODULE MCIncService ----------------------------
(***************************************************************************)
(* Instances of IncService: processes and increments are model values, and *)
(* each kind is interchangeable.                                           *)
(***************************************************************************)
EXTENDS IncService, TLC

Symmetry == Permutations(Nodes) \cup Permutations(Ops)
=============================================================================
