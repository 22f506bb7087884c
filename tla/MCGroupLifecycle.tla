-------------------------- MODULE MCGroupLifecycle --------------------------
(***************************************************************************)
(* Instances of GroupLifecycle.  Members, standbys and callers are sets of *)
(* model values; nodes of a kind, groups and callers are interchangeable.  *)
(***************************************************************************)
EXTENDS GroupLifecycle, TLC

Config(net, data_dir) == [net |-> net, data_dir |-> data_dir]

AllConfigs == {Config(net, data_dir) : net \in {"InProcess", "Grpc"}, data_dir \in BOOLEAN}

Symmetry == Permutations(Members) \cup Permutations(Groups) \cup Permutations(Callers)
=============================================================================
