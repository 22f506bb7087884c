--------------------------- MODULE MCGroupRouter ---------------------------
(***************************************************************************)
(* The instance of GroupRouter: two callers, each of a group of its own,   *)
(* and one target node.                                                    *)
(***************************************************************************)
EXTENDS GroupRouter

CONSTANTS n1, g1, g2, c1, c2

TargetNode == [c \in Callers |-> n1]
TargetGroup == [c \in Callers |-> IF c = c1 THEN g1 ELSE g2]
SendBound == [c \in Callers |-> IF c = c1 THEN 2 ELSE 1]
=============================================================================
