------------------------------ MODULE MCReads ------------------------------
(***************************************************************************)
(* The instance of Reads: two nodes, both in one process or each in its    *)
(* own.                                                                    *)
(***************************************************************************)
EXTENDS Reads

CONSTANTS n1, n2, p1, p2

OneProcess == [p \in {p1} |-> <<n1, n2>>]
TwoProcesses == [p \in {p1, p2} |-> IF p = p1 THEN <<n1>> ELSE <<n2>>]
BothDeployments == {OneProcess, TwoProcesses}
=============================================================================
