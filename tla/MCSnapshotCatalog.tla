------------------------- MODULE MCSnapshotCatalog -------------------------
(***************************************************************************)
(* Instances of SnapshotCatalog.  Writers differ only in their bytes.      *)
(***************************************************************************)
EXTENDS SnapshotCatalog, TLC

Symmetry == Permutations(Writers)

\* A catalog in use: one write has come to its end, alone, before the others.
OneWritten(w, i) ==
    /\ dirs = [j \in Indices |-> IF j = i THEN [exists |-> TRUE, data |-> w, meta |-> w]
                                          ELSE NoDir]
    /\ pc = [t \in Threads |-> IF t = w THEN "returned" ELSE "idle"]
    /\ target = [t \in Threads |-> IF t = w THEN i ELSE 0]
    /\ scan = [t \in Threads |-> NoScan]
    /\ victims = [v \in Writers |-> {}]
    /\ result = [t \in Threads |-> IF t = w THEN "ok" ELSE Absent]
    /\ detached = {} /\ acked = {<<i, w>>} /\ spoiled = {} /\ faults = 0

InUse == (\E w \in Writers, i \in Indices : OneWritten(w, i)) /\ [][Next]_vars
=============================================================================
