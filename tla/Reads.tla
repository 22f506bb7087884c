-------------------------------- MODULE Reads --------------------------------
(***************************************************************************)
(* Reading a counter: MultiRaft::read_linearizable and with_fsm            *)
(* (crates/multiraft-net/src/multiraft.rs), the demo's endpoint that tries *)
(* the local nodes in three passes (crates/multiraft-demo/src/main.rs) and *)
(* the Jepsen client that tries one process after another                  *)
(* (jepsen/multiraft/src/jepsen/multiraft/client.clj).                     *)
(*                                                                         *)
(* An action is what happens between two awaits.  The counter of a replica *)
(* is the number of increments it has applied, and one read is followed    *)
(* from its invocation to its end while increments commit, leaders change  *)
(* and groups are shut down and created again.  External is the core:      *)
(* ensure_linearizable succeeds only on the leader, once that replica has  *)
(* applied what was committed when leadership was confirmed; logs survive, *)
(* and a new replica applies them from the start.                          *)
(***************************************************************************)
EXTENDS Naturals, Sequences

CONSTANTS
    Nodes,
    Deployments,    \* the demo processes, each with the nodes it runs, in order
    None,           \* no leader, no value
    MaxCommits,     \* bound: increments
    MaxCreates      \* bound: groups created again

ASSUME ReadsAssumption ==
    /\ \A d \in Deployments :
           /\ \A p \in DOMAIN d : d[p] \in Seq(Nodes) \ {<<>>}
           /\ \A n \in Nodes : \E p \in DOMAIN d : \E i \in DOMAIN d[p] : d[p][i] = n
    /\ None \notin Nodes \cup Nat
    /\ MaxCommits \in Nat /\ MaxCreates \in Nat

VARIABLES
    local,          \* DemoState.nodes of each process, never changed
    committed,      \* committed increments (external)
    leader,         \* the leader, or None (external)
    replicas,       \* what each replica of a node has applied, in order of creation
    groups,         \* GroupMap of each node: position in replicas, or 0
    stopped,        \* nodes whose Raft was shut down last
    creates,        \* groups created again so far
    read            \* the read

Processes == DOMAIN local
core == <<committed, leader>>
node_vars == <<replicas, groups, stopped, creates>>
vars == <<local, core, node_vars, read>>

ReadPcs == {"idle", "try", "ensure", "applied", "with_fsm", "lock", "replied", "ok", "fail", "info"}

Idle == [pc |-> "idle"]
Ends == {"idle", "ok", "fail", "info"}

TypeOK ==
    /\ local \in Deployments
    /\ committed \in 0 .. MaxCommits
    /\ leader \in Nodes \cup {None}
    /\ replicas \in [Nodes -> Seq(0 .. committed)]
    /\ \A n \in Nodes : groups[n] \in {0, Len(replicas[n])}
    /\ stopped \subseteq Nodes /\ creates \in 0 .. MaxCreates
    /\ read.pc \in ReadPcs
    /\ read.pc \notin Ends =>
           /\ read.proc \in Processes /\ read.left \subseteq Processes \ {read.proc}
           /\ read.pass \in 1 .. 3 /\ read.i \in 1 .. Len(local[read.proc])
           /\ read.value \in 0 .. committed \cup {None}
           /\ read.label \in {"none", "linearizable", "local"}

Init ==
    /\ local \in Deployments
    /\ committed = 0
    /\ leader \in Nodes \cup {None}
    /\ replicas = [n \in Nodes |-> <<0>>] /\ groups = [n \in Nodes |-> 1]
    /\ stopped = {} /\ creates = 0
    /\ read = Idle

\* History for the properties: while the read ran, the leader changed or a node
\* was shut down.
Disturb == read' = IF read.pc \in Ends THEN read ELSE [read EXCEPT !.disturbed = TRUE]

\* A node's Raft runs: it is the last one created, and was not shut down.
Runs(n) == n \notin stopped
RaftRuns(n, r) == Runs(n) /\ r = Len(replicas[n])

-----------------------------------------------------------------------------
(***************************************************************************)
(* External: increments commit, leaders change, replicas apply.            *)
(***************************************************************************)
Commit ==
    /\ leader # None /\ committed < MaxCommits
    /\ committed' = committed + 1
    /\ UNCHANGED <<local, leader, node_vars, read>>

Elect(n) ==
    /\ Runs(n) /\ leader # n
    /\ leader' = n
    /\ Disturb
    /\ UNCHANGED <<local, committed, node_vars>>

Apply(n) ==
    /\ Runs(n) /\ replicas[n][Len(replicas[n])] < committed
    /\ replicas' = [replicas EXCEPT ![n][Len(replicas[n])] = @ + 1]
    /\ UNCHANGED <<local, core, groups, stopped, creates, read>>

(***************************************************************************)
(* shutdown stops the Raft and then clears the map; create_group puts a    *)
(* replica with a new state machine into the map.                          *)
(***************************************************************************)
shutdown(n) ==
    /\ Runs(n)
    /\ stopped' = stopped \cup {n}
    /\ leader' = IF leader = n THEN None ELSE leader
    /\ Disturb
    /\ UNCHANGED <<local, committed, replicas, groups, creates>>

shutdown_clear(n) ==
    /\ n \in stopped /\ groups[n] # 0
    /\ groups' = [groups EXCEPT ![n] = 0]
    /\ UNCHANGED <<local, core, replicas, stopped, creates, read>>

create_group(n) ==
    /\ groups[n] = 0 /\ creates < MaxCreates
    /\ creates' = creates + 1
    /\ replicas' = [replicas EXCEPT ![n] = Append(@, 0)]
    /\ groups' = [groups EXCEPT ![n] = Len(replicas'[n])]
    /\ stopped' = stopped \ {n}
    /\ UNCHANGED <<local, core, read>>

-----------------------------------------------------------------------------
(***************************************************************************)
(* The client's read and its failover.                                     *)
(***************************************************************************)
\* try-read! at p: group_value starts with the first node of its first pass.
Request(p, left, floor, disturbed) ==
    read' = [pc |-> "try", proc |-> p, left |-> left, pass |-> 1, i |-> 1, raft |-> 0,
             index |-> 0, value |-> None, label |-> "none", floor |-> floor, disturbed |-> disturbed]

invoke(p) ==
    /\ read = Idle
    /\ Request(p, Processes \ {p}, committed, leader = None)
    /\ UNCHANGED <<local, core, node_vars>>

\* The next process: after a 503, after a stale value, or because the connection
\* was refused or broken while the request ran.
Running == read.pc \in {"try", "ensure", "applied", "with_fsm", "lock"}
Useless == read.pc = "replied" /\ read.label # "linearizable"

failover(p) ==
    /\ Running \/ Useless
    /\ p \in read.left
    /\ Request(p, read.left \ {p}, read.floor, read.disturbed \/ Running)
    /\ UNCHANGED <<local, core, node_vars>>

End(pc, disturbed) ==
    read' = [pc |-> pc, value |-> read.value, index |-> read.index, floor |-> read.floor,
             disturbed |-> disturbed]

give_up ==
    /\ Running \/ Useless
    /\ read.left = {}
    /\ End("fail", read.disturbed \/ Running)
    /\ UNCHANGED <<local, core, node_vars>>

\* Any other exception, a timeout for one.
ambiguous ==
    /\ Running
    /\ End("info", TRUE)
    /\ UNCHANGED <<local, core, node_vars>>

reply_ok_AnyLabel ==
    /\ read.pc = "replied" /\ read.label # "none"
    /\ End("ok", read.disturbed)
    /\ UNCHANGED <<local, core, node_vars>>

reply_ok ==
    /\ read.pc = "replied" /\ read.label = "linearizable"
    /\ End("ok", read.disturbed)
    /\ UNCHANGED <<local, core, node_vars>>

-----------------------------------------------------------------------------
(***************************************************************************)
(* read_group_value_best_effort: a linearizable read of each local node    *)
(* that believes to lead, then of every local node; at last the largest    *)
(* value of the local state machines, labelled as such.                    *)
(***************************************************************************)
Here == local[read.proc][read.i]

\* What follows an attempt without a result.
NextNode_PastEnd(rd) ==
    IF rd.i <= Len(local[rd.proc]) THEN [rd EXCEPT !.pc = "try", !.i = @ + 1]
    ELSE IF rd.pass < 3 THEN [rd EXCEPT !.pc = "try", !.pass = @ + 1, !.i = 1]
    ELSE [rd EXCEPT !.pc = "replied", !.label = IF rd.value = None THEN "none" ELSE "local"]

NextNode_TwoPasses(rd) ==
    IF rd.i < Len(local[rd.proc]) THEN [rd EXCEPT !.pc = "try", !.i = @ + 1]
    ELSE IF rd.pass = 1 THEN [rd EXCEPT !.pc = "try", !.pass = 3, !.i = 1]
    ELSE [rd EXCEPT !.pc = "replied", !.label = IF rd.value = None THEN "none" ELSE "local"]

NextNode(rd) ==
    IF rd.i < Len(local[rd.proc]) THEN [rd EXCEPT !.pc = "try", !.i = @ + 1]
    ELSE IF rd.pass < 3 THEN [rd EXCEPT !.pc = "try", !.pass = @ + 1, !.i = 1]
    ELSE [rd EXCEPT !.pc = "replied", !.label = IF rd.value = None THEN "none" ELSE "local"]

\* is_leader is what the core believes, which may be out of date.
not_local_leader ==
    /\ read.pc = "try" /\ read.pass = 1
    /\ read' = NextNode(read)
    /\ UNCHANGED <<local, core, node_vars>>

\* read_linearizable looks the Raft up; UnknownGroup without one.
read_linearizable ==
    /\ read.pc = "try" /\ read.pass < 3
    /\ read' = IF groups[Here] = 0 THEN NextNode(read)
               ELSE [read EXCEPT !.pc = "ensure", !.raft = groups[Here]]
    /\ UNCHANGED <<local, core, node_vars>>

\* External: ensure_linearizable confirms leadership and notes what is committed ...
ensure_confirmed ==
    /\ read.pc = "ensure"
    /\ leader = Here /\ RaftRuns(Here, read.raft)
    /\ read' = [read EXCEPT !.pc = "applied", !.index = committed]
    /\ UNCHANGED <<local, core, node_vars>>

\* ... and waits until the replica has applied it;
ensure_applied ==
    /\ read.pc = "applied"
    /\ replicas[Here][read.raft] >= read.index
    /\ read' = [read EXCEPT !.pc = "with_fsm"]
    /\ UNCHANGED <<local, core, node_vars>>

\* or it ends with NotLeader or another error: the Raft stopped, leadership
\* moved, or a quorum did not answer in time.
ensure_error ==
    /\ read.pc \in {"ensure", "applied"}
    /\ read' = [NextNode(read) EXCEPT !.disturbed =
                    @ \/ (leader = Here /\ RaftRuns(Here, read.raft))]
    /\ UNCHANGED <<local, core, node_vars>>

\* with_fsm looks the group up by itself, for the second time in a linearizable
\* read; without it the attempt has failed.
with_fsm ==
    /\ \/ read.pc = "with_fsm"
       \/ read.pc = "try" /\ read.pass = 3
    /\ read' = IF groups[Here] = 0 THEN NextNode(read)
               ELSE [read EXCEPT !.pc = "lock", !.raft = groups[Here], !.index =
                        IF read.raft = groups[Here] THEN @ ELSE None]
    /\ UNCHANGED <<local, core, node_vars>>

Larger(v, w) == IF v = None \/ v < w THEN w ELSE v

\* The state machine's lock is taken and the value read.
fsm_value ==
    /\ read.pc = "lock"
    /\ LET v == replicas[Here][read.raft]
       IN  read' = IF read.pass < 3
                   THEN [read EXCEPT !.pc = "replied", !.label = "linearizable", !.value = v]
                   ELSE NextNode([read EXCEPT !.value = Larger(@, v)])
    /\ UNCHANGED <<local, core, node_vars>>

ReadStep ==
    \/ not_local_leader \/ read_linearizable
    \/ ensure_confirmed \/ ensure_applied \/ ensure_error
    \/ with_fsm \/ fsm_value

Next ==
    \/ Commit
    \/ \E n \in Nodes : Apply(n) \/ Elect(n) \/ shutdown(n) \/ shutdown_clear(n) \/ create_group(n)
    \/ \E p \in Processes : invoke(p) \/ failover(p)
    \/ give_up \/ ambiguous \/ reply_ok
    \/ ReadStep

Spec == Init /\ [][Next]_vars

-----------------------------------------------------------------------------
(***************************************************************************)
(* Properties.                                                             *)
(***************************************************************************)
\* A value that the client takes as read counts at least every increment that
\* was committed, and so every one that was acknowledged, when the read began,
\* and none that is not committed now: reads are linearizable, through
\* failover, leader changes and shutdowns, provided that with_fsm found the
\* replica whose Raft was asked (read_linearizable, try-read!).
ReadIsLinearizable ==
    read.pc = "ok" /\ read.index # None => read.value \in read.floor .. committed

\* A read that runs while one leader stays up and no answer is lost does not
\* fail: the second pass and the failover reach the leader although is_leader
\* may be out of date everywhere (read_group_value_best_effort,
\* with-node-failover).
ServedWhenStable == read.pc = "fail" => read.disturbed
=============================================================================
