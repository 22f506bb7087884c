--------------------------- MODULE GroupLifecycle ---------------------------
(***************************************************************************)
(* Creating, initializing, shutting down and restarting the Raft groups of *)
(* a cluster: create_group, shutdown and the start functions of MultiRaft  *)
(* (crates/multiraft-net/src/multiraft.rs), the ClusterGlue its nodes      *)
(* share in one process, and the Router's map of node connections with its *)
(* link counter (router.rs, conn_metrics.rs).                              *)
(*                                                                         *)
(* An action is the code between two awaits or under one lock.  Calls on   *)
(* different nodes or for different groups always interleave; Overlap says *)
(* whether calls on one node for one group do, and calls with a shutdown.  *)
(* A node is started again only after its shutdown returned, as            *)
(* SharedFabric asks.  Inside openraft (external) only this is kept: a     *)
(* Raft runs from Raft::new until its shutdown, initialize is refused when *)
(* its log is not empty, and a running member's log fills by replication.  *)
(***************************************************************************)
EXTENDS Naturals, FiniteSets, Sequences, Functions

CONSTANTS
    Members,        \* the voters, the members argument of every create_group
    Standbys,       \* nodes with role = Standby
    Groups,
    Callers,        \* tasks that call create_group
    Configs,        \* the ClusterConfigs to consider
    Overlap,        \* a call may overlap one for the same node and group, or a shutdown
    MaxFaults,      \* bound: failures to open a log or to join a Raft task
    MaxStarts,      \* bound: starts of nodes
    MaxRafts        \* bound: Rafts ever created

ASSUME LifecycleAssumption ==
    /\ Members \cap Standbys = {} /\ Members # {}
    /\ Configs \subseteq [net : {"InProcess", "Grpc"}, data_dir : BOOLEAN]
    /\ Overlap \in BOOLEAN
    /\ MaxStarts \in Nat \ {0} /\ MaxRafts \in Nat /\ MaxFaults \in Nat

Nodes == Members \cup Standbys

VARIABLES
    config,         \* the configuration of the nodes, never changed
    rafts,          \* every Raft ever created: [node, group, alive], in order
    groups,         \* GroupMap of each node: group -> position in rafts, or 0
    starts,         \* number of starts so far
    stop,           \* progress of a node's shutdown
    pending,        \* Rafts the shutdown still has to stop
    connected,      \* Router.nodes: the registered nodes
    peers,          \* ConnMetrics.peers
    ready,          \* ClusterGlue.ready
    claimed_init,   \* ClusterGlue.claimed_init
    calls,          \* the create_group call of each caller
    written,        \* <<node, group>> whose log is not empty (external)
    initialized,    \* <<node, group>> of each initialize that succeeded, in order
    faults          \* number of failures so far

node_vars == <<rafts, groups, starts, stop, pending>>
glue == <<ready, claimed_init>>
router == <<connected, peers>>
vars == <<config, node_vars, router, glue, calls, written, initialized, faults>>

\* NetBackend::Grpc, and a log in files (FileLogStore) instead of memory.
Grpc == config.net = "Grpc"
Durable == config.data_dir

Idle == [pc |-> "idle"]
Call(n, g, pc, raft) == [pc |-> pc, node |-> n, group |-> g, raft |-> raft]

CallPcs == {"spawn", "insert", "mark_ready", "claim", "initialize"}

TypeOK ==
    /\ config \in Configs
    /\ rafts \in Seq([node : Nodes, group : Groups, alive : BOOLEAN])
    /\ Len(rafts) <= MaxRafts
    /\ groups \in [Nodes -> [Groups -> 0 .. Len(rafts)]]
    /\ \A n \in Nodes, g \in Groups :
           groups[n][g] # 0 => rafts[groups[n][g]].node = n /\ rafts[groups[n][g]].group = g
    /\ starts \in 0 .. MaxStarts
    /\ stop \in [Nodes -> {"down", "up", "stopping", "unregister"}]
    /\ pending \in [Nodes -> SUBSET (1 .. Len(rafts))]
    /\ connected \subseteq Nodes /\ peers \subseteq Nodes
    /\ ready \in [Groups -> SUBSET Members] /\ claimed_init \subseteq Groups
    /\ \A c \in Callers :
           calls[c] # Idle => calls[c].pc \in CallPcs /\ calls[c].raft \in 0 .. Len(rafts)
    /\ written \subseteq Nodes \X Groups
    /\ initialized \in Seq(Members \X Groups)
    /\ faults \in 0 .. MaxFaults

Init ==
    /\ config \in Configs
    /\ rafts = <<>>
    /\ groups = [n \in Nodes |-> [g \in Groups |-> 0]]
    /\ starts = 0
    /\ stop = [n \in Nodes |-> "down"]
    /\ pending = [n \in Nodes |-> {}]
    /\ connected = {} /\ peers = {}
    /\ ready = [g \in Groups |-> {}] /\ claimed_init = {}
    /\ calls = [c \in Callers |-> Idle]
    /\ written = {} /\ initialized = <<>> /\ faults = 0

CallsOn(n) == {c \in Callers : calls[c] # Idle /\ calls[c].node = n}
CallsFor(n, g) == {c \in CallsOn(n) : calls[c].group = g}
Quiet(n) == CallsOn(n) = {}
At(c, pc) == calls[c].pc = pc
Goto(c, pc) == calls' = [calls EXCEPT ![c].pc = pc]
Return(c) == calls' = [calls EXCEPT ![c] = Idle]

-----------------------------------------------------------------------------
(***************************************************************************)
(* start_inner / start_grpc_inner: an empty group map and, in process, a   *)
(* fresh channel registered with the Router.                               *)
(***************************************************************************)
register_node(n) ==
    /\ connected' = connected \cup {n}
    /\ peers' = peers \cup {n}

start_node(n) ==
    /\ stop[n] = "down" /\ starts < MaxStarts
    /\ Quiet(n)
    /\ starts' = starts + 1
    /\ stop' = [stop EXCEPT ![n] = "up"]
    /\ groups' = [groups EXCEPT ![n] = [g \in Groups |-> 0]]
    /\ IF Grpc THEN UNCHANGED router ELSE register_node(n)
    /\ UNCHANGED <<rafts, pending, glue, calls, written, initialized, faults, config>>

-----------------------------------------------------------------------------
(***************************************************************************)
(* create_group: looks the group up and releases the lock before it        *)
(* spawns.                                                                 *)
(***************************************************************************)
AfterSpawn_NoStandby(n) == IF Grpc THEN "initialize" ELSE "mark_ready"

AfterSpawn(n) == IF n \in Standbys THEN "return" ELSE IF Grpc THEN "initialize" ELSE "mark_ready"

\* The call goes on at pc, or returns.
Proceed(c, call) == calls' = [calls EXCEPT ![c] = IF call.pc = "return" THEN Idle ELSE call]

create_group_Respawn(c, n, g) ==
    /\ calls[c] = Idle
    /\ stop[n] = "up"
    /\ Overlap \/ CallsFor(n, g) = {}
    /\ calls' = [calls EXCEPT ![c] = Call(n, g, "spawn", 0)]
    /\ UNCHANGED <<node_vars, router, glue, written, initialized, faults, config>>

create_group(c, n, g) ==
    /\ calls[c] = Idle
    /\ stop[n] = "up"
    /\ Overlap \/ CallsFor(n, g) = {}
    /\ Proceed(c, Call(n, g, IF groups[n][g] = 0 THEN "spawn" ELSE AfterSpawn(n), 0))
    /\ UNCHANGED <<node_vars, router, glue, written, initialized, faults, config>>

\* spawn_local_group up to Raft::new: the log store is opened, and a memory
\* log starts empty.
spawn_local_group(c) ==
    /\ At(c, "spawn")
    /\ Len(rafts) < MaxRafts
    /\ LET n == calls[c].node
           g == calls[c].group
       IN  /\ rafts' = Append(rafts, [node |-> n, group |-> g, alive |-> TRUE])
           /\ written' = IF Durable THEN written ELSE written \ {<<n, g>>}
           /\ calls' = [calls EXCEPT ![c] = Call(n, g, "insert", Len(rafts'))]
    /\ UNCHANGED <<groups, starts, stop, pending, router, glue, initialized, faults, config>>

Fault == faults < MaxFaults /\ faults' = faults + 1

\* FileLogStore::open or Raft::new fails: the error is returned.
spawn_error(c) ==
    /\ At(c, "spawn")
    /\ Fault
    /\ Return(c)
    /\ UNCHANGED <<node_vars, router, glue, written, initialized, config>>

\* The end of spawn_local_group: the group map takes the new Raft, whatever
\* it held.  The one it held keeps running, kept alive by its leader watch.
insert_group(c) ==
    /\ At(c, "insert")
    /\ LET n == calls[c].node
           g == calls[c].group
       IN  /\ groups' = [groups EXCEPT ![n][g] = calls[c].raft]
           /\ Proceed(c, Call(n, g, AfterSpawn(n), 0))
    /\ UNCHANGED <<rafts, starts, stop, pending, router, glue, written, initialized, faults, config>>

-----------------------------------------------------------------------------
(***************************************************************************)
(* ClusterGlue: the caller that finds every member ready, and is the first *)
(* to claim the group, initializes it.                                     *)
(***************************************************************************)
mark_ready_Before(c) ==
    /\ At(c, "mark_ready")
    /\ LET g == calls[c].group
       IN  /\ ready' = [ready EXCEPT ![g] = @ \cup {calls[c].node}]
           /\ IF Members \subseteq ready[g] THEN Goto(c, "claim") ELSE Return(c)
    /\ UNCHANGED <<node_vars, router, claimed_init, written, initialized, faults, config>>

mark_ready(c) ==
    /\ At(c, "mark_ready")
    /\ LET g == calls[c].group
       IN  /\ ready' = [ready EXCEPT ![g] = @ \cup {calls[c].node}]
           /\ IF Members \subseteq ready'[g] THEN Goto(c, "claim") ELSE Return(c)
    /\ UNCHANGED <<node_vars, router, claimed_init, written, initialized, faults, config>>

try_claim_init_NoClaim(c) ==
    /\ At(c, "claim")
    /\ Goto(c, "initialize")
    /\ UNCHANGED <<node_vars, router, glue, written, initialized, faults, config>>

try_claim_init(c) ==
    /\ At(c, "claim")
    /\ LET g == calls[c].group
       IN  /\ claimed_init' = claimed_init \cup {g}
           /\ IF g \in claimed_init THEN Return(c) ELSE Goto(c, "initialize")
    /\ UNCHANGED <<node_vars, router, ready, written, initialized, faults, config>>

\* try_initialize: an unknown group or a stopped Raft is an error, a log that
\* is not empty is NotAllowed, which counts as success.  The call ends in
\* every case, and nothing takes the claim back.
try_initialize(c) ==
    /\ At(c, "initialize")
    /\ LET n == calls[c].node
           g == calls[c].group
           r == groups[n][g]
           ok == r # 0 /\ rafts[r].alive /\ <<n, g>> \notin written
       IN  /\ written' = IF ok THEN written \cup {<<n, g>>} ELSE written
           /\ initialized' = IF ok THEN Append(initialized, <<n, g>>) ELSE initialized
    /\ Return(c)
    /\ UNCHANGED <<node_vars, router, glue, faults, config>>

-----------------------------------------------------------------------------
(***************************************************************************)
(* shutdown: the Rafts are collected under the lock, stopped one by one,   *)
(* then the map is cleared and the node unregistered.                      *)
(***************************************************************************)
InMap(n) == Range(groups[n]) \ {0}

shutdown_DropOnly(n) ==
    /\ stop[n] = "up"
    /\ Overlap \/ Quiet(n)
    /\ stop' = [stop EXCEPT ![n] = "stopping"]
    /\ UNCHANGED <<rafts, groups, starts, pending, router, glue, calls, written, initialized, faults, config>>

shutdown(n) ==
    /\ stop[n] = "up"
    /\ Overlap \/ Quiet(n)
    /\ stop' = [stop EXCEPT ![n] = "stopping"]
    /\ pending' = [pending EXCEPT ![n] = InMap(n)]
    /\ UNCHANGED <<rafts, groups, starts, router, glue, calls, written, initialized, faults, config>>

shutdown_raft(n, r) ==
    /\ stop[n] = "stopping"
    /\ r \in pending[n]
    /\ rafts' = [rafts EXCEPT ![r].alive = FALSE]
    /\ pending' = [pending EXCEPT ![n] = @ \ {r}]
    /\ UNCHANGED <<groups, starts, stop, router, glue, calls, written, initialized, faults, config>>

\* Joining the task of a Raft fails, which has ended in a panic: shutdown returns
\* at once, the other Rafts run on, the map keeps its groups and the node stays
\* registered.
shutdown_error(n, r) ==
    /\ stop[n] = "stopping"
    /\ r \in pending[n]
    /\ Fault
    /\ rafts' = [rafts EXCEPT ![r].alive = FALSE]
    /\ stop' = [stop EXCEPT ![n] = "up"]
    /\ pending' = [pending EXCEPT ![n] = {}]
    /\ UNCHANGED <<groups, starts, router, glue, calls, written, initialized, config>>

shutdown_clear(n) ==
    /\ stop[n] = "stopping"
    /\ pending[n] = {}
    /\ groups' = [groups EXCEPT ![n] = [g \in Groups |-> 0]]
    /\ stop' = [stop EXCEPT ![n] = "unregister"]
    /\ UNCHANGED <<rafts, starts, pending, router, glue, calls, written, initialized, faults, config>>

unregister_node(n) ==
    /\ stop[n] = "unregister"
    /\ stop' = [stop EXCEPT ![n] = "down"]
    /\ connected' = IF Grpc THEN connected ELSE connected \ {n}
    /\ UNCHANGED <<rafts, groups, starts, pending, peers, glue, calls, written, initialized, faults, config>>

(***************************************************************************)
(* External: a running Raft receives its log from a node that has one.     *)
(***************************************************************************)
Replicate(n, m, g) ==
    /\ {n, m} \subseteq Members
    /\ <<n, g>> \in written /\ <<m, g>> \notin written
    /\ \A k \in {n, m} : groups[k][g] # 0 /\ rafts[groups[k][g]].alive
    /\ Grpc \/ m \in connected
    /\ written' = written \cup {<<m, g>>}
    /\ UNCHANGED <<node_vars, router, glue, calls, initialized, faults, config>>

CallStep(c) ==
    \/ spawn_local_group(c) \/ spawn_error(c) \/ insert_group(c)
    \/ mark_ready(c) \/ try_claim_init(c) \/ try_initialize(c)

ShutdownStep(n) ==
    \/ \E r \in 1 .. MaxRafts : shutdown_raft(n, r) \/ shutdown_error(n, r)
    \/ shutdown_clear(n) \/ unregister_node(n)

Next ==
    \/ \E n \in Nodes : start_node(n) \/ shutdown(n) \/ ShutdownStep(n)
    \/ \E c \in Callers, n \in Nodes, g \in Groups : create_group(c, n, g)
    \/ \E c \in Callers : CallStep(c)
    \/ \E n, m \in Members, g \in Groups : Replicate(n, m, g)

Spec == Init /\ [][Next]_vars

-----------------------------------------------------------------------------
(***************************************************************************)
(* Properties.                                                             *)
(***************************************************************************)
Alive(n, g) == {r \in DOMAIN rafts : rafts[r].alive /\ rafts[r].node = n /\ rafts[r].group = g}

\* A node never runs two Rafts of one group: they would share one log
\* directory, each with its own copy of the log in memory (create_group's
\* check, shutdown and restart together).
OneRaftPerGroup ==
    \A n \in Nodes, g \in Groups : Cardinality(Alive(n, g)) <= 1

\* Once shutdown has returned, no Raft of the node runs, its groups are gone
\* and peers find it unreachable.
ShutdownIsComplete ==
    \A n \in Nodes : stop[n] = "down" =>
        /\ \A g \in Groups : Alive(n, g) = {} /\ groups[n][g] = 0
        /\ n \notin connected

\* In one process the group's membership is written by one node only, through
\* repeated calls and restarts of every node (ClusterGlue).
InitializedOnce ==
    ~Grpc => \A i, j \in DOMAIN initialized : initialized[i][2] = initialized[j][2] => i = j

\* When every member has created the group and no call for it is under way, the
\* membership has been initialized: some member's log holds it.  The claim of
\* ClusterGlue is never given back, so in one process this needs logs that
\* survive a restart, and calls that do not fail between claim and initialize.
CreatedIsInitialized ==
    (Grpc \/ Durable) /\ faults = 0 =>
        \A g \in Groups :
            (\A n \in Members : stop[n] = "up" /\ groups[n][g] # 0 /\ CallsFor(n, g) = {})
                => \E n \in Members : <<n, g>> \in written
=============================================================================
