----------------------- MODULE GroupLifecycle_proofs -----------------------
(***************************************************************************)
(* Proofs about the lifecycle of groups, for every number of nodes,        *)
(* groups, callers, starts and faults.                                     *)
(*                                                                         *)
(* TypeOK and InitializedOnce hold whatever calls overlap.  The other      *)
(* properties are about nodes on which a call does not overlap another for *)
(* the same group, or a shutdown: with two such calls at once, the lookup  *)
(* of create_group is stale when the Raft is spawned.                      *)
(*                                                                         *)
(* The last part is about the leader-change callbacks of the same          *)
(* MultiRaft.                                                              *)
(***************************************************************************)
EXTENDS GroupLifecycle, FiniteSetTheorems, SequenceTheorems, TLAPS

-----------------------------------------------------------------------------
(***************************************************************************)
(* The inductive invariant.                                                *)
(***************************************************************************)
RaftRecord == [node : Nodes, group : Groups, alive : BOOLEAN]
CallRecord(n) == [pc : CallPcs, node : Nodes, group : Groups, raft : 0 .. n]

Shapes ==
    /\ config \in Configs
    /\ rafts \in Seq(RaftRecord) /\ Len(rafts) <= MaxRafts
    /\ groups \in [Nodes -> [Groups -> 0 .. Len(rafts)]]
    /\ starts \in 0 .. MaxStarts
    /\ stop \in [Nodes -> {"down", "up", "stopping", "unregister"}]
    /\ pending \in [Nodes -> SUBSET (1 .. Len(rafts))]
    /\ connected \subseteq Nodes /\ peers \subseteq Nodes
    /\ ready \in [Groups -> SUBSET Members] /\ claimed_init \subseteq Groups
    /\ calls \in [Callers -> {Idle} \cup CallRecord(Len(rafts))]
    /\ written \subseteq Nodes \X Groups
    /\ initialized \in Seq(Members \X Groups)
    /\ faults \in 0 .. MaxFaults

\* A Raft is in the map under its own node and group, and so is the one that a
\* call is about to insert; a shutdown stops Rafts of its node; only members go on
\* after the spawn.
Owned ==
    /\ \A n \in Nodes : \A r \in pending[n] : rafts[r].node = n
    /\ \A n \in Nodes, g \in Groups :
           groups[n][g] # 0 => rafts[groups[n][g]].node = n /\ rafts[groups[n][g]].group = g
    /\ \A c \in Callers :
           /\ At(c, "insert") => /\ calls[c].raft # 0
                                 /\ rafts[calls[c].raft].node = calls[c].node
                                 /\ rafts[calls[c].raft].group = calls[c].group
           /\ calls[c].pc \in {"mark_ready", "claim", "initialize"} => calls[c].node \in Members

\* A node that is down is not registered; over gRPC none is.
Registered ==
    /\ Grpc => connected = {}
    /\ \A n \in connected : stop[n] # "down"

\* In one process, a group is initialized by the one caller that claimed it.
Claims ==
    ~Grpc =>
        /\ \A i \in DOMAIN initialized : initialized[i][2] \in claimed_init
        /\ \A c \in Callers : At(c, "initialize") =>
               /\ calls[c].group \in claimed_init
               /\ \A i \in DOMAIN initialized : initialized[i][2] # calls[c].group
        /\ \A c, d \in Callers :
               At(c, "initialize") /\ At(d, "initialize") /\ calls[c].group = calls[d].group => c = d
        /\ InitializedOnce

\* One call at a time works on a group of a node that is up, and finds the map as
\* its lookup left it.
Alone ==
    ~Overlap =>
        /\ \A c, d \in Callers :
               /\ calls[c] # Idle /\ calls[d] # Idle
               /\ calls[c].node = calls[d].node /\ calls[c].group = calls[d].group
               => c = d
        /\ \A c \in Callers : calls[c] # Idle =>
               /\ stop[calls[c].node] = "up"
               /\ groups[calls[c].node][calls[c].group] = 0 <=> calls[c].pc \in {"spawn", "insert"}

\* Then a Raft that runs is the one in the map, or about to be inserted; a
\* shutdown has the ones left to stop, and a node that is down has none.
Running ==
    ~Overlap =>
        /\ \A r \in DOMAIN rafts : rafts[r].alive =>
               \/ groups[rafts[r].node][rafts[r].group] = r
               \/ \E c \in Callers : At(c, "insert") /\ calls[c].raft = r
        /\ \A r \in DOMAIN rafts : rafts[r].alive =>
               \/ stop[rafts[r].node] = "up"
               \/ stop[rafts[r].node] = "stopping" /\ r \in pending[rafts[r].node]
        /\ \A n \in Nodes : stop[n] \in {"unregister", "down"} => \A g \in Groups : groups[n][g] = 0

\* Without failures, a group that members created is on its way to be initialized:
\* somebody is at the next step of it as long as it is not.
CallAt(pc, n, g) == \E c \in Callers : At(c, pc) /\ calls[c].node = n /\ calls[c].group = g

MapRuns == \A n \in Nodes, g \in Groups : stop[n] = "up" /\ groups[n][g] # 0 => rafts[groups[n][g]].alive

InsertRuns == \A c \in Callers : At(c, "insert") => rafts[calls[c].raft].alive

GrpcFormed ==
    Grpc => \A n \in Members, g \in Groups : stop[n] = "up" /\ groups[n][g] # 0 =>
                <<n, g>> \in written \/ CallAt("initialize", n, g)

MarkedReady ==
    ~Grpc => \A n \in Members, g \in Groups : groups[n][g] # 0 =>
                n \in ready[g] \/ CallAt("mark_ready", n, g)

ReadyClaimed ==
    ~Grpc => \A g \in Groups : Members \subseteq ready[g] =>
                g \in claimed_init \/ \E n \in Members : CallAt("claim", n, g)

ClaimedFormed ==
    ~Grpc /\ Durable => \A g \in claimed_init :
                \E n \in Members : <<n, g>> \in written \/ CallAt("initialize", n, g)

Formed ==
    ~Overlap /\ faults = 0 =>
        MapRuns /\ InsertRuns /\ GrpcFormed /\ MarkedReady /\ ReadyClaimed /\ ClaimedFormed

IInv == Shapes /\ Owned /\ Registered /\ Claims /\ Alone /\ Running /\ Formed

-----------------------------------------------------------------------------
(***************************************************************************)
(* Calls.                                                                  *)
(***************************************************************************)

\* A call that is under way has a step, a node and a group; Idle has none of the
\* steps.
LEMMA CallFacts ==
    ASSUME Shapes, NEW c \in Callers
    PROVE  /\ calls[c] # Idle => /\ calls[c] \in CallRecord(Len(rafts)) /\ calls[c].pc \in CallPcs
                                 /\ calls[c].node \in Nodes /\ calls[c].group \in Groups
                                 /\ calls[c].raft \in 0 .. Len(rafts)
           /\ calls[c].pc \in CallPcs => calls[c] # Idle
           /\ \A p \in CallPcs : At(c, p) => calls[c] # Idle
           /\ Idle.pc = "idle"
BY DEF Shapes, CallRecord, Idle, CallPcs, At

\* The node and the group of a Raft.
LEMMA RaftFacts ==
    ASSUME Shapes
    PROVE  /\ \A r \in DOMAIN rafts : rafts[r] \in RaftRecord /\ rafts[r].node \in Nodes /\ rafts[r].group \in Groups
           /\ DOMAIN rafts = 1 .. Len(rafts) /\ Len(rafts) \in Nat
<1>1. DOMAIN rafts = 1 .. Len(rafts) /\ Len(rafts) \in Nat /\ \A r \in DOMAIN rafts : rafts[r] \in RaftRecord
    BY DEF Shapes
<1>2. \A x \in RaftRecord : x.node \in Nodes /\ x.group \in Groups
    BY DEF RaftRecord
<1> QED BY <1>1, <1>2

\* A Raft that runs belongs to a node that is up, or that has it left to stop.
LEMMA RunningFacts ==
    ASSUME IInv, ~Overlap, NEW r \in DOMAIN rafts, rafts[r].alive
    PROVE  stop[rafts[r].node] = "up" \/ (stop[rafts[r].node] = "stopping" /\ r \in pending[rafts[r].node])
BY DEF IInv, Running

\* One call changes to k.
LEMMA OneCallMoves ==
    ASSUME NEW n \in Nat, NEW m \in Nat, n <= m, NEW old \in [Callers -> {Idle} \cup CallRecord(n)],
           NEW c \in Callers, NEW k \in {Idle} \cup CallRecord(m)
    PROVE  LET new == [old EXCEPT ![c] = k]
           IN  /\ new \in [Callers -> {Idle} \cup CallRecord(m)]
               /\ new[c] = k /\ \A d \in Callers \ {c} : new[d] = old[d]
<1>1. CallRecord(n) \subseteq CallRecord(m)
    BY DEF CallRecord
<1> QED BY <1>1

\* Goto changes the step and nothing else of the call.
LEMMA GotoMoves ==
    ASSUME Shapes, NEW c \in Callers, calls[c] # Idle, NEW pc \in CallPcs, Goto(c, pc)
    PROVE  LET k == Call(calls[c].node, calls[c].group, pc, calls[c].raft)
           IN  calls' = [calls EXCEPT ![c] = k] /\ k \in CallRecord(Len(rafts))
<1>1. calls[c] \in CallRecord(Len(rafts))
    BY CallFacts
<1>2. [calls[c] EXCEPT !.pc = pc] = Call(calls[c].node, calls[c].group, pc, calls[c].raft)
    BY <1>1 DEF CallRecord, Call
<1>3. calls' = [calls EXCEPT ![c] = [calls[c] EXCEPT !.pc = pc]]
    BY DEF Goto
<1>4. Call(calls[c].node, calls[c].group, pc, calls[c].raft) \in CallRecord(Len(rafts))
    BY <1>1 DEF CallRecord, Call
<1> QED BY <1>2, <1>3, <1>4

\* What a record of a call has.
LEMMA CallFields ==
    ASSUME NEW n, NEW g, NEW pc, NEW r
    PROVE  LET k == Call(n, g, pc, r)
           IN  /\ k.node = n /\ k.group = g /\ k.pc = pc /\ k.raft = r
               /\ pc # "idle" => k # Idle
BY DEF Call, Idle

-----------------------------------------------------------------------------
(***************************************************************************)
(* The steps.                                                              *)
(***************************************************************************)

\* A node is started: it was down, so it had no Raft and no call.
LEMMA StartKeeps ==
    ASSUME IInv, NEW n \in Nodes, start_node(n)
    PROVE  IInv'
<1>1. /\ stop[n] = "down" /\ starts < MaxStarts /\ starts' = starts + 1
      /\ \A c \in Callers : calls[c] # Idle => calls[c].node # n
      /\ stop' = [stop EXCEPT ![n] = "up"]
      /\ groups' = [groups EXCEPT ![n] = [g \in Groups |-> 0]]
      /\ UNCHANGED <<rafts, pending, ready, claimed_init, calls, written, initialized, faults, config>>
      /\ \/ Grpc /\ UNCHANGED <<connected, peers>>
         \/ ~Grpc /\ connected' = connected \cup {n} /\ peers' = peers \cup {n}
    BY DEF start_node, Quiet, CallsOn, glue, router, register_node
<1>2. (Grpc' <=> Grpc) /\ (Durable' <=> Durable) /\ Len(rafts) \in Nat /\ MaxStarts \in Nat
    BY <1>1, LifecycleAssumption DEF Grpc, Durable, IInv, Shapes
<1>3. /\ groups' \in [Nodes -> [Groups -> 0 .. Len(rafts)]]
      /\ \A g \in Groups : groups'[n][g] = 0
      /\ \A m \in Nodes \ {n} : groups'[m] = groups[m]
      /\ stop' \in [Nodes -> {"down", "up", "stopping", "unregister"}]
      /\ stop'[n] = "up" /\ \A m \in Nodes \ {n} : stop'[m] = stop[m]
    BY <1>1, <1>2 DEF IInv, Shapes
<1>4. Shapes'
    BY <1>1, <1>2, <1>3 DEF IInv, Shapes
<1>5. Owned'
    BY <1>1, <1>3 DEF IInv, Owned, At
<1>6. Registered'
    BY <1>1, <1>2, <1>3 DEF IInv, Shapes, Registered
<1>7. Claims'
    BY <1>1, <1>2 DEF IInv, Claims, InitializedOnce, At
<1>8. Alone'
    BY <1>1, <1>3, CallFacts DEF IInv, Alone
<1>9. Running'
    <2> SUFFICES ASSUME ~Overlap PROVE Running'
        BY DEF Running
    <2>1. ASSUME NEW r \in DOMAIN rafts, rafts[r].alive
          PROVE  rafts[r].node \in Nodes \ {n} /\ rafts[r].group \in Groups
        <3>1. rafts[r].node \in Nodes /\ rafts[r].group \in Groups
            BY RaftFacts DEF IInv
        <3>2. stop[rafts[r].node] # "down"
            BY <2>1, RunningFacts
        <3> QED BY <1>1, <3>1, <3>2
    <2> QED BY <1>1, <1>3, <2>1 DEF IInv, Running, At
<1>10. Formed'
    <2> SUFFICES ASSUME ~Overlap, faults = 0 PROVE Formed'
        BY <1>1 DEF Formed
    <2>1. Members \subseteq Nodes /\ \A p, m, h : CallAt(p, m, h)' <=> CallAt(p, m, h)
        BY <1>1 DEF Nodes, CallAt, At
    <2>2. MapRuns'
        BY <1>1, <1>3 DEF IInv, Formed, MapRuns
    <2>3. GrpcFormed'
        BY <1>1, <1>2, <1>3, <2>1 DEF IInv, Formed, GrpcFormed
    <2>4. MarkedReady'
        BY <1>1, <1>2, <1>3, <2>1 DEF IInv, Formed, MarkedReady
    <2>5. ReadyClaimed' /\ ClaimedFormed'
        BY <1>1, <1>2, <2>1 DEF IInv, Formed, ReadyClaimed, ClaimedFormed
    <2>6. InsertRuns'
        BY <1>1 DEF IInv, Formed, InsertRuns, At
    <2> QED BY <2>2, <2>3, <2>4, <2>5, <2>6 DEF Formed
<1> QED BY <1>4, <1>5, <1>6, <1>7, <1>8, <1>9, <1>10 DEF IInv

\* create_group has looked the group up.
LEMMA CreateKeeps ==
    ASSUME IInv, NEW c \in Callers, NEW n \in Nodes, NEW g \in Groups, create_group(c, n, g)
    PROVE  IInv'
<1> DEFINE pc == IF groups[n][g] = 0 THEN "spawn" ELSE AfterSpawn(n)
           k == IF pc = "return" THEN Idle ELSE Call(n, g, pc, 0)
<1>1. /\ calls[c] = Idle /\ stop[n] = "up"
      /\ ~Overlap => \A d \in Callers : calls[d] # Idle => calls[d].node # n \/ calls[d].group # g
      /\ calls' = [calls EXCEPT ![c] = k]
      /\ UNCHANGED <<rafts, groups, starts, stop, pending, connected, peers, ready, claimed_init,
                     written, initialized, faults, config>>
    <2>1. Call(n, g, pc, 0).pc = pc
        BY CallFields
    <2> QED BY <2>1 DEF create_group, Proceed, CallsFor, CallsOn, node_vars, glue, router
<1>2. (Grpc' <=> Grpc) /\ (Durable' <=> Durable) /\ Len(rafts) \in Nat
    BY <1>1 DEF Grpc, Durable, IInv, Shapes
<1>3. /\ pc \in {"spawn", "return", "mark_ready", "initialize"}
      /\ pc = "spawn" <=> groups[n][g] = 0
      /\ pc \in {"mark_ready", "initialize"} => n \in Members
      /\ pc = "initialize" => Grpc
    BY DEF AfterSpawn, Nodes
<1> HIDE DEF pc
<1>4. k = Idle \/ /\ k \in CallRecord(Len(rafts)) /\ k # Idle
                  /\ k.node = n /\ k.group = g /\ k.pc = pc
    <2>1. pc # "return" => Call(n, g, pc, 0) \in CallRecord(Len(rafts))
        BY <1>2, <1>3 DEF Call, CallRecord, CallPcs
    <2>2. pc # "idle"
        BY <1>3
    <2> QED BY <2>1, <2>2, CallFields
<1>5. k = Idle => k.pc = "idle" /\ pc = "return"
    <2>1. pc # "return" => k # Idle
        BY <1>3, CallFields
    <2> QED BY <2>1 DEF Idle
<1> HIDE DEF k
<1>6. /\ calls' \in [Callers -> {Idle} \cup CallRecord(Len(rafts))]
      /\ calls'[c] = k /\ \A d \in Callers \ {c} : calls'[d] = calls[d]
    BY <1>1, <1>2, <1>4, OneCallMoves DEF IInv, Shapes
<1>7. Shapes'
    BY <1>1, <1>6 DEF IInv, Shapes
<1>8. Owned'
    BY <1>1, <1>3, <1>4, <1>5, <1>6 DEF IInv, Owned, At
<1>9. Registered'
    BY <1>1, <1>2 DEF IInv, Registered
<1>10. Claims'
    BY <1>1, <1>2, <1>3, <1>4, <1>5, <1>6 DEF IInv, Claims, InitializedOnce, At
<1>11. Alone'
    BY <1>1, <1>3, <1>4, <1>5, <1>6 DEF IInv, Alone
<1>12. calls[c].pc = "idle"
    BY <1>1 DEF Idle
<1>13. Running'
    BY <1>1, <1>6, <1>12 DEF IInv, Running, At
<1>14. Formed'
    <2>1. ASSUME NEW p \in CallPcs, NEW m, NEW h, CallAt(p, m, h) PROVE CallAt(p, m, h)'
        BY <1>6, <1>12, <2>1 DEF CallAt, At, CallPcs
    <2>2. "initialize" \in CallPcs /\ "mark_ready" \in CallPcs /\ "claim" \in CallPcs
        BY DEF CallPcs
    <2>3. faults = 0 /\ ~Overlap => InsertRuns'
        BY <1>1, <1>3, <1>4, <1>5, <1>6 DEF IInv, Formed, InsertRuns, At
    <2> QED BY <1>1, <1>2, <2>1, <2>2, <2>3 DEF IInv, Formed, MapRuns, GrpcFormed, MarkedReady, ReadyClaimed,
            ClaimedFormed
<1> QED BY <1>7, <1>8, <1>9, <1>10, <1>11, <1>13, <1>14 DEF IInv

\* A call's Raft is created: the group had none on this node.
LEMMA SpawnKeeps ==
    ASSUME IInv, NEW c \in Callers, spawn_local_group(c)
    PROVE  IInv'
<1> DEFINE n == calls[c].node
           g == calls[c].group
           new == [node |-> n, group |-> g, alive |-> TRUE]
           k == Call(n, g, "insert", Len(rafts) + 1)
<1>1. /\ At(c, "spawn") /\ Len(rafts) < MaxRafts
      /\ rafts' = Append(rafts, new) /\ calls' = [calls EXCEPT ![c] = Call(n, g, "insert", Len(rafts'))]
      /\ written' = IF Durable THEN written ELSE written \ {<<n, g>>}
      /\ UNCHANGED <<groups, starts, stop, pending, connected, peers, ready, claimed_init,
                     initialized, faults, config>>
    BY DEF spawn_local_group, glue, router
<1>2. (Grpc' <=> Grpc) /\ (Durable' <=> Durable) /\ Len(rafts) \in Nat /\ MaxRafts \in Nat
    BY <1>1, LifecycleAssumption DEF Grpc, Durable, IInv, Shapes
<1>3. calls[c] # Idle /\ n \in Nodes /\ g \in Groups /\ calls[c].pc = "spawn"
    BY <1>1, CallFacts DEF IInv, CallPcs, At
<1>4. /\ rafts' \in Seq(RaftRecord) /\ Len(rafts') = Len(rafts) + 1
      /\ DOMAIN rafts = 1 .. Len(rafts) /\ DOMAIN rafts' = 1 .. (Len(rafts) + 1)
      /\ rafts'[Len(rafts) + 1] = new /\ \A r \in DOMAIN rafts : rafts'[r] = rafts[r]
    <2>1. new \in RaftRecord
        BY <1>3 DEF RaftRecord
    <2> HIDE DEF new
    <2> QED BY <1>1, <2>1 DEF IInv, Shapes
<1>5. /\ k \in CallRecord(Len(rafts) + 1) /\ k.node = n /\ k.group = g /\ k.pc = "insert"
      /\ k.raft = Len(rafts) + 1 /\ k # Idle
    <2>1. k \in CallRecord(Len(rafts) + 1)
        BY <1>2, <1>3 DEF Call, CallRecord, CallPcs
    <2> QED BY <2>1, CallFields
<1>6. new.node = n /\ new.group = g /\ new.alive
    OBVIOUS
<1> HIDE DEF k, new
<1>7. /\ calls' \in [Callers -> {Idle} \cup CallRecord(Len(rafts'))]
      /\ calls'[c] = k /\ \A d \in Callers \ {c} : calls'[d] = calls[d]
    <2>1. Len(rafts) + 1 \in Nat /\ Len(rafts) <= Len(rafts) + 1
        BY <1>2
    <2>2. calls \in [Callers -> {Idle} \cup CallRecord(Len(rafts))]
        BY DEF IInv, Shapes
    <2>3. calls' = [calls EXCEPT ![c] = k]
        BY <1>1, <1>4 DEF k
    <2> QED BY <1>2, <1>4, <1>5, <2>1, <2>2, <2>3, OneCallMoves
<1>8. Shapes'
    <2>1. 0 .. Len(rafts) \subseteq 0 .. Len(rafts') /\ 1 .. Len(rafts) \subseteq 1 .. Len(rafts')
        BY <1>2, <1>4
    <2>2. groups' \in [Nodes -> [Groups -> 0 .. Len(rafts')]]
        BY <1>1, <2>1 DEF IInv, Shapes
    <2>3. pending' \in [Nodes -> SUBSET (1 .. Len(rafts'))]
        BY <1>1, <2>1 DEF IInv, Shapes
    <2>4. Len(rafts') <= MaxRafts
        BY <1>1, <1>2, <1>4
    <2>5. written' \subseteq Nodes \X Groups
        BY <1>1 DEF IInv, Shapes
    <2> QED BY <1>1, <1>4, <1>7, <2>2, <2>3, <2>4, <2>5 DEF IInv, Shapes
<1>9. \A m \in Nodes, h \in Groups : groups[m][h] # 0 => groups[m][h] \in DOMAIN rafts
    BY <1>4 DEF IInv, Shapes
<1>10. Owned'
    <2>1. ASSUME NEW d \in Callers PROVE
          /\ At(d, "insert")' => /\ calls'[d].raft # 0
                                 /\ rafts'[calls'[d].raft].node = calls'[d].node
                                 /\ rafts'[calls'[d].raft].group = calls'[d].group
          /\ calls'[d].pc \in {"mark_ready", "claim", "initialize"} => calls'[d].node \in Members
        <3>1. CASE d = c
            BY <1>2, <1>4, <1>5, <1>6, <1>7, <3>1
        <3>2. CASE d # c
            <4>1. At(d, "insert") => calls[d].raft # 0 /\ calls[d].raft \in DOMAIN rafts
                BY <1>4, CallFacts DEF IInv, Owned, CallPcs
            <4> QED BY <1>4, <1>7, <3>2, <4>1 DEF IInv, Owned, At
        <3> QED BY <3>1, <3>2
    <2>2. \A m \in Nodes, h \in Groups :
              groups'[m][h] # 0 => rafts'[groups'[m][h]].node = m /\ rafts'[groups'[m][h]].group = h
        BY <1>1, <1>4, <1>9 DEF IInv, Owned
    <2>3. \A m \in Nodes : \A x \in pending'[m] : rafts'[x].node = m
        <3>1. \A m \in Nodes : \A x \in pending[m] : x \in DOMAIN rafts
            BY <1>4 DEF IInv, Shapes
        <3> QED BY <1>1, <1>4, <3>1 DEF IInv, Owned
    <2> QED BY <2>1, <2>2, <2>3 DEF Owned
<1>11. Registered'
    BY <1>1, <1>2 DEF IInv, Registered
<1>12. Claims'
    BY <1>1, <1>2, <1>5, <1>7 DEF IInv, Claims, InitializedOnce, At
<1>13. Alone'
    BY <1>1, <1>3, <1>5, <1>7 DEF IInv, Alone
<1>14. Running'
    <2> SUFFICES ASSUME ~Overlap PROVE Running'
        BY DEF Running
    <2>1. ASSUME NEW r \in DOMAIN rafts', rafts'[r].alive
          PROVE  /\ \/ groups[rafts'[r].node][rafts'[r].group] = r
                    \/ \E d \in Callers : At(d, "insert")' /\ calls'[d].raft = r
                 /\ \/ stop[rafts'[r].node] = "up"
                    \/ stop[rafts'[r].node] = "stopping" /\ r \in pending[rafts'[r].node]
        <3>1. CASE r = Len(rafts) + 1
            <4>1. stop[n] = "up"
                BY <1>3 DEF IInv, Alone
            <4> QED BY <1>4, <1>5, <1>6, <1>7, <3>1, <4>1 DEF At
        <3>2. CASE r # Len(rafts) + 1
            <4>1. r \in DOMAIN rafts /\ rafts'[r] = rafts[r]
                BY <1>2, <1>4, <3>2
            <4> QED BY <1>3, <1>7, <2>1, <4>1 DEF IInv, Running, At
        <3> QED BY <3>1, <3>2
    <2> QED BY <1>1, <2>1 DEF IInv, Running
<1>15. Formed'
    <2> SUFFICES ASSUME ~Overlap, faults = 0 PROVE Formed'
        BY <1>1 DEF Formed
    <2>1. groups[n][g] = 0
        BY <1>3 DEF IInv, Alone
    <2>2. \A m \in Nodes, h \in Groups : groups[m][h] # 0 =>
              /\ rafts'[groups[m][h]] = rafts[groups[m][h]]
              /\ <<m, h>> \in written => <<m, h>> \in written'
        BY <1>1, <1>4, <1>9, <2>1
    <2>3. Durable => written' = written
        BY <1>1
    <2>4. Members \subseteq Nodes
        BY DEF Nodes
    <2>5. \A p \in {"initialize", "mark_ready", "claim"} : \A m, h : CallAt(p, m, h) => CallAt(p, m, h)'
        <3> HIDE DEF n, g
        <3> QED BY <1>3, <1>7 DEF CallAt, At
    <2> HIDE DEF n, g
    <2>6. MapRuns'
        BY <1>1, <2>2 DEF IInv, Formed, MapRuns
    <2>7. GrpcFormed'
        BY <1>1, <1>2, <2>2, <2>4, <2>5 DEF IInv, Formed, GrpcFormed
    <2>8. MarkedReady' /\ ReadyClaimed'
        BY <1>1, <1>2, <2>5 DEF IInv, Formed, MarkedReady, ReadyClaimed
    <2>9. ClaimedFormed'
        BY <1>1, <1>2, <2>3, <2>5 DEF IInv, Formed, ClaimedFormed
    <2>10. InsertRuns'
        <3> SUFFICES ASSUME NEW d \in Callers, At(d, "insert")' PROVE rafts'[calls'[d].raft].alive
            BY DEF InsertRuns
        <3>1. CASE d = c
            BY <1>4, <1>5, <1>6, <1>7, <3>1
        <3>2. CASE d # c
            <4>1. At(d, "insert") /\ calls'[d] = calls[d]
                BY <1>7, <3>2 DEF At
            <4>2. calls[d].raft \in DOMAIN rafts
                BY <1>4, <4>1, CallFacts DEF IInv, Owned, CallPcs
            <4> QED BY <1>4, <4>1, <4>2 DEF IInv, Formed, InsertRuns
        <3> QED BY <3>1, <3>2
    <2> QED BY <2>6, <2>7, <2>8, <2>9, <2>10 DEF Formed
<1> QED BY <1>8, <1>10, <1>11, <1>12, <1>13, <1>14, <1>15 DEF IInv

\* What the later steps of create_group leave alone.
CallFrame == UNCHANGED <<rafts, groups, starts, stop, pending, connected, peers, config>>

\* A step of a call past its insert that only moves the call on to k, for the same
\* node and group, or ends it.
LEMMA CallMoveKeeps ==
    ASSUME IInv, NEW c \in Callers, calls[c].pc \in {"mark_ready", "claim", "initialize"}, CallFrame,
           NEW k, calls' = [calls EXCEPT ![c] = k],
           k = Idle \/ /\ k \in CallRecord(Len(rafts)) /\ k.node = calls[c].node /\ k.group = calls[c].group
                       /\ k.pc \in {"claim", "initialize"}
    PROVE  /\ calls' \in [Callers -> {Idle} \cup CallRecord(Len(rafts))]
           /\ calls'[c] = k /\ \A d \in Callers \ {c} : calls'[d] = calls[d]
           /\ \A d \in Callers : calls'[d] # Idle => /\ calls[d] # Idle /\ calls'[d].node = calls[d].node
                                                   /\ calls'[d].group = calls[d].group
           /\ (Grpc' <=> Grpc) /\ (Durable' <=> Durable)
           /\ Owned' /\ Registered' /\ Alone' /\ Running' /\ (InsertRuns => InsertRuns')
<1>1. UNCHANGED <<rafts, groups, starts, stop, pending, connected, peers, config>>
    BY DEF CallFrame
<1>2. /\ calls[c] # Idle /\ Len(rafts) \in Nat /\ calls[c].node \in Nodes /\ calls[c].group \in Groups
    BY CallFacts, RaftFacts DEF IInv, CallPcs
<1>3. /\ calls' \in [Callers -> {Idle} \cup CallRecord(Len(rafts))]
      /\ calls'[c] = k /\ \A d \in Callers \ {c} : calls'[d] = calls[d]
    BY <1>2, OneCallMoves DEF IInv, Shapes
<1>4. Idle.pc = "idle"
    BY DEF Idle
<1>5. \A d \in Callers : calls'[d] # Idle => /\ calls[d] # Idle /\ calls'[d].node = calls[d].node
                                           /\ calls'[d].group = calls[d].group
    BY <1>2, <1>3
<1>6. (Grpc' <=> Grpc) /\ (Durable' <=> Durable)
    BY <1>1 DEF Grpc, Durable
<1>7. Owned'
    <2>1. \A d \in Callers : At(d, "insert")' => calls'[d] = calls[d] /\ At(d, "insert")
        BY <1>3, <1>4 DEF At
    <2>2. \A d \in Callers : calls'[d].pc \in {"mark_ready", "claim", "initialize"} => calls'[d].node \in Members
        BY <1>3, <1>4 DEF IInv, Owned
    <2> QED BY <1>1, <2>1, <2>2 DEF IInv, Owned
<1>8. Registered'
    BY <1>1, <1>6 DEF IInv, Registered
<1>9. Alone'
    <2> SUFFICES ASSUME ~Overlap PROVE Alone'
        BY DEF Alone
    <2>1. \A d, e \in Callers :
              /\ calls'[d] # Idle /\ calls'[e] # Idle
              /\ calls'[d].node = calls'[e].node /\ calls'[d].group = calls'[e].group
              => d = e
        BY <1>5 DEF IInv, Alone
    <2>2. ASSUME NEW d \in Callers, calls'[d] # Idle
          PROVE  calls'[d].pc \in {"spawn", "insert"} <=> calls[d].pc \in {"spawn", "insert"}
        BY <1>3, <2>2
    <2> QED BY <1>1, <1>5, <2>1, <2>2 DEF IInv, Alone
<1>10. Running'
    <2>1. \A d \in Callers : At(d, "insert") => calls'[d] = calls[d]
        BY <1>3 DEF At
    <2> QED BY <1>1, <2>1 DEF IInv, Running, At
<1>11. InsertRuns => InsertRuns'
    <2>1. \A d \in Callers : At(d, "insert")' => calls'[d] = calls[d] /\ At(d, "insert")
        BY <1>3, <1>4 DEF At
    <2> QED BY <1>1, <2>1 DEF InsertRuns
<1> QED BY <1>3, <1>5, <1>6, <1>7, <1>8, <1>9, <1>10, <1>11

\* The other calls stay at their steps.
LEMMA OtherCallsStay ==
    ASSUME NEW c \in Callers, \A d \in Callers \ {c} : calls'[d] = calls[d]
    PROVE  \A p, m, h : CallAt(p, m, h) /\ ~(At(c, p) /\ calls[c].node = m /\ calls[c].group = h) => CallAt(p, m, h)'
BY DEF CallAt, At

\* mark_ready: the caller that completes the set goes on to claim the group.
LEMMA MarkKeeps ==
    ASSUME IInv, NEW c \in Callers, mark_ready(c)
    PROVE  IInv'
<1> DEFINE n == calls[c].node
           g == calls[c].group
           k == IF Members \subseteq ready'[g] THEN Call(n, g, "claim", calls[c].raft) ELSE Idle
<1>1. /\ calls[c].pc = "mark_ready" /\ ready' = [ready EXCEPT ![g] = @ \cup {n}]
      /\ CallFrame /\ UNCHANGED <<claimed_init, written, initialized, faults>>
    BY DEF mark_ready, At, CallFrame, node_vars, router
<1>2. calls[c] # Idle /\ n \in Nodes /\ g \in Groups /\ n \in Members
    BY <1>1, CallFacts DEF IInv, CallPcs, Owned
<1>3. /\ ready' \in [Groups -> SUBSET Members] /\ ready'[g] = ready[g] \cup {n}
      /\ \A h \in Groups : ready[h] \subseteq ready'[h] /\ (h # g => ready'[h] = ready[h])
    BY <1>1, <1>2 DEF IInv, Shapes
<1>4. /\ calls' = [calls EXCEPT ![c] = k]
      /\ k = Idle \/ /\ k \in CallRecord(Len(rafts)) /\ k.node = n /\ k.group = g /\ k.pc = "claim"
    <2>1. "claim" \in CallPcs
        BY DEF CallPcs
    <2>2. CASE Members \subseteq ready'[g]
        <3>1. Goto(c, "claim")
            BY <2>2 DEF mark_ready
        <3> QED BY <1>2, <2>1, <2>2, <3>1, GotoMoves, CallFields DEF IInv
    <2>3. CASE ~(Members \subseteq ready'[g])
        BY <2>3 DEF mark_ready, Return
    <2> QED BY <2>2, <2>3
<1>5. Members \subseteq ready'[g] => k # Idle /\ k.pc = "claim" /\ k.node = n /\ k.group = g
    BY CallFields
<1>6. Idle.pc = "idle"
    BY DEF Idle
<1> HIDE DEF k
<1>7. /\ calls' \in [Callers -> {Idle} \cup CallRecord(Len(rafts))]
      /\ calls'[c] = k /\ \A d \in Callers \ {c} : calls'[d] = calls[d]
      /\ (Grpc' <=> Grpc) /\ (Durable' <=> Durable)
      /\ Owned' /\ Registered' /\ Alone' /\ Running' /\ (InsertRuns => InsertRuns')
    BY <1>1, <1>4, CallMoveKeeps
<1>8. Shapes'
    BY <1>1, <1>3, <1>7 DEF IInv, Shapes, CallFrame
<1>9. Claims'
    <2>1. \A d \in Callers : At(d, "initialize")' => At(d, "initialize") /\ calls'[d] = calls[d]
        BY <1>4, <1>6, <1>7 DEF At
    <2> QED BY <1>1, <1>7, <2>1 DEF IInv, Claims, InitializedOnce
<1>10. Formed'
    <2> SUFFICES ASSUME ~Overlap, faults = 0 PROVE Formed'
        BY <1>1 DEF Formed
    <2>1. \A p, m, h : CallAt(p, m, h) /\ ~(p = "mark_ready" /\ n = m /\ g = h) => CallAt(p, m, h)'
        BY <1>1, <1>7, OtherCallsStay DEF At
    <2>2. MapRuns' /\ GrpcFormed' /\ ClaimedFormed'
        BY <1>1, <1>7, <2>1 DEF IInv, Formed, MapRuns, GrpcFormed, ClaimedFormed, CallFrame
    <2>3. MarkedReady'
        BY <1>1, <1>3, <1>7, <2>1 DEF IInv, Formed, MarkedReady, CallFrame
    <2>4. ReadyClaimed'
        <3>1. \A m, h : m = n /\ h = g /\ Members \subseteq ready'[h] => CallAt("claim", m, h)'
            BY <1>5, <1>7 DEF CallAt, At
        <3> SUFFICES ASSUME ~Grpc, NEW h \in Groups, Members \subseteq ready'[h]
                     PROVE  h \in claimed_init \/ \E m \in Members : CallAt("claim", m, h)'
            BY <1>1, <1>7 DEF ReadyClaimed
        <3>2. CASE h = g
            BY <1>2, <3>1, <3>2
        <3>3. CASE h # g
            <4>1. h \in claimed_init \/ \E m \in Members : CallAt("claim", m, h)
                BY <1>3, <3>3 DEF IInv, Formed, ReadyClaimed
            <4> QED BY <2>1, <4>1
        <3> QED BY <3>2, <3>3
    <2> QED BY <1>7, <2>2, <2>3, <2>4 DEF IInv, Formed
<1> QED BY <1>7, <1>8, <1>9, <1>10 DEF IInv

\* try_claim_init: the first caller takes the group and goes on to initialize it.
LEMMA ClaimKeeps ==
    ASSUME IInv, NEW c \in Callers, try_claim_init(c)
    PROVE  IInv'
<1> DEFINE n == calls[c].node
           g == calls[c].group
           k == IF g \in claimed_init THEN Idle ELSE Call(n, g, "initialize", calls[c].raft)
<1>1. /\ calls[c].pc = "claim" /\ claimed_init' = claimed_init \cup {g}
      /\ CallFrame /\ UNCHANGED <<ready, written, initialized, faults>>
    BY DEF try_claim_init, At, CallFrame, node_vars, router
<1>2. calls[c] # Idle /\ n \in Nodes /\ g \in Groups /\ n \in Members
    BY <1>1, CallFacts DEF IInv, CallPcs, Owned
<1>3. /\ calls' = [calls EXCEPT ![c] = k]
      /\ k = Idle \/ /\ k \in CallRecord(Len(rafts)) /\ k.node = n /\ k.group = g /\ k.pc = "initialize"
    <2>1. "initialize" \in CallPcs
        BY DEF CallPcs
    <2>2. CASE g \notin claimed_init
        <3>1. Goto(c, "initialize")
            BY <2>2 DEF try_claim_init
        <3> QED BY <1>2, <2>1, <2>2, <3>1, GotoMoves, CallFields DEF IInv
    <2>3. CASE g \in claimed_init
        BY <2>3 DEF try_claim_init, Return
    <2> QED BY <2>2, <2>3
<1>4. /\ g \notin claimed_init => k # Idle /\ k.pc = "initialize" /\ k.node = n /\ k.group = g
      /\ g \in claimed_init => k = Idle
    BY CallFields
<1>5. Idle.pc = "idle"
    BY DEF Idle
<1> HIDE DEF k
<1>6. /\ calls' \in [Callers -> {Idle} \cup CallRecord(Len(rafts))]
      /\ calls'[c] = k /\ \A d \in Callers \ {c} : calls'[d] = calls[d]
      /\ (Grpc' <=> Grpc) /\ (Durable' <=> Durable)
      /\ Owned' /\ Registered' /\ Alone' /\ Running' /\ (InsertRuns => InsertRuns')
    BY <1>1, <1>3, CallMoveKeeps
<1>7. Shapes'
    <2>1. claimed_init' \subseteq Groups
        BY <1>1, <1>2 DEF IInv, Shapes
    <2> QED BY <1>1, <1>6, <2>1 DEF IInv, Shapes, CallFrame
<1>8. Claims'
    <2> SUFFICES ASSUME ~Grpc PROVE Claims'
        BY <1>6 DEF Claims
    <2>1. \A d \in Callers : At(d, "initialize")' =>
              \/ d # c /\ At(d, "initialize") /\ calls'[d] = calls[d]
              \/ d = c /\ g \notin claimed_init /\ calls'[d].group = g
        BY <1>4, <1>5, <1>6 DEF At
    <2> HIDE DEF g, n
    <2> QED BY <1>1, <1>6, <2>1 DEF IInv, Claims, InitializedOnce
<1>9. Formed'
    <2> SUFFICES ASSUME ~Overlap, faults = 0 PROVE Formed'
        BY <1>1 DEF Formed
    <2>1. \A p, m, h : CallAt(p, m, h) /\ ~(p = "claim" /\ n = m /\ g = h) => CallAt(p, m, h)'
        BY <1>1, <1>6, OtherCallsStay DEF At
    <2>2. MapRuns' /\ GrpcFormed' /\ MarkedReady'
        BY <1>1, <1>6, <2>1 DEF IInv, Formed, MapRuns, GrpcFormed, MarkedReady, CallFrame
    <2>3. ReadyClaimed'
        BY <1>1, <1>6, <2>1 DEF IInv, Formed, ReadyClaimed
    <2>4. ClaimedFormed'
        <3>1. \A m, h : m = n /\ h = g /\ h \notin claimed_init => CallAt("initialize", m, h)'
            BY <1>4, <1>6 DEF CallAt, At
        <3> SUFFICES ASSUME ~Grpc, Durable, NEW h \in claimed_init'
                     PROVE  \E m \in Members : <<m, h>> \in written \/ CallAt("initialize", m, h)'
            BY <1>1, <1>6 DEF ClaimedFormed
        <3>2. CASE h \notin claimed_init
            BY <1>1, <1>2, <3>1, <3>2
        <3>3. CASE h \in claimed_init
            <4>1. \E m \in Members : <<m, h>> \in written \/ CallAt("initialize", m, h)
                BY <3>3 DEF IInv, Formed, ClaimedFormed
            <4> QED BY <2>1, <4>1
        <3> QED BY <3>2, <3>3
    <2> QED BY <1>6, <2>2, <2>3, <2>4 DEF IInv, Formed
<1> QED BY <1>6, <1>7, <1>8, <1>9 DEF IInv

\* try_initialize: on a node with the group in its map and no failure so far, the
\* log is not empty afterwards.
LEMMA InitializeKeeps ==
    ASSUME IInv, NEW c \in Callers, try_initialize(c)
    PROVE  IInv'
<1> DEFINE n == calls[c].node
           g == calls[c].group
           r == groups[n][g]
           ok == r # 0 /\ rafts[r].alive /\ <<n, g>> \notin written
<1>1. /\ calls[c].pc = "initialize" /\ calls' = [calls EXCEPT ![c] = Idle]
      /\ written' = IF ok THEN written \cup {<<n, g>>} ELSE written
      /\ initialized' = IF ok THEN Append(initialized, <<n, g>>) ELSE initialized
      /\ CallFrame /\ UNCHANGED <<ready, claimed_init, faults>>
    BY DEF try_initialize, At, Return, CallFrame, node_vars, router, glue
<1>2. calls[c] # Idle /\ n \in Nodes /\ g \in Groups /\ n \in Members
    BY <1>1, CallFacts DEF IInv, CallPcs, Owned
<1>3. Idle.pc = "idle"
    BY DEF Idle
<1>4. /\ calls' \in [Callers -> {Idle} \cup CallRecord(Len(rafts))]
      /\ calls'[c] = Idle /\ \A d \in Callers \ {c} : calls'[d] = calls[d]
      /\ (Grpc' <=> Grpc) /\ (Durable' <=> Durable)
      /\ Owned' /\ Registered' /\ Alone' /\ Running' /\ (InsertRuns => InsertRuns')
    BY <1>1, CallMoveKeeps
<1>5. ~Overlap /\ faults = 0 => <<n, g>> \in written'
    <2>1. ~Overlap => r # 0 /\ stop[n] = "up"
        BY <1>1, <1>2 DEF IInv, Alone
    <2>2. ~Overlap /\ faults = 0 => rafts[r].alive
        BY <1>2, <2>1 DEF IInv, Formed, MapRuns
    <2> QED BY <1>1, <2>1, <2>2
<1> HIDE DEF ok
<1>6. /\ written' \subseteq Nodes \X Groups /\ written \subseteq written'
      /\ initialized \in Seq(Members \X Groups) /\ initialized' \in Seq(Members \X Groups)
    <2>1. <<n, g>> \in Members \X Groups /\ <<n, g>> \in Nodes \X Groups
        BY <1>2
    <2> HIDE DEF n, g
    <2> QED BY <1>1, <2>1 DEF IInv, Shapes
<1>7. Shapes'
    BY <1>1, <1>4, <1>6 DEF IInv, Shapes, CallFrame
<1>8. Claims'
    <2> SUFFICES ASSUME ~Grpc PROVE Claims'
        BY <1>4 DEF Claims
    <2>1. \A d \in Callers : At(d, "initialize")' => d # c /\ At(d, "initialize") /\ calls'[d] = calls[d]
        BY <1>3, <1>4 DEF At
    <2>2. CASE ~ok
        BY <1>1, <1>4, <2>1, <2>2 DEF IInv, Claims, InitializedOnce
    <2>3. CASE ok
        <3>1. /\ Len(initialized) \in Nat /\ DOMAIN initialized = 1 .. Len(initialized)
              /\ DOMAIN initialized' = 1 .. (Len(initialized) + 1)
              /\ initialized'[Len(initialized) + 1] = <<n, g>>
              /\ \A i \in DOMAIN initialized : initialized'[i] = initialized[i]
            BY <1>1, <1>6, <2>3
        <3>2. <<n, g>>[2] = g
            OBVIOUS
        <3>3. g \in claimed_init /\ \A i \in DOMAIN initialized : initialized[i][2] # g
            BY <1>1 DEF IInv, Claims, At
        <3>4. \A d \in Callers : At(d, "initialize")' => calls'[d].group # g
            BY <1>1, <2>1 DEF IInv, Claims, At
        <3>5. \A i \in DOMAIN initialized' : i # Len(initialized) + 1 => i \in DOMAIN initialized
            BY <3>1
        <3> HIDE DEF n, g
        <3>6. \A i \in DOMAIN initialized' : initialized'[i][2] \in claimed_init
            BY <3>1, <3>2, <3>3, <3>5 DEF IInv, Claims
        <3>7. \A d \in Callers : At(d, "initialize")' =>
                  /\ calls'[d].group \in claimed_init
                  /\ \A i \in DOMAIN initialized' : initialized'[i][2] # calls'[d].group
            BY <2>1, <3>1, <3>2, <3>4, <3>5 DEF IInv, Claims
        <3>8. InitializedOnce'
            BY <3>1, <3>2, <3>3, <3>5 DEF IInv, Claims, InitializedOnce
        <3>9. \A d, e \in Callers :
                  At(d, "initialize")' /\ At(e, "initialize")' /\ calls'[d].group = calls'[e].group => d = e
            BY <2>1 DEF IInv, Claims
        <3> QED BY <1>1, <3>6, <3>7, <3>8, <3>9 DEF Claims
    <2> QED BY <2>2, <2>3
<1>9. Formed'
    <2> SUFFICES ASSUME ~Overlap, faults = 0 PROVE Formed'
        BY <1>1 DEF Formed
    <2>1. \A p, m, h : CallAt(p, m, h) /\ ~(p = "initialize" /\ n = m /\ g = h) => CallAt(p, m, h)'
        BY <1>1, <1>4, OtherCallsStay DEF At
    <2>2. MapRuns' /\ MarkedReady' /\ ReadyClaimed'
        BY <1>1, <1>4, <2>1 DEF IInv, Formed, MapRuns, ReadyClaimed, MarkedReady, CallFrame
    <2>3. \A m, h : <<m, h>> \in written \/ CallAt("initialize", m, h) =>
              <<m, h>> \in written' \/ CallAt("initialize", m, h)'
        BY <1>5, <1>6, <2>1
    <2>4. GrpcFormed'
        BY <1>1, <1>4, <2>3 DEF IInv, Formed, GrpcFormed, CallFrame
    <2>5. ClaimedFormed'
        BY <1>1, <1>4, <2>3 DEF IInv, Formed, ClaimedFormed
    <2> QED BY <1>4, <2>2, <2>4, <2>5 DEF IInv, Formed
<1> QED BY <1>4, <1>7, <1>8, <1>9 DEF IInv

\* A spawn that fails ends the call, which is a failure.
LEMMA SpawnErrorKeeps ==
    ASSUME IInv, NEW c \in Callers, spawn_error(c)
    PROVE  IInv'
<1>1. /\ calls[c].pc = "spawn" /\ calls' = [calls EXCEPT ![c] = Idle]
      /\ faults < MaxFaults /\ faults' = faults + 1
      /\ UNCHANGED <<rafts, groups, starts, stop, pending, connected, peers, ready, claimed_init,
                     written, initialized, config>>
    BY DEF spawn_error, At, Return, Fault, node_vars, router, glue
<1>2. calls[c] # Idle /\ Idle.pc = "idle" /\ Len(rafts) \in Nat
    BY <1>1, CallFacts, RaftFacts DEF IInv, CallPcs
<1>3. /\ calls' \in [Callers -> {Idle} \cup CallRecord(Len(rafts))]
      /\ calls'[c] = Idle /\ \A d \in Callers \ {c} : calls'[d] = calls[d]
    BY <1>1, <1>2, OneCallMoves DEF IInv, Shapes
<1>4. faults' \in 0 .. MaxFaults /\ faults' # 0
    BY <1>1, LifecycleAssumption DEF IInv, Shapes
<1>5. (Grpc' <=> Grpc)
    BY <1>1 DEF Grpc
<1>6. Shapes' /\ Registered'
    BY <1>1, <1>3, <1>4, <1>5 DEF IInv, Shapes, Registered
<1>7. Owned' /\ Claims' /\ Alone'
    BY <1>1, <1>2, <1>3, <1>5 DEF IInv, Owned, Claims, InitializedOnce, Alone, At
<1>8. Running'
    BY <1>1, <1>2, <1>3 DEF IInv, Running, At
<1>9. Formed'
    BY <1>4 DEF Formed
<1> QED BY <1>6, <1>7, <1>8, <1>9 DEF IInv

\* The end of spawn_local_group: the map takes the Raft.
LEMMA InsertKeeps ==
    ASSUME IInv, NEW c \in Callers, insert_group(c)
    PROVE  IInv'
<1>0. /\ calls[c].pc = "insert" /\ calls[c] # Idle
      /\ calls[c].node \in Nodes /\ calls[c].group \in Groups /\ calls[c].raft \in 1 .. Len(rafts)
    BY CallFacts, RaftFacts DEF IInv, Owned, CallPcs, insert_group, At
<1>1. PICK n \in Nodes, g \in Groups, r \in 1 .. Len(rafts) :
          n = calls[c].node /\ g = calls[c].group /\ r = calls[c].raft
    BY <1>0
<1> DEFINE k == IF AfterSpawn(n) = "return" THEN Idle ELSE Call(n, g, AfterSpawn(n), 0)
<1>2. /\ groups' = [groups EXCEPT ![n][g] = r] /\ calls' = [calls EXCEPT ![c] = k]
      /\ UNCHANGED <<rafts, starts, stop, pending, connected, peers, ready, claimed_init, written,
                     initialized, faults, config>>
    <2>1. Call(n, g, AfterSpawn(n), 0).pc = AfterSpawn(n)
        BY CallFields
    <2> QED BY <1>1, <2>1 DEF insert_group, Proceed, glue, router
<1>3. /\ AfterSpawn(n) \in {"return", "mark_ready", "initialize"}
      /\ AfterSpawn(n) # "return" => n \in Members
      /\ n \in Members => AfterSpawn(n) = IF Grpc THEN "initialize" ELSE "mark_ready"
      /\ (Grpc' <=> Grpc) /\ (Durable' <=> Durable) /\ Len(rafts) \in Nat
    BY <1>2, RaftFacts, LifecycleAssumption DEF AfterSpawn, Nodes, Grpc, Durable, IInv
<1>4. \/ k = Idle /\ n \notin Members
      \/ /\ k \in CallRecord(Len(rafts)) /\ k # Idle /\ n \in Members
         /\ k.node = n /\ k.group = g /\ k.pc = IF Grpc THEN "initialize" ELSE "mark_ready"
    <2> DEFINE pc == AfterSpawn(n)
    <2> HIDE DEF pc
    <2>1. pc # "return" => Call(n, g, pc, 0) \in CallRecord(Len(rafts))
        BY <1>3 DEF Call, CallRecord, CallPcs, pc
    <2>2. pc # "idle"
        BY <1>3 DEF pc
    <2>3. pc = "return" => n \notin Members
        BY <1>3 DEF pc
    <2> QED BY <1>3, <2>1, <2>2, <2>3, CallFields DEF pc
<1> HIDE DEF k
<1>5. Idle.pc = "idle"
    BY DEF Idle
<1>6. /\ calls' \in [Callers -> {Idle} \cup CallRecord(Len(rafts))]
      /\ calls'[c] = k /\ \A d \in Callers \ {c} : calls'[d] = calls[d]
    BY <1>2, <1>3, <1>4, OneCallMoves DEF IInv, Shapes
<1>7. /\ groups' \in [Nodes -> [Groups -> 0 .. Len(rafts)]] /\ groups'[n][g] = r
      /\ \A m \in Nodes, h \in Groups : m # n \/ h # g => groups'[m][h] = groups[m][h]
    BY <1>2, <1>3 DEF IInv, Shapes
<1>8. rafts[r].node = n /\ rafts[r].group = g /\ r # 0
    BY <1>0, <1>1 DEF IInv, Owned, At
<1>9. Shapes'
    BY <1>2, <1>6, <1>7 DEF IInv, Shapes
<1>10. Owned'
    <2>1. \A d \in Callers : At(d, "insert")' => calls'[d] = calls[d] /\ At(d, "insert")
        BY <1>4, <1>5, <1>6 DEF At
    <2>2. \A d \in Callers : calls'[d].pc \in {"mark_ready", "claim", "initialize"} => calls'[d].node \in Members
        BY <1>4, <1>5, <1>6 DEF IInv, Owned
    <2>3. ASSUME NEW m \in Nodes, NEW h \in Groups, groups'[m][h] # 0
          PROVE  rafts[groups'[m][h]].node = m /\ rafts[groups'[m][h]].group = h
        <3>1. CASE m = n /\ h = g
            BY <1>7, <1>8, <3>1
        <3>2. CASE m # n \/ h # g
            <4>1. groups'[m][h] = groups[m][h]
                BY <1>7, <3>2
            <4> QED BY <2>3, <4>1 DEF IInv, Owned
        <3> QED BY <3>1, <3>2
    <2> QED BY <1>2, <2>1, <2>2, <2>3 DEF IInv, Owned
<1>11. Registered'
    BY <1>2, <1>3 DEF IInv, Registered
<1>12. Claims'
    <2> SUFFICES ASSUME ~Grpc PROVE Claims'
        BY <1>3 DEF Claims
    <2>1. \A d \in Callers : At(d, "initialize")' => At(d, "initialize") /\ calls'[d] = calls[d]
        BY <1>4, <1>5, <1>6 DEF At
    <2> QED BY <1>2, <1>3, <2>1 DEF IInv, Claims, InitializedOnce
<1>13. Alone'
    <2> SUFFICES ASSUME ~Overlap PROVE Alone'
        BY DEF Alone
    <2>1. \A d \in Callers : calls'[d] # Idle => /\ calls[d] # Idle /\ calls'[d].node = calls[d].node
                                              /\ calls'[d].group = calls[d].group
        BY <1>0, <1>1, <1>4, <1>6
    <2>2. \A d, e \in Callers :
              /\ calls'[d] # Idle /\ calls'[e] # Idle
              /\ calls'[d].node = calls'[e].node /\ calls'[d].group = calls'[e].group
              => d = e
        BY <2>1 DEF IInv, Alone
    <2>3. ASSUME NEW d \in Callers, calls'[d] # Idle
          PROVE  /\ stop'[calls'[d].node] = "up"
                 /\ groups'[calls'[d].node][calls'[d].group] = 0 <=> calls'[d].pc \in {"spawn", "insert"}
        <3>1. CASE d = c
            BY <1>0, <1>1, <1>2, <1>4, <1>6, <1>7, <1>8, <2>3, <3>1 DEF IInv, Alone
        <3>2. CASE d # c
            <4>1. /\ calls[d].node # n \/ calls[d].group # g
                  /\ calls[d].node \in Nodes /\ calls[d].group \in Groups
                BY <1>0, <1>1, <2>1, <2>3, <3>2, CallFacts DEF IInv, Alone
            <4> QED BY <1>2, <1>6, <1>7, <2>1, <2>3, <3>2, <4>1 DEF IInv, Alone
        <3> QED BY <3>1, <3>2
    <2> QED BY <2>2, <2>3 DEF Alone
<1>14. Running'
    <2> SUFFICES ASSUME ~Overlap PROVE Running'
        BY DEF Running
    <2>1. groups[n][g] = 0 /\ stop[n] = "up"
        BY <1>0, <1>1 DEF IInv, Alone
    <2>2. ASSUME NEW x \in DOMAIN rafts, rafts[x].alive
          PROVE  \/ groups'[rafts[x].node][rafts[x].group] = x
                 \/ \E d \in Callers : At(d, "insert")' /\ calls'[d].raft = x
        <3>1. CASE groups[rafts[x].node][rafts[x].group] = x
            <4>1. x # 0 /\ rafts[x].node \in Nodes /\ rafts[x].group \in Groups
                BY RaftFacts DEF IInv
            <4> QED BY <1>7, <2>1, <3>1, <4>1
        <3>2. ASSUME NEW d \in Callers, At(d, "insert"), calls[d].raft = x
              PROVE  \/ groups'[rafts[x].node][rafts[x].group] = x
                     \/ At(d, "insert")' /\ calls'[d].raft = x
            BY <1>1, <1>6, <1>7, <1>8, <3>2 DEF At
        <3> QED BY <2>2, <3>1, <3>2 DEF IInv, Running
    <2>3. ASSUME NEW m \in Nodes, stop[m] \in {"unregister", "down"}, NEW h \in Groups
          PROVE  groups'[m][h] = 0
        <3>1. m # n
            BY <2>1, <2>3
        <3>2. groups'[m][h] = groups[m][h]
            BY <1>7, <3>1
        <3> QED BY <2>3, <3>2 DEF IInv, Running
    <2> QED BY <1>2, <2>2, <2>3 DEF IInv, Running
<1>15. Formed'
    <2> SUFFICES ASSUME ~Overlap, faults = 0 PROVE Formed'
        BY <1>2 DEF Formed
    <2>1. \A p, m, h : CallAt(p, m, h) /\ p # "insert" => CallAt(p, m, h)'
        BY <1>0, <1>6, OtherCallsStay DEF At
    <2>2. n \in Members => CallAt(IF Grpc THEN "initialize" ELSE "mark_ready", n, g)'
        BY <1>3, <1>4, <1>6 DEF CallAt, At
    <2>3. MapRuns'
        <3>1. rafts[r].alive
            BY <1>0, <1>1 DEF IInv, Formed, InsertRuns, At
        <3> QED BY <1>2, <1>7, <3>1 DEF IInv, Formed, MapRuns
    <2>4. GrpcFormed'
        BY <1>2, <1>3, <1>7, <2>1, <2>2 DEF IInv, Formed, GrpcFormed
    <2>5. MarkedReady'
        BY <1>2, <1>3, <1>7, <2>1, <2>2 DEF IInv, Formed, MarkedReady
    <2>6. ReadyClaimed' /\ ClaimedFormed'
        BY <1>2, <1>3, <2>1 DEF IInv, Formed, ReadyClaimed, ClaimedFormed
    <2>7. InsertRuns'
        <3>1. \A d \in Callers : At(d, "insert")' => calls'[d] = calls[d] /\ At(d, "insert")
            BY <1>4, <1>5, <1>6 DEF At
        <3> QED BY <1>2, <3>1 DEF IInv, Formed, InsertRuns
    <2> QED BY <2>3, <2>4, <2>5, <2>6, <2>7 DEF Formed
<1> QED BY <1>9, <1>10, <1>11, <1>12, <1>13, <1>14, <1>15 DEF IInv

\* What all steps of a shutdown leave alone.
StopFrame == UNCHANGED <<starts, peers, ready, claimed_init, calls, written, initialized, config>>

\* They keep what is about calls and claims, if the map and the Rafts keep their
\* owners.
LEMMA StopKeeps ==
    ASSUME IInv, StopFrame
    PROVE  /\ Claims' /\ (Grpc' <=> Grpc) /\ (Durable' <=> Durable)
           /\ calls' = calls /\ \A p, m, h : CallAt(p, m, h)' <=> CallAt(p, m, h)
           /\ \A c \in Callers : \A p : At(c, p)' <=> At(c, p)
           /\ groups' = groups /\ MarkedReady /\ ReadyClaimed /\ ClaimedFormed
                  => MarkedReady' /\ ReadyClaimed' /\ ClaimedFormed'
<1>1. UNCHANGED <<starts, peers, ready, claimed_init, calls, written, initialized, config>>
    BY DEF StopFrame
<1>2. (Grpc' <=> Grpc) /\ (Durable' <=> Durable)
    BY <1>1 DEF Grpc, Durable
<1>3. \A p, m, h : CallAt(p, m, h)' <=> CallAt(p, m, h)
    BY <1>1 DEF CallAt, At
<1>4. Claims'
    BY <1>1, <1>2 DEF IInv, Claims, InitializedOnce, At
<1>5. \A c \in Callers : \A p : At(c, p)' <=> At(c, p)
    BY <1>1 DEF At
<1> QED BY <1>1, <1>2, <1>3, <1>4, <1>5 DEF MarkedReady, ReadyClaimed, ClaimedFormed

\* shutdown has collected the Rafts of the map.
LEMMA ShutdownKeeps ==
    ASSUME IInv, NEW n \in Nodes, shutdown(n)
    PROVE  IInv'
<1>1. /\ stop[n] = "up" /\ StopFrame /\ UNCHANGED <<rafts, groups, connected, faults>>
      /\ ~Overlap => \A c \in Callers : calls[c] # Idle => calls[c].node # n
      /\ stop' = [stop EXCEPT ![n] = "stopping"] /\ pending' = [pending EXCEPT ![n] = InMap(n)]
    BY DEF shutdown, Quiet, CallsOn, StopFrame, glue, router
<1>2. /\ stop' \in [Nodes -> {"down", "up", "stopping", "unregister"}]
      /\ stop'[n] = "stopping" /\ \A m \in Nodes \ {n} : stop'[m] = stop[m]
    BY <1>1 DEF IInv, Shapes
<1>3. InMap(n) = {groups[n][g] : g \in Groups} \ {0}
    <2>1. groups[n] \in [Groups -> 0 .. Len(rafts)]
        BY DEF IInv, Shapes
    <2> QED BY <2>1 DEF InMap, Range
<1>4. /\ InMap(n) \subseteq 1 .. Len(rafts) /\ \A r \in InMap(n) : rafts[r].node = n
    <2>1. \A g \in Groups : groups[n][g] \in 0 .. Len(rafts) /\ Len(rafts) \in Nat
        BY RaftFacts DEF IInv, Shapes
    <2> QED BY <1>3, <2>1 DEF IInv, Owned
<1>5. /\ pending' \in [Nodes -> SUBSET (1 .. Len(rafts))]
      /\ pending'[n] = InMap(n) /\ \A m \in Nodes \ {n} : pending'[m] = pending[m]
    BY <1>1, <1>4 DEF IInv, Shapes
<1>6. Shapes'
    BY <1>1, <1>2, <1>5 DEF IInv, Shapes, StopFrame
<1>7. Owned'
    BY <1>1, <1>4, <1>5 DEF IInv, Owned, StopFrame, At
<1>8. Registered'
    BY <1>1, <1>2, StopKeeps DEF IInv, Shapes, Registered
<1>9. Alone'
    BY <1>1, <1>2, CallFacts DEF IInv, Alone, StopFrame
<1>10. Running'
    <2> SUFFICES ASSUME ~Overlap PROVE Running'
        BY DEF Running
    <2>1. ASSUME NEW r \in DOMAIN rafts, rafts[r].alive
          PROVE  stop'[rafts[r].node] = "up" \/ (stop'[rafts[r].node] = "stopping" /\ r \in pending'[rafts[r].node])
        <3>1. rafts[r].node \in Nodes /\ rafts[r].group \in Groups /\ r # 0
            BY RaftFacts DEF IInv
        <3>2. CASE rafts[r].node # n
            <4>1. stop[rafts[r].node] = "up" \/ (stop[rafts[r].node] = "stopping" /\ r \in pending[rafts[r].node])
                BY <2>1, RunningFacts
            <4> QED BY <1>2, <1>5, <3>1, <3>2, <4>1
        <3>3. CASE rafts[r].node = n
            <4>1. ASSUME NEW c \in Callers, At(c, "insert"), calls[c].raft = r PROVE FALSE
                BY <1>1, <3>3, <4>1, CallFacts DEF IInv, Owned, CallPcs
            <4>2. groups[n][rafts[r].group] = r
                BY <2>1, <3>3, <4>1 DEF IInv, Running
            <4> QED BY <1>2, <1>3, <1>5, <3>1, <3>3, <4>2
        <3> QED BY <3>2, <3>3
    <2>2. \A m \in Nodes : stop'[m] \in {"unregister", "down"} => stop[m] \in {"unregister", "down"}
        BY <1>2
    <2> QED BY <1>1, <2>1, <2>2, StopKeeps DEF IInv, Running
<1>11. Formed'
    <2> SUFFICES ASSUME ~Overlap, faults = 0 PROVE Formed'
        BY <1>1 DEF Formed
    <2>1. \A m \in Nodes : stop'[m] = "up" => stop[m] = "up"
        BY <1>2
    <2>2. MapRuns' /\ InsertRuns'
        BY <1>1, <2>1, StopKeeps DEF IInv, Formed, MapRuns, InsertRuns
    <2>3. GrpcFormed'
        BY <1>1, <2>1, StopKeeps DEF IInv, Formed, GrpcFormed, StopFrame, Nodes
    <2> QED BY <1>1, <2>2, <2>3, StopKeeps DEF IInv, Formed
<1> QED BY <1>1, <1>6, <1>7, <1>8, <1>9, <1>10, <1>11, StopKeeps DEF IInv

\* One Raft of a node that is stopping is stopped; when that fails the shutdown
\* ends, with the node up and the other Rafts running.
LEMMA ShutdownRaftKeeps ==
    ASSUME IInv, NEW n \in Nodes, NEW r, shutdown_raft(n, r) \/ shutdown_error(n, r)
    PROVE  IInv'
<1>1. /\ stop[n] = "stopping" /\ r \in pending[n] /\ StopFrame /\ UNCHANGED <<groups, connected>>
      /\ rafts' = [rafts EXCEPT ![r].alive = FALSE]
      /\ \/ /\ pending' = [pending EXCEPT ![n] = @ \ {r}] /\ UNCHANGED <<stop, faults>>
         \/ /\ pending' = [pending EXCEPT ![n] = {}] /\ stop' = [stop EXCEPT ![n] = "up"]
            /\ faults < MaxFaults /\ faults' = faults + 1
    BY DEF shutdown_raft, shutdown_error, Fault, StopFrame, glue, router
<1>2. /\ r \in DOMAIN rafts /\ rafts[r].node = n /\ DOMAIN rafts = 1 .. Len(rafts) /\ Len(rafts) \in Nat
    BY <1>1, RaftFacts DEF IInv, Shapes, Owned
<1> DEFINE x == [rafts[r] EXCEPT !.alive = FALSE]
<1>3. x \in RaftRecord /\ x.node = rafts[r].node /\ x.group = rafts[r].group /\ ~x.alive
    <2>1. rafts[r] \in RaftRecord
        BY <1>2, RaftFacts DEF IInv
    <2> QED BY <2>1 DEF RaftRecord
<1>4. rafts' = [rafts EXCEPT ![r] = x]
    BY <1>1
<1> HIDE DEF x
<1>5. /\ rafts' \in Seq(RaftRecord) /\ Len(rafts') = Len(rafts) /\ DOMAIN rafts' = DOMAIN rafts
      /\ rafts'[r] = x /\ \A y \in DOMAIN rafts : y # r => rafts'[y] = rafts[y]
    BY <1>2, <1>3, <1>4 DEF IInv, Shapes
<1>6. \A y \in DOMAIN rafts : /\ rafts'[y].node = rafts[y].node /\ rafts'[y].group = rafts[y].group
                              /\ rafts'[y].alive => rafts[y].alive /\ y # r
    BY <1>3, <1>5
<1>7. /\ pending' \in [Nodes -> SUBSET (1 .. Len(rafts))]
      /\ \A m \in Nodes : pending'[m] \subseteq pending[m] /\ (m # n => pending'[m] = pending[m])
    BY <1>1 DEF IInv, Shapes
<1>8. /\ stop' \in [Nodes -> {"down", "up", "stopping", "unregister"}]
      /\ \A m \in Nodes : m # n => stop'[m] = stop[m]
      /\ \/ stop'[n] = "stopping" /\ pending'[n] = pending[n] \ {r} /\ faults' = faults /\ stop' = stop
         \/ stop'[n] = "up" /\ faults' = faults + 1
    BY <1>1 DEF IInv, Shapes
<1>9. faults' \in 0 .. MaxFaults /\ (faults' = 0 => faults = 0 /\ stop' = stop)
    <2>1. faults \in Nat /\ faults <= MaxFaults /\ MaxFaults \in Nat
        BY LifecycleAssumption DEF IInv, Shapes
    <2> QED BY <1>1, <2>1
<1>10. \A m \in Nodes, h \in Groups : groups[m][h] # 0 => groups[m][h] \in DOMAIN rafts
    BY <1>2 DEF IInv, Shapes
<1>11. \A c \in Callers : At(c, "insert") => calls[c].raft \in DOMAIN rafts
    BY <1>2, CallFacts DEF IInv, Owned, CallPcs
<1>12. Shapes'
    BY <1>1, <1>5, <1>7, <1>8, <1>9 DEF IInv, Shapes, StopFrame
<1>13. Owned'
    <2>1. \A m \in Nodes : \A y \in pending'[m] : rafts'[y].node = m
        <3>1. \A m \in Nodes : \A y \in pending'[m] : y \in DOMAIN rafts
            BY <1>2, <1>7
        <3>2. \A m \in Nodes : \A y \in pending'[m] : y \in pending[m]
            BY <1>7
        <3>3. \A m \in Nodes : \A y \in pending[m] : rafts[y].node = m
            BY DEF IInv, Owned
        <3> QED BY <1>6, <3>1, <3>2, <3>3
    <2>2. \A m \in Nodes, h \in Groups : groups'[m][h] # 0 =>
              rafts'[groups'[m][h]].node = m /\ rafts'[groups'[m][h]].group = h
        BY <1>1, <1>6, <1>10 DEF IInv, Owned
    <2> QED BY <1>6, <1>11, <2>1, <2>2, StopKeeps, <1>1 DEF IInv, Owned
<1>14. Registered'
    BY <1>1, <1>8, StopKeeps DEF IInv, Shapes, Registered
<1>15. Alone'
    BY <1>1, <1>8, CallFacts DEF IInv, Alone, StopFrame
<1>16. Running'
    <2> SUFFICES ASSUME ~Overlap PROVE Running'
        BY DEF Running
    <2>1. ASSUME NEW y \in DOMAIN rafts, rafts'[y].alive
          PROVE  /\ \/ groups[rafts[y].node][rafts[y].group] = y
                    \/ \E c \in Callers : At(c, "insert") /\ calls[c].raft = y
                 /\ \/ stop'[rafts[y].node] = "up"
                    \/ stop'[rafts[y].node] = "stopping" /\ y \in pending'[rafts[y].node]
        <3>1. rafts[y].alive /\ y # r /\ rafts[y].node \in Nodes
            <4>1. rafts[y].node \in Nodes
                BY RaftFacts DEF IInv
            <4> QED BY <1>6, <2>1, <4>1, Zenon
        <3> QED BY <1>1, <1>7, <1>8, <3>1 DEF IInv, Running
    <2>2. \A m \in Nodes : stop'[m] \in {"unregister", "down"} => stop[m] \in {"unregister", "down"}
        BY <1>8
    <2> QED BY <1>1, <1>5, <1>6, <2>1, <2>2, StopKeeps DEF IInv, Running
<1>17. Formed'
    <2> SUFFICES ASSUME ~Overlap, faults' = 0 PROVE Formed'
        BY DEF Formed
    <2>1. faults = 0 /\ stop' = stop
        BY <1>9
    <2>2. MapRuns'
        <3>1. ASSUME NEW m \in Nodes, NEW h \in Groups, stop[m] = "up", groups[m][h] # 0
              PROVE  groups[m][h] # r
            BY <1>1, <1>2, <3>1 DEF IInv, Owned
        <3> QED BY <1>1, <1>5, <1>10, <2>1, <3>1 DEF IInv, Formed, MapRuns
    <2>3. InsertRuns'
        <3>1. ASSUME NEW c \in Callers, At(c, "insert") PROVE calls[c].raft # r
            BY <1>1, <1>2, <3>1, CallFacts DEF IInv, Owned, Alone, CallPcs
        <3> QED BY <1>1, <1>5, <1>11, <2>1, <3>1, StopKeeps DEF IInv, Formed, InsertRuns
    <2>4. GrpcFormed'
        BY <1>1, <2>1, StopKeeps DEF IInv, Formed, GrpcFormed, StopFrame
    <2> QED BY <1>1, <2>1, <2>2, <2>3, <2>4, StopKeeps DEF IInv, Formed
<1> QED BY <1>12, <1>13, <1>14, <1>15, <1>16, <1>17, <1>1, StopKeeps DEF IInv

\* With all its Rafts stopped, the node's map is cleared.
LEMMA ClearKeeps ==
    ASSUME IInv, NEW n \in Nodes, shutdown_clear(n)
    PROVE  IInv'
<1>1. /\ stop[n] = "stopping" /\ pending[n] = {} /\ StopFrame
      /\ groups' = [groups EXCEPT ![n] = [g \in Groups |-> 0]] /\ stop' = [stop EXCEPT ![n] = "unregister"]
      /\ UNCHANGED <<rafts, pending, connected, faults>>
    BY DEF shutdown_clear, StopFrame, glue, router
<1>2. /\ groups' \in [Nodes -> [Groups -> 0 .. Len(rafts)]]
      /\ \A g \in Groups : groups'[n][g] = 0
      /\ \A m \in Nodes \ {n} : groups'[m] = groups[m]
      /\ stop' \in [Nodes -> {"down", "up", "stopping", "unregister"}]
      /\ stop'[n] = "unregister" /\ \A m \in Nodes \ {n} : stop'[m] = stop[m]
    <2>1. Len(rafts) \in Nat
        BY RaftFacts DEF IInv
    <2> QED BY <1>1, <2>1 DEF IInv, Shapes
<1>3. Shapes'
    BY <1>1, <1>2 DEF IInv, Shapes, StopFrame
<1>4. Owned'
    BY <1>1, <1>2, StopKeeps DEF IInv, Owned
<1>5. Registered'
    BY <1>1, <1>2, StopKeeps DEF IInv, Shapes, Registered
<1>6. Alone'
    BY <1>1, <1>2, CallFacts DEF IInv, Alone, StopFrame
<1>7. Running'
    <2> SUFFICES ASSUME ~Overlap PROVE Running'
        BY DEF Running
    <2>1. ASSUME NEW r \in DOMAIN rafts, rafts[r].alive
          PROVE  rafts[r].node \in Nodes \ {n} /\ rafts[r].group \in Groups
        <3>1. rafts[r].node \in Nodes /\ rafts[r].group \in Groups
            BY RaftFacts DEF IInv
        <3>2. stop[rafts[r].node] = "up" \/ (stop[rafts[r].node] = "stopping" /\ r \in pending[rafts[r].node])
            BY <2>1, RunningFacts
        <3> QED BY <1>1, <3>1, <3>2
    <2>2. \A m \in Nodes : stop'[m] \in {"unregister", "down"} => \A g \in Groups : groups'[m][g] = 0
        BY <1>2 DEF IInv, Running
    <2>3. ASSUME NEW r \in DOMAIN rafts, rafts[r].alive
          PROVE  /\ groups'[rafts[r].node][rafts[r].group] = groups[rafts[r].node][rafts[r].group]
                 /\ stop'[rafts[r].node] = stop[rafts[r].node]
        BY <1>2, <2>1, <2>3
    <2> QED BY <1>1, <2>2, <2>3, StopKeeps DEF IInv, Running
<1>8. Formed'
    <2> SUFFICES ASSUME ~Overlap, faults = 0 PROVE Formed'
        BY <1>1 DEF Formed
    <2>1. Members \subseteq Nodes
        BY DEF Nodes
    <2>2. MapRuns' /\ InsertRuns'
        BY <1>1, <1>2, StopKeeps DEF IInv, Formed, MapRuns, InsertRuns
    <2>3. GrpcFormed'
        BY <1>1, <1>2, <2>1, StopKeeps DEF IInv, Formed, GrpcFormed, StopFrame
    <2>4. MarkedReady'
        BY <1>1, <1>2, <2>1, StopKeeps DEF IInv, Formed, MarkedReady, StopFrame
    <2>5. ReadyClaimed' /\ ClaimedFormed'
        BY <1>1, StopKeeps DEF IInv, Formed, ReadyClaimed, ClaimedFormed, StopFrame
    <2> QED BY <2>2, <2>3, <2>4, <2>5 DEF Formed
<1> QED BY <1>1, <1>3, <1>4, <1>5, <1>6, <1>7, <1>8, StopKeeps DEF IInv

\* The node is unregistered and down.
LEMMA UnregisterKeeps ==
    ASSUME IInv, NEW n \in Nodes, unregister_node(n)
    PROVE  IInv'
<1>1. /\ stop[n] = "unregister" /\ StopFrame /\ stop' = [stop EXCEPT ![n] = "down"]
      /\ connected' = IF Grpc THEN connected ELSE connected \ {n}
      /\ UNCHANGED <<rafts, groups, pending, faults>>
    BY DEF unregister_node, StopFrame, glue
<1>2. /\ stop' \in [Nodes -> {"down", "up", "stopping", "unregister"}]
      /\ stop'[n] = "down" /\ \A m \in Nodes \ {n} : stop'[m] = stop[m]
    BY <1>1 DEF IInv, Shapes
<1>3. Shapes'
    BY <1>1, <1>2 DEF IInv, Shapes, StopFrame
<1>4. Owned'
    BY <1>1, StopKeeps DEF IInv, Owned
<1>5. Registered'
    BY <1>1, <1>2, StopKeeps DEF IInv, Shapes, Registered
<1>6. Alone'
    BY <1>1, <1>2, CallFacts DEF IInv, Alone, StopFrame
<1>7. Running'
    <2> SUFFICES ASSUME ~Overlap PROVE Running'
        BY DEF Running
    <2>1. ASSUME NEW r \in DOMAIN rafts, rafts[r].alive
          PROVE  rafts[r].node \in Nodes \ {n} /\ rafts[r].group \in Groups
        <3>1. rafts[r].node \in Nodes /\ rafts[r].group \in Groups
            BY RaftFacts DEF IInv
        <3>2. stop[rafts[r].node] = "up" \/ (stop[rafts[r].node] = "stopping" /\ r \in pending[rafts[r].node])
            BY <2>1, RunningFacts
        <3> QED BY <1>1, <3>1, <3>2
    <2> QED BY <1>1, <1>2, <2>1, StopKeeps DEF IInv, Running
<1>8. Formed'
    <2> SUFFICES ASSUME ~Overlap, faults = 0 PROVE Formed'
        BY <1>1 DEF Formed
    <2>1. \A m \in Nodes : stop'[m] = "up" => stop[m] = "up"
        BY <1>2
    <2>2. MapRuns' /\ InsertRuns'
        BY <1>1, <2>1, StopKeeps DEF IInv, Formed, MapRuns, InsertRuns
    <2>3. GrpcFormed'
        BY <1>1, <2>1, StopKeeps DEF IInv, Formed, GrpcFormed, StopFrame, Nodes
    <2> QED BY <1>1, <2>2, <2>3, StopKeeps DEF IInv, Formed
<1> QED BY <1>1, <1>3, <1>4, <1>5, <1>6, <1>7, <1>8, StopKeeps DEF IInv

\* A log is filled by replication.
LEMMA ReplicateKeeps ==
    ASSUME IInv, NEW n \in Members, NEW m \in Members, NEW g \in Groups, Replicate(n, m, g)
    PROVE  IInv'
<1>1. /\ written' = written \cup {<<m, g>>}
      /\ UNCHANGED <<rafts, groups, starts, stop, pending, connected, peers, ready, claimed_init, calls,
                     initialized, faults, config>>
    BY DEF Replicate, node_vars, glue, router
<1>2. written \subseteq written' /\ written' \subseteq Nodes \X Groups
    BY <1>1 DEF IInv, Shapes, Nodes
<1>3. (Grpc' <=> Grpc) /\ (Durable' <=> Durable)
    BY <1>1 DEF Grpc, Durable
<1>4. Shapes' /\ Owned' /\ Registered' /\ Claims' /\ Alone' /\ Running'
    BY <1>1, <1>2, <1>3 DEF IInv, Shapes, Owned, Registered, Claims, InitializedOnce, Alone, Running, At
<1>5. Formed'
    BY <1>1, <1>2, <1>3 DEF IInv, Formed, MapRuns, InsertRuns, GrpcFormed, MarkedReady, ReadyClaimed,
        ClaimedFormed, CallAt, At
<1> QED BY <1>4, <1>5 DEF IInv

-----------------------------------------------------------------------------
(***************************************************************************)
(* The invariant, and what follows from it.                                *)
(***************************************************************************)

\* Before the first node starts, nothing is there.
LEMMA IInvInit ==
    ASSUME Init
    PROVE  IInv
<1>1. /\ rafts = <<>> /\ Len(rafts) = 0 /\ DOMAIN rafts = {} /\ rafts \in Seq(RaftRecord)
      /\ initialized = <<>> /\ DOMAIN initialized = {} /\ initialized \in Seq(Members \X Groups)
      /\ MaxRafts \in Nat /\ MaxStarts \in Nat /\ MaxFaults \in Nat /\ Members # {}
    BY LifecycleAssumption DEF Init
<1>2. /\ \A n \in Nodes, g \in Groups : groups[n][g] = 0
      /\ \A c \in Callers : calls[c] = Idle /\ calls[c].pc = "idle"
      /\ \A n \in Nodes : pending[n] = {}
      /\ \A g \in Groups : ready[g] = {}
      /\ connected = {} /\ claimed_init = {}
    BY DEF Init, Idle
<1>3. Shapes
    BY <1>1 DEF Init, Shapes
<1>4. Owned /\ Registered /\ Alone
    BY <1>2 DEF Owned, Registered, Alone, At
<1>5. Claims
    BY <1>1, <1>2 DEF Claims, InitializedOnce, At
<1>6. Running
    BY <1>1, <1>2 DEF Running
<1>7. Formed
    BY <1>1, <1>2, Members \subseteq Nodes DEF Formed, MapRuns, InsertRuns, GrpcFormed, MarkedReady, ReadyClaimed,
        ClaimedFormed, At, Nodes
<1> QED BY <1>3, <1>4, <1>5, <1>6, <1>7 DEF IInv

\* Every step keeps it.
LEMMA IInvStep ==
    ASSUME IInv, [Next]_vars
    PROVE  IInv'
<1>1. ASSUME NEW n \in Nodes, start_node(n) \/ shutdown(n) PROVE IInv'
    BY <1>1, StartKeeps, ShutdownKeeps
<1>2. ASSUME NEW n \in Nodes, ShutdownStep(n) PROVE IInv'
    BY <1>2, ShutdownRaftKeeps, ClearKeeps, UnregisterKeeps DEF ShutdownStep
<1>3. ASSUME NEW c \in Callers, NEW n \in Nodes, NEW g \in Groups, create_group(c, n, g) PROVE IInv'
    BY <1>3, CreateKeeps
<1>4. ASSUME NEW c \in Callers, CallStep(c) PROVE IInv'
    BY <1>4, SpawnKeeps, SpawnErrorKeeps, InsertKeeps, MarkKeeps, ClaimKeeps, InitializeKeeps DEF CallStep
<1>5. ASSUME NEW n \in Members, NEW m \in Members, NEW g \in Groups, Replicate(n, m, g) PROVE IInv'
    BY <1>5, ReplicateKeeps
<1>6. CASE UNCHANGED vars
    <2>1. UNCHANGED <<rafts, groups, starts, stop, pending, connected, peers, ready, claimed_init, calls,
                      written, initialized, faults, config>>
        BY <1>6 DEF vars, node_vars, router, glue
    <2>2. (Grpc' <=> Grpc) /\ (Durable' <=> Durable)
        BY <2>1 DEF Grpc, Durable
    <2>3. Shapes' /\ Owned' /\ Registered' /\ Claims' /\ Alone' /\ Running'
        BY <2>1, <2>2 DEF IInv, Shapes, Owned, Registered, Claims, InitializedOnce, Alone, Running, At
    <2>4. Formed'
        BY <2>1, <2>2 DEF IInv, Formed, MapRuns, InsertRuns, GrpcFormed, MarkedReady, ReadyClaimed,
            ClaimedFormed, CallAt, At
    <2> QED BY <2>3, <2>4 DEF IInv
<1> QED BY <1>1, <1>2, <1>3, <1>4, <1>5, <1>6 DEF Next

\* So it holds in every reachable state.
LEMMA Invariance == Spec => []IInv
<1>1. Init => IInv
    BY IInvInit
<1>2. IInv /\ [Next]_vars => IInv'
    BY IInvStep
<1> QED BY <1>1, <1>2, PTL DEF Spec

\* The maps, calls and logs of all nodes have their types, and a Raft is in the map
\* under its own node and group, whatever calls overlap.
THEOREM TypeCorrect == Spec => []TypeOK
<1>1. IInv => TypeOK
    <2> SUFFICES ASSUME IInv PROVE TypeOK
        OBVIOUS
    <2>1. \A c \in Callers : calls[c] # Idle => calls[c].pc \in CallPcs /\ calls[c].raft \in 0 .. Len(rafts)
        BY CallFacts DEF IInv
    <2> QED BY <2>1 DEF IInv, Shapes, Owned, TypeOK, RaftRecord
<1> QED BY <1>1, Invariance, PTL

\* In one process a group is initialized at most once, through repeated and
\* overlapping calls of create_group and restarts of every node (ClusterGlue).
THEOREM InitializedAtMostOnce == Spec => []InitializedOnce
<1>1. IInv => InitializedOnce
    BY DEF IInv, Claims, InitializedOnce
<1> QED BY <1>1, Invariance, PTL

\* Where calls for one group of a node do not overlap, it never runs two Rafts of the
\* group, through create_group for any groups at once, failed spawns, failed
\* shutdowns and restarts.
THEOREM OneRaft == Spec => [](~Overlap => OneRaftPerGroup)
<1>1. IInv => (~Overlap => OneRaftPerGroup)
    <2> SUFFICES ASSUME IInv, ~Overlap, NEW n \in Nodes, NEW g \in Groups
                 PROVE  Cardinality(Alive(n, g)) <= 1
        BY DEF OneRaftPerGroup
    <2>1. ASSUME NEW r \in Alive(n, g), NEW x \in Alive(n, g) PROVE r = x
        <3> DEFINE Held(y) == \E c \in Callers : At(c, "insert") /\ calls[c].raft = y
        <3>1. ASSUME NEW y \in Alive(n, g)
              PROVE  groups[n][g] = y \/ (groups[n][g] = 0 /\ Held(y))
            <4>1. y \in DOMAIN rafts /\ rafts[y].alive /\ rafts[y].node = n /\ rafts[y].group = g
                BY DEF Alive
            <4>2. CASE groups[n][g] # y
                <5>1. PICK c \in Callers : At(c, "insert") /\ calls[c].raft = y
                    BY <4>1, <4>2 DEF IInv, Running
                <5>2. calls[c].node = n /\ calls[c].group = g /\ calls[c] # Idle /\ calls[c].pc = "insert"
                    BY <4>1, <5>1, CallFacts DEF IInv, Owned, CallPcs, At
                <5>3. groups[n][g] = 0
                    BY <5>2 DEF IInv, Alone
                <5> QED BY <5>1, <5>3
            <4> QED BY <4>2, Zenon
        <3>2. ASSUME NEW y \in Alive(n, g) PROVE y # 0 /\ rafts[y].node = n /\ rafts[y].group = g
            BY RaftFacts DEF IInv, Alive
        <3>3. ASSUME NEW c \in Callers, NEW d \in Callers, At(c, "insert"), At(d, "insert"),
                     calls[c].raft = r, calls[d].raft = x
              PROVE  c = d
            <4>1. /\ calls[c].node = n /\ calls[c].group = g /\ calls[c] # Idle
                  /\ calls[d].node = n /\ calls[d].group = g /\ calls[d] # Idle
                BY <3>2, <3>3, CallFacts DEF IInv, Owned, CallPcs
            <4> QED BY <4>1 DEF IInv, Alone
        <3> QED BY <3>1, <3>2, <3>3
    <2>2. CASE Alive(n, g) = {}
        BY <2>2, FS_EmptySet
    <2>3. CASE Alive(n, g) # {}
        <3>1. PICK r \in Alive(n, g) : TRUE
            BY <2>3
        <3>2. Alive(n, g) = {r}
            BY <2>1, <3>1
        <3>3. Cardinality({r}) = 1
            BY FS_Singleton, Zenon
        <3> QED BY <3>2, <3>3
    <2> QED BY <2>2, <2>3
<1> QED BY <1>1, Invariance, PTL

\* Then also a shutdown that has returned leaves nothing behind: no Raft of the node
\* runs, its map is empty and the router does not know it.
THEOREM ShutdownComplete == Spec => [](~Overlap => ShutdownIsComplete)
<1>1. IInv => (~Overlap => ShutdownIsComplete)
    <2> SUFFICES ASSUME IInv, ~Overlap, NEW n \in Nodes, stop[n] = "down"
                 PROVE  /\ \A g \in Groups : Alive(n, g) = {} /\ groups[n][g] = 0
                        /\ n \notin connected
        BY DEF ShutdownIsComplete
    <2>1. ASSUME NEW g \in Groups, NEW r \in Alive(n, g) PROVE FALSE
        BY DEF IInv, Running, Alive
    <2> QED BY <2>1 DEF IInv, Running, Registered
<1> QED BY <1>1, Invariance, PTL

\* And a group that every member has created, with no failure and no call for it
\* under way, has its membership in the log of a member (over gRPC, or with logs that
\* survive a restart).
THEOREM CreatedFormed == Spec => [](~Overlap => CreatedIsInitialized)
<1>1. IInv => (~Overlap => CreatedIsInitialized)
    <2> SUFFICES ASSUME IInv, ~Overlap, Grpc \/ Durable, faults = 0, NEW g \in Groups,
                        \A n \in Members : stop[n] = "up" /\ groups[n][g] # 0 /\ CallsFor(n, g) = {}
                 PROVE  \E n \in Members : <<n, g>> \in written
        BY DEF CreatedIsInitialized
    <2>1. \A p \in CallPcs : \A n \in Members : ~CallAt(p, n, g)
        BY CallFacts DEF IInv, CallAt, CallsFor, CallsOn
    <2>2. "initialize" \in CallPcs /\ "mark_ready" \in CallPcs /\ "claim" \in CallPcs
        BY DEF CallPcs
    <2>3. CASE Grpc
        BY <2>1, <2>2, <2>3, LifecycleAssumption DEF IInv, Formed, GrpcFormed
    <2>4. CASE ~Grpc
        <3>1. \A n \in Members : n \in ready[g]
            BY <2>1, <2>2, <2>4 DEF IInv, Formed, MarkedReady
        <3>2. g \in claimed_init
            BY <2>1, <2>2, <2>4, <3>1 DEF IInv, Formed, ReadyClaimed
        <3> QED BY <2>1, <2>2, <2>4, <3>2 DEF IInv, Formed, ClaimedFormed
    <2> QED BY <2>3, <2>4
<1> QED BY <1>1, Invariance, PTL
-----------------------------------------------------------------------------
(***************************************************************************)
(* The leader-change callbacks of the same MultiRaft (LeaderWatch), for    *)
(* every number of groups, callbacks and changes of leader.  LeaderWatch   *)
(* keeps one node and its own view of the group map, so it is instantiated *)
(* with variables of its own.                                              *)
(*                                                                         *)
(* The argument is that whatever a callback was told last, some watcher    *)
(* of the group remembers: it is the last leader that watcher read, or the *)
(* watcher is on its way to call the callback again.                       *)
(***************************************************************************)
CONSTANTS Callbacks, Leaders, None, MaxChanges
VARIABLES leader, version, group_map, unwatched, leader_cbs, registering, watcher, told

Watch == INSTANCE LeaderWatch WITH groups <- group_map

WatchTasks ==
    [pc : {"read", "clone", "call", "wait"}, last : Watch!OptLeader \cup {Watch!Never},
     todo : SUBSET Callbacks, seen : Nat]

WatchShapes ==
    /\ leader \in [Groups -> Watch!OptLeader]
    /\ version \in [Groups -> 0 .. MaxChanges]
    /\ group_map \subseteq Groups /\ unwatched \subseteq group_map
    /\ registering \subseteq leader_cbs /\ leader_cbs \subseteq Callbacks
    /\ watcher \in [Watch!Watchers -> {Watch!Absent} \cup WatchTasks]
    /\ told \in [Callbacks -> [Groups -> Watch!OptLeader \cup {Watch!Never}]]

\* No watcher before its spawn.
Unspawned ==
    /\ \A g \in Groups : g \in unwatched \/ g \notin group_map => watcher[<<g, None>>] = Watch!Absent
    /\ \A g \in Groups, c \in Callbacks :
           c \in registering \/ c \notin leader_cbs => watcher[<<g, c>>] = Watch!Absent

\* A watcher that has seen the newest version has read the newest leader.
Honest(w) ==
    watcher[w] # Watch!Absent =>
        /\ watcher[w].todo \subseteq leader_cbs
        /\ watcher[w].seen <= version[w[1]]
        /\ watcher[w].seen = version[w[1]] /\ watcher[w].pc # "read" => watcher[w].last = leader[w[1]]

\* The watcher remembers what the callback was told, or will call it.
Remembers(w, c, g) ==
    /\ w[1] = g /\ watcher[w] # Watch!Absent
    /\ \/ watcher[w].last = told[c][g]
       \/ watcher[w].pc = "clone"
       \/ watcher[w].pc = "call" /\ c \in watcher[w].todo

InScope(c, g) == c \in leader_cbs \ registering /\ g \in group_map \ unwatched

Remembered(c, g) ==
    told[c][g] # Watch!Never \/ InScope(c, g) => \E w \in Watch!Watchers : Remembers(w, c, g)

WatchInv ==
    /\ WatchShapes /\ Unspawned
    /\ \A w \in Watch!Watchers : Honest(w)
    /\ \A c \in Callbacks, g \in Groups : told[c][g] # Watch!Never => c \in leader_cbs
    /\ \A c \in Callbacks, g \in Groups : Remembered(c, g)

\* The initial state: no group, no callback, no watcher.
LEMMA WatchInit ==
    ASSUME Watch!WatchAssumption, Watch!Init
    PROVE  WatchInv
<1>1. WatchShapes
    BY DEF Watch!Init, Watch!WatchAssumption, WatchShapes, Watch!OptLeader
<1>2. Unspawned /\ \A w \in Watch!Watchers : Honest(w)
    BY DEF Watch!Init, Unspawned, Honest, Watch!Watchers
<1>3. \A c \in Callbacks, g \in Groups :
          (told[c][g] # Watch!Never => c \in leader_cbs) /\ Remembered(c, g)
    BY DEF Watch!Init, Remembered, InScope
<1> QED BY <1>1, <1>2, <1>3 DEF WatchInv

\* A change of leader makes the version newer than any watcher has seen.
LEMMA WatchLeaderChanges ==
    ASSUME Watch!WatchAssumption, WatchInv, NEW g \in Groups, NEW l \in Watch!OptLeader,
           Watch!LeaderChanges(g, l)
    PROVE  WatchInv'
<1> USE DEF Watch!LeaderChanges
<1>1. WatchShapes'
    BY DEF WatchInv, WatchShapes, Watch!WatchAssumption
<1>2. Unspawned'
    BY DEF WatchInv, Unspawned
<1>3. ASSUME NEW w \in Watch!Watchers PROVE Honest(w)'
    <2>1. w[1] \in Groups /\ watcher[w] \in {Watch!Absent} \cup WatchTasks
        BY DEF WatchInv, WatchShapes, Watch!Watchers
    <2>2. version[w[1]] \in Nat /\ version'[w[1]] \in Nat /\ version[w[1]] <= version'[w[1]]
        BY <2>1 DEF WatchInv, WatchShapes
    <2>3. CASE watcher[w] # Watch!Absent
        <3>1. watcher[w].seen \in Nat /\ Honest(w)
            BY <2>1, <2>3 DEF WatchInv, WatchTasks
        <3>2. CASE w[1] = g
            BY <2>2, <2>3, <3>1, <3>2 DEF Honest, WatchInv, WatchShapes
        <3>3. CASE w[1] # g
            BY <2>1, <2>2, <2>3, <3>1, <3>3 DEF Honest, WatchInv, WatchShapes
        <3> QED BY <3>2, <3>3
    <2> QED BY <2>3 DEF Honest
<1>4. ASSUME NEW c \in Callbacks, NEW h \in Groups
      PROVE  (told[c][h] # Watch!Never => c \in leader_cbs)' /\ Remembered(c, h)'
    BY DEF WatchInv, Remembered, InScope, Remembers
<1> QED BY <1>1, <1>2, <1>3, <1>4 DEF WatchInv

\* create_group inserts the group before its watcher runs.
LEMMA WatchInsert ==
    ASSUME WatchInv, NEW g \in Groups, Watch!insert_group(g)
    PROVE  WatchInv'
<1> USE DEF Watch!insert_group
<1>1. WatchShapes'
    BY DEF WatchInv, WatchShapes
<1>2. Unspawned' /\ \A w \in Watch!Watchers : Honest(w)'
    BY DEF WatchInv, Unspawned, Honest
<1>4. ASSUME NEW c \in Callbacks, NEW h \in Groups
      PROVE  (told[c][h] # Watch!Never => c \in leader_cbs)' /\ Remembered(c, h)'
    BY DEF WatchInv, Remembered, InScope, Remembers
<1> QED BY <1>1, <1>2, <1>4 DEF WatchInv

\* A callback is registered before its watchers run.
LEMMA WatchRegister ==
    ASSUME WatchInv, NEW c \in Callbacks, Watch!on_leader_change(c)
    PROVE  WatchInv'
<1> USE DEF Watch!on_leader_change
<1>1. WatchShapes'
    BY DEF WatchInv, WatchShapes
<1>2. Unspawned' /\ \A w \in Watch!Watchers : Honest(w)'
    BY DEF WatchInv, Unspawned, Honest
<1>4. ASSUME NEW d \in Callbacks, NEW h \in Groups
      PROVE  (told[d][h] # Watch!Never => d \in leader_cbs)' /\ Remembered(d, h)'
    BY DEF WatchInv, Remembered, InScope, Remembers
<1> QED BY <1>1, <1>2, <1>4 DEF WatchInv

\* What the steps of the watchers need: a task that is present, and the others.
LEMMA FreshTask ==
    ASSUME WatchInv, NEW g \in Groups
    PROVE  /\ Watch!Fresh(g) \in WatchTasks /\ Watch!Fresh(g) # Watch!Absent
           /\ Watch!Fresh(g).pc = "read" /\ Watch!Fresh(g).last = Watch!Never
           /\ Watch!Fresh(g).todo = {} /\ Watch!Fresh(g).seen = version[g]
           /\ version[g] \in Nat
<1>1. version[g] \in Nat
    BY DEF WatchInv, WatchShapes
<1> QED BY <1>1 DEF Watch!Fresh, Watch!Task, WatchTasks, Watch!Absent

\* The watcher that create_group spawns remembers that nobody was told yet.
LEMMA WatchSpawn ==
    ASSUME Watch!WatchAssumption, WatchInv, NEW g \in Groups, Watch!spawn_leader_watch(g)
    PROVE  WatchInv'
<1> DEFINE new == <<g, None>>
<1>1. new \in Watch!Watchers /\ watcher[new] = Watch!Absent /\ new[1] = g
    BY DEF WatchInv, Unspawned, Watch!spawn_leader_watch, Watch!Watchers
<1>2. /\ watcher'[new] = Watch!Fresh(g)
      /\ \A w \in Watch!Watchers : w # new => watcher'[w] = watcher[w]
    BY <1>1 DEF WatchInv, WatchShapes, Watch!spawn_leader_watch
<1>3. /\ unwatched' = unwatched \ {g}
      /\ UNCHANGED <<leader, version, group_map, leader_cbs, registering, told>>
    BY DEF Watch!spawn_leader_watch
<1>4. WatchShapes'
    <2>1. watcher' \in [Watch!Watchers -> {Watch!Absent} \cup WatchTasks]
        BY <1>1, FreshTask DEF WatchInv, WatchShapes, Watch!spawn_leader_watch
    <2> QED BY <1>3, <2>1 DEF WatchInv, WatchShapes
<1>5. Unspawned'
    <2>1. \A h \in Groups : h # g => <<h, None>> \in Watch!Watchers /\ <<h, None>> # new
        BY DEF Watch!Watchers
    <2>2. \A h \in Groups, c \in Callbacks : <<h, c>> \in Watch!Watchers /\ <<h, c>> # new
        BY DEF Watch!Watchers, Watch!WatchAssumption
    <2>3. g \in group_map
        BY DEF WatchInv, WatchShapes, Watch!spawn_leader_watch
    <2> QED BY <1>2, <1>3, <2>1, <2>2, <2>3 DEF WatchInv, Unspawned
<1>6. ASSUME NEW w \in Watch!Watchers PROVE Honest(w)'
    <2>1. CASE w = new
        BY <1>1, <1>2, <1>3, <2>1, FreshTask DEF Honest
    <2>2. CASE w # new
        BY <1>2, <1>3, <2>2 DEF WatchInv, Honest
    <2> QED BY <2>1, <2>2
<1>7. ASSUME NEW c \in Callbacks, NEW h \in Groups PROVE Remembered(c, h)'
    <2>1. CASE told[c][h] # Watch!Never \/ InScope(c, h)
        <3>1. PICK w \in Watch!Watchers : Remembers(w, c, h)
            BY <2>1 DEF WatchInv, Remembered
        <3>2. watcher'[w] = watcher[w]
            BY <1>1, <1>2, <3>1 DEF Remembers
        <3>3. Remembers(w, c, h)'
            BY <1>3, <3>1, <3>2 DEF Remembers
        <3> QED BY <3>3 DEF Remembered
    <2>2. CASE told[c][h] = Watch!Never /\ h = g
        <3>1. Remembers(new, c, h)'
            BY <1>1, <1>2, <1>3, <2>2, FreshTask DEF Remembers
        <3> QED BY <1>1, <3>1 DEF Remembered
    <2>3. CASE told[c][h] = Watch!Never /\ h # g /\ ~InScope(c, h)
        BY <1>3, <2>3 DEF Remembered, InScope
    <2> QED BY <2>1, <2>2, <2>3
<1> QED BY <1>3, <1>4, <1>5, <1>6, <1>7 DEF WatchInv

\* So do the watchers that the registration of a callback spawns, one for every
\* group of the map.
LEMMA WatchVisit ==
    ASSUME Watch!WatchAssumption, WatchInv, NEW c \in Callbacks, Watch!visit_groups(c)
    PROVE  WatchInv'
<1> DEFINE New(w) == w[1] \in group_map /\ w[2] = c
<1>1. ASSUME NEW w \in Watch!Watchers
      PROVE  /\ w[1] \in Groups
             /\ New(w) => watcher[w] = Watch!Absent /\ watcher'[w] = Watch!Fresh(w[1])
             /\ ~New(w) => watcher'[w] = watcher[w]
    <2>1. w = <<w[1], w[2]>> /\ w[1] \in Groups
        BY DEF Watch!Watchers
    <2>2. New(w) => watcher[w] = Watch!Absent
        BY <2>1 DEF WatchInv, Unspawned, Watch!visit_groups
    <2> QED BY <2>1, <2>2 DEF Watch!visit_groups
<1>2. /\ registering' = registering \ {c}
      /\ UNCHANGED <<leader, version, group_map, unwatched, leader_cbs, told>>
      /\ c \in registering
    BY DEF Watch!visit_groups
<1>3. WatchShapes'
    <2>1. ASSUME NEW w \in Watch!Watchers PROVE watcher'[w] \in {Watch!Absent} \cup WatchTasks
        BY <1>1, FreshTask DEF WatchInv, WatchShapes
    <2>2. watcher' \in [Watch!Watchers -> {Watch!Absent} \cup WatchTasks]
        BY <2>1 DEF Watch!visit_groups
    <2> QED BY <1>2, <2>2 DEF WatchInv, WatchShapes
<1>4. Unspawned'
    <2>1. \A h \in Groups : <<h, None>> \in Watch!Watchers /\ ~New(<<h, None>>)
        BY DEF Watch!Watchers, Watch!WatchAssumption
    <2>2. \A h \in Groups, d \in Callbacks : <<h, d>> \in Watch!Watchers /\ (d # c => ~New(<<h, d>>))
        BY DEF Watch!Watchers
    <2>3. c \in leader_cbs
        BY <1>2 DEF WatchInv, WatchShapes
    <2> QED BY <1>1, <1>2, <2>1, <2>2, <2>3 DEF WatchInv, Unspawned
<1>5. ASSUME NEW w \in Watch!Watchers PROVE Honest(w)'
    <2>1. CASE New(w)
        <3>1. /\ watcher'[w].pc = "read" /\ watcher'[w].todo = {}
              /\ watcher'[w].seen = version[w[1]] /\ version[w[1]] \in Nat
            BY <1>1, <2>1, FreshTask
        <3> QED BY <1>2, <3>1 DEF Honest
    <2>2. CASE ~New(w)
        BY <1>1, <1>2, <2>2 DEF WatchInv, Honest
    <2> QED BY <2>1, <2>2
<1>6. ASSUME NEW d \in Callbacks, NEW h \in Groups PROVE Remembered(d, h)'
    <2>1. CASE told[d][h] # Watch!Never \/ InScope(d, h)
        <3>1. PICK w \in Watch!Watchers : Remembers(w, d, h)
            BY <2>1 DEF WatchInv, Remembered
        <3>2. watcher'[w] = watcher[w]
            BY <1>1, <3>1 DEF Remembers
        <3>3. Remembers(w, d, h)'
            BY <1>2, <3>1, <3>2 DEF Remembers
        <3> QED BY <3>3 DEF Remembered
    <2>2. CASE told[d][h] = Watch!Never /\ d = c /\ h \in group_map
        <3>1. <<h, c>> \in Watch!Watchers /\ New(<<h, c>>)
            BY <2>2 DEF Watch!Watchers
        <3>2. watcher'[<<h, c>>] = Watch!Fresh(h)
            BY <1>1, <3>1
        <3>3. Remembers(<<h, c>>, d, h)'
            BY <1>2, <2>2, <3>2, FreshTask DEF Remembers
        <3> QED BY <3>1, <3>3 DEF Remembered
    <2>3. CASE told[d][h] = Watch!Never /\ ~InScope(d, h) /\ (d # c \/ h \notin group_map)
        BY <1>2, <2>3 DEF Remembered, InScope
    <2> QED BY <2>1, <2>2, <2>3
<1> QED BY <1>2, <1>3, <1>4, <1>5, <1>6 DEF WatchInv

\* A step of a watcher gives it another task; the others, the groups and the
\* registrations stay.
WatcherMoves(w, task) ==
    /\ watcher' = [watcher EXCEPT ![w] = task]
    /\ UNCHANGED <<leader, version, group_map, unwatched, leader_cbs, registering>>

\* It keeps all that is not about what callbacks were told, when the task has the
\* right shape and the watcher stays honest.
LEMMA MoveKeeps ==
    ASSUME WatchInv, NEW w \in Watch!Watchers, NEW task \in WatchTasks, WatcherMoves(w, task),
           watcher[w] # Watch!Absent, task # Watch!Absent,
           task.todo \subseteq leader_cbs, task.seen <= version[w[1]],
           task.seen = version[w[1]] /\ task.pc # "read" => task.last = leader[w[1]]
    PROVE  /\ watcher' \in [Watch!Watchers -> {Watch!Absent} \cup WatchTasks]
           /\ Unspawned' /\ \A x \in Watch!Watchers : Honest(x)'
           /\ watcher'[w] = task /\ \A x \in Watch!Watchers : x # w => watcher'[x] = watcher[x]
<1>1. /\ watcher' \in [Watch!Watchers -> {Watch!Absent} \cup WatchTasks]
      /\ watcher'[w] = task /\ \A x \in Watch!Watchers : x # w => watcher'[x] = watcher[x]
    BY DEF WatcherMoves, WatchInv, WatchShapes
<1>2. Unspawned'
    <2>1. \A h \in Groups : <<h, None>> \in Watch!Watchers
        BY DEF Watch!Watchers
    <2>2. \A h \in Groups, d \in Callbacks : <<h, d>> \in Watch!Watchers
        BY DEF Watch!Watchers
    <2> QED BY <1>1, <2>1, <2>2 DEF WatcherMoves, WatchInv, Unspawned
<1>3. ASSUME NEW x \in Watch!Watchers PROVE Honest(x)'
    <2>1. CASE x = w
        BY <1>1, <2>1 DEF Honest, WatcherMoves
    <2>2. CASE x # w
        BY <1>1, <2>2 DEF Honest, WatcherMoves, WatchInv
    <2> QED BY <2>1, <2>2
<1> QED BY <1>1, <1>2, <1>3

\* A step that calls nobody keeps the invariant when the watcher remembers as much
\* as before.
LEMMA QuietMove ==
    ASSUME WatchInv, NEW w \in Watch!Watchers, NEW task \in WatchTasks, WatcherMoves(w, task),
           watcher[w] # Watch!Absent, task # Watch!Absent, UNCHANGED told,
           task.todo \subseteq leader_cbs, task.seen <= version[w[1]],
           task.seen = version[w[1]] /\ task.pc # "read" => task.last = leader[w[1]],
           \A c \in leader_cbs :
               \/ watcher[w].last = told[c][w[1]]
               \/ watcher[w].pc = "clone"
               \/ watcher[w].pc = "call" /\ c \in watcher[w].todo
               =>
               \/ task.last = told[c][w[1]]
               \/ task.pc = "clone"
               \/ task.pc = "call" /\ c \in task.todo
    PROVE  WatchInv'
<1>1. WatchShapes'
    BY MoveKeeps DEF WatchInv, WatchShapes, WatcherMoves
<1>2. ASSUME NEW c \in Callbacks, NEW g \in Groups PROVE Remembered(c, g)'
    <2>1. CASE told[c][g] # Watch!Never \/ InScope(c, g)
        <3>1. PICK x \in Watch!Watchers : Remembers(x, c, g)
            BY <2>1 DEF WatchInv, Remembered
        <3>2. c \in leader_cbs
            BY <2>1 DEF WatchInv, InScope
        <3>3. CASE x = w
            <4>1. Remembers(w, c, g)'
                BY <3>1, <3>2, <3>3, MoveKeeps DEF Remembers
            <4> QED BY <4>1 DEF Remembered
        <3>4. CASE x # w
            <4>1. watcher'[x] = watcher[x]
                BY <3>4, MoveKeeps
            <4>2. Remembers(x, c, g)'
                BY <3>1, <4>1 DEF Remembers
            <4> QED BY <4>2 DEF Remembered
        <3> QED BY <3>3, <3>4
    <2>2. CASE ~(told[c][g] # Watch!Never \/ InScope(c, g))
        BY <2>2 DEF Remembered, InScope, WatcherMoves
    <2> QED BY <2>1, <2>2
<1>3. \A c \in Callbacks, g \in Groups : (told[c][g] # Watch!Never => c \in leader_cbs)'
    BY DEF WatchInv, WatcherMoves
<1> QED BY <1>1, <1>2, <1>3, MoveKeeps DEF WatchInv

\* A present watcher: the fields of its task.
LEMMA TaskFacts ==
    ASSUME WatchInv, NEW w \in Watch!Watchers, NEW p \in {"read", "clone", "call", "wait"},
           Watch!At(w, p)
    PROVE  /\ watcher[w] # Watch!Absent /\ watcher[w] \in WatchTasks /\ w[1] \in Groups
           /\ watcher[w].pc = p /\ watcher[w].last \in Watch!OptLeader \cup {Watch!Never}
           /\ watcher[w].todo \subseteq leader_cbs /\ watcher[w].todo \subseteq Callbacks
           /\ watcher[w].seen \in Nat /\ watcher[w].seen <= version[w[1]]
           /\ version[w[1]] \in Nat /\ leader[w[1]] \in Watch!OptLeader
           /\ watcher[w].seen = version[w[1]] /\ p # "read" => watcher[w].last = leader[w[1]]
<1>1. watcher[w] # Watch!Absent /\ watcher[w].pc = p
    BY DEF Watch!At, Watch!Absent
<1>2. watcher[w] \in WatchTasks /\ w[1] \in Groups
    BY <1>1 DEF WatchInv, WatchShapes, Watch!Watchers
<1>3. version[w[1]] \in Nat /\ leader[w[1]] \in Watch!OptLeader
    BY <1>2 DEF WatchInv, WatchShapes
<1> QED BY <1>1, <1>2, <1>3 DEF WatchInv, Honest, WatchTasks

\* A task put together from its parts.
LEMMA TaskMade ==
    ASSUME NEW p \in {"read", "clone", "call", "wait"},
           NEW l \in Watch!OptLeader \cup {Watch!Never}, NEW t \in SUBSET Callbacks, NEW s \in Nat
    PROVE  /\ Watch!Task(p, l, t, s) \in WatchTasks /\ Watch!Task(p, l, t, s) # Watch!Absent
           /\ Watch!Task(p, l, t, s).pc = p /\ Watch!Task(p, l, t, s).last = l
           /\ Watch!Task(p, l, t, s).todo = t /\ Watch!Task(p, l, t, s).seen = s
BY DEF Watch!Task, WatchTasks, Watch!Absent

\* The reading of the metrics: a leader the watcher has not reported makes it call
\* every callback.
LEMMA WatchRead ==
    ASSUME WatchInv, NEW w \in Watch!Watchers, Watch!watch_read(w)
    PROVE  WatchInv'
<1>1. Watch!At(w, "read")
    BY DEF Watch!watch_read
<1>2. PICK p \in {"wait", "clone"} : p = IF watcher[w].last = leader[w[1]] THEN "wait" ELSE "clone"
    OBVIOUS
<1>3. PICK task : task = Watch!Task(p, leader[w[1]], watcher[w].todo, watcher[w].seen)
    OBVIOUS
<1>4. WatcherMoves(w, task) /\ UNCHANGED told
    BY <1>2, <1>3 DEF Watch!watch_read, WatcherMoves
<1>5. /\ task \in WatchTasks /\ task # Watch!Absent /\ task.pc = p /\ task.last = leader[w[1]]
      /\ task.todo = watcher[w].todo /\ task.seen = watcher[w].seen
    BY <1>1, <1>3, TaskFacts, TaskMade
<1>6. watcher[w].pc = "read" /\ (p = "clone" \/ task.last = watcher[w].last)
    BY <1>1, <1>2, <1>5, TaskFacts
<1> QED BY <1>1, <1>4, <1>5, <1>6, TaskFacts, QuietMove

\* The copy of the list of callbacks.
LEMMA WatchClone ==
    ASSUME WatchInv, NEW w \in Watch!Watchers, Watch!watch_clone(w)
    PROVE  WatchInv'
<1>1. Watch!At(w, "clone") /\ leader_cbs \in SUBSET Callbacks
    BY DEF Watch!watch_clone, WatchInv, WatchShapes
<1>2. PICK task : task = Watch!Task("call", watcher[w].last, leader_cbs, watcher[w].seen)
    OBVIOUS
<1>3. WatcherMoves(w, task) /\ UNCHANGED told
    BY <1>2 DEF Watch!watch_clone, WatcherMoves
<1>4. /\ task \in WatchTasks /\ task # Watch!Absent /\ task.pc = "call"
      /\ task.last = watcher[w].last /\ task.todo = leader_cbs /\ task.seen = watcher[w].seen
    BY <1>1, <1>2, TaskFacts, TaskMade
<1> QED BY <1>1, <1>3, <1>4, TaskFacts, QuietMove

\* The end of the calls.
LEMMA WatchCalled ==
    ASSUME WatchInv, NEW w \in Watch!Watchers, Watch!watch_called(w)
    PROVE  WatchInv'
<1>1. Watch!At(w, "call") /\ watcher[w].todo = {}
    BY DEF Watch!watch_called
<1>2. PICK task : task = Watch!Task("wait", watcher[w].last, {}, watcher[w].seen)
    OBVIOUS
<1>3. WatcherMoves(w, task) /\ UNCHANGED told
    BY <1>2 DEF Watch!watch_called, WatcherMoves
<1>4. /\ task \in WatchTasks /\ task # Watch!Absent /\ task.pc = "wait"
      /\ task.last = watcher[w].last /\ task.todo = {} /\ task.seen = watcher[w].seen
    BY <1>1, <1>2, TaskFacts, TaskMade
<1> QED BY <1>1, <1>3, <1>4, TaskFacts, QuietMove

\* The wakeup.
LEMMA WatchChanged ==
    ASSUME WatchInv, NEW w \in Watch!Watchers, Watch!watch_changed(w)
    PROVE  WatchInv'
<1>1. Watch!At(w, "wait")
    BY DEF Watch!watch_changed
<1>2. PICK task : task = Watch!Task("read", watcher[w].last, {}, version[w[1]])
    OBVIOUS
<1>3. WatcherMoves(w, task) /\ UNCHANGED told
    BY <1>2 DEF Watch!watch_changed, WatcherMoves
<1>4. /\ task \in WatchTasks /\ task # Watch!Absent /\ task.pc = "read"
      /\ task.last = watcher[w].last /\ task.todo = {} /\ task.seen = version[w[1]]
    BY <1>1, <1>2, TaskFacts, TaskMade
<1> QED BY <1>1, <1>3, <1>4, TaskFacts, QuietMove

\* The call of a callback: from then on the caller is the watcher that remembers what
\* this callback was told, whoever remembered it before.
LEMMA WatchCall ==
    ASSUME WatchInv, NEW w \in Watch!Watchers, NEW c \in Callbacks, Watch!watch_call(w, c)
    PROVE  WatchInv'
<1>1. Watch!At(w, "call") /\ c \in watcher[w].todo
    BY DEF Watch!watch_call
<1>2. PICK task : task = Watch!Task("call", watcher[w].last, watcher[w].todo \ {c}, watcher[w].seen)
    OBVIOUS
<1>3. WatcherMoves(w, task)
    BY <1>2 DEF Watch!watch_call, WatcherMoves
<1>4. /\ task \in WatchTasks /\ task # Watch!Absent /\ task.pc = "call"
      /\ task.last = watcher[w].last /\ task.todo = watcher[w].todo \ {c}
      /\ task.seen = watcher[w].seen
    BY <1>1, <1>2, TaskFacts, TaskMade
<1>5. /\ watcher[w] # Watch!Absent /\ w[1] \in Groups /\ c \in leader_cbs
      /\ watcher[w].last \in Watch!OptLeader \cup {Watch!Never}
      /\ task.todo \subseteq leader_cbs /\ task.seen <= version[w[1]]
      /\ task.seen = version[w[1]] /\ task.pc # "read" => task.last = leader[w[1]]
    BY <1>1, <1>4, TaskFacts
<1>6. /\ told' \in [Callbacks -> [Groups -> Watch!OptLeader \cup {Watch!Never}]]
      /\ told'[c][w[1]] = watcher[w].last
      /\ \A d \in Callbacks, g \in Groups : d # c \/ g # w[1] => told'[d][g] = told[d][g]
    <2>1. told' = [told EXCEPT ![c] = [told[c] EXCEPT ![w[1]] = watcher[w].last]]
        BY DEF Watch!watch_call
    <2>2. told[c] \in [Groups -> Watch!OptLeader \cup {Watch!Never}]
        BY DEF WatchInv, WatchShapes
    <2> QED BY <1>5, <2>1, <2>2 DEF WatchInv, WatchShapes
<1>7. WatchShapes'
    BY <1>3, <1>4, <1>5, <1>6, MoveKeeps DEF WatchInv, WatchShapes, WatcherMoves
<1>8. watcher'[w] = task /\ \A x \in Watch!Watchers : x # w => watcher'[x] = watcher[x]
    BY <1>3, <1>4, <1>5, MoveKeeps
<1>9. ASSUME NEW d \in Callbacks, NEW g \in Groups
      PROVE  (told'[d][g] # Watch!Never => d \in leader_cbs') /\ Remembered(d, g)'
    <2>1. CASE d = c /\ g = w[1]
        <3>1. Remembers(w, d, g)'
            BY <1>4, <1>6, <1>8, <2>1 DEF Remembers
        <3> QED BY <1>3, <1>5, <2>1, <3>1 DEF Remembered, WatcherMoves
    <2>2. CASE d # c \/ g # w[1]
        <3>1. told'[d][g] = told[d][g]
            BY <1>6, <2>2
        <3>2. CASE told[d][g] # Watch!Never \/ InScope(d, g)
            <4>1. PICK x \in Watch!Watchers : Remembers(x, d, g)
                BY <3>2 DEF WatchInv, Remembered
            <4>2. Remembers(x, d, g)'
                <5>1. CASE x # w
                    BY <1>8, <3>1, <4>1, <5>1 DEF Remembers
                <5>2. CASE x = w
                    BY <1>1, <1>4, <1>8, <2>2, <3>1, <4>1, <5>2, TaskFacts DEF Remembers
                <5> QED BY <5>1, <5>2
            <4> QED BY <1>3, <3>1, <4>2 DEF Remembered, WatchInv, WatcherMoves
        <3>3. CASE told[d][g] = Watch!Never /\ ~InScope(d, g)
            BY <1>3, <3>1, <3>3 DEF Remembered, InScope, WatcherMoves
        <3> QED BY <3>2, <3>3
    <2> QED BY <2>1, <2>2
<1>10. Unspawned' /\ \A x \in Watch!Watchers : Honest(x)'
    BY <1>3, <1>4, <1>5, MoveKeeps
<1> QED BY <1>7, <1>9, <1>10 DEF WatchInv

\* Every step keeps the invariant.
LEMMA WatchStepKeeps ==
    ASSUME Watch!WatchAssumption, WatchInv, [Watch!Next]_Watch!vars
    PROVE  WatchInv'
<1>1. ASSUME NEW g \in Groups, Watch!insert_group(g) PROVE WatchInv'
    BY <1>1, WatchInsert
<1>2. ASSUME NEW g \in Groups, Watch!spawn_leader_watch(g) PROVE WatchInv'
    BY <1>2, WatchSpawn
<1>3. ASSUME NEW g \in Groups, NEW l \in Watch!OptLeader, Watch!LeaderChanges(g, l) PROVE WatchInv'
    BY <1>3, WatchLeaderChanges
<1>4. ASSUME NEW c \in Callbacks, Watch!on_leader_change(c) PROVE WatchInv'
    BY <1>4, WatchRegister
<1>5. ASSUME NEW c \in Callbacks, Watch!visit_groups(c) PROVE WatchInv'
    BY <1>5, WatchVisit
<1>6. ASSUME NEW w \in Watch!Watchers, Watch!WatchStep(w) PROVE WatchInv'
    BY <1>6, WatchRead, WatchClone, WatchCall, WatchCalled, WatchChanged DEF Watch!WatchStep
<1>7. CASE UNCHANGED Watch!vars
    <2>1. WatchShapes' /\ Unspawned'
        BY <1>7 DEF WatchInv, WatchShapes, Unspawned, Watch!vars
    <2>2. \A w \in Watch!Watchers : Honest(w)'
        BY <1>7 DEF WatchInv, Honest, Watch!vars
    <2>3. \A c \in Callbacks, g \in Groups :
              (told[c][g] # Watch!Never => c \in leader_cbs)' /\ Remembered(c, g)'
        BY <1>7 DEF WatchInv, Remembered, InScope, Remembers, Watch!vars
    <2> QED BY <2>1, <2>2, <2>3 DEF WatchInv
<1> QED BY <1>1, <1>2, <1>3, <1>4, <1>5, <1>6, <1>7 DEF Watch!Next

\* The invariant of the watchers.
LEMMA WatchInvariance ==
    ASSUME Watch!WatchAssumption
    PROVE  Watch!Spec => []WatchInv
<1>1. Watch!Init => WatchInv
    BY WatchInit
<1>2. WatchInv /\ [Watch!Next]_Watch!vars => WatchInv'
    BY WatchStepKeeps
<1> QED BY <1>1, <1>2, PTL DEF Watch!Spec

\* The watchers and the callbacks' state have their types: in particular no watcher
\* calls a callback that is not registered or has seen a version still to come.
THEOREM WatchTypeCorrect == Watch!WatchAssumption => (Watch!Spec => []Watch!TypeOK)
<1> SUFFICES ASSUME Watch!WatchAssumption PROVE Watch!Spec => []Watch!TypeOK
    OBVIOUS
<1>1. WatchInv => Watch!TypeOK
    <2> SUFFICES ASSUME WatchInv PROVE Watch!TypeOK
        OBVIOUS
    <2>1. ASSUME NEW w \in Watch!Watchers, watcher[w] # Watch!Absent
          PROVE  /\ watcher[w].pc \in {"read", "clone", "call", "wait"}
                 /\ watcher[w].last \in Watch!OptLeader \cup {Watch!Never}
                 /\ watcher[w].todo \subseteq leader_cbs
                 /\ watcher[w].seen \in 0 .. version[w[1]]
        <3>1. watcher[w] \in WatchTasks /\ w[1] \in Groups
            BY <2>1 DEF WatchInv, WatchShapes, Watch!Watchers
        <3>2. version[w[1]] \in Nat
            BY <3>1 DEF WatchInv, WatchShapes
        <3> QED BY <2>1, <3>1, <3>2 DEF WatchInv, Honest, WatchTasks
    <2> QED BY <2>1 DEF WatchInv, WatchShapes, Watch!TypeOK
<1> QED BY <1>1, WatchInvariance, PTL

\* A registered callback is told the right leader: once the watchers of a group have
\* nothing left to do, its last call named the group's present leader, although every
\* watcher calls every callback and a slow one may report an old leader after a
\* newer one was reported.
THEOREM CallbacksTold == Watch!WatchAssumption => (Watch!Spec => []Watch!SettledMeansTold)
<1> SUFFICES ASSUME Watch!WatchAssumption PROVE Watch!Spec => []Watch!SettledMeansTold
    OBVIOUS
<1>1. WatchInv => Watch!SettledMeansTold
    <2> SUFFICES ASSUME WatchInv, NEW c \in leader_cbs \ registering, NEW g \in group_map \ unwatched,
                        \A w \in Watch!Watchers : w[1] = g => Watch!Settled(w)
                 PROVE  told[c][g] = leader[g]
        BY DEF Watch!SettledMeansTold
    <2>1. c \in Callbacks /\ g \in Groups
        BY DEF WatchInv, WatchShapes
    <2>2. PICK w \in Watch!Watchers : Remembers(w, c, g)
        BY <2>1 DEF WatchInv, Remembered, InScope
    <2>3. Watch!At(w, "wait") /\ watcher[w].seen = version[g] /\ w[1] = g
        BY <2>2 DEF Remembers, Watch!Settled
    <2>4. watcher[w].last = leader[g]
        BY <2>3, TaskFacts
    <2> QED BY <2>2, <2>3, <2>4, TaskFacts DEF Remembers
<1> QED BY <1>1, WatchInvariance, PTL
=============================================================================
