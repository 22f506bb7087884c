----------------------------- MODULE GroupRouter -----------------------------
(***************************************************************************)
(* How an RPC of one group's core reaches the group's Raft on another      *)
(* node, over either transport (crates/multiraft-net/src):                 *)
(*                                                                         *)
(*  - in process: Router::send puts the request into the one queue of the  *)
(*    target node, shared by all groups, and Node::run answers the queue   *)
(*    request by request (router.rs, node.rs, api.rs);                     *)
(*  - gRPC: GrpcRouter keeps one channel per peer, shared by all groups,   *)
(*    and the server answers requests side by side (grpc/*.rs).            *)
(*                                                                         *)
(* A caller is a replication or election task, with one request at a time  *)
(* to one group on one node.  The core's RPC timeout drops a request's     *)
(* future wherever it awaits; what it has sent by then stays sent.  A node *)
(* is started again only after its shutdown returned, or its process       *)
(* ended.  External: a running Raft answers every request; the queue is    *)
(* futures::channel::mpsc, where a sender's message is always taken and    *)
(* the sender then waits while the queue is longer than its buffer.        *)
(***************************************************************************)
EXTENDS Naturals, Sequences, FiniteSets, SequencesExt

CONSTANTS
    Nodes,          \* the target nodes
    Groups,
    Callers,
    NodeOf, GroupOf,    \* the target of each caller
    Backends,       \* the NetBackends to consider
    Buffer,         \* of a node's queue, 1024 in the code
    MaxSends,       \* bound: requests of each caller
    MaxStarts,      \* bound: starts of nodes
    MaxRepeats      \* bound: shutdowns of a handle that was shut down before

ASSUME RouterAssumption ==
    /\ NodeOf \in [Callers -> Nodes] /\ GroupOf \in [Callers -> Groups]
    /\ Backends \subseteq {"InProcess", "Grpc"}
    /\ MaxSends \in [Callers -> Nat]
    /\ Buffer \in Nat /\ MaxStarts \in Nat /\ MaxRepeats \in Nat

VARIABLES
    backend,
    handles,        \* one MultiRaft per start: [node, stop, groups, alive]
    registered,     \* Router.nodes: the handle whose queue a node id stands for, or 0
    queue,          \* requests in the queue of each handle
    parked,         \* parked senders of the queue, by their request
    loop,           \* Node::run of each handle: Recv, Ended, or the request it answers
    channels,       \* GrpcRouter.channels: number of the cached connection, or 0
    opened,         \* connections opened so far
    serving,        \* requests that the gRPC servers answer: <<handle, request>>
    links,          \* ConnMetrics.peers
    calls,          \* the request of each caller
    handled,        \* number of the last request of a caller that a Raft handled
    repeated        \* nodes whose old handle was shut down again, per repetition

node_vars == <<handles, registered, loop, repeated>>
local_vars == <<queue, parked>>
grpc_vars == <<channels, opened, serving>>
vars == <<backend, node_vars, local_vars, grpc_vars, links, calls, handled>>

Grpc == backend = "Grpc"

\* A request is the caller and the number of its call.
Requests == UNION {{c} \X (1 .. MaxSends[c]) : c \in Callers}
Recv == <<>>
Ended == <<0>>

CallPcs == {"idle", "push", "flush", "connect", "insert", "record", "rpc", "wait"}

TypeOK ==
    /\ backend \in Backends
    /\ Len(handles) <= MaxStarts
    /\ \A h \in DOMAIN handles :
           /\ handles[h].node \in Nodes
           /\ handles[h].stop \in {"up", "stopping", "unregister", "down"}
           /\ handles[h].groups \subseteq Groups /\ handles[h].alive \subseteq Groups
           /\ loop[h] \in Requests \cup {Recv, Ended}
           /\ queue[h] \in Seq(Requests) /\ parked[h] \in Seq(Requests)
    /\ registered \in [Nodes -> 0 .. Len(handles)]
    /\ channels \in [Nodes -> 0 .. opened] /\ opened \in Nat
    /\ serving \subseteq (DOMAIN handles) \X Requests
    /\ links \subseteq Nodes
    /\ \A c \in Callers :
           /\ calls[c].pc \in CallPcs /\ calls[c].num \in 0 .. MaxSends[c]
           /\ calls[c].via \in Nat /\ calls[c].answered \in BOOLEAN
    /\ \A c \in Callers : handled[c] \in 0 .. MaxSends[c]
    /\ repeated \in Seq(Nodes)

Init ==
    /\ backend \in Backends
    /\ handles = <<>> /\ queue = <<>> /\ parked = <<>> /\ loop = <<>>
    /\ registered = [n \in Nodes |-> 0]
    /\ channels = [n \in Nodes |-> 0] /\ opened = 0 /\ serving = {}
    /\ links = {}
    /\ calls = [c \in Callers |-> [pc |-> "idle", num |-> 0, via |-> 0, answered |-> FALSE]]
    /\ handled = [c \in Callers |-> 0]
    /\ repeated = <<>>

Request(c) == <<c, calls[c].num>>
At(c, pc) == calls[c].pc = pc
Goto(c, pc) == calls' = [calls EXCEPT ![c].pc = pc]
SetCall(c, pc, num, via) ==
    calls' = [calls EXCEPT ![c] = [pc |-> pc, num |-> num, via |-> via, answered |-> FALSE]]
GotoVia(c, pc, via) == SetCall(c, pc, calls[c].num, via)
ReturnCall(c) == GotoVia(c, "idle", 0)

-----------------------------------------------------------------------------
(***************************************************************************)
(* The nodes: start, create_group and shutdown, which GroupLifecycle takes *)
(* apart.  A node in process brings a queue and its loop.                  *)
(***************************************************************************)
Handles(n) == {h \in DOMAIN handles : handles[h].node = n}
SetHandle(h, stop, groups, alive) ==
    handles' = [handles EXCEPT ![h] = [node |-> handles[h].node, stop |-> stop,
                                       groups |-> groups, alive |-> alive]]
Stop(h, s) == SetHandle(h, s, handles[h].groups, handles[h].alive)

record_peer(n) == links' = links \cup {n}

\* Two locks, one after the other without an await, taken as one step.
register_node(n, h) ==
    /\ registered' = [registered EXCEPT ![n] = h]
    /\ record_peer(n)

start_node(n) ==
    /\ Len(handles) < MaxStarts
    /\ \A h \in Handles(n) : handles[h].stop = "down"
    /\ handles' = Append(handles, [node |-> n, stop |-> "up", groups |-> {}, alive |-> {}])
    /\ queue' = Append(queue, <<>>) /\ parked' = Append(parked, <<>>)
    /\ loop' = Append(loop, IF Grpc THEN Ended ELSE Recv)
    /\ IF Grpc THEN UNCHANGED <<registered, links>> ELSE register_node(n, Len(handles'))
    /\ UNCHANGED <<backend, grpc_vars, calls, handled, repeated>>

create_group(h, g) ==
    /\ handles[h].stop = "up"
    /\ g \notin handles[h].groups
    /\ SetHandle(h, "up", handles[h].groups \cup {g}, handles[h].alive \cup {g})
    /\ UNCHANGED <<backend, registered, loop, repeated, local_vars, grpc_vars, links, calls, handled>>

shutdown(h) ==
    /\ handles[h].stop = "up"
    /\ Stop(h, "stopping")
    /\ UNCHANGED <<backend, registered, loop, repeated, local_vars, grpc_vars, links, calls, handled>>

\* shutdown of a handle that is down already, which nothing refuses: it has no
\* Raft to stop and an empty map, and unregisters the node id once more.
shutdown_again(h) ==
    /\ ~Grpc
    /\ handles[h].stop = "down"
    /\ Len(repeated) < MaxRepeats
    /\ repeated' = Append(repeated, handles[h].node)
    /\ registered' = [registered EXCEPT ![handles[h].node] = 0]
    /\ UNCHANGED <<backend, handles, loop, local_vars, grpc_vars, links, calls, handled>>

shutdown_raft(h, g) ==
    /\ handles[h].stop = "stopping"
    /\ g \in handles[h].alive
    /\ SetHandle(h, "stopping", handles[h].groups, handles[h].alive \ {g})
    /\ UNCHANGED <<backend, registered, loop, repeated, local_vars, grpc_vars, links, calls, handled>>

shutdown_clear(h) ==
    /\ handles[h].stop = "stopping"
    /\ handles[h].alive = {}
    /\ SetHandle(h, "unregister", {}, {})
    /\ UNCHANGED <<backend, registered, loop, repeated, local_vars, grpc_vars, links, calls, handled>>

\* By node id, whichever handle is registered under it.
unregister_node(h) ==
    /\ ~Grpc
    /\ handles[h].stop = "unregister"
    /\ registered' = [registered EXCEPT ![handles[h].node] = 0]
    /\ Stop(h, "down")
    /\ UNCHANGED <<backend, loop, repeated, local_vars, grpc_vars, links, calls, handled>>

\* External: the process of a node ends, after a shutdown or in the middle of
\* anything; only then do its gRPC server and what it serves go.
ProcessEnds(h) ==
    /\ Grpc
    /\ handles[h].stop # "down"
    /\ SetHandle(h, "down", {}, {})
    /\ serving' = {s \in serving : s[1] # h}
    /\ UNCHANGED <<backend, registered, loop, repeated, local_vars, channels, opened, links, calls, handled>>

-----------------------------------------------------------------------------
(***************************************************************************)
(* Router::send.  The sender is cloned under the lock and the request is   *)
(* pushed after the unlock; then the task waits until it is not parked any *)
(* more, and for the answer.                                               *)
(***************************************************************************)
Begin(c, pc, via) == SetCall(c, pc, calls[c].num + 1, via)

CanSend(c) == At(c, "idle") /\ calls[c].num < MaxSends[c]

send(c) ==
    /\ ~Grpc
    /\ CanSend(c)
    /\ LET h == registered[NodeOf[c]]
       IN  Begin(c, IF h = 0 THEN "idle" ELSE "push", h)
    /\ UNCHANGED <<backend, node_vars, local_vars, grpc_vars, links, handled>>

\* Refused when the receiver is gone; parked when the queue is over its buffer.
push(c) ==
    /\ At(c, "push")
    /\ LET h == calls[c].via
       IN  IF loop[h] = Ended
           THEN ReturnCall(c) /\ UNCHANGED local_vars
           ELSE /\ queue' = [queue EXCEPT ![h] = Append(@, Request(c))]
                /\ IF Len(queue'[h]) > Buffer
                   THEN parked' = [parked EXCEPT ![h] = Append(@, Request(c))] /\ Goto(c, "flush")
                   ELSE UNCHANGED parked /\ Goto(c, "wait")
    /\ UNCHANGED <<backend, node_vars, grpc_vars, links, handled>>

-----------------------------------------------------------------------------
(***************************************************************************)
(* An answer goes to the call that made the request, if it still waits; a  *)
(* request that is taken out of the queue wakes one parked sender.         *)
(***************************************************************************)
Unparked(h) ==
    IF parked[h] = <<>> THEN calls
    ELSE [c \in Callers |-> IF Request(c) = Head(parked[h]) /\ At(c, "flush")
                            THEN [calls[c] EXCEPT !.pc = "wait"] ELSE calls[c]]

Answered(cs, r) ==
    [c \in Callers |-> IF r = <<c, cs[c].num>> /\ cs[c].pc \in {"flush", "wait"}
                       THEN [cs[c] EXCEPT !.answered = TRUE] ELSE cs[c]]

\* What a Raft answers, if it runs, it has handled; otherwise Fatal::Stopped.
Handle(h, r) ==
    handled' = IF GroupOf[r[1]] \in handles[h].alive
               THEN [handled EXCEPT ![r[1]] = r[2]] ELSE handled

(***************************************************************************)
(* Node::run: takes the next request, which wakes one parked sender, and   *)
(* looks its group up; an unknown group is answered with Fatal::Stopped at *)
(* once, otherwise the loop waits for the group's Raft.                    *)
(***************************************************************************)
Pop(h) ==
    /\ queue' = [queue EXCEPT ![h] = Tail(@)]
    /\ parked' = [parked EXCEPT ![h] = IF @ = <<>> THEN @ ELSE Tail(@)]

Known(h, r) == GroupOf[r[1]] \in handles[h].groups

Receives(h) == loop[h] = Recv /\ queue[h] # <<>>

run_Hold(h) ==
    /\ Receives(h)
    /\ Pop(h)
    /\ calls' = Unparked(h)
    /\ loop' = [loop EXCEPT ![h] = IF Known(h, Head(queue[h])) THEN Head(queue[h]) ELSE Recv]
    /\ UNCHANGED <<backend, handles, registered, repeated, grpc_vars, links, handled>>

run_Break(h) ==
    /\ Receives(h)
    /\ Pop(h)
    /\ calls' = Unparked(h)
    /\ loop' = [loop EXCEPT ![h] = IF Known(h, Head(queue[h])) THEN Head(queue[h]) ELSE Ended]
    /\ UNCHANGED <<backend, handles, registered, repeated, grpc_vars, links, handled>>

run_Spawn(h) ==
    /\ Receives(h)
    /\ Pop(h)
    /\ calls' = Unparked(h)
    /\ serving' = serving \cup {<<h, Head(queue[h])>>}
    /\ UNCHANGED <<backend, node_vars, channels, opened, links, handled>>

run(h) ==
    /\ Receives(h)
    /\ Pop(h)
    /\ LET r == Head(queue[h])
       IN  IF Known(h, r)
           THEN loop' = [loop EXCEPT ![h] = r] /\ calls' = Unparked(h)
           ELSE calls' = Answered(Unparked(h), r) /\ UNCHANGED loop
    /\ UNCHANGED <<backend, handles, registered, repeated, grpc_vars, links, handled>>

\* api::append, vote, snapshot or transfer_leader returns.
run_answer(h) ==
    /\ loop[h] \in Requests
    /\ Handle(h, loop[h])
    /\ calls' = Answered(calls, loop[h])
    /\ loop' = [loop EXCEPT ![h] = Recv]
    /\ UNCHANGED <<backend, handles, registered, repeated, local_vars, grpc_vars, links>>

\* rx.next() gives None: no sender is left, neither the Router's nor a call's.
Senders(h) == {c \in Callers : ~Grpc /\ ~At(c, "idle") /\ calls[c].via = h}

run_end(h) ==
    /\ loop[h] = Recv /\ queue[h] = <<>>
    /\ registered[handles[h].node] # h /\ Senders(h) = {}
    /\ loop' = [loop EXCEPT ![h] = Ended]
    /\ UNCHANGED <<backend, handles, registered, repeated, local_vars, grpc_vars, links, calls, handled>>

-----------------------------------------------------------------------------
(***************************************************************************)
(* GrpcRouter::send.  channel_for: the cached channel, or a new one, which *)
(* is put into the cache unless another call was faster.  No await comes   *)
(* between insert and record_peer.                                         *)
(***************************************************************************)
Server(n) == {h \in Handles(n) : handles[h].stop # "down"}

channel_for(c) ==
    /\ Grpc
    /\ CanSend(c)
    /\ LET ch == channels[NodeOf[c]]
       IN  Begin(c, IF ch = 0 THEN "connect" ELSE "rpc", ch)
    /\ UNCHANGED <<backend, node_vars, local_vars, grpc_vars, links, handled>>

connect_NotCounted(c) ==
    /\ At(c, "connect")
    /\ Server(NodeOf[c]) # {}
    /\ GotoVia(c, "insert", opened + 1)
    /\ UNCHANGED <<backend, node_vars, local_vars, grpc_vars, links, handled>>

connect(c) ==
    /\ At(c, "connect")
    /\ Server(NodeOf[c]) # {}
    /\ opened' = opened + 1
    /\ GotoVia(c, "insert", opened')
    /\ UNCHANGED <<backend, node_vars, local_vars, channels, serving, links, handled>>

\* The peer is not configured, no server listens, or the network fails.
connect_error(c) ==
    /\ At(c, "connect")
    /\ ReturnCall(c)
    /\ UNCHANGED <<backend, node_vars, local_vars, grpc_vars, links, handled>>

insert_Overwrite(c) ==
    /\ At(c, "insert")
    /\ channels' = [channels EXCEPT ![NodeOf[c]] = calls[c].via]
    /\ Goto(c, "record")
    /\ UNCHANGED <<backend, node_vars, local_vars, opened, serving, links, handled>>

insert(c) ==
    /\ At(c, "insert")
    /\ LET existing == channels[NodeOf[c]]
       IN  IF existing # 0
           THEN GotoVia(c, "rpc", existing) /\ UNCHANGED channels
           ELSE /\ channels' = [channels EXCEPT ![NodeOf[c]] = calls[c].via]
                /\ Goto(c, "record")
    /\ UNCHANGED <<backend, node_vars, local_vars, opened, serving, links, handled>>

record(c) ==
    /\ At(c, "record")
    /\ record_peer(NodeOf[c])
    /\ Goto(c, "rpc")
    /\ UNCHANGED <<backend, node_vars, local_vars, grpc_vars, handled>>

\* client.call: the request arrives at the peer's server, which looks the group
\* up; a Fatal::Stopped for an unknown group is on its way back at once.
call(c, h) ==
    /\ At(c, "rpc")
    /\ h \in Server(NodeOf[c])
    /\ IF Known(h, Request(c))
       THEN serving' = serving \cup {<<h, Request(c)>>} /\ Goto(c, "wait")
       ELSE ReturnCall(c) /\ UNCHANGED serving
    /\ UNCHANGED <<backend, node_vars, local_vars, channels, opened, links, handled>>

\* The call fails: no server, or the connection breaks before or after the
\* request arrived.  The channel stays in the cache and connects again by itself.
call_error(c) ==
    /\ Grpc /\ calls[c].pc \in {"rpc", "wait"}
    /\ ReturnCall(c)
    /\ UNCHANGED <<backend, node_vars, local_vars, grpc_vars, links, handled>>

\* demux_raft_call returns; it answers each request in a task of its own.
demux_raft_call(s) ==
    /\ s \in serving
    /\ serving' = serving \ {s}
    /\ Handle(s[1], s[2])
    /\ calls' = Answered(calls, s[2])
    /\ UNCHANGED <<backend, node_vars, local_vars, channels, opened, links>>

-----------------------------------------------------------------------------
\* The answer is there, or its sender was dropped with the loop.
response(c) ==
    /\ At(c, "wait")
    /\ calls[c].answered \/ (~Grpc /\ loop[calls[c].via] = Ended)
    /\ ReturnCall(c)
    /\ UNCHANGED <<backend, node_vars, local_vars, grpc_vars, links, handled>>

\* External: the core's RPC timeout drops the future at one of its awaits.
Timeout(c) ==
    /\ calls[c].pc \in {"flush", "wait", "connect", "rpc"}
    /\ ReturnCall(c)
    /\ UNCHANGED <<backend, node_vars, local_vars, grpc_vars, links, handled>>

NodeStep(h) ==
    \/ \E g \in Groups : create_group(h, g) \/ shutdown_raft(h, g)
    \/ shutdown(h) \/ shutdown_again(h) \/ shutdown_clear(h) \/ unregister_node(h)
    \/ ProcessEnds(h)

LoopStep(h) == run(h) \/ run_answer(h) \/ run_end(h)

CallStep(c) ==
    \/ push(c) \/ response(c)
    \/ connect(c) \/ connect_error(c) \/ insert(c) \/ record(c)
    \/ (\E h \in DOMAIN handles : call(c, h)) \/ call_error(c)

Next ==
    \/ \E n \in Nodes : start_node(n)
    \/ \E h \in DOMAIN handles : NodeStep(h) \/ LoopStep(h)
    \/ \E c \in Callers : send(c) \/ channel_for(c) \/ CallStep(c) \/ Timeout(c)
    \/ \E s \in serving : demux_raft_call(s)

\* What a call waits for over gRPC went with the process of its server: nobody
\* listens, or the connection on which it waits for the answer is closed.
ServerGone(c) ==
    IF At(c, "wait")
    THEN ~calls[c].answered /\ \A h \in DOMAIN handles : <<h, Request(c)>> \notin serving
    ELSE Server(NodeOf[c]) = {}

\* The steps of a call that are bound to come.  While the server's process lives
\* an error is possible, but nothing in GrpcRouter makes it come: no timeout, no
\* keepalive.
CallGoesOn(c) ==
    \/ push(c) \/ response(c)
    \/ connect(c) \/ insert(c) \/ record(c)
    \/ \E h \in DOMAIN handles : call(c, h)
    \/ ServerGone(c) /\ (connect_error(c) \/ call_error(c))

\* The runtime polls every task that can go on; a Raft answers or is stopped.
\* Timeouts, errors beside a living server, starts and shutdowns are not fair.
Fairness ==
    /\ \A c \in Callers : WF_vars(CallGoesOn(c))
    /\ \A h \in 1 .. MaxStarts : WF_vars(h \in DOMAIN handles /\ LoopStep(h))
    /\ \A r \in Requests : WF_vars(\E h \in DOMAIN handles : demux_raft_call(<<h, r>>))

Spec == Init /\ [][Next]_vars /\ Fairness

-----------------------------------------------------------------------------
(***************************************************************************)
(* Properties.                                                             *)
(***************************************************************************)
\* In process, the Rafts of a group handle the requests of one peer in the order
\* in which it made them, although timeouts leave requests behind in the queue
\* and a node may be stopped and started again: the loop is serial, and a
\* stopped handle's queue meets stopped Rafts or an empty map (Node::run,
\* MultiRaft::shutdown).
HandledInOrder == [][~Grpc => \A c \in Callers : handled'[c] >= handled[c]]_vars

\* A node that is up is registered under its own queue and its loop runs,
\* unless someone shut an old handle of it down once more (Router::register_node,
\* unregister_node, Node::run).
UpIsReachable ==
    \A h \in DOMAIN handles :
        ~Grpc /\ handles[h].stop = "up" /\ handles[h].node \notin Range(repeated)
            => registered[handles[h].node] = h /\ loop[h] # Ended

\* One link per peer, however many groups and calls share it.  Over gRPC all
\* calls to a peer use the cached channel, although several may have found the
\* cache empty at the same time, and unique_peer_links counts exactly the peers
\* with a channel, but for a call that is about to record its own; in process it
\* counts all nodes that can be reached (GrpcRouter::channel_for, ConnMetrics).
OneLinkPerPeer ==
    IF Grpc
    THEN /\ \A c \in Callers : calls[c].pc \in {"record", "rpc", "wait"}
                => calls[c].via = channels[NodeOf[c]]
         /\ links \cup {NodeOf[c] : c \in {d \in Callers : At(d, "record")}}
                = {n \in Nodes : channels[n] # 0}
    ELSE {n \in Nodes : registered[n] # 0} \subseteq links

\* Every RPC returns, without help from a timeout or from an error that nothing
\* brings about: queued behind other groups, parked, sent to a node that is shut
\* down, or over gRPC to a server whose process may end at any moment and start
\* again without the request (Router::send, Node::run, GrpcRouter::send).
SendReturns == \A c \in Callers : ~At(c, "idle") ~> At(c, "idle")
=============================================================================
