------------------------- MODULE GroupRouter_proofs -------------------------
(***************************************************************************)
(* Theorems about GroupRouter, for all nodes, groups, callers and bounds:  *)
(* both transports keep their types, a node that is up can be reached,     *)
(* there is one link per peer, and in process the requests of a caller are *)
(* handled in their order and nobody waits for an answer that cannot come. *)
(*                                                                         *)
(* The inductive invariant IInv follows a request on its way.  Shapes are  *)
(* the types.  Targets says that what is registered for a node is a handle *)
(* of it, Apart that queues and servers belong to one transport each, and  *)
(* Links which peers are counted.  Stages says which steps a call can be   *)
(* at with which transport, and what it goes through: a handle of its      *)
(* target, or a connection that was opened.  Single says that of the       *)
(* handles of a node at most one is not down, and that it alone has        *)
(* running Rafts.  Pushes says that a call about to push is newer than     *)
(* what was handled, and Line that the requests that a handle still has to *)
(* answer, the one in its loop and the ones in its queue, are in the order *)
(* in which their callers made them, and that those of a handle that is    *)
(* not down are all newer than what was handled before.                    *)
(***************************************************************************)
EXTENDS GroupRouter, SequenceTheorems, TLAPS

Stops == {"up", "stopping", "unregister", "down"}
HandleType == [node : Nodes, stop : Stops, groups : SUBSET Groups, alive : SUBSET Groups]
CallType == [pc : CallPcs, num : Nat, via : Nat, answered : BOOLEAN]

HandleShapes ==
    /\ handles \in Seq(HandleType) /\ Len(handles) <= MaxStarts
    /\ registered \in [Nodes -> Nat]
    /\ repeated \in Seq(Nodes)

QueueShapes ==
    /\ loop \in Seq(Requests \cup {Recv, Ended}) /\ Len(loop) = Len(handles)
    /\ queue \in Seq(Seq(Requests)) /\ Len(queue) = Len(handles)
    /\ parked \in Seq(Seq(Requests)) /\ Len(parked) = Len(handles)

LinkShapes ==
    /\ channels \in [Nodes -> Nat] /\ opened \in Nat
    /\ \A n \in Nodes : channels[n] <= opened
    /\ serving \subseteq (DOMAIN handles) \X Requests
    /\ links \subseteq Nodes

CallShapes ==
    /\ calls \in [Callers -> CallType]
    /\ handled \in [Callers -> Nat]
    /\ \A c \in Callers : calls[c].num <= MaxSends[c] /\ handled[c] <= MaxSends[c]

Shapes == backend \in Backends /\ HandleShapes /\ QueueShapes /\ LinkShapes /\ CallShapes

\* What is registered for a node is a handle of that node.
Targets ==
    \A n \in Nodes : registered[n] # 0 =>
        registered[n] \in DOMAIN handles /\ handles[registered[n]].node = n

\* A call in process goes through a handle of its target; a call over gRPC that
\* has a connection has one that was opened, and after insert the cached one.
Stage(c) ==
    IF Grpc
    THEN /\ calls[c].pc \in {"idle", "connect", "insert", "record", "rpc", "wait"}
         /\ calls[c].pc = "insert" => calls[c].via \in 1 .. opened
         /\ calls[c].pc \in {"record", "rpc", "wait"} =>
                calls[c].via # 0 /\ calls[c].via = channels[NodeOf[c]]
    ELSE /\ calls[c].pc \in {"idle", "push", "flush", "wait"}
         /\ calls[c].pc # "idle" => calls[c].via \in DOMAIN handles
                                    /\ handles[calls[c].via].node = NodeOf[c]

Stages == \A c \in Callers : Stage(c)

\* The loops have no part in gRPC, nor the servers in process.
Apart ==
    /\ ~Grpc => serving = {}
    /\ Grpc => \A h \in DOMAIN handles : loop[h] = Ended /\ queue[h] = <<>>

Links ==
    IF Grpc
    THEN /\ \A n \in links : channels[n] # 0
         /\ \A n \in Nodes : channels[n] # 0 =>
                n \in links \/ \E c \in Callers : NodeOf[c] = n /\ calls[c].pc = "record"
    ELSE \A n \in Nodes : registered[n] # 0 => n \in links

Single ==
    /\ \A g, h \in DOMAIN handles :
           handles[g].node = handles[h].node /\ handles[g].stop # "down" /\ handles[h].stop # "down"
               => g = h
    /\ \A h \in DOMAIN handles : handles[h].stop \in {"unregister", "down"} => handles[h].alive = {}

\* A call under way has a number; the one that is about to push was not handled.
Pushes ==
    \A c \in Callers : /\ calls[c].pc # "idle" => calls[c].num # 0
                       /\ ~Grpc => handled[c] <= calls[c].num
                       /\ calls[c].pc = "push" => handled[c] < calls[c].num

\* A request r that handle h still has to answer: made by a caller of h's node,
\* and not after the call that is about to push.
Made(h, r) ==
    /\ NodeOf[r[1]] = handles[h].node
    /\ r[2] <= calls[r[1]].num
    /\ calls[r[1]].pc = "push" => r[2] < calls[r[1]].num
    /\ handles[h].stop # "down" => handled[r[1]] < r[2]

Before(r, s) == r[1] = s[1] => r[2] < s[2]

LineAt(h) ==
    /\ \A i \in DOMAIN queue[h] : Made(h, queue[h][i])
    /\ \A i, j \in DOMAIN queue[h] : i < j => Before(queue[h][i], queue[h][j])
    /\ loop[h] \in Requests =>
           Made(h, loop[h]) /\ \A i \in DOMAIN queue[h] : Before(loop[h], queue[h][i])

Line == \A h \in DOMAIN handles : LineAt(h)

IInv ==
    /\ Shapes /\ Targets /\ Stages /\ Apart /\ Links /\ Single /\ Pushes /\ Line
    /\ UpIsReachable

-----------------------------------------------------------------------------
(***************************************************************************)
(* Lemmas.                                                                 *)
(***************************************************************************)

\* A request is a caller and a number of it; it is none of the marks of an idle
\* or an ended loop.
LEMMA RequestFacts ==
    /\ \A r \in Requests : /\ r[1] \in Callers /\ r[2] \in 1 .. MaxSends[r[1]]
                           /\ r[2] \in Nat /\ r = <<r[1], r[2]>>
    /\ \A c \in Callers : \A k \in 1 .. MaxSends[c] : <<c, k>> \in Requests
    /\ Recv \notin Requests /\ Ended \notin Requests /\ Recv # Ended
<1>1. \A r \in Requests : /\ r[1] \in Callers /\ r[2] \in 1 .. MaxSends[r[1]]
                          /\ r[2] \in Nat /\ r = <<r[1], r[2]>>
  BY RouterAssumption DEF Requests
<1>2. \A c \in Callers : \A k \in 1 .. MaxSends[c] : <<c, k>> \in Requests
  BY DEF Requests
<1>3. Recv \notin Requests /\ Ended \notin Requests
  BY DEF Requests, Recv, Ended
<1>4. Recv # Ended
  BY DEF Recv, Ended
<1> QED  BY <1>1, <1>2, <1>3, <1>4

\* What a handle consists of.
LEMMA HandleFacts ==
    ASSUME HandleShapes, NEW h \in DOMAIN handles
    PROVE  /\ handles[h] \in HandleType
           /\ handles[h].node \in Nodes /\ handles[h].stop \in Stops
           /\ handles[h].groups \in SUBSET Groups /\ handles[h].alive \in SUBSET Groups
<1>1. handles[h] \in HandleType
  BY ElementOfSeq DEF HandleShapes
<1> QED  BY <1>1 DEF HandleType

\* What a step does to the calls when it makes at most new ones: numbers do not
\* go down, and a call that is about to push has a number of its own.
CallsGrow ==
    /\ calls' \in [Callers -> CallType]
    /\ \A c \in Callers :
           \/ calls'[c] = calls[c]
           \/ /\ calls[c].num <= calls'[c].num /\ calls'[c].num <= MaxSends[c]
              /\ calls'[c].pc # "idle" => calls[c].pc # "idle" \/ calls[c].num < calls'[c].num
              /\ calls'[c].pc = "push" => ~Grpc /\ calls[c].num < calls'[c].num

\* What a step does to the handles when it starts none.
HandlesKeep ==
    /\ handles' \in Seq(HandleType) /\ Len(handles') = Len(handles)
    /\ \A h \in DOMAIN handles :
           /\ handles'[h].node = handles[h].node
           /\ handles[h].stop = "down" => handles'[h].stop = "down"

\* Such steps keep the types of the calls.
LEMMA CallsKeep ==
    ASSUME CallShapes, CallsGrow, handled' = handled, backend' = backend, Pushes
    PROVE  CallShapes' /\ Pushes'
<1>1. \A c \in Callers : calls[c].num \in Nat /\ calls'[c].num \in Nat /\ handled[c] \in Nat /\ MaxSends[c] \in Nat
  BY RouterAssumption DEF CallShapes, CallsGrow, CallType
<1>2. CallShapes'
  BY <1>1 DEF CallShapes, CallsGrow
<1>3. Pushes'
  <2> SUFFICES ASSUME NEW c \in Callers
               PROVE  /\ calls'[c].pc # "idle" => calls'[c].num # 0
                      /\ ~Grpc => handled[c] <= calls'[c].num
                      /\ calls'[c].pc = "push" => handled[c] < calls'[c].num
    BY DEF Pushes, Grpc
  <2>1. CASE calls'[c] = calls[c]
    BY <2>1 DEF Pushes
  <2>2. CASE calls'[c] # calls[c]
    <3>1. /\ calls[c].num <= calls'[c].num
          /\ calls'[c].pc # "idle" => calls[c].pc # "idle" \/ calls[c].num < calls'[c].num
          /\ calls'[c].pc = "push" => ~Grpc /\ calls[c].num < calls'[c].num
      BY <2>2 DEF CallsGrow
    <3>2. /\ calls[c].pc # "idle" => calls[c].num # 0
          /\ ~Grpc => handled[c] <= calls[c].num
      BY DEF Pushes
    <3> QED  BY <1>1, <3>1, <3>2
  <2> QED  BY <2>1, <2>2
<1> QED  BY <1>2, <1>3

\* A request that a handle has to answer stays one.
LEMMA MadeStays ==
    ASSUME Shapes, CallsGrow, handled' = handled, HandlesKeep,
           NEW h \in DOMAIN handles, NEW r \in Requests, Made(h, r)
    PROVE  Made(h, r)'
<1>1. r[1] \in Callers /\ r[2] \in Nat
  BY RequestFacts
<1>2. calls[r[1]].num \in Nat /\ calls'[r[1]].num \in Nat
  BY <1>1 DEF Shapes, CallShapes, CallsGrow, CallType
<1>3. r[2] <= calls'[r[1]].num /\ (calls'[r[1]].pc = "push" => r[2] < calls'[r[1]].num)
  BY <1>1, <1>2 DEF CallsGrow, Made
<1> QED  BY <1>3 DEF Made, HandlesKeep

\* The line of a handle stays when its requests stay and no new one comes.
LEMMA LineAtStays ==
    ASSUME Shapes, NEW h \in DOMAIN handles, LineAt(h),
           queue'[h] = queue[h], loop'[h] = loop[h] \/ loop'[h] \notin Requests,
           \A r \in Requests : Made(h, r) => Made(h, r)'
    PROVE  LineAt(h)'
<1>1. queue[h] \in Seq(Requests)
  BY DEF Shapes, HandleShapes, QueueShapes
<1>2. ASSUME NEW i \in DOMAIN queue[h]
      PROVE  Made(h, queue[h][i])'
  <2>1. PICK r \in Requests : r = queue[h][i]
    BY <1>1, <1>2
  <2>2. Made(h, r)'
    BY <2>1 DEF LineAt
  <2> QED  BY <2>1, <2>2 DEF Made
<1>3. ASSUME loop'[h] \in Requests
      PROVE  Made(h, loop[h])'
  <2>1. PICK r \in Requests : r = loop[h]
    BY <1>3
  <2>2. Made(h, r)'
    BY <2>1 DEF LineAt
  <2> QED  BY <1>3, <2>1, <2>2 DEF Made
<1> QED  BY <1>2, <1>3 DEF LineAt, Before

\* Steps that leave the loops and the queues alone keep the line.
LEMMA LineStays ==
    ASSUME Shapes, CallsGrow, HandlesKeep, Line, UNCHANGED <<queue, loop, handled>>
    PROVE  Line'
<1>1. DOMAIN handles' = DOMAIN handles
  BY DEF Shapes, HandleShapes, HandlesKeep
<1>2. ASSUME NEW h \in DOMAIN handles
      PROVE  LineAt(h)'
  <2>1. \A r \in Requests : Made(h, r) => Made(h, r)'
    BY MadeStays
  <2> QED  BY <2>1, LineAtStays DEF Line
<1> QED  BY <1>1, <1>2 DEF Line

-----------------------------------------------------------------------------
(***************************************************************************)
(* The steps of nodes.                                                     *)
(***************************************************************************)

\* A handle that is not down changes its state, its map or its Rafts.
LEMMA HandleStep ==
    ASSUME IInv, NEW h \in DOMAIN handles, handles[h].stop # "down",
           NEW s \in Stops, NEW gs \in SUBSET Groups, NEW al \in SUBSET Groups,
           SetHandle(h, s, gs, al),
           s \in {"unregister", "down"} => al = {},
           s = "up" => handles[h].stop = "up",
           UNCHANGED <<backend, loop, repeated, local_vars, channels, opened, links, calls, handled>>,
           serving' \subseteq serving,
           \/ registered' = registered
           \/ s = "down" /\ registered' = [registered EXCEPT ![handles[h].node] = 0]
    PROVE  IInv'
<1>1. handles \in Seq(HandleType) /\ handles[h].node \in Nodes
  BY HandleFacts DEF IInv, Shapes, HandleShapes
<1>2. /\ handles' \in Seq(HandleType) /\ Len(handles') = Len(handles)
      /\ DOMAIN handles' = DOMAIN handles
      /\ handles'[h] = [node |-> handles[h].node, stop |-> s, groups |-> gs, alive |-> al]
      /\ \A k \in DOMAIN handles : k # h => handles'[k] = handles[k]
  BY <1>1 DEF SetHandle, HandleType
<1>3. \A k \in DOMAIN handles : /\ handles'[k].node = handles[k].node
                                /\ handles[k].stop = "down" => handles'[k].stop = "down"
                                /\ handles'[k].stop = "up" => handles[k].stop = "up"
  BY <1>2
<1>4. HandlesKeep /\ Grpc' = Grpc
  BY <1>2, <1>3 DEF HandlesKeep, Grpc
<1>5. CallsGrow
  BY DEF CallsGrow, IInv, Shapes, CallShapes
<1>6. Shapes'
  <2>1. HandleShapes'
    BY <1>1, <1>2 DEF IInv, Shapes, HandleShapes
  <2>2. QueueShapes' /\ LinkShapes' /\ CallShapes'
    BY <1>2 DEF IInv, Shapes, QueueShapes, LinkShapes, CallShapes, local_vars
  <2> QED  BY <2>1, <2>2 DEF IInv, Shapes
<1>7. Targets'
  BY <1>1, <1>2, <1>3 DEF IInv, Targets, Shapes, HandleShapes
<1>8. Stages' /\ Apart'
  BY <1>2, <1>3, <1>4 DEF IInv, Stages, Stage, Apart, local_vars
<1>9. Links'
  BY <1>1, <1>4 DEF IInv, Links, Shapes, HandleShapes
<1>10. Single'
  BY <1>2, <1>3 DEF IInv, Single
<1>11. Pushes' /\ Line'
  BY <1>4, <1>5, CallsKeep, LineStays DEF IInv, Shapes, local_vars
<1>12. UpIsReachable'
  <2> SUFFICES ASSUME NEW k \in DOMAIN handles, ~Grpc, handles'[k].stop = "up",
                      handles'[k].node \notin Range(repeated)
               PROVE  registered'[handles'[k].node] = k /\ loop[k] # Ended
    BY <1>2, <1>4 DEF UpIsReachable
  <2>1. handles[k].stop = "up" /\ registered[handles[k].node] = k /\ loop[k] # Ended
    BY <1>3 DEF IInv, UpIsReachable
  <2>2. s = "down" => handles[k].node # handles[h].node
    BY <1>2, <2>1 DEF IInv, Single
  <2>3. handles[k].node \in Nodes
    BY HandleFacts DEF IInv, Shapes
  <2> QED  BY <1>1, <1>3, <2>1, <2>2, <2>3 DEF IInv, Shapes, HandleShapes
<1> QED  BY <1>6, <1>7, <1>8, <1>9, <1>10, <1>11, <1>12 DEF IInv

\* create_group, shutdown and its steps, and the end of a process.
LEMMA NodeStepOK ==
    ASSUME IInv, NEW h \in DOMAIN handles, NodeStep(h), ~shutdown_again(h)
    PROVE  IInv'
<1>1. /\ handles[h].groups \in SUBSET Groups /\ handles[h].alive \in SUBSET Groups
      /\ handles[h].stop \in Stops /\ handles[h].node \in Nodes
  BY HandleFacts DEF IInv, Shapes
<1>2. ASSUME NEW g \in Groups, create_group(h, g)
      PROVE  IInv'
  BY <1>1, <1>2, HandleStep DEF create_group, Stops, local_vars, grpc_vars
<1>3. ASSUME NEW g \in Groups, shutdown_raft(h, g)
      PROVE  IInv'
  BY <1>1, <1>3, HandleStep DEF shutdown_raft, Stops, local_vars, grpc_vars
<1>4. CASE shutdown(h)
  BY <1>1, <1>4, HandleStep DEF shutdown, Stop, Stops, local_vars, grpc_vars
<1>5. CASE shutdown_clear(h)
  BY <1>1, <1>5, HandleStep DEF shutdown_clear, Stops, local_vars, grpc_vars
<1>6. CASE unregister_node(h)
  <2>1. handles[h].alive = {}
    BY <1>6 DEF unregister_node, IInv, Single
  <2> QED  BY <1>1, <1>6, <2>1, HandleStep DEF unregister_node, Stop, Stops, local_vars, grpc_vars
<1>7. CASE ProcessEnds(h)
  BY <1>1, <1>7, HandleStep DEF ProcessEnds, Stops, local_vars
<1> QED  BY <1>2, <1>3, <1>4, <1>5, <1>6, <1>7 DEF NodeStep

\* A second shutdown of a handle unregisters its node.
LEMMA AgainOK ==
    ASSUME IInv, NEW h \in DOMAIN handles, shutdown_again(h)
    PROVE  IInv'
<1>1. /\ ~Grpc /\ handles[h].node \in Nodes
      /\ repeated' = Append(repeated, handles[h].node)
      /\ registered' = [registered EXCEPT ![handles[h].node] = 0]
      /\ UNCHANGED <<backend, handles, loop, queue, parked, channels, opened, serving, links, calls, handled>>
  BY HandleFacts DEF shutdown_again, IInv, Shapes, local_vars, grpc_vars
<1>2. HandlesKeep /\ CallsGrow /\ Grpc' = Grpc
  BY <1>1 DEF HandlesKeep, CallsGrow, Grpc, IInv, Shapes, HandleShapes, CallShapes
<1>3. Shapes'
  <2>1. HandleShapes'
    BY <1>1 DEF IInv, Shapes, HandleShapes
  <2>2. QueueShapes' /\ LinkShapes' /\ CallShapes'
    BY <1>1 DEF IInv, Shapes, QueueShapes, LinkShapes, CallShapes
  <2> QED  BY <1>1, <2>1, <2>2 DEF IInv, Shapes
<1>4. Targets' /\ Stages' /\ Apart' /\ Links' /\ Single'
  BY <1>1, <1>2 DEF IInv, Targets, Stages, Stage, Apart, Links, Single, Shapes, HandleShapes
<1>5. Pushes' /\ Line'
  BY <1>1, <1>2, CallsKeep, LineStays DEF IInv, Shapes
<1>6. UpIsReachable'
  <2>1. Range(repeated') = Range(repeated) \cup {handles[h].node}
    <3>1. repeated \in Seq(Nodes)
      BY DEF IInv, Shapes, HandleShapes
    <3>2. /\ Len(repeated') = Len(repeated) + 1 /\ DOMAIN repeated' = 1 .. Len(repeated')
          /\ DOMAIN repeated = 1 .. Len(repeated) /\ Len(repeated) \in Nat
          /\ repeated'[Len(repeated) + 1] = handles[h].node
          /\ \A i \in 1 .. Len(repeated) : repeated'[i] = repeated[i]
      BY <1>1, <3>1
    <3> QED  BY <3>2 DEF Range
  <2> QED  BY <1>1, <1>2, <2>1 DEF IInv, UpIsReachable, Shapes, HandleShapes
<1> QED  BY <1>3, <1>4, <1>5, <1>6 DEF IInv

\* A node is started: its new handle has an empty queue, and the others are down.
LEMMA StartOK ==
    ASSUME IInv, NEW n \in Nodes, start_node(n)
    PROVE  IInv'
<1>0. PICK H \in Nat : H = Len(handles) + 1
  BY DEF IInv, Shapes, HandleShapes
<1>1. /\ Len(handles) \in Nat /\ Len(handles) < MaxStarts
      /\ \A h \in DOMAIN handles : handles[h].node = n => handles[h].stop = "down"
      /\ handles' = Append(handles, [node |-> n, stop |-> "up", groups |-> {}, alive |-> {}])
      /\ queue' = Append(queue, <<>>) /\ parked' = Append(parked, <<>>)
      /\ loop' = Append(loop, IF Grpc THEN Ended ELSE Recv)
      /\ UNCHANGED <<backend, channels, opened, serving, calls, handled, repeated>>
  BY DEF start_node, Handles, IInv, Shapes, HandleShapes, grpc_vars
<1>2. /\ handles' \in Seq(HandleType) /\ Len(handles') = H
      /\ DOMAIN handles' = DOMAIN handles \cup {H} /\ H \notin DOMAIN handles
      /\ handles'[H] = [node |-> n, stop |-> "up", groups |-> {}, alive |-> {}]
      /\ \A h \in DOMAIN handles : handles'[h] = handles[h]
  <2>1. [node |-> n, stop |-> "up", groups |-> {}, alive |-> {}] \in HandleType
    BY DEF HandleType, Stops
  <2> QED  BY <1>0, <1>1, <2>1 DEF IInv, Shapes, HandleShapes
<1>3. /\ loop' \in Seq(Requests \cup {Recv, Ended}) /\ Len(loop') = H
      /\ loop'[H] = (IF Grpc THEN Ended ELSE Recv)
      /\ \A h \in DOMAIN handles : loop'[h] = loop[h]
  BY <1>0, <1>1 DEF IInv, Shapes, HandleShapes, QueueShapes
<1>4. /\ queue' \in Seq(Seq(Requests)) /\ Len(queue') = H
      /\ queue'[H] = <<>> /\ \A h \in DOMAIN handles : queue'[h] = queue[h]
      /\ parked' \in Seq(Seq(Requests)) /\ Len(parked') = H
  BY <1>0, <1>1 DEF IInv, Shapes, HandleShapes, QueueShapes
<1>5. /\ Grpc' = Grpc
      /\ Grpc => registered' = registered /\ links' = links
      /\ ~Grpc => registered' = [registered EXCEPT ![n] = H] /\ links' = links \cup {n}
  BY <1>1, <1>2 DEF start_node, register_node, record_peer, Grpc
<1>6. H \in Nat /\ H # 0 /\ \A h \in DOMAIN handles : h \in Nat /\ h # H
  BY <1>1, <1>2, <1>0 DEF IInv, Shapes, HandleShapes
<1>7. Shapes'
  <2>1. HandleShapes'
    <3>1. Len(handles') <= MaxStarts
      BY <1>1, <1>2, RouterAssumption, <1>0
    <3>2. registered' \in [Nodes -> Nat]
      BY <1>5, <1>6 DEF IInv, Shapes, HandleShapes
    <3> QED  BY <1>1, <1>2, <3>1, <3>2 DEF IInv, Shapes, HandleShapes
  <2>2. QueueShapes'
    BY <1>2, <1>3, <1>4 DEF QueueShapes
  <2>3. LinkShapes'
    BY <1>1, <1>2, <1>5 DEF IInv, Shapes, LinkShapes
  <2>4. CallShapes'
    BY <1>1 DEF IInv, Shapes, CallShapes
  <2> QED  BY <1>1, <2>1, <2>2, <2>3, <2>4 DEF IInv, Shapes
<1>8. Targets'
  BY <1>2, <1>5 DEF IInv, Targets, Shapes, HandleShapes
<1>9. Stages' /\ Apart'
  BY <1>1, <1>2, <1>3, <1>4, <1>5 DEF IInv, Stages, Stage, Apart
<1>10. Links'
  BY <1>1, <1>5 DEF IInv, Links, Shapes, HandleShapes
<1>11. Single'
  BY <1>1, <1>2 DEF IInv, Single
<1>12. Pushes'
  BY <1>1, <1>5 DEF IInv, Pushes
<1>13. Line'
  <2>1. loop'[H] \notin Requests
    BY <1>3, RequestFacts
  <2>2. DOMAIN queue'[H] = {}
    BY <1>4
  <2>3. \A h \in DOMAIN handles : \A r : Made(h, r) => Made(h, r)'
    BY <1>1, <1>2 DEF Made
  <2>4. \A h \in DOMAIN handles : LineAt(h)'
    BY <1>3, <1>4, <2>3, LineAtStays DEF IInv, Line
  <2>5. LineAt(H)'
    BY <2>1, <2>2 DEF LineAt
  <2> QED  BY <1>2, <2>4, <2>5 DEF Line
<1>14. UpIsReachable'
  <2>1. Range(repeated') = Range(repeated)
    BY <1>1
  <2>2. ASSUME NEW h \in DOMAIN handles, ~Grpc, handles[h].stop = "up",
               handles[h].node \notin Range(repeated)
        PROVE  registered'[handles[h].node] = h /\ loop'[h] # Ended
    <3>1. registered[handles[h].node] = h /\ loop[h] # Ended
      BY <2>2 DEF IInv, UpIsReachable
    <3>2. handles[h].node \in Nodes /\ handles[h].node # n
      BY <1>1, <2>2, HandleFacts DEF IInv, Shapes
    <3> QED  BY <1>3, <1>5, <2>2, <3>1, <3>2 DEF IInv, Shapes, HandleShapes
  <2>3. ~Grpc => registered'[n] = H /\ loop'[H] # Ended
    BY <1>3, <1>5, RequestFacts DEF IInv, Shapes, HandleShapes
  <2> QED  BY <1>2, <1>5, <2>1, <2>2, <2>3 DEF UpIsReachable
<1> QED  BY <1>7, <1>8, <1>9, <1>10, <1>11, <1>12, <1>13, <1>14 DEF IInv

-----------------------------------------------------------------------------
(***************************************************************************)
(* The steps of calls.                                                     *)
(***************************************************************************)

\* What a call consists of.
LEMMA CallFacts ==
    ASSUME CallShapes, NEW c \in Callers
    PROVE  /\ calls[c] \in CallType /\ calls[c].pc \in CallPcs
           /\ calls[c].num \in Nat /\ calls[c].via \in Nat /\ calls[c].answered \in BOOLEAN
           /\ calls[c].num <= MaxSends[c] /\ MaxSends[c] \in Nat /\ NodeOf[c] \in Nodes
BY RouterAssumption DEF CallShapes, CallType

\* A call gets a new place, and perhaps a new number.
LEMMA SetCallFacts ==
    ASSUME CallShapes, NEW c \in Callers, NEW pc \in CallPcs, NEW num \in Nat, NEW via \in Nat,
           calls[c].num <= num, num <= MaxSends[c], pc = "push" => ~Grpc /\ calls[c].num < num,
           pc # "idle" => calls[c].pc # "idle" \/ calls[c].num < num,
           SetCall(c, pc, num, via)
    PROVE  /\ CallsGrow
           /\ calls'[c] = [pc |-> pc, num |-> num, via |-> via, answered |-> FALSE]
           /\ \A d \in Callers : d # c => calls'[d] = calls[d]
<1>1. /\ calls'[c] = [pc |-> pc, num |-> num, via |-> via, answered |-> FALSE]
      /\ \A d \in Callers : d # c => calls'[d] = calls[d]
  BY DEF SetCall, CallShapes
<1>2. calls' \in [Callers -> CallType]
  BY DEF SetCall, CallShapes, CallType
<1> QED  BY <1>1, <1>2 DEF CallsGrow

\* A call goes on, or returns.
LEMMA GotoViaFacts ==
    ASSUME CallShapes, NEW c \in Callers, NEW pc \in CallPcs, NEW via \in Nat,
           pc # "push", pc # "idle" => calls[c].pc # "idle", GotoVia(c, pc, via)
    PROVE  /\ CallsGrow
           /\ calls'[c].pc = pc /\ calls'[c].num = calls[c].num /\ calls'[c].via = via
           /\ \A d \in Callers : d # c => calls'[d] = calls[d]
<1>1. /\ calls[c].num \in Nat /\ calls[c].num <= calls[c].num /\ calls[c].num <= MaxSends[c]
      /\ SetCall(c, pc, calls[c].num, via)
  BY CallFacts DEF GotoVia
<1>2. /\ CallsGrow
      /\ calls'[c] = [pc |-> pc, num |-> calls[c].num, via |-> via, answered |-> FALSE]
      /\ \A d \in Callers : d # c => calls'[d] = calls[d]
  BY <1>1, SetCallFacts
<1> QED  BY <1>2

\* A call goes on as it is.
LEMMA GotoFacts ==
    ASSUME CallShapes, NEW c \in Callers, NEW pc \in CallPcs, pc # "push",
           calls[c].pc # "idle", Goto(c, pc)
    PROVE  /\ CallsGrow
           /\ calls'[c].pc = pc /\ calls'[c].num = calls[c].num /\ calls'[c].via = calls[c].via
           /\ \A d \in Callers : d # c => calls'[d] = calls[d]
<1>1. /\ calls'[c].pc = pc /\ calls'[c].num = calls[c].num /\ calls'[c].via = calls[c].via
      /\ calls'[c].answered = calls[c].answered
      /\ \A d \in Callers : d # c => calls'[d] = calls[d]
  BY CallFacts DEF Goto, CallShapes, CallType
<1>2. calls' \in [Callers -> CallType]
  BY DEF Goto, CallShapes, CallType
<1> QED  BY <1>1, <1>2, CallFacts DEF CallsGrow

\* A step of a call that leaves nodes and queues alone.  A channel that it
\* caches is recorded by itself, and it does not take a record back.
LEMMA CallOK ==
    ASSUME IInv, NEW c \in Callers, CallsGrow,
           \A d \in Callers : d # c => calls'[d] = calls[d],
           UNCHANGED <<backend, node_vars, local_vars, handled>>,
           Stage(c)',
           opened' \in Nat, opened <= opened', channels' \in [Nodes -> Nat],
           \A n \in Nodes : channels'[n] <= opened' /\ (channels[n] # 0 => channels'[n] = channels[n]),
           \A n \in Nodes : channels'[n] # channels[n] => n = NodeOf[c] /\ calls'[c].pc = "record",
           serving' \subseteq (DOMAIN handles) \X Requests, ~Grpc => serving' = {},
           links \subseteq links', links' \subseteq links \cup {NodeOf[c]},
           Grpc /\ links' # links => channels'[NodeOf[c]] # 0,
           calls[c].pc = "record" => NodeOf[c] \in links'
    PROVE  IInv'
<1>1. Grpc' = Grpc
  BY DEF Grpc
<1>2. UNCHANGED <<handles, registered, loop, repeated, queue, parked, handled, backend>>
  BY DEF node_vars, local_vars
<1>3. HandlesKeep
  BY <1>2 DEF HandlesKeep, IInv, Shapes, HandleShapes
<1>4. CallShapes' /\ Pushes' /\ Line'
  BY <1>2, <1>3, CallsKeep, LineStays DEF IInv, Shapes
<1>5. Shapes'
  <2>1. LinkShapes'
    BY <1>2, CallFacts DEF IInv, Shapes, LinkShapes
  <2> QED  BY <1>2, <1>4, <2>1 DEF IInv, Shapes, HandleShapes, QueueShapes
<1>6. Targets' /\ Single' /\ UpIsReachable'
  BY <1>1, <1>2 DEF IInv, Targets, Single, UpIsReachable
<1>7. Stages'
  <2> SUFFICES ASSUME NEW d \in Callers, d # c
               PROVE  Stage(d)'
    BY DEF Stages
  <2>1. Stage(d) /\ calls'[d] = calls[d] /\ NodeOf[d] \in Nodes
    BY CallFacts DEF IInv, Stages, Shapes
  <2>2. opened \in Nat /\ channels[NodeOf[d]] # 0 => channels'[NodeOf[d]] = channels[NodeOf[d]]
    BY <2>1
  <2>3. opened \in Nat
    BY DEF IInv, Shapes, LinkShapes
  <2>4. CASE Grpc
    BY <1>1, <2>1, <2>2, <2>3, <2>4 DEF Stage
  <2>5. CASE ~Grpc
    BY <1>1, <1>2, <2>1, <2>5 DEF Stage
  <2> QED  BY <2>4, <2>5
<1>8. Apart'
  BY <1>1, <1>2 DEF IInv, Apart
<1>9. Links'
  <2>1. NodeOf[c] \in Nodes /\ links \subseteq Nodes
    BY CallFacts DEF IInv, Shapes, LinkShapes
  <2>2. CASE Grpc
    <3>1. \A n \in links' : channels'[n] # 0
      BY <2>1, <2>2 DEF IInv, Links, Shapes, LinkShapes
    <3>2. ASSUME NEW n \in Nodes, channels'[n] # 0
          PROVE  n \in links' \/ \E d \in Callers : NodeOf[d] = n /\ calls'[d].pc = "record"
      <4>1. CASE channels'[n] # channels[n]
        BY <4>1, <3>2
      <4>2. CASE channels'[n] = channels[n]
        <5>1. n \in links \/ \E d \in Callers : NodeOf[d] = n /\ calls[d].pc = "record"
          BY <2>2, <3>2, <4>2 DEF IInv, Links
        <5> QED  BY <5>1
      <4> QED  BY <4>1, <4>2
    <3> QED  BY <1>1, <2>2, <3>1, <3>2 DEF Links
  <2>3. CASE ~Grpc
    BY <1>1, <1>2, <2>3 DEF IInv, Links
  <2> QED  BY <2>2, <2>3
<1> QED  BY <1>4, <1>5, <1>6, <1>7, <1>8, <1>9 DEF IInv

\* A call that is at no step of channel_for returns: an error, an answer or a
\* timeout.
LEMMA ReturnOK ==
    ASSUME IInv, NEW c \in Callers, ReturnCall(c), calls[c].pc # "record",
           UNCHANGED <<backend, node_vars, local_vars, grpc_vars, links, handled>>
    PROVE  IInv'
<1>1. /\ CallsGrow /\ calls'[c].pc = "idle"
      /\ \A d \in Callers : d # c => calls'[d] = calls[d]
  BY GotoViaFacts DEF ReturnCall, CallPcs, IInv, Shapes
<1>2. Stage(c)'
  BY <1>1 DEF Stage
<1>3. UNCHANGED <<channels, opened, serving, links>>
  BY DEF grpc_vars
<1>4. /\ opened' \in Nat /\ opened <= opened' /\ channels' \in [Nodes -> Nat]
      /\ \A n \in Nodes : channels'[n] <= opened' /\ channels'[n] = channels[n]
      /\ serving' \subseteq (DOMAIN handles) \X Requests /\ (~Grpc => serving' = {})
  BY <1>3 DEF IInv, Shapes, LinkShapes, Apart
<1> QED  BY <1>1, <1>2, <1>3, <1>4, CallOK

\* Router::send and GrpcRouter::channel_for begin a call.
LEMMA BeginOK ==
    ASSUME IInv, NEW c \in Callers, send(c) \/ channel_for(c)
    PROVE  IInv'
<1>1. /\ UNCHANGED <<backend, node_vars, local_vars, handled>>
      /\ UNCHANGED <<channels, opened, serving, links>>
      /\ calls[c].pc = "idle" /\ calls[c].num < MaxSends[c]
  BY DEF send, channel_for, CanSend, At, grpc_vars
<1>2. /\ opened' \in Nat /\ opened <= opened' /\ channels' \in [Nodes -> Nat]
      /\ \A n \in Nodes : channels'[n] <= opened' /\ channels'[n] = channels[n]
      /\ serving' \subseteq (DOMAIN handles) \X Requests /\ (~Grpc => serving' = {})
  BY <1>1 DEF IInv, Shapes, LinkShapes, Apart
<1>3. /\ calls[c].num \in Nat /\ MaxSends[c] \in Nat /\ NodeOf[c] \in Nodes
  BY CallFacts DEF IInv, Shapes
<1>4. ASSUME NEW pc \in CallPcs, NEW via \in Nat, pc = "push" => ~Grpc, Begin(c, pc, via)
      PROVE  /\ CallsGrow /\ calls'[c].pc = pc /\ calls'[c].via = via
             /\ \A d \in Callers : d # c => calls'[d] = calls[d]
  <2>1. /\ calls[c].num + 1 \in Nat /\ calls[c].num <= calls[c].num + 1
        /\ calls[c].num < calls[c].num + 1 /\ calls[c].num + 1 <= MaxSends[c]
        /\ SetCall(c, pc, calls[c].num + 1, via)
    BY <1>1, <1>3, <1>4 DEF Begin
  <2>2. /\ CallsGrow
        /\ calls'[c] = [pc |-> pc, num |-> calls[c].num + 1, via |-> via, answered |-> FALSE]
        /\ \A d \in Callers : d # c => calls'[d] = calls[d]
    BY <1>4, <2>1, SetCallFacts DEF IInv, Shapes
  <2> QED  BY <2>2
<1>5. CASE send(c)
  <2>1. ~Grpc /\ registered[NodeOf[c]] \in Nat
    BY <1>3, <1>5 DEF send, IInv, Shapes, HandleShapes
  <2>2. /\ CallsGrow /\ \A d \in Callers : d # c => calls'[d] = calls[d]
        /\ calls'[c].via = registered[NodeOf[c]]
        /\ calls'[c].pc = IF registered[NodeOf[c]] = 0 THEN "idle" ELSE "push"
    BY <1>4, <1>5, <2>1 DEF send, CallPcs
  <2>3. Stage(c)'
    BY <1>1, <1>3, <2>1, <2>2 DEF Stage, Grpc, node_vars, IInv, Targets
  <2> QED  BY <1>1, <1>2, <2>2, <2>3, CallOK
<1>6. CASE channel_for(c)
  <2>1. Grpc /\ channels[NodeOf[c]] \in Nat
    BY <1>3, <1>6 DEF channel_for, IInv, Shapes, LinkShapes
  <2>2. /\ CallsGrow /\ \A d \in Callers : d # c => calls'[d] = calls[d]
        /\ calls'[c].via = channels[NodeOf[c]]
        /\ calls'[c].pc = IF channels[NodeOf[c]] = 0 THEN "connect" ELSE "rpc"
    BY <1>4, <1>6, <2>1 DEF channel_for, CallPcs
  <2>3. Stage(c)'
    BY <1>1, <2>1, <2>2 DEF Stage, Grpc
  <2> QED  BY <1>1, <1>2, <2>2, <2>3, CallOK
<1> QED  BY <1>5, <1>6

\* A connection is opened, put into the cache unless one is there, and recorded.
LEMMA ConnectOK ==
    ASSUME IInv, NEW c \in Callers, connect(c) \/ insert(c) \/ record(c)
    PROVE  IInv'
<1>1. /\ opened \in Nat /\ channels \in [Nodes -> Nat] /\ \A n \in Nodes : channels[n] <= opened
      /\ serving \subseteq (DOMAIN handles) \X Requests /\ (~Grpc => serving = {})
      /\ calls[c].via \in Nat /\ NodeOf[c] \in Nodes /\ Stage(c)
  BY CallFacts DEF IInv, Shapes, LinkShapes, Apart, Stages
<1>2. Grpc
  BY <1>1 DEF connect, insert, record, At, Stage
<1>3. CASE connect(c)
  <2>1. /\ opened' = opened + 1 /\ GotoVia(c, "insert", opened') /\ calls[c].pc = "connect"
        /\ UNCHANGED <<backend, node_vars, local_vars, handled>> /\ UNCHANGED <<channels, serving, links>>
    BY <1>3 DEF connect, At
  <2>2. opened' \in Nat /\ opened <= opened' /\ opened' \in 1 .. opened'
    BY <1>1, <2>1
  <2>3. /\ CallsGrow /\ \A d \in Callers : d # c => calls'[d] = calls[d]
        /\ calls'[c].pc = "insert" /\ calls'[c].via = opened'
    BY <2>1, <2>2, GotoViaFacts DEF CallPcs, IInv, Shapes
  <2>4. Stage(c)'
    BY <1>2, <2>1, <2>2, <2>3 DEF Stage, Grpc
  <2>5. \A n \in Nodes : channels'[n] <= opened' /\ channels'[n] = channels[n]
    BY <1>1, <2>1
  <2>6. channels' \in [Nodes -> Nat] /\ serving' \subseteq (DOMAIN handles) \X Requests
    BY <1>1, <2>1
  <2> QED  BY <1>2, <2>1, <2>2, <2>3, <2>4, <2>5, <2>6, CallOK
<1>4. CASE insert(c) /\ channels[NodeOf[c]] # 0
  <2>1. /\ GotoVia(c, "rpc", channels[NodeOf[c]]) /\ calls[c].pc = "insert"
        /\ UNCHANGED <<backend, node_vars, local_vars, handled>>
        /\ UNCHANGED <<channels, opened, serving, links>>
    BY <1>4 DEF insert, At
  <2>2. channels[NodeOf[c]] \in Nat
    BY <1>1
  <2>3. /\ CallsGrow /\ \A d \in Callers : d # c => calls'[d] = calls[d]
        /\ calls'[c].pc = "rpc" /\ calls'[c].via = channels[NodeOf[c]]
    BY <2>1, <2>2, GotoViaFacts DEF CallPcs, IInv, Shapes
  <2>4. Stage(c)'
    BY <1>2, <1>4, <2>1, <2>3 DEF Stage, Grpc
  <2>5. \A n \in Nodes : channels'[n] <= opened' /\ channels'[n] = channels[n]
    BY <1>1, <2>1
  <2> QED  BY <1>1, <1>2, <2>1, <2>3, <2>4, <2>5, CallOK
<1>5. CASE insert(c) /\ channels[NodeOf[c]] = 0
  <2>1. /\ Goto(c, "record") /\ calls[c].pc = "insert"
        /\ channels' = [channels EXCEPT ![NodeOf[c]] = calls[c].via]
        /\ UNCHANGED <<backend, node_vars, local_vars, handled>>
        /\ UNCHANGED <<opened, serving, links>>
    BY <1>5 DEF insert, At
  <2>2. calls[c].via \in 1 .. opened
    BY <1>1, <1>2, <2>1 DEF Stage
  <2>3. /\ CallsGrow /\ \A d \in Callers : d # c => calls'[d] = calls[d]
        /\ calls'[c].pc = "record" /\ calls'[c].via = calls[c].via
    BY <2>1, GotoFacts DEF CallPcs, IInv, Shapes
  <2>4. /\ channels' \in [Nodes -> Nat] /\ channels'[NodeOf[c]] = calls[c].via
        /\ \A n \in Nodes : /\ channels'[n] <= opened'
                            /\ channels[n] # 0 => channels'[n] = channels[n]
                            /\ channels'[n] # channels[n] => n = NodeOf[c]
    BY <1>1, <1>5, <2>1, <2>2
  <2>5. Stage(c)'
    BY <1>2, <2>1, <2>2, <2>3, <2>4 DEF Stage, Grpc
  <2>6. /\ opened' \in Nat /\ opened <= opened'
        /\ serving' \subseteq (DOMAIN handles) \X Requests /\ links' = links
    BY <1>1, <2>1
  <2> QED  BY <1>2, <2>1, <2>3, <2>4, <2>5, <2>6, CallOK
<1>6. CASE record(c)
  <2>1. /\ Goto(c, "rpc") /\ calls[c].pc = "record" /\ links' = links \cup {NodeOf[c]}
        /\ UNCHANGED <<backend, node_vars, local_vars, handled>>
        /\ UNCHANGED <<channels, opened, serving>>
    BY <1>6 DEF record, At, record_peer, grpc_vars
  <2>2. calls[c].via # 0 /\ calls[c].via = channels[NodeOf[c]]
    BY <1>1, <1>2, <2>1 DEF Stage
  <2>3. /\ CallsGrow /\ \A d \in Callers : d # c => calls'[d] = calls[d]
        /\ calls'[c].pc = "rpc" /\ calls'[c].via = calls[c].via
    BY <2>1, GotoFacts DEF CallPcs, IInv, Shapes
  <2>4. Stage(c)'
    BY <1>2, <2>1, <2>2, <2>3 DEF Stage, Grpc
  <2>5. \A n \in Nodes : channels'[n] <= opened' /\ channels'[n] = channels[n]
    BY <1>1, <2>1
  <2>6. /\ opened' \in Nat /\ opened <= opened' /\ channels' \in [Nodes -> Nat]
        /\ serving' \subseteq (DOMAIN handles) \X Requests
        /\ links \subseteq links' /\ NodeOf[c] \in links'
    BY <1>1, <2>1
  <2> QED  BY <1>2, <2>1, <2>2, <2>3, <2>4, <2>5, <2>6, CallOK
<1> QED  BY <1>3, <1>4, <1>5, <1>6

\* client.call arrives at a server.
LEMMA RpcOK ==
    ASSUME IInv, NEW c \in Callers, NEW h \in DOMAIN handles, call(c, h)
    PROVE  IInv'
<1>1. /\ calls[c].pc = "rpc"
      /\ UNCHANGED <<backend, node_vars, local_vars, handled>>
      /\ UNCHANGED <<channels, opened, links>>
  BY DEF call, At
<1>2. /\ opened \in Nat /\ channels \in [Nodes -> Nat] /\ \A n \in Nodes : channels[n] <= opened
      /\ serving \subseteq (DOMAIN handles) \X Requests /\ Stage(c)
  BY DEF IInv, Shapes, LinkShapes, Stages
<1>3. Grpc
  BY <1>1, <1>2 DEF Stage
<1>4. CASE ~Known(h, Request(c))
  BY <1>1, <1>4, ReturnOK DEF call, grpc_vars
<1>5. CASE Known(h, Request(c))
  <2>1. Goto(c, "wait") /\ serving' = serving \cup {<<h, Request(c)>>}
    BY <1>5 DEF call
  <2>2. /\ CallsGrow /\ \A d \in Callers : d # c => calls'[d] = calls[d]
        /\ calls'[c].pc = "wait" /\ calls'[c].via = calls[c].via
    BY <1>1, <2>1, GotoFacts DEF CallPcs, IInv, Shapes
  <2>3. Stage(c)'
    BY <1>1, <1>2, <1>3, <2>2 DEF Stage, Grpc
  <2>4. serving' \subseteq (DOMAIN handles) \X Requests
    <3>1. calls[c].num \in 1 .. MaxSends[c]
      BY <1>1, CallFacts DEF IInv, Shapes, Pushes
    <3> QED  BY <1>2, <2>1, <3>1, RequestFacts DEF Request
  <2>5. \A n \in Nodes : channels'[n] <= opened' /\ channels'[n] = channels[n]
    BY <1>1, <1>2
  <2>6. opened' \in Nat /\ opened <= opened' /\ channels' \in [Nodes -> Nat] /\ links' = links
    BY <1>1, <1>2
  <2> QED  BY <1>1, <1>3, <2>2, <2>3, <2>4, <2>5, <2>6, CallOK
<1> QED  BY <1>4, <1>5

\* A call ends with an error, an answer or a timeout.
LEMMA EndsOK ==
    ASSUME IInv, NEW c \in Callers,
           connect_error(c) \/ call_error(c) \/ response(c) \/ Timeout(c)
    PROVE  IInv'
<1>1. /\ ReturnCall(c) /\ calls[c].pc # "record"
      /\ UNCHANGED <<backend, node_vars, local_vars, grpc_vars, links, handled>>
  BY DEF connect_error, call_error, response, Timeout, At
<1> QED  BY <1>1, ReturnOK

-----------------------------------------------------------------------------
(***************************************************************************)
(* The steps of queues, loops and servers.                                 *)
(***************************************************************************)

\* What a handle's queue and loop consist of.
LEMMA QueueFacts ==
    ASSUME Shapes, NEW h \in DOMAIN handles
    PROVE  /\ queue[h] \in Seq(Requests) /\ parked[h] \in Seq(Requests)
           /\ loop[h] \in Requests \cup {Recv, Ended}
           /\ h \in DOMAIN queue /\ h \in DOMAIN parked /\ h \in DOMAIN loop
BY DEF Shapes, HandleShapes, QueueShapes

\* A step that changes calls in process, and queues and loops, and keeps the rest.
LEMMA QueueOK ==
    ASSUME IInv, CallsGrow, ~Grpc, QueueShapes',
           UNCHANGED <<backend, handles, registered, repeated, grpc_vars, links>>,
           CallShapes', Pushes', Line',
           \A c \in Callers : \/ calls'[c].via = calls[c].via /\ calls[c].pc # "idle"
                                 /\ calls'[c].pc \in {"flush", "wait"}
                              \/ calls'[c].pc = "idle"
                              \/ calls'[c] = calls[c],
           \A h \in DOMAIN handles : loop'[h] = Ended =>
               loop[h] = Ended \/ registered[handles[h].node] # h
    PROVE  IInv'
<1>1. UNCHANGED <<channels, opened, serving>> /\ ~Grpc'
  BY DEF grpc_vars, Grpc
<1>2. Shapes'
  BY <1>1 DEF IInv, Shapes, HandleShapes, LinkShapes
<1>3. Stages'
  <2> SUFFICES ASSUME NEW c \in Callers  PROVE Stage(c)'
    BY DEF Stages
  <2>1. Stage(c)
    BY DEF IInv, Stages
  <2> QED  BY <1>1, <2>1 DEF Stage
<1>4. Targets' /\ Apart' /\ Links' /\ Single'
  BY <1>1 DEF IInv, Targets, Apart, Links, Single
<1>5. UpIsReachable'
  BY <1>1 DEF IInv, UpIsReachable
<1> QED  BY <1>2, <1>3, <1>4, <1>5 DEF IInv

\* Router::send pushes a request, which is the newest of its caller.
LEMMA PushOK ==
    ASSUME IInv, NEW c \in Callers, push(c)
    PROVE  IInv'
<1>1. /\ calls[c].pc = "push"
      /\ UNCHANGED <<backend, node_vars, grpc_vars, links, handled>>
  BY DEF push, At
<1>2. PICK h \in DOMAIN handles : h = calls[c].via /\ handles[h].node = NodeOf[c] /\ ~Grpc
  BY <1>1 DEF IInv, Stages, Stage
<1>3. CASE loop[h] = Ended
  BY <1>1, <1>2, <1>3, ReturnOK DEF push
<1>4. CASE loop[h] # Ended
  <2>1. /\ queue' = [queue EXCEPT ![h] = Append(@, Request(c))]
        /\ parked' = parked \/ parked' = [parked EXCEPT ![h] = Append(@, Request(c))]
        /\ Goto(c, "flush") \/ Goto(c, "wait")
    BY <1>2, <1>4 DEF push
  <2>2. PICK r \in Requests : r = Request(c) /\ r[1] = c /\ r[2] = calls[c].num
    <3>1. calls[c].num \in 1 .. MaxSends[c]
      BY <1>1, CallFacts DEF IInv, Shapes, Pushes
    <3> QED  BY <3>1, RequestFacts DEF Request
  <2>3. /\ CallsGrow /\ \A d \in Callers : d # c => calls'[d] = calls[d]
        /\ calls'[c].pc \in {"flush", "wait"} /\ calls'[c].num = calls[c].num
        /\ calls'[c].via = calls[c].via
    BY <1>1, <2>1, GotoFacts DEF CallPcs, IInv, Shapes
  <2>4. /\ queue[h] \in Seq(Requests) /\ parked[h] \in Seq(Requests)
        /\ h \in DOMAIN queue /\ h \in DOMAIN parked
    BY QueueFacts DEF IInv
  <2>5. /\ queue' \in Seq(Seq(Requests)) /\ Len(queue') = Len(handles)
        /\ queue'[h] = Append(queue[h], r)
        /\ \A k \in DOMAIN handles : k # h => queue'[k] = queue[k]
    BY <2>1, <2>2, <2>4 DEF IInv, Shapes, HandleShapes, QueueShapes
  <2>6. parked' \in Seq(Seq(Requests)) /\ Len(parked') = Len(handles)
    <3>1. CASE parked' = parked
      BY <3>1 DEF IInv, Shapes, QueueShapes
    <3>2. CASE parked' = [parked EXCEPT ![h] = Append(@, Request(c))]
      BY <2>2, <2>4, <3>2 DEF IInv, Shapes, HandleShapes, QueueShapes
    <3> QED  BY <2>1, <3>1, <3>2
  <2>7. UNCHANGED <<handles, registered, loop, repeated>>
    BY <1>1 DEF node_vars
  <2>8. QueueShapes'
    BY <2>5, <2>6, <2>7 DEF IInv, Shapes, QueueShapes
  <2>9. HandlesKeep
    BY <2>7 DEF HandlesKeep, IInv, Shapes, HandleShapes
  <2>10. CallShapes' /\ Pushes'
    BY <1>1, <2>3, CallsKeep DEF IInv, Shapes
  <2>11. \A k \in DOMAIN handles : \A q \in Requests : Made(k, q) => Made(k, q)'
    BY <1>1, <2>3, <2>9, MadeStays DEF IInv
  <2>12. \A k \in DOMAIN handles : k # h => LineAt(k)'
    BY <2>5, <2>7, <2>11, LineAtStays DEF IInv, Line
  <2>13. LineAt(h)'
    <3>1. /\ DOMAIN queue[h] = 1 .. Len(queue[h]) /\ Len(queue[h]) \in Nat
          /\ DOMAIN queue'[h] = 1 .. Len(queue[h]) + 1
          /\ queue'[h][Len(queue[h]) + 1] = r
          /\ \A i \in 1 .. Len(queue[h]) : queue'[h][i] = queue[h][i] /\ queue[h][i] \in Requests
      BY <2>4, <2>5
    <3>2. Made(h, r)'
      <4>1. calls[c].num \in Nat /\ handled[c] < calls[c].num
        BY <1>1, CallFacts DEF IInv, Shapes, Pushes
      <4> QED  BY <1>1, <1>2, <2>2, <2>3, <2>7, <4>1 DEF Made
    <3>3. \A i \in 1 .. Len(queue[h]) : Made(h, queue[h][i]) /\ Before(queue[h][i], r)
      BY <1>1, <2>2, <3>1 DEF IInv, Line, LineAt, Made, Before
    <3>4. \A i \in 1 .. Len(queue[h]) : \A q : q = queue[h][i] => Made(h, q)'
      BY <2>11, <3>1, <3>3
    <3>5. \A i \in DOMAIN queue'[h] : \A q : q = queue'[h][i] => Made(h, q)'
      BY <3>1, <3>2, <3>4
    <3>6. \A i, j \in DOMAIN queue'[h] : i < j => Before(queue'[h][i], queue'[h][j])
      <4> SUFFICES ASSUME NEW i \in DOMAIN queue'[h], NEW j \in DOMAIN queue'[h], i < j
                   PROVE  Before(queue'[h][i], queue'[h][j])
        OBVIOUS
      <4>1. i \in 1 .. Len(queue[h]) /\ (j \in 1 .. Len(queue[h]) \/ j = Len(queue[h]) + 1)
        BY <3>1
      <4>2. CASE j = Len(queue[h]) + 1
        BY <3>1, <3>3, <4>1, <4>2
      <4>3. CASE j \in 1 .. Len(queue[h])
        BY <3>1, <4>1, <4>3 DEF IInv, Line, LineAt
      <4> QED  BY <4>1, <4>2, <4>3
    <3>7. ASSUME loop[h] \in Requests
          PROVE  /\ \A q : q = loop[h] => Made(h, q)'
                 /\ \A i \in DOMAIN queue'[h] : Before(loop[h], queue'[h][i])
      <4>1. Made(h, loop[h]) /\ \A i \in 1 .. Len(queue[h]) : Before(loop[h], queue[h][i])
        BY <3>1, <3>7 DEF IInv, Line, LineAt
      <4>2. Before(loop[h], r)
        BY <1>1, <2>2, <4>1 DEF Made, Before
      <4>3. \A q : q = loop[h] => Made(h, q)'
        BY <2>11, <3>7, <4>1
      <4> QED  BY <3>1, <4>1, <4>2, <4>3
    <3>8. \A i \in DOMAIN queue'[h] : Made(h, queue[h][i])'
      BY <3>5 DEF Made
    <3>9. loop[h] \in Requests => Made(h, loop[h])'
      BY <2>7, <3>7 DEF Made
    <3> QED  BY <2>7, <3>6, <3>7, <3>8, <3>9 DEF LineAt, Before
  <2>14. Line'
    BY <2>7, <2>12, <2>13 DEF Line
  <2> QED  BY <1>1, <1>2, <2>3, <2>7, <2>8, <2>10, <2>14, QueueOK
<1> QED  BY <1>3, <1>4

\* Calls that differ at most in a woken sender and an arrived answer.
WokenCall(new, old) ==
    \/ new = old
    \/ /\ old.pc \in {"flush", "wait"} /\ new.pc \in {old.pc, "wait"}
       /\ new.num = old.num /\ new.via = old.via

Woken(cs) ==
    cs \in [Callers -> CallType] /\ \A c \in Callers : WokenCall(cs[c], calls[c])

\* Taking a request out of the queue wakes one sender.
LEMMA UnparkedWoken ==
    ASSUME CallShapes, NEW h
    PROVE  Woken(Unparked(h))
<1>1. calls \in [Callers -> CallType]
  BY DEF CallShapes
<1>2. CASE parked[h] = <<>>
  BY <1>1, <1>2 DEF Unparked, Woken, WokenCall
<1>3. CASE parked[h] # <<>>
  <2>1. ASSUME NEW c \in Callers
        PROVE  /\ Unparked(h)[c] \in CallType
               /\ WokenCall(Unparked(h)[c], calls[c])
    <3>1. \/ Unparked(h)[c] = calls[c]
          \/ calls[c].pc = "flush" /\ Unparked(h)[c] = [calls[c] EXCEPT !.pc = "wait"]
      BY <1>3 DEF Unparked, At
    <3>2. /\ [calls[c] EXCEPT !.pc = "wait"] \in CallType
          /\ [calls[c] EXCEPT !.pc = "wait"].num = calls[c].num
          /\ [calls[c] EXCEPT !.pc = "wait"].via = calls[c].via
          /\ [calls[c] EXCEPT !.pc = "wait"].pc = "wait"
      BY <1>1 DEF CallType, CallPcs
    <3>3. calls[c] \in CallType
      BY <1>1
    <3> QED  BY <3>1, <3>2, <3>3 DEF WokenCall
  <2>2. Unparked(h) \in [Callers -> CallType]
    BY <1>3, <2>1 DEF Unparked
  <2> QED  BY <2>1, <2>2 DEF Woken
<1> QED  BY <1>2, <1>3

\* So does an answer, at most.
LEMMA AnsweredWoken ==
    ASSUME NEW cs, Woken(cs), NEW r
    PROVE  Woken(Answered(cs, r))
<1>1. ASSUME NEW c \in Callers
      PROVE  /\ Answered(cs, r)[c] \in CallType
             /\ WokenCall(Answered(cs, r)[c], calls[c])
  <2>1. \/ Answered(cs, r)[c] = cs[c]
        \/ cs[c].pc \in {"flush", "wait"} /\ Answered(cs, r)[c] = [cs[c] EXCEPT !.answered = TRUE]
    BY DEF Answered
  <2>2. /\ [cs[c] EXCEPT !.answered = TRUE] \in CallType
        /\ [cs[c] EXCEPT !.answered = TRUE].num = cs[c].num
        /\ [cs[c] EXCEPT !.answered = TRUE].via = cs[c].via
        /\ [cs[c] EXCEPT !.answered = TRUE].pc = cs[c].pc
    BY DEF Woken, CallType
  <2>3. cs[c] \in CallType /\ WokenCall(cs[c], calls[c])
    BY DEF Woken
  <2> QED  BY <2>1, <2>2, <2>3 DEF WokenCall
<1>2. Answered(cs, r) \in [Callers -> CallType]
  BY <1>1 DEF Answered
<1> QED  BY <1>1, <1>2 DEF Woken

\* Such calls only go on.
LEMMA WokenGrow ==
    ASSUME CallShapes, NEW cs, Woken(cs), calls' = cs
    PROVE  /\ CallsGrow
           /\ \A c \in Callers : \/ calls'[c].via = calls[c].via /\ calls[c].pc # "idle"
                                   /\ calls'[c].pc \in {"flush", "wait"}
                                \/ calls'[c].pc = "idle"
                                \/ calls'[c] = calls[c]
           /\ \A c \in Callers : calls'[c].num = calls[c].num
                               /\ (calls'[c].pc = "push" => calls[c].pc = "push")
<1>1. ASSUME NEW c \in Callers
      PROVE  WokenCall(calls'[c], calls[c]) /\ calls[c].num \in Nat /\ calls[c].num <= MaxSends[c]
  BY CallFacts DEF Woken
<1>2. calls' \in [Callers -> CallType]
  BY DEF Woken
<1> QED  BY <1>1, <1>2 DEF WokenCall, CallsGrow

\* Node::run takes the first request of the queue.
LEMMA RunOK ==
    ASSUME IInv, NEW h \in DOMAIN handles, run(h)
    PROVE  IInv'
<1>1. /\ loop[h] = Recv /\ queue[h] # <<>>
      /\ queue' = [queue EXCEPT ![h] = Tail(@)]
      /\ parked' = [parked EXCEPT ![h] = IF @ = <<>> THEN @ ELSE Tail(@)]
      /\ UNCHANGED <<backend, handles, registered, repeated, grpc_vars, links, handled>>
  BY DEF run, Receives, Pop
<1>2. /\ queue[h] \in Seq(Requests) /\ parked[h] \in Seq(Requests)
      /\ h \in DOMAIN queue /\ h \in DOMAIN parked /\ h \in DOMAIN loop
  BY QueueFacts DEF IInv
<1>3. ~Grpc
  BY <1>1, RequestFacts DEF IInv, Apart
<1>4. PICK r \in Requests : r = Head(queue[h]) /\ r = queue[h][1]
  BY <1>1, <1>2
<1>5. Woken(calls')
  <2>1. Woken(Unparked(h)) /\ Woken(Answered(Unparked(h), r))
    BY UnparkedWoken, AnsweredWoken DEF IInv, Shapes
  <2>2. calls' = Unparked(h) \/ calls' = Answered(Unparked(h), r)
    BY <1>4 DEF run
  <2> QED  BY <2>1, <2>2
<1>6. /\ CallsGrow
      /\ \A c \in Callers : \/ calls'[c].via = calls[c].via /\ calls[c].pc # "idle"
                              /\ calls'[c].pc \in {"flush", "wait"}
                           \/ calls'[c].pc = "idle"
                           \/ calls'[c] = calls[c]
  <2>1. PICK cs : cs = calls'
    OBVIOUS
  <2> QED  BY <1>5, <2>1, WokenGrow DEF IInv, Shapes
<1>7. loop' = [loop EXCEPT ![h] = r] \/ loop' = loop
  BY <1>4 DEF run
<1>8. /\ queue' \in Seq(Seq(Requests)) /\ Len(queue') = Len(handles)
      /\ queue'[h] = Tail(queue[h])
      /\ \A k \in DOMAIN handles : k # h => queue'[k] = queue[k]
  <2>1. Tail(queue[h]) \in Seq(Requests)
    BY <1>1, <1>2
  <2> QED  BY <1>1, <1>2, <2>1 DEF IInv, Shapes, HandleShapes, QueueShapes
<1>9. parked' \in Seq(Seq(Requests)) /\ Len(parked') = Len(handles)
  <2>1. (IF parked[h] = <<>> THEN parked[h] ELSE Tail(parked[h])) \in Seq(Requests)
    BY <1>2
  <2> QED  BY <1>1, <1>2, <2>1 DEF IInv, Shapes, HandleShapes, QueueShapes
<1>10. /\ loop' \in Seq(Requests \cup {Recv, Ended}) /\ Len(loop') = Len(handles)
       /\ loop'[h] \in {r, Recv}
       /\ \A k \in DOMAIN handles : k # h => loop'[k] = loop[k]
  <2>1. CASE loop' = loop
    BY <1>1, <2>1 DEF IInv, Shapes, QueueShapes
  <2>2. CASE loop' = [loop EXCEPT ![h] = r]
    BY <1>2, <2>2 DEF IInv, Shapes, HandleShapes, QueueShapes
  <2> QED  BY <1>7, <2>1, <2>2
<1>11. QueueShapes'
  BY <1>1, <1>8, <1>9, <1>10 DEF QueueShapes
<1>12. CallShapes' /\ Pushes'
  BY <1>1, <1>6, CallsKeep DEF IInv, Shapes
<1>13. \A k \in DOMAIN handles : \A q \in Requests : Made(k, q) => Made(k, q)'
  <2>1. HandlesKeep
    BY <1>1 DEF HandlesKeep, IInv, Shapes, HandleShapes
  <2> QED  BY <1>1, <1>6, <2>1, MadeStays DEF IInv
<1>14. \A k \in DOMAIN handles : k # h => LineAt(k)'
  BY <1>8, <1>10, <1>13, LineAtStays DEF IInv, Line
<1>15. LineAt(h)'
  <2>1. /\ DOMAIN queue[h] = 1 .. Len(queue[h]) /\ Len(queue[h]) \in Nat \ {0}
        /\ DOMAIN queue'[h] = 1 .. Len(queue[h]) - 1
        /\ \A i \in 1 .. Len(queue[h]) - 1 : queue'[h][i] = queue[h][i + 1]
        /\ \A i \in 1 .. Len(queue[h]) : queue[h][i] \in Requests
    BY <1>1, <1>2, <1>8
  <2>2. /\ \A i \in 1 .. Len(queue[h]) : Made(h, queue[h][i])
        /\ \A i, j \in 1 .. Len(queue[h]) : i < j => Before(queue[h][i], queue[h][j])
    BY <2>1 DEF IInv, Line, LineAt
  <2>3. \A i \in 1 .. Len(queue[h]) : \A q : q = queue[h][i] => Made(h, q)'
    BY <1>13, <2>1, <2>2
  <2>4. \A i \in DOMAIN queue'[h] : i \in 1 .. Len(queue[h]) /\ i + 1 \in 1 .. Len(queue[h])
                                   /\ 1 < i + 1 /\ 1 \in 1 .. Len(queue[h]) /\ i \in Int
    BY <2>1
  <2>5. \A i \in DOMAIN queue'[h] : \A q : q = queue'[h][i] => Made(h, q)'
    BY <2>1, <2>3, <2>4
  <2>6. \A i, j \in DOMAIN queue'[h] : i < j => Before(queue'[h][i], queue'[h][j])
    <3> SUFFICES ASSUME NEW i \in DOMAIN queue'[h], NEW j \in DOMAIN queue'[h], i < j
                 PROVE  Before(queue'[h][i], queue'[h][j])
      OBVIOUS
    <3>1. i + 1 < j + 1 /\ i + 1 \in 1 .. Len(queue[h]) /\ j + 1 \in 1 .. Len(queue[h])
      BY <2>4
    <3>2. Before(queue[h][i + 1], queue[h][j + 1])
      BY <2>2, <3>1
    <3> QED  BY <2>1, <3>2
  <2>7. Made(h, r)' /\ \A i \in DOMAIN queue'[h] : Before(r, queue'[h][i])
    <3>1. 1 \in 1 .. Len(queue[h])
      BY <2>1
    <3>2. Made(h, r)'
      BY <1>4, <2>3, <3>1
    <3>3. \A i \in DOMAIN queue'[h] : Before(queue[h][1], queue[h][i + 1])
      BY <2>2, <2>4
    <3> QED  BY <1>4, <2>1, <3>2, <3>3
  <2>8. \A i \in DOMAIN queue'[h] : Made(h, queue[h][i])'
    BY <2>5 DEF Made
  <2>9. loop'[h] \in Requests => loop'[h] = r
    BY <1>10, RequestFacts
  <2>10. loop'[h] \in Requests => Made(h, loop[h])'
    BY <2>7, <2>9 DEF Made
  <2> QED  BY <2>6, <2>7, <2>8, <2>9, <2>10 DEF LineAt
<1>16. Line'
  BY <1>1, <1>14, <1>15 DEF Line
<1>17. \A k \in DOMAIN handles : loop'[k] = Ended => loop[k] = Ended
  BY <1>10, RequestFacts
<1> QED  BY <1>1, <1>3, <1>6, <1>11, <1>12, <1>16, <1>17, QueueOK

\* No sender is left: the loop ends.
LEMMA EndOK ==
    ASSUME IInv, NEW h \in DOMAIN handles, run_end(h)
    PROVE  IInv'
<1>1. /\ loop[h] = Recv /\ registered[handles[h].node] # h
      /\ loop' = [loop EXCEPT ![h] = Ended]
      /\ UNCHANGED <<backend, handles, registered, repeated, queue, parked, grpc_vars, links, calls, handled>>
  BY DEF run_end, local_vars
<1>2. ~Grpc
  BY <1>1, RequestFacts DEF IInv, Apart
<1>3. /\ loop' \in Seq(Requests \cup {Recv, Ended}) /\ Len(loop') = Len(handles)
      /\ loop'[h] = Ended /\ \A k \in DOMAIN handles : k # h => loop'[k] = loop[k]
  BY <1>1, QueueFacts DEF IInv, Shapes, HandleShapes, QueueShapes
<1>4. QueueShapes'
  BY <1>1, <1>3 DEF IInv, Shapes, QueueShapes
<1>5. CallsGrow /\ HandlesKeep
  BY <1>1 DEF CallsGrow, HandlesKeep, IInv, Shapes, CallShapes, HandleShapes
<1>6. CallShapes' /\ Pushes'
  BY <1>1, <1>5, CallsKeep DEF IInv, Shapes
<1>7. Line'
  <2>1. \A k \in DOMAIN handles : \A q \in Requests : Made(k, q) => Made(k, q)'
    BY <1>1, <1>5, MadeStays DEF IInv
  <2>2. \A k \in DOMAIN handles : loop'[k] = loop[k] \/ loop'[k] \notin Requests
    BY <1>3, RequestFacts
  <2>3. \A k \in DOMAIN handles : LineAt(k)'
    BY <1>1, <2>1, <2>2, LineAtStays DEF IInv, Line
  <2> QED  BY <1>1, <2>3 DEF Line
<1>8. \A k \in DOMAIN handles : loop'[k] = Ended => loop[k] = Ended \/ registered[handles[k].node] # k
  BY <1>1, <1>3
<1> QED  BY <1>1, <1>2, <1>4, <1>5, <1>6, <1>7, <1>8, QueueOK

\* A Raft that runs belongs to the one handle of its node that is not down.
LEMMA AliveIsSingle ==
    ASSUME IInv, NEW h \in DOMAIN handles, handles[h].alive # {},
           NEW k \in DOMAIN handles, handles[k].node = handles[h].node, k # h
    PROVE  handles[k].stop = "down" /\ handles[h].stop # "down"
BY DEF IInv, Single

\* In process, what a Raft handles is newer than what was handled before.
LEMMA HandledGrows ==
    ASSUME IInv, NEW h \in DOMAIN handles, loop[h] \in Requests, Handle(h, loop[h])
    PROVE  /\ ~Grpc
           /\ handled' \in [Callers -> Nat]
           /\ \A c \in Callers : handled'[c] <= MaxSends[c] /\ handled[c] <= handled'[c]
           /\ \A c \in Callers : handled'[c] # handled[c] =>
                  /\ c = loop[h][1] /\ handled'[c] = loop[h][2]
                  /\ handles[h].alive # {} /\ NodeOf[c] = handles[h].node
                  /\ handled'[c] <= calls[c].num
                  /\ calls[c].pc = "push" => handled'[c] < calls[c].num
<1>1. ~Grpc
  BY RequestFacts DEF IInv, Apart
<1>2. PICK r \in Requests : r = loop[h] /\ Made(h, r) /\ r[1] \in Callers /\ r[2] \in Nat
                           /\ r[2] <= MaxSends[r[1]]
  BY RequestFacts, RouterAssumption DEF IInv, Line, LineAt
<1>3. handled \in [Callers -> Nat] /\ \A c \in Callers : handled[c] <= MaxSends[c]
  BY DEF IInv, Shapes, CallShapes
<1>4. CASE GroupOf[r[1]] \notin handles[h].alive
  BY <1>1, <1>2, <1>3, <1>4 DEF Handle
<1>5. CASE GroupOf[r[1]] \in handles[h].alive
  <2>1. handled' = [handled EXCEPT ![r[1]] = r[2]]
    BY <1>2, <1>5 DEF Handle
  <2>2. handles[h].stop # "down"
    BY <1>5 DEF IInv, Single
  <2>3. handled[r[1]] < r[2]
    BY <1>2, <2>2 DEF Made
  <2> QED  BY <1>1, <1>2, <1>3, <1>5, <2>1, <2>3 DEF Made
<1> QED  BY <1>4, <1>5

\* Node::run answers the request it holds.
LEMMA AnswerOK ==
    ASSUME IInv, NEW h \in DOMAIN handles, run_answer(h)
    PROVE  IInv'
<1>1. /\ loop[h] \in Requests /\ Handle(h, loop[h])
      /\ calls' = Answered(calls, loop[h])
      /\ loop' = [loop EXCEPT ![h] = Recv]
      /\ UNCHANGED <<backend, handles, registered, repeated, queue, parked, grpc_vars, links>>
  BY DEF run_answer, local_vars
<1>2. /\ ~Grpc
      /\ handled' \in [Callers -> Nat]
      /\ \A c \in Callers : handled'[c] <= MaxSends[c] /\ handled[c] <= handled'[c]
      /\ \A c \in Callers : handled'[c] # handled[c] =>
             /\ c = loop[h][1] /\ handled'[c] = loop[h][2]
             /\ handles[h].alive # {} /\ NodeOf[c] = handles[h].node
             /\ handled'[c] <= calls[c].num
             /\ calls[c].pc = "push" => handled'[c] < calls[c].num
  BY <1>1, HandledGrows
<1>3. /\ loop' \in Seq(Requests \cup {Recv, Ended}) /\ Len(loop') = Len(handles)
      /\ loop'[h] = Recv /\ \A k \in DOMAIN handles : k # h => loop'[k] = loop[k]
  BY <1>1, QueueFacts DEF IInv, Shapes, HandleShapes, QueueShapes
<1>4. QueueShapes'
  BY <1>1, <1>3 DEF IInv, Shapes, QueueShapes
<1>5. /\ CallsGrow
      /\ \A c \in Callers : \/ calls'[c].via = calls[c].via /\ calls[c].pc # "idle"
                              /\ calls'[c].pc \in {"flush", "wait"}
                           \/ calls'[c].pc = "idle"
                           \/ calls'[c] = calls[c]
      /\ \A c \in Callers : calls'[c].num = calls[c].num
                          /\ (calls'[c].pc = "push" => calls[c].pc = "push")
  <2>1. Woken(calls)
    BY DEF Woken, WokenCall, IInv, Shapes, CallShapes
  <2>2. Woken(Answered(calls, loop[h]))
    BY <2>1, AnsweredWoken
  <2>3. PICK cs : cs = Answered(calls, loop[h])
    OBVIOUS
  <2> QED  BY <1>1, <2>2, <2>3, WokenGrow DEF IInv, Shapes
<1>6. CallShapes'
  BY <1>2, <1>5 DEF IInv, Shapes, CallShapes, CallsGrow
<1>7. Pushes'
  <2> SUFFICES ASSUME NEW c \in Callers
               PROVE  /\ calls'[c].pc # "idle" => calls'[c].num # 0
                      /\ handled'[c] <= calls'[c].num
                      /\ calls'[c].pc = "push" => handled'[c] < calls'[c].num
    BY DEF Pushes
  <2>1. /\ calls[c].pc # "idle" => calls[c].num # 0
        /\ handled[c] <= calls[c].num
        /\ calls[c].pc = "push" => handled[c] < calls[c].num
    BY <1>2 DEF IInv, Pushes
  <2>2. calls'[c].num = calls[c].num /\ (calls'[c].pc # "idle" => calls[c].pc # "idle")
    BY <1>5
  <2> QED  BY <1>2, <1>5, <2>1, <2>2
<1>8. ASSUME NEW k \in DOMAIN handles, NEW q \in Requests, Made(k, q),
             k = h => Before(loop[h], q)
      PROVE  Made(k, q)'
  <2>1. q[1] \in Callers /\ q[2] \in Nat
    BY RequestFacts
  <2>2. /\ q[2] <= calls'[q[1]].num
        /\ calls'[q[1]].pc = "push" => q[2] < calls'[q[1]].num
    BY <1>5, <1>8, <2>1 DEF Made
  <2>3. ASSUME handles[k].stop # "down"
        PROVE  handled'[q[1]] < q[2]
    <3>1. CASE handled'[q[1]] = handled[q[1]]
      BY <1>8, <2>3, <3>1 DEF Made
    <3>2. CASE handled'[q[1]] # handled[q[1]]
      <4>1. q[1] = loop[h][1] /\ handled'[q[1]] = loop[h][2] /\ handles[k].node = handles[h].node
            /\ handles[h].alive # {}
        BY <1>2, <1>8, <2>1, <3>2 DEF Made
      <4>2. k = h
        BY <2>3, <4>1, AliveIsSingle
      <4> QED  BY <1>8, <4>1, <4>2 DEF Before
    <3> QED  BY <3>1, <3>2
  <2> QED  BY <1>1, <1>8, <2>2, <2>3 DEF Made
<1>9. ASSUME NEW k \in DOMAIN handles, k # h
      PROVE  LineAt(k)'
  BY <1>1, <1>3, <1>8, <1>9, LineAtStays DEF IInv, Line
<1>10. LineAt(h)'
  <2>1. queue[h] \in Seq(Requests)
    BY QueueFacts DEF IInv
  <2>2. \A i \in DOMAIN queue[h] : \A q : q = queue[h][i] => Made(h, q)'
    <3> SUFFICES ASSUME NEW i \in DOMAIN queue[h], NEW q, q = queue[h][i]
                 PROVE  Made(h, q)'
      OBVIOUS
    <3>1. q \in Requests /\ Made(h, q) /\ Before(loop[h], q)
      BY <1>1, <2>1 DEF IInv, Line, LineAt
    <3> QED  BY <1>8, <3>1
  <2>3. \A i \in DOMAIN queue[h] : Made(h, queue[h][i])'
    BY <1>1, <2>2 DEF Made
  <2>4. loop'[h] \notin Requests
    BY <1>3, RequestFacts
  <2> QED  BY <1>1, <2>3, <2>4 DEF IInv, Line, LineAt
<1>11. Line'
  BY <1>1, <1>9, <1>10 DEF Line
<1>12. \A k \in DOMAIN handles : loop'[k] = Ended => loop[k] = Ended
  BY <1>3, RequestFacts
<1> QED  BY <1>1, <1>2, <1>4, <1>5, <1>6, <1>7, <1>11, <1>12, QueueOK

\* demux_raft_call answers one of the requests that a server serves.
LEMMA DemuxOK ==
    ASSUME IInv, NEW s \in serving, demux_raft_call(s)
    PROVE  IInv'
<1>1. /\ serving' = serving \ {s} /\ Handle(s[1], s[2])
      /\ calls' = Answered(calls, s[2])
      /\ UNCHANGED <<backend, handles, registered, loop, repeated, queue, parked, channels, opened, links>>
  BY DEF demux_raft_call, node_vars, local_vars
<1>2. Grpc /\ Grpc'
  BY <1>1 DEF IInv, Apart, Grpc
<1>3. PICK r \in Requests : r = s[2] /\ r[1] \in Callers /\ r[2] \in Nat /\ r[2] <= MaxSends[r[1]]
  BY RequestFacts, RouterAssumption DEF IInv, Shapes, LinkShapes
<1>4. handled' \in [Callers -> Nat] /\ \A c \in Callers : handled'[c] <= MaxSends[c]
  BY <1>1, <1>3 DEF Handle, IInv, Shapes, CallShapes
<1>5. Woken(Answered(calls, r))
  <2>1. Woken(calls)
    BY DEF Woken, WokenCall, IInv, Shapes, CallShapes
  <2> QED  BY <2>1, AnsweredWoken
<1>6. /\ calls' \in [Callers -> CallType]
      /\ \A c \in Callers : /\ calls'[c].num = calls[c].num /\ calls'[c].via = calls[c].via
                            /\ calls'[c].pc = calls[c].pc
  <2>1. \A c \in Callers : WokenCall(calls'[c], calls[c]) /\ calls[c].pc # "flush"
    BY <1>1, <1>2, <1>3, <1>5 DEF Woken, IInv, Stages, Stage
  <2>2. calls' \in [Callers -> CallType]
    BY <1>1, <1>3, <1>5 DEF Woken
  <2> QED  BY <2>1, <2>2 DEF WokenCall
<1>7. Shapes'
  <2>1. CallShapes'
    BY <1>4, <1>6 DEF IInv, Shapes, CallShapes
  <2> QED  BY <1>1, <2>1 DEF IInv, Shapes, HandleShapes, QueueShapes, LinkShapes
<1>8. Stages'
  BY <1>1, <1>2, <1>6 DEF IInv, Stages, Stage
<1>9. Pushes'
  <2>1. \A c \in Callers : calls[c].pc # "push" /\ (calls[c].pc # "idle" => calls[c].num # 0)
    BY <1>2 DEF IInv, Stages, Stage, Pushes
  <2> QED  BY <1>2, <1>6, <2>1 DEF Pushes
<1>10. Line'
  <2>1. \A h \in DOMAIN handles : loop[h] \notin Requests /\ queue[h] = <<>>
    BY <1>2, RequestFacts DEF IInv, Apart
  <2>2. \A h \in DOMAIN handles : DOMAIN queue[h] = {}
    BY <2>1
  <2> QED  BY <1>1, <2>1, <2>2 DEF Line, LineAt
<1>11. Targets' /\ Apart' /\ Single' /\ UpIsReachable'
  BY <1>1, <1>2 DEF IInv, Targets, Apart, Single, UpIsReachable
<1>12. Links'
  BY <1>1, <1>2, <1>6 DEF IInv, Links
<1> QED  BY <1>7, <1>8, <1>9, <1>10, <1>11, <1>12 DEF IInv

-----------------------------------------------------------------------------
(***************************************************************************)
(* The theorems.                                                           *)
(***************************************************************************)

\* The invariant holds at the start.
LEMMA InitOK == Init => IInv
<1> SUFFICES ASSUME Init PROVE IInv
  OBVIOUS
<1>1. handles = <<>> /\ queue = <<>> /\ parked = <<>> /\ loop = <<>> /\ repeated = <<>>
  BY DEF Init
<1>2. DOMAIN handles = {} /\ Len(handles) = 0 /\ 0 <= MaxStarts
  BY <1>1, RouterAssumption
<1>3. HandleShapes
  BY <1>1, <1>2 DEF Init, HandleShapes
<1>4. QueueShapes
  BY <1>1, <1>2 DEF QueueShapes
<1>5. LinkShapes
  BY DEF Init, LinkShapes
<1>6. CallShapes
  BY RouterAssumption DEF Init, CallShapes, CallType, CallPcs
<1>7. Stages
  BY DEF Init, Stages, Stage
<1>8. Targets /\ Apart /\ Single /\ Line /\ UpIsReachable
  BY <1>2 DEF Init, Targets, Apart, Single, Line, UpIsReachable
<1>9. Links /\ Pushes
  BY DEF Init, Links, Pushes
<1> QED  BY <1>3, <1>4, <1>5, <1>6, <1>7, <1>8, <1>9 DEF IInv, Shapes, Init

\* Every step keeps it.
LEMMA NextOK == IInv /\ [Next]_vars => IInv'
<1> SUFFICES ASSUME IInv, [Next]_vars PROVE IInv'
  OBVIOUS
<1>1. ASSUME NEW n \in Nodes, start_node(n) PROVE IInv'
  BY <1>1, StartOK
<1>2. ASSUME NEW h \in DOMAIN handles, NodeStep(h) PROVE IInv'
  BY <1>2, NodeStepOK, AgainOK
<1>3. ASSUME NEW h \in DOMAIN handles, LoopStep(h) PROVE IInv'
  BY <1>3, RunOK, AnswerOK, EndOK DEF LoopStep
<1>4. ASSUME NEW c \in Callers, send(c) \/ channel_for(c) \/ Timeout(c) PROVE IInv'
  BY <1>4, BeginOK, EndsOK
<1>5. ASSUME NEW c \in Callers, CallStep(c) PROVE IInv'
  BY <1>5, PushOK, EndsOK, ConnectOK, RpcOK DEF CallStep
<1>6. ASSUME NEW s \in serving, demux_raft_call(s) PROVE IInv'
  BY <1>6, DemuxOK
<1>7. CASE UNCHANGED vars
  <2>1. UNCHANGED <<backend, handles, registered, loop, repeated, queue, parked, channels, opened,
                    serving, links, calls, handled>>
    BY <1>7 DEF vars, node_vars, local_vars, grpc_vars
  <2>2. Shapes'
    BY <2>1 DEF IInv, Shapes, HandleShapes, QueueShapes, LinkShapes, CallShapes
  <2>3. HandlesKeep /\ CallsGrow
    BY <2>1 DEF HandlesKeep, CallsGrow, IInv, Shapes, HandleShapes, CallShapes
  <2>4. Line' /\ Pushes'
    BY <2>1, <2>3, LineStays, CallsKeep DEF IInv, Shapes
  <2>5. Targets' /\ Stages' /\ Apart' /\ Links' /\ Single' /\ UpIsReachable'
    BY <2>1 DEF IInv, Targets, Stages, Stage, Apart, Links, Single, UpIsReachable, Grpc
  <2> QED  BY <2>2, <2>4, <2>5 DEF IInv
<1> QED  BY <1>1, <1>2, <1>3, <1>4, <1>5, <1>6, <1>7 DEF Next

\* The invariant holds in every state of both transports (Router::send,
\* Node::run, GrpcRouter::channel_for, demux_raft_call).
THEOREM Inductive == Spec => []IInv
<1> QED  BY InitOK, NextOK, PTL DEF Spec

\* The routers, queues, loops, channels and calls keep their types
\* (Router::send, Node::run, GrpcRouter::send).
THEOREM TypeCorrect == Spec => []TypeOK
<1>1. IInv => TypeOK
  <2> SUFFICES ASSUME IInv PROVE TypeOK
    OBVIOUS
  <2>1. \A h \in DOMAIN handles :
            /\ handles[h].node \in Nodes
            /\ handles[h].stop \in {"up", "stopping", "unregister", "down"}
            /\ handles[h].groups \subseteq Groups /\ handles[h].alive \subseteq Groups
    BY HandleFacts DEF Stops, IInv, Shapes
  <2>2. \A h \in DOMAIN handles : /\ loop[h] \in Requests \cup {Recv, Ended}
                                  /\ queue[h] \in Seq(Requests) /\ parked[h] \in Seq(Requests)
    BY QueueFacts DEF IInv
  <2>3. registered \in [Nodes -> 0 .. Len(handles)]
    <3>1. \A n \in Nodes : registered[n] \in 0 .. Len(handles)
      BY DEF IInv, Shapes, HandleShapes, Targets
    <3> QED  BY <3>1 DEF IInv, Shapes, HandleShapes
  <2>4. channels \in [Nodes -> 0 .. opened] /\ opened \in Nat
    <3>1. opened \in Nat /\ \A n \in Nodes : channels[n] \in 0 .. opened
      BY DEF IInv, Shapes, LinkShapes
    <3> QED  BY <3>1 DEF IInv, Shapes, LinkShapes
  <2>5. \A c \in Callers :
            /\ calls[c].pc \in CallPcs /\ calls[c].num \in 0 .. MaxSends[c]
            /\ calls[c].via \in Nat /\ calls[c].answered \in BOOLEAN
    BY CallFacts DEF IInv, Shapes
  <2>6. \A c \in Callers : handled[c] \in 0 .. MaxSends[c]
    BY RouterAssumption DEF IInv, Shapes, CallShapes
  <2> QED  BY <2>1, <2>2, <2>3, <2>4, <2>5, <2>6 DEF TypeOK, IInv, Shapes, HandleShapes, LinkShapes
<1> QED  BY <1>1, Inductive, PTL

\* A node that is up is registered under its own queue and its loop runs, unless
\* an old handle of it was shut down once more (Router::register_node,
\* unregister_node, Node::run).
THEOREM Reachable == Spec => []UpIsReachable
<1>1. IInv => UpIsReachable
  BY DEF IInv
<1> QED  BY <1>1, Inductive, PTL

\* All calls to a peer share one link, and unique_peer_links counts it once
\* (GrpcRouter::channel_for, Router::register_node, ConnMetrics).
THEOREM SharedLinks == Spec => []OneLinkPerPeer
<1>1. IInv => OneLinkPerPeer
  <2> SUFFICES ASSUME IInv PROVE OneLinkPerPeer
    OBVIOUS
  <2>1. CASE Grpc
    <3>1. \A c \in Callers : calls[c].pc \in {"record", "rpc", "wait"} =>
              /\ calls[c].via = channels[NodeOf[c]] /\ channels[NodeOf[c]] # 0
              /\ NodeOf[c] \in Nodes
      BY <2>1, CallFacts DEF IInv, Shapes, Stages, Stage
    <3>2. links \cup {NodeOf[c] : c \in {d \in Callers : At(d, "record")}}
              = {n \in Nodes : channels[n] # 0}
      BY <2>1, <3>1 DEF IInv, Links, Shapes, LinkShapes, At
    <3> QED  BY <2>1, <3>1, <3>2 DEF OneLinkPerPeer
  <2>2. CASE ~Grpc
    BY <2>2 DEF IInv, Links, OneLinkPerPeer
  <2> QED  BY <2>1, <2>2
<1> QED  BY <1>1, Inductive, PTL

\* In process, the Rafts of a group handle the requests of one caller in the
\* order in which it made them: Node::run is serial, and no request of a handle
\* that is down meets a running Raft (Router::send, Node::run, MultiRaft::shutdown).
THEOREM InOrder == Spec => HandledInOrder
<1>1. IInv /\ [Next]_vars => [~Grpc => \A c \in Callers : handled'[c] >= handled[c]]_vars
  <2> SUFFICES ASSUME IInv, Next, ~Grpc, NEW c \in Callers
               PROVE  handled'[c] >= handled[c]
    OBVIOUS
  <2>1. handled[c] \in Nat
    BY DEF IInv, Shapes, CallShapes
  <2>2. CASE handled' = handled
    BY <2>1, <2>2
  <2>3. ASSUME NEW h \in DOMAIN handles, run_answer(h)
        PROVE  handled'[c] >= handled[c]
    <3>1. handled' \in [Callers -> Nat] /\ handled[c] <= handled'[c]
      BY <2>3, HandledGrows DEF run_answer
    <3> QED  BY <2>1, <3>1
  <2>4. serving = {}
    BY DEF IInv, Apart
  <2>5. handled' = handled \/ \E h \in DOMAIN handles : run_answer(h)
    BY <2>4 DEF Next, start_node, NodeStep, create_group, shutdown_raft, shutdown, shutdown_again,
         shutdown_clear, unregister_node, ProcessEnds, LoopStep, run, run_end, send, channel_for,
         CallStep, push, response, connect, connect_error, insert, record, call, call_error, Timeout
  <2> QED  BY <2>2, <2>3, <2>5
<1> QED  BY <1>1, Inductive, PTL DEF HandledInOrder, Spec

-----------------------------------------------------------------------------
(***************************************************************************)
(* What SendReturns rests on in process: no call waits for an answer that  *)
(* nobody is going to give, and no parked sender is left without a wake-up *)
(* to come.                                                                *)
(***************************************************************************)

\* A loop runs as long as a sender of its queue is left.
Listening ==
    ~Grpc => /\ \A n \in Nodes : registered[n] # 0 => loop[registered[n]] # Ended
             /\ \A c \in Callers : calls[c].pc # "idle" => loop[calls[c].via] # Ended

\* There are senders parked only while the queue is over its buffer, and at most
\* as many as it is over.
Backlog ==
    \A h \in DOMAIN handles : parked[h] = <<>> \/ Len(parked[h]) + Buffer <= Len(queue[h])

InLine(c) ==
    \/ calls[c].answered
    \/ loop[calls[c].via] = Request(c)
    \/ \E i \in DOMAIN queue[calls[c].via] : queue[calls[c].via][i] = Request(c)

IsParked(c) == \E i \in DOMAIN parked[calls[c].via] : parked[calls[c].via][i] = Request(c)

Waits(c) ==
    /\ calls[c].pc \in {"flush", "wait"} => InLine(c)
    /\ calls[c].pc = "flush" => IsParked(c)

Waiting == ~Grpc => \A c \in Callers : Waits(c)

Awaited == Listening /\ Backlog /\ Waiting

\* Steps that leave queues, loops and calls alone and register nobody.
LEMMA AwaitedFrame ==
    ASSUME IInv, Awaited, UNCHANGED <<backend, queue, parked, loop, calls>>,
           DOMAIN handles' = DOMAIN handles,
           \A n \in Nodes : registered'[n] = registered[n] \/ registered'[n] = 0
    PROVE  Awaited'
<1>1. Listening' /\ Backlog'
  BY DEF Awaited, Listening, Backlog, Grpc
<1>2. Waiting'
  BY DEF Awaited, Waiting, Waits, InLine, IsParked, Request, Grpc
<1> QED  BY <1>1, <1>2 DEF Awaited

\* Over gRPC no queue is used.
LEMMA AwaitedGrpc ==
    ASSUME Awaited, Grpc, UNCHANGED <<backend, handles, queue, parked>>
    PROVE  Awaited'
BY DEF Awaited, Listening, Backlog, Waiting, Grpc

\* One call returns, or begins to push into a queue whose loop runs.
LEMMA AwaitedCall ==
    ASSUME IInv, Awaited, NEW c \in Callers,
           UNCHANGED <<backend, handles, registered, queue, parked, loop>>,
           \A d \in Callers : d # c => calls'[d] = calls[d],
           ~Grpc => \/ calls'[c].pc = "idle"
                    \/ calls'[c].pc = "push" /\ loop[calls'[c].via] # Ended
    PROVE  Awaited'
<1>1. Listening' /\ Backlog'
  BY DEF Awaited, Listening, Backlog, Grpc
<1>2. ASSUME ~Grpc, NEW d \in Callers PROVE Waits(d)'
  <2>1. CASE d = c
    BY <1>2, <2>1 DEF Waits
  <2>2. CASE d # c
    BY <1>2, <2>2 DEF Awaited, Waiting, Waits, InLine, IsParked, Request
  <2> QED  BY <2>1, <2>2
<1>3. Waiting'
  BY <1>2 DEF Waiting, Grpc
<1> QED  BY <1>1, <1>3 DEF Awaited

\* A node starts with an empty queue and its loop running.
LEMMA AwaitedStart ==
    ASSUME IInv, Awaited, NEW n \in Nodes, start_node(n)
    PROVE  Awaited'
<1>0. PICK H \in Nat : H = Len(handles) + 1
  BY DEF IInv, Shapes, HandleShapes
<1>1. /\ Len(handles) \in Nat /\ DOMAIN handles = 1 .. Len(handles)
      /\ handles' = Append(handles, [node |-> n, stop |-> "up", groups |-> {}, alive |-> {}])
      /\ queue' = Append(queue, <<>>) /\ parked' = Append(parked, <<>>)
      /\ loop' = Append(loop, IF Grpc THEN Ended ELSE Recv)
      /\ UNCHANGED <<backend, calls>>
  BY DEF start_node, IInv, Shapes, HandleShapes
<1>2. /\ DOMAIN handles' = DOMAIN handles \cup {H} /\ Len(handles') = H
      /\ \A h \in DOMAIN handles : loop'[h] = loop[h] /\ queue'[h] = queue[h] /\ parked'[h] = parked[h]
      /\ parked'[H] = <<>> /\ loop'[H] = (IF Grpc THEN Ended ELSE Recv)
  BY <1>0, <1>1 DEF IInv, Shapes, HandleShapes, QueueShapes
<1>3. Backlog'
  BY <1>2 DEF Awaited, Backlog
<1>4. ~Grpc => registered' = [registered EXCEPT ![n] = H]
  BY <1>2 DEF start_node, register_node
<1>5. Listening'
  <2> SUFFICES ASSUME ~Grpc PROVE Listening'
    BY <1>1 DEF Listening, Grpc
  <2>1. Recv # Ended
    BY RequestFacts
  <2>2. ASSUME NEW m \in Nodes, registered'[m] # 0 PROVE loop'[registered'[m]] # Ended
    <3>1. CASE m = n
      BY <1>2, <1>4, <2>1, <3>1 DEF IInv, Shapes, HandleShapes
    <3>2. CASE m # n
      <4>1. registered'[m] = registered[m] /\ registered[m] \in DOMAIN handles
        BY <1>4, <2>2, <3>2 DEF IInv, Shapes, HandleShapes, Targets
      <4> QED  BY <1>2, <2>2, <4>1 DEF Awaited, Listening
    <3> QED  BY <3>1, <3>2
  <2>3. ASSUME NEW c \in Callers, calls[c].pc # "idle" PROVE loop'[calls[c].via] # Ended
    BY <1>2, <2>3 DEF IInv, Stages, Stage, Awaited, Listening
  <2> QED  BY <1>1, <2>2, <2>3 DEF Listening, Grpc
<1>6. Waiting'
  <2> SUFFICES ASSUME ~Grpc, NEW c \in Callers PROVE Waits(c)'
    BY <1>1 DEF Waiting, Grpc
  <2>1. Waits(c) /\ (calls[c].pc # "idle" => calls[c].via \in DOMAIN handles)
    BY DEF Awaited, Waiting, IInv, Stages, Stage
  <2> QED  BY <1>1, <1>2, <2>1 DEF Waits, InLine, IsParked, Request
<1> QED  BY <1>3, <1>5, <1>6 DEF Awaited

\* A request is put at the end of the queue, and its sender is parked when the
\* queue is over its buffer.
LEMMA AwaitedPush ==
    ASSUME IInv, Awaited, NEW c \in Callers, push(c)
    PROVE  Awaited'
<1>1. /\ calls[c].pc = "push" /\ UNCHANGED <<backend, handles, registered, loop>>
  BY DEF push, At, node_vars
<1>2. PICK h \in DOMAIN handles : h = calls[c].via /\ ~Grpc /\ loop[h] # Ended
  BY <1>1 DEF IInv, Stages, Stage, Awaited, Listening
<1>3. PICK r \in Requests : r = Request(c)
  <2>1. calls[c].num \in 1 .. MaxSends[c]
    BY <1>1, CallFacts DEF IInv, Shapes, Pushes
  <2> QED  BY <2>1, RequestFacts DEF Request
<1>4. /\ queue' = [queue EXCEPT ![h] = Append(@, r)]
      /\ IF Len(queue'[h]) > Buffer
         THEN parked' = [parked EXCEPT ![h] = Append(@, r)] /\ Goto(c, "flush")
         ELSE parked' = parked /\ Goto(c, "wait")
  BY <1>2, <1>3 DEF push
<1>5. /\ queue[h] \in Seq(Requests) /\ parked[h] \in Seq(Requests)
      /\ h \in DOMAIN queue /\ h \in DOMAIN parked
  BY QueueFacts DEF IInv
<1>6. /\ queue'[h] = Append(queue[h], r)
      /\ \A k \in DOMAIN handles : k # h => queue'[k] = queue[k] /\ parked'[k] = parked[k]
  BY <1>4, <1>5 DEF IInv, Shapes, HandleShapes, QueueShapes
<1>7. /\ Len(queue[h]) \in Nat /\ Len(queue'[h]) = Len(queue[h]) + 1
      /\ DOMAIN queue[h] = 1 .. Len(queue[h]) /\ DOMAIN queue'[h] = 1 .. Len(queue[h]) + 1
      /\ \A i \in DOMAIN queue[h] : queue'[h][i] = queue[h][i]
      /\ queue'[h][Len(queue[h]) + 1] = r
  BY <1>5, <1>6
<1>8. /\ calls'[c].pc = (IF Len(queue'[h]) > Buffer THEN "flush" ELSE "wait")
      /\ calls'[c].num = calls[c].num /\ calls'[c].via = calls[c].via
      /\ \A d \in Callers : d # c => calls'[d] = calls[d]
  BY <1>1, <1>4, GotoFacts DEF CallPcs, IInv, Shapes
<1>9. /\ Len(queue'[h]) > Buffer => parked'[h] = Append(parked[h], r)
      /\ ~(Len(queue'[h]) > Buffer) => parked'[h] = parked[h]
  BY <1>4, <1>5
<1>10. /\ Len(parked[h]) \in Nat /\ DOMAIN parked[h] = 1 .. Len(parked[h])
       /\ (parked[h] = <<>> <=> Len(parked[h]) = 0)
       /\ \A i \in DOMAIN parked[h] : i \in DOMAIN parked'[h] /\ parked'[h][i] = parked[h][i]
  BY <1>5, <1>9
<1>11. Listening'
  BY <1>1, <1>2, <1>8 DEF Awaited, Listening, Grpc
<1>12. Backlog'
  <2>1. Buffer \in Nat
    BY RouterAssumption
  <2>2. parked'[h] = <<>> \/ Len(parked'[h]) + Buffer <= Len(queue'[h])
    <3>1. CASE Len(queue'[h]) > Buffer
      <4>1. Len(parked'[h]) = Len(parked[h]) + 1
        BY <1>5, <1>9, <3>1
      <4>2. parked[h] = <<>> \/ Len(parked[h]) + Buffer <= Len(queue[h])
        BY DEF Awaited, Backlog
      <4> QED  BY <1>7, <1>10, <2>1, <3>1, <4>1, <4>2
    <3>2. CASE ~(Len(queue'[h]) > Buffer)
      <4>1. parked[h] = <<>> \/ Len(parked[h]) + Buffer <= Len(queue[h])
        BY DEF Awaited, Backlog
      <4> QED  BY <1>7, <1>9, <1>10, <2>1, <3>2, <4>1
    <3> QED  BY <3>1, <3>2
  <2> QED  BY <1>1, <1>6, <2>2 DEF Awaited, Backlog
<1>13. Waits(c)'
  <2>1. Request(c)' = r
    BY <1>3, <1>8 DEF Request
  <2>2. InLine(c)'
    <3>1. Len(queue[h]) + 1 \in DOMAIN queue'[h]
      BY <1>7
    <3> QED  BY <1>2, <1>7, <1>8, <2>1, <3>1 DEF InLine
  <2>3. calls'[c].pc = "flush" => IsParked(c)'
    <3> SUFFICES ASSUME Len(queue'[h]) > Buffer PROVE IsParked(c)'
      BY <1>8
    <3>1. Len(parked[h]) + 1 \in DOMAIN parked'[h] /\ parked'[h][Len(parked[h]) + 1] = r
      BY <1>5, <1>9
    <3> QED  BY <1>2, <1>8, <2>1, <3>1 DEF IsParked
  <2> QED  BY <2>2, <2>3 DEF Waits
<1>14. ASSUME NEW d \in Callers, d # c PROVE Waits(d)'
  <2>1. Waits(d) /\ calls'[d] = calls[d] /\ (calls[d].pc # "idle" => calls[d].via \in DOMAIN handles)
    BY <1>2, <1>8, <1>14 DEF Awaited, Waiting, IInv, Stages, Stage
  <2>2. CASE calls[d].via = h
    <3>1. \A i \in DOMAIN queue[h] : i \in DOMAIN queue'[h]
      BY <1>7
    <3>2. Request(d)' = Request(d)
      BY <2>1 DEF Request
    <3>3. InLine(d) => InLine(d)'
      BY <1>1, <1>7, <2>1, <2>2, <3>1, <3>2 DEF InLine
    <3>4. IsParked(d) => IsParked(d)'
      BY <1>10, <2>1, <2>2, <3>2 DEF IsParked
    <3> QED  BY <2>1, <3>3, <3>4 DEF Waits
  <2>3. CASE calls[d].via # h
    BY <1>1, <1>6, <2>1, <2>3 DEF Waits, InLine, IsParked, Request
  <2> QED  BY <2>2, <2>3
<1> QED  BY <1>11, <1>12, <1>13, <1>14 DEF Awaited, Waiting

\* What a wake-up does to a call.
LEMMA UnparkedCall ==
    ASSUME CallShapes, NEW h, NEW c \in Callers
    PROVE  /\ Unparked(h)[c].num = calls[c].num /\ Unparked(h)[c].via = calls[c].via
           /\ Unparked(h)[c].answered = calls[c].answered
           /\ \/ Unparked(h)[c].pc = calls[c].pc
              \/ calls[c].pc = "flush" /\ Unparked(h)[c].pc = "wait"
           /\ Unparked(h)[c].pc = "flush" => parked[h] = <<>> \/ Head(parked[h]) # Request(c)
<1>1. calls[c] \in CallType
  BY DEF CallShapes
<1>2. CASE parked[h] = <<>>
  BY <1>2 DEF Unparked
<1>3. CASE parked[h] # <<>>
  <2>1. Unparked(h)[c] = IF Request(c) = Head(parked[h]) /\ calls[c].pc = "flush"
                         THEN [calls[c] EXCEPT !.pc = "wait"] ELSE calls[c]
    BY <1>3 DEF Unparked, At
  <2>2. /\ [calls[c] EXCEPT !.pc = "wait"].num = calls[c].num
        /\ [calls[c] EXCEPT !.pc = "wait"].via = calls[c].via
        /\ [calls[c] EXCEPT !.pc = "wait"].answered = calls[c].answered
        /\ [calls[c] EXCEPT !.pc = "wait"].pc = "wait"
    BY <1>1 DEF CallType
  <2> QED  BY <2>1, <2>2
<1> QED  BY <1>2, <1>3

\* What an answer does to a call.
LEMMA AnsweredCall ==
    ASSUME NEW cs \in [Callers -> CallType], NEW r, NEW c \in Callers
    PROVE  /\ Answered(cs, r)[c].num = cs[c].num /\ Answered(cs, r)[c].via = cs[c].via
           /\ Answered(cs, r)[c].pc = cs[c].pc
           /\ cs[c].answered => Answered(cs, r)[c].answered
           /\ r = <<c, cs[c].num>> /\ cs[c].pc \in {"flush", "wait"} => Answered(cs, r)[c].answered
<1>1. Answered(cs, r)[c] = IF r = <<c, cs[c].num>> /\ cs[c].pc \in {"flush", "wait"}
                           THEN [cs[c] EXCEPT !.answered = TRUE] ELSE cs[c]
  BY DEF Answered
<1>2. /\ [cs[c] EXCEPT !.answered = TRUE].num = cs[c].num
      /\ [cs[c] EXCEPT !.answered = TRUE].via = cs[c].via
      /\ [cs[c] EXCEPT !.answered = TRUE].pc = cs[c].pc
      /\ [cs[c] EXCEPT !.answered = TRUE].answered
  BY DEF CallType
<1> QED  BY <1>1, <1>2

\* Node::run takes the first request of the queue: it holds it or answers it, and
\* the sender that was parked first goes on.
LEMMA AwaitedRun ==
    ASSUME IInv, Awaited, NEW h \in DOMAIN handles, run(h)
    PROVE  Awaited'
<1>1. /\ loop[h] = Recv /\ queue[h] # <<>>
      /\ queue' = [queue EXCEPT ![h] = Tail(@)]
      /\ parked' = [parked EXCEPT ![h] = IF @ = <<>> THEN @ ELSE Tail(@)]
      /\ UNCHANGED <<backend, handles, registered>>
  BY DEF run, Receives, Pop
<1>2. /\ queue[h] \in Seq(Requests) /\ parked[h] \in Seq(Requests)
      /\ h \in DOMAIN queue /\ h \in DOMAIN parked /\ h \in DOMAIN loop
  BY QueueFacts DEF IInv
<1>3. ~Grpc
  BY <1>1, RequestFacts DEF IInv, Apart
<1>4. PICK r \in Requests : r = Head(queue[h]) /\ r = queue[h][1]
  BY <1>1, <1>2
<1>5. \/ loop' = [loop EXCEPT ![h] = r] /\ calls' = Unparked(h)
      \/ loop' = loop /\ calls' = Answered(Unparked(h), r)
  BY <1>4 DEF run
<1>6. Unparked(h) \in [Callers -> CallType]
  BY UnparkedWoken DEF Woken, IInv, Shapes
<1>7. /\ r # Ended /\ loop'[h] # Ended
      /\ \A k \in DOMAIN handles : k # h => loop'[k] = loop[k]
  <2>1. r # Ended /\ Recv # Ended
    BY RequestFacts
  <2>2. CASE loop' = loop
    BY <1>1, <2>1, <2>2
  <2>3. CASE loop' = [loop EXCEPT ![h] = r]
    BY <1>2, <2>1, <2>3 DEF IInv, Shapes, HandleShapes, QueueShapes
  <2> QED  BY <1>5, <2>1, <2>2, <2>3
<1>8. /\ queue'[h] = Tail(queue[h])
      /\ parked'[h] = IF parked[h] = <<>> THEN parked[h] ELSE Tail(parked[h])
      /\ \A k \in DOMAIN handles : k # h => queue'[k] = queue[k] /\ parked'[k] = parked[k]
  BY <1>1, <1>2 DEF IInv, Shapes, HandleShapes, QueueShapes
<1>9. ASSUME NEW c \in Callers
      PROVE  /\ calls'[c].num = calls[c].num /\ calls'[c].via = calls[c].via
             /\ calls[c].answered => calls'[c].answered
             /\ \/ calls'[c].pc = calls[c].pc
                \/ calls[c].pc = "flush" /\ calls'[c].pc = "wait"
             /\ calls'[c].pc = "flush" => parked[h] = <<>> \/ Head(parked[h]) # Request(c)
             /\ loop' = loop /\ r = Request(c) /\ calls[c].pc \in {"flush", "wait"} => calls'[c].answered
  <2>1. /\ Unparked(h)[c].num = calls[c].num /\ Unparked(h)[c].via = calls[c].via
        /\ Unparked(h)[c].answered = calls[c].answered
        /\ \/ Unparked(h)[c].pc = calls[c].pc
           \/ calls[c].pc = "flush" /\ Unparked(h)[c].pc = "wait"
        /\ Unparked(h)[c].pc = "flush" => parked[h] = <<>> \/ Head(parked[h]) # Request(c)
    BY UnparkedCall DEF IInv, Shapes
  <2>2. CASE loop' = [loop EXCEPT ![h] = r] /\ calls' = Unparked(h)
    <3>1. loop' # loop
      BY <1>1, <1>2, <2>2, RequestFacts
    <3> QED  BY <2>1, <2>2, <3>1
  <2>3. CASE loop' = loop /\ calls' = Answered(Unparked(h), r)
    <3>1. PICK cs \in [Callers -> CallType] : cs = Unparked(h)
      BY <1>6
    <3>2. /\ calls'[c].num = cs[c].num /\ calls'[c].via = cs[c].via /\ calls'[c].pc = cs[c].pc
          /\ cs[c].answered => calls'[c].answered
          /\ r = <<c, cs[c].num>> /\ cs[c].pc \in {"flush", "wait"} => calls'[c].answered
      BY <2>3, <3>1, AnsweredCall
    <3> QED  BY <2>1, <3>1, <3>2 DEF Request
  <2> QED  BY <1>5, <2>2, <2>3
<1>10. Listening'
  <2>1. ASSUME NEW n \in Nodes, registered[n] # 0 PROVE loop'[registered[n]] # Ended
    BY <1>3, <1>7, <2>1 DEF IInv, Targets, Awaited, Listening
  <2>2. ASSUME NEW c \in Callers, calls'[c].pc # "idle" PROVE loop'[calls'[c].via] # Ended
    <3>1. calls[c].pc # "idle" /\ calls'[c].via = calls[c].via
      BY <1>9, <2>2
    <3>2. loop[calls[c].via] # Ended /\ calls[c].via \in DOMAIN handles
      BY <1>3, <3>1 DEF IInv, Stages, Stage, Awaited, Listening
    <3> QED  BY <1>7, <3>1, <3>2
  <2> QED  BY <1>1, <2>1, <2>2 DEF Listening
<1>11. /\ Len(queue[h]) \in Nat \ {0} /\ Len(queue'[h]) = Len(queue[h]) - 1
       /\ DOMAIN queue[h] = 1 .. Len(queue[h]) /\ DOMAIN queue'[h] = 1 .. Len(queue[h]) - 1
       /\ \A i \in 1 .. Len(queue[h]) - 1 : queue'[h][i] = queue[h][i + 1]
  BY <1>1, <1>2, <1>8
<1>12. ASSUME parked[h] # <<>>
       PROVE  /\ Len(parked[h]) \in Nat \ {0} /\ Len(parked'[h]) = Len(parked[h]) - 1
              /\ DOMAIN parked[h] = 1 .. Len(parked[h]) /\ DOMAIN parked'[h] = 1 .. Len(parked[h]) - 1
              /\ \A i \in 1 .. Len(parked[h]) - 1 : parked'[h][i] = parked[h][i + 1]
              /\ Head(parked[h]) = parked[h][1]
  BY <1>2, <1>8, <1>12
<1>13. Backlog'
  <2>1. parked'[h] = <<>> \/ Len(parked'[h]) + Buffer <= Len(queue'[h])
    <3>1. CASE parked[h] = <<>>
      BY <1>8, <3>1
    <3>2. CASE parked[h] # <<>>
      <4>1. Len(parked[h]) + Buffer <= Len(queue[h]) /\ Buffer \in Nat
        BY <3>2, RouterAssumption DEF Awaited, Backlog
      <4>2. Len(parked[h]) \in Nat /\ Len(parked'[h]) = Len(parked[h]) - 1
        BY <1>12, <3>2
      <4> QED  BY <1>11, <4>1, <4>2
    <3> QED  BY <3>1, <3>2
  <2> QED  BY <1>1, <1>8, <2>1 DEF Awaited, Backlog
<1>14. ASSUME NEW c \in Callers, calls'[c].pc \in {"flush", "wait"}
       PROVE  InLine(c)' /\ (calls'[c].pc = "flush" => IsParked(c)')
  <2>1. /\ calls[c].pc \in {"flush", "wait"} /\ Request(c)' = Request(c)
        /\ calls'[c].via = calls[c].via /\ calls[c].via \in DOMAIN handles
        /\ calls'[c].pc = "flush" => calls[c].pc = "flush"
    BY <1>3, <1>9, <1>14 DEF Request, IInv, Stages, Stage
  <2>2. InLine(c) /\ (calls[c].pc = "flush" => IsParked(c))
    BY <1>3, <2>1 DEF Awaited, Waiting, Waits
  <2>3. CASE calls[c].via # h
    BY <1>7, <1>8, <1>9, <2>1, <2>2, <2>3 DEF InLine, IsParked
  <2>4. CASE calls[c].via = h
    <3>1. Request(c) \in Requests
      <4>1. calls[c].num \in 1 .. MaxSends[c]
        BY <2>1, CallFacts DEF IInv, Shapes, Pushes
      <4> QED  BY <4>1, RequestFacts DEF Request
    <3>2. loop[h] # Request(c)
      BY <1>1, <3>1, RequestFacts
    <3>3. InLine(c)'
      <4>1. CASE calls[c].answered
        BY <1>9, <4>1 DEF InLine
      <4>2. ASSUME NEW i \in DOMAIN queue[h], queue[h][i] = Request(c) PROVE InLine(c)'
        <5>1. CASE i = 1
          <6>1. r = Request(c)
            BY <1>4, <4>2, <5>1
          <6>2. CASE loop' = loop
            BY <1>9, <2>1, <6>1, <6>2 DEF InLine
          <6>3. CASE loop' = [loop EXCEPT ![h] = r]
            BY <1>2, <2>1, <2>4, <6>1, <6>3 DEF InLine
          <6> QED  BY <1>5, <6>2, <6>3
        <5>2. CASE i # 1
          <6>1. i - 1 \in 1 .. Len(queue[h]) - 1 /\ (i - 1) + 1 = i
            BY <1>11, <5>2
          <6>2. queue'[h][i - 1] = Request(c)
            BY <1>11, <4>2, <6>1
          <6> QED  BY <1>11, <2>1, <2>4, <6>1, <6>2 DEF InLine
        <5> QED  BY <5>1, <5>2
      <4> QED  BY <2>2, <2>4, <3>2, <4>1, <4>2 DEF InLine
    <3>4. ASSUME calls'[c].pc = "flush" PROVE IsParked(c)'
      <4>1. PICK i \in DOMAIN parked[h] : parked[h][i] = Request(c)
        BY <2>1, <2>2, <2>4, <3>4 DEF IsParked
      <4>2. parked[h] # <<>>
        BY <4>1
      <4>3. i # 1
        BY <1>9, <1>12, <3>4, <4>1, <4>2
      <4>4. i - 1 \in 1 .. Len(parked[h]) - 1 /\ (i - 1) + 1 = i
        BY <1>12, <4>1, <4>2, <4>3
      <4>5. parked'[h][i - 1] = Request(c) /\ i - 1 \in DOMAIN parked'[h]
        BY <1>12, <4>1, <4>2, <4>4
      <4> QED  BY <2>1, <2>4, <4>5 DEF IsParked
    <3> QED  BY <3>3, <3>4
  <2> QED  BY <2>3, <2>4
<1>15. Waiting'
  BY <1>14 DEF Waiting, Waits
<1> QED  BY <1>10, <1>13, <1>15 DEF Awaited

\* Node::run gives the answer to the request it holds.
LEMMA AwaitedAnswer ==
    ASSUME IInv, Awaited, NEW h \in DOMAIN handles, run_answer(h)
    PROVE  Awaited'
<1>1. /\ loop[h] \in Requests /\ calls' = Answered(calls, loop[h])
      /\ loop' = [loop EXCEPT ![h] = Recv]
      /\ UNCHANGED <<backend, handles, registered, queue, parked>>
  BY DEF run_answer, local_vars
<1>2. /\ loop'[h] = Recv /\ Recv # Ended
      /\ \A k \in DOMAIN handles : k # h => loop'[k] = loop[k]
  BY <1>1, QueueFacts, RequestFacts DEF IInv, Shapes, HandleShapes, QueueShapes
<1>3. ~Grpc
  BY <1>1, RequestFacts DEF IInv, Apart
<1>4. calls \in [Callers -> CallType]
  BY DEF IInv, Shapes, CallShapes
<1>5. ASSUME NEW c \in Callers
      PROVE  /\ calls'[c].num = calls[c].num /\ calls'[c].via = calls[c].via
             /\ calls'[c].pc = calls[c].pc
             /\ calls[c].answered => calls'[c].answered
             /\ loop[h] = Request(c) /\ calls[c].pc \in {"flush", "wait"} => calls'[c].answered
  BY <1>1, <1>4, AnsweredCall DEF Request
<1>6. Listening'
  <2>1. ASSUME NEW n \in Nodes, registered[n] # 0 PROVE loop'[registered[n]] # Ended
    BY <1>2, <1>3, <2>1 DEF IInv, Targets, Awaited, Listening
  <2>2. ASSUME NEW c \in Callers, calls[c].pc # "idle" PROVE loop'[calls[c].via] # Ended
    BY <1>2, <1>3, <2>2 DEF IInv, Stages, Stage, Awaited, Listening
  <2> QED  BY <1>1, <1>5, <2>1, <2>2 DEF Listening
<1>7. Backlog'
  BY <1>1 DEF Awaited, Backlog
<1>8. ASSUME NEW c \in Callers PROVE Waits(c)'
  <2>1. Waits(c) /\ Request(c)' = Request(c) /\ (calls[c].pc # "idle" => calls[c].via \in DOMAIN handles)
    BY <1>3, <1>5 DEF Awaited, Waiting, Request, IInv, Stages, Stage
  <2>2. IsParked(c) => IsParked(c)'
    BY <1>1, <1>5, <2>1 DEF IsParked
  <2>3. ASSUME calls[c].pc \in {"flush", "wait"} PROVE InLine(c)'
    <3>1. CASE calls[c].answered
      BY <1>5, <3>1 DEF InLine
    <3>2. CASE loop[calls[c].via] = Request(c)
      BY <1>2, <1>5, <2>1, <2>3, <3>2 DEF InLine
    <3>3. CASE \E i \in DOMAIN queue[calls[c].via] : queue[calls[c].via][i] = Request(c)
      BY <1>1, <1>5, <2>1, <3>3 DEF InLine
    <3> QED  BY <2>1, <2>3, <3>1, <3>2, <3>3 DEF Waits, InLine
  <2> QED  BY <1>5, <2>1, <2>2, <2>3 DEF Waits
<1> QED  BY <1>6, <1>7, <1>8 DEF Awaited, Waiting

\* The loop ends when no sender is left, so nobody waits for it.
LEMMA AwaitedEnd ==
    ASSUME IInv, Awaited, NEW h \in DOMAIN handles, run_end(h)
    PROVE  Awaited'
<1>1. /\ loop[h] = Recv /\ registered[handles[h].node] # h /\ Senders(h) = {}
      /\ loop' = [loop EXCEPT ![h] = Ended]
      /\ UNCHANGED <<backend, handles, registered, queue, parked, calls>>
  BY DEF run_end, local_vars
<1>2. ~Grpc
  BY <1>1, RequestFacts DEF IInv, Apart
<1>3. \A k \in DOMAIN handles : k # h => loop'[k] = loop[k]
  BY <1>1, QueueFacts DEF IInv, Shapes, HandleShapes, QueueShapes
<1>4. ASSUME NEW c \in Callers, calls[c].pc # "idle"
      PROVE  calls[c].via \in DOMAIN handles /\ calls[c].via # h
  BY <1>1, <1>2, <1>4 DEF Senders, At, IInv, Stages, Stage
<1>5. Listening'
  <2>1. ASSUME NEW n \in Nodes, registered[n] # 0 PROVE loop'[registered[n]] # Ended
    <3>1. registered[n] \in DOMAIN handles /\ registered[n] # h
      BY <1>1, <2>1 DEF IInv, Targets
    <3> QED  BY <1>2, <1>3, <2>1, <3>1 DEF Awaited, Listening
  <2>2. ASSUME NEW c \in Callers, calls[c].pc # "idle" PROVE loop'[calls[c].via] # Ended
    BY <1>2, <1>3, <1>4, <2>2 DEF Awaited, Listening
  <2> QED  BY <1>1, <2>1, <2>2 DEF Listening
<1>6. Backlog'
  BY <1>1 DEF Awaited, Backlog
<1>7. ASSUME NEW c \in Callers PROVE Waits(c)'
  <2>1. Waits(c)
    BY <1>2 DEF Awaited, Waiting
  <2> QED  BY <1>1, <1>3, <1>4, <2>1 DEF Waits, InLine, IsParked, Request
<1> QED  BY <1>5, <1>6, <1>7 DEF Awaited, Waiting

\* Every step keeps it.
LEMMA AwaitedStep == IInv /\ Awaited /\ [Next]_vars => Awaited'
<1> SUFFICES ASSUME IInv, Awaited, [Next]_vars PROVE Awaited'
  OBVIOUS
<1>1. ASSUME NEW n \in Nodes, start_node(n) PROVE Awaited'
  BY <1>1, AwaitedStart
<1>2. ASSUME NEW h \in DOMAIN handles, NodeStep(h) PROVE Awaited'
  <2>1. handles \in Seq(HandleType) /\ registered \in [Nodes -> Nat]
    BY DEF IInv, Shapes, HandleShapes
  <2>2. UNCHANGED <<backend, queue, parked, loop, calls>>
    BY <1>2 DEF NodeStep, create_group, shutdown_raft, shutdown, shutdown_again, shutdown_clear,
         unregister_node, ProcessEnds, local_vars
  <2>3. DOMAIN handles' = DOMAIN handles
    BY <1>2, <2>1 DEF NodeStep, create_group, shutdown_raft, shutdown, shutdown_again, shutdown_clear,
         unregister_node, ProcessEnds, Stop, SetHandle
  <2>4. \A n \in Nodes : registered'[n] = registered[n] \/ registered'[n] = 0
    BY <1>2, <2>1 DEF NodeStep, create_group, shutdown_raft, shutdown, shutdown_again, shutdown_clear,
         unregister_node, ProcessEnds
  <2> QED  BY <2>2, <2>3, <2>4, AwaitedFrame
<1>3. ASSUME NEW h \in DOMAIN handles, LoopStep(h) PROVE Awaited'
  BY <1>3, AwaitedRun, AwaitedAnswer, AwaitedEnd DEF LoopStep
<1>4. ASSUME NEW c \in Callers, ReturnCall(c),
             UNCHANGED <<backend, handles, registered, queue, parked, loop>>
      PROVE  Awaited'
  <2>1. calls'[c].pc = "idle" /\ \A d \in Callers : d # c => calls'[d] = calls[d]
    BY <1>4, GotoViaFacts DEF ReturnCall, CallPcs, IInv, Shapes
  <2> QED  BY <1>4, <2>1, AwaitedCall
<1>5. ASSUME NEW c \in Callers, send(c) PROVE Awaited'
  <2>1. /\ UNCHANGED <<backend, handles, registered, queue, parked, loop>> /\ ~Grpc
        /\ Begin(c, IF registered[NodeOf[c]] = 0 THEN "idle" ELSE "push", registered[NodeOf[c]])
    BY <1>5 DEF send, node_vars, local_vars
  <2>2. /\ calls'[c].pc = (IF registered[NodeOf[c]] = 0 THEN "idle" ELSE "push")
        /\ calls'[c].via = registered[NodeOf[c]]
        /\ \A d \in Callers : d # c => calls'[d] = calls[d]
    BY <2>1 DEF Begin, SetCall, IInv, Shapes, CallShapes
  <2>3. NodeOf[c] \in Nodes
    BY RouterAssumption
  <2>4. registered[NodeOf[c]] # 0 => loop[registered[NodeOf[c]]] # Ended
    BY <2>1, <2>3 DEF Awaited, Listening
  <2> QED  BY <2>1, <2>2, <2>4, AwaitedCall
<1>6. ASSUME NEW c \in Callers, push(c) PROVE Awaited'
  BY <1>6, AwaitedPush
<1>7. ASSUME NEW c \in Callers, response(c) \/ Timeout(c) \/ call_error(c) \/ connect_error(c)
      PROVE  Awaited'
  BY <1>4, <1>7 DEF response, Timeout, call_error, connect_error, node_vars, local_vars
<1>8. ASSUME NEW c \in Callers,
             \/ channel_for(c) \/ connect(c) \/ insert(c) \/ record(c)
             \/ \E h \in DOMAIN handles : call(c, h)
      PROVE  Awaited'
  <2>1. UNCHANGED <<backend, handles, queue, parked>>
    BY <1>8 DEF channel_for, connect, insert, record, call, node_vars, local_vars
  <2>2. Grpc
    BY <1>8 DEF channel_for, connect, insert, record, call, At, IInv, Stages, Stage
  <2> QED  BY <2>1, <2>2, AwaitedGrpc
<1>9. ASSUME NEW s \in serving, demux_raft_call(s) PROVE Awaited'
  BY <1>9, AwaitedGrpc DEF demux_raft_call, node_vars, local_vars, IInv, Apart
<1>10. CASE UNCHANGED vars
  BY <1>10, AwaitedFrame DEF vars, node_vars, local_vars
<1> QED  BY <1>1, <1>2, <1>3, <1>5, <1>6, <1>7, <1>8, <1>9, <1>10 DEF Next, CallStep

\* In process, a call that waits has its answer, or its request is still with the
\* loop or in the queue of the handle it was sent to; and the call itself can
\* return or that loop can go on.
NoCallStranded ==
    ~Grpc => \A c \in Callers : calls[c].pc \in {"flush", "wait"} =>
        LET h == calls[c].via
        IN  /\ calls[c].answered \/ loop[h] = Request(c) \/ Request(c) \in Range(queue[h])
            /\ \/ At(c, "wait") /\ calls[c].answered
               \/ loop[h] \in Requests
               \/ Receives(h)

\* No answer is lost and no wake-up is missed in process, so that nobody waits on
\* anybody for ever: a request stays with the queue or the loop until it is
\* answered, a loop does not end before its last sender is gone, and a parked
\* sender has requests in front of it whose removal wakes it (Router::send,
\* Node::run, and unregister_node or a timeout at any time).
THEOREM NobodyStranded == Spec => []NoCallStranded
<1>1. Init => Awaited
  <2> SUFFICES ASSUME Init PROVE Awaited
    OBVIOUS
  <2>1. DOMAIN handles = {}
    BY DEF Init
  <2> QED  BY <2>1 DEF Init, Awaited, Listening, Backlog, Waiting, Waits
<1>2. IInv /\ Awaited => NoCallStranded
  <2> SUFFICES ASSUME IInv, Awaited, ~Grpc, NEW c \in Callers, calls[c].pc \in {"flush", "wait"},
                      NEW h, h = calls[c].via
               PROVE  /\ calls[c].answered \/ loop[h] = Request(c) \/ Request(c) \in Range(queue[h])
                      /\ \/ calls[c].pc = "wait" /\ calls[c].answered
                         \/ loop[h] \in Requests
                         \/ Receives(h)
    BY DEF NoCallStranded, At
  <2>1. h \in DOMAIN handles /\ loop[h] # Ended
    BY DEF IInv, Stages, Stage, Awaited, Listening
  <2>2. /\ queue[h] \in Seq(Requests) /\ parked[h] \in Seq(Requests)
        /\ loop[h] \in Requests \cup {Recv, Ended}
    BY <2>1, QueueFacts DEF IInv
  <2>3. calls[c].answered \/ loop[h] = Request(c) \/ Request(c) \in Range(queue[h])
    BY DEF Awaited, Waiting, Waits, InLine, Range
  <2>4. queue[h] # <<>> => loop[h] \in Requests \/ Receives(h)
    BY <2>1, <2>2 DEF Receives
  <2>5. CASE calls[c].pc = "flush"
    <3>1. parked[h] # <<>>
      BY <2>5 DEF Awaited, Waiting, Waits, IsParked
    <3>2. Len(parked[h]) + Buffer <= Len(queue[h]) /\ Buffer \in Nat
      BY <2>1, <3>1, RouterAssumption DEF Awaited, Backlog
    <3>3. Len(parked[h]) \in Nat \ {0} /\ Len(queue[h]) \in Nat
      BY <2>2, <3>1
    <3>4. queue[h] # <<>>
      BY <2>2, <3>2, <3>3
    <3> QED  BY <2>3, <2>4, <3>4
  <2>6. CASE calls[c].pc = "wait" /\ ~calls[c].answered
    <3>1. Request(c) \in Requests
      <4>1. calls[c].num \in 1 .. MaxSends[c]
        BY CallFacts DEF IInv, Shapes, Pushes
      <4> QED  BY <4>1, RequestFacts DEF Request
    <3>2. Request(c) \in Range(queue[h]) => queue[h] # <<>>
      BY DEF Range
    <3> QED  BY <2>3, <2>4, <2>6, <3>1, <3>2
  <2> QED  BY <2>3, <2>5, <2>6
<1> QED  BY <1>1, <1>2, AwaitedStep, Inductive, PTL DEF Spec
=============================================================================
