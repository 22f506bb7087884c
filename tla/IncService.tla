----------------------------- MODULE IncService -----------------------------
(***************************************************************************)
(* Counter increments end to end: the demo's HTTP endpoint and background  *)
(* loop (crates/multiraft-demo/src/main.rs, one process per node), the     *)
(* proposal through MultiRaft::propose, the state machine that drops       *)
(* commands whose idempotency key it has seen, and the Jepsen client with  *)
(* its failover between nodes                                              *)
(* (jepsen/multiraft/src/jepsen/multiraft/client.clj).                     *)
(*                                                                         *)
(* Raft (external) is what propose relies on: any node may accept a        *)
(* proposal, an accepted one is committed once or lost, and the call may   *)
(* end with NotLeader or another error although its entry is committed     *)
(* later, when leadership moved in between.  Every increment adds 1.       *)
(***************************************************************************)
EXTENDS CounterFsm, FiniteSets

CONSTANTS
    Nodes,          \* demo processes, by their node_id
    Ops,            \* increments
    IdemSpace,      \* size of the counter's part of a key, 2^32 in the code
    MaxRestart      \* bound: restarts of a process

ASSUME IncAssumption ==
    /\ 0 \notin Nodes /\ IsFiniteSet(Ops)
    /\ IdemSpace \in Nat \ {0} /\ MaxRestart \in Nat

VARIABLES
    idem,       \* DemoState.idem of each process
    client,     \* each increment as the client sees it
    req,        \* the request of each increment at each process
    accepted,   \* entries a leader accepted, not yet committed or lost (external)
    fsm,        \* CounterFsm after the committed entries
    restarts

vars == <<idem, client, req, accepted, fsm, restarts>>

ClientPcs == {"idle", "trying", "ok", "info", "fail"}
ReqPcs == {"none", "first", "wait1", "second", "wait2", "ok", "error"}

NoReq == [pc |-> "none", key |-> <<0, 0>>]

\* A key is a pair: node_id << 32 | local, or the client's for this increment.
Keys == (Nodes \cup {0}) \X (Ops \cup Nat)

TypeOK ==
    /\ idem \in [Nodes -> Nat \ {0}]
    /\ \A o \in Ops : /\ client[o].pc \in ClientPcs /\ client[o].keyed \in BOOLEAN
                      /\ client[o].left \subseteq Nodes
    /\ \A o \in Ops, n \in Nodes : req[o][n].pc \in ReqPcs /\ req[o][n].key \in Keys
    /\ \A e \in accepted : e.op \in Ops /\ e.node \in Nodes /\ e.pc \in {"wait1", "wait2"}
    /\ fsm.value \in Nat /\ fsm.seen \subseteq Keys
    /\ restarts \in 0 .. MaxRestart

Init ==
    /\ idem = [n \in Nodes |-> 1]
    /\ client = [o \in Ops |-> [pc |-> "idle", keyed |-> FALSE, node |-> 0, left |-> {}]]
    /\ req = [o \in Ops |-> [n \in Nodes |-> NoReq]]
    /\ accepted = {} /\ fsm = Fresh
    /\ restarts = 0

-----------------------------------------------------------------------------
next_idem_NoBase(n) == <<0, idem[n] % IdemSpace>>

\* fetch_add on the process's counter; the low bits, with the node above them.
next_idem(n) == <<n, idem[n] % IdemSpace>>

TakeIdem(n) == idem' = [idem EXCEPT ![n] = @ + 1]

(***************************************************************************)
(* The client.  The Jepsen client sends a key of its own and tries one     *)
(* node, then the others one after another; a request without a key gets   *)
(* one from the process it reaches and is not tried again.                 *)
(***************************************************************************)
KeyAt(o, n, keyed) == IF keyed THEN <<0, o>> ELSE next_idem(n)

PutReq(o, n, r) == [req EXCEPT ![o] = [@ EXCEPT ![n] = r]]

\* try-add! reaches group_inc on n, which fixes the key of this request.
Send(o, n, keyed, left) ==
    /\ client' = [client EXCEPT ![o] = [pc |-> "trying", keyed |-> keyed, node |-> n, left |-> left]]
    /\ req' = PutReq(o, n, [pc |-> "first", key |-> KeyAt(o, n, keyed)])
    /\ IF keyed THEN UNCHANGED idem ELSE TakeIdem(n)

invoke(o, n, keyed) ==
    /\ client[o].pc = "idle"
    /\ Send(o, n, keyed, IF keyed THEN Nodes \ {n} ELSE {})
    /\ UNCHANGED <<accepted, fsm, restarts>>

Trying(o) == client[o].pc = "trying"
Finish(o, pc) ==
    client' = [client EXCEPT ![o] = [pc |-> pc, keyed |-> @.keyed, node |-> 0, left |-> {}]]
Reply(o) == req[o][client[o].node].pc

reply_ok(o) ==
    /\ Trying(o) /\ Reply(o) = "ok"
    /\ Finish(o, "ok")
    /\ UNCHANGED <<idem, req, accepted, fsm, restarts>>

\* 503, 409, connection refused or reset, or a socket timeout, which leaves
\* the request running: with-node-failover goes to the next node, and after
\* the last one the operation has failed.
TryFailed(o) == Trying(o) /\ Reply(o) # "ok"

failover_NewKey(o, n) ==
    /\ TryFailed(o)
    /\ n \in client[o].left
    /\ client' = [client EXCEPT ![o].node = n, ![o].left = @ \ {n}]
    /\ req' = PutReq(o, n, [pc |-> "first", key |-> <<n, o>>])
    /\ UNCHANGED <<idem, accepted, fsm, restarts>>

failover(o, n) ==
    /\ TryFailed(o)
    /\ n \in client[o].left
    /\ Send(o, n, TRUE, client[o].left \ {n})
    /\ UNCHANGED <<accepted, fsm, restarts>>

give_up(o) ==
    /\ TryFailed(o)
    /\ client[o].left = {}
    /\ Finish(o, "fail")
    /\ UNCHANGED <<idem, req, accepted, fsm, restarts>>

\* Any other exception: the operation ends as indeterminate.
ambiguous(o) ==
    /\ TryFailed(o)
    /\ Finish(o, "info")
    /\ UNCHANGED <<idem, req, accepted, fsm, restarts>>

-----------------------------------------------------------------------------
(***************************************************************************)
(* group_inc: first on a local leader, then on every local node, with the  *)
(* same bytes.  A process has one local node.                              *)
(***************************************************************************)
ReqAt(o, n, pc) == req[o][n].pc = pc
WithPc(r, pc) == [pc |-> pc, key |-> r.key]
SetReq(o, n, pc) == req' = PutReq(o, n, WithPc(req[o][n], pc))

Accept(o, n, pc) ==
    /\ accepted' = accepted \cup {[op |-> o, node |-> n, pc |-> pc, key |-> req[o][n].key]}
    /\ SetReq(o, n, pc)

propose_leader(o, n) ==
    /\ ReqAt(o, n, "first")
    /\ Accept(o, n, "wait1")
    /\ UNCHANGED <<idem, client, fsm, restarts>>

\* Not the leader, or no longer when it proposed.
no_leader(o, n) ==
    /\ ReqAt(o, n, "first")
    /\ SetReq(o, n, "second")
    /\ UNCHANGED <<idem, client, accepted, fsm, restarts>>

propose_any(o, n) ==
    /\ ReqAt(o, n, "second")
    /\ Accept(o, n, "wait2")
    /\ UNCHANGED <<idem, client, fsm, restarts>>

\* NotLeader again, or another error: 503 or 409.
refuse(o, n) ==
    /\ ReqAt(o, n, "second")
    /\ SetReq(o, n, "error")
    /\ UNCHANGED <<idem, client, accepted, fsm, restarts>>

\* propose ends with NotLeader although its entry was accepted.
not_leader(o, n) ==
    /\ \/ ReqAt(o, n, "wait1") /\ SetReq(o, n, "second")
       \/ ReqAt(o, n, "wait2") /\ SetReq(o, n, "error")
    /\ UNCHANGED <<idem, client, accepted, fsm, restarts>>

\* propose ends with any other error: 409 at once.
propose_error(o, n) ==
    /\ req[o][n].pc \in {"first", "wait1", "wait2"}
    /\ SetReq(o, n, "error")
    /\ UNCHANGED <<idem, client, accepted, fsm, restarts>>

(***************************************************************************)
(* propose_loop: an increment of the process itself, proposed once.        *)
(***************************************************************************)
propose_loop(o, n) ==
    /\ client[o].pc = "idle"
    /\ client' = [client EXCEPT ![o] = [pc |-> "trying", keyed |-> FALSE, node |-> n, left |-> {}]]
    /\ req' = PutReq(o, n, [pc |-> "wait2", key |-> next_idem(n)])
    /\ TakeIdem(n)
    /\ accepted' = accepted \cup {[op |-> o, node |-> n, pc |-> "wait2", key |-> next_idem(n)]}
    /\ UNCHANGED <<fsm, restarts>>

(***************************************************************************)
(* External: Raft commits an accepted entry, and answers the propose that  *)
(* still waits for it; or the entry is overwritten by another leader.      *)
(***************************************************************************)
Commit(e) ==
    /\ e \in accepted
    /\ accepted' = accepted \ {e}
    /\ fsm' = FsmApply(fsm, [idem |-> e.key, delta |-> 1])
    /\ IF ReqAt(e.op, e.node, e.pc) THEN SetReq(e.op, e.node, "ok") ELSE UNCHANGED req
    /\ UNCHANGED <<idem, client, restarts>>

Lose(e) ==
    /\ e \in accepted
    /\ accepted' = accepted \ {e}
    /\ IF ReqAt(e.op, e.node, e.pc)
       THEN SetReq(e.op, e.node, IF e.pc = "wait1" THEN "second" ELSE "error")
       ELSE UNCHANGED req
    /\ UNCHANGED <<idem, client, fsm, restarts>>

Restart_Zero(n) ==
    /\ restarts < MaxRestart
    /\ restarts' = restarts + 1
    /\ idem' = [idem EXCEPT ![n] = 0]
    /\ req' = [o \in Ops |-> [req[o] EXCEPT ![n] =
                    IF @.pc \in {"first", "wait1", "second", "wait2"} THEN WithPc(@, "error") ELSE @]]
    /\ UNCHANGED <<client, accepted, fsm>>

\* A process ends and starts again: its counter starts at 1, its requests are
\* gone; the state machine, rebuilt from the log, knows the keys it had seen.
Restart(n) ==
    /\ restarts < MaxRestart
    /\ restarts' = restarts + 1
    /\ idem' = [idem EXCEPT ![n] = 1]
    /\ req' = [o \in Ops |-> [req[o] EXCEPT ![n] =
                    IF @.pc \in {"first", "wait1", "second", "wait2"} THEN WithPc(@, "error") ELSE @]]
    /\ UNCHANGED <<client, accepted, fsm>>

Next ==
    \/ \E o \in Ops : reply_ok(o) \/ give_up(o) \/ ambiguous(o)
    \/ \E o \in Ops, n \in Nodes :
           \/ \E keyed \in BOOLEAN : invoke(o, n, keyed)
           \/ failover(o, n) \/ propose_loop(o, n)
           \/ propose_leader(o, n) \/ no_leader(o, n) \/ propose_any(o, n) \/ refuse(o, n)
           \/ not_leader(o, n) \/ propose_error(o, n)
    \/ \E e \in accepted : Commit(e) \/ Lose(e)
    \/ \E n \in Nodes : Restart(n)

Spec == Init /\ [][Next]_vars

-----------------------------------------------------------------------------
(***************************************************************************)
(* Properties.                                                             *)
(***************************************************************************)
OpsWith(pcs) == {o \in Ops : client[o].pc \in pcs}

\* Every increment that was answered with success is counted: no key of one
\* makes the state machine drop another, through failover, retries and
\* leadership changes, as long as no process restarts or every increment carries
\* a key of its client (next_idem, CounterFsm::apply).
AckedIsCounted ==
    \/ restarts > 0 /\ \E o \in OpsWith(ClientPcs \ {"idle"}) : ~client[o].keyed
    \/ fsm.value >= Cardinality(OpsWith({"ok"}))

\* An increment counts at most once, whatever the two passes of group_inc, the
\* failover of the client and leadership changes make of it.
CountedOnce == fsm.value <= Cardinality(OpsWith(ClientPcs \ {"idle"}))
=============================================================================
