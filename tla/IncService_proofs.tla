-------------------------- MODULE IncService_proofs --------------------------
(***************************************************************************)
(* Proofs about IncService: for any set of processes and any finite set of *)
(* increments, each increment counts at most once, and as long as the      *)
(* local part of the key does not wrap around, every acknowledged one      *)
(* counts.                                                                 *)
(***************************************************************************)
EXTENDS IncService, FiniteSetTheorems, TLAPS

(***************************************************************************)
(* The inductive invariant.                                                *)
(***************************************************************************)
Shapes ==
    /\ idem \in [Nodes -> Nat \ {0}]
    /\ client \in [Ops -> [pc : ClientPcs, keyed : BOOLEAN, node : Nodes \cup {0},
                           left : SUBSET Nodes]]
    /\ req \in [Ops -> [Nodes -> [pc : ReqPcs, key : Keys]]]
    /\ accepted \subseteq [op : Ops, node : Nodes, pc : {"wait1", "wait2"}, key : Keys]
    /\ fsm.seen \subseteq Keys
    /\ restarts \in 0 .. MaxRestart

Asked(o, n) == req[o][n].pc # "none"
Key(o, n) == req[o][n].key

\* An increment that was not sent has no request; one without a key of its
\* client has one request, and its client no other node to go to.
Sent ==
    \A o \in Ops :
        /\ client[o].pc = "idle" => \A n \in Nodes : ~Asked(o, n)
        /\ client[o].pc = "trying" => client[o].node \in Nodes
        /\ ~client[o].keyed => client[o].left = {}

OneRequest ==
    \A o \in Ops : \A m, n \in Nodes :
        ~client[o].keyed /\ Asked(o, m) /\ Asked(o, n) => m = n

\* Where a key comes from: the client, or the process the request is at.
KeyOrigin(o, n) ==
    IF client[o].keyed THEN Key(o, n) = <<0, o>>
    ELSE \E k \in 0 .. (IdemSpace - 1) : Key(o, n) = <<n, k>>

Keyed == \A o \in Ops, n \in Nodes : Asked(o, n) => KeyOrigin(o, n)

\* What Raft holds is a request's command, with that request's key.
AcceptedKeys == \A e \in accepted : Asked(e.op, e.node) /\ e.key = Key(e.op, e.node)

\* The counter counts the consumed keys, each of which some request has.
Counted ==
    /\ IsFiniteSet(fsm.seen)
    /\ fsm.value = Cardinality(fsm.seen)
    /\ \A k \in fsm.seen : \E o \in Ops, n \in Nodes : Asked(o, n) /\ k = Key(o, n)

\* Success is answered only when the key is consumed.
Confirmed ==
    /\ \A o \in Ops, n \in Nodes : req[o][n].pc = "ok" => Key(o, n) \in fsm.seen
    /\ \A o \in Ops : client[o].pc = "ok"
                          => \E n \in Nodes : Asked(o, n) /\ Key(o, n) \in fsm.seen

Invoked == OpsWith(ClientPcs \ {"idle"})

\* Up to the first restart a process numbers its requests from 1, and no
\* number is beyond the number of increments.
NumberedBelow ==
    /\ \A n \in Nodes : idem[n] <= Cardinality(Invoked) + 1
    /\ \A o \in Ops, n \in Nodes :
           Asked(o, n) /\ ~client[o].keyed =>
               \E j \in 1 .. (idem[n] - 1) : Key(o, n) = <<n, j % IdemSpace>>

NumberedApart ==
    \A o, p \in Ops : \A n \in Nodes :
        /\ o # p /\ Asked(o, n) /\ Asked(p, n)
        /\ ~client[o].keyed /\ ~client[p].keyed
        => Key(o, n) # Key(p, n)

Roomy == Cardinality(Ops) <= IdemSpace

Numbered == Roomy /\ restarts = 0 => NumberedBelow /\ NumberedApart

IInv ==
    /\ Shapes /\ Sent /\ OneRequest /\ Keyed /\ AcceptedKeys
    /\ Counted /\ Confirmed /\ Numbered

-----------------------------------------------------------------------------
(***************************************************************************)
(* Arithmetic and counting.                                                *)
(***************************************************************************)
\* The low bits of a counter, as next_idem takes them.
LEMMA ModType ==
    ASSUME NEW a \in Nat, NEW b \in Nat \ {0}
    PROVE  a % b \in 0 .. (b - 1)
  BY SMT

\* Two numbers of 1 .. IdemSpace have different low bits.
LEMMA ModApart ==
    ASSUME NEW b \in Nat \ {0}, NEW k \in Nat, k <= b, NEW j \in 1 .. (k - 1)
    PROVE  j % b # k % b
  <1>1. j < b /\ j \in Nat /\ j # 0
    BY SMT
  <1>2. j % b = j
    BY <1>1, SMT
  <1>3. CASE k = b
    <2>1. b % b = 0
      BY SMT
    <2> QED
      BY <1>1, <1>2, <1>3, <2>1
  <1>4. CASE k < b
    <2>1. k % b = k
      BY <1>4, SMT
    <2> QED
      BY <1>2, <2>1, SMT
  <1> QED
    BY <1>3, <1>4, SMT

\* An injection between finite sets compares their sizes.
LEMMA InjectionCounts ==
    ASSUME NEW S, NEW T, IsFiniteSet(T), NEW f \in [S -> T],
           \A x, y \in S : f[x] = f[y] => x = y
    PROVE  IsFiniteSet(S) /\ Cardinality(S) <= Cardinality(T)
  <1>1. f \in Injection(S, T)
    BY DEF Injection, IsInjective
  <1> QED
    BY <1>1, FS_Injection, Zenon

\* Increments are finitely many, so those that were sent are.
LEMMA InvokedFinite ==
    /\ IsFiniteSet(Invoked)
    /\ Cardinality(Invoked) \in Nat /\ Cardinality(Ops) \in Nat
  <1>1. IsFiniteSet(Ops)
    BY IncAssumption
  <1>2. Invoked \subseteq Ops
    BY DEF Invoked, OpsWith
  <1> QED
    BY <1>1, <1>2, FS_Subset, FS_CardinalityType, Zenon

-----------------------------------------------------------------------------
(***************************************************************************)
(* Initially.                                                              *)
(***************************************************************************)
\* No request, no key, counters at 1.
LEMMA InitIInv == Init => IInv
  <1> SUFFICES ASSUME Init PROVE IInv
    OBVIOUS
  <1> USE IncAssumption
  <1>1. Shapes
    BY DEF Init, Shapes, ClientPcs, ReqPcs, NoReq, Keys, Fresh
  <1>2. \A o \in Ops, n \in Nodes : ~Asked(o, n) /\ req[o][n].pc # "ok"
    BY DEF Init, Asked, NoReq
  <1>3. \A o \in Ops : client[o].pc = "idle" /\ client[o].left = {}
    BY DEF Init
  <1>4. Sent /\ OneRequest /\ Keyed /\ Confirmed
    BY <1>2, <1>3 DEF Sent, OneRequest, Keyed, Confirmed
  <1>5. AcceptedKeys
    BY DEF Init, AcceptedKeys
  <1>6. Counted
    <2>1. fsm.seen = {} /\ fsm.value = 0
      BY DEF Init, Fresh
    <2> QED
      BY <2>1, FS_EmptySet DEF Counted
  <1>7. Numbered
    <2>1. \A n \in Nodes : idem[n] <= Cardinality(Invoked) + 1
      BY InvokedFinite DEF Init
    <2> QED
      BY <1>2, <2>1 DEF Numbered, NumberedBelow, NumberedApart
  <1> QED
    BY <1>1, <1>4, <1>5, <1>6, <1>7 DEF IInv

-----------------------------------------------------------------------------
(***************************************************************************)
(* Steps that give no request a new key.                                   *)
(***************************************************************************)
SameKeys ==
    \A o \in Ops, n \in Nodes : Key(o, n)' = Key(o, n) /\ (Asked(o, n)' <=> Asked(o, n))

SameKeyed ==
    \A o \in Ops : /\ client'[o].keyed = client[o].keyed
                   /\ client'[o].pc = "idle" <=> client[o].pc = "idle"

\* Requests keep their keys and their increments: what is said about the
\* origin of keys and the numbers of the processes stays.
LEMMA OriginsStay ==
    ASSUME IInv, Shapes', SameKeys, SameKeyed,
           (restarts' = restarts /\ idem' = idem) \/ restarts' > 0
    PROVE  OneRequest' /\ Keyed' /\ Numbered'
  <1>1. OneRequest'
    BY DEF IInv, OneRequest, SameKeys, SameKeyed
  <1>2. Keyed'
    BY DEF IInv, Keyed, KeyOrigin, SameKeys, SameKeyed
  <1>3. Numbered'
    <2>1. CASE restarts' > 0
      <3>1. restarts' # 0
        BY <2>1 DEF Shapes
      <3> QED
        BY <3>1 DEF Numbered
    <2>2. CASE restarts' = restarts /\ idem' = idem
      <3>1. Invoked' = Invoked
        BY DEF Invoked, OpsWith, SameKeyed, IInv, Shapes
      <3> SUFFICES ASSUME Roomy, restarts = 0, NumberedBelow, NumberedApart
                   PROVE  NumberedBelow' /\ NumberedApart'
        BY <2>2 DEF Numbered, IInv, Roomy
      <3>2. NumberedBelow'
        BY <2>2, <3>1 DEF NumberedBelow, SameKeys, SameKeyed
      <3>3. NumberedApart'
        BY DEF NumberedApart, SameKeys, SameKeyed
      <3> QED
        BY <3>2, <3>3
    <2> QED
      BY <2>1, <2>2
  <1> QED
    BY <1>1, <1>2, <1>3

\* A request goes on, fails or is answered, an entry is accepted, committed or
\* lost, or a process restarts.
LEMMA RequestStep ==
    ASSUME IInv, Shapes', client' = client, SameKeys,
           (restarts' = restarts /\ idem' = idem) \/ restarts' > 0,
           \A e \in accepted' : \/ e \in accepted
                                \/ Asked(e.op, e.node) /\ e.key = Key(e.op, e.node),
           Counted', fsm.seen \subseteq fsm'.seen,
           \A o \in Ops, n \in Nodes :
               req'[o][n].pc = "ok" => req[o][n].pc = "ok" \/ Key(o, n) \in fsm'.seen
    PROVE  IInv'
  <1>1. SameKeyed
    BY DEF SameKeyed
  <1>2. OneRequest' /\ Keyed' /\ Numbered'
    BY <1>1, OriginsStay
  <1>3. Sent'
    BY DEF IInv, Sent, SameKeys
  <1>4. AcceptedKeys'
    <2> SUFFICES ASSUME NEW e \in accepted'
                 PROVE  Asked(e.op, e.node)' /\ (e.key = Key(e.op, e.node))'
      BY DEF AcceptedKeys
    <2>1. e.op \in Ops /\ e.node \in Nodes
      BY DEF Shapes
    <2>2. Asked(e.op, e.node) /\ e.key = Key(e.op, e.node)
      BY DEF IInv, AcceptedKeys
    <2> QED
      BY <2>1, <2>2 DEF SameKeys
  <1>5. Confirmed'
    <2>1. \A o \in Ops, n \in Nodes : Key(o, n) \in fsm.seen => Key(o, n)' \in fsm'.seen
      BY DEF SameKeys
    <2>2. \A o \in Ops, n \in Nodes : (req[o][n].pc = "ok" => Key(o, n) \in fsm.seen)'
      BY DEF IInv, Confirmed, SameKeys
    <2>3. \A o \in Ops : (client[o].pc = "ok"
                          => \E n \in Nodes : Asked(o, n) /\ Key(o, n) \in fsm.seen)'
      BY <2>1 DEF IInv, Confirmed, SameKeys
    <2> QED
      BY <2>2, <2>3 DEF Confirmed
  <1> QED
    BY <1>2, <1>3, <1>4, <1>5 DEF IInv

\* The state machine is left alone, and no key changes.
LEMMA CountedStays ==
    ASSUME IInv, SameKeys, fsm' = fsm
    PROVE  Counted'
  BY DEF IInv, Counted, SameKeys

\* Writing one request changes that one.
LEMMA PutReqAt ==
    ASSUME Shapes, NEW o \in Ops, NEW n \in Nodes, NEW r, req' = PutReq(o, n, r)
    PROVE  \A p \in Ops, m \in Nodes :
               req'[p][m] = IF p = o /\ m = n THEN r ELSE req[p][m]
  <1> SUFFICES ASSUME NEW p \in Ops, NEW m \in Nodes
               PROVE  req'[p][m] = IF p = o /\ m = n THEN r ELSE req[p][m]
    OBVIOUS
  <1>1. req'[p] = IF p = o THEN [req[o] EXCEPT ![n] = r] ELSE req[p]
    BY DEF PutReq, Shapes
  <1>2. n \in DOMAIN req[o] /\ m \in DOMAIN req[o]
    BY DEF Shapes
  <1> QED
    BY <1>1, <1>2

\* It keeps the shape of the requests.
LEMMA PutReqShape ==
    ASSUME Shapes, NEW o \in Ops, NEW n \in Nodes,
           NEW r \in [pc : ReqPcs, key : Keys], req' = PutReq(o, n, r)
    PROVE  req' \in [Ops -> [Nodes -> [pc : ReqPcs, key : Keys]]]
  <1> DEFINE R == [pc : ReqPcs, key : Keys]
  <1>1. r \in R /\ req \in [Ops -> [Nodes -> R]]
    BY DEF Shapes
  <1> HIDE DEF R
  <1>2. [req[o] EXCEPT ![n] = r] \in [Nodes -> R]
    BY <1>1
  <1>3. req' \in [Ops -> [Nodes -> R]]
    BY <1>1, <1>2 DEF PutReq
  <1> QED
    BY <1>3 DEF R

\* A request that moves on keeps its key.
LEMMA MovesOn ==
    ASSUME Shapes, NEW o \in Ops, NEW n \in Nodes, NEW pc \in ReqPcs \ {"none"},
           Asked(o, n), SetReq(o, n, pc)
    PROVE  /\ SameKeys
           /\ req' \in [Ops -> [Nodes -> [pc : ReqPcs, key : Keys]]]
           /\ \A p \in Ops, m \in Nodes :
                  req'[p][m].pc = IF p = o /\ m = n THEN pc ELSE req[p][m].pc
  <1> DEFINE r == WithPc(req[o][n], pc)
  <1>1. req[o][n] \in [pc : ReqPcs, key : Keys]
    BY DEF Shapes
  <1>2. r \in [pc : ReqPcs, key : Keys] /\ r.pc = pc /\ r.key = req[o][n].key
    BY <1>1 DEF WithPc
  <1>3. req' = PutReq(o, n, r)
    BY DEF SetReq
  <1> HIDE DEF r
  <1>4. \A p \in Ops, m \in Nodes :
            req'[p][m] = IF p = o /\ m = n THEN r ELSE req[p][m]
    BY <1>3, PutReqAt
  <1>5. req' \in [Ops -> [Nodes -> [pc : ReqPcs, key : Keys]]]
    BY <1>2, <1>3, PutReqShape
  <1> QED
    BY <1>2, <1>4, <1>5 DEF SameKeys, Asked, Key

\* The actions of group_inc that change one request, with what Raft accepts.
LEMMA GroupIncStep ==
    ASSUME IInv, NEW o \in Ops, NEW n \in Nodes,
           NEW pc \in ReqPcs \ {"none", "ok"}, Asked(o, n), SetReq(o, n, pc),
           \/ accepted' = accepted
           \/ /\ pc \in {"wait1", "wait2"}
              /\ accepted' = accepted \cup
                     {[op |-> o, node |-> n, pc |-> pc, key |-> req[o][n].key]},
           UNCHANGED <<idem, client, fsm, restarts>>
    PROVE  IInv'
  <1> USE DEF IInv
  <1>1. /\ SameKeys
        /\ req' \in [Ops -> [Nodes -> [pc : ReqPcs, key : Keys]]]
        /\ \A p \in Ops, m \in Nodes :
               req'[p][m].pc = IF p = o /\ m = n THEN pc ELSE req[p][m].pc
    BY MovesOn
  <1>2. \A e \in accepted' : \/ e \in accepted
                             \/ Asked(e.op, e.node) /\ e.key = Key(e.op, e.node)
    BY DEF Key
  <1>3. Shapes'
    <2>1. req[o][n].key \in Keys
      BY DEF Shapes
    <2>2. accepted' \subseteq [op : Ops, node : Nodes, pc : {"wait1", "wait2"}, key : Keys]
      BY <2>1 DEF Shapes
    <2> QED
      BY <1>1, <2>2 DEF Shapes
  <1>4. Counted'
    BY <1>1, CountedStays
  <1>5. \A p \in Ops, m \in Nodes :
            req'[p][m].pc = "ok" => req[p][m].pc = "ok" \/ Key(p, m) \in fsm'.seen
    BY <1>1
  <1> HIDE DEF IInv
  <1> QED
    BY <1>1, <1>2, <1>3, <1>4, <1>5, RequestStep

\* Raft commits an accepted entry: a new key is counted, a consumed one not.
LEMMA CommitStep ==
    ASSUME IInv, NEW e \in accepted, Commit(e)
    PROVE  IInv'
  <1> DEFINE o == e.op
  <1> DEFINE n == e.node
  <1>1. /\ o \in Ops /\ n \in Nodes /\ e.pc \in {"wait1", "wait2"} /\ e.key \in Keys
        /\ Asked(o, n) /\ e.key = Key(o, n)
    BY DEF IInv, Shapes, AcceptedKeys
  <1> HIDE DEF o, n
  <1>2. /\ SameKeys
        /\ req' \in [Ops -> [Nodes -> [pc : ReqPcs, key : Keys]]]
        /\ \A p \in Ops, m \in Nodes :
               req'[p][m].pc = "ok" => req[p][m].pc = "ok" \/ (p = o /\ m = n)
    <2>1. CASE ReqAt(o, n, e.pc)
      <3>1. SetReq(o, n, "ok")
        BY <2>1 DEF Commit, o, n
      <3> QED
        BY <1>1, <3>1, MovesOn DEF ReqPcs, IInv
    <2>2. CASE ~ReqAt(o, n, e.pc)
      <3>1. req' = req
        BY <2>2 DEF Commit, o, n
      <3> QED
        BY <3>1 DEF IInv, Shapes, SameKeys, Key, Asked
    <2> QED
      BY <2>1, <2>2
  <1>3. fsm' = IF e.key \in fsm.seen THEN fsm
               ELSE [value |-> fsm.value + 1, seen |-> fsm.seen \cup {e.key}]
    BY DEF Commit, FsmApply
  <1>4. fsm.seen \subseteq fsm'.seen /\ e.key \in fsm'.seen
        /\ fsm'.seen \subseteq fsm.seen \cup {e.key}
    BY <1>3
  <1>5. IsFiniteSet(fsm'.seen) /\ fsm'.value = Cardinality(fsm'.seen)
    <2>1. IsFiniteSet(fsm.seen) /\ fsm.value = Cardinality(fsm.seen)
      BY DEF IInv, Counted
    <2>2. CASE e.key \in fsm.seen
      BY <1>3, <2>1, <2>2
    <2>3. CASE e.key \notin fsm.seen
      <3>1. /\ IsFiniteSet(fsm.seen \cup {e.key})
            /\ Cardinality(fsm.seen \cup {e.key}) = Cardinality(fsm.seen) + 1
        BY <2>1, <2>3, FS_AddElement
      <3> QED
        BY <1>3, <2>1, <2>3, <3>1
    <2> QED
      BY <2>2, <2>3
  <1>6. Counted'
    <2>1. \A k \in fsm'.seen : \E p \in Ops, m \in Nodes : Asked(p, m) /\ k = Key(p, m)
      BY <1>1, <1>4 DEF IInv, Counted
    <2>2. \A k \in fsm'.seen : (\E p \in Ops, m \in Nodes : Asked(p, m) /\ k = Key(p, m))'
      BY <1>2, <2>1 DEF SameKeys
    <2> QED
      BY <1>5, <2>2 DEF Counted
  <1>7. UNCHANGED <<idem, client, restarts>> /\ accepted' \subseteq accepted
    BY DEF Commit
  <1>8. Shapes'
    BY <1>1, <1>2, <1>4, <1>7 DEF IInv, Shapes
  <1>9. \A p \in Ops, m \in Nodes :
            req'[p][m].pc = "ok" => req[p][m].pc = "ok" \/ Key(p, m) \in fsm'.seen
    BY <1>1, <1>2, <1>4
  <1> QED
    BY <1>2, <1>4, <1>6, <1>7, <1>8, <1>9, RequestStep

\* The entry is overwritten: its request, if it waits, goes on.
LEMMA LoseStep ==
    ASSUME IInv, NEW e \in accepted, Lose(e)
    PROVE  IInv'
  <1> DEFINE o == e.op
  <1> DEFINE n == e.node
  <1>1. o \in Ops /\ n \in Nodes /\ Asked(o, n)
    BY DEF IInv, Shapes, AcceptedKeys
  <1> HIDE DEF o, n
  <1>2. /\ SameKeys
        /\ req' \in [Ops -> [Nodes -> [pc : ReqPcs, key : Keys]]]
        /\ \A p \in Ops, m \in Nodes : req'[p][m].pc = "ok" => req[p][m].pc = "ok"
    <2>1. CASE ReqAt(o, n, e.pc)
      <3>1. PICK pc \in {"second", "error"} : SetReq(o, n, pc)
        BY <2>1 DEF Lose, o, n
      <3>2. pc \in ReqPcs \ {"none"} /\ pc # "ok"
        BY DEF ReqPcs
      <3> QED
        BY <1>1, <3>1, <3>2, MovesOn DEF IInv
    <2>2. CASE ~ReqAt(o, n, e.pc)
      <3>1. req' = req
        BY <2>2 DEF Lose, o, n
      <3> QED
        BY <3>1 DEF IInv, Shapes, SameKeys, Key, Asked
    <2> QED
      BY <2>1, <2>2
  <1>3. UNCHANGED <<idem, client, fsm, restarts>> /\ accepted' \subseteq accepted
    BY DEF Lose
  <1>4. Shapes'
    BY <1>2, <1>3 DEF IInv, Shapes
  <1>5. Counted'
    BY <1>2, <1>3, CountedStays
  <1> QED
    BY <1>2, <1>3, <1>4, <1>5, RequestStep

\* A restart ends the requests of one process and resets its counter.
LEMMA RestartStep ==
    ASSUME IInv, NEW n \in Nodes, Restart(n)
    PROVE  IInv'
  <1> DEFINE Open == {"first", "wait1", "second", "wait2"}
  <1> DEFINE After(p) == IF req[p][n].pc \in Open THEN WithPc(req[p][n], "error") ELSE req[p][n]
  <1>1. req' = [p \in Ops |-> [req[p] EXCEPT ![n] = After(p)]]
    BY DEF Restart
  <1>2. \A p \in Ops : /\ After(p) \in [pc : ReqPcs, key : Keys]
                       /\ After(p).key = req[p][n].key
                       /\ After(p).pc = "none" <=> req[p][n].pc = "none"
                       /\ After(p).pc = "ok" => req[p][n].pc = "ok"
    BY DEF IInv, Shapes, WithPc, ReqPcs
  <1> HIDE DEF After
  <1>3. \A p \in Ops, m \in Nodes : req'[p][m] = IF m = n THEN After(p) ELSE req[p][m]
    BY <1>1 DEF IInv, Shapes
  <1>4. SameKeys /\ \A p \in Ops, m \in Nodes : req'[p][m].pc = "ok" => req[p][m].pc = "ok"
    BY <1>2, <1>3 DEF SameKeys, Asked, Key
  <1>5. req' \in [Ops -> [Nodes -> [pc : ReqPcs, key : Keys]]]
    <2> DEFINE R == [pc : ReqPcs, key : Keys]
    <2>1. req \in [Ops -> [Nodes -> R]] /\ \A p \in Ops : After(p) \in R
      BY <1>2 DEF IInv, Shapes
    <2> HIDE DEF R
    <2>2. \A p \in Ops : [req[p] EXCEPT ![n] = After(p)] \in [Nodes -> R]
      BY <2>1
    <2>3. req' \in [Ops -> [Nodes -> R]]
      BY <1>1, <2>2
    <2> QED
      BY <2>3 DEF R
  <1>6. /\ UNCHANGED <<client, accepted, fsm>>
        /\ idem' = [idem EXCEPT ![n] = 1]
        /\ restarts' = restarts + 1 /\ restarts < MaxRestart
    BY DEF Restart
  <1>7. restarts' > 0 /\ restarts' \in 0 .. MaxRestart
    BY <1>6, IncAssumption DEF IInv, Shapes
  <1>8. Shapes'
    BY <1>5, <1>6, <1>7 DEF IInv, Shapes
  <1>9. Counted'
    BY <1>4, <1>6, CountedStays
  <1> QED
    BY <1>4, <1>6, <1>7, <1>8, <1>9, RequestStep

-----------------------------------------------------------------------------
(***************************************************************************)
(* Steps of the client.                                                    *)
(***************************************************************************)
\* The client's operation ends; with success only on a request that has it.
LEMMA FinishStep ==
    ASSUME IInv, NEW o \in Ops, NEW pc \in {"ok", "info", "fail"}, Trying(o),
           Finish(o, pc), pc = "ok" => Reply(o) = "ok",
           UNCHANGED <<idem, req, accepted, fsm, restarts>>
    PROVE  IInv'
  <1>1. client' = [client EXCEPT ![o] = [pc |-> pc, keyed |-> client[o].keyed,
                                        node |-> 0, left |-> {}]]
    BY DEF Finish
  <1>2. /\ client' \in [Ops -> [pc : ClientPcs, keyed : BOOLEAN, node : Nodes \cup {0},
                                left : SUBSET Nodes]]
        /\ \A p \in Ops : client'[p] = IF p = o THEN [pc |-> pc, keyed |-> client[o].keyed,
                                                      node |-> 0, left |-> {}]
                                       ELSE client[p]
    BY <1>1 DEF IInv, Shapes, ClientPcs
  <1>3. Shapes'
    BY <1>2 DEF IInv, Shapes
  <1>4. SameKeys
    BY DEF SameKeys, Key, Asked
  <1>5. SameKeyed
    BY <1>2 DEF SameKeyed, Trying
  <1>6. OneRequest' /\ Keyed' /\ Numbered'
    BY <1>3, <1>4, <1>5, OriginsStay
  <1>7. Sent'
    BY <1>2, <1>4 DEF IInv, Sent, SameKeys, Trying
  <1>8. AcceptedKeys' /\ Counted'
    BY DEF IInv, AcceptedKeys, Counted, Asked, Key
  <1>9. Confirmed'
    <2>1. ASSUME pc = "ok" PROVE \E n \in Nodes : Asked(o, n) /\ Key(o, n) \in fsm.seen
      <3>1. client[o].node \in Nodes
        BY DEF IInv, Sent, Trying
      <3>2. req[o][client[o].node].pc = "ok"
        BY <2>1 DEF Reply
      <3> QED
        BY <3>1, <3>2 DEF IInv, Confirmed, Asked
    <2>2. \A p \in Ops : client'[p].pc = "ok"
                          => \E n \in Nodes : Asked(p, n) /\ Key(p, n) \in fsm.seen
      BY <1>2, <2>1 DEF IInv, Confirmed
    <2> QED
      BY <2>2 DEF IInv, Confirmed, Asked, Key
  <1> QED
    BY <1>3, <1>6, <1>7, <1>8, <1>9 DEF IInv

\* An increment is sent to a process, for the first time or, with the key of
\* its client, again.
LEMMA NewRequest ==
    ASSUME IInv, NEW o \in Ops, NEW n \in Nodes, NEW keyed \in BOOLEAN,
           NEW left \in SUBSET Nodes, NEW pc \in ReqPcs \ {"none", "ok"},
           NEW k, k = KeyAt(o, n, keyed), NEW r, r = [pc |-> pc, key |-> k],
           client[o].pc = "idle" \/ (Trying(o) /\ client[o].keyed /\ keyed),
           client' = [client EXCEPT ![o] = [pc |-> "trying", keyed |-> keyed,
                                            node |-> n, left |-> left]],
           ~keyed => left = {},
           req' = PutReq(o, n, r),
           IF keyed THEN UNCHANGED idem ELSE TakeIdem(n),
           \/ accepted' = accepted
           \/ accepted' = accepted \cup {[op |-> o, node |-> n, pc |-> "wait2", key |-> k]},
           UNCHANGED <<fsm, restarts>>
    PROVE  IInv'
  <1> DEFINE c == [pc |-> "trying", keyed |-> keyed, node |-> n, left |-> left]
  <1>1. IF keyed THEN k = <<0, o>>
        ELSE k = <<n, idem[n] % IdemSpace>> /\ idem[n] % IdemSpace \in 0 .. (IdemSpace - 1)
    BY ModType, IncAssumption DEF KeyAt, next_idem, IInv, Shapes
  <1>2. k \in Keys
    BY <1>1, IncAssumption DEF Keys
  <1>3. c \in [pc : ClientPcs, keyed : BOOLEAN, node : Nodes \cup {0}, left : SUBSET Nodes]
        /\ c.pc = "trying" /\ c.keyed = keyed /\ c.node = n /\ c.left = left
    BY DEF ClientPcs
  <1>4. r \in [pc : ReqPcs, key : Keys] /\ r.pc = pc /\ r.key = k
    BY <1>2
  <1>5. client' = [client EXCEPT ![o] = c]
    OBVIOUS
  <1> HIDE DEF c
  <1>6. \A p \in Ops : client'[p] = IF p = o THEN c ELSE client[p]
    BY <1>5 DEF IInv, Shapes
  <1>7. \A p \in Ops, m \in Nodes : req'[p][m] = IF p = o /\ m = n THEN r ELSE req[p][m]
    <2>1. Shapes
      BY DEF IInv
    <2> QED
      BY <2>1, PutReqAt
  <1>8. Shapes'
    <2>1. client' \in [Ops -> [pc : ClientPcs, keyed : BOOLEAN, node : Nodes \cup {0},
                               left : SUBSET Nodes]]
      <3> DEFINE C == [pc : ClientPcs, keyed : BOOLEAN, node : Nodes \cup {0},
                       left : SUBSET Nodes]
      <3>1. c \in C /\ client \in [Ops -> C]
        BY <1>3 DEF IInv, Shapes
      <3> HIDE DEF C
      <3>2. client' \in [Ops -> C]
        BY <1>5, <3>1
      <3> QED
        BY <3>2 DEF C
    <2>2. req' \in [Ops -> [Nodes -> [pc : ReqPcs, key : Keys]]]
      BY <1>4, PutReqShape DEF IInv
    <2>3. accepted' \subseteq [op : Ops, node : Nodes, pc : {"wait1", "wait2"}, key : Keys]
      BY <1>2 DEF IInv, Shapes
    <2>4. idem' \in [Nodes -> Nat \ {0}]
      <3>1. CASE keyed
        BY <3>1 DEF IInv, Shapes
      <3>2. CASE ~keyed
        BY <3>2 DEF IInv, Shapes, TakeIdem
      <3> QED
        BY <3>1, <3>2
    <2> QED
      BY <2>1, <2>2, <2>3, <2>4 DEF IInv, Shapes
  \* Requests that were there stay, with their keys.
  <1>9. \A p \in Ops, m \in Nodes :
            /\ Asked(p, m) => Asked(p, m)' /\ Key(p, m)' = Key(p, m)
            /\ Asked(p, m)' => Asked(p, m) \/ (p = o /\ m = n)
    <2>1. Asked(o, n) => Key(o, n) = k
      <3>1. SUFFICES ASSUME Asked(o, n) PROVE Key(o, n) = k
        OBVIOUS
      <3>2. client[o].pc # "idle"
        BY <3>1 DEF IInv, Sent
      <3> QED
        BY <1>1, <3>1, <3>2 DEF IInv, Keyed, KeyOrigin
    <2> QED
      BY <1>4, <1>7, <2>1 DEF Asked, Key
  <1>10. Asked(o, n)' /\ Key(o, n)' = k
    BY <1>4, <1>7 DEF Asked, Key
  <1>11. keyed \/ \A m \in Nodes : ~Asked(o, m)
    BY DEF IInv, Sent
  <1>12. \A p \in Ops, m \in Nodes : Asked(p, m) => client'[p].keyed = client[p].keyed
    BY <1>3, <1>6 DEF IInv, Sent
  <1>13. Sent'
    BY <1>3, <1>6, <1>9 DEF IInv, Sent
  <1>14. OneRequest'
    BY <1>3, <1>6, <1>9, <1>11, <1>12 DEF IInv, OneRequest
  <1>15. Keyed'
    <2> SUFFICES ASSUME NEW p \in Ops, NEW m \in Nodes, Asked(p, m)'
                 PROVE  KeyOrigin(p, m)'
      BY DEF Keyed
    <2>1. CASE p = o /\ m = n
      BY <1>1, <1>3, <1>6, <1>10, <2>1 DEF KeyOrigin
    <2>2. CASE ~(p = o /\ m = n)
      <3>1. Asked(p, m) /\ Key(p, m)' = Key(p, m) /\ client'[p].keyed = client[p].keyed
        BY <1>9, <1>12, <2>2
      <3> QED
        BY <3>1 DEF IInv, Keyed, KeyOrigin
    <2> QED
      BY <2>1, <2>2
  <1>16. AcceptedKeys'
    <2> SUFFICES ASSUME NEW e \in accepted'
                 PROVE  Asked(e.op, e.node)' /\ (e.key = Key(e.op, e.node))'
      BY DEF AcceptedKeys
    <2>1. CASE e \in accepted
      <3>1. e.op \in Ops /\ e.node \in Nodes
        BY <2>1 DEF IInv, Shapes
      <3>2. Asked(e.op, e.node) /\ e.key = Key(e.op, e.node)
        BY <2>1 DEF IInv, AcceptedKeys
      <3> QED
        BY <1>9, <3>1, <3>2
    <2>2. CASE e \notin accepted
      <3>1. e.op = o /\ e.node = n /\ e.key = k
        BY <2>2
      <3> QED
        BY <1>10, <3>1
    <2> QED
      BY <2>1, <2>2
  <1>17. Counted'
    BY <1>9 DEF IInv, Counted
  <1>18. Confirmed'
    <2>1. \A p \in Ops, m \in Nodes : req'[p][m].pc = "ok"
              => req[p][m].pc = "ok" /\ Key(p, m)' = Key(p, m)
      BY <1>4, <1>7 DEF Key
    <2>2. \A p \in Ops : client'[p].pc = "ok" => client[p].pc = "ok"
      BY <1>3, <1>6
    <2> QED
      BY <1>9, <2>1, <2>2 DEF IInv, Confirmed
  <1>19. Numbered'
    <2> SUFFICES ASSUME Roomy, restarts = 0, NumberedBelow, NumberedApart
                 PROVE  NumberedBelow' /\ NumberedApart'
      BY DEF Numbered, IInv, Roomy
    <2>1. \A p \in Ops : client'[p].pc # "idle" <=> client[p].pc # "idle" \/ p = o
      BY <1>3, <1>6
    <2>2. Invoked' = Invoked \cup {o}
      BY <2>1, <1>8 DEF Invoked, OpsWith, IInv, Shapes
    <2>3. /\ Cardinality(Invoked') \in Nat
          /\ Cardinality(Invoked) <= Cardinality(Invoked')
      <3>1. IsFiniteSet(Invoked')
        BY <2>2, InvokedFinite, FS_AddElement
      <3>2. Invoked \subseteq Invoked'
        BY <2>2
      <3> QED
        BY <3>1, <3>2, FS_Subset, FS_CardinalityType
    <2>4. ASSUME ~keyed PROVE Cardinality(Invoked') = Cardinality(Invoked) + 1
      <3>1. o \notin Invoked
        BY <2>4 DEF Invoked, OpsWith
      <3> QED
        BY <2>2, <3>1, InvokedFinite, FS_AddElement
    <2>5. Cardinality(Invoked') <= Cardinality(Ops)
      <3>1. Invoked' \subseteq Ops /\ IsFiniteSet(Ops)
        BY IncAssumption DEF Invoked, OpsWith
      <3> QED
        BY <3>1, FS_Subset
    <2>6. \A m \in Nodes : idem'[m] = IF ~keyed /\ m = n THEN idem[m] + 1 ELSE idem[m]
      BY DEF TakeIdem, IInv, Shapes
    <2>7. \A m \in Nodes : idem[m] \in Nat \ {0}
      BY DEF IInv, Shapes
    <2>8. Cardinality(Invoked) \in Nat
      BY InvokedFinite
    <2>9. \A m \in Nodes : idem'[m] <= Cardinality(Invoked') + 1
      <3>1. CASE keyed
        BY <2>3, <2>6, <2>7, <2>8, <3>1 DEF NumberedBelow
      <3>2. CASE ~keyed
        BY <2>4, <2>6, <2>7, <2>8, <3>2 DEF NumberedBelow
      <3> QED
        BY <3>1, <3>2
    <2>10. ASSUME NEW p \in Ops, NEW m \in Nodes, Asked(p, m)', ~client'[p].keyed
           PROVE  \E j \in 1 .. (idem'[m] - 1) : Key(p, m)' = <<m, j % IdemSpace>>
      <3>1. CASE p = o /\ m = n
        <4>1. ~keyed
          BY <1>3, <1>6, <2>10, <3>1
        <4>2. idem[n] \in 1 .. (idem'[m] - 1)
          BY <2>6, <2>7, <3>1, <4>1
        <4> QED
          BY <1>1, <1>10, <3>1, <4>1, <4>2
      <3>2. CASE ~(p = o /\ m = n)
        <4>1. Asked(p, m) /\ Key(p, m)' = Key(p, m) /\ ~client[p].keyed
          BY <1>9, <1>12, <2>10, <3>2
        <4>2. PICK j \in 1 .. (idem[m] - 1) : Key(p, m) = <<m, j % IdemSpace>>
          BY <4>1 DEF NumberedBelow
        <4>3. j \in 1 .. (idem'[m] - 1)
          BY <2>6, <2>7
        <4> QED
          BY <4>1, <4>2, <4>3
      <3> QED
        BY <3>1, <3>2
    <2>11. NumberedBelow'
      BY <2>9, <2>10 DEF NumberedBelow
    \* The number taken now is new.
    <2>12. ASSUME NEW p \in Ops, p # o, Asked(p, n), ~client[p].keyed, ~keyed
           PROVE  Key(p, n) # k
      <3>1. PICK j \in 1 .. (idem[n] - 1) : Key(p, n) = <<n, j % IdemSpace>>
        BY <2>12 DEF NumberedBelow
      <3>2. idem[n] <= IdemSpace
        BY <2>4, <2>5, <2>7, <2>8, <2>12, InvokedFinite, IncAssumption
           DEF NumberedBelow, Roomy
      <3>3. j % IdemSpace # idem[n] % IdemSpace
        BY <2>7, <3>2, ModApart, IncAssumption
      <3> QED
        BY <1>1, <2>12, <3>1, <3>3
    <2>13. NumberedApart'
      <3> SUFFICES ASSUME NEW p \in Ops, NEW q \in Ops, NEW m \in Nodes, p # q,
                          Asked(p, m)', Asked(q, m)', ~client'[p].keyed, ~client'[q].keyed
                   PROVE  Key(p, m)' # Key(q, m)'
        BY DEF NumberedApart
      <3>1. CASE p = o /\ m = n
        BY <1>3, <1>6, <1>9, <1>10, <1>12, <2>12, <3>1
      <3>2. CASE q = o /\ m = n
        BY <1>3, <1>6, <1>9, <1>10, <1>12, <2>12, <3>2
      <3>3. CASE ~(p = o /\ m = n) /\ ~(q = o /\ m = n)
        BY <1>9, <1>12, <3>3 DEF NumberedApart
      <3> QED
        BY <3>1, <3>2, <3>3
    <2> QED
      BY <2>11, <2>13
  <1> QED
    BY <1>8, <1>13, <1>14, <1>15, <1>16, <1>17, <1>18, <1>19 DEF IInv

-----------------------------------------------------------------------------
(***************************************************************************)
(* Every step.                                                             *)
(***************************************************************************)
\* The invariant is inductive.
LEMMA NextIInv == IInv /\ [Next]_vars => IInv'
  <1> SUFFICES ASSUME IInv, [Next]_vars PROVE IInv'
    OBVIOUS
  <1>1. CASE UNCHANGED vars
    <2>1. SameKeys
      BY <1>1 DEF vars, SameKeys, Asked, Key
    <2>2. Shapes'
      BY <1>1 DEF vars, IInv, Shapes
    <2>3. Counted'
      BY <1>1, <2>1, CountedStays DEF vars
    <2> QED
      BY <1>1, <2>1, <2>2, <2>3, RequestStep DEF vars
  <1>2. ASSUME NEW o \in Ops, reply_ok(o) PROVE IInv'
    <2>1. Trying(o) /\ Finish(o, "ok") /\ Reply(o) = "ok"
      BY <1>2 DEF reply_ok
    <2>2. UNCHANGED <<idem, req, accepted, fsm, restarts>>
      BY <1>2 DEF reply_ok
    <2> QED
      BY <2>1, <2>2, FinishStep
  <1>3. ASSUME NEW o \in Ops, give_up(o) PROVE IInv'
    <2>1. Trying(o) /\ Finish(o, "fail")
      BY <1>3 DEF give_up, TryFailed
    <2>2. UNCHANGED <<idem, req, accepted, fsm, restarts>>
      BY <1>3 DEF give_up
    <2> QED
      BY <2>1, <2>2, FinishStep
  <1>4. ASSUME NEW o \in Ops, ambiguous(o) PROVE IInv'
    <2>1. Trying(o) /\ Finish(o, "info")
      BY <1>4 DEF ambiguous, TryFailed
    <2>2. UNCHANGED <<idem, req, accepted, fsm, restarts>>
      BY <1>4 DEF ambiguous
    <2> QED
      BY <2>1, <2>2, FinishStep
  <1>5. ASSUME NEW o \in Ops, NEW n \in Nodes, NEW keyed \in BOOLEAN, invoke(o, n, keyed)
        PROVE  IInv'
    <2> DEFINE left == IF keyed THEN Nodes \ {n} ELSE {}
    <2>1. left \in SUBSET Nodes /\ (~keyed => left = {})
      OBVIOUS
    <2>2. client[o].pc = "idle" /\ Send(o, n, keyed, left)
          /\ UNCHANGED <<accepted, fsm, restarts>>
      BY <1>5 DEF invoke
    <2> HIDE DEF left
    <2>3. "first" \in ReqPcs \ {"none", "ok"}
      BY DEF ReqPcs
    <2> QED
      BY <2>1, <2>2, <2>3, NewRequest DEF Send
  <1>6. ASSUME NEW o \in Ops, NEW n \in Nodes, failover(o, n) PROVE IInv'
    <2> DEFINE left == client[o].left \ {n}
    <2>1. Trying(o) /\ n \in client[o].left /\ Send(o, n, TRUE, left)
          /\ UNCHANGED <<accepted, fsm, restarts>>
      BY <1>6 DEF failover, TryFailed
    <2>2. left \in SUBSET Nodes
      BY DEF IInv, Shapes
    <2>3. client[o].keyed
      BY <2>1 DEF IInv, Sent
    <2> HIDE DEF left
    <2>4. "first" \in ReqPcs \ {"none", "ok"}
      BY DEF ReqPcs
    <2> QED
      BY <2>1, <2>2, <2>3, <2>4, NewRequest DEF Send
  <1>7. ASSUME NEW o \in Ops, NEW n \in Nodes, propose_loop(o, n) PROVE IInv'
    <2>1. KeyAt(o, n, FALSE) = next_idem(n)
      BY DEF KeyAt
    <2>2. "wait2" \in ReqPcs \ {"none", "ok"}
      BY DEF ReqPcs
    <2>3. {} \in SUBSET Nodes
      OBVIOUS
    <2> QED
      BY <1>7, <2>1, <2>2, <2>3, NewRequest DEF propose_loop
  <1>8. ASSUME NEW o \in Ops, NEW n \in Nodes,
               propose_leader(o, n) \/ no_leader(o, n) \/ propose_any(o, n) \/ refuse(o, n)
               \/ not_leader(o, n) \/ propose_error(o, n)
        PROVE  IInv'
    <2>1. PICK pc \in {"wait1", "wait2", "second", "error"} :
              /\ SetReq(o, n, pc)
              /\ \/ accepted' = accepted
                 \/ /\ pc \in {"wait1", "wait2"}
                    /\ accepted' = accepted \cup
                           {[op |-> o, node |-> n, pc |-> pc, key |-> req[o][n].key]}
      BY <1>8 DEF propose_leader, no_leader, propose_any, refuse, not_leader, propose_error,
                  Accept
    <2>2. Asked(o, n)
      BY <1>8 DEF propose_leader, no_leader, propose_any, refuse, not_leader, propose_error,
                  ReqAt, Asked
    <2>3. UNCHANGED <<idem, client, fsm, restarts>>
      BY <1>8 DEF propose_leader, no_leader, propose_any, refuse, not_leader, propose_error
    <2>4. pc \in ReqPcs \ {"none", "ok"}
      BY DEF ReqPcs
    <2> QED
      BY <2>1, <2>2, <2>3, <2>4, GroupIncStep
  <1>9. ASSUME NEW e \in accepted, Commit(e) \/ Lose(e) PROVE IInv'
    BY <1>9, CommitStep, LoseStep
  <1>10. ASSUME NEW n \in Nodes, Restart(n) PROVE IInv'
    BY <1>10, RestartStep
  <1> QED
    BY <1>1, <1>2, <1>3, <1>4, <1>5, <1>6, <1>7, <1>8, <1>9, <1>10 DEF Next

\* It holds throughout.
LEMMA Invariant == Spec => []IInv
  BY InitIInv, NextIInv, PTL DEF Spec

-----------------------------------------------------------------------------
(***************************************************************************)
(* Theorems.                                                               *)
(***************************************************************************)
\* The shape of the state of the demo processes, clients, requests and the
\* state machine, for every size of the system.
THEOREM TypeCorrect == Spec => []TypeOK
  <1>1. IInv => TypeOK
    <2> SUFFICES ASSUME IInv PROVE TypeOK
      OBVIOUS
    <2>1. fsm.value \in Nat
      BY FS_CardinalityType DEF IInv, Counted
    <2>2. /\ idem \in [Nodes -> Nat \ {0}] /\ fsm.seen \subseteq Keys
          /\ restarts \in 0 .. MaxRestart
      BY DEF IInv, Shapes
    <2>3. \A o \in Ops : /\ client[o].pc \in ClientPcs /\ client[o].keyed \in BOOLEAN
                         /\ client[o].left \subseteq Nodes
      BY DEF IInv, Shapes
    <2>4. \A o \in Ops, n \in Nodes : req[o][n].pc \in ReqPcs /\ req[o][n].key \in Keys
      BY DEF IInv, Shapes
    <2>5. \A e \in accepted : e.op \in Ops /\ e.node \in Nodes /\ e.pc \in {"wait1", "wait2"}
      BY DEF IInv, Shapes
    <2> QED
      BY <2>1, <2>2, <2>3, <2>4, <2>5 DEF TypeOK
  <1> QED
    BY <1>1, Invariant, PTL

\* Requests of one increment share one key.
LEMMA OneKey ==
    ASSUME IInv, NEW o \in Ops, NEW m \in Nodes, NEW n \in Nodes, Asked(o, m), Asked(o, n)
    PROVE  Key(o, m) = Key(o, n)
  BY DEF IInv, Keyed, KeyOrigin, OneRequest

\* An increment counts at most once, whatever group_inc's two passes, the
\* client's failover, leadership changes and restarts make of it, and even when
\* the numbers of a process wrap around: the requests of one increment share
\* one key, and CounterFsm::apply counts a key once.
THEOREM CountsOnce == Spec => []CountedOnce
  <1>1. IInv => CountedOnce
    <2> SUFFICES ASSUME IInv PROVE CountedOnce
      OBVIOUS
    <2> DEFINE Of(k, o) == \E n \in Nodes : Asked(o, n) /\ k = Key(o, n)
    <2> DEFINE f == [k \in fsm.seen |-> CHOOSE o \in Ops : Of(k, o)]
    <2>1. \A k \in fsm.seen : \E o \in Ops : Of(k, o)
      BY DEF IInv, Counted
    <2> HIDE DEF Of
    <2>2. \A k \in fsm.seen : f[k] \in Ops /\ Of(k, f[k])
      BY <2>1
    <2> HIDE DEF f
    <2>3. \A k \in fsm.seen : f[k] \in Invoked
      <3> SUFFICES ASSUME NEW k \in fsm.seen PROVE f[k] \in Invoked
        OBVIOUS
      <3>1. f[k] \in Ops /\ \E n \in Nodes : Asked(f[k], n)
        BY <2>2 DEF Of
      <3>2. client[f[k]].pc # "idle"
        BY <3>1 DEF IInv, Sent
      <3> QED
        BY <3>1, <3>2 DEF IInv, Shapes, Invoked, OpsWith
    <2>4. f \in [fsm.seen -> Invoked]
      BY <2>3 DEF f
    <2>5. \A k, l \in fsm.seen : f[k] = f[l] => k = l
      <3> SUFFICES ASSUME NEW k \in fsm.seen, NEW l \in fsm.seen, f[k] = f[l] PROVE k = l
        OBVIOUS
      <3>1. PICK m \in Nodes : Asked(f[k], m) /\ k = Key(f[k], m)
        BY <2>2 DEF Of
      <3>2. PICK n \in Nodes : Asked(f[k], n) /\ l = Key(f[k], n)
        BY <2>2 DEF Of
      <3> QED
        BY <2>2, <3>1, <3>2, OneKey
    <2>6. Cardinality(fsm.seen) <= Cardinality(Invoked)
      BY <2>4, <2>5, InvokedFinite, InjectionCounts
    <2> QED
      BY <2>6 DEF IInv, Counted, CountedOnce, Invoked
  <1> QED
    BY <1>1, Invariant, PTL

\* Every acknowledged increment counts, as long as no process restarts or every
\* increment carries a key of its client, for any number of processes and of
\* increments that the counter's part of the key can number: the keys of two
\* increments are never the same (next_idem, group_inc, CounterFsm::apply).
THEOREM AckedCounts == Spec => [](Cardinality(Ops) <= IdemSpace => AckedIsCounted)
  <1>1. IInv => (Cardinality(Ops) <= IdemSpace => AckedIsCounted)
    <2> SUFFICES ASSUME IInv, Roomy,
                        restarts = 0 \/ \A o \in Invoked : client[o].keyed
                 PROVE  fsm.value >= Cardinality(OpsWith({"ok"}))
      <3>1. IInv => restarts \in Nat
        BY IncAssumption DEF IInv, Shapes
      <3> QED
        BY <3>1 DEF AckedIsCounted, Roomy, Invoked
    <2> DEFINE Ok == OpsWith({"ok"})
    <2> DEFINE Of(o, k) == \E n \in Nodes : Asked(o, n) /\ k = Key(o, n)
    <2> DEFINE f == [o \in Ok |-> CHOOSE k \in fsm.seen : Of(o, k)]
    <2>1. Ok \subseteq Ops /\ \A o \in Ok : \E k \in fsm.seen : Of(o, k)
      BY DEF IInv, Confirmed, OpsWith
    <2> HIDE DEF Of, Ok
    <2>2. \A o \in Ok : f[o] \in fsm.seen /\ Of(o, f[o])
      BY <2>1
    <2>3. f \in [Ok -> fsm.seen]
      BY <2>2
    <2> HIDE DEF f
    <2>4. ASSUME NEW o \in Ok, NEW p \in Ok, f[o] = f[p], o # p PROVE FALSE
      <3>1. PICK m \in Nodes : Asked(o, m) /\ f[o] = Key(o, m)
        BY <2>2 DEF Of
      <3>2. PICK n \in Nodes : Asked(p, n) /\ f[p] = Key(p, n)
        BY <2>2 DEF Of
      <3>3. KeyOrigin(o, m) /\ KeyOrigin(p, n)
        BY <2>1, <3>1, <3>2 DEF IInv, Keyed
      <3>4. ~client[o].keyed /\ ~client[p].keyed /\ m = n
        <4>1. Key(o, m) = Key(p, n) /\ m # 0 /\ n # 0
          BY <2>4, <3>1, <3>2, IncAssumption
        <4>2. CASE client[o].keyed /\ client[p].keyed
          BY <2>4, <3>3, <4>1, <4>2 DEF KeyOrigin
        <4>3. CASE client[o].keyed /\ ~client[p].keyed
          BY <3>3, <4>1, <4>3 DEF KeyOrigin
        <4>4. CASE ~client[o].keyed /\ client[p].keyed
          BY <3>3, <4>1, <4>4 DEF KeyOrigin
        <4>5. CASE ~client[o].keyed /\ ~client[p].keyed
          BY <3>3, <4>1, <4>5 DEF KeyOrigin
        <4> QED
          BY <4>2, <4>3, <4>4, <4>5
      <3>5. o \in Invoked
        BY <2>1 DEF Ok, OpsWith, Invoked, ClientPcs
      <3>6. NumberedApart
        BY <3>4, <3>5 DEF IInv, Numbered
      <3> QED
        BY <2>1, <2>4, <3>1, <3>2, <3>4, <3>6 DEF NumberedApart
    <2>5. IsFiniteSet(fsm.seen) /\ fsm.value = Cardinality(fsm.seen)
      BY DEF IInv, Counted
    <2>6. Cardinality(Ok) <= Cardinality(fsm.seen) /\ IsFiniteSet(Ok)
      BY <2>3, <2>4, <2>5, InjectionCounts
    <2>7. Cardinality(Ok) \in Nat /\ Cardinality(fsm.seen) \in Nat
      BY <2>5, <2>6, FS_CardinalityType
    <2> QED
      BY <2>5, <2>6, <2>7 DEF Ok
  <1> QED
    BY <1>1, Invariant, PTL
=============================================================================
