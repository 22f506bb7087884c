---------------------------- MODULE Reads_proofs ----------------------------
(***************************************************************************)
(* Proofs about reads of a counter, for all nodes, deployments and bounds. *)
(* The inductive invariant has four parts: what the nodes have applied     *)
(* (WorldOK), the shape of the read (ReadOK), what the read has           *)
(* established so far (IndexOK), and where an undisturbed read has looked  *)
(* for the leader without finding it (Searched).                           *)
(***************************************************************************)
EXTENDS Reads, SequenceTheorems, TLAPS

\* What the proofs use of the constants, apart from the deployments.
LEMMA Constants ==
    /\ None \notin Nodes /\ None \notin Nat
    /\ MaxCommits \in Nat /\ MaxCreates \in Nat
BY ReadsAssumption

USE Constants

-----------------------------------------------------------------------------
(***************************************************************************)
(* The inductive invariant.                                                *)
(***************************************************************************)
ActivePcs == {"try", "ensure", "applied", "with_fsm", "lock", "replied"}
Labels == {"none", "linearizable", "local"}
Value == Nat \cup {None}

Reading ==
    [pc : ActivePcs, proc : Processes, left : SUBSET Processes, pass : 1 .. 3, i : Nat,
     raft : Nat, index : Value, value : Value, label : Labels, floor : Nat,
     disturbed : BOOLEAN]

Result ==
    [pc : {"ok", "fail", "info"}, value : Value, index : Value, floor : Nat,
     disturbed : BOOLEAN]

\* A read that is under way is at a node of its process, and does not go back to
\* a process it has asked.
Placed(rd) == rd.i \in 1 .. Len(local[rd.proc]) /\ rd.proc \notin rd.left

ReadOK ==
    \/ read = Idle
    \/ read \in Result
    \/ read \in Reading /\ Placed(read)

\* No replica is ahead of the core, and a Raft that runs is in its node's map.
WorldOK ==
    /\ local \in Deployments
    /\ committed \in 0 .. MaxCommits
    /\ leader \in Nodes \cup {None}
    /\ replicas \in [Nodes -> Seq(Nat)] /\ groups \in [Nodes -> Nat]
    /\ stopped \subseteq Nodes /\ creates \in 0 .. MaxCreates
    /\ \A n \in Nodes :
           /\ Len(replicas[n]) > 0
           /\ \A k \in 1 .. Len(replicas[n]) : replicas[n][k] <= committed
           /\ groups[n] \in {0, Len(replicas[n])}
           /\ n \notin stopped => groups[n] # 0
    /\ leader \notin stopped

Active == read.pc \in ActivePcs
Applied == replicas[Here][read.raft]

\* From the confirmation of leadership on, the index of the read covers what was
\* committed at its invocation; after the wait the replica covers the index.
IndexOK ==
    /\ Active =>
        /\ read.floor <= committed
        /\ read.value # None => read.value <= committed
        /\ read.pc \in {"ensure", "applied", "with_fsm"} => read.pass < 3
        /\ read.pc \in {"ensure", "applied", "with_fsm", "lock"} => read.raft \in 1 .. Len(replicas[Here])
        /\ read.pc \in {"applied", "with_fsm"} => read.index \in read.floor .. committed
        /\ read.pc = "with_fsm" => Applied >= read.index
        /\ read.pc = "lock" /\ read.pass < 3 /\ read.index # None =>
               read.index \in read.floor .. Applied
        /\ read.pc = "replied" /\ read.label = "linearizable" /\ read.index # None =>
               read.value \in read.floor .. committed
    /\ ReadIsLinearizable

\* A read that nothing has disturbed has not passed the leader by: not in a
\* process it has left, not before its place in the second pass, and not in the
\* whole process once it is in the third.
Searched ==
    /\ Active /\ ~read.disturbed =>
        /\ leader # None
        /\ \A p \in Processes \ (read.left \cup {read.proc}) :
               \A k \in DOMAIN local[p] : local[p][k] # leader
        /\ read.pass = 2 => \A k \in 1 .. (read.i - 1) : local[read.proc][k] # leader
        /\ read.pass = 3 => \A k \in DOMAIN local[read.proc] : local[read.proc][k] # leader
        /\ read.pc = "replied" => read.label = "linearizable" \/ read.pass = 3
        /\ read.pc \in {"ensure", "applied", "with_fsm"} /\ Here = leader =>
               read.raft = Len(replicas[Here])
    /\ ServedWhenStable

IInv == WorldOK /\ ReadOK /\ IndexOK /\ Searched

-----------------------------------------------------------------------------
(***************************************************************************)
(* The nodes.                                                              *)
(***************************************************************************)

\* Each process runs a non-empty list of nodes.
LEMMA LocalNodes ==
    ASSUME WorldOK, NEW p \in Processes
    PROVE  /\ local[p] \in Seq(Nodes)
           /\ Len(local[p]) \in Nat /\ Len(local[p]) >= 1
           /\ \A k \in 1 .. Len(local[p]) : local[p][k] \in Nodes
<1>1. local[p] \in Seq(Nodes) \ {<<>>}
    BY ReadsAssumption DEF WorldOK, Processes
<1> QED BY <1>1

\* A read that is under way is at some node.
LEMMA HereIsNode ==
    ASSUME WorldOK, read \in Reading, Placed(read)
    PROVE  Here \in Nodes
BY LocalNodes DEF Reading, Placed, Here

\* What the replicas of a node have applied only grows, and replicas are only
\* added.
Grows ==
    /\ local' = local
    /\ committed' >= committed
    /\ \A n \in Nodes :
           /\ Len(replicas'[n]) >= Len(replicas[n])
           /\ \A k \in 1 .. Len(replicas[n]) : replicas'[n][k] >= replicas[n][k]

\* A list of numbers has a length and numbers in it.
LEMMA NumberList ==
    ASSUME NEW q \in Seq(Nat)
    PROVE  Len(q) \in Nat /\ \A k \in 1 .. Len(q) : q[k] \in Nat
OBVIOUS

\* Every step keeps WorldOK and only adds to what is committed and applied.
LEMMA WorldStep ==
    ASSUME WorldOK, [Next]_vars
    PROVE  WorldOK' /\ Grows
<1> USE DEF WorldOK, Grows, core, node_vars
<1>1. CASE UNCHANGED <<local, core, node_vars>>
    <2>1. WorldOK'
        BY <1>1
    <2>2. ASSUME NEW n \in Nodes
          PROVE  /\ Len(replicas'[n]) >= Len(replicas[n])
                 /\ \A k \in 1 .. Len(replicas[n]) : replicas'[n][k] >= replicas[n][k]
        <3>1. PICK q \in Seq(Nat) : q = replicas[n] /\ q = replicas'[n]
            BY <1>1
        <3> QED BY <3>1, NumberList
    <2>3. local' = local /\ committed' >= committed
        BY <1>1
    <2> QED BY <2>1, <2>2, <2>3
<1>2. CASE Commit
    BY <1>2 DEF Commit
<1>3. ASSUME NEW n \in Nodes, Apply(n) PROVE WorldOK' /\ Grows
    <2> DEFINE k == Len(replicas[n])
    <2>1. k \in 1 .. Len(replicas[n]) /\ replicas[n][k] \in Nat /\ replicas[n] \in Seq(Nat)
        OBVIOUS
    <2>2. replicas' = [replicas EXCEPT ![n] = [replicas[n] EXCEPT ![k] = replicas[n][k] + 1]]
        BY <1>3 DEF Apply
    <2>3. /\ replicas'[n] \in Seq(Nat) /\ Len(replicas'[n]) = Len(replicas[n])
          /\ replicas'[n][k] = replicas[n][k] + 1
          /\ \A j \in 1 .. Len(replicas[n]) : j # k => replicas'[n][j] = replicas[n][j]
        BY <2>1, <2>2
    <2>4. \A m \in Nodes : m # n => replicas'[m] = replicas[m]
        BY <2>2
    <2>5. replicas' \in [Nodes -> Seq(Nat)]
        BY <2>2, <2>3
    <2>6. UNCHANGED <<local, committed, leader, groups, stopped, creates>> /\ replicas[n][k] < committed
        BY <1>3 DEF Apply
    <2>7. ASSUME NEW m \in Nodes
          PROVE  /\ Len(replicas'[m]) = Len(replicas[m])
                 /\ \A j \in 1 .. Len(replicas[m]) :
                        replicas'[m][j] >= replicas[m][j] /\ replicas'[m][j] <= committed
        <3> HIDE DEF k
        <3>1. CASE m = n
            <4>1. \A j \in 1 .. Len(replicas[n]) : replicas[n][j] \in Nat /\ replicas[n][j] <= committed
                <5>1. \A j \in 1 .. Len(replicas[n]) : replicas[n][j] \in Nat
                    BY <2>1, NumberList
                <5>2. \A j \in 1 .. Len(replicas[n]) : replicas[n][j] <= committed
                    BY Zenon
                <5> QED BY <5>1, <5>2, Zenon
            <4>2. replicas[n][k] + 1 <= committed /\ replicas[n][k] + 1 >= replicas[n][k]
                BY <2>1, <2>6
            <4>3. \A j \in 1 .. Len(replicas[n]) :
                      replicas'[n][j] >= replicas[n][j] /\ replicas'[n][j] <= committed
                <5> TAKE j \in 1 .. Len(replicas[n])
                <5>1. CASE j = k
                    BY <2>3, <4>2, <5>1
                <5>2. CASE j # k
                    <6>1. replicas'[n][j] = replicas[n][j]
                        BY <2>3, <5>2
                    <6> QED BY <4>1, <6>1
                <5> QED BY <5>1, <5>2
            <4> QED BY <2>3, <3>1, <4>3
        <3>2. CASE m # n
            BY <2>4, <3>2
        <3> QED BY <3>1, <3>2
    <2> HIDE DEF k
    <2>8. Grows
        BY <2>6, <2>7
    <2>9. WorldOK'
        BY <2>5, <2>6, <2>7
    <2> QED BY <2>8, <2>9
<1>4. ASSUME NEW n \in Nodes, Elect(n) PROVE WorldOK' /\ Grows
    BY <1>4 DEF Elect, Runs
<1>5. ASSUME NEW n \in Nodes, shutdown(n) PROVE WorldOK' /\ Grows
    BY <1>5 DEF shutdown, Runs
<1>6. ASSUME NEW n \in Nodes, shutdown_clear(n) PROVE WorldOK' /\ Grows
    BY <1>6 DEF shutdown_clear
<1>7. ASSUME NEW n \in Nodes, create_group(n) PROVE WorldOK' /\ Grows
    <2>1. /\ replicas'[n] = Append(replicas[n], 0)
          /\ groups'[n] = Len(replicas'[n])
          /\ \A m \in Nodes : m # n => replicas'[m] = replicas[m] /\ groups'[m] = groups[m]
          /\ replicas' \in [Nodes -> Seq(Nat)] /\ groups' \in [Nodes -> Nat]
        BY <1>7 DEF create_group
    <2>2. /\ Len(replicas'[n]) = Len(replicas[n]) + 1
          /\ replicas'[n][Len(replicas[n]) + 1] = 0
          /\ \A k \in 1 .. Len(replicas[n]) : replicas'[n][k] = replicas[n][k]
        BY <2>1
    <2> QED BY <1>7, <2>1, <2>2 DEF create_group
<1>8. ASSUME NEW p \in Processes, invoke(p) \/ failover(p)
      PROVE  UNCHANGED <<local, core, node_vars>>
    BY <1>8 DEF invoke, failover
<1>9. CASE give_up \/ ambiguous \/ reply_ok
    BY <1>1, <1>9 DEF give_up, ambiguous, reply_ok
<1>10. CASE ReadStep
    BY <1>1, <1>10 DEF ReadStep, not_local_leader, read_linearizable, ensure_confirmed,
        ensure_applied, ensure_error, with_fsm, fsm_value
<1>11. CASE UNCHANGED vars
    BY <1>1, <1>11 DEF vars
<1> QED
    BY <1>1, <1>2, <1>3, <1>4, <1>5, <1>6, <1>7, <1>8, <1>9, <1>10, <1>11 DEF Next

-----------------------------------------------------------------------------
(***************************************************************************)
(* The read.                                                               *)
(***************************************************************************)

\* A read that is under way has all its fields.
LEMMA ActiveIsReading ==
    ASSUME ReadOK, Active
    PROVE  read \in Reading /\ Placed(read)
BY DEF ReadOK, Active, ActivePcs, Result, Idle

\* A read that is not under way says nothing but its result.
LEMMA ReadingIsActive ==
    ASSUME read \in Reading
    PROVE  Active
BY DEF Reading, Active

\* A result that was read stays within what is committed, and a read goes on to
\* hold what it has established, while replicas and the core go on.
LEMMA ReadKept ==
    ASSUME IInv, WorldOK', Grows,
           \/ read' = read
           \/ Active /\ read' = [read EXCEPT !.disturbed = TRUE],
           Active /\ ~read'.disturbed =>
               leader' = leader /\ Len(replicas'[leader]) = Len(replicas[leader])
    PROVE  ReadOK' /\ IndexOK' /\ Searched'
<1>1. CASE ~Active
    <2>1. read' = read /\ ~Active' /\ (read = Idle \/ read \in Result)
        BY <1>1, ReadingIsActive DEF IInv, ReadOK, Active
    <2>2. ReadOK'
        BY <2>1 DEF ReadOK, Result
    <2>3. ReadIsLinearizable'
        <3>1. read.pc = "ok" => read \in Result
            BY <2>1 DEF Idle
        <3>2. read.pc = "ok" => read.floor \in Nat
            BY <3>1 DEF Result
        <3> QED BY <2>1, <3>2 DEF IInv, WorldOK, Grows, IndexOK, ReadIsLinearizable
    <2>4. ServedWhenStable'
        BY <2>1 DEF IInv, Searched, ServedWhenStable
    <2> QED BY <2>1, <2>2, <2>3, <2>4 DEF IndexOK, Searched
<1>2. CASE Active
    <2>1. read \in Reading /\ Placed(read) /\ Here \in Nodes
        BY <1>2, ActiveIsReading, HereIsNode DEF IInv
    <2>2. /\ read' \in Reading /\ Placed(read)'
          /\ read'.pc = read.pc /\ read'.proc = read.proc /\ read'.left = read.left
          /\ read'.pass = read.pass /\ read'.i = read.i /\ read'.raft = read.raft
          /\ read'.index = read.index /\ read'.value = read.value
          /\ read'.label = read.label /\ read'.floor = read.floor
          /\ ~read'.disturbed => ~read.disturbed
        BY <2>1 DEF Reading, Placed, Grows, Processes
    <2>3. Here' = Here
        BY <2>2 DEF Here, Grows
    <2>4. ReadOK'
        <3>1. Reading' = Reading
            BY DEF Reading, Processes, Grows
        <3> QED BY <2>2, <3>1 DEF ReadOK
    <2>5. IndexOK'
        <3>1. /\ Len(replicas'[Here]) >= Len(replicas[Here])
              /\ \A k \in 1 .. Len(replicas[Here]) :
                    /\ replicas'[Here][k] >= replicas[Here][k]
                    /\ replicas[Here][k] \in Nat /\ replicas'[Here][k] \in Nat
              /\ Len(replicas[Here]) \in Nat /\ Len(replicas'[Here]) \in Nat
            <4>1. /\ Len(replicas'[Here]) >= Len(replicas[Here])
                  /\ \A k \in 1 .. Len(replicas[Here]) : replicas'[Here][k] >= replicas[Here][k]
                BY <2>1 DEF Grows
            <4>2. replicas[Here] \in Seq(Nat) /\ replicas'[Here] \in Seq(Nat)
                BY <2>1 DEF WorldOK, IInv
            <4>3. /\ Len(replicas[Here]) \in Nat
                  /\ \A k \in 1 .. Len(replicas[Here]) : replicas[Here][k] \in Nat
                BY <4>2, NumberList
            <4>4. /\ Len(replicas'[Here]) \in Nat
                  /\ \A k \in 1 .. Len(replicas'[Here]) : replicas'[Here][k] \in Nat
                BY <4>2, NumberList
            <4>5. \A k \in 1 .. Len(replicas[Here]) : k \in 1 .. Len(replicas'[Here])
                BY <4>1, <4>3, <4>4
            <4> QED BY <4>1, <4>3, <4>4, <4>5, Zenon
        <3>2. committed' >= committed /\ committed \in Nat /\ committed' \in Nat
            BY DEF IInv, WorldOK, Grows
        <3>3. /\ read.floor \in Nat /\ read.index \in Nat \cup {None} /\ read.value \in Nat \cup {None}
              /\ read.raft \in Nat
            BY <2>1 DEF Reading, Value
        <3>4. ReadIsLinearizable'
            BY <2>2, <1>2 DEF ReadIsLinearizable, Active, ActivePcs
        <3> DEFINE H == replicas[Here]
        <3> DEFINE G == replicas'[Here]
        <3>5. /\ read.floor <= committed
              /\ read.value # None => read.value <= committed
              /\ read.pc \in {"ensure", "applied", "with_fsm"} => read.pass < 3
              /\ read.pc \in {"ensure", "applied", "with_fsm", "lock"} => read.raft \in 1 .. Len(H)
              /\ read.pc \in {"applied", "with_fsm"} => read.index \in read.floor .. committed
              /\ read.pc = "with_fsm" => H[read.raft] >= read.index
              /\ read.pc = "lock" /\ read.pass < 3 /\ read.index # None =>
                     read.index \in read.floor .. H[read.raft]
              /\ read.pc = "replied" /\ read.label = "linearizable" /\ read.index # None =>
                     read.value \in read.floor .. committed
            BY <1>2 DEF IInv, IndexOK, Applied
        <3>6. /\ Len(G) >= Len(H) /\ Len(G) \in Nat /\ Len(H) \in Nat
              /\ \A k \in 1 .. Len(H) : G[k] >= H[k] /\ H[k] \in Nat /\ G[k] \in Nat
            BY <3>1
        <3> HIDE DEF H, G
        <3>7. /\ read.floor <= committed'
              /\ read.value # None => read.value <= committed'
              /\ read.pc \in {"applied", "with_fsm"} => read.index \in read.floor .. committed'
              /\ read.pc = "replied" /\ read.label = "linearizable" /\ read.index # None =>
                     read.value \in read.floor .. committed'
            BY <3>2, <3>3, <3>5
        <3>8. read.pc \in {"ensure", "applied", "with_fsm", "lock"} => read.raft \in 1 .. Len(G)
            BY <3>3, <3>5, <3>6
        <3>9. read.pc = "with_fsm" => G[read.raft] >= read.index
            BY <3>2, <3>3, <3>5, <3>6
        <3>10. read.pc = "lock" /\ read.pass < 3 /\ read.index # None =>
                     read.index \in read.floor .. G[read.raft]
            BY <3>3, <3>5, <3>6
        <3> QED BY <2>2, <2>3, <3>4, <3>5, <3>7, <3>8, <3>9, <3>10 DEF IndexOK, Applied, G
    <2>6. Searched'
        <3>1. ServedWhenStable'
            BY <2>2, <1>2 DEF ServedWhenStable, Active, ActivePcs
        <3>2. local' = local /\ Processes' = Processes
            BY DEF Grows, Processes
        <3> QED BY <1>2, <2>2, <2>3, <3>1, <3>2 DEF IInv, Searched, Here
    <2> QED BY <2>4, <2>5, <2>6
<1> QED BY <1>1, <1>2

\* The steps of the nodes and of the core keep the invariant.
LEMMA WorldKeepsRead ==
    ASSUME IInv, WorldOK', Grows,
           \/ Commit \/ UNCHANGED vars
           \/ \E n \in Nodes : \/ Apply(n) \/ Elect(n) \/ shutdown(n)
                               \/ shutdown_clear(n) \/ create_group(n)
    PROVE  ReadOK' /\ IndexOK' /\ Searched'
<1> USE DEF core, node_vars
<1>1. CASE Commit
    BY <1>1, ReadKept DEF Commit
<1>2. CASE UNCHANGED vars
    BY <1>2, ReadKept DEF vars
<1>3. ASSUME NEW n \in Nodes, Apply(n) PROVE ReadOK' /\ IndexOK' /\ Searched'
    <2>1. /\ read' = read /\ leader' = leader
          /\ leader \in Nodes => Len(replicas'[leader]) = Len(replicas[leader])
        BY <1>3 DEF Apply, IInv, WorldOK
    <2>2. Active /\ ~read.disturbed => leader \in Nodes
        BY DEF IInv, Searched, WorldOK
    <2> QED BY <2>1, <2>2, ReadKept
<1>4. ASSUME NEW n \in Nodes, Elect(n) \/ shutdown(n) PROVE ReadOK' /\ IndexOK' /\ Searched'
    <2>1. read' = IF read.pc \in Ends THEN read ELSE [read EXCEPT !.disturbed = TRUE]
        BY <1>4 DEF Elect, shutdown, Disturb
    <2>2. Active <=> read.pc \notin Ends
        BY DEF IInv, ReadOK, Active, ActivePcs, Ends, Result, Reading, Idle
    <2>3. Active => read'.disturbed = TRUE
        BY <2>1, <2>2, ActiveIsReading DEF Reading, IInv
    <2> QED BY <2>1, <2>2, <2>3, ReadKept
<1>5. ASSUME NEW n \in Nodes, shutdown_clear(n) PROVE ReadOK' /\ IndexOK' /\ Searched'
    BY <1>5, ReadKept DEF shutdown_clear
<1>6. ASSUME NEW n \in Nodes, create_group(n) PROVE ReadOK' /\ IndexOK' /\ Searched'
    <2>1. read' = read /\ leader' = leader /\ n # leader
        BY <1>6 DEF create_group, IInv, WorldOK
    <2>2. leader \in Nodes => replicas'[leader] = replicas[leader]
        BY <1>6, <2>1 DEF create_group, IInv, WorldOK
    <2>3. Active /\ ~read.disturbed => leader \in Nodes
        BY DEF IInv, Searched, WorldOK
    <2> QED BY <2>1, <2>2, <2>3, ReadKept
<1> QED BY <1>1, <1>2, <1>3, <1>4, <1>5, <1>6

-----------------------------------------------------------------------------
(***************************************************************************)
(* The steps of the read leave the nodes alone.                            *)
(***************************************************************************)
WorldKept == UNCHANGED <<local, committed, leader, replicas, groups, stopped, creates>>

\* After an attempt without a result the read is at the next node, in the next
\* pass or at its end; nothing else of it changes.
LEMMA NextNodeFields ==
    ASSUME WorldOK, NEW rd \in Reading, Placed(rd)
    PROVE  /\ NextNode(rd) \in Reading /\ Placed(NextNode(rd))
           /\ NextNode(rd).pc \in {"try", "replied"}
           /\ NextNode(rd).proc = rd.proc /\ NextNode(rd).left = rd.left
           /\ NextNode(rd).value = rd.value /\ NextNode(rd).floor = rd.floor
           /\ NextNode(rd).disturbed = rd.disturbed
           /\ NextNode(rd).pc = "replied" =>
                  NextNode(rd).label \in {"none", "local"} /\ NextNode(rd).pass = 3
           /\ NextNode(rd).pass = 3 =>
                  rd.pass = 3 \/ (rd.pass = 2 /\ rd.i = Len(local[rd.proc]))
           /\ NextNode(rd).pass = 2 =>
                  \/ rd.pass = 1 /\ NextNode(rd).i = 1
                  \/ rd.pass = 2 /\ NextNode(rd).i = rd.i + 1
<1>1. Len(local[rd.proc]) \in Nat /\ Len(local[rd.proc]) >= 1
    BY LocalNodes DEF Reading
<1>2. /\ rd.i \in 1 .. Len(local[rd.proc]) /\ rd.proc \notin rd.left /\ rd.pass \in {1, 2, 3}
      /\ rd.i \in Nat
    BY DEF Placed, Reading
<1>3. CASE rd.i < Len(local[rd.proc])
    <2>1. NextNode(rd) = [rd EXCEPT !.pc = "try", !.i = @ + 1]
        BY <1>3 DEF NextNode
    <2>2. /\ NextNode(rd).pc = "try" /\ NextNode(rd).proc = rd.proc
          /\ NextNode(rd).left = rd.left /\ NextNode(rd).pass = rd.pass
          /\ NextNode(rd).i = rd.i + 1 /\ NextNode(rd).value = rd.value
          /\ NextNode(rd).label = rd.label /\ NextNode(rd).floor = rd.floor
          /\ NextNode(rd).disturbed = rd.disturbed
        BY <2>1, <1>2 DEF Reading
    <2>3. NextNode(rd) \in Reading
        <3> DEFINE j == rd.i + 1
        <3>1. j \in Nat /\ NextNode(rd) = [rd EXCEPT !.pc = "try", !.i = j]
            BY <1>2, <2>1
        <3> HIDE DEF j
        <3> QED BY <3>1 DEF Reading, ActivePcs
    <2> QED BY <1>1, <1>2, <1>3, <2>2, <2>3 DEF Placed
<1>4. CASE ~(rd.i < Len(local[rd.proc])) /\ rd.pass < 3
    <2>1. NextNode(rd) = [rd EXCEPT !.pc = "try", !.pass = @ + 1, !.i = 1]
        BY <1>4 DEF NextNode
    <2>2. /\ NextNode(rd).pc = "try" /\ NextNode(rd).proc = rd.proc
          /\ NextNode(rd).left = rd.left /\ NextNode(rd).pass = rd.pass + 1
          /\ NextNode(rd).i = 1 /\ NextNode(rd).value = rd.value
          /\ NextNode(rd).label = rd.label /\ NextNode(rd).floor = rd.floor
          /\ NextNode(rd).disturbed = rd.disturbed
        BY <2>1, <1>2 DEF Reading
    <2>3. NextNode(rd) \in Reading
        <3> DEFINE q == rd.pass + 1
        <3> DEFINE j == 1
        <3>1. q \in 1 .. 3 /\ j \in Nat
            BY <1>2, <1>4
        <3>2. NextNode(rd) = [[rd EXCEPT !.pc = "try", !.i = j] EXCEPT !.pass = q]
            BY <2>1 DEF Reading
        <3> HIDE DEF q, j
        <3>3. [rd EXCEPT !.pc = "try", !.i = j] \in Reading
            BY <3>1 DEF Reading, ActivePcs
        <3> QED BY <3>1, <3>2, <3>3 DEF Reading
    <2> QED BY <1>1, <1>2, <1>4, <2>2, <2>3 DEF Placed
<1>5. CASE ~(rd.i < Len(local[rd.proc])) /\ ~(rd.pass < 3)
    <2>1. NextNode(rd) =
              [rd EXCEPT !.pc = "replied", !.label = IF rd.value = None THEN "none" ELSE "local"]
        BY <1>5 DEF NextNode
    <2>2. /\ NextNode(rd).pc = "replied" /\ NextNode(rd).proc = rd.proc
          /\ NextNode(rd).left = rd.left /\ NextNode(rd).pass = rd.pass
          /\ NextNode(rd).i = rd.i /\ NextNode(rd).value = rd.value
          /\ NextNode(rd).label = (IF rd.value = None THEN "none" ELSE "local") /\ NextNode(rd).floor = rd.floor
          /\ NextNode(rd).disturbed = rd.disturbed
        BY <2>1, <1>2 DEF Reading
    <2>3. NextNode(rd) \in Reading
        BY <2>1, <1>1, <1>2, <1>5 DEF Reading, ActivePcs, Labels
    <2> QED BY <1>1, <1>2, <1>5, <2>2, <2>3 DEF Placed
<1> QED BY <1>3, <1>4, <1>5

\* An attempt without a result keeps the invariant if its node does not lead,
\* or if the read counts as disturbed.
LEMMA NextNodeKeeps ==
    ASSUME IInv, WorldKept, NEW rd \in Reading, Placed(rd),
           rd.proc = read.proc, rd.left = read.left, rd.pass = read.pass, rd.i = read.i,
           rd.floor = read.floor, rd.value = None \/ rd.value <= committed,
           read \in Reading, ~rd.disturbed => ~read.disturbed,
           ~rd.disturbed /\ read.pass = 2 => Here # leader,
           read' = NextNode(rd)
    PROVE  ReadOK' /\ IndexOK' /\ Searched'
<1>1. Active /\ Active' /\ Placed(read)
    BY ReadingIsActive, NextNodeFields DEF IInv, ReadOK, Active, ActivePcs, Reading, Result, Idle
<1>2. read' \in Reading /\ Placed(read') /\ Reading' = Reading /\ Processes' = Processes
    BY NextNodeFields DEF IInv, WorldKept, Reading, Processes
<1>3. ReadOK'
    BY <1>2 DEF ReadOK, Placed, WorldKept
<1>4. IndexOK'
    BY <1>1, NextNodeFields DEF IInv, IndexOK, ReadIsLinearizable, WorldKept
<1>5. ServedWhenStable'
    BY NextNodeFields DEF IInv, ServedWhenStable
<1>6. ASSUME ~read'.disturbed
      PROVE  /\ leader' # None
             /\ \A p \in Processes' \ (read'.left \cup {read'.proc}) :
                    \A k \in DOMAIN local'[p] : local'[p][k] # leader'
             /\ read'.pass = 2 => \A k \in 1 .. (read'.i - 1) : local'[read'.proc][k] # leader'
             /\ read'.pass = 3 => \A k \in DOMAIN local'[read'.proc] : local'[read'.proc][k] # leader'
             /\ read'.pc = "replied" => read'.label = "linearizable" \/ read'.pass = 3
             /\ read'.pc \notin {"ensure", "applied", "with_fsm"}
    <2>1. /\ ~rd.disturbed /\ ~read.disturbed /\ local' = local /\ leader' = leader
          /\ read'.proc = read.proc /\ read'.left = read.left
        BY <1>6, NextNodeFields DEF IInv, WorldKept
    <2>2. /\ leader # None
          /\ \A p \in Processes \ (read.left \cup {read.proc}) :
                 \A k \in DOMAIN local[p] : local[p][k] # leader
          /\ read.pass = 2 => \A k \in 1 .. (read.i - 1) : local[read.proc][k] # leader
          /\ read.pass = 3 => \A k \in DOMAIN local[read.proc] : local[read.proc][k] # leader
        BY <1>1, <2>1 DEF IInv, Searched
    <2>3. local[read.proc] \in Seq(Nodes) /\ read.i \in 1 .. Len(local[read.proc])
        BY <1>1, LocalNodes DEF Reading, IInv, Placed
    <2>4. read.pass = 2 => \A k \in 1 .. read.i : local[read.proc][k] # leader
        BY <2>1, <2>2, <2>3 DEF Here
    <2>5. read'.pass = 2 => \A k \in 1 .. (read'.i - 1) : local[read.proc][k] # leader
        BY <2>3, <2>4, NextNodeFields DEF IInv
    <2>6. read'.pass = 3 => \A k \in DOMAIN local[read.proc] : local[read.proc][k] # leader
        <3>1. read'.pass = 3 => read.pass = 3 \/ (read.pass = 2 /\ read.i = Len(local[read.proc]))
            BY NextNodeFields DEF IInv
        <3> QED BY <2>2, <2>3, <2>4, <3>1
    <2> QED BY <1>2, <2>1, <2>2, <2>5, <2>6, NextNodeFields DEF IInv
<1>7. Searched'
    BY <1>5, <1>6 DEF Searched
<1> QED BY <1>3, <1>4, <1>7

\* A request to a process starts with nothing established: the processes asked
\* before must not run the leader, unless the read counts as disturbed.
LEMMA RequestKeeps ==
    ASSUME IInv, WorldKept, NEW p \in Processes, NEW left \in SUBSET Processes, p \notin left,
           NEW floor \in Nat, floor <= committed, NEW disturbed \in BOOLEAN,
           ~disturbed => /\ leader # None
                         /\ \A q \in Processes \ (left \cup {p}) :
                                \A k \in DOMAIN local[q] : local[q][k] # leader,
           Request(p, left, floor, disturbed)
    PROVE  ReadOK' /\ IndexOK' /\ Searched'
<1>1. /\ read'.pc = "try" /\ read'.proc = p /\ read'.left = left /\ read'.pass = 1 /\ read'.i = 1
      /\ read'.value = None /\ read'.floor = floor /\ read'.disturbed = disturbed
    BY DEF Request
<1>2. Processes' = Processes /\ local' = local /\ leader' = leader /\ committed' = committed
    BY DEF WorldKept, Processes
<1>3. ReadOK'
    <2> DEFINE one == 1
    <2> DEFINE zero == 0
    <2>1. one \in 1 .. 3 /\ one \in Nat /\ zero \in Nat /\ one \in 1 .. Len(local[p])
        BY LocalNodes DEF IInv
    <2>2. read' = [pc |-> "try", proc |-> p, left |-> left, pass |-> one, i |-> one, raft |-> zero,
                   index |-> zero, value |-> None, label |-> "none", floor |-> floor,
                   disturbed |-> disturbed]
        BY DEF Request
    <2> HIDE DEF one, zero
    <2>3. read' \in Reading
        BY <2>1, <2>2 DEF Reading, ActivePcs, Labels, Value
    <2>4. Reading' = Reading
        BY <1>2 DEF Reading
    <2> QED BY <1>1, <1>2, <2>1, <2>2, <2>3, <2>4 DEF ReadOK, Placed
<1>4. IndexOK'
    BY <1>1, <1>2 DEF IndexOK, ReadIsLinearizable
<1>5. Searched'
    BY <1>1, <1>2 DEF Searched, ServedWhenStable
<1> QED BY <1>3, <1>4, <1>5

\* The end of a read keeps the invariant if a failure counts as disturbed and a
\* success has a value in range.
LEMMA EndKeeps ==
    ASSUME IInv, WorldKept, read \in Reading, NEW pc \in {"ok", "fail", "info"},
           NEW disturbed \in BOOLEAN, pc = "fail" => disturbed,
           pc = "ok" /\ read.index # None => read.value \in read.floor .. committed,
           End(pc, disturbed)
    PROVE  ReadOK' /\ IndexOK' /\ Searched'
<1>1. /\ read'.pc = pc /\ read'.value = read.value /\ read'.index = read.index
      /\ read'.floor = read.floor /\ read'.disturbed = disturbed /\ committed' = committed
    BY DEF End, WorldKept
<1>2. read' \in Result
    BY DEF End, Reading, Result
<1>3. ~Active'
    BY <1>1 DEF Active, ActivePcs
<1> QED BY <1>1, <1>2, <1>3 DEF ReadOK, IndexOK, Searched, ReadIsLinearizable, ServedWhenStable

\* Every node is run by some process.
LEMMA NodeIsLocal ==
    ASSUME WorldOK, NEW n \in Nodes
    PROVE  \E p \in Processes : \E k \in DOMAIN local[p] : local[p][k] = n
BY ReadsAssumption DEF WorldOK, Processes

\* The client's steps keep the invariant.
LEMMA ClientKeeps ==
    ASSUME IInv, WorldKept,
           \/ \E p \in Processes : invoke(p) \/ failover(p)
           \/ give_up \/ ambiguous \/ reply_ok
    PROVE  ReadOK' /\ IndexOK' /\ Searched'
<1>1. Running \/ Useless \/ reply_ok => read \in Reading /\ Placed(read) /\ Active
    BY ActiveIsReading DEF Running, Useless, reply_ok, Active, ActivePcs, IInv
<1>2. ASSUME Useless, ~read.disturbed
      PROVE  \A q \in Processes \ read.left : \A k \in DOMAIN local[q] : local[q][k] # leader
    BY <1>1, <1>2 DEF Useless, IInv, Searched
<1>3. ASSUME NEW p \in Processes, invoke(p) PROVE ReadOK' /\ IndexOK' /\ Searched'
    <2>1. Processes \ ((Processes \ {p}) \cup {p}) = {}
        OBVIOUS
    <2>2. committed \in Nat
        BY DEF IInv, WorldOK
    <2>3. (leader = None) \in BOOLEAN /\ Processes \ {p} \in SUBSET Processes /\ committed <= committed
        BY <2>2
    <2>4. Request(p, Processes \ {p}, committed, leader = None)
        BY <1>3 DEF invoke
    <2> QED BY <2>1, <2>2, <2>3, <2>4, RequestKeeps
<1>4. ASSUME NEW p \in Processes, failover(p) PROVE ReadOK' /\ IndexOK' /\ Searched'
    <2>1. /\ read \in Reading /\ Active /\ p \in read.left /\ (Running \/ Useless)
          /\ Request(p, read.left \ {p}, read.floor, read.disturbed \/ Running)
        BY <1>1, <1>4 DEF failover
    <2>2. /\ read.left \ {p} \in SUBSET Processes /\ read.floor \in Nat
          /\ (read.disturbed \/ Running) \in BOOLEAN
        BY <2>1 DEF Reading
    <2>3. read.floor <= committed
        BY <2>1 DEF IInv, IndexOK
    <2>4. ~(read.disturbed \/ Running) =>
              /\ leader # None
              /\ \A q \in Processes \ ((read.left \ {p}) \cup {p}) :
                    \A k \in DOMAIN local[q] : local[q][k] # leader
        BY <1>2, <2>1 DEF IInv, Searched
    <2> QED BY <2>1, <2>2, <2>3, <2>4, RequestKeeps
<1>5. CASE give_up
    <2>1. read \in Reading /\ (Running \/ Useless) /\ read.left = {} /\ Active
        BY <1>1, <1>5 DEF give_up
    <2>2. Useless => read.disturbed
        <3> SUFFICES ASSUME Useless, ~read.disturbed PROVE FALSE
            OBVIOUS
        <3>1. leader \in Nodes
            BY <2>1 DEF IInv, Searched, WorldOK
        <3> QED BY <1>2, <2>1, <3>1, NodeIsLocal DEF IInv
    <2>3. (read.disturbed \/ Running) = TRUE
        BY <2>1, <2>2 DEF Reading
    <2> QED BY <1>5, <2>1, <2>3, EndKeeps DEF give_up
<1>6. CASE ambiguous
    BY <1>1, <1>6, EndKeeps DEF ambiguous
<1>7. CASE reply_ok
    <2>1. read \in Reading /\ Active /\ read.disturbed \in BOOLEAN
        BY <1>1, <1>7 DEF Reading
    <2>2. read.index # None => read.value \in read.floor .. committed
        BY <1>7, <2>1 DEF reply_ok, IInv, IndexOK
    <2> QED BY <1>7, <2>1, <2>2, EndKeeps DEF reply_ok
<1> QED BY <1>3, <1>4, <1>5, <1>6, <1>7

\* What two successive states of the read agree on while it stays at its node.
SamePlace ==
    /\ read'.proc = read.proc /\ read'.left = read.left /\ read'.pass = read.pass
    /\ read'.i = read.i /\ read'.floor = read.floor /\ read'.disturbed = read.disturbed

\* A read that stays at its node has searched what it had searched.
LEMMA StayKeeps ==
    ASSUME IInv, WorldKept, read \in Reading, read' \in Reading, SamePlace,
           read'.pc = "replied" => read'.label = "linearizable",
           read'.pc \in {"ensure", "applied", "with_fsm"} /\ ~read.disturbed /\ Here = leader =>
               read'.raft = Len(replicas[Here])
    PROVE  ReadOK' /\ Searched' /\ Here' = Here /\ Active'
<1>1. Processes' = Processes /\ Reading' = Reading /\ Here' = Here
    BY DEF WorldKept, Processes, Reading, Here, SamePlace
<1>2. Active /\ Placed(read) /\ Active'
    BY ReadingIsActive, ActiveIsReading DEF IInv, Active, Reading
<1>3. ReadOK'
    BY <1>1, <1>2 DEF ReadOK, Placed, SamePlace, WorldKept
<1>4. ServedWhenStable'
    BY <1>2 DEF ServedWhenStable, Active, ActivePcs
<1>5. Searched'
    BY <1>1, <1>2, <1>4 DEF IInv, Searched, SamePlace, WorldKept
<1> QED BY <1>1, <1>2, <1>3, <1>5

\* The steps of the demo's endpoint and of read_linearizable keep the invariant.
LEMMA ReadStepKeeps ==
    ASSUME IInv, WorldKept, ReadStep
    PROVE  ReadOK' /\ IndexOK' /\ Searched'
<1>1. read \in Reading /\ Placed(read) /\ Active /\ Here \in Nodes
    <2>1. Active
        BY DEF ReadStep, not_local_leader, read_linearizable, ensure_confirmed,
            ensure_applied, ensure_error, with_fsm, fsm_value, Active, ActivePcs
    <2> QED BY <2>1, ActiveIsReading, HereIsNode DEF IInv
<1>2. /\ read.pc \in ActivePcs /\ read.pass \in 1 .. 3 /\ read.floor \in Nat /\ read.raft \in Nat
      /\ read.index \in Nat \cup {None} /\ read.value \in Nat \cup {None}
      /\ read.disturbed \in BOOLEAN
    BY <1>1 DEF Reading, Value
<1>3. /\ replicas[Here] \in Seq(Nat) /\ groups[Here] \in Nat /\ committed \in Nat
      /\ groups[Here] \in {0, Len(replicas[Here])}
      /\ \A k \in 1 .. Len(replicas[Here]) : replicas[Here][k] \in Nat /\ replicas[Here][k] <= committed
      /\ Here = leader => groups[Here] = Len(replicas[Here]) /\ groups[Here] # 0
    BY <1>1 DEF IInv, WorldOK
<1>4. /\ read.floor <= committed
      /\ read.value # None => read.value <= committed
    BY <1>1 DEF IInv, IndexOK
<1>5. ASSUME read' = NextNode(read), Here # leader \/ read.pass # 2
      PROVE  ReadOK' /\ IndexOK' /\ Searched'
    BY <1>1, <1>4, <1>5, NextNodeKeeps
<1>6. CASE not_local_leader
    BY <1>5, <1>6 DEF not_local_leader
<1>7. CASE read_linearizable
    <2>1. CASE groups[Here] = 0
        BY <1>3, <1>5, <1>7, <2>1 DEF read_linearizable
    <2>2. CASE groups[Here] # 0
        <3>1. read' = [read EXCEPT !.pc = "ensure", !.raft = groups[Here]] /\ read.pass < 3
            BY <1>7, <2>2 DEF read_linearizable
        <3>2. /\ read' \in Reading /\ SamePlace /\ read'.pc = "ensure" /\ read'.raft = groups[Here]
              /\ read'.value = read.value
            BY <1>1, <1>3, <3>1 DEF Reading, ActivePcs, SamePlace
        <3>3. ReadOK' /\ Searched' /\ Here' = Here
            BY <1>1, <1>3, <2>2, <3>2, StayKeeps
        <3>4. IndexOK'
            BY <1>3, <1>4, <2>2, <3>1, <3>2, <3>3 DEF IndexOK, SamePlace, WorldKept, ReadIsLinearizable
        <3> QED BY <3>3, <3>4
    <2> QED BY <2>1, <2>2
<1>8. CASE ensure_confirmed
    <2>1. read' = [read EXCEPT !.pc = "applied", !.index = committed] /\ read.pc = "ensure"
        BY <1>8 DEF ensure_confirmed
    <2>2. /\ read' \in Reading /\ SamePlace /\ read'.pc = "applied" /\ read'.raft = read.raft
          /\ read'.value = read.value /\ read'.index = committed
        BY <1>1, <1>3, <2>1 DEF Reading, ActivePcs, SamePlace, Value
    <2>3. ReadOK' /\ Searched' /\ Here' = Here
        BY <1>1, <2>1, <2>2, StayKeeps DEF IInv, Searched
    <2>4. IndexOK'
        BY <1>1, <1>2, <1>3, <1>4, <2>1, <2>2, <2>3 DEF IInv, IndexOK, SamePlace, WorldKept, ReadIsLinearizable
    <2> QED BY <2>3, <2>4
<1>9. CASE ensure_applied
    <2>1. /\ read' = [read EXCEPT !.pc = "with_fsm"] /\ read.pc = "applied"
          /\ replicas[Here][read.raft] >= read.index
        BY <1>9 DEF ensure_applied
    <2>2. /\ read' \in Reading /\ SamePlace /\ read'.pc = "with_fsm" /\ read'.raft = read.raft
          /\ read'.value = read.value /\ read'.index = read.index
        BY <1>1, <1>3, <2>1 DEF Reading, ActivePcs, SamePlace
    <2>3. ReadOK' /\ Searched' /\ Here' = Here
        BY <1>1, <2>1, <2>2, StayKeeps DEF IInv, Searched
    <2>4. IndexOK'
        BY <1>1, <1>2, <1>3, <1>4, <2>1, <2>2, <2>3
           DEF IInv, IndexOK, Applied, SamePlace, WorldKept, ReadIsLinearizable
    <2> QED BY <2>3, <2>4
<1>10. CASE ensure_error
    <2> DEFINE lost == leader = Here /\ RaftRuns(Here, read.raft)
    <2> DEFINE rd == [read EXCEPT !.disturbed = read.disturbed \/ lost]
    <2>1. (read.disturbed \/ lost) \in BOOLEAN
        OBVIOUS
    <2>2. /\ rd \in Reading /\ rd.proc = read.proc /\ rd.left = read.left /\ rd.pass = read.pass
          /\ rd.i = read.i /\ rd.floor = read.floor /\ rd.value = read.value
          /\ rd.disturbed = (read.disturbed \/ lost)
        BY <1>1, <2>1 DEF Reading
    <2>3. read' = [NextNode(read) EXCEPT !.disturbed = read.disturbed \/ lost]
        BY <1>1, <1>10, NextNodeFields DEF ensure_error, IInv
    <2>4. read' = NextNode(rd)
        BY <1>1, <2>2, <2>3 DEF NextNode, Reading
    <2>5. ~rd.disturbed /\ read.pass = 2 => Here # leader
        <3>1. read.pc \in {"ensure", "applied"}
            BY <1>10 DEF ensure_error
        <3>2. Here = leader => Here \notin stopped
            BY DEF IInv, WorldOK
        <3> QED BY <1>1, <2>2, <3>1, <3>2 DEF IInv, Searched, RaftRuns, Runs
    <2> HIDE DEF rd, lost
    <2>6. Placed(rd) /\ (~rd.disturbed => ~read.disturbed)
        BY <1>1, <2>2 DEF Placed
    <2> QED BY <1>1, <1>4, <2>2, <2>4, <2>5, <2>6, NextNodeKeeps
<1>11. CASE with_fsm
    <2>1. CASE groups[Here] = 0
        BY <1>3, <1>5, <1>11, <2>1 DEF with_fsm
    <2>2. CASE groups[Here] # 0
        <3> DEFINE idx == IF read.raft = groups[Here] THEN read.index ELSE None
        <3>1. read' = [read EXCEPT !.pc = "lock", !.raft = groups[Here], !.index = idx]
            BY <1>11, <2>2 DEF with_fsm
        <3>2. idx \in Value
            BY <1>2 DEF Value
        <3>3. /\ read' \in Reading /\ SamePlace /\ read'.pc = "lock" /\ read'.raft = groups[Here]
              /\ read'.value = read.value /\ read'.index = idx
            <4> HIDE DEF idx
            <4> QED BY <1>1, <1>3, <3>1, <3>2 DEF Reading, ActivePcs, SamePlace
        <3>4. ReadOK' /\ Searched' /\ Here' = Here
            BY <1>1, <3>3, StayKeeps
        <3>5. read.pc = "with_fsm" \/ read.pass = 3
            BY <1>11 DEF with_fsm
        <3>6. read.pc = "with_fsm" => /\ read.index \in read.floor .. committed
                                      /\ replicas[Here][read.raft] >= read.index
            BY <1>1 DEF IInv, IndexOK, Applied
        <3>7. IndexOK'
            BY <1>2, <1>3, <1>4, <2>2, <3>3, <3>4, <3>5, <3>6
               DEF IndexOK, Applied, SamePlace, WorldKept, ReadIsLinearizable
        <3> QED BY <3>4, <3>7
    <2> QED BY <2>1, <2>2
<1>12. CASE fsm_value
    <2> DEFINE v == replicas[Here][read.raft]
    <2>1. read.pc = "lock" /\ v \in Nat /\ v <= committed
        BY <1>1, <1>3, <1>12 DEF fsm_value, IInv, IndexOK
    <2>2. CASE read.pass < 3
        <3>1. read' = [read EXCEPT !.pc = "replied", !.label = "linearizable", !.value = v]
            BY <1>12, <2>2 DEF fsm_value
        <3>2. /\ read' \in Reading /\ SamePlace /\ read'.pc = "replied" /\ read'.label = "linearizable"
              /\ read'.value = v /\ read'.index = read.index
            <4> HIDE DEF v
            <4> QED BY <1>1, <2>1, <3>1 DEF Reading, ActivePcs, SamePlace, Labels, Value
        <3>3. ReadOK' /\ Searched' /\ Here' = Here
            BY <1>1, <3>2, StayKeeps
        <3>4. read.index # None => read.index \in read.floor .. v
            BY <1>1, <2>1, <2>2 DEF IInv, IndexOK, Applied
        <3>5. IndexOK'
            <4> HIDE DEF v
            <4> QED BY <1>2, <1>3, <1>4, <2>1, <3>2, <3>3, <3>4
                    DEF IndexOK, SamePlace, WorldKept, ReadIsLinearizable
        <3> QED BY <3>3, <3>5
    <2>3. CASE ~(read.pass < 3)
        <3> DEFINE w == Larger(read.value, v)
        <3> DEFINE rd == [read EXCEPT !.value = w]
        <3>1. read' = NextNode(rd)
            BY <1>1, <1>12, <2>3 DEF fsm_value, Reading
        <3>2. w \in Nat /\ w <= committed
            <4> HIDE DEF v
            <4> QED BY <1>2, <1>4, <2>1 DEF Larger
        <3> HIDE DEF w
        <3>3. /\ rd \in Reading /\ rd.proc = read.proc /\ rd.left = read.left /\ rd.pass = read.pass
              /\ rd.i = read.i /\ rd.floor = read.floor /\ rd.value = w
              /\ rd.disturbed = read.disturbed
            BY <1>1, <3>2 DEF Reading, Value
        <3> HIDE DEF rd
        <3>4. Placed(rd)
            BY <1>1, <3>3 DEF Placed
        <3>5. read.pass # 2
            BY <1>2, <2>3
        <3> QED BY <1>1, <3>1, <3>2, <3>3, <3>4, <3>5, NextNodeKeeps
    <2> QED BY <2>2, <2>3
<1> QED BY <1>6, <1>7, <1>8, <1>9, <1>10, <1>11, <1>12 DEF ReadStep

-----------------------------------------------------------------------------
(***************************************************************************)
(* The theorems.                                                           *)
(***************************************************************************)

\* Initially no read runs and every replica is new.
LEMMA IInvInit == Init => IInv
<1> SUFFICES ASSUME Init PROVE IInv
    OBVIOUS
<1>1. WorldOK
    BY DEF Init, WorldOK
<1>2. ReadOK /\ IndexOK /\ Searched
    BY DEF Init, Idle, ReadOK, IndexOK, Searched, Active, ActivePcs, ReadIsLinearizable, ServedWhenStable
<1> QED BY <1>1, <1>2 DEF IInv

\* Every step keeps the inductive invariant.
LEMMA IInvStep == IInv /\ [Next]_vars => IInv'
<1> SUFFICES ASSUME IInv, [Next]_vars PROVE IInv'
    OBVIOUS
<1>1. WorldOK' /\ Grows
    BY WorldStep DEF IInv
<1>2. CASE \/ Commit \/ UNCHANGED vars
           \/ \E n \in Nodes : \/ Apply(n) \/ Elect(n) \/ shutdown(n)
                               \/ shutdown_clear(n) \/ create_group(n)
    BY <1>1, <1>2, WorldKeepsRead DEF IInv
<1>3. CASE \/ \E p \in Processes : invoke(p) \/ failover(p)
           \/ give_up \/ ambiguous \/ reply_ok
    <2>1. WorldKept
        BY <1>3 DEF WorldKept, core, node_vars, invoke, failover, give_up, ambiguous, reply_ok
    <2> QED BY <1>1, <1>3, <2>1, ClientKeeps DEF IInv
<1>4. CASE ReadStep
    <2>1. WorldKept
        BY <1>4 DEF WorldKept, core, node_vars, ReadStep, not_local_leader, read_linearizable,
            ensure_confirmed, ensure_applied, ensure_error, with_fsm, fsm_value
    <2> QED BY <1>1, <1>4, <2>1, ReadStepKeeps DEF IInv
<1> QED BY <1>2, <1>3, <1>4 DEF Next

\* The inductive invariant gives the types.
LEMMA IInvType == IInv => TypeOK
<1> SUFFICES ASSUME IInv PROVE TypeOK
    OBVIOUS
<1>1. ASSUME NEW n \in Nodes PROVE replicas[n] \in Seq(0 .. committed)
    <2>1. replicas[n] \in Seq(Nat) /\ \A k \in 1 .. Len(replicas[n]) : replicas[n][k] \in 0 .. committed
        BY DEF IInv, WorldOK
    <2>2. Len(replicas[n]) \in Nat /\ replicas[n] \in [1 .. Len(replicas[n]) -> 0 .. committed]
        BY <2>1, LenProperties
    <2> QED BY <2>2, SeqDef
<1>2. replicas \in [Nodes -> Seq(0 .. committed)]
    BY <1>1 DEF IInv, WorldOK
<1>3. read.pc \in ReadPcs
    BY DEF IInv, ReadOK, ReadPcs, Idle, Result, Reading, ActivePcs
<1>4. read.pc \notin Ends =>
           /\ read.proc \in Processes /\ read.left \subseteq Processes \ {read.proc}
           /\ read.pass \in 1 .. 3 /\ read.i \in 1 .. Len(local[read.proc])
           /\ read.value \in 0 .. committed \cup {None}
           /\ read.label \in {"none", "linearizable", "local"}
    <2> SUFFICES ASSUME read.pc \notin Ends
                 PROVE  /\ read.proc \in Processes /\ read.left \subseteq Processes \ {read.proc}
                        /\ read.pass \in 1 .. 3 /\ read.i \in 1 .. Len(local[read.proc])
                        /\ read.value \in 0 .. committed \cup {None}
                        /\ read.label \in {"none", "linearizable", "local"}
        OBVIOUS
    <2>1. Active /\ read \in Reading /\ Placed(read)
        BY <1>3, ActiveIsReading DEF Active, ActivePcs, Ends, ReadPcs, IInv
    <2>2. committed \in Nat /\ (read.value # None => read.value <= committed)
        BY <2>1 DEF IInv, WorldOK, IndexOK
    <2> QED BY <2>1, <2>2 DEF Reading, Placed, Value, Labels
<1> QED BY <1>2, <1>3, <1>4 DEF TypeOK, IInv, WorldOK

\* The variables keep their types: no replica ever counts more than is
\* committed, and a read is always at a node of the process it asked.
THEOREM TypeCorrect == Spec => []TypeOK
BY IInvInit, IInvStep, IInvType, PTL DEF Spec

\* A value that the client takes as read is linearizable: it counts everything
\* committed before the read began and nothing uncommitted, for any number of
\* nodes, processes, restarts and leader changes (read_linearizable, try-read!).
THEOREM Linearizable == Spec => []ReadIsLinearizable
<1>1. IInv => ReadIsLinearizable
    BY DEF IInv, IndexOK
<1> QED BY <1>1, IInvInit, IInvStep, PTL DEF Spec

\* A read that one stable leader could serve is never refused, wherever the
\* leader's node runs (read_group_value_best_effort, with-node-failover).
THEOREM StableIsServed == Spec => []ServedWhenStable
<1>1. IInv => ServedWhenStable
    BY DEF IInv, Searched
<1> QED BY <1>1, IInvInit, IInvStep, PTL DEF Spec
=============================================================================
