------------------------- MODULE SnapshotAds_proofs -------------------------
(***************************************************************************)
(* Theorems about SnapshotAds, for all voters, recorders, ads and bounds:  *)
(* lists and files keep their types and hold an ad once, what was          *)
(* announced is on disk, and every voter learns of it or the post failed.  *)
(*                                                                         *)
(* The inductive invariant IInv has four parts.  Shapes are the types.     *)
(* Once is ListedOnce, for the copies that calls write as well.  Persisted *)
(* says, for a node without overlapping calls and failures, how far its    *)
(* file is behind its list at each step of record_ad.  Told says of every  *)
(* announced ad and every voter that the post failed, is still to be made, *)
(* or was recorded.                                                        *)
(***************************************************************************)
EXTENDS SnapshotAds, SequenceTheorems, WellFoundedInduction, TLAPS

CallType == [pc : Pcs, ad : Ads, copy : Seq(Ads)]
Post == [ad : Ads, next : DOMAIN Voters]

Shapes ==
    /\ ads \in [Nodes -> Seq(Ads)]
    /\ file \in [Nodes -> Seq(Ads) \cup {Unreadable}]
    /\ thread \in [Nodes -> [Recorders -> CallType \cup {Idle}]]
    /\ posting \in Seq(Post)
    /\ announced \subseteq Ads
    /\ failed \subseteq Range(Voters) \X Ads
    /\ clean \subseteq Nodes
    /\ calls \in 0 .. MaxCalls /\ crashes \in 0 .. MaxCrash

Once ==
    \A n \in Nodes :
        /\ IsInjective(ads[n])
        /\ file[n] # Unreadable => IsInjective(file[n])
        /\ \A t \in Recorders : thread[n][t] # Idle => IsInjective(thread[n][t].copy)

\* A clean node has at most one call.  Without one, the file is the list; a call
\* has put its ad into the list and then the list, as it is, into the file.
CallPersists(n, t) ==
    /\ \A u \in Recorders : u # t => thread[n][u] = Idle
    /\ thread[n][t].ad \in Range(ads[n])
    /\ thread[n][t].pc \in {"clone", "truncate"} =>
           file[n] # Unreadable /\ Range(ads[n]) = Range(file[n]) \cup {thread[n][t].ad}
    /\ thread[n][t].pc \in {"truncate", "write"} => thread[n][t].copy = ads[n]
    /\ thread[n][t].pc = "write" => file[n] = Unreadable
    /\ thread[n][t].pc = "callback" => file[n] = ads[n]

CleanNode(n) ==
    /\ Quiet(n) => file[n] = ads[n]
    /\ \A t \in Recorders : thread[n][t] # Idle => CallPersists(n, t)
    /\ n = Standby => /\ announced \subseteq Range(ads[n])
                      /\ ~Writing(n) => announced \subseteq Range(file[n])

Persisted == \A n \in clean : CleanNode(n)

\* What is still to be posted to the k-th voter.
Due(k, ad) == \E i \in DOMAIN posting : posting[i].ad = ad /\ posting[i].next <= k

Told ==
    \A k \in DOMAIN Voters, ad \in announced :
        Voters[k] \in clean =>
            \/ <<Voters[k], ad>> \in failed
            \/ Due(k, ad)
            \/ ad \in Range(ads[Voters[k]])

IInv == Shapes /\ Once /\ Persisted /\ Told

-----------------------------------------------------------------------------
(***************************************************************************)
(* Retained and Record, by induction over the list.                        *)
(***************************************************************************)

\* Every non-empty set of natural numbers has a least element.
LEMMA LeastNat ==
    ASSUME NEW T \in SUBSET Nat, T # {}
    PROVE  \E x \in T : \A y \in T : x <= y
<1>1. PICK x \in T : \A y \in T : ~(<<y, x>> \in OpToRel(<, Nat))
    BY WFMin, NatLessThanWellFounded, Zenon
<1>2. OpToRel(<, Nat) = {ss \in Nat \X Nat : ss[1] < ss[2]}
    BY Zenon DEF OpToRel
<1>3. ASSUME NEW y \in T PROVE x <= y
    <2>1. ~(<<y, x>> \in {ss \in Nat \X Nat : ss[1] < ss[2]})
        BY <1>1, <1>2, Zenon
    <2> QED BY <2>1
<1> QED BY <1>3

\* A set that has 0 and the successor of each of its elements has them all.
LEMMA NatSetInduction ==
    ASSUME NEW T \in SUBSET Nat, 0 \in T, \A n \in T : n + 1 \in T
    PROVE  T = Nat
<1> SUFFICES ASSUME Nat \ T # {} PROVE FALSE
    OBVIOUS
<1>1. PICK x \in Nat \ T : \A y \in Nat \ T : x <= y
    BY LeastNat
<1>2. x # 0 /\ x - 1 \in Nat
    BY <1>1
<1>3. x - 1 \in T
    BY <1>1, <1>2
<1> QED BY <1>1, <1>2, <1>3

\* g holds what is retained of the first 0, 1, ... n ads of a list.
IsKept(g, list, ad, n) ==
    g = [i \in 0 .. n |-> IF i = 0 THEN <<>>
                          ELSE IF list[i] = ad THEN g[i - 1] ELSE Append(g[i - 1], list[i])]

\* There is such a function.
LEMMA KeptExists ==
    ASSUME NEW list, NEW ad, NEW m \in Nat
    PROVE  \E g : IsKept(g, list, ad, m)
<1> DEFINE T == {n \in Nat : \E g : IsKept(g, list, ad, n)}
<1>1. 0 \in T
  <2> DEFINE g == [i \in 0 .. 0 |-> <<>>]
  <2>1. IsKept(g, list, ad, 0)
    BY DEF IsKept
  <2> QED  BY <2>1
<1>2. ASSUME NEW n \in T PROVE n + 1 \in T
  <2>1. PICK g : IsKept(g, list, ad, n)
    OBVIOUS
  <2> DEFINE add(x, y) == IF y = ad THEN x ELSE Append(x, y)
  <2> DEFINE h == [i \in 0 .. n + 1 |-> IF i \in 0 .. n THEN g[i] ELSE add(g[i - 1], list[i])]
  <2>2. g = [i \in 0 .. n |-> IF i = 0 THEN <<>> ELSE add(g[i - 1], list[i])]
    BY <2>1 DEF IsKept
  <2> HIDE DEF add
  <2>3. ASSUME NEW i \in 0 .. n + 1
        PROVE  h[i] = IF i = 0 THEN <<>> ELSE add(h[i - 1], list[i])
    <3>1. CASE i = 0
      <4>1. g[i] = <<>>
        BY <2>2, <3>1
      <4> QED  BY <3>1, <4>1
    <3>2. CASE i # 0
      <4>1. i - 1 \in 0 .. n /\ h[i - 1] = g[i - 1]
        BY <3>2
      <4>2. i \in 0 .. n => g[i] = add(g[i - 1], list[i])
        BY <2>2, <3>2
      <4>3. h[i] = add(g[i - 1], list[i])
        BY <4>2
      <4> QED  BY <3>2, <4>1, <4>3
    <3> QED  BY <3>1, <3>2
  <2>4. h = [i \in 0 .. n + 1 |-> IF i = 0 THEN <<>> ELSE add(h[i - 1], list[i])]
    BY <2>3
  <2> HIDE DEF h
  <2>5. IsKept(h, list, ad, n + 1)
    BY <2>4 DEF IsKept, add
  <2> QED  BY <2>5
<1> HIDE DEF T
<1>3. T = Nat
  <2>1. T \in SUBSET Nat
    BY DEF T
  <2> QED  BY <1>1, <1>2, <2>1, NatSetInduction
<1> QED  BY <1>3 DEF T

\* An append adds its element, at the end.
LEMMA AppendRange ==
    ASSUME NEW S, NEW q \in Seq(S), NEW x \in S
    PROVE  /\ Append(q, x) \in Seq(S)
           /\ Range(Append(q, x)) = Range(q) \cup {x}
           /\ IsInjective(q) /\ x \notin Range(q) => IsInjective(Append(q, x))
<1>1. /\ Append(q, x) \in Seq(S) /\ Len(q) \in Nat
      /\ DOMAIN q = 1 .. Len(q) /\ DOMAIN Append(q, x) = 1 .. Len(q) + 1
      /\ Append(q, x)[Len(q) + 1] = x
      /\ \A i \in 1 .. Len(q) : Append(q, x)[i] = q[i]
  OBVIOUS
<1>2. Range(Append(q, x)) = Range(q) \cup {x}
  BY <1>1 DEF Range
<1>3. ASSUME IsInjective(q), x \notin Range(q) PROVE IsInjective(Append(q, x))
  <2> SUFFICES ASSUME NEW a \in 1 .. Len(q) + 1, NEW b \in 1 .. Len(q) + 1,
                      Append(q, x)[a] = Append(q, x)[b]
               PROVE  a = b
    BY <1>1 DEF IsInjective
  <2>1. \A i \in 1 .. Len(q) : q[i] # x
    BY <1>1, <1>3 DEF Range
  <2>2. \A i, j \in 1 .. Len(q) : q[i] = q[j] => i = j
    BY <1>1, <1>3 DEF IsInjective
  <2>3. a \in 1 .. Len(q) \/ a = Len(q) + 1
    BY <1>1
  <2>4. b \in 1 .. Len(q) \/ b = Len(q) + 1
    BY <1>1
  <2> QED  BY <1>1, <2>1, <2>2, <2>3, <2>4
<1> QED  BY <1>1, <1>2, <1>3

\* retain keeps the other ads, each once if each was there once.
LEMMA RetainedFacts ==
    ASSUME NEW list \in Seq(Ads), NEW ad
    PROVE  /\ Retained(list, ad) \in Seq(Ads)
           /\ Range(Retained(list, ad)) = Range(list) \ {ad}
           /\ IsInjective(list) => IsInjective(Retained(list, ad))
<1> DEFINE L == Len(list)
<1>1. L \in Nat /\ DOMAIN list = 1 .. L /\ \A i \in 1 .. L : list[i] \in Ads
  OBVIOUS
<1>2. PICK g : IsKept(g, list, ad, L) /\ Retained(list, ad) = g[L]
  <2> DEFINE f == CHOOSE g : IsKept(g, list, ad, L)
  <2>1. IsKept(f, list, ad, L)
    BY <1>1, KeptExists
  <2>2. Retained(list, ad) = f[L]
    BY DEF Retained, IsKept
  <2> HIDE DEF f
  <2> QED  BY <2>1, <2>2
<1> DEFINE Good(i) == /\ g[i] \in Seq(Ads)
                      /\ Range(g[i]) = {list[j] : j \in 1 .. i} \ {ad}
                      /\ IsInjective(list) => IsInjective(g[i])
<1> DEFINE T == {i \in Nat : i <= L => Good(i)}
<1> HIDE DEF L
<1>3. g[0] = <<>> /\ \A i \in 1 .. L : g[i] = IF list[i] = ad THEN g[i - 1] ELSE Append(g[i - 1], list[i])
  <2>1. g = [i \in 0 .. L |-> IF i = 0 THEN <<>>
                            ELSE IF list[i] = ad THEN g[i - 1] ELSE Append(g[i - 1], list[i])]
    BY <1>2 DEF IsKept
  <2>2. 0 \in 0 .. L /\ \A i \in 1 .. L : i \in 0 .. L /\ i # 0
    BY <1>1
  <2>3. \A i \in 0 .. L : g[i] = IF i = 0 THEN <<>>
                            ELSE IF list[i] = ad THEN g[i - 1] ELSE Append(g[i - 1], list[i])
    BY <2>1, Zenon
  <2> QED  BY <2>2, <2>3, Zenon
<1>4. Good(0)
  <2>1. g[0] \in Seq(Ads) /\ DOMAIN g[0] = {}
    BY <1>3
  <2>2. 1 .. 0 = {}
    OBVIOUS
  <2> QED  BY <2>1, <2>2 DEF Range, IsInjective
<1>5. ASSUME NEW i \in T PROVE i + 1 \in T
  <2> SUFFICES ASSUME i + 1 <= L PROVE Good(i + 1)
    OBVIOUS
  <2>1. /\ i \in Nat /\ i + 1 \in 1 .. L /\ (i + 1) - 1 = i /\ list[i + 1] \in Ads /\ i <= L
    BY <1>1
  <2>2. Good(i)
    BY <2>1
  <2>3. {list[j] : j \in 1 .. i + 1} = {list[j] : j \in 1 .. i} \cup {list[i + 1]}
    BY <2>1
  <2>4. CASE list[i + 1] = ad
    <3>1. g[i + 1] = g[i]
      BY <1>3, <2>1, <2>4
    <3> QED  BY <2>2, <2>3, <2>4, <3>1
  <2>5. CASE list[i + 1] # ad
    <3>1. g[i + 1] = Append(g[i], list[i + 1])
      BY <1>3, <2>1, <2>5
    <3>2. /\ g[i + 1] \in Seq(Ads)
          /\ Range(g[i + 1]) = Range(g[i]) \cup {list[i + 1]}
          /\ IsInjective(g[i]) /\ list[i + 1] \notin Range(g[i]) => IsInjective(g[i + 1])
      BY <2>1, <2>2, <3>1, AppendRange
    <3>3. ASSUME IsInjective(list) PROVE list[i + 1] \notin Range(g[i])
      <4>1. \A j \in 1 .. i : list[j] # list[i + 1]
        BY <1>1, <2>1, <3>3 DEF IsInjective
      <4> QED  BY <2>2, <4>1
    <3> QED  BY <2>2, <2>3, <2>5, <3>2, <3>3
  <2> QED  BY <2>4, <2>5
<1>6. T = Nat
  <2>1. T \in SUBSET Nat /\ 0 \in T
    BY <1>4
  <2> HIDE DEF T
  <2> QED  BY <1>5, <2>1, NatSetInduction
<1>7. Good(L)
  <2>1. L \in Nat /\ L <= L
    BY <1>1
  <2> HIDE DEF Good
  <2>2. L \in T
    BY <1>6, <2>1
  <2> QED  BY <2>1, <2>2
<1>8. {list[j] : j \in 1 .. L} = Range(list)
  BY <1>1 DEF Range
<1> QED  BY <1>2, <1>7, <1>8

\* record_ad adds the ad to the list, and a list stays one without repetitions.
LEMMA RecordFacts ==
    ASSUME NEW list \in Seq(Ads), NEW ad \in Ads
    PROVE  /\ Record(list, ad) \in Seq(Ads)
           /\ Range(Record(list, ad)) = Range(list) \cup {ad}
           /\ IsInjective(list) => IsInjective(Record(list, ad))
<1>1. /\ Retained(list, ad) \in Seq(Ads)
      /\ Range(Retained(list, ad)) = Range(list) \ {ad}
      /\ IsInjective(list) => IsInjective(Retained(list, ad))
  BY RetainedFacts
<1>2. /\ Record(list, ad) \in Seq(Ads)
      /\ Range(Record(list, ad)) = Range(Retained(list, ad)) \cup {ad}
      /\ IsInjective(Retained(list, ad)) /\ ad \notin Range(Retained(list, ad)) => IsInjective(Record(list, ad))
  BY <1>1, AppendRange DEF Record
<1> QED  BY <1>1, <1>2

-----------------------------------------------------------------------------
(***************************************************************************)
(* Frames: what a step on one node leaves as it is.                        *)
(***************************************************************************)

\* The voters are nodes, other than the Standby; the Standby is one too.
LEMMA NodeFacts ==
    /\ Standby \in Nodes
    /\ \A k \in DOMAIN Voters : Voters[k] \in Range(Voters) /\ Voters[k] \in Nodes /\ Voters[k] # Standby
    /\ \A n \in Nodes : n # Standby => n \in Range(Voters)
BY AdsAssumption DEF Nodes, Range

\* A call is not Idle, and has an ad and a copy.
LEMMA CallFacts ==
    /\ Idle.pc = "idle"
    /\ \A c \in CallType : c # Idle /\ c.pc \in Pcs /\ c.ad \in Ads /\ c.copy \in Seq(Ads)
<1>1. Idle.pc = "idle"
  BY DEF Idle
<1>2. ASSUME NEW c \in CallType
      PROVE  c # Idle /\ c.pc \in Pcs /\ c.ad \in Ads /\ c.copy \in Seq(Ads)
  BY <1>1 DEF CallType, Pcs
<1> QED  BY <1>1, <1>2

\* The call that a step of record_ad leaves.
LEMMA CallIs ==
    ASSUME NEW pc \in Pcs, NEW ad \in Ads, NEW copy \in Seq(Ads)
    PROVE  \E c \in CallType : /\ c = Call(pc, ad, copy)
                               /\ c.pc = pc /\ c.ad = ad /\ c.copy = copy
<1>1. [pc |-> pc, ad |-> ad, copy |-> copy] \in CallType
  BY DEF CallType
<1> QED  BY <1>1 DEF Call

\* The call of a thread that is not idle.
LEMMA ThreadFacts ==
    ASSUME Shapes, NEW n \in Nodes, NEW t \in Recorders
    PROVE  /\ thread[n][t] \in CallType \cup {Idle}
           /\ ads[n] \in Seq(Ads) /\ file[n] \in Seq(Ads) \cup {Unreadable}
           /\ thread[n][t] # Idle => /\ thread[n][t] \in CallType
                                    /\ thread[n][t].pc \in Pcs /\ thread[n][t].ad \in Ads
                                    /\ thread[n][t].copy \in Seq(Ads)
           /\ thread[n][t].pc # "idle" => thread[n][t] # Idle
<1>1. thread[n][t] \in CallType \cup {Idle}
  BY DEF Shapes
<1> QED  BY <1>1, CallFacts DEF Shapes

\* A thread gets a new call, or becomes idle.
LEMMA SetThreadFacts ==
    ASSUME Shapes, NEW n \in Nodes, NEW t \in Recorders, NEW c \in CallType \cup {Idle},
           SetThread(n, t, c)
    PROVE  /\ thread' \in [Nodes -> [Recorders -> CallType \cup {Idle}]]
           /\ thread'[n][t] = c
           /\ \A u \in Recorders : u # t => thread'[n][u] = thread[n][u]
           /\ \A m \in Nodes : m # n => thread'[m] = thread[m]
BY DEF SetThread, Shapes

\* A node on which nothing happens stays clean as it is.
LEMMA CleanStays ==
    ASSUME NEW m \in Nodes, CleanNode(m), ads'[m] = ads[m], file'[m] = file[m],
           thread'[m] = thread[m], m = Standby => announced' = announced
    PROVE  CleanNode(m)'
<1>1. Quiet(m)' = Quiet(m) /\ Writing(m)' = Writing(m)
  BY DEF Quiet, Writing, At
<1>2. \A t \in Recorders : CallPersists(m, t) => CallPersists(m, t)'
  BY DEF CallPersists
<1> QED  BY <1>1, <1>2 DEF CleanNode

\* A step on one node keeps Once and Persisted if it keeps them there.
LEMMA NodeKeeps ==
    ASSUME IInv, NEW n \in Nodes, clean' \subseteq clean,
           \A m \in Nodes : m # n => /\ ads'[m] = ads[m] /\ file'[m] = file[m]
                                    /\ thread'[m] = thread[m],
           n # Standby => announced' = announced,
           IsInjective(ads'[n]), file'[n] # Unreadable => IsInjective(file'[n]),
           \A t \in Recorders : thread'[n][t] # Idle => IsInjective(thread'[n][t].copy),
           n \in clean' => CleanNode(n)'
    PROVE  Once' /\ Persisted'
<1>1. Once'
  BY DEF IInv, Once
<1>2. ASSUME NEW m \in clean', m # n PROVE CleanNode(m)'
  <2>1. m \in Nodes /\ CleanNode(m)
    BY <1>2 DEF IInv, Persisted, Shapes
  <2>2. ads'[m] = ads[m] /\ file'[m] = file[m] /\ thread'[m] = thread[m]
    BY <1>2, <2>1
  <2>3. m = Standby => announced' = announced
    BY <1>2
  <2> QED  BY <2>1, <2>2, <2>3, CleanStays
<1>3. Persisted'
  BY <1>2 DEF Persisted
<1> QED  BY <1>1, <1>3

\* While nothing is posted, announced or taken from a voter's list, Told stays.
LEMMA ToldStays ==
    ASSUME IInv, clean' \subseteq clean, failed \subseteq failed', posting' = posting,
           announced' = announced,
           \A k \in DOMAIN Voters : Range(ads[Voters[k]]) \subseteq Range(ads'[Voters[k]])
    PROVE  Told'
<1>1. \A k, ad : Due(k, ad) => Due(k, ad)'
  BY DEF Due
<1> QED  BY <1>1 DEF IInv, Told

-----------------------------------------------------------------------------
(***************************************************************************)
(* The steps of record_ad.                                                 *)
(***************************************************************************)

\* An ad is put into the list of a node.
LEMMA RecordAd ==
    ASSUME IInv, NEW n \in Nodes, NEW t \in Recorders, NEW ad \in Ads, record_ad(n, t, ad),
           UNCHANGED <<file, announced>>
    PROVE  /\ Once' /\ Persisted'
           /\ ads' \in [Nodes -> Seq(Ads)]
           /\ thread' \in [Nodes -> [Recorders -> CallType \cup {Idle}]]
           /\ clean' \subseteq clean
           /\ Range(ads'[n]) = Range(ads[n]) \cup {ad}
           /\ \A m \in Nodes : m # n => ads'[m] = ads[m]
<1>1. /\ thread[n][t] = Idle
      /\ ads' = [ads EXCEPT ![n] = Record(@, ad)]
      /\ clean' = IF Quiet(n) THEN clean ELSE clean \ {n}
      /\ SetThread(n, t, Call("clone", ad, <<>>))
  BY DEF record_ad
<1>2. PICK c \in CallType : c = Call("clone", ad, <<>>) /\ c # Idle
               /\ c.pc = "clone" /\ c.ad = ad /\ c.copy = <<>>
  <2>1. [pc |-> "clone", ad |-> ad, copy |-> <<>>] \in CallType
    BY DEF CallType, Pcs
  <2> QED  BY <2>1, CallFacts DEF Call
<1>3. /\ thread' \in [Nodes -> [Recorders -> CallType \cup {Idle}]]
      /\ thread'[n][t] = c
      /\ \A u \in Recorders : u # t => thread'[n][u] = thread[n][u]
      /\ \A m \in Nodes : m # n => thread'[m] = thread[m]
  BY <1>1, <1>2, SetThreadFacts DEF IInv
<1>4. /\ ads[n] \in Seq(Ads) /\ IsInjective(ads[n])
      /\ Record(ads[n], ad) \in Seq(Ads)
      /\ Range(Record(ads[n], ad)) = Range(ads[n]) \cup {ad}
      /\ IsInjective(Record(ads[n], ad))
  BY RecordFacts, ThreadFacts DEF IInv, Once
<1>5. /\ ads' \in [Nodes -> Seq(Ads)] /\ ads'[n] = Record(ads[n], ad)
      /\ \A m \in Nodes : m # n => ads'[m] = ads[m]
  BY <1>1, <1>4 DEF IInv, Shapes
<1>6. clean' \subseteq clean
  BY <1>1
<1>7. ASSUME n \in clean' PROVE CleanNode(n)'
  <2>1. Quiet(n) /\ CleanNode(n)
    BY <1>1, <1>7 DEF IInv, Persisted
  <2>2. file[n] = ads[n] /\ file[n] # Unreadable
    BY <1>4, <2>1, AdsAssumption DEF CleanNode
  <2>3. \A u \in Recorders : u # t => thread'[n][u] = Idle
    BY <1>3, <2>1 DEF Quiet
  <2>4. CallPersists(n, t)'
    BY <1>2, <1>3, <1>4, <1>5, <2>2, <2>3 DEF CallPersists
  <2>5. ~Quiet(n)'
    BY <1>2, <1>3 DEF Quiet
  <2>6. ~Writing(n)
    BY <2>1, CallFacts DEF Quiet, Writing, At
  <2>7. n = Standby => announced' \subseteq Range(ads'[n]) /\ announced' \subseteq Range(file'[n])
    BY <1>4, <1>5, <2>1, <2>6 DEF CleanNode
  <2> QED  BY <2>3, <2>4, <2>5, <2>7 DEF CleanNode
<1>8. IsInjective(c.copy)
  BY <1>2 DEF IsInjective
<1>9. \A u \in Recorders : thread'[n][u] # Idle => IsInjective(thread'[n][u].copy)
  BY <1>3, <1>8 DEF IInv, Once
<1>10. file'[n] # Unreadable => IsInjective(file'[n])
  BY DEF IInv, Once
<1>11. Once' /\ Persisted'
  BY <1>3, <1>4, <1>5, <1>6, <1>7, <1>9, <1>10, NodeKeeps
<1> QED  BY <1>3, <1>4, <1>5, <1>6, <1>11

\* A snapshot task records its ad.
LEMMA SnapshotDoneOK ==
    ASSUME IInv, NEW t \in Recorders, NEW ad \in Ads, snapshot_done(t, ad)
    PROVE  IInv'
<1>1. /\ record_ad(Standby, t, ad) /\ calls < MaxCalls /\ calls' = calls + 1
      /\ UNCHANGED <<file, posting, announced, failed, crashes>>
  BY DEF snapshot_done
<1>2. /\ Once' /\ Persisted'
      /\ ads' \in [Nodes -> Seq(Ads)]
      /\ thread' \in [Nodes -> [Recorders -> CallType \cup {Idle}]]
      /\ clean' \subseteq clean
      /\ \A m \in Nodes : m # Standby => ads'[m] = ads[m]
  BY <1>1, NodeFacts, RecordAd
<1>3. Shapes'
  <2>1. calls' \in 0 .. MaxCalls
    BY <1>1, AdsAssumption DEF IInv, Shapes
  <2> QED  BY <1>1, <1>2, <2>1 DEF IInv, Shapes
<1>4. Told'
  BY <1>1, <1>2, NodeFacts, ToldStays
<1> QED  BY <1>2, <1>3, <1>4 DEF IInv

\* A call of record_ad goes on on its node: the list stays.
LEMMA PersistStep ==
    ASSUME IInv, NEW n \in Nodes, NEW t \in Recorders, thread[n][t] # Idle,
           NEW c \in CallType, SetThread(n, t, c), IsInjective(c.copy),
           UNCHANGED <<ads, posting, announced, failed, calls, crashes>>,
           clean' \subseteq clean,
           file' \in [Nodes -> Seq(Ads) \cup {Unreadable}],
           \A m \in Nodes : m # n => file'[m] = file[m],
           file'[n] # Unreadable => IsInjective(file'[n]),
           n \in clean' /\ (\A u \in Recorders : u # t => thread[n][u] = Idle)
               => CleanNode(n)'
    PROVE  IInv'
<1>1. c # Idle
  BY CallFacts
<1>2. /\ thread' \in [Nodes -> [Recorders -> CallType \cup {Idle}]]
      /\ thread'[n][t] = c
      /\ \A u \in Recorders : u # t => thread'[n][u] = thread[n][u]
      /\ \A m \in Nodes : m # n => thread'[m] = thread[m]
  BY SetThreadFacts DEF IInv
<1>3. n \in clean' => CleanNode(n)'
  BY DEF IInv, Persisted, CleanNode, CallPersists
<1>4. \A u \in Recorders : thread'[n][u] # Idle => IsInjective(thread'[n][u].copy)
  BY <1>2 DEF IInv, Once
<1>5. IsInjective(ads'[n])
  BY DEF IInv, Once
<1>6. Once' /\ Persisted'
  BY <1>2, <1>3, <1>4, <1>5, NodeKeeps
<1>7. Shapes'
  BY <1>2 DEF IInv, Shapes
<1>8. Told'
  BY ToldStays
<1> QED  BY <1>6, <1>7, <1>8 DEF IInv

\* persist_ads copies the list, truncates the file and writes it, or fails.
LEMMA PersistOK ==
    ASSUME IInv, NEW n \in Nodes, NEW t \in Recorders,
           persist_clone(n, t) \/ persist_truncate(n, t) \/ persist_write(n, t) \/ persist_error(n, t)
    PROVE  IInv'
<1>1. /\ thread[n][t] # Idle /\ thread[n][t].ad \in Ads /\ thread[n][t].copy \in Seq(Ads)
      /\ ads[n] \in Seq(Ads) /\ file[n] \in Seq(Ads) \cup {Unreadable}
      /\ IsInjective(thread[n][t].copy) /\ IsInjective(ads[n])
      /\ file[n] # Unreadable => IsInjective(file[n])
  <2>1. thread[n][t].pc # "idle"
    BY DEF persist_clone, persist_truncate, persist_write, persist_error, At
  <2> QED  BY <2>1, ThreadFacts DEF IInv, Once
<1>2. n \in clean => CallPersists(n, t) /\ CleanNode(n)
  BY <1>1 DEF IInv, Persisted, CleanNode
<1>3. Unreadable \notin Seq(Ads)
  BY AdsAssumption
<1>4. \A c : SetThread(n, t, c) /\ c \in CallType =>
             /\ thread'[n][t] = c /\ \A u \in Recorders : u # t => thread'[n][u] = thread[n][u]
  BY SetThreadFacts DEF IInv
<1>5. CASE persist_clone(n, t)
  <2>1. /\ thread[n][t].pc = "clone" /\ SetThread(n, t, Call("truncate", thread[n][t].ad, ads[n]))
        /\ UNCHANGED <<ads, file, posting, announced, failed, clean, calls, crashes>>
    BY <1>5 DEF persist_clone, At
  <2>2. PICK c \in CallType : /\ c = Call("truncate", thread[n][t].ad, ads[n])
                             /\ c.pc = "truncate" /\ c.ad = thread[n][t].ad /\ c.copy = ads[n]
    BY <1>1, CallIs DEF Pcs
  <2>3. ASSUME n \in clean, \A u \in Recorders : u # t => thread[n][u] = Idle
        PROVE  CleanNode(n)'
    <3>1. /\ thread'[n][t] = c /\ c # Idle
          /\ \A u \in Recorders : u # t => thread'[n][u] = Idle
      BY <1>4, <2>1, <2>2, <2>3, CallFacts
    <3>2. CallPersists(n, t)'
      BY <1>2, <2>1, <2>2, <2>3, <3>1 DEF CallPersists
    <3>3. ~Writing(n)
      BY <2>1, <2>3, CallFacts DEF Writing, At
    <3> QED  BY <1>2, <2>1, <2>3, <3>1, <3>2, <3>3 DEF CleanNode, Quiet
  <2>4. \A m \in Nodes : file'[m] = file[m]
    BY <2>1
  <2>5. file' \in [Nodes -> Seq(Ads) \cup {Unreadable}]
    BY <2>1 DEF IInv, Shapes
  <2> QED  BY <1>1, <2>1, <2>2, <2>3, <2>4, <2>5, PersistStep
<1>6. CASE persist_truncate(n, t)
  <2>1. /\ thread[n][t].pc = "truncate"
        /\ SetThread(n, t, Call("write", thread[n][t].ad, thread[n][t].copy))
        /\ file' = [file EXCEPT ![n] = Unreadable]
        /\ UNCHANGED <<ads, posting, announced, failed, clean, calls, crashes>>
    BY <1>6 DEF persist_truncate, At, Goto
  <2>2. PICK c \in CallType : /\ c = Call("write", thread[n][t].ad, thread[n][t].copy)
                             /\ c.pc = "write" /\ c.ad = thread[n][t].ad /\ c.copy = thread[n][t].copy
    BY <1>1, CallIs DEF Pcs
  <2>3. /\ file' \in [Nodes -> Seq(Ads) \cup {Unreadable}] /\ file'[n] = Unreadable
        /\ \A m \in Nodes : m # n => file'[m] = file[m]
    BY <2>1 DEF IInv, Shapes
  <2>4. ASSUME n \in clean, \A u \in Recorders : u # t => thread[n][u] = Idle
        PROVE  CleanNode(n)'
    <3>1. /\ thread'[n][t] = c /\ c # Idle
          /\ \A u \in Recorders : u # t => thread'[n][u] = Idle
      BY <1>4, <2>1, <2>2, <2>4, CallFacts
    <3>2. CallPersists(n, t)'
      BY <1>2, <2>1, <2>2, <2>3, <2>4, <3>1 DEF CallPersists
    <3>3. Writing(n)'
      BY <2>2, <3>1 DEF Writing, At
    <3> QED  BY <1>2, <2>1, <2>4, <3>1, <3>2, <3>3 DEF CleanNode, Quiet
  <2> QED  BY <1>1, <2>1, <2>2, <2>3, <2>4, PersistStep
<1>7. CASE persist_write(n, t)
  <2>1. /\ thread[n][t].pc = "write"
        /\ SetThread(n, t, Call("callback", thread[n][t].ad, thread[n][t].copy))
        /\ file' = [file EXCEPT ![n] = IF @ # Unreadable /\ Len(@) > Len(thread[n][t].copy)
                                       THEN Unreadable ELSE thread[n][t].copy]
        /\ UNCHANGED <<ads, posting, announced, failed, clean, calls, crashes>>
    BY <1>7 DEF persist_write, At, Goto
  <2>2. PICK c \in CallType : /\ c = Call("callback", thread[n][t].ad, thread[n][t].copy)
                             /\ c.pc = "callback" /\ c.ad = thread[n][t].ad /\ c.copy = thread[n][t].copy
    BY <1>1, CallIs DEF Pcs
  <2>3. /\ file' \in [Nodes -> Seq(Ads) \cup {Unreadable}]
        /\ file'[n] \in {Unreadable, thread[n][t].copy}
        /\ file[n] = Unreadable => file'[n] = thread[n][t].copy
        /\ \A m \in Nodes : m # n => file'[m] = file[m]
    BY <1>1, <2>1 DEF IInv, Shapes
  <2>4. ASSUME n \in clean, \A u \in Recorders : u # t => thread[n][u] = Idle
        PROVE  CleanNode(n)'
    <3>1. /\ thread'[n][t] = c /\ c # Idle
          /\ \A u \in Recorders : u # t => thread'[n][u] = Idle
      BY <1>4, <2>1, <2>2, <2>4, CallFacts
    <3>2. file'[n] = ads[n]
      BY <1>2, <2>1, <2>3, <2>4 DEF CallPersists
    <3>3. CallPersists(n, t)'
      BY <1>2, <2>1, <2>2, <2>4, <3>1, <3>2 DEF CallPersists
    <3> QED  BY <1>2, <2>1, <2>4, <3>1, <3>2, <3>3 DEF CleanNode, Quiet
  <2>5. file'[n] # Unreadable => IsInjective(file'[n])
    BY <1>1, <2>3
  <2> QED  BY <1>1, <2>1, <2>2, <2>3, <2>4, <2>5, PersistStep
<1>8. CASE persist_error(n, t)
  <2>1. /\ SetThread(n, t, Call("callback", thread[n][t].ad, thread[n][t].copy))
        /\ clean' = clean \ {n}
        /\ UNCHANGED <<ads, file, posting, announced, failed, calls, crashes>>
    BY <1>8 DEF persist_error, Goto
  <2>2. PICK c \in CallType : /\ c = Call("callback", thread[n][t].ad, thread[n][t].copy)
                             /\ c.copy = thread[n][t].copy
    BY <1>1, CallIs DEF Pcs
  <2>3. file' \in [Nodes -> Seq(Ads) \cup {Unreadable}] /\ \A m \in Nodes : file'[m] = file[m]
    BY <2>1 DEF IInv, Shapes
  <2> QED  BY <1>1, <2>1, <2>2, <2>3, PersistStep
<1> QED  BY <1>5, <1>6, <1>7, <1>8

\* The call ends: on the Standby, its ad is announced and a task posts it.
LEMMA CallbackOK ==
    ASSUME IInv, NEW n \in Nodes, NEW t \in Recorders, callback(n, t)
    PROVE  IInv'
<1>1. /\ thread[n][t].pc = "callback" /\ SetThread(n, t, Idle)
      /\ IF n = Standby THEN Announce(thread[n][t].ad) ELSE UNCHANGED <<announced, posting>>
      /\ UNCHANGED <<ads, file, failed, clean, calls, crashes>>
  BY DEF callback, At
<1>2. thread[n][t] # Idle /\ thread[n][t].ad \in Ads
  BY <1>1, ThreadFacts DEF IInv
<1>3. /\ thread' \in [Nodes -> [Recorders -> CallType \cup {Idle}]]
      /\ thread'[n][t] = Idle
      /\ \A u \in Recorders : u # t => thread'[n][u] = thread[n][u]
      /\ \A m \in Nodes : m # n => thread'[m] = thread[m]
  BY <1>1, SetThreadFacts DEF IInv
<1>4. PICK ad \in Ads : ad = thread[n][t].ad
  BY <1>2
<1>5. /\ n = Standby => announced' = announced \cup {ad} /\ posting' = Append(posting, [ad |-> ad, next |-> 1])
      /\ n # Standby => announced' = announced /\ posting' = posting
  BY <1>1, <1>4 DEF Announce
<1>6. 1 \in DOMAIN Voters /\ \A k \in DOMAIN Voters : k \in Nat /\ 1 <= k
  BY AdsAssumption
<1>7. posting \in Seq(Post) /\ [ad |-> ad, next |-> 1] \in Post
  BY <1>6 DEF IInv, Shapes, Post
<1>8. ASSUME n \in clean PROVE CleanNode(n)'
  <2>1. CallPersists(n, t) /\ CleanNode(n)
    BY <1>2, <1>8 DEF IInv, Persisted, CleanNode
  <2>2. file[n] = ads[n] /\ ad \in Range(ads[n]) /\ \A u \in Recorders : u # t => thread[n][u] = Idle
    BY <1>1, <1>4, <2>1 DEF CallPersists
  <2>3. \A u \in Recorders : thread'[n][u] = Idle
    BY <1>3, <2>2
  <2>4. n = Standby => announced \subseteq Range(ads[n])
    BY <2>1 DEF CleanNode
  <2>5. n = Standby => announced' \subseteq Range(ads'[n]) /\ announced' \subseteq Range(file'[n])
    BY <1>1, <1>5, <2>2, <2>4
  <2> QED  BY <1>1, <2>2, <2>3, <2>5 DEF CleanNode
<1>9. Once' /\ Persisted'
  <2>1. \A u \in Recorders : thread'[n][u] # Idle => IsInjective(thread'[n][u].copy)
    BY <1>3 DEF IInv, Once
  <2>2. IsInjective(ads'[n]) /\ (file'[n] # Unreadable => IsInjective(file'[n]))
    BY <1>1 DEF IInv, Once
  <2>3. \A m \in Nodes : m # n => ads'[m] = ads[m] /\ file'[m] = file[m] /\ thread'[m] = thread[m]
    BY <1>1, <1>3
  <2>4. n \in clean' => CleanNode(n)'
    BY <1>1, <1>8
  <2> QED  BY <1>1, <1>5, <2>1, <2>2, <2>3, <2>4, NodeKeeps
<1>10. Shapes'
  <2>1. posting' \in Seq(Post)
    BY <1>5, <1>7
  <2>2. announced' \subseteq Ads
    BY <1>5 DEF IInv, Shapes
  <2> QED  BY <1>1, <1>3, <2>1, <2>2 DEF IInv, Shapes
<1>11. Told'
  <2>1. CASE n # Standby
    <3>1. \A k \in DOMAIN Voters : Range(ads[Voters[k]]) \subseteq Range(ads'[Voters[k]])
      BY <1>1
    <3> QED  BY <1>1, <1>5, <2>1, <3>1, ToldStays
  <2>2. CASE n = Standby
    <3>1. PICK p \in Post : p = [ad |-> ad, next |-> 1] /\ p.ad = ad /\ p.next = 1
      BY <1>7
    <3>2. /\ posting' = Append(posting, p) /\ Len(posting) \in Nat
          /\ DOMAIN posting = 1 .. Len(posting) /\ DOMAIN posting' = 1 .. Len(posting) + 1
          /\ posting'[Len(posting) + 1] = p
          /\ \A i \in 1 .. Len(posting) : posting'[i] = posting[i]
      BY <1>5, <1>7, <2>2, <3>1
    <3>3. \A k, a : Due(k, a) => Due(k, a)'
      BY <3>2 DEF Due
    <3>4. \A k \in DOMAIN Voters : Due(k, ad)'
      <4> SUFFICES ASSUME NEW k \in DOMAIN Voters PROVE Due(k, ad)'
        OBVIOUS
      <4>1. Len(posting) + 1 \in DOMAIN posting'
        BY <3>2
      <4>2. posting'[Len(posting) + 1].ad = ad /\ posting'[Len(posting) + 1].next <= k
        BY <1>6, <3>1, <3>2
      <4> QED  BY <4>1, <4>2 DEF Due
    <3> QED  BY <1>1, <1>5, <2>2, <3>3, <3>4 DEF IInv, Told
  <2> QED  BY <2>1, <2>2
<1> QED  BY <1>9, <1>10, <1>11 DEF IInv

-----------------------------------------------------------------------------
(***************************************************************************)
(* Posting to the voters.                                                  *)
(***************************************************************************)

\* Taking one element out of a sequence leaves the others.
LEMMA RemoveAtFacts ==
    ASSUME NEW S, NEW s \in Seq(S), NEW L \in Nat, L = Len(s), NEW i \in 1 .. L
    PROVE  /\ RemoveAt(s, i) \in Seq(S)
           /\ \A j \in DOMAIN s : j # i => \E k \in DOMAIN RemoveAt(s, i) : RemoveAt(s, i)[k] = s[j]
<1>1. DOMAIN s = 1 .. L /\ L - i \in Nat /\ i - 1 \in Nat
  OBVIOUS
<1>2. PICK a \in Seq(S) : /\ a = SubSeq(s, 1, i - 1) /\ Len(a) = i - 1
                          /\ \A k \in 1 .. i - 1 : a[k] = s[k]
  <2>1. \A k \in 1 .. i - 1 : s[k] \in S
    BY <1>1
  <2>2. /\ SubSeq(s, 1, i - 1) \in Seq(S)
        /\ Len(SubSeq(s, 1, i - 1)) = IF 1 <= i - 1 THEN i - 1 - 1 + 1 ELSE 0
        /\ \A k \in 1 .. i - 1 - 1 + 1 : SubSeq(s, 1, i - 1)[k] = s[1 + k - 1]
    BY <2>1, SubSeqProperties
  <2>3. Len(SubSeq(s, 1, i - 1)) = i - 1
    BY <2>2
  <2>4. ASSUME NEW k \in 1 .. i - 1 PROVE SubSeq(s, 1, i - 1)[k] = s[k]
    <3>1. k \in 1 .. i - 1 - 1 + 1 /\ 1 + k - 1 = k
      OBVIOUS
    <3> QED  BY <2>2, <3>1
  <2> QED  BY <2>2, <2>3, <2>4
<1>3. PICK b \in Seq(S) : /\ b = SubSeq(s, i + 1, L) /\ Len(b) = L - i
                          /\ \A k \in 1 .. L - i : b[k] = s[i + k]
  <2>1. \A k \in i + 1 .. L : s[k] \in S
    BY <1>1
  <2>2. /\ SubSeq(s, i + 1, L) \in Seq(S)
        /\ Len(SubSeq(s, i + 1, L)) = IF i + 1 <= L THEN L - (i + 1) + 1 ELSE 0
        /\ \A k \in 1 .. L - (i + 1) + 1 : SubSeq(s, i + 1, L)[k] = s[(i + 1) + k - 1]
    BY <2>1, SubSeqProperties
  <2>3. Len(SubSeq(s, i + 1, L)) = L - i
    BY <2>2
  <2>4. ASSUME NEW k \in 1 .. L - i PROVE SubSeq(s, i + 1, L)[k] = s[i + k]
    <3>1. k \in 1 .. L - (i + 1) + 1 /\ (i + 1) + k - 1 = i + k
      OBVIOUS
    <3> QED  BY <2>2, <3>1
  <2> QED  BY <2>2, <2>3, <2>4
<1>4. RemoveAt(s, i) = a \o b
  BY <1>1, <1>2, <1>3 DEF RemoveAt
<1>5. /\ a \o b \in Seq(S) /\ DOMAIN (a \o b) = 1 .. L - 1
      /\ \A k \in 1 .. i - 1 : (a \o b)[k] = a[k]
      /\ \A k \in 1 .. L - i : (a \o b)[i - 1 + k] = b[k]
  <2> Len(a) = i - 1 /\ Len(b) = L - i /\ (i - 1) + (L - i) = L - 1
    BY <1>2, <1>3
  <2>0. /\ a \o b \in Seq(S)
        /\ Len(a \o b) = Len(a) + Len(b)
        /\ \A k \in 1 .. Len(a) + Len(b) : (a \o b)[k] = IF k <= Len(a) THEN a[k] ELSE b[k - Len(a)]
    BY ConcatProperties
  <2>1. a \o b \in Seq(S) /\ Len(a \o b) = L - 1
    BY <2>0
  <2>2. \A k \in 1 .. L - 1 : (a \o b)[k] = IF k <= i - 1 THEN a[k] ELSE b[k - (i - 1)]
    BY <2>0
  <2>3. ASSUME NEW k \in 1 .. i - 1 PROVE (a \o b)[k] = a[k]
    <3>1. k \in 1 .. L - 1 /\ k <= i - 1
      OBVIOUS
    <3> QED  BY <2>2, <3>1
  <2>4. ASSUME NEW k \in 1 .. L - i PROVE (a \o b)[i - 1 + k] = b[k]
    <3>1. i - 1 + k \in 1 .. L - 1 /\ ~(i - 1 + k <= i - 1) /\ (i - 1 + k) - (i - 1) = k
      BY <1>1
    <3> QED  BY <2>2, <3>1
  <2>5. ASSUME NEW q \in Seq(S), Len(q) = L - 1 PROVE DOMAIN q = 1 .. L - 1
    BY <2>5
  <2>6. DOMAIN (a \o b) = 1 .. L - 1
    BY <2>1, <2>5
  <2> QED  BY <2>1, <2>3, <2>4, <2>6
<1>6. ASSUME NEW j \in DOMAIN s, j # i
      PROVE  \E k \in DOMAIN (a \o b) : (a \o b)[k] = s[j]
  <2>1. CASE j < i
    <3>1. j \in 1 .. i - 1 /\ j \in 1 .. L - 1
      BY <1>1, <2>1
    <3> QED  BY <1>2, <1>5, <3>1
  <2>2. CASE j > i
    <3>1. PICK k \in 1 .. L - i : k = j - i /\ i + k = j /\ i - 1 + k \in 1 .. L - 1
      BY <1>1, <2>2
    <3>2. (a \o b)[i - 1 + k] = s[j]
      BY <1>3, <1>5, <3>1
    <3> QED  BY <1>5, <3>1, <3>2
  <2> QED  BY <1>1, <1>6, <2>1, <2>2
<1> QED  BY <1>4, <1>5, <1>6

\* A task goes on to its next voter: only the post to this voter is done with.
LEMMA NextVoterFacts ==
    ASSUME Shapes, NEW i \in DOMAIN posting, NextVoter(i)
    PROVE  /\ posting' \in Seq(Post)
           /\ \A k \in DOMAIN Voters : \A ad : Due(k, ad) =>
                  Due(k, ad)' \/ (k = posting[i].next /\ ad = posting[i].ad)
<1>1. posting \in Seq(Post) /\ posting[i] \in Post
  BY DEF Shapes
<1>2. posting[i].ad \in Ads /\ posting[i].next \in DOMAIN Voters
  BY <1>1 DEF Post
<1>3. Len(Voters) \in Nat /\ DOMAIN Voters = 1 .. Len(Voters)
  BY AdsAssumption
<1>4. CASE posting[i].next = Len(Voters)
  <2>1. posting' = RemoveAt(posting, i)
    BY <1>4 DEF NextVoter
  <2>2. /\ posting' \in Seq(Post)
        /\ \A j \in DOMAIN posting : j # i => \E l \in DOMAIN posting' : posting'[l] = posting[j]
    <3>1. PICK L \in Nat : L = Len(posting) /\ DOMAIN posting = 1 .. L
      BY <1>1
    <3>2. i \in 1 .. L
      BY <3>1
    <3>3. /\ RemoveAt(posting, i) \in Seq(Post)
          /\ \A j \in DOMAIN posting : j # i =>
                 \E l \in DOMAIN RemoveAt(posting, i) : RemoveAt(posting, i)[l] = posting[j]
      BY <1>1, <3>1, <3>2, RemoveAtFacts
    <3> QED  BY <2>1, <3>3
  <2>3. ASSUME NEW k \in DOMAIN Voters, NEW ad, Due(k, ad)
        PROVE  Due(k, ad)' \/ (k = posting[i].next /\ ad = posting[i].ad)
    <3>1. PICK j \in DOMAIN posting : posting[j].ad = ad /\ posting[j].next <= k
      BY <2>3 DEF Due
    <3>2. CASE j = i
      BY <1>3, <1>4, <3>1, <3>2
    <3>3. CASE j # i
      <4>1. PICK l \in DOMAIN posting' : posting'[l] = posting[j]
        BY <2>2, <3>3
      <4> QED  BY <3>1, <4>1 DEF Due
    <3> QED  BY <3>2, <3>3
  <2> QED  BY <2>2, <2>3
<1>5. CASE posting[i].next # Len(Voters)
  <2>1. posting' = [posting EXCEPT ![i].next = @ + 1]
    BY <1>5 DEF NextVoter
  <2>2. PICK p \in Post : p = [posting[i] EXCEPT !.next = @ + 1] /\ p.ad = posting[i].ad /\ p.next = posting[i].next + 1
    <3>1. posting[i].next + 1 \in DOMAIN Voters
      BY <1>2, <1>3, <1>5
    <3>2. [posting[i] EXCEPT !.next = posting[i].next + 1] \in Post
      BY <1>1, <3>1 DEF Post
    <3> QED  BY <1>1, <3>2 DEF Post
  <2>3. posting' = [posting EXCEPT ![i] = p]
    BY <2>1, <2>2
  <2>4. /\ posting' \in Seq(Post) /\ DOMAIN posting' = DOMAIN posting
        /\ posting'[i] = p /\ \A j \in DOMAIN posting : j # i => posting'[j] = posting[j]
    BY <1>1, <2>3
  <2>5. ASSUME NEW k \in DOMAIN Voters, NEW ad, Due(k, ad)
        PROVE  Due(k, ad)' \/ (k = posting[i].next /\ ad = posting[i].ad)
    <3>1. PICK j \in DOMAIN posting : posting[j].ad = ad /\ posting[j].next <= k
      BY <2>5 DEF Due
    <3>2. CASE j # i
      BY <2>4, <3>1, <3>2 DEF Due
    <3>3. CASE j = i /\ k # posting[i].next
      <4>1. posting'[i].ad = ad /\ posting'[i].next <= k /\ i \in DOMAIN posting'
        BY <1>2, <1>3, <2>2, <2>4, <3>1, <3>3
      <4> QED  BY <4>1 DEF Due
    <3> QED  BY <3>1, <3>2, <3>3
  <2> QED  BY <2>4, <2>5
<1> QED  BY <1>4, <1>5

\* The voter that a task posts to.
LEMMA PostTo ==
    ASSUME Shapes, NEW i \in DOMAIN posting
    PROVE  /\ posting[i].ad \in Ads /\ posting[i].next \in DOMAIN Voters
           /\ Voters[posting[i].next] \in Nodes /\ Voters[posting[i].next] \in Range(Voters)
           /\ Voters[posting[i].next] # Standby
<1>1. posting[i] \in Post
  BY DEF Shapes
<1> QED  BY <1>1, NodeFacts DEF Post

\* A post arrives: the voter records the ad.
LEMMA PostOK ==
    ASSUME IInv, NEW i \in DOMAIN posting, NEW t \in Recorders, post(i, t)
    PROVE  IInv'
<1>1. PICK n \in Nodes, ad \in Ads :
          n = Voters[posting[i].next] /\ ad = posting[i].ad /\ posting[i].next \in DOMAIN Voters
  BY PostTo DEF IInv
<1>2. /\ record_ad(n, t, ad) /\ NextVoter(i)
      /\ UNCHANGED <<file, announced, failed, calls, crashes>>
  BY <1>1 DEF post
<1>3. /\ Once' /\ Persisted'
      /\ ads' \in [Nodes -> Seq(Ads)]
      /\ thread' \in [Nodes -> [Recorders -> CallType \cup {Idle}]]
      /\ clean' \subseteq clean
      /\ Range(ads'[n]) = Range(ads[n]) \cup {ad}
      /\ \A m \in Nodes : m # n => ads'[m] = ads[m]
  BY <1>2, RecordAd
<1>4. /\ posting' \in Seq(Post)
      /\ \A k \in DOMAIN Voters : \A a : Due(k, a) =>
             Due(k, a)' \/ (k = posting[i].next /\ a = posting[i].ad)
  BY <1>2, NextVoterFacts DEF IInv
<1>5. Shapes'
  BY <1>2, <1>3, <1>4 DEF IInv, Shapes
<1>6. Told'
  <2> SUFFICES ASSUME NEW k \in DOMAIN Voters, NEW a \in announced, Voters[k] \in clean'
               PROVE  \/ <<Voters[k], a>> \in failed'
                      \/ Due(k, a)'
                      \/ a \in Range(ads'[Voters[k]])
    BY <1>2 DEF Told
  <2>1. Voters[k] \in Nodes /\ Range(ads[Voters[k]]) \subseteq Range(ads'[Voters[k]])
    BY <1>3, NodeFacts
  <2>2. <<Voters[k], a>> \in failed \/ Due(k, a) \/ a \in Range(ads[Voters[k]])
    BY <1>3 DEF IInv, Told
  <2>3. k = posting[i].next /\ a = posting[i].ad => a \in Range(ads'[Voters[k]])
    BY <1>1, <1>3
  <2> QED  BY <1>2, <1>4, <2>1, <2>2, <2>3
<1> QED  BY <1>3, <1>5, <1>6 DEF IInv

\* A post fails: it is counted as failed, and the task goes on.
LEMMA PostErrorOK ==
    ASSUME IInv, NEW i \in DOMAIN posting, post_error(i)
    PROVE  IInv'
<1>1. /\ failed' = failed \cup {<<Voters[posting[i].next], posting[i].ad>>} /\ NextVoter(i)
      /\ UNCHANGED <<ads, file, thread, announced, clean, calls, crashes>>
  BY DEF post_error
<1>2. /\ posting' \in Seq(Post)
      /\ \A k \in DOMAIN Voters : \A a : Due(k, a) =>
             Due(k, a)' \/ (k = posting[i].next /\ a = posting[i].ad)
  BY <1>1, NextVoterFacts DEF IInv
<1>3. Shapes'
  <2>1. failed' \subseteq Range(Voters) \X Ads
    BY <1>1, PostTo DEF IInv, Shapes
  <2> QED  BY <1>1, <1>2, <2>1 DEF IInv, Shapes
<1>4. Once' /\ Persisted'
  <2>1. Once'
    BY <1>1 DEF IInv, Once
  <2>2. ASSUME NEW m \in clean PROVE CleanNode(m)'
    <3>1. m \in Nodes /\ CleanNode(m)
      BY DEF IInv, Persisted, Shapes
    <3> QED  BY <1>1, <3>1, CleanStays
  <2> QED  BY <1>1, <2>1, <2>2 DEF Persisted
<1>5. Told'
  <2> SUFFICES ASSUME NEW k \in DOMAIN Voters, NEW a \in announced, Voters[k] \in clean
               PROVE  \/ <<Voters[k], a>> \in failed'
                      \/ Due(k, a)'
                      \/ a \in Range(ads'[Voters[k]])
    BY <1>1 DEF Told
  <2>1. <<Voters[k], a>> \in failed \/ Due(k, a) \/ a \in Range(ads[Voters[k]])
    BY DEF IInv, Told
  <2> QED  BY <1>1, <1>2, <2>1
<1> QED  BY <1>3, <1>4, <1>5 DEF IInv

-----------------------------------------------------------------------------
(***************************************************************************)
(* A restart.                                                              *)
(***************************************************************************)

\* A node starts again with the list that is in its file.
LEMMA RestartOK ==
    ASSUME IInv, NEW n \in Nodes, Restart(n)
    PROVE  IInv'
<1>1. /\ crashes < MaxCrash /\ crashes' = crashes + 1
      /\ clean' = IF Writing(n) THEN clean \ {n} ELSE clean
      /\ thread' = [thread EXCEPT ![n] = [t \in Recorders |-> Idle]]
      /\ posting' = IF n = Standby THEN <<>> ELSE posting
      /\ failed' = failed \cup IF n = Standby THEN Unposted
                 ELSE {n} \X {thread[n][t].ad : t \in {u \in Recorders : thread[n][u] # Idle}}
      /\ ads' = [ads EXCEPT ![n] = load_ads(file[n])]
      /\ UNCHANGED <<file, announced, calls>>
  BY DEF Restart, Killed
<1>2. /\ thread' \in [Nodes -> [Recorders -> CallType \cup {Idle}]]
      /\ \A t \in Recorders : thread'[n][t] = Idle
      /\ \A m \in Nodes : m # n => thread'[m] = thread[m]
  BY <1>1 DEF IInv, Shapes
<1>3. /\ file[n] \in Seq(Ads) \cup {Unreadable}
      /\ load_ads(file[n]) \in Seq(Ads) /\ IsInjective(load_ads(file[n]))
  <2>1. file[n] \in Seq(Ads) \cup {Unreadable}
    BY DEF IInv, Shapes
  <2>2. IsInjective(<<>>)
    BY DEF IsInjective
  <2> QED  BY <2>1, <2>2 DEF IInv, Once, load_ads
<1>4. /\ ads' \in [Nodes -> Seq(Ads)] /\ ads'[n] = load_ads(file[n])
      /\ \A m \in Nodes : m # n => ads'[m] = ads[m]
  BY <1>1, <1>3 DEF IInv, Shapes
<1>5. clean' \subseteq clean
  BY <1>1
<1>6. ASSUME n \in clean'
      PROVE  /\ file[n] \in Seq(Ads) /\ file[n] # Unreadable /\ ads'[n] = file[n] /\ CleanNode(n)
             /\ ~Writing(n)
             /\ \A t \in Recorders : thread[n][t] # Idle => Range(ads[n]) \subseteq Range(file[n]) \cup {thread[n][t].ad}
             /\ Quiet(n) => file[n] = ads[n]
  <2>1. n \in clean /\ ~Writing(n) /\ CleanNode(n)
    BY <1>1, <1>6 DEF IInv, Persisted
  <2>2. ads[n] \in Seq(Ads) /\ Unreadable \notin Seq(Ads)
    BY AdsAssumption DEF IInv, Shapes
  <2>3. Quiet(n) => file[n] = ads[n]
    BY <2>1 DEF CleanNode
  <2>4. ASSUME NEW t \in Recorders, thread[n][t] # Idle
        PROVE  file[n] # Unreadable /\ Range(ads[n]) \subseteq Range(file[n]) \cup {thread[n][t].ad}
    <3>1. CallPersists(n, t)
      BY <2>1, <2>4 DEF CleanNode
    <3>2. thread[n][t].pc \in {"clone", "truncate", "callback"}
      BY <2>1, <2>4, ThreadFacts DEF IInv, Pcs, Writing, At
    <3> QED  BY <2>2, <3>1, <3>2 DEF CallPersists
  <2>5. file[n] # Unreadable
    BY <2>2, <2>3, <2>4 DEF Quiet
  <2> QED  BY <1>3, <1>4, <2>1, <2>3, <2>4, <2>5 DEF load_ads
<1>7. ASSUME n \in clean' PROVE CleanNode(n)'
  <2>1. Quiet(n)' /\ ads'[n] = file'[n]
    BY <1>1, <1>2, <1>6, <1>7 DEF Quiet
  <2>2. n = Standby => announced' \subseteq Range(file'[n])
    BY <1>1, <1>6, <1>7 DEF CleanNode
  <2> QED  BY <1>2, <2>1, <2>2 DEF CleanNode
<1>8. Once' /\ Persisted'
  <2>1. IsInjective(ads'[n]) /\ (file'[n] # Unreadable => IsInjective(file'[n]))
    BY <1>1, <1>3, <1>4 DEF IInv, Once
  <2>2. \A m \in Nodes : m # n => ads'[m] = ads[m] /\ file'[m] = file[m] /\ thread'[m] = thread[m]
    BY <1>1, <1>2, <1>4
  <2>3. \A t \in Recorders : thread'[n][t] # Idle => IsInjective(thread'[n][t].copy)
    BY <1>2
  <2>4. announced' = announced
    BY <1>1
  <2> QED  BY <1>5, <1>7, <2>1, <2>2, <2>3, <2>4, NodeKeeps
<1>9. Shapes'
  <2>1. crashes' \in 0 .. MaxCrash
    BY <1>1, AdsAssumption DEF IInv, Shapes
  <2>2. posting' \in Seq(Post)
    BY <1>1 DEF IInv, Shapes
  <2>3. failed' \subseteq Range(Voters) \X Ads
    <3>1. CASE n = Standby
      BY <1>1, <3>1 DEF IInv, Shapes, Unposted
    <3>2. CASE n # Standby
      <4>1. n \in Range(Voters)
        BY <3>2, NodeFacts
      <4>2. \A t \in Recorders : thread[n][t] # Idle => thread[n][t].ad \in Ads
        BY ThreadFacts DEF IInv
      <4> QED  BY <1>1, <3>2, <4>1, <4>2 DEF IInv, Shapes
    <3> QED  BY <3>1, <3>2
  <2>4. clean' \subseteq Nodes
    BY <1>5 DEF IInv, Shapes
  <2> QED  BY <1>1, <1>2, <1>4, <2>1, <2>2, <2>3, <2>4 DEF IInv, Shapes
<1>10. Told'
  <2> SUFFICES ASSUME NEW k \in DOMAIN Voters, NEW ad \in announced, Voters[k] \in clean'
               PROVE  \/ <<Voters[k], ad>> \in failed'
                      \/ Due(k, ad)'
                      \/ ad \in Range(ads'[Voters[k]])
    BY <1>1 DEF Told
  <2>1. /\ Voters[k] \in Range(Voters) /\ Voters[k] \in Nodes /\ Voters[k] # Standby
        /\ ad \in Ads /\ failed \subseteq failed'
    BY <1>1, NodeFacts DEF IInv, Shapes
  <2>2. <<Voters[k], ad>> \in failed \/ Due(k, ad) \/ ad \in Range(ads[Voters[k]])
    BY <1>5 DEF IInv, Told
  <2>3. CASE n = Standby
    <3>1. ads'[Voters[k]] = ads[Voters[k]]
      BY <1>4, <2>1, <2>3
    <3>2. ASSUME Due(k, ad) PROVE <<Voters[k], ad>> \in failed'
      <4>1. PICK i \in DOMAIN posting : posting[i].ad = ad /\ posting[i].next <= k
        BY <3>2 DEF Due
      <4>2. posting[i].next \in DOMAIN Voters
        BY PostTo DEF IInv
      <4>3. k >= posting[i].next
        BY <4>1, <4>2, AdsAssumption
      <4>4. <<Voters[k], ad>> \in Range(Voters) \X Ads
        BY <2>1
      <4>5. <<Voters[k], ad>> \in Unposted
        BY <4>1, <4>3, <4>4 DEF Unposted
      <4> QED  BY <1>1, <2>3, <4>5
    <3> QED  BY <2>1, <2>2, <3>1, <3>2
  <2>4. CASE n # Standby
    <3>1. Due(k, ad) => Due(k, ad)'
      BY <1>1, <2>4 DEF Due
    <3>2. ASSUME Voters[k] = n, ad \in Range(ads[n])
          PROVE  <<Voters[k], ad>> \in failed' \/ ad \in Range(ads'[n])
      <4>1. CASE Quiet(n)
        BY <1>6, <3>2, <4>1
      <4>2. CASE ~Quiet(n)
        <5>1. PICK t \in Recorders : thread[n][t] # Idle
          BY <4>2 DEF Quiet
        <5>2. ad \in Range(file[n]) \/ ad = thread[n][t].ad
          BY <1>6, <3>2, <5>1
        <5>3. ad = thread[n][t].ad => <<n, ad>> \in failed'
          BY <1>1, <2>4, <5>1
        <5> QED  BY <1>6, <3>2, <5>2, <5>3
      <4> QED  BY <4>1, <4>2
    <3>3. Voters[k] # n => ads'[Voters[k]] = ads[Voters[k]]
      BY <1>4, <2>1
    <3> QED  BY <2>1, <2>2, <3>1, <3>2, <3>3
  <2> QED  BY <2>3, <2>4
<1> QED  BY <1>8, <1>9, <1>10 DEF IInv

-----------------------------------------------------------------------------
(***************************************************************************)
(* The theorems.                                                           *)
(***************************************************************************)

\* Initially nothing is recorded, on disk or announced.
LEMMA InitOK == Init => IInv
<1> SUFFICES ASSUME Init PROVE IInv
  OBVIOUS
<1>1. /\ file = [n \in Nodes |-> <<>>] /\ thread = [n \in Nodes |-> [t \in Recorders |-> Idle]]
      /\ posting = <<>> /\ announced = {} /\ failed = {} /\ clean = Nodes /\ calls = 0 /\ crashes = 0
      /\ ads = [n \in Nodes |-> load_ads(file[n])]
  BY DEF Init
<1>2. /\ <<>> \in Seq(Ads) /\ Unreadable # <<>> /\ load_ads(<<>>) = <<>> /\ IsInjective(<<>>)
  <2>1. <<>> \in Seq(Ads) /\ IsInjective(<<>>)
    BY DEF IsInjective
  <2>2. Unreadable # <<>>
    BY <2>1, AdsAssumption
  <2> QED  BY <2>1, <2>2 DEF load_ads
<1>3. ads = file
  BY <1>1, <1>2
<1>4. \A n \in Nodes : ads[n] = <<>> /\ file[n] = <<>> /\ \A t \in Recorders : thread[n][t] = Idle
  BY <1>1, <1>3
<1>5. Shapes
  BY <1>1, <1>2, <1>3, AdsAssumption DEF Shapes
<1>6. Once
  BY <1>2, <1>4 DEF Once
<1>7. Persisted
  BY <1>1, <1>4 DEF Persisted, CleanNode
<1>8. Told
  BY <1>1 DEF Told
<1> QED  BY <1>5, <1>6, <1>7, <1>8 DEF IInv

\* Every step of record_ad, of a task and of a restart keeps the invariant.
LEMMA NextOK == IInv /\ [Next]_vars => IInv'
<1> SUFFICES ASSUME IInv, [Next]_vars PROVE IInv'
  OBVIOUS
<1>1. CASE \E t \in Recorders, ad \in Ads : snapshot_done(t, ad)
  BY <1>1, SnapshotDoneOK
<1>2. CASE \E n \in Nodes, t \in Recorders :
               \/ persist_clone(n, t) \/ persist_truncate(n, t) \/ persist_write(n, t)
               \/ persist_error(n, t) \/ callback(n, t)
  BY <1>2, PersistOK, CallbackOK
<1>3. CASE \E i \in DOMAIN posting : post_error(i) \/ \E t \in Recorders : post(i, t)
  BY <1>3, PostErrorOK, PostOK
<1>4. CASE \E n \in Nodes : Restart(n)
  BY <1>4, RestartOK
<1>5. CASE UNCHANGED vars
  <2>1. UNCHANGED <<ads, file, thread, posting, announced, failed, clean, calls, crashes>>
    BY <1>5 DEF vars
  <2>2. Shapes'
    BY <2>1 DEF IInv, Shapes
  <2>3. Once'
    BY <2>1 DEF IInv, Once
  <2>4. ASSUME NEW m \in clean PROVE CleanNode(m)'
    <3>1. m \in Nodes /\ CleanNode(m)
      BY DEF IInv, Persisted, Shapes
    <3> QED  BY <2>1, <3>1, CleanStays
  <2>5. Persisted'
    BY <2>1, <2>4 DEF Persisted
  <2>6. Told'
    BY <2>1, ToldStays
  <2> QED  BY <2>2, <2>3, <2>5, <2>6 DEF IInv
<1> QED  BY <1>1, <1>2, <1>3, <1>4, <1>5 DEF Next

\* IInv holds in every state that record_ad, publish_snapshot_ad and restarts reach.
THEOREM Inductive == Spec => []IInv
BY InitOK, NextOK, PTL DEF Spec

\* The list, the file, the calls and the tasks keep their types (record_ad,
\* persist_ads, load_ads, publish_snapshot_ad).
THEOREM TypeCorrect == Spec => []TypeOK
<1>1. IInv => TypeOK
  <2> SUFFICES ASSUME IInv PROVE TypeOK
    OBVIOUS
  <2>1. \A n \in Nodes : IsFile(file[n])
    BY DEF IInv, Shapes, IsFile
  <2>2. \A n \in Nodes, t \in Recorders : thread[n][t] # Idle =>
            thread[n][t].pc \in Pcs /\ thread[n][t].ad \in Ads /\ thread[n][t].copy \in Seq(Ads)
    BY ThreadFacts DEF IInv
  <2>3. \A p \in Range(posting) : p.ad \in Ads /\ p.next \in DOMAIN Voters
    BY PostTo DEF IInv, Range
  <2> QED  BY <2>1, <2>2, <2>3 DEF IInv, Shapes, TypeOK
<1> QED  BY <1>1, Inductive, PTL

\* An ad is listed once, in memory and on disk, however often it is recorded
\* (ads.retain and ads.push of record_ad).
THEOREM ListsAreSets == Spec => []ListedOnce
<1>1. IInv => ListedOnce
  BY DEF IInv, Once, ListedOnce
<1> QED  BY <1>1, Inductive, PTL

\* What on_snapshot_ready has been told of survives a restart of the Standby
\* (record_ad persists before it calls back).
THEOREM AnnouncedOnDisk == Spec => []AnnouncedIsPersisted
<1>1. IInv => AnnouncedIsPersisted
  <2> SUFFICES ASSUME IInv, Standby \in clean, ~Writing(Standby)
               PROVE  announced \subseteq Range(load_ads(file[Standby]))
    BY DEF AnnouncedIsPersisted
  <2>1. CleanNode(Standby) /\ Standby \in Nodes
    BY NodeFacts DEF IInv, Persisted
  <2>2. announced \subseteq Range(file[Standby])
    BY <2>1 DEF CleanNode
  <2>3. file[Standby] # Unreadable
    <3>1. CASE Quiet(Standby)
      BY <2>1, <3>1, AdsAssumption DEF CleanNode, IInv, Shapes
    <3>2. CASE ~Quiet(Standby)
      <4>1. PICK t \in Recorders : thread[Standby][t] # Idle
        BY <3>2 DEF Quiet
      <4>2. CallPersists(Standby, t)
        BY <2>1, <4>1 DEF CleanNode
      <4>3. thread[Standby][t].pc \in {"clone", "truncate", "callback"}
        BY <2>1, <4>1, ThreadFacts DEF IInv, Pcs, Writing, At
      <4> QED  BY <2>1, <4>2, <4>3, AdsAssumption DEF CallPersists, IInv, Shapes
    <3> QED  BY <3>1, <3>2
  <2> QED  BY <2>2, <2>3 DEF load_ads
<1> QED  BY <1>1, Inductive, PTL

\* When the tasks have posted, a voter lists every announced ad, in memory and on
\* disk, unless its post failed (publish_snapshot_ad, admin_post_snapshot_ad).
THEOREM VotersLearn == Spec => []VotersTold
<1>1. IInv => VotersTold
  <2> SUFFICES ASSUME IInv, posting = <<>>, NEW v \in Range(Voters) \cap clean, NEW ad \in announced,
                      Quiet(v), <<v, ad>> \notin failed
               PROVE  ad \in Range(ads[v]) \cap Range(load_ads(file[v]))
    BY DEF VotersTold
  <2>1. PICK k \in DOMAIN Voters : Voters[k] = v
    BY DEF Range
  <2>2. ~Due(k, ad)
    BY DEF Due
  <2>3. ad \in Range(ads[v])
    BY <2>1, <2>2 DEF IInv, Told
  <2>4. v \in Nodes /\ CleanNode(v)
    BY DEF IInv, Persisted, Shapes
  <2>5. file[v] = ads[v] /\ ads[v] \in Seq(Ads)
    BY <2>4 DEF CleanNode, IInv, Shapes
  <2>6. load_ads(file[v]) = ads[v]
    BY <2>5, AdsAssumption DEF load_ads
  <2> QED  BY <2>3, <2>6
<1> QED  BY <1>1, Inductive, PTL
=============================================================================
