------------------------ MODULE SnapshotCatalog_proofs ------------------------
(***************************************************************************)
(* Proofs about SnapshotCatalog: for any number of writers, readers and    *)
(* indices, two writes of one index among them, a read returns whole bytes *)
(* of one write, concurrent prunes, errors and kills leave the newest      *)
(* acknowledged snapshot readable outside the entries they have cut short, *)
(* and prunes keep the bound on the number of entries.                     *)
(***************************************************************************)
EXTENDS SnapshotCatalog, FiniteSetTheorems, TLAPS

(***************************************************************************)
(* The inductive invariant.                                                *)
(***************************************************************************)
DirRec  == [exists : BOOLEAN, data : File, meta : File]
ScanRec == [todo : SUBSET Indices, look : Indices \cup {0}, found : SUBSET (Indices \X Writers)]

\* A write that has begun has its index for good.
Wrote(w, i) == pc[w] # "idle" /\ target[w] = i

Shapes ==
    /\ dirs \in [Indices -> DirRec]
    /\ pc \in [Threads -> WriterSteps \cup ReaderSteps \cup {"killed"}]
    /\ \A w \in Writers : pc[w] \in WriterSteps \cup {"idle", "killed"}
    /\ \A r \in Readers : pc[r] \in ReaderSteps
    /\ target \in [Threads -> Indices \cup {0}]
    /\ \A w \in Writers : pc[w] # "idle" => target[w] \in Indices
    /\ scan \in [Threads -> ScanRec]
    /\ victims \in [Writers -> SUBSET (Indices \X (Names \cup {"dir"}))]
    /\ DOMAIN result = Threads
    /\ acked \subseteq Indices \X Writers
    /\ spoiled \subseteq Indices
    /\ faults \in 0 .. MaxFaults

\* Bytes in an entry, hashes a list has read and bytes a read has returned are
\* those of a write to that index.
Origins ==
    /\ \A i \in Indices, w \in Writers :
           dirs[i].data = w \/ dirs[i].meta = w => Wrote(w, i)
    /\ \A t \in Threads : \A i \in Indices, w \in Writers :
           <<i, w>> \in scan[t].found => Wrote(w, i)
    /\ \A r \in Readers :
           pc[r] = "idle" /\ result[r] \notin {Absent, "none", "err"} =>
               result[r] \in Writers /\ Wrote(result[r], target[r])

Active(w) == pc[w] \notin {"idle", "returned", "killed"}

\* The write has not written its meta.json yet.
Early(w) == pc[w] \in {"data_create", "data_write", "meta_create", "meta_write"}

\* Two writes work on the files of one entry only if the entry is spoiled.
Exclusive ==
    \A v, w \in Writers :
        Midway(v) /\ Midway(w) /\ target[v] = target[w] /\ v # w => target[w] \in spoiled

\* An open file is as its writer has created it, or gone.
OpenFiles ==
    /\ \A w \in detached : w \in Writers /\ pc[w] \in {"data_write", "meta_write"}
    /\ \A w \in Writers : target[w] \notin spoiled =>
          LET d == dirs[target[w]]
              c == IF w \in detached THEN Absent ELSE Partial
          IN  /\ pc[w] = "data_write" => d.data = c
              /\ pc[w] = "meta_write" => d.meta = c

\* Someone is about to complete a meta.json that does not decode.
PartialIsOwned ==
    \A i \in Indices \ spoiled : dirs[i].meta \in {Partial, Mixed} =>
        \E w \in Writers : pc[w] = "meta_write" /\ target[w] = i

Orderly == Exclusive /\ OpenFiles /\ PartialIsOwned

\* How far a write has come whose files nobody removes.
Intact(w) ==
    /\ dirs[target[w]].exists
    /\ w \notin detached
    /\ pc[w] \in {"meta_create", "meta_write"} => dirs[target[w]].data = w

\* m is at or above everything that was ever listed, so that no prune reaches
\* it; its entry is spoiled, complete or being written again.
Newest(m) ==
    /\ \A i \in Indices : dirs[i].meta \in Writers => i <= m
    /\ \A t \in Threads : \A i \in Found(t) : i <= m
    /\ \A a \in acked : a[1] <= m
    /\ \A w \in Writers : \A v \in victims[w] : v[1] < m
    /\ \A w \in Writers : Active(w) /\ ~Early(w) => target[w] <= m
    /\ \A w \in Writers : Early(w) /\ m <= target[w] /\ target[w] \notin spoiled => Intact(w)
    /\ m \in Indices =>
          m \in spoiled \/ Complete(m) \/ \E w \in Writers : Midway(w) /\ target[w] = m

Kept == \E m \in Indices \cup {0} : Newest(m)

Listable == {i \in Indices : dirs[i].meta # Absent}
ToRemove(w) == {i \in Indices : <<i, "meta">> \in victims[w]}

\* A prune that will bring the number of entries within bounds.
WillPrune(w) ==
    \/ Early(w) \/ pc[w] = "sha256"
    \/ pc[w] = "prune_list" /\ Listable \subseteq scan[w].todo \cup {scan[w].look} \cup Found(w)
    \/ pc[w] = "remove" /\ Cardinality(Listable \ ToRemove(w)) <= keep

Bounded ==
    faults = 0 /\ AllOk =>
        Cardinality(Listable) <= keep \/ \E w \in Writers : WillPrune(w)

IInv == Shapes /\ Origins /\ Orderly /\ Kept /\ Bounded

-----------------------------------------------------------------------------
(***************************************************************************)
(* Finite sets of numbers.                                                 *)
(***************************************************************************)
\* A non-empty set of naturals has a least element.
LEMMA LeastNat ==
    ASSUME NEW T \in SUBSET Nat, T # {}
    PROVE  \E x \in T : \A y \in T : x <= y
  <1>1. PICK x \in T : \A y \in T : ~(<<y, x>> \in OpToRel(<, Nat))
    BY WFMin, NatLessThanWellFounded, Zenon
  <1>2. OpToRel(<, Nat) = {ss \in Nat \X Nat : ss[1] < ss[2]}
    BY Zenon DEF OpToRel
  <1>3. ASSUME NEW y \in T PROVE x <= y
    <2>1. ~(<<y, x>> \in {ss \in Nat \X Nat : ss[1] < ss[2]})
      BY <1>1, <1>2, Zenon
    <2> QED
      BY <2>1
  <1> QED
    BY <1>3

\* A non-empty finite set of naturals has a largest element, which is its Max:
\* the element with the fewest above it.
LEMMA MaxOfFinite ==
    ASSUME NEW S \in SUBSET Nat, S # {}, IsFiniteSet(S)
    PROVE  Max(S) \in S /\ \A y \in S : Max(S) >= y
  <1> DEFINE Above(x) == {y \in S : y > x}
  <1> DEFINE T == {Cardinality(Above(x)) : x \in S}
  <1>1. \A x \in S : IsFiniteSet(Above(x)) /\ Cardinality(Above(x)) \in Nat
    <2> SUFFICES ASSUME NEW x \in S
                 PROVE  IsFiniteSet(Above(x)) /\ Cardinality(Above(x)) \in Nat
      OBVIOUS
    <2>1. Above(x) \in SUBSET S
      OBVIOUS
    <2> HIDE DEF Above
    <2> QED
      BY <2>1, FS_Subset, FS_CardinalityType
  <1>2. T \in SUBSET Nat /\ T # {}
    <2> HIDE DEF Above
    <2> QED
      BY <1>1
  <1>3. PICK n \in T : \A k \in T : n <= k
    <2> HIDE DEF T
    <2> QED
      BY <1>2, LeastNat
  <1>4. PICK x \in S : \A y \in S : Cardinality(Above(x)) <= Cardinality(Above(y))
    <2> HIDE DEF Above
    <2> QED
      BY <1>3
  <1>5. \A y \in S : x >= y
    <2> SUFFICES ASSUME NEW y \in S, ~(x >= y) PROVE FALSE
      OBVIOUS
    <2>1. Above(y) \in SUBSET Above(x) /\ y \in Above(x) /\ y \notin Above(y)
      <3>1. x \in Nat /\ y \in Nat /\ x < y
        OBVIOUS
      <3>2. \A z \in S : z \in Nat /\ (z > y => z > x)
        BY <3>1
      <3>3. y \in Above(x) /\ y \notin Above(y)
        BY <3>1
      <3>4. \A z \in Above(y) : z \in Above(x)
        BY <3>2
      <3> HIDE DEF Above
      <3> QED
        BY <3>3, <3>4
    <2> HIDE DEF Above
    <2>2. Cardinality(Above(y)) <= Cardinality(Above(x))
          /\ Cardinality(Above(x)) # Cardinality(Above(y))
      BY <1>1, <2>1, FS_Subset
    <2> QED
      BY <1>1, <1>4, <2>2
  <1> QED
    BY <1>4, <1>5 DEF Max

\* What prune leaves of the entries it has listed is at most keep entries.
LEMMA NewestAreFew ==
    ASSUME NEW F \in SUBSET Indices
    PROVE  Cardinality(F \ Oldest(F)) <= keep
  <1> DEFINE K == F \ Oldest(F)
  <1> DEFINE Above(x) == {j \in F : j > x}
  <1>1. F \in SUBSET Nat /\ IsFiniteSet(F) /\ keep \in Nat \ {0}
    BY CatalogAssumption, FS_Subset
  <1>2. K \in SUBSET F /\ IsFiniteSet(K) /\ Cardinality(K) \in Nat
    <2>1. K \in SUBSET F
      OBVIOUS
    <2> HIDE DEF K
    <2> QED
      BY <1>1, <2>1, FS_Subset, FS_CardinalityType
  <1>3. \A x \in F : IsFiniteSet(Above(x)) /\ Cardinality(Above(x)) \in Nat
    <2> SUFFICES ASSUME NEW x \in F
                 PROVE  IsFiniteSet(Above(x)) /\ Cardinality(Above(x)) \in Nat
      OBVIOUS
    <2>1. Above(x) \in SUBSET F
      OBVIOUS
    <2> HIDE DEF Above
    <2> QED
      BY <1>1, <2>1, FS_Subset, FS_CardinalityType
  <1>4. CASE K = {}
    BY <1>1, <1>4, FS_EmptySet
  <1>5. CASE K # {}
    <2>1. PICK x \in K : \A y \in K : x <= y
      <3> HIDE DEF K
      <3> QED
        BY <1>1, <1>2, <1>5, LeastNat
    <2>2. x \in F /\ ~(Cardinality(Above(x)) >= keep)
      BY DEF Oldest
    <2>3. K \ {x} \in SUBSET Above(x)
      <3>1. \A y \in K : y \in F /\ y \in Nat /\ x \in Nat /\ x <= y
        BY <1>1, <1>2, <2>1
      <3>2. \A y \in K \ {x} : y \in F /\ y > x
        BY <3>1
      <3> HIDE DEF K
      <3> QED
        BY <3>2
    <2> HIDE DEF K, Above
    <2>4. Cardinality(K \ {x}) <= Cardinality(Above(x))
      BY <1>3, <2>2, <2>3, FS_Subset
    <2>5. Cardinality(K \ {x}) = Cardinality(K) - 1
      BY <1>2, FS_RemoveElement
    <2>6. Cardinality(K) <= keep
      BY <1>1, <1>2, <1>3, <2>2, <2>4, <2>5
    <2> QED
      BY <2>6 DEF K
  <1> QED
    BY <1>4, <1>5

-----------------------------------------------------------------------------
(***************************************************************************)
(* Initially.                                                              *)
(***************************************************************************)
\* An empty catalog.
LEMMA InitIInv == Init => IInv
  <1> SUFFICES ASSUME Init PROVE IInv
    OBVIOUS
  <1>1. Shapes
    <2>1. NoDir \in DirRec
      BY DEF NoDir, DirRec, File
    <2>2. NoScan \in ScanRec
      BY DEF NoScan, ScanRec
    <2> QED
      BY <2>1, <2>2, CatalogAssumption
         DEF Init, Shapes, WriterSteps, ReaderSteps, Threads
  <1>2. \A i \in Indices : dirs[i].data = Absent /\ dirs[i].meta = Absent
    BY DEF Init, NoDir
  <1>3. \A t \in Threads : pc[t] = "idle" /\ scan[t].found = {} /\ result[t] = Absent
    BY DEF Init, NoScan
  <1>4. Writers \subseteq Threads /\ Readers \subseteq Threads
    BY DEF Threads
  <1>5. Origins
    BY <1>2, <1>3, <1>4, CatalogAssumption DEF Origins
  <1>6. \A w \in Writers : ~Active(w) /\ ~Early(w) /\ ~Midway(w)
    BY <1>3, <1>4 DEF Active, Early, Midway
  <1>7. Orderly
    <2>1. detached = {}
      BY DEF Init
    <2> QED
      BY <1>2, <1>3, <1>4, <1>6, <2>1, CatalogAssumption
         DEF Orderly, Exclusive, OpenFiles, PartialIsOwned
  <1>8. Newest(0)
    <2>1. 0 \notin Indices /\ Absent \notin Writers
      BY CatalogAssumption
    <2>2. \A t \in Threads : Found(t) = {}
      BY <1>3 DEF Found
    <2>3. acked = {} /\ \A w \in Writers : victims[w] = {}
      BY DEF Init
    <2> QED
      BY <1>2, <1>6, <2>1, <2>2, <2>3 DEF Newest
  <1>9. Kept
    BY <1>8 DEF Kept
  <1>10. Bounded
    <2>1. Listable = {}
      BY <1>2 DEF Listable
    <2> QED
      BY <2>1, FS_EmptySet, CatalogAssumption DEF Bounded
  <1> QED
    BY <1>1, <1>5, <1>7, <1>9, <1>10 DEF IInv

-----------------------------------------------------------------------------
(***************************************************************************)
(* Shapes.                                                                 *)
(***************************************************************************)
Pcs == WriterSteps \cup ReaderSteps \cup {"killed"}

\* One thread goes on to a step of its kind.
LEMMA PcMoves ==
    ASSUME Shapes, NEW t \in Threads, NEW x, pc' = [pc EXCEPT ![t] = x],
           t \in Writers => x \in WriterSteps,
           t \in Readers => x \in ReaderSteps
    PROVE  /\ pc' \in [Threads -> Pcs]
           /\ \A w \in Writers : pc'[w] \in WriterSteps \cup {"idle", "killed"}
           /\ \A r \in Readers : pc'[r] \in ReaderSteps
           /\ \A u \in Threads : pc'[u] = IF u = t THEN x ELSE pc[u]
  <1>1. x \in Pcs /\ pc \in [Threads -> Pcs]
    BY DEF Pcs, Threads, Shapes
  <1>2. \A u \in Threads : pc'[u] = IF u = t THEN x ELSE pc[u]
    BY <1>1
  <1>3. pc' \in [Threads -> Pcs]
    BY <1>1
  <1>4. Writers \subseteq Threads /\ Readers \subseteq Threads
    BY DEF Threads
  <1> QED
    BY <1>2, <1>3, <1>4 DEF Shapes

\* A call returns.
LEMMA ReturnMoves ==
    ASSUME Shapes, NEW t \in Threads, NEW res, Returned(t, res)
    PROVE  /\ pc' \in [Threads -> Pcs]
           /\ \A w \in Writers : pc'[w] \in WriterSteps \cup {"idle", "killed"}
           /\ \A r \in Readers : pc'[r] \in ReaderSteps
           /\ \A u \in Threads :
                  pc'[u] = IF u = t THEN IF t \in Writers THEN "returned" ELSE "idle" ELSE pc[u]
           /\ DOMAIN result' = Threads
           /\ \A u \in Threads : result'[u] = IF u = t THEN res ELSE result[u]
  <1> DEFINE x == IF t \in Writers THEN "returned" ELSE "idle"
  <1>1. pc' = [pc EXCEPT ![t] = x]
    BY DEF Returned
  <1>2. (t \in Writers => x \in WriterSteps) /\ (t \in Readers => x \in ReaderSteps)
    BY CatalogAssumption DEF WriterSteps, ReaderSteps
  <1> HIDE DEF x
  <1>3. /\ pc' \in [Threads -> Pcs]
        /\ \A w \in Writers : pc'[w] \in WriterSteps \cup {"idle", "killed"}
        /\ \A r \in Readers : pc'[r] \in ReaderSteps
        /\ \A u \in Threads : pc'[u] = IF u = t THEN x ELSE pc[u]
    BY <1>1, <1>2, PcMoves
  <1>4. result' = [result EXCEPT ![t] = res] /\ DOMAIN result = Threads
    BY DEF Returned, Shapes
  <1>5. DOMAIN result' = Threads /\ \A u \in Threads : result'[u] = IF u = t THEN res ELSE result[u]
    BY <1>4
  <1> QED
    BY <1>3, <1>5 DEF x

\* A list goes on, or ends.
LEMMA ScanMoves ==
    ASSUME Shapes, NEW t \in Threads, NEW s \in ScanRec, scan' = [scan EXCEPT ![t] = s]
    PROVE  /\ scan' \in [Threads -> ScanRec]
           /\ \A u \in Threads : scan'[u] = IF u = t THEN s ELSE scan[u]
  BY DEF Shapes

\* A list begins, or is over.
LEMMA ScanRecs ==
    /\ NoScan \in ScanRec /\ NoScan.found = {}
    /\ [todo |-> Indices, look |-> 0, found |-> {}] \in ScanRec
  BY DEF NoScan, ScanRec

-----------------------------------------------------------------------------
(***************************************************************************)
(* Steps that read: of readers, and of writers that list the catalog.      *)
(***************************************************************************)
\* Writes that have begun are never forgotten.
WroteStays == \A w \in Writers, i \in Indices \cup {0} : Wrote(w, i) => Wrote(w, i)'

\* A list finds what is in meta.json files.
FindsMetas ==
    \A t \in Threads : \A i \in Indices, w \in Writers :
        <<i, w>> \in scan'[t].found => <<i, w>> \in scan[t].found \/ dirs[i].meta = w

\* The bytes a read returns are what an earlier write of its index wrote.
ReadsBytes ==
    \A r \in Readers : pc'[r] = "idle" =>
        \/ pc[r] = "idle" /\ result'[r] = result[r] /\ target'[r] = target[r]
        \/ result'[r] \in {Absent, "none", "err"}
        \/ result'[r] \in Writers /\ target'[r] \in Indices /\ Wrote(result'[r], target'[r])

\* Where bytes come from stays true.
LEMMA OriginsStay ==
    ASSUME Shapes, Origins, Shapes', WroteStays, FindsMetas, ReadsBytes,
           \A i \in Indices, w \in Writers :
               dirs'[i].data = w \/ dirs'[i].meta = w => Wrote(w, i)'
    PROVE  Origins'
  <1>1. \A t \in Threads : \A i \in Indices, w \in Writers :
            <<i, w>> \in scan'[t].found => Wrote(w, i)'
    BY DEF Origins, WroteStays, FindsMetas
  <1>2. \A r \in Readers :
            pc'[r] = "idle" /\ result'[r] \notin {Absent, "none", "err"} =>
                result'[r] \in Writers /\ (\A x : x = result'[r] => Wrote(x, target[r])')
    <2> SUFFICES ASSUME NEW r \in Readers, pc'[r] = "idle",
                        result'[r] \notin {Absent, "none", "err"},
                        NEW x, x = result'[r]
                 PROVE  x \in Writers /\ Wrote(x, target[r])'
      OBVIOUS
    <2>1. target'[r] \in Indices \cup {0}
      BY DEF Threads, Shapes
    <2>2. x \in Writers /\ Wrote(x, target'[r])
      BY DEF ReadsBytes, Origins
    <2> QED
      BY <2>1, <2>2 DEF WroteStays, Wrote
  <1> QED
    BY <1>1, <1>2 DEF Origins, Wrote

\* The files, the prunes and the writers' steps are left alone.
LEMMA ScanStep ==
    ASSUME IInv, Shapes', UNCHANGED <<dirs, victims, detached, acked, spoiled, faults>>,
           \A w \in Writers :
               pc'[w] = pc[w] /\ target'[w] = target[w] /\ result'[w] = result[w],
           FindsMetas, ReadsBytes,
           \A w \in Writers : WillPrune(w) => WillPrune(w)'
    PROVE  IInv'
  <1>1. \A w \in Writers : /\ Active(w)' <=> Active(w)
                           /\ Early(w)' <=> Early(w)
                           /\ Midway(w)' <=> Midway(w)
                           /\ Intact(w)' <=> Intact(w)
    BY DEF Active, Early, Midway, Intact
  <1>2. WroteStays
    BY DEF WroteStays, Wrote
  <1>3. Origins'
    <2>1. \A i \in Indices, w \in Writers :
              dirs'[i].data = w \/ dirs'[i].meta = w => Wrote(w, i)'
      BY <1>2 DEF IInv, Origins, WroteStays
    <2> QED
      BY <1>2, <2>1, OriginsStay DEF IInv
  <1>4. Orderly'
    BY <1>1 DEF IInv, Orderly, Exclusive, OpenFiles, PartialIsOwned
  <1>5. Kept'
    <2> SUFFICES ASSUME NEW m \in Indices \cup {0}, Newest(m)
                 PROVE  \A n : n = m => Newest(n)'
      BY DEF Kept, IInv
    <2> TAKE n
    <2> HAVE n = m
    <2>1. \A t \in Threads : \A i \in Found(t)' : i <= n
      <3> SUFFICES ASSUME NEW t \in Threads, NEW q \in scan'[t].found PROVE q[1] <= n
        BY DEF Found
      <3>1. q \in Indices \X Writers
        BY DEF Shapes, ScanRec
      <3>2. PICK i \in Indices, w \in Writers : q = <<i, w>>
        BY <3>1
      <3>3. <<i, w>> \in scan[t].found \/ dirs[i].meta = w
        BY <3>2 DEF FindsMetas
      <3>4. <<i, w>> \in scan[t].found => i \in Found(t)
        BY DEF Found
      <3> QED
        BY <3>2, <3>3, <3>4 DEF Newest
    <2>2. Complete(m)' <=> Complete(m)
      BY DEF Complete
    <2> QED
      BY <1>1, <2>1, <2>2 DEF Newest
  <1>6. Bounded'
    <2>1. Listable' = Listable /\ (AllOk' => AllOk)
      BY DEF Listable, AllOk
    <2> QED
      BY <2>1 DEF IInv, Bounded
  <1> QED
    BY <1>3, <1>4, <1>5, <1>6 DEF IInv

\* list looks at the next directory.
LEMMA ListExistsStep ==
    ASSUME IInv, NEW t \in Threads, list_exists(t)
    PROVE  IInv'
  <1>1. PICK i \in scan[t].todo :
            scan' = [scan EXCEPT ![t] = [todo  |-> scan[t].todo \ {i},
                                         look  |-> IF dirs[i].meta = Absent THEN 0 ELSE i,
                                         found |-> scan[t].found]]
    BY DEF list_exists, history
  <1> DEFINE s == [todo  |-> scan[t].todo \ {i},
                   look  |-> IF dirs[i].meta = Absent THEN 0 ELSE i,
                   found |-> scan[t].found]
  <1>2. scan[t] \in ScanRec /\ i \in Indices
    BY DEF IInv, Shapes, ScanRec
  <1>3. s \in ScanRec /\ s.found = scan[t].found /\ s.todo = scan[t].todo \ {i}
        /\ s.look = IF dirs[i].meta = Absent THEN 0 ELSE i
    BY <1>2 DEF ScanRec
  <1>4. scan' = [scan EXCEPT ![t] = s]
    BY <1>1
  <1> HIDE DEF s
  <1>5. scan' \in [Threads -> ScanRec] /\ \A u \in Threads : scan'[u] = IF u = t THEN s ELSE scan[u]
    BY <1>3, <1>4, ScanMoves DEF IInv
  <1>6. scan[t].look = 0 /\ UNCHANGED <<dirs, pc, target, victims, result, detached, acked, spoiled, faults>>
    BY DEF list_exists, history
  <1>7. Shapes'
    BY <1>5, <1>6 DEF IInv, Shapes
  <1>8. FindsMetas
    BY <1>3, <1>5 DEF FindsMetas
  <1>9. ReadsBytes
    BY <1>6 DEF ReadsBytes
  <1>10. \A w \in Writers : WillPrune(w) => WillPrune(w)'
    <2> SUFFICES ASSUME NEW w \in Writers, WillPrune(w) PROVE WillPrune(w)'
      OBVIOUS
    <2>1. Listable' = Listable /\ ToRemove(w)' = ToRemove(w) /\ w \in Threads
      BY <1>6 DEF Listable, ToRemove, Threads
    <2>2. Found(w)' = Found(w)
      BY <1>3, <1>5, <2>1 DEF Found
    <2>3. CASE w # t
      <3>1. scan'[w] = scan[w]
        BY <1>5, <2>1, <2>3
      <3> QED
        BY <1>6, <2>1, <2>2, <3>1 DEF WillPrune, Early
    <2>4. CASE w = t
      <3>1. ASSUME Listable \subseteq scan[w].todo \cup {scan[w].look} \cup Found(w)
            PROVE  Listable \subseteq scan'[w].todo \cup {scan'[w].look} \cup Found(w)
        <4>1. 0 \notin Listable /\ (dirs[i].meta = Absent => i \notin Listable)
          BY CatalogAssumption DEF Listable
        <4> QED
          BY <1>3, <1>5, <1>6, <2>1, <2>4, <3>1, <4>1
      <3> QED
        BY <1>6, <2>1, <2>2, <3>1 DEF WillPrune, Early
    <2> QED
      BY <2>3, <2>4
  <1>11. \A w \in Writers :
             pc'[w] = pc[w] /\ target'[w] = target[w] /\ result'[w] = result[w]
    BY <1>6
  <1> QED
    BY <1>6, <1>7, <1>8, <1>9, <1>10, <1>11, ScanStep

\* list reads the meta.json it has found.
LEMMA ListReadStep ==
    ASSUME IInv, NEW t \in Threads, list_read(t)
    PROVE  IInv'
  <1> DEFINE i == scan[t].look
  <1> DEFINE s == Seen(scan[t], i)
  <1>1. scan[t] \in ScanRec /\ i \in Indices /\ dirs[i].meta \in Writers
    BY DEF IInv, Shapes, ScanRec, list_read, history
  <1>2. s \in ScanRec /\ s.found = scan[t].found \cup {<<i, dirs[i].meta>>}
        /\ s.todo = scan[t].todo /\ s.look = 0
    BY <1>1 DEF ScanRec, Seen
  <1>3. scan' = [scan EXCEPT ![t] = s]
        /\ UNCHANGED <<dirs, pc, target, victims, result, detached, acked, spoiled, faults>>
    BY DEF list_read, history
  <1> HIDE DEF s
  <1>4. scan' \in [Threads -> ScanRec] /\ \A u \in Threads : scan'[u] = IF u = t THEN s ELSE scan[u]
    BY <1>2, <1>3, ScanMoves DEF IInv
  <1>5. Shapes'
    BY <1>3, <1>4 DEF IInv, Shapes
  <1>6. FindsMetas
    <2> SUFFICES ASSUME NEW u \in Threads, NEW j \in Indices, NEW w \in Writers,
                        <<j, w>> \in scan'[u].found, <<j, w>> \notin scan[u].found
                 PROVE  dirs[j].meta = w
      BY DEF FindsMetas
    <2>1. <<j, w>> = <<i, dirs[i].meta>>
      BY <1>2, <1>4
    <2> QED
      BY <2>1
  <1>7. ReadsBytes
    BY <1>3 DEF ReadsBytes
  <1>8. \A w \in Writers : WillPrune(w) => WillPrune(w)'
    <2> SUFFICES ASSUME NEW w \in Writers, WillPrune(w) PROVE WillPrune(w)'
      OBVIOUS
    <2>1. Listable' = Listable /\ ToRemove(w)' = ToRemove(w) /\ w \in Threads
      BY <1>3 DEF Listable, ToRemove, Threads
    <2>2. CASE w # t
      <3>1. scan'[w] = scan[w] /\ Found(w)' = Found(w)
        BY <1>4, <2>1, <2>2 DEF Found
      <3> QED
        BY <1>3, <2>1, <3>1 DEF WillPrune, Early
    <2>3. CASE w = t
      <3>1. scan'[w] = s
        BY <1>4, <2>1, <2>3
      <3>2. \A q \in scan[w].found : q \in s.found
        BY <1>2, <2>3
      <3>3. <<i, dirs[i].meta>> \in s.found
        BY <1>2
      <3>4. Found(w) \subseteq Found(w)' /\ i \in Found(w)'
        BY <3>1, <3>2, <3>3 DEF Found
      <3>5. ASSUME Listable \subseteq scan[w].todo \cup {scan[w].look} \cup Found(w)
            PROVE  Listable \subseteq scan'[w].todo \cup {scan'[w].look} \cup Found(w)'
        BY <1>2, <2>3, <3>1, <3>4, <3>5
      <3> QED
        BY <1>3, <2>1, <3>5 DEF WillPrune, Early
    <2> QED
      BY <2>2, <2>3
  <1>9. \A w \in Writers :
            pc'[w] = pc[w] /\ target'[w] = target[w] /\ result'[w] = result[w]
    BY <1>3
  <1> QED
    BY <1>3, <1>5, <1>6, <1>7, <1>8, <1>9, ScanStep

\* A reader goes on with a new list, or none, or the one it has.
LEMMA ReaderStep ==
    ASSUME IInv, NEW r \in Readers, UNCHANGED <<dirs, victims, detached, acked, spoiled, faults>>, Shapes',
           \A u \in Threads : u # r => /\ pc'[u] = pc[u] /\ target'[u] = target[u]
                                       /\ result'[u] = result[u] /\ scan'[u] = scan[u],
           scan'[r].found = {} \/ scan'[r].found = scan[r].found,
           ReadsBytes
    PROVE  IInv'
  <1>1. \A w \in Writers : w \in Threads /\ w # r
    BY CatalogAssumption DEF Threads
  <1>2. FindsMetas
    BY DEF FindsMetas
  <1>3. \A w \in Writers : WillPrune(w) => WillPrune(w)'
    <2> SUFFICES ASSUME NEW w \in Writers, WillPrune(w) PROVE WillPrune(w)'
      OBVIOUS
    <2>1. Listable' = Listable /\ ToRemove(w)' = ToRemove(w)
      BY DEF Listable, ToRemove
    <2>2. scan'[w] = scan[w] /\ Found(w)' = Found(w) /\ pc'[w] = pc[w]
      BY <1>1 DEF Found
    <2> QED
      BY <2>1, <2>2 DEF WillPrune, Early
  <1>4. \A w \in Writers :
            pc'[w] = pc[w] /\ target'[w] = target[w] /\ result'[w] = result[w]
    BY <1>1
  <1> QED
    BY <1>2, <1>3, <1>4, ScanStep

\* A reader's call ends without bytes, or with bytes of its index.
LEMMA ReaderReturns ==
    ASSUME IInv, NEW r \in Readers, NEW res, Returned(r, res),
           scan' = [scan EXCEPT ![r] = NoScan],
           res \in {"none", "err"}
               \/ (res \in Writers /\ target[r] \in Indices /\ Wrote(res, target[r])),
           UNCHANGED <<dirs, target, victims, detached, acked, spoiled, faults>>
    PROVE  IInv'
  <1>1. r \in Threads /\ r \notin Writers /\ Readers \subseteq Threads
    BY CatalogAssumption DEF Threads
  <1>2. Shapes
    BY DEF IInv
  <1>3. /\ pc' \in [Threads -> Pcs]
        /\ \A w \in Writers : pc'[w] \in WriterSteps \cup {"idle", "killed"}
        /\ \A q \in Readers : pc'[q] \in ReaderSteps
        /\ \A u \in Threads : pc'[u] = IF u = r THEN "idle" ELSE pc[u]
        /\ DOMAIN result' = Threads
        /\ \A u \in Threads : result'[u] = IF u = r THEN res ELSE result[u]
    BY <1>1, <1>2, ReturnMoves
  <1>4. /\ scan' \in [Threads -> ScanRec]
        /\ \A u \in Threads : scan'[u] = IF u = r THEN NoScan ELSE scan[u]
    BY <1>1, <1>2, ScanMoves, ScanRecs
  <1>5. Shapes'
    <2>1. \A w \in Writers : pc'[w] = pc[w]
      BY <1>1, <1>3 DEF Threads
    <2> QED
      BY <1>2, <1>3, <1>4, <2>1 DEF Shapes, Pcs
  <1>6. ReadsBytes
    BY <1>1, <1>3 DEF ReadsBytes
  <1>7. scan'[r].found = {}
    BY <1>1, <1>4, ScanRecs
  <1>8. \A u \in Threads : u # r => /\ pc'[u] = pc[u] /\ target'[u] = target[u]
                                    /\ result'[u] = result[u] /\ scan'[u] = scan[u]
    BY <1>3, <1>4
  <1> QED
    BY <1>5, <1>6, <1>7, <1>8, ReaderStep

\* A reader begins a list or goes on to load.
LEMMA ReaderGoes ==
    ASSUME IInv, NEW r \in Readers, NEW x \in ReaderSteps \ {"idle"}, Goto(r, x),
           NEW i \in Indices \cup {0}, target' = [target EXCEPT ![r] = i],
           StartScan(r) \/ scan' = scan,
           DOMAIN result' = Threads, \A u \in Threads : u # r => result'[u] = result[u],
           UNCHANGED <<dirs, victims, detached, acked, spoiled, faults>>
    PROVE  IInv'
  <1>1. r \in Threads /\ r \notin Writers /\ Readers \subseteq Threads
    BY CatalogAssumption DEF Threads
  <1>2. Shapes
    BY DEF IInv
  <1>3. /\ pc' \in [Threads -> Pcs]
        /\ \A w \in Writers : pc'[w] \in WriterSteps \cup {"idle", "killed"}
        /\ \A q \in Readers : pc'[q] \in ReaderSteps
        /\ \A u \in Threads : pc'[u] = IF u = r THEN x ELSE pc[u]
    BY <1>1, <1>2, PcMoves DEF Goto
  <1>4. /\ scan' \in [Threads -> ScanRec]
        /\ \A u \in Threads : u # r => scan'[u] = scan[u]
        /\ scan'[r].found = {} \/ scan'[r].found = scan[r].found
    <2>1. CASE scan' = scan
      BY <1>2, <2>1 DEF Shapes
    <2>2. CASE StartScan(r)
      <3> DEFINE s == [todo |-> Indices, look |-> 0, found |-> {}]
      <3>1. s \in ScanRec /\ s.found = {}
        BY ScanRecs
      <3>2. scan' = [scan EXCEPT ![r] = s]
        BY <2>2 DEF StartScan
      <3> HIDE DEF s
      <3> QED
        BY <1>1, <1>2, <3>1, <3>2, ScanMoves
    <2> QED
      BY <2>1, <2>2
  <1>5. target' \in [Threads -> Indices \cup {0}] /\ \A u \in Threads : u # r => target'[u] = target[u]
    BY <1>1, <1>2 DEF Shapes
  <1>6. Shapes'
    <2>1. \A w \in Writers : pc'[w] = pc[w] /\ target'[w] = target[w]
      BY <1>1, <1>3, <1>5 DEF Threads
    <2> QED
      BY <1>2, <1>3, <1>4, <1>5, <2>1 DEF Shapes, Pcs
  <1>7. ReadsBytes
    BY <1>1, <1>3, <1>5 DEF ReadsBytes
  <1>8. \A u \in Threads : u # r => /\ pc'[u] = pc[u] /\ target'[u] = target[u]
                                    /\ result'[u] = result[u] /\ scan'[u] = scan[u]
    BY <1>3, <1>4, <1>5
  <1> QED
    BY <1>4, <1>6, <1>7, <1>8, ReaderStep

\* The steps of latest, find and read.
LEMMA ReadStep ==
    ASSUME IInv, NEW r \in Readers,
           start_latest(r) \/ latest(r) \/ find(r) \/ load(r)
    PROVE  IInv'
  <1>1. r \in Threads /\ Shapes
    BY DEF Threads, IInv
  <1>2. scan[r] \in ScanRec /\ target[r] \in Indices \cup {0} /\ DOMAIN result = Threads
    BY <1>1 DEF Shapes
  <1>3. target' = target => target' = [target EXCEPT ![r] = target[r]]
    BY <1>1 DEF Shapes
  <1>4. {"latest", "find", "load"} \subseteq ReaderSteps \ {"idle"}
    BY DEF ReaderSteps
  <1>5. CASE start_latest(r)
    <2>1. DOMAIN result' = Threads /\ \A u \in Threads : u # r => result'[u] = result[u]
      BY <1>2, <1>5 DEF start_latest, history
    <2>2. Goto(r, "latest") /\ target' = [target EXCEPT ![r] = 0] /\ StartScan(r)
          /\ UNCHANGED <<dirs, victims, detached, acked, spoiled, faults>>
      BY <1>5 DEF start_latest, history
    <2> QED
      BY <1>4, <2>1, <2>2, ReaderGoes
  <1>6. CASE latest(r) /\ Found(r) = {}
    <2>1. Returned(r, "none") /\ scan' = [scan EXCEPT ![r] = NoScan]
          /\ UNCHANGED <<dirs, target, victims, detached, acked, spoiled, faults>>
      BY <1>6 DEF latest, history
    <2> QED
      BY <2>1, ReaderReturns
  <1>7. CASE latest(r) /\ Found(r) # {}
    <2>1. Found(r) \in SUBSET Indices
      BY <1>2 DEF Found, ScanRec
    <2>2. IsFiniteSet(Found(r)) /\ Found(r) \in SUBSET Nat
      BY <2>1, FS_Subset, CatalogAssumption
    <2>3. Max(Found(r)) \in Indices \cup {0}
      BY <1>7, <2>1, <2>2, MaxOfFinite
    <2>4. Goto(r, "find") /\ target' = [target EXCEPT ![r] = Max(Found(r))] /\ StartScan(r)
          /\ UNCHANGED <<dirs, victims, result, detached, acked, spoiled, faults>>
      BY <1>7 DEF latest, history
    <2> QED
      BY <1>2, <1>4, <2>3, <2>4, ReaderGoes
  <1>8. CASE find(r) /\ target[r] \in Found(r)
    <2>1. Goto(r, "load") /\ target' = [target EXCEPT ![r] = target[r]]
          /\ UNCHANGED <<dirs, victims, result, scan, detached, acked, spoiled, faults>>
      BY <1>3, <1>8 DEF find, history
    <2> QED
      BY <1>2, <1>4, <2>1, ReaderGoes
  <1>9. CASE find(r) /\ target[r] \notin Found(r)
    <2>1. Returned(r, "none") /\ scan' = [scan EXCEPT ![r] = NoScan]
          /\ UNCHANGED <<dirs, target, victims, detached, acked, spoiled, faults>>
      BY <1>9 DEF find, history
    <2> QED
      BY <2>1, ReaderReturns
  <1>10. CASE load(r)
    <2> DEFINE data == dirs[target[r]].data
    <2> DEFINE res == IF <<target[r], data>> \in scan[r].found THEN data ELSE "err"
    <2>1. Returned(r, res) /\ scan' = [scan EXCEPT ![r] = NoScan]
          /\ UNCHANGED <<dirs, target, victims, detached, acked, spoiled, faults>>
      BY <1>10 DEF load, history
    <2>2. <<target[r], data>> \in scan[r].found => target[r] \in Indices /\ data \in Writers
      BY <1>2 DEF ScanRec
    <2>3. res = "err" \/ (res \in Writers /\ target[r] \in Indices /\ Wrote(res, target[r]))
      BY <1>1, <2>2 DEF IInv, Origins
    <2> HIDE DEF res
    <2> QED
      BY <2>1, <2>3, ReaderReturns
  <1> QED
    BY <1>5, <1>6, <1>7, <1>8, <1>9, <1>10

-----------------------------------------------------------------------------
(***************************************************************************)
(* Steps of writers.                                                       *)
(***************************************************************************)
\* One writer goes on.  Others have their step, index, list and result.
Moves(w) ==
    \A u \in Threads : u # w => /\ pc'[u] = pc[u] /\ target'[u] = target[u]
                                /\ result'[u] = result[u] /\ scan'[u] = scan[u]

\* A step of a writer that has begun, and does not return: what it leaves alone.
LEMMA WriterFrame ==
    ASSUME IInv, Shapes', NEW w \in Writers, Moves(w), pc'[w] # "idle",
           pc[w] # "idle" => target'[w] = target[w],
           scan'[w].found = {} \/ scan'[w].found = scan[w].found,
           \A i \in Indices, v \in Writers :
               dirs'[i].data = v \/ dirs'[i].meta = v
                   => dirs[i].data = v \/ dirs[i].meta = v \/ (v = w /\ target'[w] = i)
    PROVE  /\ Origins'
           /\ \A v \in Writers : v # w => /\ Active(v)' <=> Active(v)
                                          /\ Early(v)' <=> Early(v)
           /\ \A t \in Threads : Found(t)' \subseteq Found(t)
  <1>1. Writers \subseteq Threads /\ Readers \subseteq Threads /\ w \notin Readers /\ Shapes
    BY CatalogAssumption DEF Threads, IInv
  <1>2. WroteStays
    BY <1>1 DEF WroteStays, Wrote, Moves
  <1>3. FindsMetas
    BY DEF FindsMetas, Moves
  <1>4. ReadsBytes
    BY <1>1 DEF ReadsBytes, Moves
  <1>5. \A i \in Indices, v \in Writers :
            dirs'[i].data = v \/ dirs'[i].meta = v => Wrote(v, i)'
    BY <1>2 DEF IInv, Origins, WroteStays, Wrote
  <1>6. Origins'
    BY <1>1, <1>2, <1>3, <1>4, <1>5, OriginsStay DEF IInv
  <1>7. \A v \in Writers : v # w => /\ Active(v)' <=> Active(v)
                                    /\ Early(v)' <=> Early(v)
    BY <1>1 DEF Active, Early, Moves
  <1>8. \A t \in Threads : Found(t)' \subseteq Found(t)
    <2> SUFFICES ASSUME NEW t \in Threads PROVE Found(t)' \subseteq Found(t)
      OBVIOUS
    <2>1. scan'[t].found = {} \/ scan'[t].found = scan[t].found
      BY DEF Moves
    <2> QED
      BY <2>1 DEF Found
  <1> QED
    BY <1>6, <1>7, <1>8

\* Nobody joins a writer at work on an entry without spoiling it, and a
\* meta.json that does not decode is one of before or of this writer.
LEMMA OrderlyStays ==
    ASSUME IInv, Shapes', NEW w \in Writers, Moves(w), OpenFiles',
           spoiled \subseteq spoiled',
           \A v \in Writers : v # w /\ Midway(v) /\ Midway(w)' /\ target[v] = target'[w]
               => target[v] \in spoiled',
           \A i \in Indices \ spoiled' : dirs'[i].meta \in {Partial, Mixed} =>
               \/ /\ dirs[i].meta \in {Partial, Mixed}
                  /\ ~(pc[w] = "meta_write" /\ target[w] = i)
               \/ pc'[w] = "meta_write" /\ target'[w] = i
    PROVE  Orderly'
  <1>1. Writers \subseteq Threads
    BY DEF Threads
  <1>2. Exclusive /\ PartialIsOwned
    BY DEF IInv, Orderly
  <1>3. \A v \in Writers : v # w => (Midway(v)' <=> Midway(v)) /\ target'[v] = target[v]
    BY <1>1 DEF Moves, Midway
  <1>4. Exclusive'
    BY <1>2, <1>3 DEF Exclusive
  <1>5. PartialIsOwned'
    BY <1>1, <1>2 DEF PartialIsOwned, Moves
  <1> QED
    BY <1>4, <1>5 DEF Orderly

\* The files other writers have open stay as they are, except in a spoiled
\* entry, and the file this writer opens is empty.
LEMMA OpenFilesStay ==
    ASSUME IInv, Shapes', NEW w \in Writers, Moves(w), spoiled \subseteq spoiled',
           detached' = detached \ {w},
           \A v \in Writers :
               v # w /\ pc[v] \in {"data_write", "meta_write"} /\ target[v] \notin spoiled'
                   => /\ dirs'[target[v]].data = dirs[target[v]].data
                      /\ dirs'[target[v]].meta = dirs[target[v]].meta,
           pc'[w] = "data_write" => dirs'[target'[w]].data = Partial,
           pc'[w] = "meta_write" => dirs'[target'[w]].meta = Partial
    PROVE  OpenFiles'
  <1>1. \A v \in Writers : v # w => pc'[v] = pc[v] /\ target'[v] = target[v]
    BY DEF Moves, Threads
  <1>2. OpenFiles
    BY DEF IInv, Orderly
  <1>3. \A v \in detached' : v \in Writers /\ pc'[v] \in {"data_write", "meta_write"}
    BY <1>1, <1>2 DEF OpenFiles
  <1>4. ASSUME NEW v \in Writers, target'[v] \notin spoiled'
        PROVE  LET d == dirs'[target'[v]]
                   c == IF v \in detached' THEN Absent ELSE Partial
               IN  /\ pc'[v] = "data_write" => d.data = c
                   /\ pc'[v] = "meta_write" => d.meta = c
    <2>1. CASE v = w
      BY <2>1
    <2>2. CASE v # w
      <3>1. pc'[v] = pc[v] /\ target'[v] = target[v] /\ target[v] \notin spoiled
            /\ (v \in detached' <=> v \in detached)
        BY <1>1, <1>4, <2>2
      <3> QED
        BY <1>2, <1>4, <2>2, <3>1 DEF OpenFiles
    <2> QED
      BY <2>1, <2>2
  <1> QED
    BY <1>3, <1>4 DEF OpenFiles

\* m stays at or above everything listed, with the entry of m as it should be.
LEMMA NewestStays ==
    ASSUME IInv, Shapes', NEW w \in Writers, Moves(w), NEW m \in Indices \cup {0}, Newest(m),
           spoiled \subseteq spoiled',
           \A t \in Threads : Found(t)' \subseteq Found(t),
           \A i \in Indices : dirs'[i].meta \in Writers => i <= m,
           \A a \in acked' : a[1] <= m,
           \A v \in Writers : \A x \in victims'[v] : x[1] < m,
           Active(w)' /\ ~Early(w)' => target'[w] <= m,
           Early(w)' /\ m <= target'[w] /\ target'[w] \notin spoiled' => Intact(w)',
           \A v \in Writers : v # w /\ Early(v) /\ m <= target[v] /\ target[v] \notin spoiled'
               /\ Intact(v) => Intact(v)',
           m \in Indices => \/ m \in spoiled'
                            \/ Complete(m)'
                            \/ Midway(w)' /\ target'[w] = m
                            \/ \E v \in Writers : v # w /\ Midway(v) /\ target[v] = m
    PROVE  Newest(m)'
  <1>1. Writers \subseteq Threads
    BY DEF Threads
  <1>2. \A v \in Writers : v # w => /\ Active(v)' <=> Active(v)
                                    /\ Early(v)' <=> Early(v)
                                    /\ Midway(v)' <=> Midway(v)
                                    /\ target'[v] = target[v] /\ pc'[v] = pc[v]
    BY <1>1 DEF Moves, Active, Early, Midway
  <1>3. \A v \in Writers : v # w /\ Early(v) /\ m <= target[v] /\ target[v] \notin spoiled'
            => Intact(v)'
    BY DEF Newest
  <1>4. \A v \in Writers : Active(v)' /\ ~Early(v)' => target'[v] <= m
    BY <1>2 DEF Newest
  <1>5. \A v \in Writers : Early(v)' /\ m <= target'[v] /\ target'[v] \notin spoiled'
            => Intact(v)'
    BY <1>2, <1>3
  <1>6. m \in Indices => m \in spoiled' \/ Complete(m)'
                             \/ \E v \in Writers : Midway(v)' /\ target'[v] = m
    BY <1>2
  <1>7. \A t \in Threads : \A i \in Found(t)' : i <= m
    BY DEF Newest
  <1> QED
    BY <1>4, <1>5, <1>6, <1>7 DEF Newest

\* Fewer entries leave less to prune.
LEMMA FewerEntries ==
    ASSUME NEW S \in SUBSET Indices, NEW T \in SUBSET S, Cardinality(S) <= keep
    PROVE  Cardinality(T) <= keep
  <1>1. IsFiniteSet(S) /\ keep \in Nat
    BY CatalogAssumption, FS_Subset
  <1>2. Cardinality(T) <= Cardinality(S) /\ IsFiniteSet(T)
    BY <1>1, FS_Subset
  <1>3. Cardinality(T) \in Nat /\ Cardinality(S) \in Nat
    BY <1>1, <1>2, FS_CardinalityType
  <1> QED
    BY <1>1, <1>2, <1>3

\* No entry is added, and this writer's prune gets no worse.
LEMMA BoundedStays ==
    ASSUME IInv, Shapes', NEW w \in Writers, Moves(w), faults' = faults,
           pc[w] # "returned", Listable' \subseteq Listable,
           \A v \in Writers : v # w => victims'[v] = victims[v],
           WillPrune(w) => WillPrune(w)' \/ Cardinality(Listable') <= keep
    PROVE  Bounded'
  <1>1. Writers \subseteq Threads
    BY DEF Threads
  <1> SUFFICES ASSUME faults = 0, AllOk'
               PROVE  Cardinality(Listable') <= keep \/ \E v \in Writers : WillPrune(v)'
    BY DEF Bounded
  <1>2. AllOk
    BY <1>1 DEF AllOk, Moves
  <1>3. Listable \in SUBSET Indices
    BY DEF Listable
  <1>4. CASE Cardinality(Listable) <= keep
    BY <1>3, <1>4, FewerEntries
  <1>5. ASSUME NEW v \in Writers, WillPrune(v)
        PROVE  WillPrune(v)' \/ Cardinality(Listable') <= keep
    <2>1. CASE v = w
      BY <1>5, <2>1
    <2>2. CASE v # w
      <3>1. /\ pc'[v] = pc[v] /\ scan'[v] = scan[v] /\ Found(v)' = Found(v)
            /\ ToRemove(v)' = ToRemove(v)
        BY <1>1, <2>2 DEF Moves, Found, ToRemove
      <3>2. Listable \ ToRemove(v) \in SUBSET Indices
            /\ Listable' \ ToRemove(v) \in SUBSET (Listable \ ToRemove(v))
        BY <1>3
      <3>3. Cardinality(Listable \ ToRemove(v)) <= keep
                => Cardinality(Listable' \ ToRemove(v)) <= keep
        BY <3>2, FewerEntries
      <3> QED
        BY <1>5, <3>1, <3>3 DEF WillPrune, Early
    <2> QED
      BY <2>1, <2>2
  <1> QED
    BY <1>2, <1>4, <1>5 DEF IInv, Bounded

\* One file or directory entry changes.
LEMMA DirMoves ==
    ASSUME Shapes, NEW i \in Indices, NEW d \in DirRec, dirs' = [dirs EXCEPT ![i] = d]
    PROVE  /\ dirs' \in [Indices -> DirRec]
           /\ \A j \in Indices : dirs'[j] = IF j = i THEN d ELSE dirs[j]
  BY DEF Shapes

\* An entry that is being written and is above everything listed will do.
LEMMA NewestRises ==
    ASSUME Shapes, NEW w \in Writers, Midway(w), NEW m \in Indices \cup {0}, Newest(m),
           m <= target[w]
    PROVE  Newest(target[w])
  <1> DEFINE n == target[w]
  <1>1. n \in Indices
    BY DEF Shapes, Midway
  <1>2. \A a \in Indices : (a <= m => a <= n) /\ (a < m => a < n) /\ (n <= a => m <= a)
    <2>1. Indices \subseteq Nat /\ m <= n
      BY CatalogAssumption
    <2> HIDE DEF n
    <2>2. m \in Nat /\ n \in Nat
      BY <1>1, <2>1
    <2> SUFFICES ASSUME NEW a \in Indices
                 PROVE  (a <= m => a <= n) /\ (a < m => a < n) /\ (n <= a => m <= a)
      OBVIOUS
    <2>3. a \in Nat
      BY <2>1
    <2> QED
      BY <2>1, <2>2, <2>3
  <1>3. /\ \A t \in Threads : Found(t) \subseteq Indices
        /\ \A a \in acked : a[1] \in Indices
        /\ \A v \in Writers : \A y \in victims[v] : y[1] \in Indices
        /\ \A v \in Writers : Active(v) => target[v] \in Indices
        /\ \A v \in Writers : Early(v) => target[v] \in Indices
    <2>1. \A t \in Threads : Found(t) \subseteq Indices
      BY DEF Shapes, ScanRec, Found
    <2>2. \A a \in acked : a[1] \in Indices
      BY DEF Shapes
    <2>3. \A v \in Writers : \A y \in victims[v] : y[1] \in Indices
      BY DEF Shapes
    <2>4. \A v \in Writers : Active(v) \/ Early(v) => target[v] \in Indices
      BY DEF Shapes, Active, Early
    <2> QED
      BY <2>1, <2>2, <2>3, <2>4
  <1> HIDE DEF n
  <1>4. \A i \in Indices : dirs[i].meta \in Writers => i <= n
    BY <1>2 DEF Newest
  <1>5. \A t \in Threads : \A i \in Found(t) : i <= n
    BY <1>2, <1>3 DEF Newest
  <1>6. \A a \in acked : a[1] <= n
    BY <1>2, <1>3 DEF Newest
  <1>7. \A v \in Writers : \A y \in victims[v] : y[1] < n
    BY <1>2, <1>3 DEF Newest
  <1>8. \A v \in Writers : Active(v) /\ ~Early(v) => target[v] <= n
    BY <1>2, <1>3 DEF Newest
  <1>9. \A v \in Writers : Early(v) /\ n <= target[v] /\ target[v] \notin spoiled => Intact(v)
    BY <1>2, <1>3 DEF Newest
  <1>10. Newest(n)
    BY <1>4, <1>5, <1>6, <1>7, <1>8, <1>9 DEF Newest, n
  <1> QED
    BY <1>10 DEF n

\* A write returns an error.  Midway, that spoils its entry, or takes a
\* directory that is gone, which an entry at or above m cannot lose.
LEMMA WriterFails ==
    ASSUME IInv, NEW w \in Writers, Returned(w, "err"), Active(w),
           scan' = scan \/ scan' = [scan EXCEPT ![w] = NoScan],
           NEW d \in DirRec, dirs' = [dirs EXCEPT ![target[w]] = d],
           LET o == dirs[target[w]]
           IN  \/ d = o
               \/ /\ Midway(w) /\ d.exists = o.exists
                  /\ d.data \in {o.data, w, Mixed} /\ d.meta \in {o.meta, w, Mixed},
           Midway(w) => \/ target[w] \in spoiled'
                        \/ pc[w] # "meta_write" /\ ~dirs[target[w]].exists /\ d = dirs[target[w]],
           spoiled \subseteq spoiled', spoiled' \subseteq Indices,
           detached' = detached \ {w}, faults' \in 0 .. MaxFaults,
           UNCHANGED <<target, victims, acked>>
    PROVE  IInv'
  <1> DEFINE i == target[w]
  <1>1. w \in Threads /\ Shapes /\ Writers \subseteq Threads /\ Mixed \notin Writers
    BY CatalogAssumption DEF Threads, IInv
  <1>2. /\ pc' \in [Threads -> Pcs]
        /\ \A v \in Writers : pc'[v] \in WriterSteps \cup {"idle", "killed"}
        /\ \A r \in Readers : pc'[r] \in ReaderSteps
        /\ \A u \in Threads : pc'[u] = IF u = w THEN "returned" ELSE pc[u]
        /\ DOMAIN result' = Threads
        /\ \A u \in Threads : result'[u] = IF u = w THEN "err" ELSE result[u]
    BY <1>1, ReturnMoves
  <1>3. /\ scan' \in [Threads -> ScanRec]
        /\ \A u \in Threads : u # w => scan'[u] = scan[u]
        /\ scan'[w].found = {} \/ scan'[w].found = scan[w].found
    BY <1>1, ScanMoves, ScanRecs DEF Shapes
  <1>4. i \in Indices /\ dirs[i] \in DirRec
    BY <1>1 DEF Shapes, Active
  <1>5. /\ dirs' \in [Indices -> DirRec]
        /\ \A j \in Indices : dirs'[j] = IF j = i THEN d ELSE dirs[j]
    BY <1>1, <1>4, DirMoves
  <1>6. Shapes'
    <2>1. \A v \in Writers : pc'[v] # "idle" => target'[v] \in Indices
      BY <1>1, <1>2 DEF Shapes, Active
    <2> QED
      BY <1>1, <1>2, <1>3, <1>5, <2>1 DEF Shapes, Pcs
  <1>7. Moves(w)
    BY <1>2, <1>3 DEF Moves
  <1>8. pc'[w] = "returned" /\ result'[w] = "err"
    BY <1>1, <1>2
  <1>9. Origins' /\ \A t \in Threads : Found(t)' \subseteq Found(t)
    <2>1. \A j \in Indices, v \in Writers :
              dirs'[j].data = v \/ dirs'[j].meta = v
                  => dirs[j].data = v \/ dirs[j].meta = v \/ (v = w /\ target'[w] = j)
      BY <1>1, <1>4, <1>5
    <2> QED
      BY <1>3, <1>6, <1>7, <1>8, <2>1, WriterFrame
  <1>10. ~Active(w)' /\ ~Early(w)' /\ ~Midway(w)'
    BY <1>8 DEF Active, Early, Midway
  <1>11. d = dirs[i] \/ i \in spoiled'
    OBVIOUS
  <1>12. \A j \in Indices \ spoiled' : dirs'[j] = dirs[j]
    BY <1>5, <1>11
  <1>13. Orderly'
    <2>1. \A v \in Writers : pc[v] \in {"data_write", "meta_write"} => target[v] \in Indices
      BY <1>1 DEF Shapes
    <2>2. OpenFiles'
      BY <1>6, <1>7, <1>8, <1>12, <2>1, OpenFilesStay
    <2>3. pc[w] = "meta_write" => i \in spoiled'
      BY DEF Midway
    <2> QED
      BY <1>6, <1>7, <1>10, <1>12, <2>2, <2>3, OrderlyStays
  <1>14. Kept'
    <2>1. PICK k \in Indices \cup {0} : Newest(k)
      BY DEF Kept, IInv
    <2>2. Indices \subseteq Nat /\ k \in Nat /\ i \in Nat
      <3> HIDE DEF i
      <3> QED
        BY <1>4, CatalogAssumption
    <2>3. PICK m \in Indices \cup {0} : Newest(m) /\ (Midway(w) => i <= m)
      <3>1. CASE Midway(w) /\ k <= i
        <4>1. Newest(i)
          BY <1>1, <2>1, <3>1, NewestRises
        <4> QED
          BY <1>4, <2>2, <4>1
      <3>2. CASE ~(Midway(w) /\ k <= i)
        BY <2>1, <2>2, <3>2
      <3> QED
        BY <3>1, <3>2
    <2>4. \A j \in Indices : dirs'[j].meta \in Writers => j <= m
      BY <1>1, <1>4, <1>5, <2>3 DEF Newest
    <2>5. \A v \in Writers : v # w /\ Early(v) /\ m <= target[v] /\ target[v] \notin spoiled'
              /\ Intact(v) => Intact(v)'
      <3> SUFFICES ASSUME NEW v \in Writers, v # w, Early(v), target[v] \notin spoiled',
                          Intact(v)
                   PROVE  Intact(v)'
        OBVIOUS
      <3>1. pc'[v] = pc[v] /\ target'[v] = target[v] /\ target[v] \in Indices
        BY <1>1, <1>7 DEF Moves, Shapes, Early
      <3>2. dirs'[target[v]] = dirs[target[v]]
        BY <1>12, <3>1
      <3> QED
        BY <3>1, <3>2 DEF Intact
    <2>6. m \in Indices => \/ m \in spoiled'
                           \/ Complete(m)'
                           \/ \E v \in Writers : v # w /\ Midway(v) /\ target[v] = m
      <3> SUFFICES ASSUME m \in Indices, m \notin spoiled'
                   PROVE  Complete(m)' \/ \E v \in Writers : v # w /\ Midway(v) /\ target[v] = m
        OBVIOUS
      <3>1. Complete(m)' <=> Complete(m)
        BY <1>12 DEF Complete
      <3>2. ~(Midway(w) /\ i = m)
        <4> SUFFICES ASSUME Midway(w), i = m PROVE FALSE
          OBVIOUS
        <4>1. ~dirs[i].exists /\ Early(w) /\ m <= i /\ i \notin spoiled
          BY <2>2 DEF Midway, Early
        <4> QED
          BY <2>3, <4>1 DEF Newest, Intact
      <3> QED
        BY <2>3, <3>1, <3>2 DEF Newest
    <2>7. Newest(m)'
      <3>1. (\A a \in acked' : a[1] <= m) /\ \A v \in Writers : \A x \in victims'[v] : x[1] < m
        BY <2>3 DEF Newest
      <3> QED
        BY <1>6, <1>7, <1>9, <1>10, <2>3, <2>4, <2>5, <2>6, <3>1, NewestStays
    <2> QED
      BY <2>7 DEF Kept
  <1>15. Bounded'
    BY <1>8 DEF Bounded, AllOk
  <1> QED
    BY <1>6, <1>9, <1>13, <1>14, <1>15 DEF IInv

\* Steps of a write that leave the files alone: it goes on to another step.
LEMMA WriterGoes ==
    ASSUME IInv, NEW w \in Writers, NEW x \in WriterSteps, Goto(w, x),
           NEW s \in ScanRec, scan' = [scan EXCEPT ![w] = s],
           s.found = {} \/ s.found = scan[w].found,
           pc[w] \in {"sha256", "prune_list"}, x \in {"prune_list", "remove"},
           NEW V \in SUBSET (Indices \X (Names \cup {"dir"})),
           victims' = [victims EXCEPT ![w] = V],
           \A m \in Indices \cup {0} : Newest(m) => \A v \in V : v[1] < m,
           WillPrune(w) => WillPrune(w)',
           UNCHANGED <<dirs, target, result, detached, acked, spoiled, faults>>
    PROVE  IInv'
  <1>1. w \in Threads /\ Shapes /\ Writers \subseteq Threads
    BY DEF Threads, IInv
  <1>2. /\ pc' \in [Threads -> Pcs]
        /\ \A v \in Writers : pc'[v] \in WriterSteps \cup {"idle", "killed"}
        /\ \A r \in Readers : pc'[r] \in ReaderSteps
        /\ \A u \in Threads : pc'[u] = IF u = w THEN x ELSE pc[u]
    <2>1. w \notin Readers
      BY CatalogAssumption
    <2> QED
      BY <1>1, <2>1, PcMoves DEF Goto
  <1>3. /\ scan' \in [Threads -> ScanRec]
        /\ \A u \in Threads : scan'[u] = IF u = w THEN s ELSE scan[u]
    BY <1>1, ScanMoves
  <1>4. /\ victims' \in [Writers -> SUBSET (Indices \X (Names \cup {"dir"}))]
        /\ \A v \in Writers : victims'[v] = IF v = w THEN V ELSE victims[v]
    BY <1>1 DEF Shapes
  <1>5. Shapes'
    <2>1. \A v \in Writers : pc'[v] # "idle" => target'[v] \in Indices
      BY <1>1, <1>2 DEF Shapes
    <2> QED
      BY <1>1, <1>2, <1>3, <1>4, <2>1 DEF Shapes, Pcs
  <1>6. Moves(w)
    BY <1>2, <1>3 DEF Moves
  <1>7. Origins' /\ \A t \in Threads : Found(t)' \subseteq Found(t)
    <2>1. pc'[w] # "idle" /\ (scan'[w].found = {} \/ scan'[w].found = scan[w].found)
      BY <1>1, <1>2, <1>3
    <2> QED
      BY <1>5, <1>6, <2>1, WriterFrame
  <1>8. /\ Active(w) /\ ~Early(w) /\ ~Early(w)' /\ ~Midway(w) /\ ~Midway(w)'
        /\ pc[w] # "meta_write" /\ pc[w] # "returned"
        /\ pc'[w] # "data_write" /\ pc'[w] # "meta_write"
    BY <1>1, <1>2 DEF Active, Early, Midway
  <1>9. Orderly'
    <2>1. detached' = detached \ {w}
      BY <1>8 DEF IInv, Orderly, OpenFiles, Midway
    <2>2. OpenFiles'
      BY <1>5, <1>6, <1>8, <2>1, OpenFilesStay
    <2> QED
      BY <1>5, <1>6, <1>8, <2>2, OrderlyStays
  <1>10. Kept'
    <2> SUFFICES ASSUME NEW m \in Indices \cup {0}, Newest(m)
                 PROVE  Newest(m)'
      BY DEF Kept, IInv
    <2>1. Complete(m)' <=> Complete(m)
      BY DEF Complete
    <2>2. \A v \in Writers : \A y \in victims'[v] : y[1] < m
      BY <1>4 DEF Newest
    <2>3. \A v \in Writers : v # w /\ Intact(v) => Intact(v)'
      BY <1>1, <1>2 DEF Intact
    <2> QED
      BY <1>5, <1>6, <1>7, <1>8, <2>1, <2>2, <2>3, NewestStays DEF Newest
  <1>11. Bounded'
    <2>1. Listable' \subseteq Listable
      BY DEF Listable
    <2> QED
      BY <1>4, <1>5, <1>6, <1>8, <2>1, BoundedStays
  <1> QED
    BY <1>5, <1>7, <1>9, <1>10, <1>11 DEF IInv

\* sha256 is written: the prune begins, and sees everything.
LEMMA Sha256Step ==
    ASSUME IInv, NEW w \in Writers, sha256_write(w)
    PROVE  IInv'
  <1> DEFINE s == [todo |-> Indices, look |-> 0, found |-> {}]
  <1>1. s \in ScanRec /\ s.found = {} /\ s.todo = Indices
    BY ScanRecs
  <1>2. Shapes /\ w \in Threads
    BY DEF IInv, Threads
  <1>3. pc[w] = "sha256" /\ scan' = [scan EXCEPT ![w] = s] /\ Goto(w, "prune_list")
        /\ UNCHANGED <<dirs, target, victims, result, detached, acked, spoiled, faults>>
    BY DEF sha256_write, StartScan, history
  <1> HIDE DEF s
  <1>4. victims' = [victims EXCEPT ![w] = victims[w]]
        /\ victims[w] \in SUBSET (Indices \X (Names \cup {"dir"}))
    BY <1>2, <1>3 DEF Shapes
  <1>5. \A m \in Indices \cup {0} : Newest(m) => \A v \in victims[w] : v[1] < m
    BY DEF Newest
  <1>6. WillPrune(w)'
    <2>1. pc'[w] = "prune_list" /\ scan'[w] = s
      BY <1>2, <1>3 DEF Goto, Shapes
    <2>2. Listable' \subseteq Indices
      BY DEF Listable
    <2> QED
      BY <1>1, <2>1, <2>2 DEF WillPrune
  <1>7. "prune_list" \in WriterSteps
    BY DEF WriterSteps
  <1> QED
    BY <1>1, <1>3, <1>4, <1>5, <1>6, <1>7, WriterGoes

\* The list is complete: prune selects all but the newest keep entries.
LEMMA PruneSelectStep ==
    ASSUME IInv, NEW w \in Writers, prune_select(w)
    PROVE  IInv'
  <1> DEFINE F == Found(w)
  <1> DEFINE V == Oldest(F) \X (Names \cup {"dir"})
  <1>1. Shapes /\ w \in Threads
    BY DEF IInv, Threads
  <1>2. F \in SUBSET Indices
    BY <1>1 DEF Shapes, ScanRec, Found
  <1>3. /\ pc[w] = "prune_list" /\ Listed(w) /\ scan' = [scan EXCEPT ![w] = NoScan]
        /\ Goto(w, "remove") /\ victims' = [victims EXCEPT ![w] = V]
        /\ UNCHANGED <<dirs, target, result, detached, acked, spoiled, faults>>
    BY DEF prune_select, history
  <1>4. V \in SUBSET (Indices \X (Names \cup {"dir"})) /\ \A v \in V : v[1] \in Oldest(F)
    BY <1>2 DEF Oldest
  <1>5. ASSUME NEW m \in Indices \cup {0}, Newest(m), NEW i \in Oldest(F)
        PROVE  i < m
    <2>1. i \in F /\ Cardinality({j \in F : j > i}) >= keep
      BY <1>5 DEF Oldest
    <2>2. {j \in F : j > i} # {}
      BY <2>1, FS_EmptySet, CatalogAssumption
    <2>3. PICK j \in F : j > i
      BY <2>2
    <2>4. j <= m
      BY <1>1, <1>5 DEF Newest
    <2>5. i \in Nat /\ j \in Nat /\ m \in Nat
      <3> HIDE DEF F
      <3>1. Indices \subseteq Nat
        BY CatalogAssumption
      <3> QED
        BY <1>2, <2>1, <2>3, <3>1
    <2> QED
      BY <2>3, <2>4, <2>5
  <1>6. WillPrune(w) => WillPrune(w)'
    <2> SUFFICES ASSUME WillPrune(w) PROVE WillPrune(w)'
      OBVIOUS
    <2>1. pc'[w] = "remove" /\ victims'[w] = V
      BY <1>1, <1>3 DEF Goto, Shapes
    <2>2. Listable \subseteq {0} \cup F
      BY <1>3 DEF WillPrune, Early, Listed
    <2>3. Listable \subseteq F
      BY <2>2, CatalogAssumption DEF Listable
    <2>4. ToRemove(w)' = Oldest(F)
      BY <1>2, <2>1 DEF ToRemove, Oldest, Names
    <2>5. Listable' \ ToRemove(w)' \in SUBSET (F \ Oldest(F)) /\ F \ Oldest(F) \in SUBSET Indices
      BY <1>2, <1>3, <2>3, <2>4 DEF Listable
    <2>6. Cardinality(Listable' \ ToRemove(w)') <= keep
      BY <1>2, <2>5, NewestAreFew, FewerEntries
    <2> QED
      BY <2>1, <2>6 DEF WillPrune
  <1>7. \A m \in Indices \cup {0} : Newest(m) => \A v \in V : v[1] < m
    BY <1>4, <1>5
  <1>8. "remove" \in WriterSteps
    BY DEF WriterSteps
  <1> HIDE DEF V
  <1> QED
    BY <1>3, <1>4, <1>6, <1>7, <1>8, ScanRecs, WriterGoes

\* prune is done and the write returns Ok.
LEMMA WriteOkStep ==
    ASSUME IInv, NEW w \in Writers, write_ok(w)
    PROVE  IInv'
  <1>1. w \in Threads /\ Shapes /\ Writers \subseteq Threads
    BY DEF Threads, IInv
  <1>2. /\ pc[w] = "remove" /\ victims[w] = {} /\ Returned(w, "ok")
        /\ acked' = acked \cup {<<target[w], w>>}
        /\ UNCHANGED <<dirs, target, scan, victims, detached, spoiled, faults>>
    BY DEF write_ok, history
  <1>3. /\ pc' \in [Threads -> Pcs]
        /\ \A v \in Writers : pc'[v] \in WriterSteps \cup {"idle", "killed"}
        /\ \A r \in Readers : pc'[r] \in ReaderSteps
        /\ \A u \in Threads : pc'[u] = IF u = w THEN "returned" ELSE pc[u]
        /\ DOMAIN result' = Threads
        /\ \A u \in Threads : result'[u] = IF u = w THEN "ok" ELSE result[u]
    BY <1>1, <1>2, ReturnMoves
  <1>4. target[w] \in Indices
    BY <1>1, <1>2 DEF Shapes
  <1>5. Shapes'
    <2>1. \A v \in Writers : pc'[v] # "idle" => target'[v] \in Indices
      BY <1>1, <1>2, <1>3 DEF Shapes
    <2>2. acked' \subseteq Indices \X Writers
      BY <1>1, <1>2, <1>4 DEF Shapes
    <2> QED
      BY <1>1, <1>2, <1>3, <2>1, <2>2 DEF Shapes, Pcs
  <1>6. Moves(w)
    BY <1>2, <1>3 DEF Moves
  <1>7. pc'[w] = "returned" /\ result'[w] = "ok"
    BY <1>1, <1>3
  <1>8. Origins' /\ \A t \in Threads : Found(t)' \subseteq Found(t)
    BY <1>2, <1>5, <1>6, <1>7, WriterFrame
  <1>9. Active(w) /\ ~Early(w) /\ ~Active(w)' /\ ~Early(w)' /\ ~Midway(w) /\ ~Midway(w)'
    BY <1>2, <1>7 DEF Active, Early, Midway
  <1>10. Orderly'
    <2>1. detached' = detached \ {w}
      BY <1>2 DEF IInv, Orderly, OpenFiles
    <2>2. OpenFiles'
      BY <1>2, <1>5, <1>6, <1>7, <2>1, OpenFilesStay
    <2> QED
      BY <1>2, <1>5, <1>6, <1>9, <2>2, OrderlyStays
  <1>11. Kept'
    <2> SUFFICES ASSUME NEW m \in Indices \cup {0}, Newest(m)
                 PROVE  Newest(m)'
      BY <1>2 DEF Kept, IInv
    <2>1. Complete(m)' <=> Complete(m)
      BY <1>2 DEF Complete
    <2>2. target[w] <= m
      BY <1>9 DEF Newest
    <2>3. \A a \in acked' : a[1] <= m
      BY <1>2, <2>2 DEF Newest
    <2>4. \A v \in Writers : v # w /\ Intact(v) => Intact(v)'
      BY <1>1, <1>2, <1>3 DEF Intact
    <2> QED
      BY <1>2, <1>5, <1>6, <1>8, <1>9, <2>1, <2>3, <2>4, NewestStays DEF Newest
  <1>12. Bounded'
    <2>1. Listable' = Listable
      BY <1>2 DEF Listable
    <2>2. ToRemove(w) = {}
      BY <1>2 DEF ToRemove
    <2>3. WillPrune(w) => Cardinality(Listable) <= keep
      <3>1. Listable \ {} = Listable
        OBVIOUS
      <3> QED
        BY <1>2, <2>2, <3>1 DEF WillPrune, Early
    <2> QED
      BY <1>2, <1>5, <1>6, <2>1, <2>3, BoundedStays
  <1> QED
    BY <1>5, <1>8, <1>10, <1>11, <1>12 DEF IInv

-----------------------------------------------------------------------------
(***************************************************************************)
(* Steps that change files.                                                *)
(***************************************************************************)
\* The writer is about to write into the file of that name.
OpenAt(v, f) ==
    \/ f = "data" /\ pc[v] = "data_write"
    \/ f = "meta" /\ pc[v] = "meta_write"

\* prune unlinks a file or removes a directory of an entry below m.
LEMMA RemoveStep ==
    ASSUME IInv, NEW w \in Writers, pc[w] = "remove", NEW i \in Indices,
           NEW x \in victims[w], x[1] = i, victims' = [victims EXCEPT ![w] = @ \ {x}],
           NEW d \in DirRec, dirs' = [dirs EXCEPT ![i] = d],
           d.data = IF x[2] = "data" THEN Absent ELSE dirs[i].data,
           d.meta = IF x[2] = "meta" THEN Absent ELSE dirs[i].meta,
           detached' = detached \cup {v \in Writers : target[v] = i /\ OpenAt(v, x[2])},
           UNCHANGED <<pc, target, scan, result, acked, spoiled, faults>>
    PROVE  IInv'
  <1>1. w \in Threads /\ Shapes /\ Writers \subseteq Threads /\ Absent \notin Writers
        /\ Absent \notin {Partial, Mixed}
    BY CatalogAssumption DEF Threads, IInv
  <1>2. /\ dirs' \in [Indices -> DirRec]
        /\ \A j \in Indices : dirs'[j] = IF j = i THEN d ELSE dirs[j]
    BY <1>1, DirMoves
  <1>3. /\ victims' \in [Writers -> SUBSET (Indices \X (Names \cup {"dir"}))]
        /\ \A v \in Writers : victims'[v] = IF v = w THEN victims[w] \ {x} ELSE victims[v]
    BY <1>1 DEF Shapes
  <1>4. Shapes'
    BY <1>1, <1>2, <1>3 DEF Shapes
  <1>5. Moves(w)
    BY DEF Moves
  <1>6. \A j \in Indices, v \in Writers :
            dirs'[j].data = v \/ dirs'[j].meta = v => dirs[j].data = v \/ dirs[j].meta = v
    BY <1>1, <1>2
  <1>7. Origins' /\ \A t \in Threads : Found(t)' \subseteq Found(t)
    BY <1>4, <1>5, <1>6, WriterFrame
  <1>8. /\ Active(w) /\ ~Early(w) /\ ~Early(w)' /\ Active(w)'
        /\ \A v \in Writers : (Early(v)' <=> Early(v)) /\ (Midway(v)' <=> Midway(v))
    BY DEF Active, Early, Midway
  <1>9. \A j \in Indices : dirs'[j].meta = Absent \/ dirs'[j].meta = dirs[j].meta
    BY <1>2
  <1>10. Orderly'
    <2>1. OpenFiles
      BY DEF IInv, Orderly
    <2>2. \A v \in detached' : v \in Writers /\ pc'[v] \in {"data_write", "meta_write"}
      BY <2>1 DEF OpenFiles, OpenAt
    <2>3. ASSUME NEW v \in Writers, target'[v] \notin spoiled',
                 pc'[v] \in {"data_write", "meta_write"}
          PROVE  LET e == dirs'[target'[v]]
                     c == IF v \in detached' THEN Absent ELSE Partial
                 IN  /\ pc'[v] = "data_write" => e.data = c
                     /\ pc'[v] = "meta_write" => e.meta = c
      <3>1. target[v] \in Indices
        BY <1>1, <2>3 DEF Shapes
      <3>2. CASE target[v] = i /\ OpenAt(v, x[2])
        BY <1>2, <3>1, <3>2 DEF OpenAt
      <3>3. CASE target[v] # i
        BY <1>2, <2>1, <2>3, <3>1, <3>3 DEF OpenFiles
      <3>4. CASE target[v] = i /\ ~OpenAt(v, x[2])
        BY <1>2, <2>1, <2>3, <3>1, <3>4 DEF OpenFiles, OpenAt
      <3> QED
        BY <3>2, <3>3, <3>4
    <2>4. OpenFiles'
      BY <2>2, <2>3 DEF OpenFiles
    <2>5. Exclusive'
      BY <1>8 DEF IInv, Orderly, Exclusive
    <2>6. PartialIsOwned'
      BY <1>1, <1>9 DEF IInv, Orderly, PartialIsOwned
    <2> QED
      BY <2>4, <2>5, <2>6 DEF Orderly
  <1>11. Kept'
    <2> SUFFICES ASSUME NEW m \in Indices \cup {0}, Newest(m)
                 PROVE  Newest(m)'
      BY DEF Kept, IInv
    <2>1. i < m
      BY DEF Newest
    <2>2. \A j \in Indices : m <= j => dirs'[j] = dirs[j]
      BY <1>2, <2>1, CatalogAssumption
    <2>3. m \in Indices => (Complete(m)' <=> Complete(m))
      BY <2>2, CatalogAssumption DEF Complete
    <2>4. \A v \in Writers : \A y \in victims'[v] : y[1] < m
      BY <1>3 DEF Newest
    <2>5. \A v \in Writers : Early(v) /\ m <= target[v] /\ Intact(v) => Intact(v)'
      <3> SUFFICES ASSUME NEW v \in Writers, Early(v), m <= target[v], Intact(v)
                   PROVE  Intact(v)'
        OBVIOUS
      <3>1. target[v] \in Indices
        BY <1>1 DEF Early, Shapes
      <3>2. target[v] # i /\ dirs'[target[v]] = dirs[target[v]]
        BY <2>1, <2>2, <3>1, CatalogAssumption
      <3> QED
        BY <3>2 DEF Intact
    <2>6. \A j \in Indices : dirs'[j].meta \in Writers => j <= m
      BY <1>1, <1>9 DEF Newest
    <2> QED
      BY <1>4, <1>5, <1>7, <1>8, <2>3, <2>4, <2>5, <2>6, NewestStays DEF Newest
  <1>12. Bounded'
    <2>1. Listable' = IF x[2] = "meta" THEN Listable \ {i} ELSE Listable
      BY <1>2 DEF Listable
    <2>2. ToRemove(w)' = IF x[2] = "meta" THEN ToRemove(w) \ {i} ELSE ToRemove(w)
      <3>1. x \in Indices \X (Names \cup {"dir"})
        BY <1>1 DEF Shapes
      <3>2. \A j \in Indices : <<j, "meta">> = x <=> j = i /\ x[2] = "meta"
        BY <3>1
      <3> QED
        BY <1>3, <3>2 DEF ToRemove
    <2>3. Listable' \ ToRemove(w)' = Listable \ ToRemove(w) \/ x[2] # "meta"
      <3>1. CASE x[2] = "meta"
        <4>1. i \in ToRemove(w)
          <5>1. x \in Indices \X (Names \cup {"dir"})
            BY <1>1 DEF Shapes
          <5> QED
            BY <3>1, <5>1 DEF ToRemove
        <4> QED
          BY <2>1, <2>2, <3>1, <4>1
      <3> QED
        BY <3>1
    <2>4. WillPrune(w) => WillPrune(w)'
      BY <2>1, <2>2, <2>3 DEF WillPrune, Early
    <2>5. Listable' \subseteq Listable
      BY <2>1
    <2> QED
      BY <1>3, <1>4, <1>5, <2>4, <2>5, BoundedStays
  <1> QED
    BY <1>4, <1>7, <1>10, <1>11, <1>12 DEF IInv

EarlySteps == {"data_create", "data_write", "meta_create", "meta_write"}

\* Intact, for a directory and a step.
IntactAt(d, x, w) == d.exists /\ (x \in {"meta_create", "meta_write"} => d.data = w)

\* create_dir, File::create and write_all: a write changes the entry of its
\* index and goes on; another write at work on the same files spoils the entry.
LEMMA WriteStep ==
    ASSUME IInv, NEW w \in Writers, NEW i \in Indices, NEW d \in DirRec,
           dirs' = [dirs EXCEPT ![i] = d],
           NEW x \in EarlySteps \cup {"sha256"}, Goto(w, x),
           target' = [target EXCEPT ![w] = i],
           \/ pc[w] = "idle" /\ x = "data_create"
           \/ Early(w) /\ target[w] = i /\ x # "data_create",
           x = "data_create" => d.data = dirs[i].data /\ d.meta = dirs[i].meta,
           x = "sha256" => Midway(w),
           spoiled \subseteq spoiled', spoiled' \subseteq Indices,
           detached' = detached \ {w},
           UNCHANGED <<scan, victims, result, acked, faults>>,
           x # "data_create" =>
               \A v \in Writers : v # w /\ Midway(v) /\ target[v] = i => i \in spoiled',
           dirs[i].exists => d.exists,
           d.data \in {dirs[i].data, w, Partial, Mixed},
           d.meta \in {dirs[i].meta, Partial, Mixed} \/ (d.meta = w /\ x = "sha256"),
           i \notin spoiled' /\ d.meta \in {Partial, Mixed} =>
               \/ x = "meta_write"
               \/ dirs[i].meta \in {Partial, Mixed} /\ pc[w] # "meta_write",
           x = "data_write" => d.data = Partial,
           x = "meta_write" => d.meta = Partial,
           i \notin spoiled' /\ x # "sha256" /\ (pc[w] = "idle" \/ Intact(w))
               => IntactAt(d, x, w),
           i \notin spoiled' /\ x = "sha256" /\ Intact(w) => d.data = w /\ d.meta = w
    PROVE  IInv'
  <1>1. w \in Threads /\ Shapes /\ Writers \subseteq Threads
        /\ {Absent, Partial, Mixed} \cap Writers = {} /\ w \notin Readers
    BY CatalogAssumption DEF Threads, IInv
  <1>2. /\ dirs' \in [Indices -> DirRec]
        /\ \A j \in Indices : dirs'[j] = IF j = i THEN d ELSE dirs[j]
    BY <1>1, DirMoves
  <1>3. x \in WriterSteps /\ x # "idle" /\ x # "returned" /\ x # "killed"
    BY DEF EarlySteps, WriterSteps
  <1>4. /\ pc' \in [Threads -> Pcs]
        /\ \A v \in Writers : pc'[v] \in WriterSteps \cup {"idle", "killed"}
        /\ \A r \in Readers : pc'[r] \in ReaderSteps
        /\ \A u \in Threads : pc'[u] = IF u = w THEN x ELSE pc[u]
    BY <1>1, <1>3, PcMoves DEF Goto
  <1>5. target' \in [Threads -> Indices \cup {0}]
        /\ \A u \in Threads : target'[u] = IF u = w THEN i ELSE target[u]
    BY <1>1 DEF Shapes
  <1>6. Shapes'
    <2>1. \A v \in Writers : pc'[v] # "idle" => target'[v] \in Indices
      BY <1>1, <1>4, <1>5 DEF Shapes
    <2> QED
      BY <1>1, <1>2, <1>4, <1>5, <2>1 DEF Shapes, Pcs
  <1>7. Moves(w) /\ pc'[w] = x /\ target'[w] = i
    BY <1>1, <1>4, <1>5 DEF Moves
  <1>8. Origins' /\ \A t \in Threads : Found(t)' \subseteq Found(t)
    <2>1. \A j \in Indices, v \in Writers :
              dirs'[j].data = v \/ dirs'[j].meta = v
                  => dirs[j].data = v \/ dirs[j].meta = v \/ (v = w /\ target'[w] = j)
      BY <1>1, <1>2, <1>7
    <2>2. pc[w] # "idle" => target'[w] = target[w]
      BY <1>7
    <2> QED
      BY <1>3, <1>6, <1>7, <2>1, <2>2, WriterFrame
  <1>9. Active(w)' /\ (Early(w)' <=> x # "sha256")
        /\ (Midway(w)' <=> x # "sha256" /\ x # "data_create")
    BY <1>3, <1>7 DEF Active, Early, Midway, EarlySteps
  <1>10. Orderly'
    <2>1. OpenFiles'
      <3>1. \A v \in Writers :
                v # w /\ pc[v] \in {"data_write", "meta_write"} /\ target[v] \notin spoiled'
                    => /\ dirs'[target[v]].data = dirs[target[v]].data
                       /\ dirs'[target[v]].meta = dirs[target[v]].meta
        <4> SUFFICES ASSUME NEW v \in Writers, v # w, pc[v] \in {"data_write", "meta_write"},
                            target[v] \notin spoiled'
                     PROVE  /\ dirs'[target[v]].data = dirs[target[v]].data
                            /\ dirs'[target[v]].meta = dirs[target[v]].meta
          OBVIOUS
        <4>1. Midway(v) /\ target[v] \in Indices
          BY <1>1 DEF Midway, Shapes
        <4> QED
          BY <1>2, <4>1
      <3>2. dirs'[target'[w]] = d
        BY <1>2, <1>7
      <3> QED
        BY <1>6, <1>7, <3>1, <3>2, OpenFilesStay
    <2>2. \A v \in Writers : v # w /\ Midway(v) /\ Midway(w)' /\ target[v] = target'[w]
              => target[v] \in spoiled'
      BY <1>7, <1>9
    <2>3. ASSUME NEW j \in Indices \ spoiled', dirs'[j].meta \in {Partial, Mixed}
          PROVE  \/ /\ dirs[j].meta \in {Partial, Mixed}
                    /\ ~(pc[w] = "meta_write" /\ target[w] = j)
                 \/ pc'[w] = "meta_write" /\ target'[w] = j
      <3>1. CASE j = i
        BY <1>2, <1>7, <2>3, <3>1
      <3>2. CASE j # i
        BY <1>2, <2>3, <3>2
      <3> QED
        BY <3>1, <3>2
    <2> QED
      BY <1>6, <1>7, <2>1, <2>2, <2>3, OrderlyStays
  <1>11. Kept'
    <2>1. PICK k \in Indices \cup {0} : Newest(k)
      BY DEF Kept, IInv
    <2>2. Indices \subseteq Nat /\ k \in Nat /\ i \in Nat
      BY CatalogAssumption
    <2>3. PICK m \in Indices \cup {0} : Newest(m) /\ (x = "sha256" => i <= m)
      <3>1. CASE x = "sha256" /\ k <= i
        <4>1. Newest(i)
          BY <1>1, <2>1, <3>1, NewestRises
        <4> QED
          BY <2>2, <4>1
      <3>2. CASE ~(x = "sha256" /\ k <= i)
        BY <2>1, <2>2, <3>2
      <3> QED
        BY <3>1, <3>2
    <2>4. m \in Nat
      BY <2>2
    <2>5. Early(w) /\ m <= i /\ i \notin spoiled' => Intact(w)
      BY <2>3 DEF Newest, Early
    <2>6. \A j \in Indices : dirs'[j].meta \in Writers => j <= m
      BY <1>1, <1>2, <2>3 DEF Newest
    <2>7. Early(w)' /\ m <= target'[w] /\ target'[w] \notin spoiled' => Intact(w)'
      <3> SUFFICES ASSUME x # "sha256", m <= i, i \notin spoiled' PROVE Intact(w)'
        BY <1>7, <1>9
      <3>1. IntactAt(d, x, w)
        BY <2>5
      <3>2. dirs'[target'[w]] = d /\ w \notin detached'
        BY <1>2, <1>7
      <3> QED
        BY <1>7, <3>1, <3>2 DEF Intact, IntactAt
    <2>8. \A v \in Writers : v # w /\ Early(v) /\ m <= target[v] /\ target[v] \notin spoiled'
              /\ Intact(v) => Intact(v)'
      <3> SUFFICES ASSUME NEW v \in Writers, v # w, Early(v), target[v] \notin spoiled',
                          Intact(v)
                   PROVE  Intact(v)'
        OBVIOUS
      <3>1. pc'[v] = pc[v] /\ target'[v] = target[v] /\ target[v] \in Indices
        BY <1>1, <1>4, <1>5 DEF Early, Shapes
      <3>2. target[v] = i /\ pc[v] # "data_create" => x = "data_create"
        BY DEF Early, Midway
      <3>3. dirs'[target[v]].exists
        BY <1>2, <3>1 DEF Intact
      <3>4. pc[v] # "data_create" => dirs'[target[v]].data = dirs[target[v]].data
        BY <1>2, <3>1, <3>2
      <3> QED
        BY <3>1, <3>3, <3>4 DEF Intact
    <2>9. m \in Indices => \/ m \in spoiled'
                           \/ Complete(m)'
                           \/ Midway(w)' /\ target'[w] = m
                           \/ \E v \in Writers : v # w /\ Midway(v) /\ target[v] = m
      <3> SUFFICES ASSUME m \in Indices, m \notin spoiled', ~(Midway(w)' /\ target'[w] = m)
                   PROVE  \/ Complete(m)'
                          \/ \E v \in Writers : v # w /\ Midway(v) /\ target[v] = m
        OBVIOUS
      <3>1. CASE m = i /\ x = "sha256"
        <4>1. Intact(w)
          BY <2>4, <2>5, <3>1 DEF Midway, Early
        <4>2. d.data = w /\ d.meta = w
          BY <3>1, <4>1
        <4> QED
          BY <1>2, <3>1, <4>2 DEF Complete
      <3>2. CASE m = i /\ x # "sha256"
        <4>1. x = "data_create" /\ pc[w] = "idle"
          BY <1>7, <1>9, <3>2
        <4>2. ~Midway(w) /\ (Complete(m)' <=> Complete(m))
          BY <1>2, <3>2, <4>1 DEF Complete, Midway
        <4> QED
          BY <2>3, <4>2 DEF Newest
      <3>3. CASE m # i
        <4>1. Complete(m)' <=> Complete(m)
          BY <1>2, <3>3 DEF Complete
        <4>2. Midway(w) => target[w] # m
          BY <3>3 DEF Midway
        <4> QED
          BY <2>3, <4>1, <4>2 DEF Newest
      <3> QED
        BY <3>1, <3>2, <3>3
    <2>10. Active(w)' /\ ~Early(w)' => target'[w] <= m
      BY <1>7, <1>9, <2>3
    <2>11. (\A a \in acked' : a[1] <= m) /\ \A v \in Writers : \A y \in victims'[v] : y[1] < m
      BY <2>3 DEF Newest
    <2>12. Newest(m)'
      BY <1>6, <1>7, <1>8, <2>3, <2>6, <2>7, <2>8, <2>9, <2>10, <2>11, NewestStays
    <2> QED
      BY <2>12 DEF Kept
  <1>12. Bounded'
    <2>1. WillPrune(w)'
      BY <1>7, <1>9 DEF WillPrune
    <2> QED
      BY <2>1 DEF Bounded
  <1> QED
    BY <1>6, <1>8, <1>10, <1>11, <1>12 DEF IInv

\* A field of an entry is changed by replacing the entry.
LEMMA FieldChanges ==
    ASSUME Shapes, NEW i \in Indices, NEW e \in BOOLEAN, NEW f \in File
    PROVE  LET D(x, y, z) == [exists |-> x, data |-> y, meta |-> z]
               o == dirs[i]
           IN  /\ o \in DirRec
               /\ [dirs EXCEPT ![i].exists = e] = [dirs EXCEPT ![i] = D(e, o.data, o.meta)]
               /\ [dirs EXCEPT ![i].data = f] = [dirs EXCEPT ![i] = D(o.exists, f, o.meta)]
               /\ [dirs EXCEPT ![i].meta = f] = [dirs EXCEPT ![i] = D(o.exists, o.data, f)]
               /\ D(e, o.data, o.meta) \in DirRec
               /\ D(o.exists, f, o.meta) \in DirRec
               /\ D(o.exists, o.data, f) \in DirRec
  <1>1. dirs[i] \in DirRec
    BY DEF Shapes
  <1>2. [dirs[i] EXCEPT !.exists = e]
            = [exists |-> e, data |-> dirs[i].data, meta |-> dirs[i].meta]
    BY <1>1 DEF DirRec
  <1>3. [dirs[i] EXCEPT !.data = f]
            = [exists |-> dirs[i].exists, data |-> f, meta |-> dirs[i].meta]
    BY <1>1 DEF DirRec
  <1>4. [dirs[i] EXCEPT !.meta = f]
            = [exists |-> dirs[i].exists, data |-> dirs[i].data, meta |-> f]
    BY <1>1 DEF DirRec
  <1>5. dirs[i].exists \in BOOLEAN /\ dirs[i].data \in File /\ dirs[i].meta \in File
    BY <1>1 DEF DirRec
  <1>6. /\ [exists |-> e, data |-> dirs[i].data, meta |-> dirs[i].meta] \in DirRec
        /\ [exists |-> dirs[i].exists, data |-> f, meta |-> dirs[i].meta] \in DirRec
        /\ [exists |-> dirs[i].exists, data |-> dirs[i].data, meta |-> f] \in DirRec
    BY <1>5 DEF DirRec
  <1> QED
    BY <1>1, <1>2, <1>3, <1>4, <1>6

\* A writer that has no file open has none that was removed.
LEMMA NotDetached ==
    ASSUME IInv, NEW w \in Writers, pc[w] \notin {"data_write", "meta_write"}
    PROVE  detached = detached \ {w}
  BY DEF IInv, Orderly, OpenFiles

\* create_dir_all of the entry's directory.
LEMMA CreateDirStep ==
    ASSUME IInv, NEW w \in Writers, create_dir(w)
    PROVE  IInv'
  <1>1. PICK i \in Indices : target' = [target EXCEPT ![w] = i]
                             /\ dirs' = [dirs EXCEPT ![i].exists = TRUE]
    BY DEF create_dir
  <1> DEFINE d == [exists |-> TRUE, data |-> dirs[i].data, meta |-> dirs[i].meta]
  <1>2. d \in DirRec /\ dirs' = [dirs EXCEPT ![i] = d]
    BY <1>1, FieldChanges DEF IInv, File
  <1>3. d.exists /\ d.data = dirs[i].data /\ d.meta = dirs[i].meta
    OBVIOUS
  <1> HIDE DEF d
  <1>4. pc[w] = "idle" /\ Goto(w, "data_create")
        /\ UNCHANGED <<scan, victims, result, detached, acked, spoiled, faults>>
    BY DEF create_dir, history
  <1>5. detached' = detached \ {w} /\ spoiled \subseteq spoiled' /\ spoiled' \subseteq Indices
    BY <1>4, NotDetached DEF IInv, Shapes
  <1>6. IntactAt(d, "data_create", w)
    BY <1>3 DEF IntactAt
  <1>7. "data_create" \in EarlySteps
    BY DEF EarlySteps
  <1> QED
    BY <1>1, <1>2, <1>3, <1>4, <1>5, <1>6, <1>7, WriteStep

\* File::create of data.bin and of meta.json.
LEMMA FileCreateStep ==
    ASSUME IInv, NEW w \in Writers, file_create(w)
    PROVE  IInv'
  <1> DEFINE i == target[w]
  <1>1. Shapes /\ w \in Threads
    BY DEF IInv, Threads
  <1>2. i \in Indices /\ Early(w) /\ dirs[i].exists
    BY <1>1 DEF Shapes, Early, file_create
  <1>3. target' = [target EXCEPT ![w] = i]
        /\ UNCHANGED <<scan, victims, result, acked, faults>>
    BY <1>1 DEF Shapes, file_create
  <1>4. detached' = detached \ {w}
    BY NotDetached DEF file_create
  <1>5. spoiled' = spoiled \cup Overlapped(w)
    BY DEF file_create
  <1>6. \A v \in Writers : v # w /\ Midway(v) /\ target[v] = i => i \in spoiled'
    BY <1>5 DEF Overlapped
  <1>7. spoiled \subseteq spoiled' /\ spoiled' \subseteq Indices
    BY <1>1, <1>2, <1>5 DEF Shapes, Overlapped
  <1>8. CASE pc[w] = "data_create"
    <2> DEFINE d == [exists |-> dirs[i].exists, data |-> Partial, meta |-> dirs[i].meta]
    <2>1. d \in DirRec /\ dirs' = [dirs EXCEPT ![i] = d]
      BY <1>1, <1>2, <1>8, FieldChanges DEF File, file_create
    <2>2. d.exists /\ d.data = Partial /\ d.meta = dirs[i].meta
      BY <1>2
    <2> HIDE DEF d
    <2>3. Goto(w, "data_write") /\ "data_write" \in EarlySteps
      BY <1>8 DEF file_create, EarlySteps
    <2>4. IntactAt(d, "data_write", w)
      BY <2>2 DEF IntactAt
    <2> QED
      BY <1>2, <1>3, <1>4, <1>6, <1>7, <1>8, <2>1, <2>2, <2>3, <2>4, WriteStep
  <1>9. CASE pc[w] = "meta_create"
    <2> DEFINE d == [exists |-> dirs[i].exists, data |-> dirs[i].data, meta |-> Partial]
    <2>1. d \in DirRec /\ dirs' = [dirs EXCEPT ![i] = d]
      BY <1>1, <1>2, <1>9, FieldChanges DEF File, file_create
    <2>2. d.exists /\ d.data = dirs[i].data /\ d.meta = Partial
      BY <1>2
    <2> HIDE DEF d
    <2>3. Goto(w, "meta_write") /\ "meta_write" \in EarlySteps
      BY <1>9 DEF file_create, EarlySteps
    <2>4. Intact(w) => IntactAt(d, "meta_write", w)
      BY <1>9, <2>2 DEF IntactAt, Intact
    <2> QED
      BY <1>2, <1>3, <1>4, <1>6, <1>7, <1>9, <2>1, <2>2, <2>3, <2>4, WriteStep
  <1> QED
    BY <1>8, <1>9 DEF file_create

\* Only this writer is midway in an entry that is not spoiled.
LEMMA AloneUnlessSpoiled ==
    ASSUME IInv, NEW w \in Writers, Midway(w)
    PROVE  \A v \in Writers : v # w /\ Midway(v) /\ target[v] = target[w]
               => target[w] \in spoiled
  BY DEF IInv, Orderly, Exclusive

\* write_all and sync_all of data.bin.
LEMMA DataWriteStep ==
    ASSUME IInv, NEW w \in Writers, data_write(w)
    PROVE  IInv'
  <1> DEFINE i == target[w]
  <1>1. PICK f \in Fill(w, dirs[i].data) : dirs' = [dirs EXCEPT ![i].data = f]
    BY DEF data_write
  <1> DEFINE d == [exists |-> dirs[i].exists, data |-> f, meta |-> dirs[i].meta]
  <1>2. Shapes /\ w \in Threads
    BY DEF IInv, Threads
  <1>3. i \in Indices /\ pc[w] = "data_write" /\ Early(w) /\ Midway(w)
    BY <1>2 DEF Shapes, Early, Midway, data_write
  <1>4. target' = [target EXCEPT ![w] = i] /\ Goto(w, "meta_create")
        /\ detached' = detached \ {w}
        /\ UNCHANGED <<scan, victims, result, acked, spoiled, faults>>
    BY <1>2 DEF Shapes, data_write, history
  <1>5. f \in {dirs[i].data, w, Mixed} /\ dirs[i] \in DirRec
    BY <1>2, <1>3 DEF Fill, Shapes
  <1>6. f \in File
    BY <1>5 DEF File, DirRec
  <1>7. i \notin spoiled /\ Intact(w) => f = w
    BY <1>3 DEF Fill, Intact, IInv, Orderly, OpenFiles
  <1>8. d \in DirRec /\ dirs' = [dirs EXCEPT ![i] = d]
    BY <1>1, <1>2, <1>3, <1>6, FieldChanges
  <1>9. d.exists = dirs[i].exists /\ d.data = f /\ d.meta = dirs[i].meta
    OBVIOUS
  <1> HIDE DEF d
  <1>10. i \notin spoiled /\ Intact(w) => IntactAt(d, "meta_create", w)
    BY <1>7, <1>9 DEF IntactAt, Intact
  <1>11. "meta_create" \in EarlySteps
    BY DEF EarlySteps
  <1>12. spoiled \subseteq spoiled' /\ spoiled' \subseteq Indices
         /\ \A v \in Writers : v # w /\ Midway(v) /\ target[v] = i => i \in spoiled'
    BY <1>2, <1>3, <1>4, AloneUnlessSpoiled DEF Shapes
  <1> QED
    BY <1>3, <1>4, <1>5, <1>8, <1>9, <1>10, <1>11, <1>12, WriteStep

\* write_all and sync_all of meta.json.
LEMMA MetaWriteStep ==
    ASSUME IInv, NEW w \in Writers, meta_write(w)
    PROVE  IInv'
  <1> DEFINE i == target[w]
  <1>1. PICK f \in Fill(w, dirs[i].meta) : dirs' = [dirs EXCEPT ![i].meta = f]
    BY DEF meta_write
  <1> DEFINE d == [exists |-> dirs[i].exists, data |-> dirs[i].data, meta |-> f]
  <1>2. Shapes /\ w \in Threads /\ Absent \notin {Partial, Mixed} /\ w \notin {Partial, Mixed}
    BY CatalogAssumption DEF IInv, Threads
  <1>3. i \in Indices /\ pc[w] = "meta_write" /\ Early(w) /\ Midway(w)
    BY <1>2 DEF Shapes, Early, Midway, meta_write
  <1>4. target' = [target EXCEPT ![w] = i] /\ Goto(w, "sha256")
        /\ detached' = detached \ {w}
        /\ UNCHANGED <<scan, victims, result, acked, spoiled, faults>>
    BY <1>2 DEF Shapes, meta_write, history
  <1>5. f \in {dirs[i].meta, w, Mixed} /\ dirs[i] \in DirRec
    BY <1>2, <1>3 DEF Fill, Shapes
  <1>6. f \in File
    BY <1>5 DEF File, DirRec
  <1>7. i \notin spoiled => f = IF w \in detached THEN Absent ELSE w
    BY <1>3 DEF Fill, IInv, Orderly, OpenFiles
  <1>8. d \in DirRec /\ dirs' = [dirs EXCEPT ![i] = d]
    BY <1>1, <1>2, <1>3, <1>6, FieldChanges
  <1>9. d.exists = dirs[i].exists /\ d.data = dirs[i].data /\ d.meta = f
    OBVIOUS
  <1> HIDE DEF d
  <1>10. i \notin spoiled /\ Intact(w) => d.data = w /\ d.meta = w
    BY <1>3, <1>7, <1>9 DEF Intact
  <1>11. spoiled \subseteq spoiled' /\ spoiled' \subseteq Indices
         /\ \A v \in Writers : v # w /\ Midway(v) /\ target[v] = i => i \in spoiled'
    BY <1>2, <1>3, <1>4, AloneUnlessSpoiled DEF Shapes
  <1>12. i \notin spoiled' => d.meta \notin {Partial, Mixed}
    BY <1>2, <1>4, <1>7, <1>9
  <1> QED
    BY <1>3, <1>4, <1>5, <1>8, <1>9, <1>10, <1>11, <1>12, WriteStep

\* write_all is part of the way: that is seen only in a spoiled entry.
LEMMA WritePartStep ==
    ASSUME IInv, NEW w \in Writers, write_part(w)
    PROVE  IInv'
  <1> DEFINE i == target[w]
  <1> DEFINE d == IF pc[w] = "data_write"
                  THEN [exists |-> dirs[i].exists, data |-> Mixed, meta |-> dirs[i].meta]
                  ELSE [exists |-> dirs[i].exists, data |-> dirs[i].data, meta |-> Mixed]
  <1>1. Shapes /\ w \in Threads /\ Writers \subseteq Threads
        /\ {Absent, Partial, Mixed} \cap Writers = {} /\ Mixed # Absent
    BY CatalogAssumption DEF IInv, Threads
  <1>2. /\ pc[w] \in {"data_write", "meta_write"} /\ w \notin detached
        /\ UNCHANGED <<pc, target, scan, victims, result, detached, acked, spoiled, faults>>
    BY DEF write_part, history
  <1>3. i \in Indices /\ Midway(w) /\ Early(w) /\ Active(w)
    BY <1>1, <1>2 DEF Shapes, Midway, Early, Active
  <1>4. i \in spoiled
    <2>1. CASE \E v \in Writers \ ({w} \cup detached) : pc[v] = pc[w] /\ target[v] = i
      <3>1. PICK v \in Writers : v # w /\ pc[v] = pc[w] /\ target[v] = i
        BY <2>1
      <3>2. Midway(v)
        BY <1>2, <3>1 DEF Midway
      <3> QED
        BY <1>3, <3>1, <3>2, AloneUnlessSpoiled
    <2>2. CASE (IF pc[w] = "data_write" THEN dirs[i].data ELSE dirs[i].meta) \in Writers
      BY <1>1, <1>2, <2>2 DEF IInv, Orderly, OpenFiles
    <2> QED
      BY <2>1, <2>2 DEF write_part
  <1>5. d \in DirRec /\ dirs' = [dirs EXCEPT ![i] = d]
    <2>1. Mixed \in File
      BY DEF File
    <2>2. CASE pc[w] = "data_write"
      BY <1>1, <1>3, <2>1, <2>2, FieldChanges DEF write_part
    <2>3. CASE pc[w] # "data_write"
      BY <1>1, <1>3, <2>1, <2>3, FieldChanges DEF write_part
    <2> QED
      BY <2>2, <2>3
  <1>6. /\ d.data \in {dirs[i].data, Mixed} /\ d.meta \in {dirs[i].meta, Mixed}
        /\ d.meta = Absent <=> dirs[i].meta = Absent
    <2>1. d.meta # dirs[i].meta => pc[w] = "meta_write" /\ d.meta = Mixed
      BY <1>2
    <2>2. pc[w] = "meta_write" => dirs[i].meta # Absent
      BY <1>1, CatalogAssumption DEF write_part
    <2>3. d.data \in {dirs[i].data, Mixed}
      OBVIOUS
    <2> HIDE DEF d
    <2> QED
      BY <1>1, <2>1, <2>2, <2>3
  <1> HIDE DEF d
  <1>7. /\ dirs' \in [Indices -> DirRec]
        /\ \A j \in Indices : dirs'[j] = IF j = i THEN d ELSE dirs[j]
    BY <1>1, <1>3, <1>5, DirMoves
  <1>8. Shapes'
    BY <1>1, <1>2, <1>7 DEF Shapes
  <1>9. Moves(w)
    BY <1>2 DEF Moves
  <1>10. Origins' /\ \A t \in Threads : Found(t)' \subseteq Found(t)
    <2>1. \A j \in Indices, v \in Writers :
              dirs'[j].data = v \/ dirs'[j].meta = v => dirs[j].data = v \/ dirs[j].meta = v
      BY <1>1, <1>6, <1>7
    <2> QED
      BY <1>2, <1>3, <1>8, <1>9, <2>1, WriterFrame DEF Active
  <1>11. \A j \in Indices \ spoiled : dirs'[j] = dirs[j]
    BY <1>4, <1>7
  <1>12. \A v \in Writers : /\ Active(v)' <=> Active(v)
                            /\ Early(v)' <=> Early(v)
                            /\ Midway(v)' <=> Midway(v)
    BY <1>2 DEF Active, Early, Midway
  <1>13. \A v \in Writers : pc[v] # "idle" => target[v] \in Indices
    BY <1>1 DEF Shapes
  <1>14. Orderly'
    <2>1. OpenFiles'
      BY <1>2, <1>11, <1>13 DEF IInv, Orderly, OpenFiles
    <2>2. Exclusive'
      BY <1>2, <1>12 DEF IInv, Orderly, Exclusive
    <2>3. PartialIsOwned'
      BY <1>2, <1>11 DEF IInv, Orderly, PartialIsOwned
    <2> QED
      BY <2>1, <2>2, <2>3 DEF Orderly
  <1>15. Kept'
    <2>1. PICK m \in Indices \cup {0} : Newest(m)
      BY DEF IInv, Kept
    <2>2. \A j \in Indices : dirs'[j].meta \in Writers => j <= m
      BY <1>1, <1>6, <1>7, <2>1 DEF Newest
    <2>3. \A v \in Writers : Early(v) /\ target[v] \notin spoiled /\ Intact(v) => Intact(v)'
      BY <1>2, <1>11, <1>13 DEF Intact, Early
    <2>4. m \in Indices => \/ m \in spoiled
                           \/ Complete(m)'
                           \/ \E v \in Writers : Midway(v) /\ target[v] = m
      BY <1>11, <2>1 DEF Newest, Complete
    <2>5. Newest(m)'
      BY <1>2, <1>3, <1>8, <1>9, <1>10, <1>12, <2>1, <2>2, <2>3, <2>4, NewestStays DEF Newest
    <2> QED
      BY <2>5 DEF Kept
  <1>16. Bounded'
    <2>1. Listable' = Listable
      BY <1>6, <1>7 DEF Listable
    <2> QED
      BY <1>2, <1>3, <1>8, <1>9, <1>12, <2>1, BoundedStays DEF WillPrune, Active
  <1> QED
    BY <1>8, <1>10, <1>14, <1>15, <1>16 DEF IInv

\* A file operation of the write fails: the call is over, and if it was midway
\* its entry is spoiled.
LEMMA WriteErrorStep ==
    ASSUME IInv, NEW w \in Writers, write_error(w)
    PROVE  IInv'
  <1> DEFINE i == target[w]
  <1>1. Shapes
    BY DEF IInv
  <1>2. /\ Active(w) /\ Returned(w, "err") /\ scan' = [scan EXCEPT ![w] = NoScan]
        /\ detached' = detached \ {w} /\ UNCHANGED <<target, victims, acked>>
        /\ spoiled' = IF Midway(w) THEN spoiled \cup {i} ELSE spoiled
        /\ faults' = faults + 1 /\ faults < MaxFaults
    BY DEF write_error, Active, Midway
  <1>3. i \in Indices
    BY <1>1, <1>2 DEF Shapes, Active
  <1>4. dirs[i] \in DirRec
    BY <1>1, <1>3 DEF Shapes
  <1>5. PICK d \in DirRec :
            /\ dirs' = [dirs EXCEPT ![i] = d]
            /\ \/ d = dirs[i]
               \/ /\ Midway(w) /\ d.exists = dirs[i].exists
                  /\ d.data \in {dirs[i].data, w, Mixed} /\ d.meta \in {dirs[i].meta, w, Mixed}
    <2>1. CASE UNCHANGED dirs
      <3>1. dirs' = [dirs EXCEPT ![i] = dirs[i]]
        BY <1>1, <2>1 DEF Shapes
      <3> QED
        BY <1>4, <3>1
    <2>2. ASSUME pc[w] = "data_write", NEW c \in Fill(w, dirs[i].data),
                 dirs' = [dirs EXCEPT ![i].data = c]
          PROVE  \E d \in DirRec :
                     /\ dirs' = [dirs EXCEPT ![i] = d]
                     /\ Midway(w) /\ d.exists = dirs[i].exists
                     /\ d.data \in {dirs[i].data, w, Mixed} /\ d.meta = dirs[i].meta
      <3>1. c \in {dirs[i].data, w, Mixed}
        BY DEF Fill
      <3>2. c \in File
        BY <1>4, <3>1 DEF File, DirRec
      <3> DEFINE d == [exists |-> dirs[i].exists, data |-> c, meta |-> dirs[i].meta]
      <3>3. d \in DirRec /\ dirs' = [dirs EXCEPT ![i] = d]
        BY <1>1, <1>3, <2>2, <3>2, FieldChanges
      <3>4. d.exists = dirs[i].exists /\ d.data = c /\ d.meta = dirs[i].meta
        OBVIOUS
      <3> HIDE DEF d
      <3> QED
        BY <2>2, <3>1, <3>3, <3>4 DEF Midway
    <2>3. ASSUME pc[w] = "meta_write", NEW c \in Fill(w, dirs[i].meta),
                 dirs' = [dirs EXCEPT ![i].meta = c]
          PROVE  \E d \in DirRec :
                     /\ dirs' = [dirs EXCEPT ![i] = d]
                     /\ Midway(w) /\ d.exists = dirs[i].exists
                     /\ d.data = dirs[i].data /\ d.meta \in {dirs[i].meta, w, Mixed}
      <3>1. c \in {dirs[i].meta, w, Mixed}
        BY DEF Fill
      <3>2. c \in File
        BY <1>4, <3>1 DEF File, DirRec
      <3> DEFINE d == [exists |-> dirs[i].exists, data |-> dirs[i].data, meta |-> c]
      <3>3. d \in DirRec /\ dirs' = [dirs EXCEPT ![i] = d]
        BY <1>1, <1>3, <2>3, <3>2, FieldChanges
      <3>4. d.exists = dirs[i].exists /\ d.data = dirs[i].data /\ d.meta = c
        OBVIOUS
      <3> HIDE DEF d
      <3> QED
        BY <2>3, <3>1, <3>3, <3>4 DEF Midway
    <2> QED
      BY <2>1, <2>2, <2>3 DEF write_error
  <1>6. /\ spoiled \subseteq spoiled' /\ spoiled' \subseteq Indices
        /\ Midway(w) => i \in spoiled'
        /\ faults' \in 0 .. MaxFaults
    <2>1. faults \in 0 .. MaxFaults /\ MaxFaults \in Nat
      BY <1>1, CatalogAssumption DEF Shapes
    <2>2. faults' \in 0 .. MaxFaults
      BY <1>2, <2>1
    <2>3. spoiled \subseteq Indices
      BY <1>1 DEF Shapes
    <2> HIDE DEF i
    <2> QED
      BY <1>2, <1>3, <2>2, <2>3 DEF i
  <1> HIDE DEF i
  <1> QED
    BY <1>2, <1>5, <1>6, WriterFails DEF i

\* prune unlinks data.bin or meta.json of an entry it removes.
LEMMA RemoveFileStep ==
    ASSUME IInv, NEW w \in Writers, remove_file(w)
    PROVE  IInv'
  <1>1. PICK i \in Indices, f \in Names :
            /\ <<i, f>> \in victims[w]
            /\ dirs' = IF f = "data" THEN [dirs EXCEPT ![i].data = Absent]
                                     ELSE [dirs EXCEPT ![i].meta = Absent]
            /\ victims' = [victims EXCEPT ![w] = @ \ {<<i, f>>}]
            /\ detached' = detached \cup {v \in Writers :
                   target[v] = i /\ pc[v] = IF f = "data" THEN "data_write" ELSE "meta_write"}
    BY DEF remove_file, history
  <1>2. Shapes /\ Absent \in File
    BY DEF IInv, File
  <1>3. pc[w] = "remove" /\ UNCHANGED <<pc, target, scan, result, acked, spoiled, faults>>
    BY DEF remove_file, history
  <1>4. PICK x \in victims[w] : /\ x[1] = i /\ x[2] = f
                                /\ victims' = [victims EXCEPT ![w] = @ \ {x}]
    BY <1>1
  <1>5. detached' = detached \cup {v \in Writers : target[v] = i /\ OpenAt(v, x[2])}
    BY <1>1, <1>4 DEF Names, OpenAt
  <1>6. CASE f = "data"
    <2> DEFINE d == [exists |-> dirs[i].exists, data |-> Absent, meta |-> dirs[i].meta]
    <2>1. d \in DirRec /\ dirs' = [dirs EXCEPT ![i] = d]
      BY <1>1, <1>2, <1>6, FieldChanges
    <2>2. d.data = Absent /\ d.meta = dirs[i].meta
      OBVIOUS
    <2> HIDE DEF d
    <2> QED
      BY <1>3, <1>4, <1>5, <1>6, <2>1, <2>2, RemoveStep
  <1>7. CASE f = "meta"
    <2> DEFINE d == [exists |-> dirs[i].exists, data |-> dirs[i].data, meta |-> Absent]
    <2>1. d \in DirRec /\ dirs' = [dirs EXCEPT ![i] = d]
      BY <1>1, <1>2, <1>7, FieldChanges
    <2>2. d.data = dirs[i].data /\ d.meta = Absent
      OBVIOUS
    <2> HIDE DEF d
    <2> QED
      BY <1>3, <1>4, <1>5, <1>7, <2>1, <2>2, RemoveStep
  <1> QED
    BY <1>6, <1>7 DEF Names

\* prune removes the directory, if it is empty.
LEMMA RemoveDirStep ==
    ASSUME IInv, NEW w \in Writers, remove_dir(w)
    PROVE  IInv'
  <1>1. PICK i \in Indices :
            /\ <<i, "dir">> \in victims[w]
            /\ dirs' = [dirs EXCEPT ![i].exists = dirs[i].data # Absent \/ dirs[i].meta # Absent]
            /\ victims' = [victims EXCEPT ![w] = @ \ {<<i, "dir">>}]
    BY DEF remove_dir, history
  <1> DEFINE e == dirs[i].data # Absent \/ dirs[i].meta # Absent
  <1> DEFINE d == [exists |-> e, data |-> dirs[i].data, meta |-> dirs[i].meta]
  <1>2. Shapes /\ e \in BOOLEAN /\ Absent \in File
    BY DEF IInv, File
  <1>3. pc[w] = "remove" /\ UNCHANGED <<pc, target, scan, result, detached, acked, spoiled, faults>>
    BY DEF remove_dir, history
  <1>4. dirs' = [dirs EXCEPT ![i].exists = e]
    BY <1>1
  <1> HIDE DEF e
  <1>5. d \in DirRec /\ dirs' = [dirs EXCEPT ![i] = d]
    BY <1>2, <1>4, FieldChanges
  <1>6. d.data = dirs[i].data /\ d.meta = dirs[i].meta
    OBVIOUS
  <1>7. PICK x \in victims[w] : /\ x[1] = i /\ x[2] = "dir"
                                /\ victims' = [victims EXCEPT ![w] = @ \ {x}]
    BY <1>1
  <1>8. detached' = detached \cup {v \in Writers : target[v] = i /\ OpenAt(v, x[2])}
    BY <1>3, <1>7 DEF OpenAt
  <1> HIDE DEF d
  <1> QED
    BY <1>3, <1>5, <1>6, <1>7, <1>8, RemoveStep

\* A kill: calls end, files stay or, with their directory, are lost.
LEMMA CrashStep ==
    ASSUME IInv, NEW lost \in SUBSET Indices, Crash(lost)
    PROVE  IInv'
  <1>1. Shapes /\ Writers \subseteq Threads /\ Readers \subseteq Threads
        /\ \A r \in Readers : r \notin Writers
    BY CatalogAssumption DEF IInv, Threads
  <1>2. /\ dirs' = [i \in Indices |-> IF i \in lost THEN NoDir ELSE dirs[i]]
        /\ scan' = [t \in Threads |-> NoScan]
        /\ victims' = [w \in Writers |-> {}]
        /\ result' = [t \in Threads |-> IF t \in Readers THEN Absent ELSE result[t]]
        /\ UNCHANGED <<target, acked>>
        /\ detached' = {}
        /\ spoiled' = spoiled \cup lost \cup {target[w] : w \in {v \in Writers : Midway(v)}}
        /\ faults' = faults + 1 /\ faults < MaxFaults
    BY DEF Crash
  <1>3. pc' = [t \in Threads |-> IF t \in Writers /\ pc[t] \notin {"idle", "returned"}
                                 THEN "killed"
                                 ELSE IF t \in Readers THEN "idle" ELSE pc[t]]
    BY DEF Crash
  <1>4. faults' # 0 /\ faults' \in 0 .. MaxFaults
    BY <1>1, <1>2, CatalogAssumption DEF Shapes
  <1>5. dirs' \in [Indices -> DirRec]
    <2>1. NoDir \in DirRec
      BY DEF NoDir, DirRec, File
    <2> QED
      BY <1>1, <1>2, <2>1 DEF Shapes
  <1>6. \A w \in Writers : /\ pc'[w] \in {"idle", "returned", "killed"}
                           /\ pc'[w] = "idle" <=> pc[w] = "idle"
    BY <1>1, <1>3 DEF Shapes
  <1>7. \A r \in Readers : pc'[r] = "idle" /\ result'[r] = Absent
    BY <1>1, <1>2, <1>3
  <1>8. pc' \in [Threads -> Pcs]
    <2>1. \A t \in Threads : pc'[t] \in Pcs
      BY <1>6, <1>7 DEF Threads, Pcs, WriterSteps, ReaderSteps
    <2> QED
      BY <1>3, <2>1
  <1>9. Shapes'
    <2>1. scan' \in [Threads -> ScanRec]
      BY <1>2, ScanRecs
    <2>2. DOMAIN result' = Threads
      BY <1>2
    <2>3. victims' \in [Writers -> SUBSET (Indices \X (Names \cup {"dir"}))]
      BY <1>2
    <2>4. \A w \in Writers : /\ pc'[w] \in WriterSteps \cup {"idle", "killed"}
                             /\ pc'[w] # "idle" => target'[w] \in Indices
      BY <1>1, <1>2, <1>6 DEF Shapes, WriterSteps
    <2>5. \A r \in Readers : pc'[r] \in ReaderSteps
      BY <1>7 DEF ReaderSteps
    <2>6. spoiled' \subseteq Indices
      BY <1>1, <1>2 DEF Shapes, Midway
    <2> QED
      BY <1>1, <1>2, <1>4, <1>5, <1>8, <2>1, <2>2, <2>3, <2>4, <2>5, <2>6 DEF Shapes, Pcs
  <1>10. Origins'
    <2>1. WroteStays
      BY <1>2, <1>6 DEF WroteStays, Wrote
    <2>2. FindsMetas
      BY <1>2, ScanRecs DEF FindsMetas
    <2>3. ReadsBytes
      BY <1>7 DEF ReadsBytes
    <2>4. ASSUME NEW i \in Indices, NEW w \in Writers, dirs'[i].data = w \/ dirs'[i].meta = w
          PROVE  Wrote(w, i)'
      <3>1. NoDir.data \notin Writers /\ NoDir.meta \notin Writers
        BY CatalogAssumption DEF NoDir
      <3>2. dirs'[i] = dirs[i]
        BY <1>2, <2>4, <3>1
      <3> QED
        BY <2>1, <2>4, <3>2 DEF IInv, Origins, WroteStays
    <2> QED
      BY <1>1, <1>9, <2>1, <2>2, <2>3, <2>4, OriginsStay DEF IInv
  <1>11. \A w \in Writers : ~Active(w)' /\ ~Early(w)' /\ ~Midway(w)'
    BY <1>6 DEF Active, Early, Midway
  <1>12. \A i \in Indices \ spoiled' : dirs'[i] = dirs[i]
    BY <1>2
  <1>13. \A w \in Writers : Midway(w) => target[w] \in spoiled'
    BY <1>2
  <1>14. Orderly'
    <2>1. Exclusive'
      BY <1>11 DEF Exclusive
    <2>2. OpenFiles'
      BY <1>2, <1>6 DEF OpenFiles
    <2>3. PartialIsOwned'
      <3> SUFFICES ASSUME NEW i \in Indices \ spoiled', dirs'[i].meta \in {Partial, Mixed}
                   PROVE  FALSE
        BY DEF PartialIsOwned
      <3>1. i \notin spoiled /\ dirs[i].meta \in {Partial, Mixed}
        BY <1>2, <1>12
      <3>2. PICK w \in Writers : pc[w] = "meta_write" /\ target[w] = i
        BY <3>1 DEF IInv, Orderly, PartialIsOwned
      <3> QED
        BY <1>13, <3>2 DEF Midway
    <2> QED
      BY <2>1, <2>2, <2>3 DEF Orderly
  <1>15. Kept'
    <2>1. PICK m \in Indices \cup {0} : Newest(m)
      BY DEF IInv, Kept
    <2>2. \A i \in Indices : dirs'[i].meta \in Writers => i <= m
      <3>1. NoDir.meta \notin Writers
        BY CatalogAssumption DEF NoDir
      <3> QED
        BY <1>2, <2>1, <3>1 DEF Newest
    <2>3. \A t \in Threads : Found(t)' = {}
      BY <1>2, ScanRecs DEF Found
    <2>4. (\A a \in acked' : a[1] <= m) /\ \A w \in Writers : victims'[w] = {}
      BY <1>2, <2>1 DEF Newest
    <2>5. m \in Indices => m \in spoiled' \/ Complete(m)'
      <3> SUFFICES ASSUME m \in Indices, m \notin spoiled' PROVE Complete(m)'
        OBVIOUS
      <3>1. Complete(m)' <=> Complete(m)
        BY <1>12 DEF Complete
      <3>2. m \notin spoiled
        BY <1>2
      <3> QED
        BY <1>13, <2>1, <3>1, <3>2 DEF Newest
    <2>6. Newest(m)'
      BY <1>11, <2>2, <2>3, <2>4, <2>5 DEF Newest
    <2> QED
      BY <2>6 DEF Kept
  <1>16. Bounded'
    BY <1>4 DEF Bounded
  <1> QED
    BY <1>9, <1>10, <1>14, <1>15, <1>16 DEF IInv

-----------------------------------------------------------------------------
(***************************************************************************)
(* Every step.                                                             *)
(***************************************************************************)
\* An error that leaves the files alone.
LEMMA FilesAsTheyAre ==
    ASSUME IInv, NEW w \in Writers, Active(w), pc[w] \notin {"data_write", "meta_write"}
    PROVE  /\ detached = detached \ {w}
           /\ dirs[target[w]] \in DirRec
           /\ dirs = [dirs EXCEPT ![target[w]] = dirs[target[w]]]
           /\ spoiled \subseteq Indices /\ faults \in 0 .. MaxFaults
  <1>1. target[w] \in Indices
    BY DEF IInv, Shapes, Active
  <1> QED
    BY <1>1, NotDetached DEF IInv, Shapes

\* The invariant is inductive.
LEMMA NextIInv == IInv /\ [Next]_vars => IInv'
  <1> SUFFICES ASSUME IInv, [Next]_vars PROVE IInv'
    OBVIOUS
  <1>1. CASE UNCHANGED vars
    <2>1. Shapes'
      BY <1>1 DEF vars, IInv, Shapes, history
    <2>2. FindsMetas /\ ReadsBytes
      BY <1>1 DEF vars, FindsMetas, ReadsBytes, history
    <2>3. \A w \in Writers : WillPrune(w) => WillPrune(w)'
      BY <1>1 DEF vars, WillPrune, Early, Listable, Found, ToRemove, history
    <2> QED
      BY <1>1, <2>1, <2>2, <2>3, ScanStep DEF vars, history
  <1>2. ASSUME NEW t \in Threads, list_exists(t) PROVE IInv'
    BY <1>2, ListExistsStep
  <1>3. ASSUME NEW t \in Threads, list_read(t) PROVE IInv'
    BY <1>3, ListReadStep
  <1>4. ASSUME NEW t \in Threads, list_error(t) PROVE IInv'
    <2>1. Scanning(t) /\ Returned(t, "err") /\ scan' = [scan EXCEPT ![t] = NoScan]
          /\ UNCHANGED <<dirs, target, victims, detached, acked, spoiled, faults>>
      BY <1>4 DEF list_error, history
    <2>2. CASE t \in Readers
      BY <2>1, <2>2, ReaderReturns
    <2>3. CASE t \in Writers
      <3>1. Active(t) /\ ~Midway(t) /\ pc[t] \notin {"data_write", "meta_write"}
        BY <2>1 DEF Scanning, Active, Midway
      <3> QED
        BY <2>1, <2>3, <3>1, FilesAsTheyAre, WriterFails
    <2> QED
      BY <2>2, <2>3 DEF Threads
  <1>5. ASSUME NEW w \in Writers, file_create_error(w) PROVE IInv'
    <2>1. /\ Active(w) /\ pc[w] \notin {"data_write", "meta_write"}
          /\ Returned(w, "err") /\ ~dirs[target[w]].exists
          /\ UNCHANGED <<dirs, target, scan, victims, detached, acked, spoiled, faults>>
      BY <1>5 DEF file_create_error, Active, history
    <2> QED
      BY <2>1, FilesAsTheyAre, WriterFails
  <1>6. ASSUME NEW w \in Writers, create_dir(w) PROVE IInv'
    BY <1>6, CreateDirStep
  <1>7. ASSUME NEW w \in Writers, file_create(w) PROVE IInv'
    BY <1>7, FileCreateStep
  <1>8. ASSUME NEW w \in Writers, data_write(w) PROVE IInv'
    BY <1>8, DataWriteStep
  <1>9. ASSUME NEW w \in Writers, meta_write(w) PROVE IInv'
    BY <1>9, MetaWriteStep
  <1>10. ASSUME NEW w \in Writers, write_part(w) PROVE IInv'
    BY <1>10, WritePartStep
  <1>11. ASSUME NEW w \in Writers, write_error(w) PROVE IInv'
    BY <1>11, WriteErrorStep
  <1>12. ASSUME NEW w \in Writers, sha256_write(w) PROVE IInv'
    BY <1>12, Sha256Step
  <1>13. ASSUME NEW w \in Writers, prune_select(w) PROVE IInv'
    BY <1>13, PruneSelectStep
  <1>14. ASSUME NEW w \in Writers, remove_file(w) PROVE IInv'
    BY <1>14, RemoveFileStep
  <1>15. ASSUME NEW w \in Writers, remove_dir(w) PROVE IInv'
    BY <1>15, RemoveDirStep
  <1>16. ASSUME NEW w \in Writers, write_ok(w) PROVE IInv'
    BY <1>16, WriteOkStep
  <1>17. ASSUME NEW r \in Readers, start_latest(r) \/ latest(r) \/ find(r) \/ load(r)
         PROVE  IInv'
    BY <1>17, ReadStep
  <1>18. ASSUME NEW lost \in SUBSET Indices, Crash(lost) PROVE IInv'
    BY <1>18, CrashStep
  <1>19. CASE Next
    BY <1>2, <1>3, <1>4, <1>5, <1>6, <1>7, <1>8, <1>9, <1>10, <1>11, <1>12, <1>13, <1>14,
       <1>15, <1>16, <1>17, <1>18, <1>19 DEF Next
  <1> QED
    BY <1>1, <1>19

\* It holds throughout.
LEMMA Invariant == Spec => []IInv
  BY InitIInv, NextIInv, PTL DEF Spec

-----------------------------------------------------------------------------
(***************************************************************************)
(* Theorems.                                                               *)
(***************************************************************************)
\* The shape of the catalog's files and of the calls on it, for any number of
\* writers, readers and indices.
THEOREM TypeCorrect == Spec => []TypeOK
  <1>1. IInv => TypeOK
    <2> SUFFICES ASSUME Shapes, OpenFiles PROVE TypeOK
      BY DEF IInv, Orderly
    <2>1. dirs \in [Indices -> [exists : BOOLEAN, data : File, meta : File]]
      BY DEF Shapes, DirRec
    <2>2. \A t \in Threads : /\ scan[t].todo \subseteq Indices
                             /\ scan[t].look \in Indices \cup {0}
                             /\ scan[t].found \subseteq Indices \X Writers
                             /\ target[t] \in Indices \cup {0}
      BY DEF Shapes, ScanRec
    <2>3. \A w \in Writers : victims[w] \subseteq Indices \X (Names \cup {"dir"})
      BY DEF Shapes
    <2>4. detached \subseteq Writers
      BY DEF OpenFiles
    <2> QED
      BY <2>1, <2>2, <2>3, <2>4 DEF Shapes, TypeOK
  <1> QED
    BY <1>1, Invariant, PTL

\* A read that succeeds returns the whole bytes of one write to its index,
\* whatever writers, prunes, errors and kills do meanwhile: load compares the hash in
\* the meta.json it listed with the bytes it read (SnapshotCatalog::read).
THEOREM ReadsWhole == Spec => []ReadsAreWhole
  <1>1. IInv => ReadsAreWhole
    BY DEF IInv, Origins, ReadsAreWhole, Wrote
  <1> QED
    BY <1>1, Invariant, PTL

\* Once writers are quiet, an acknowledged snapshot or a newer one is complete,
\* and list can decode every meta.json, through overlapping writes and prunes,
\* failing operations and kills, except in the very entries those have spoiled:
\* no prune, however many run at once, selects the newest entry that was ever
\* listed, and what a write leaves of its own files when it is cut short is in
\* no other entry (SnapshotCatalog::write, prune, list).
THEOREM AckedServed == Spec => []AckedIsServed
  <1>1. IInv => AckedIsServed
    <2> SUFFICES ASSUME IInv, Quiet
                 PROVE  /\ \A a \in acked : \E i \in Indices :
                               i >= a[1] /\ (Complete(i) \/ i \in spoiled)
                        /\ \A i \in Indices \ spoiled : dirs[i].meta \in Writers \cup {Absent}
      BY DEF AckedIsServed
    <2>1. \A w \in Writers : ~Midway(w) /\ pc[w] # "meta_write"
      BY DEF Quiet, Midway
    <2>2. ASSUME NEW i \in Indices \ spoiled PROVE dirs[i].meta \in Writers \cup {Absent}
      <3>1. dirs[i].meta \notin {Partial, Mixed}
        BY <2>1 DEF IInv, Orderly, PartialIsOwned
      <3> QED
        BY <3>1 DEF IInv, Shapes, DirRec, File
    <2>3. PICK m \in Indices \cup {0} : Newest(m)
      BY DEF IInv, Kept
    <2>4. ASSUME NEW a \in acked
          PROVE  \E i \in Indices : i >= a[1] /\ (Complete(i) \/ i \in spoiled)
      <3>1. a[1] \in Indices /\ a[1] \in Nat /\ a[1] # 0 /\ a[1] <= m
        BY <2>3, CatalogAssumption DEF IInv, Shapes, Newest
      <3>2. m \in Indices /\ m \in Nat
        BY <3>1, CatalogAssumption
      <3>3. m \in spoiled \/ Complete(m)
        BY <2>1, <2>3, <3>2 DEF Newest
      <3>4. m >= a[1]
        BY <3>1, <3>2
      <3> QED
        BY <3>2, <3>3, <3>4
    <2> QED
      BY <2>2, <2>4
  <1> QED
    BY <1>1, Invariant, PTL

\* Up to the first error or kill, once writers are quiet and have all returned
\* Ok there are at most keep entries, however their prunes were interleaved: the
\* last prune to list the catalog sees every entry that is there
\* (SnapshotCatalog::prune).
THEOREM PrunedToKeep == Spec => []Pruned
  <1>1. IInv => Pruned
    <2> SUFFICES ASSUME IInv, faults = 0, Quiet, AllOk PROVE Cardinality(Listable) <= keep
      BY DEF Pruned, Listable
    <2>1. \A w \in Writers : ~WillPrune(w)
      BY DEF Quiet, WillPrune, Early
    <2> QED
      BY <2>1 DEF IInv, Bounded
  <1> QED
    BY <1>1, Invariant, PTL
=============================================================================
