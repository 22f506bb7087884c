--------------------- MODULE StateMachineStore_proofs ---------------------
(***************************************************************************)
(* Proofs about the state machine bridge and its snapshots, for every log, *)
(* batch, catalog size and number of restarts.                             *)
(*                                                                         *)
(* The first part is about the operators: what ApplyRange and MembershipAt *)
(* compute, by induction over the log.  The induction is over sets of      *)
(* natural numbers (NatSetInduction), which follows from the library's     *)
(* theorem that < is well founded.  The second part is the inductive       *)
(* invariant of the snapshots and what follows from it, the last one that  *)
(* no trigger of a Standby is forgotten.                                   *)
(***************************************************************************)
EXTENDS StateMachineStore, FiniteSetTheorems, WellFoundedInduction, TLAPS

-----------------------------------------------------------------------------
(***************************************************************************)
(* Induction over the natural numbers, without an operator parameter.      *)
(***************************************************************************)

\* Every non-empty set of natural numbers has a least element.
LEMMA LeastNat ==
    ASSUME NEW T \in SUBSET Nat, T # {}
    PROVE  \E x \in T : \A y \in T : x <= y
<1>1. PICK x \in T : \A y \in T : ~(<<y, x>> \in OpToRel(<, Nat))
    BY WFMin, NatLessThanWellFounded, Zenon
<1>2. OpToRel(<, Nat) = {ss \in Nat \X Nat : ss[1] < ss[2]}
    BY Zenon DEF OpToRel
<1>3. ASSUME NEW y \in T PROVE x <= y
    <2>1. ~(<<y, x>> \in {ss \in Nat \X Nat : ss[1] < ss[2]})
        BY <1>1, <1>2, Zenon
    <2> QED BY <2>1
<1> QED BY <1>3

\* A set that has 0 and the successor of each of its elements has them all.
LEMMA NatSetInduction ==
    ASSUME NEW T \in SUBSET Nat, 0 \in T, \A n \in T : n + 1 \in T
    PROVE  T = Nat
<1> SUFFICES ASSUME Nat \ T # {} PROVE FALSE
    OBVIOUS
<1>1. PICK x \in Nat \ T : \A y \in Nat \ T : x <= y
    BY LeastNat
<1>2. x # 0 /\ x - 1 \in Nat
    BY <1>1
<1>3. x - 1 \in T
    BY <1>1, <1>2
<1> QED BY <1>1, <1>2, <1>3

\* Every non-empty set of numbers up to n has a largest element, which is Max.
LEMMA MaxOfSet ==
    ASSUME NEW n \in Nat, NEW S \in SUBSET (0 .. n), S # {}
    PROVE  Max(S) \in S /\ \A y \in S : y <= Max(S)
<1> DEFINE T == {n - s : s \in S}
<1>1. T \in SUBSET Nat /\ T # {}
    <2>1. \A s \in S : n - s \in Nat
        OBVIOUS
    <2> QED BY <2>1, Zenon
<1>2. PICK t \in T : \A y \in T : t <= y
    BY <1>1, LeastNat
<1>3. PICK s \in S : t = n - s
    BY <1>2
<1>4. \A y \in S : s >= y
    <2> SUFFICES ASSUME NEW y \in S PROVE s >= y
        OBVIOUS
    <2>1. n - y \in T
        OBVIOUS
    <2>2. n - s <= n - y
        BY <1>2, <1>3, <2>1
    <2> QED BY <2>2
<1>5. Max(S) \in S /\ \A y \in S : Max(S) >= y
    BY <1>4, Zenon DEF Max
<1> QED BY <1>5

-----------------------------------------------------------------------------
(***************************************************************************)
(* ApplyRange.                                                             *)
(***************************************************************************)

\* g holds the states of an application of entries a .. b of a log to f.
IsRun(g, f, l, a, b) ==
    g = [i \in (a - 1) .. b |-> IF i = a - 1 THEN f ELSE ApplyEntry(g[i - 1], l[i])]

\* There is such a function for every range.
LEMMA RunExists ==
    ASSUME NEW f, NEW l, NEW a \in Nat, NEW b \in Nat, a >= 1, b >= a - 1
    PROVE  \E g : IsRun(g, f, l, a, b)
<1> DEFINE T == {n \in Nat : \E g : IsRun(g, f, l, a, a - 1 + n)}
<1>1. 0 \in T
    <2> DEFINE g == [i \in (a - 1) .. (a - 1 + 0) |-> f]
    <2>1. IsRun(g, f, l, a, a - 1 + 0)
        BY DEF IsRun
    <2> QED BY <2>1
<1>2. ASSUME NEW n \in T PROVE n + 1 \in T
    <2>1. PICK g : IsRun(g, f, l, a, a - 1 + n)
        OBVIOUS
    <2> DEFINE h == [i \in (a - 1) .. (a - 1 + (n + 1)) |->
                        IF i \in (a - 1) .. (a - 1 + n) THEN g[i] ELSE ApplyEntry(g[i - 1], l[i])]
    <2>2. IsRun(h, f, l, a, a - 1 + (n + 1))
        <3> SUFFICES ASSUME NEW i \in (a - 1) .. (a - 1 + (n + 1))
                     PROVE  h[i] = IF i = a - 1 THEN f ELSE ApplyEntry(h[i - 1], l[i])
            BY DEF IsRun
        <3>1. CASE i = a - 1
            <4>1. g[i] = f
                BY <2>1, <3>1 DEF IsRun
            <4> QED BY <3>1, <4>1
        <3>2. CASE i # a - 1
            <4>1. i - 1 \in (a - 1) .. (a - 1 + n) /\ h[i - 1] = g[i - 1]
                BY <3>2
            <4>2. i \in (a - 1) .. (a - 1 + n) => g[i] = ApplyEntry(g[i - 1], l[i])
                BY <2>1, <3>2 DEF IsRun
            <4>3. h[i] = ApplyEntry(g[i - 1], l[i])
                BY <4>2
            <4> QED BY <3>2, <4>1, <4>3
        <3> QED BY <3>1, <3>2
    <2> HIDE DEF h
    <2> QED BY <2>2
<1> HIDE DEF T
<1>3. T = Nat
    <2>1. T \in SUBSET Nat
        BY DEF T
    <2> QED BY <1>1, <1>2, <2>1, NatSetInduction
<1>4. b - (a - 1) \in T /\ a - 1 + (b - (a - 1)) = b
    BY <1>3
<1> QED BY <1>4 DEF T

\* Two of them agree where both are defined.
LEMMA RunUnique ==
    ASSUME NEW f, NEW l, NEW a \in Nat, NEW b \in Nat, NEW c \in Nat, a >= 1,
           NEW g, IsRun(g, f, l, a, b), NEW h, IsRun(h, f, l, a, c)
    PROVE  \A i \in (a - 1) .. b : i <= c => g[i] = h[i]
<1> DEFINE T == {n \in Nat : a - 1 + n <= b /\ a - 1 + n <= c => g[a - 1 + n] = h[a - 1 + n]}
<1>1. 0 \in T
    BY DEF IsRun
<1>2. ASSUME NEW n \in T PROVE n + 1 \in T
    <2> SUFFICES ASSUME a - 1 + (n + 1) <= b, a - 1 + (n + 1) <= c
                 PROVE  g[a - 1 + (n + 1)] = h[a - 1 + (n + 1)]
        OBVIOUS
    <2> DEFINE i == a - 1 + (n + 1)
    <2>1. i \in (a - 1) .. b /\ i \in (a - 1) .. c /\ i # a - 1 /\ i - 1 = a - 1 + n
        OBVIOUS
    <2>2. g[i - 1] = h[i - 1]
        BY <1>2, <2>1
    <2> HIDE DEF i
    <2>3. g[i] = ApplyEntry(g[i - 1], l[i]) /\ h[i] = ApplyEntry(h[i - 1], l[i])
        BY <2>1 DEF IsRun
    <2>4. g[i] = h[i]
        BY <2>2, <2>3
    <2> QED BY <2>4 DEF i
<1> HIDE DEF T
<1>3. T = Nat
    <2>1. T \in SUBSET Nat
        BY DEF T
    <2> QED BY <1>1, <1>2, <2>1, NatSetInduction
<1>4. ASSUME NEW i \in (a - 1) .. b, i <= c PROVE g[i] = h[i]
    <2>1. i - (a - 1) \in T /\ a - 1 + (i - (a - 1)) = i
        BY <1>3
    <2> QED BY <1>4, <2>1 DEF T
<1> QED BY <1>4

\* ApplyRange is the last state of a run.
LEMMA ApplyRangeIsRun ==
    ASSUME NEW f, NEW l, NEW a \in Nat, NEW b \in Nat, a >= 1, a <= b
    PROVE  \E g : IsRun(g, f, l, a, b) /\ ApplyRange(f, l, a, b) = g[b]
<1> DEFINE g == CHOOSE g : g = [i \in (a - 1) .. b |->
                                   IF i = a - 1 THEN f ELSE ApplyEntry(g[i - 1], l[i])]
<1>1. \E r : r = [i \in (a - 1) .. b |-> IF i = a - 1 THEN f ELSE ApplyEntry(r[i - 1], l[i])]
    <2>1. \E r : IsRun(r, f, l, a, b)
        <3>1. b >= a - 1
            OBVIOUS
        <3> QED BY <3>1, RunExists
    <2> QED BY <2>1, Zenon DEF IsRun
<1>2. g = [i \in (a - 1) .. b |-> IF i = a - 1 THEN f ELSE ApplyEntry(g[i - 1], l[i])]
    BY <1>1, Zenon
<1>3. ApplyRange(f, l, a, b) = IF b < a THEN f ELSE g[b]
    BY Zenon DEF ApplyRange
<1>4. ~(b < a)
    OBVIOUS
<1> HIDE DEF g
<1> QED BY <1>2, <1>3, <1>4, Zenon DEF IsRun

\* The equations of ApplyRange: an empty range changes nothing ...
LEMMA ApplyNone ==
    ASSUME NEW f, NEW l, NEW a \in Nat, NEW b \in Nat, b < a
    PROVE  ApplyRange(f, l, a, b) = f
BY Zenon DEF ApplyRange

\* ... and the last entry is applied to the result of those before it.
LEMMA ApplyLast ==
    ASSUME NEW f, NEW l, NEW a \in Nat, NEW b \in Nat, a >= 1, a <= b
    PROVE  ApplyRange(f, l, a, b) = ApplyEntry(ApplyRange(f, l, a, b - 1), l[b])
<1>1. PICK g : IsRun(g, f, l, a, b) /\ ApplyRange(f, l, a, b) = g[b]
    BY ApplyRangeIsRun
<1>2. g[b] = ApplyEntry(g[b - 1], l[b])
    BY <1>1 DEF IsRun
<1>3. g[b - 1] = ApplyRange(f, l, a, b - 1)
    <2>1. CASE a = b
        <3>1. g[b - 1] = f
            BY <1>1, <2>1 DEF IsRun
        <3> QED BY <2>1, <3>1, ApplyNone
    <2>2. CASE a < b
        <3>1. b - 1 \in Nat /\ a <= b - 1
            BY <2>2
        <3>2. PICK h : IsRun(h, f, l, a, b - 1) /\ ApplyRange(f, l, a, b - 1) = h[b - 1]
            BY <3>1, ApplyRangeIsRun
        <3>3. b - 1 \in (a - 1) .. b /\ b - 1 <= b - 1
            BY <2>2
        <3>4. g[b - 1] = h[b - 1]
            BY <1>1, <3>1, <3>2, <3>3, RunUnique
        <3> QED BY <3>2, <3>4
    <2> QED BY <2>1, <2>2
<1> QED BY <1>1, <1>2, <1>3

\* The same, forward.
LEMMA ApplyNext ==
    ASSUME NEW f, NEW l, NEW a \in Nat, NEW b \in Nat, a >= 1, b >= a - 1
    PROVE  ApplyRange(f, l, a, b + 1) = ApplyEntry(ApplyRange(f, l, a, b), l[b + 1])
<1> DEFINE c == b + 1
<1>1. c \in Nat /\ a <= c /\ c - 1 = b
    OBVIOUS
<1> HIDE DEF c
<1>2. ApplyRange(f, l, a, c) = ApplyEntry(ApplyRange(f, l, a, c - 1), l[c])
    BY <1>1, ApplyLast
<1>3. ApplyRange(f, l, a, c) = ApplyEntry(ApplyRange(f, l, a, b), l[c])
    BY <1>1, <1>2
<1> QED BY <1>3 DEF c

\* Induction over the end of a range, for the lemmas below: what holds of the
\* empty range and goes over from b to b + 1 holds of every range from a on.
LEMMA RangeInduction ==
    ASSUME NEW a \in Nat, a >= 1, NEW T \in SUBSET Nat, a - 1 \in T,
           \A b \in T : b >= a - 1 => b + 1 \in T,
           NEW b \in Nat, b >= a - 1
    PROVE  b \in T
<1> DEFINE U == {n \in Nat : a - 1 + n \in T}
<1>1. 0 \in U
    OBVIOUS
<1>2. ASSUME NEW n \in U PROVE n + 1 \in U
    <2>1. a - 1 + n + 1 \in T /\ a - 1 + (n + 1) = a - 1 + n + 1
        OBVIOUS
    <2> QED BY <2>1
<1> HIDE DEF U
<1>3. U = Nat
    <2>1. U \in SUBSET Nat
        BY DEF U
    <2> QED BY <1>1, <1>2, <2>1, NatSetInduction
<1>4. b - (a - 1) \in U /\ a - 1 + (b - (a - 1)) = b
    BY <1>3
<1> QED BY <1>4 DEF U

\* ApplyRange depends on the entries of the range only.
LEMMA ApplySame ==
    ASSUME NEW f, NEW l, NEW k, NEW a \in Nat, NEW b \in Nat, a >= 1,
           \A i \in a .. b : l[i] = k[i]
    PROVE  ApplyRange(f, l, a, b) = ApplyRange(f, k, a, b)
<1>1. CASE b < a
    BY <1>1, ApplyNone
<1>2. CASE b >= a
    <2> DEFINE T == {c \in Nat : c <= b => ApplyRange(f, l, a, c) = ApplyRange(f, k, a, c)}
    <2>1. a - 1 \in T
        BY ApplyNone
    <2>2. ASSUME NEW c \in T, c >= a - 1 PROVE c + 1 \in T
        <3> SUFFICES ASSUME c + 1 <= b
                     PROVE  ApplyRange(f, l, a, c + 1) = ApplyRange(f, k, a, c + 1)
            OBVIOUS
        <3>1. c + 1 \in Nat /\ a <= c + 1 /\ (c + 1) - 1 = c /\ c + 1 \in a .. b
            BY <2>2
        <3>2. /\ ApplyRange(f, l, a, c + 1) = ApplyEntry(ApplyRange(f, l, a, c), l[c + 1])
              /\ ApplyRange(f, k, a, c + 1) = ApplyEntry(ApplyRange(f, k, a, c), k[c + 1])
            BY <2>2, ApplyNext
        <3>3. ApplyRange(f, l, a, c) = ApplyRange(f, k, a, c)
            BY <2>2, <3>1
        <3> QED BY <3>1, <3>2, <3>3
    <2>3. b \in T
        <3> HIDE DEF T
        <3>1. T \in SUBSET Nat
            BY DEF T
        <3> QED BY <1>2, <2>1, <2>2, <3>1, RangeInduction
    <2> QED BY <2>3
<1> QED BY <1>1, <1>2

\* Applying a range in two parts is applying it at once.
LEMMA ApplyCompose ==
    ASSUME NEW f, NEW l, NEW a \in Nat, NEW m \in Nat, NEW b \in Nat, a >= 1,
           a - 1 <= m, m <= b
    PROVE  ApplyRange(ApplyRange(f, l, a, m), l, m + 1, b) = ApplyRange(f, l, a, b)
<1> DEFINE mid == ApplyRange(f, l, a, m)
<1> DEFINE T == {c \in Nat : ApplyRange(mid, l, m + 1, c) = ApplyRange(f, l, a, c)}
<1> HIDE DEF mid
<1>1. m + 1 \in Nat /\ m + 1 >= 1 /\ (m + 1) - 1 = m
    OBVIOUS
<1>2. m \in T
    <2>1. ApplyRange(mid, l, m + 1, m) = mid
        BY <1>1, ApplyNone
    <2> QED BY <2>1 DEF mid
<1>3. ASSUME NEW c \in T, c >= m PROVE c + 1 \in T
    <2>1. c + 1 \in Nat /\ m + 1 <= c + 1 /\ a <= c + 1 /\ (c + 1) - 1 = c
        BY <1>3
    <2>2. /\ ApplyRange(mid, l, m + 1, c + 1) = ApplyEntry(ApplyRange(mid, l, m + 1, c), l[c + 1])
          /\ ApplyRange(f, l, a, c + 1) = ApplyEntry(ApplyRange(f, l, a, c), l[c + 1])
        BY <1>1, <1>3, <2>1, ApplyNext
    <2> QED BY <2>1, <2>2
<1>4. b \in T
    <2> HIDE DEF T
    <2>1. T \in SUBSET Nat
        BY DEF T
    <2> QED BY <1>1, <1>2, <1>3, <2>1, RangeInduction
<1> QED BY <1>4 DEF mid

\* The states of the state machine are records of a value and a set of keys.
IsFsm(f) == f = [value |-> f.value, seen |-> f.seen]

\* An application gives a state, which has consumed the keys consumed before and
\* those of the range.
LEMMA ApplySeen ==
    ASSUME NEW f, IsFsm(f), NEW l, NEW a \in Nat, NEW b \in Nat, a >= 1
    PROVE  /\ IsFsm(ApplyRange(f, l, a, b))
           /\ f.seen \subseteq ApplyRange(f, l, a, b).seen
           /\ \A i \in a .. b : l[i].kind = "cmd" => l[i].idem \in ApplyRange(f, l, a, b).seen
<1> DEFINE P(c) == /\ IsFsm(ApplyRange(f, l, a, c))
                   /\ f.seen \subseteq ApplyRange(f, l, a, c).seen
                   /\ \A i \in a .. c : l[i].kind = "cmd" => l[i].idem \in ApplyRange(f, l, a, c).seen
<1>1. CASE b < a
    BY <1>1, ApplyNone
<1>2. CASE b >= a
    <2> DEFINE T == {c \in Nat : P(c)}
    <2>1. a - 1 \in T
        BY ApplyNone
    <2>2. ASSUME NEW c \in T, c >= a - 1 PROVE c + 1 \in T
        <3>1. c + 1 \in Nat /\ a <= c + 1 /\ (c + 1) - 1 = c
            BY <2>2
        <3> DEFINE s == ApplyRange(f, l, a, c)
        <3> DEFINE t == ApplyRange(f, l, a, c + 1)
        <3>2. t = ApplyEntry(s, l[c + 1])
            BY <2>2, ApplyNext
        <3>3. P(c)
            BY <2>2
        <3> HIDE DEF s, t
        <3>4. /\ IsFsm(t) /\ s.seen \subseteq t.seen
              /\ l[c + 1].kind = "cmd" => l[c + 1].idem \in t.seen
            <4>1. IsFsm(s)
                BY <3>3 DEF s
            <4> QED BY <3>2, <4>1 DEF ApplyEntry, FsmApply, IsFsm
        <3>5. P(c + 1)
            <4>1. \A i \in a .. (c + 1) : i \in a .. c \/ i = c + 1
                BY <3>1
            <4> QED BY <3>3, <3>4, <4>1 DEF s, t
        <3> QED BY <3>1, <3>5
    <2>3. b \in T
        <3> HIDE DEF T
        <3>1. T \in SUBSET Nat
            BY DEF T
        <3> QED BY <1>2, <2>1, <2>2, <3>1, RangeInduction
    <2> QED BY <2>3
<1> QED BY <1>1, <1>2

\* Commands whose keys have been consumed change nothing (CounterFsm::apply).
LEMMA ApplyAbsorbed ==
    ASSUME NEW f, NEW l, NEW a \in Nat, NEW b \in Nat, a >= 1,
           \A i \in a .. b : l[i].kind = "cmd" => l[i].idem \in f.seen
    PROVE  ApplyRange(f, l, a, b) = f
<1>1. CASE b < a
    BY <1>1, ApplyNone
<1>2. CASE b >= a
    <2> DEFINE T == {c \in Nat : c <= b => ApplyRange(f, l, a, c) = f}
    <2>1. a - 1 \in T
        BY ApplyNone
    <2>2. ASSUME NEW c \in T, c >= a - 1 PROVE c + 1 \in T
        <3> SUFFICES ASSUME c + 1 <= b PROVE ApplyRange(f, l, a, c + 1) = f
            OBVIOUS
        <3>1. c + 1 \in Nat /\ a <= c + 1 /\ (c + 1) - 1 = c /\ c + 1 \in a .. b
            BY <2>2
        <3>2. ApplyRange(f, l, a, c + 1) = ApplyEntry(f, l[c + 1])
            BY <3>1, <2>2, ApplyNext
        <3> QED BY <3>1, <3>2 DEF ApplyEntry, FsmApply
    <2>3. b \in T
        <3> HIDE DEF T
        <3>1. T \in SUBSET Nat
            BY DEF T
        <3> QED BY <1>2, <2>1, <2>2, <3>1, RangeInduction
    <2> QED BY <2>3
<1> QED BY <1>1, <1>2

-----------------------------------------------------------------------------
(***************************************************************************)
(* MembershipAt.                                                           *)
(***************************************************************************)

\* g holds the last membership of each prefix of a log, up to n.
IsLast(g, l, n) ==
    g = [i \in 0 .. n |-> IF i = 0 THEN 0 ELSE IF l[i].kind = "mem" THEN i ELSE g[i - 1]]

\* There is such a function for every log, and two of them agree.
LEMMA LastExists ==
    ASSUME NEW l, NEW n \in Nat
    PROVE  \E g : IsLast(g, l, n)
<1> DEFINE T == {k \in Nat : \E g : IsLast(g, l, k)}
<1>1. 0 \in T
    <2> DEFINE g == [i \in 0 .. 0 |-> 0]
    <2>1. IsLast(g, l, 0)
        BY DEF IsLast
    <2> QED BY <2>1
<1>2. ASSUME NEW k \in T PROVE k + 1 \in T
    <2>1. PICK g : IsLast(g, l, k)
        OBVIOUS
    <2> DEFINE h == [i \in 0 .. (k + 1) |->
                        IF i \in 0 .. k THEN g[i] ELSE IF l[i].kind = "mem" THEN i ELSE g[i - 1]]
    <2>2. IsLast(h, l, k + 1)
        <3> SUFFICES ASSUME NEW i \in 0 .. (k + 1)
                     PROVE  h[i] = IF i = 0 THEN 0 ELSE IF l[i].kind = "mem" THEN i ELSE h[i - 1]
            BY DEF IsLast
        <3>1. CASE i = 0
            BY <2>1, <3>1 DEF IsLast
        <3>2. CASE i # 0
            <4>1. i - 1 \in 0 .. k /\ h[i - 1] = g[i - 1]
                BY <3>2
            <4>2. i \in 0 .. k => g[i] = IF l[i].kind = "mem" THEN i ELSE g[i - 1]
                BY <2>1, <3>2 DEF IsLast
            <4>3. h[i] = IF l[i].kind = "mem" THEN i ELSE g[i - 1]
                BY <4>2
            <4> QED BY <3>2, <4>1, <4>3
        <3> QED BY <3>1, <3>2
    <2> HIDE DEF h
    <2> QED BY <2>2
<1> HIDE DEF T
<1>3. T = Nat
    <2>1. T \in SUBSET Nat
        BY DEF T
    <2> QED BY <1>1, <1>2, <2>1, NatSetInduction
<1> QED BY <1>3 DEF T

\* Two of them agree where both are defined.
LEMMA LastUnique ==
    ASSUME NEW l, NEW n \in Nat, NEW g, IsLast(g, l, n), NEW h, IsLast(h, l, n + 1)
    PROVE  g[n] = h[n]
<1> DEFINE T == {k \in Nat : k <= n => g[k] = h[k]}
<1>1. 0 \in T
    BY DEF IsLast
<1>2. ASSUME NEW k \in T PROVE k + 1 \in T
    <2> SUFFICES ASSUME k + 1 <= n PROVE g[k + 1] = h[k + 1]
        OBVIOUS
    <2> DEFINE i == k + 1
    <2>1. i \in 0 .. n /\ i \in 0 .. (n + 1) /\ i # 0 /\ g[i - 1] = h[i - 1]
        OBVIOUS
    <2> HIDE DEF i
    <2>2. g[i] = h[i]
        BY <2>1 DEF IsLast
    <2> QED BY <2>2 DEF i
<1> HIDE DEF T
<1>3. T = Nat
    <2>1. T \in SUBSET Nat
        BY DEF T
    <2> QED BY <1>1, <1>2, <2>1, NatSetInduction
<1> QED BY <1>3 DEF T

\* MembershipAt is the last value of it.
LEMMA MembershipIsLast ==
    ASSUME NEW l, NEW n \in Nat
    PROVE  \E g : IsLast(g, l, n) /\ MembershipAt(l, n) = g[n]
<1> DEFINE g == CHOOSE g : g = [i \in 0 .. n |->
                                   IF i = 0 THEN 0 ELSE IF l[i].kind = "mem" THEN i ELSE g[i - 1]]
<1>1. \E r : r = [i \in 0 .. n |-> IF i = 0 THEN 0 ELSE IF l[i].kind = "mem" THEN i ELSE r[i - 1]]
    <2>1. \E r : IsLast(r, l, n)
        BY LastExists
    <2> QED BY <2>1, Zenon DEF IsLast
<1>2. g = [i \in 0 .. n |-> IF i = 0 THEN 0 ELSE IF l[i].kind = "mem" THEN i ELSE g[i - 1]]
    BY <1>1, Zenon
<1>3. MembershipAt(l, n) = g[n]
    BY Zenon DEF MembershipAt
<1> HIDE DEF g
<1> QED BY <1>2, <1>3, Zenon DEF IsLast

\* The equations of MembershipAt.
LEMMA MembershipEquations ==
    ASSUME NEW l
    PROVE  /\ MembershipAt(l, 0) = 0
           /\ \A n \in Nat : MembershipAt(l, n + 1) =
                  IF l[n + 1].kind = "mem" THEN n + 1 ELSE MembershipAt(l, n)
<1>1. MembershipAt(l, 0) = 0
    <2>1. PICK g : IsLast(g, l, 0) /\ MembershipAt(l, 0) = g[0]
        BY MembershipIsLast
    <2> QED BY <2>1 DEF IsLast
<1>2. ASSUME NEW n \in Nat
      PROVE  MembershipAt(l, n + 1) = IF l[n + 1].kind = "mem" THEN n + 1 ELSE MembershipAt(l, n)
    <2>1. PICK g : IsLast(g, l, n) /\ MembershipAt(l, n) = g[n]
        BY MembershipIsLast
    <2> DEFINE k == n + 1
    <2>2. k \in Nat /\ k # 0 /\ k - 1 = n /\ k \in 0 .. k
        OBVIOUS
    <2> HIDE DEF k
    <2>3. PICK h : IsLast(h, l, k) /\ MembershipAt(l, k) = h[k]
        BY <2>2, MembershipIsLast
    <2>4. h[k] = IF l[k].kind = "mem" THEN k ELSE h[n]
        BY <2>2, <2>3 DEF IsLast
    <2>5. g[n] = h[n]
        BY <2>1, <2>3, LastUnique DEF k
    <2>6. MembershipAt(l, k) = IF l[k].kind = "mem" THEN k ELSE MembershipAt(l, n)
        BY <2>1, <2>3, <2>4, <2>5
    <2> QED BY <2>6 DEF k
<1> QED BY <1>1, <1>2

\* MembershipAt is an index of the prefix, and depends on the prefix only.
LEMMA MembershipSame ==
    ASSUME NEW l, NEW k, NEW n \in Nat, \A i \in 1 .. n : l[i] = k[i]
    PROVE  MembershipAt(l, n) \in 0 .. n /\ MembershipAt(l, n) = MembershipAt(k, n)
<1> DEFINE T == {m \in Nat : m <= n => /\ MembershipAt(l, m) \in 0 .. m
                                       /\ MembershipAt(l, m) = MembershipAt(k, m)}
<1>1. 0 \in T
    BY MembershipEquations
<1>2. ASSUME NEW m \in T PROVE m + 1 \in T
    <2> SUFFICES ASSUME m + 1 <= n
                 PROVE  /\ MembershipAt(l, m + 1) \in 0 .. (m + 1)
                        /\ MembershipAt(l, m + 1) = MembershipAt(k, m + 1)
        OBVIOUS
    <2>1. /\ MembershipAt(l, m + 1) = IF l[m + 1].kind = "mem" THEN m + 1 ELSE MembershipAt(l, m)
          /\ MembershipAt(k, m + 1) = IF k[m + 1].kind = "mem" THEN m + 1 ELSE MembershipAt(k, m)
        BY MembershipEquations
    <2>2. m <= n /\ l[m + 1] = k[m + 1]
        OBVIOUS
    <2> QED BY <2>1, <2>2
<1> HIDE DEF T
<1>3. T = Nat
    <2>1. T \in SUBSET Nat
        BY DEF T
    <2> QED BY <1>1, <1>2, <2>1, NatSetInduction
<1> QED BY <1>3 DEF T

Memberships(l, a, b) == {i \in a .. b : l[i].kind = "mem"}

\* Taking the last membership of a range, if it has one, gives the last of the
\* longer prefix, as apply does batch by batch.
LEMMA MembershipOfRange ==
    ASSUME NEW l, NEW n \in Nat, NEW m \in Nat, n <= m
    PROVE  MembershipAt(l, m) = IF Memberships(l, n + 1, m) = {} THEN MembershipAt(l, n)
                                ELSE Max(Memberships(l, n + 1, m))
<1> DEFINE T == {c \in Nat : MembershipAt(l, c) =
                    IF Memberships(l, n + 1, c) = {} THEN MembershipAt(l, n)
                    ELSE Max(Memberships(l, n + 1, c))}
<1>1. n \in T
    <2>1. Memberships(l, n + 1, n) = {}
        BY DEF Memberships
    <2> QED BY <2>1
<1>2. ASSUME NEW c \in T, c >= n PROVE c + 1 \in T
    <2> DEFINE M == Memberships(l, n + 1, c)
    <2> DEFINE N == Memberships(l, n + 1, c + 1)
    <2>1. MembershipAt(l, c + 1) = IF l[c + 1].kind = "mem" THEN c + 1 ELSE MembershipAt(l, c)
        BY MembershipEquations
    <2>2. CASE l[c + 1].kind = "mem"
        <3>1. c + 1 \in N /\ N \in SUBSET (0 .. (c + 1)) /\ c + 1 \in Nat
            BY <1>2, <2>2 DEF Memberships
        <3> HIDE DEF N
        <3>2. Max(N) \in N /\ c + 1 <= Max(N)
            BY <3>1, MaxOfSet
        <3>3. Max(N) = c + 1
            <4>1. Max(N) \in 0 .. (c + 1)
                BY <3>1, <3>2, Zenon
            <4> QED BY <3>2, <4>1
        <3> QED BY <2>1, <2>2, <3>1, <3>3 DEF N
    <2>3. CASE l[c + 1].kind # "mem"
        <3>1. N = M
            BY <1>2, <2>3 DEF Memberships
        <3> QED BY <1>2, <2>1, <2>3, <3>1
    <2> QED BY <2>2, <2>3
<1>3. m \in T
    <2> HIDE DEF T
    <2>1. T \in SUBSET Nat
        BY DEF T
    <2>2. n + 1 \in Nat /\ n + 1 >= 1 /\ (n + 1) - 1 = n
        OBVIOUS
    <2> QED BY <1>1, <1>2, <2>1, <2>2, RangeInduction
<1> QED BY <1>3

-----------------------------------------------------------------------------
(***************************************************************************)
(* The inductive invariant.                                                *)
(***************************************************************************)
IsSnapshot(s, n) ==
    /\ s = Snapshot(s.last, s.membership, s.data)
    /\ s.last \in 0 .. n /\ s.membership \in 0 .. n

IsTask(t, n) ==
    /\ t = [stage |-> t.stage, data |-> t.data, membership |-> t.membership]
    /\ t.stage \in Stages /\ t.membership \in 0 .. n

IsWrite(w, n) ==
    /\ w = [by |-> w.by, last |-> w.last, data |-> w.data, stage |-> w.stage]
    /\ w.by \in {"core", "user", "task"} /\ w.last \in 1 .. n /\ w.stage \in WriteStages

IsMap(f, n) == f = [i \in DOMAIN f |-> f[i]] /\ DOMAIN f \subseteq 1 .. n

\* The shapes of all variables except for the states of the state machine.
Shapes ==
    /\ config \in Configs
    /\ log \in Seq(Payloads) /\ Len(log) <= MaxLog
    /\ core_applied \in 0 .. Len(log) /\ core_snapshot \in 0 .. Len(log)
    /\ purged \in 0 .. Len(log)
    /\ last_applied_log \in 0 .. Len(log) /\ last_membership \in 0 .. Len(log)
    /\ status \in {"up", "failed", "absent"}
    /\ IsSnapshot(current_snapshot, Len(log))
    /\ IsMap(catalog, Len(log))
    /\ IsMap(tasks, Len(log)) /\ \A i \in DOMAIN tasks : IsTask(tasks[i], Len(log)) /\ i <= core_applied
    /\ \A w \in writing : IsWrite(w, Len(log))
    /\ ads \subseteq 1 .. Len(log)
    /\ faulted \in BOOLEAN /\ installs \in 0 .. MaxInstalls
    /\ crashes \in 0 .. MaxCrash

\* A catalog lists a snapshot at p or later.
Covers(c, p) == \E i \in Listed(c) : i >= p

\* What is purged, and what the core takes for a snapshot while it runs, is in the
\* catalog or about to be written to it by the install that the core waits for.
Covered ==
    Offload =>
        /\ purged > 0 => Covers(catalog, purged)
        /\ status = "up" /\ core_snapshot > 0 =>
               \/ Covers(catalog, core_snapshot)
               \/ \E w \in writing : w.by = "core" /\ w.last >= core_snapshot

\* What is advertised, or will be, is in the catalog.
Advertised ==
    /\ \A i \in ads : Covers(catalog, i)
    /\ \A i \in DOMAIN tasks : tasks[i].stage \in {"written", "labelled", "published"} => Covers(catalog, i)

\* The directory of a write is there from its first step on, and listed from its
\* second, unless a prune has removed it, which leaves newer ones listed.
Opened ==
    \A w \in writing :
        /\ w.stage = "data" => w.last \in DOMAIN catalog \/ Covers(catalog, w.last)
        /\ w.stage = "meta" => Covers(catalog, w.last)

\* Only a write under way, or one that met an error, a kill or another write of
\* its index, leaves what is listed unreadable.
Settled ==
    \A i \in Listed(catalog) :
        \/ catalog[i].state = "whole"
        \/ faulted
        \/ \E w \in writing : Midway(w) /\ w.last = i

\* A task's write is that of a trigger which is applied, and frozen.
Linked ==
    \A w \in writing : w.by = "task" =>
        /\ w.last <= core_applied
        /\ w.last \in DOMAIN tasks => tasks[w.last].stage # "spawned"

\* The state after some prefix of the log that has entry i.
Reaches(f, l, i) == \E j \in i .. Len(l) : f = StateAt(l, j)
Holds(data, l, i) == \E j \in i .. Len(l) : data = FsmSnapshot(StateAt(l, j))

\* Every state the node holds is the state after a prefix of the log, and no
\* shorter one than its label says, unless the application installs older
\* snapshots than what is applied.
Prefixes ==
    Rebuilds /\ UserInstalls # "any" =>
        /\ Reaches(fsm, log, core_applied)
        /\ status = "up" => Reaches(fsm, log, last_applied_log)
        /\ current_snapshot # NoSnapshot => Holds(current_snapshot.data, log, current_snapshot.last)
        /\ \A i \in DOMAIN catalog : catalog[i].state = "whole" => Holds(catalog[i].data, log, i)
        /\ \A i \in DOMAIN tasks : tasks[i].stage # "spawned" => Holds(tasks[i].data, log, i)
        /\ \A w \in writing : Holds(w.data, log, w.last)

\* The states of the state machine, in memory and in snapshots, have their type.
States ==
    /\ IsState(fsm)
    /\ current_snapshot # NoSnapshot => IsData(current_snapshot.data)
    /\ \A i \in DOMAIN catalog : IsFiles(catalog[i])
    /\ \A i \in DOMAIN tasks : tasks[i].stage # "spawned" => IsData(tasks[i].data)
    /\ \A w \in writing : IsData(w.data)

\* Without offload and up to the first restart, what the lock protects agrees as
\* long as the application has not installed anything.
Exact ==
    ~Offload /\ crashes = 0 =>
        /\ installs = 0 /\ status = "up" =>
               /\ fsm = StateAt(log, core_applied)
               /\ last_applied_log = core_applied
               /\ last_membership = MembershipAt(log, core_applied)
        /\ tasks = Empty /\ writing = {}
        /\ HotSnapshotExact

IInv ==
    /\ Shapes /\ States
    /\ Covered /\ Advertised /\ Opened /\ Settled /\ Linked
    /\ Prefixes /\ Exact

-----------------------------------------------------------------------------
(***************************************************************************)
(* The catalog and the snapshots of peers.                                 *)
(***************************************************************************)

\* A prune keeps the newest of what is listed: what was covered stays covered,
\* and so does what it removes (SnapshotCatalog::prune).
LEMMA PruneKeeps ==
    ASSUME NEW n \in Nat, NEW c, DOMAIN c \subseteq 1 .. n
    PROVE  /\ DOMAIN Prune(c) \subseteq DOMAIN c
           /\ \A k \in DOMAIN Prune(c) : Prune(c)[k] = c[k]
           /\ \A p \in Nat : Covers(c, p) => Covers(Prune(c), p)
           /\ \A k \in DOMAIN c : k \in DOMAIN Prune(c) \/ Covers(Prune(c), k)
<1> DEFINE D == Listed(c)
<1> DEFINE kept == {i \in DOMAIN c : i \in D => Cardinality({j \in D : j > i}) < Keep}
<1> DEFINE new == Prune(c)
<1>1. new = [k \in kept |-> c[k]]
    BY DEF Prune
<1>2. D \in SUBSET (0 .. n) /\ D \subseteq DOMAIN c
    BY DEF Listed
<1>3. kept \subseteq DOMAIN c /\ \A k \in DOMAIN c : k \notin D => k \in kept
    OBVIOUS
<1>4. ASSUME D # {} PROVE Max(D) \in kept /\ Max(D) \in D /\ \A k \in D : k <= Max(D)
    <2> HIDE DEF D
    <2>1. Max(D) \in D /\ \A k \in D : k <= Max(D)
        BY <1>2, <1>4, MaxOfSet
    <2>2. {j \in D : j > Max(D)} = {}
        <3>1. ASSUME NEW j \in D, j > Max(D) PROVE FALSE
            <4>1. j \in 0 .. n /\ Max(D) \in 0 .. n /\ j <= Max(D)
                BY <1>2, <2>1, Zenon
            <4> QED BY <3>1, <4>1
        <3> QED BY <3>1, Zenon
    <2>3. Cardinality({}) = 0 /\ 0 < Keep
        BY FS_EmptySet, StoreAssumption
    <2>4. Max(D) \in kept
        BY <1>2, <2>1, <2>2, <2>3
    <2> QED BY <2>1, <2>4
<1> HIDE DEF kept, new
<1>5. DOMAIN new = kept /\ new = [k \in DOMAIN new |-> new[k]] /\ \A k \in kept : new[k] = c[k]
    BY <1>1
<1>6. ASSUME NEW p \in Nat, NEW k \in D, k >= p PROVE Covers(new, p)
    <2>1. Max(D) \in kept /\ Max(D) \in D /\ k <= Max(D)
        BY <1>4
    <2>2. Max(D) \in Listed(new)
        BY <1>3, <1>5, <2>1 DEF Listed
    <2> HIDE DEF D
    <2>3. Max(D) \in Nat /\ k \in Nat
        <3>1. Max(D) \in 0 .. n /\ k \in 0 .. n
            BY <1>2, <2>1, Zenon
        <3> QED BY <3>1
    <2>4. Max(D) >= p
        BY <1>6, <2>1, <2>3
    <2> QED BY <2>2, <2>4 DEF Covers
<1>7. \A p \in Nat : Covers(c, p) => Covers(new, p)
    BY <1>6 DEF Covers
<1>8. ASSUME NEW k \in DOMAIN c PROVE k \in DOMAIN new \/ Covers(new, k)
    <2>1. CASE k \notin D
        BY <1>3, <1>5, <2>1
    <2>2. CASE k \in D
        <3>1. k \in Nat /\ k >= k
            OBVIOUS
        <3> QED BY <1>6, <2>2, <3>1
    <2> QED BY <2>1, <2>2
<1> QED BY <1>3, <1>5, <1>7, <1>8 DEF new

\* latest is the newest listed snapshot, whole; there is none where the catalog
\* lists nothing or cannot be read.
LEMMA LatestIsNewest ==
    ASSUME NEW n \in Nat, NEW c, DOMAIN c \subseteq 1 .. n
    PROVE  /\ ~(Readable(c) /\ Listed(c) # {}) => Latest(c) = NoSnapshot
           /\ Readable(c) /\ Listed(c) # {} =>
                  /\ Latest(c) # NoSnapshot
                  /\ Latest(c).last \in Listed(c) /\ c[Latest(c).last].state = "whole"
                  /\ \A k \in Listed(c) : k <= Latest(c).last
                  /\ Latest(c) = Snapshot(Latest(c).last, 0, c[Latest(c).last].data)
<1>1. CASE ~(Readable(c) /\ Listed(c) # {})
    BY <1>1 DEF Latest
<1>2. CASE Readable(c) /\ Listed(c) # {}
    <2> DEFINE i == Max(Listed(c))
    <2>1. Latest(c) = Snapshot(i, 0, c[i].data)
        BY <1>2 DEF Latest
    <2>2. Listed(c) \in SUBSET (0 .. n) /\ Listed(c) \subseteq 1 .. n
        BY DEF Listed
    <2>3. i \in Listed(c) /\ \A k \in Listed(c) : k <= i
        BY <1>2, <2>2, MaxOfSet
    <2>4. c[i].state = "whole"
        BY <1>2 DEF Readable
    <2> HIDE DEF i
    <2>5. i # 0
        BY <2>2, <2>3
    <2>6. Latest(c).last = i /\ NoSnapshot.last = 0
        BY <2>1 DEF Snapshot, NoSnapshot
    <2> QED BY <1>2, <2>1, <2>3, <2>4, <2>5, <2>6
<1> QED BY <1>1, <1>2

\* A peer's snapshot holds the state after an entry at or after its label;
\* without offload, exactly at its label.
LEMMA PeerSnapshotHolds ==
    ASSUME NEW s \in PeerSnapshots, log \in Seq(Payloads)
    PROVE  \E i \in 1 .. Len(log) : \E j \in i .. Len(log) :
               /\ s = Snapshot(i, IF Offload THEN 0 ELSE MembershipAt(log, i), FsmSnapshot(StateAt(log, j)))
               /\ ~Offload => j = i
<1>1. PICK i \in 1 .. Len(log) :
          \E j \in i .. IF Offload THEN Len(log) ELSE i :
              s = Snapshot(i, IF Offload THEN 0 ELSE MembershipAt(log, i), FsmSnapshot(StateAt(log, j)))
    BY Zenon DEF PeerSnapshots
<1>2. PICK j \in i .. IF Offload THEN Len(log) ELSE i :
          s = Snapshot(i, IF Offload THEN 0 ELSE MembershipAt(log, i), FsmSnapshot(StateAt(log, j)))
    BY <1>1
<1>3. Len(log) \in Nat
    OBVIOUS
<1>4. j \in i .. Len(log) /\ (~Offload => j = i)
    BY <1>2, <1>3
<1> QED BY <1>2, <1>4

\* Its label, membership and data.
LEMMA PeerSnapshotShape ==
    ASSUME NEW s \in PeerSnapshots, log \in Seq(Payloads)
    PROVE  /\ IsSnapshot(s, Len(log)) /\ s.last \in 1 .. Len(log)
           /\ Holds(s.data, log, s.last)
           /\ Offload => s.membership = 0
           /\ ~Offload => /\ s.data = FsmSnapshot(StateAt(log, s.last))
                          /\ s.membership = MembershipAt(log, s.last)
<1>1. PICK i \in 1 .. Len(log) : \E j \in i .. Len(log) :
               /\ s = Snapshot(i, IF Offload THEN 0 ELSE MembershipAt(log, i), FsmSnapshot(StateAt(log, j)))
               /\ ~Offload => j = i
    BY PeerSnapshotHolds
<1>2. PICK j \in i .. Len(log) :
               /\ s = Snapshot(i, IF Offload THEN 0 ELSE MembershipAt(log, i), FsmSnapshot(StateAt(log, j)))
               /\ ~Offload => j = i
    BY <1>1
<1>3. /\ s.last = i /\ s.membership = (IF Offload THEN 0 ELSE MembershipAt(log, i))
      /\ s.data = FsmSnapshot(StateAt(log, j)) /\ s = Snapshot(s.last, s.membership, s.data)
    BY <1>2 DEF Snapshot
<1>4. Len(log) \in Nat /\ i \in Nat /\ i <= Len(log) /\ MembershipAt(log, i) \in 0 .. i
    BY MembershipSame
<1>5. s.membership \in 0 .. Len(log) /\ s.last \in 0 .. Len(log) /\ s.last \in 1 .. Len(log)
    BY <1>3, <1>4
<1>6. Holds(s.data, log, s.last)
    BY <1>2, <1>3 DEF Holds
<1> QED BY <1>2, <1>3, <1>5, <1>6 DEF IsSnapshot

-----------------------------------------------------------------------------
(***************************************************************************)
(* The steps, one group of actions after the other.                        *)
(***************************************************************************)

\* The log only grows, and no index it had gets another entry.
LogGrows ==
    /\ Len(log) \in Nat /\ Len(log') \in Nat /\ Len(log) <= Len(log')
    /\ \A i \in 1 .. Len(log) : log'[i] = log[i]

\* Every step keeps or extends the log.
LEMMA LogStep ==
    ASSUME Shapes, [Next]_vars
    PROVE  /\ LogGrows /\ log' \in Seq(Payloads) /\ Len(log') <= MaxLog
           /\ config' = config /\ crashes <= crashes' /\ crashes' \in 0 .. MaxCrash
           /\ (Offload' <=> Offload) /\ (Standby' <=> Standby)
<1> USE DEF Shapes, LogGrows
<1>1. log \in Seq(Payloads) /\ Len(log) \in Nat /\ MaxLog \in Nat /\ MaxCrash \in Nat
    BY StoreAssumption
<1>2. ASSUME NEW p \in Payloads, Commit(p)
      PROVE  LogGrows /\ log' \in Seq(Payloads) /\ Len(log') <= MaxLog
             /\ config' = config /\ crashes' = crashes
    BY <1>1, <1>2 DEF Commit
<1>3. CASE Restart
    BY <1>1, <1>3 DEF Restart, Offload, Standby
<1>4. CASE UNCHANGED <<log, config, crashes>>
    BY <1>1, <1>4 DEF Offload, Standby
<1>5. \/ \E p \in Payloads : Commit(p)
      \/ Restart
      \/ UNCHANGED <<log, config, crashes>>
    BY DEF Next, apply, apply_error, Task, freeze, read_membership, publish, record_ad,
        install_snapshot, install_durable_snapshot, WriteStep, create_data, create_meta,
        complete, lose_directory, write_error, build_snapshot, PurgeLog, core, inner, vars
<1> QED BY <1>2, <1>3, <1>4, <1>5 DEF Offload, Standby

\* The states of prefixes, and so all that is known of them, survive the growth
\* of the log.
LEMMA PrefixKept ==
    ASSUME LogGrows
    PROVE  /\ \A j \in 0 .. Len(log) : /\ StateAt(log', j) = StateAt(log, j)
                                       /\ MembershipAt(log', j) = MembershipAt(log, j)
           /\ \A f : \A i \in Nat : Reaches(f, log, i) => Reaches(f, log', i)
           /\ \A d : \A i \in Nat : Holds(d, log, i) => Holds(d, log', i)
<1>1. ASSUME NEW j \in 0 .. Len(log)
      PROVE  StateAt(log', j) = StateAt(log, j) /\ MembershipAt(log', j) = MembershipAt(log, j)
    <2>1. j \in Nat /\ \A i \in 1 .. j : log'[i] = log[i]
        BY DEF LogGrows
    <2> QED BY <2>1, ApplySame, MembershipSame DEF StateAt
<1>2. ASSUME NEW i \in Nat, NEW j \in i .. Len(log)
      PROVE  j \in i .. Len(log') /\ j \in 0 .. Len(log)
    BY DEF LogGrows
<1> QED BY <1>1, <1>2 DEF Reaches, Holds

\* The core commits an entry.
LEMMA CommitKeeps ==
    ASSUME IInv, [Next]_vars, NEW p \in Payloads, Commit(p)
    PROVE  IInv'
<1>1. /\ LogGrows /\ log' \in Seq(Payloads) /\ Len(log') <= MaxLog
      /\ (Offload' <=> Offload) /\ 0 .. Len(log) \subseteq 0 .. Len(log')
      /\ 1 .. Len(log) \subseteq 1 .. Len(log')
    BY LogStep DEF IInv, LogGrows
<1>2. UNCHANGED <<core_applied, core_snapshot, purged, status, last_applied_log, last_membership,
                  fsm, current_snapshot, catalog, faulted, tasks, writing, ads, installs, crashes,
                  config>>
    BY DEF Commit, inner, disk
<1>3. Shapes'
    <2> USE DEF Shapes
    <2>1. IsSnapshot(current_snapshot', Len(log'))
        BY <1>1, <1>2 DEF IInv, IsSnapshot
    <2>2. IsMap(catalog', Len(log')) /\ IsMap(tasks', Len(log')) /\ ads' \subseteq 1 .. Len(log')
        BY <1>1, <1>2 DEF IInv, IsMap
    <2>3. \A i \in DOMAIN tasks' : IsTask(tasks'[i], Len(log')) /\ i <= core_applied'
        BY <1>1, <1>2 DEF IInv, IsTask
    <2>4. \A w \in writing' : IsWrite(w, Len(log'))
        BY <1>1, <1>2 DEF IInv, IsWrite
    <2> QED BY <1>1, <1>2, <2>1, <2>2, <2>3, <2>4 DEF IInv
<1>4. States' /\ Covered' /\ Advertised' /\ Opened' /\ Settled' /\ Linked'
    BY <1>1, <1>2 DEF IInv, States, Covered, Advertised, Opened, Settled, Linked
<1>5. Prefixes'
    <2>1. Rebuilds' => Rebuilds
        BY <1>1, <1>2 DEF Rebuilds
    <2>2. /\ core_applied \in Nat /\ last_applied_log \in Nat /\ current_snapshot.last \in Nat
          /\ \A i \in DOMAIN catalog : i \in Nat
          /\ \A i \in DOMAIN tasks : i \in Nat
          /\ \A w \in writing : w.last \in Nat
        BY DEF IInv, Shapes, IsSnapshot, IsMap, IsWrite
    <2> QED BY <1>1, <1>2, <2>1, <2>2, PrefixKept DEF IInv, Prefixes
<1>6. Exact'
    <2>1. core_applied \in 0 .. Len(log) /\ current_snapshot.last \in 0 .. Len(log)
        BY DEF IInv, Shapes, IsSnapshot
    <2> QED BY <1>1, <1>2, <2>1, PrefixKept DEF IInv, Exact, HotSnapshotExact
<1> QED BY <1>3, <1>4, <1>5, <1>6 DEF IInv

\* A snapshot of the state after a prefix restores that state.
LEMMA PrefixRestores ==
    ASSUME NEW l, NEW j \in Nat
    PROVE  /\ IsFsm(StateAt(l, j))
           /\ FsmRestore(FsmSnapshot(StateAt(l, j))) = StateAt(l, j)
           /\ \A i \in 1 .. j : l[i].kind = "cmd" => l[i].idem \in StateAt(l, j).seen
<1>1. IsFsm(Fresh)
    BY DEF IsFsm, Fresh
<1>2. /\ IsFsm(StateAt(l, j))
      /\ \A i \in 1 .. j : l[i].kind = "cmd" => l[i].idem \in StateAt(l, j).seen
    <2> DEFINE one == 1
    <2>1. one \in Nat /\ one >= 1
        OBVIOUS
    <2> HIDE DEF one
    <2>2. /\ IsFsm(ApplyRange(Fresh, l, one, j))
          /\ \A i \in one .. j : l[i].kind = "cmd" => l[i].idem \in ApplyRange(Fresh, l, one, j).seen
        BY <1>1, <2>1, ApplySeen
    <2> QED BY <2>2 DEF StateAt, one
<1> QED BY <1>2 DEF IsFsm, FsmRestore, FsmSnapshot

\* Entries n + 1 .. m applied to the state after j >= n entries: the entries up to
\* j are repetitions, so the state is the one after the longer prefix.
LEMMA ApplyBatch ==
    ASSUME NEW l, NEW n \in Nat, NEW j \in Nat, NEW m \in Nat, n <= j, n <= m
    PROVE  ApplyRange(StateAt(l, j), l, n + 1, m) = StateAt(l, IF j >= m THEN j ELSE m)
<1>1. ASSUME NEW k \in Nat, k <= j
      PROVE  ApplyRange(StateAt(l, j), l, n + 1, k) = StateAt(l, j)
    <2>1. \A i \in (n + 1) .. k : i \in 1 .. j
        BY <1>1
    <2>2. \A i \in (n + 1) .. k : l[i].kind = "cmd" => l[i].idem \in StateAt(l, j).seen
        BY <2>1, PrefixRestores
    <2>3. n + 1 \in Nat /\ n + 1 >= 1
        OBVIOUS
    <2> QED BY <2>2, <2>3, ApplyAbsorbed
<1>2. CASE j >= m
    BY <1>1, <1>2
<1>3. CASE j < m
    <2>1. ApplyRange(ApplyRange(StateAt(l, j), l, n + 1, j), l, j + 1, m)
              = ApplyRange(StateAt(l, j), l, n + 1, m)
        <3>1. n + 1 \in Nat /\ n + 1 >= 1 /\ (n + 1) - 1 <= j /\ j <= m
            BY <1>3
        <3> QED BY <3>1, ApplyCompose
    <2>2. ApplyRange(StateAt(l, j), l, n + 1, j) = StateAt(l, j)
        BY <1>1
    <2>3. ApplyRange(StateAt(l, j), l, j + 1, m) = StateAt(l, m)
        BY <1>3, ApplyCompose DEF StateAt
    <2> QED BY <1>3, <2>1, <2>2, <2>3
<1> QED BY <1>2, <1>3

\* Applying entries of the log keeps the type of the state.
LEMMA ApplyState ==
    ASSUME log \in Seq(Payloads), NEW f, IsState(f), NEW a \in Nat, NEW b \in Nat, a >= 1,
           b <= Len(log)
    PROVE  IsState(ApplyRange(f, log, a, b))
<1>1. CASE b < a
    BY <1>1, ApplyNone
<1>2. CASE b >= a
    <2> DEFINE T == {c \in Nat : c <= b => IsState(ApplyRange(f, log, a, c))}
    <2>1. a - 1 \in T
        BY ApplyNone
    <2>2. ASSUME NEW c \in T, c >= a - 1 PROVE c + 1 \in T
        <3> SUFFICES ASSUME c + 1 <= b PROVE IsState(ApplyRange(f, log, a, c + 1))
            OBVIOUS
        <3> DEFINE s == ApplyRange(f, log, a, c)
        <3>1. ApplyRange(f, log, a, c + 1) = ApplyEntry(s, log[c + 1])
            BY <2>2, ApplyNext
        <3>2. IsState(s)
            OBVIOUS
        <3>3. log[c + 1] \in Payloads
            BY <2>2
        <3> HIDE DEF s
        <3>4. log[c + 1].kind = "cmd" => log[c + 1].delta \in Int
            BY <3>3, StoreAssumption
        <3>5. IsState(ApplyEntry(s, log[c + 1]))
            BY <3>2, <3>3, <3>4 DEF IsState, ApplyEntry, FsmApply
        <3> QED BY <3>1, <3>5
    <2>3. b \in T
        <3> HIDE DEF T
        <3>1. T \in SUBSET Nat
            BY DEF T
        <3> QED BY <1>2, <2>1, <2>2, <3>1, RangeInduction
    <2> QED BY <2>3
<1> QED BY <1>1, <1>2

\* States after prefixes, and their snapshots, have the type of states.
LEMMA PrefixState ==
    ASSUME log \in Seq(Payloads), NEW j \in 0 .. Len(log)
    PROVE  IsState(StateAt(log, j)) /\ IsData(FsmSnapshot(StateAt(log, j)))
<1>1. IsState(Fresh)
    BY DEF IsState, Fresh
<1>2. IsState(StateAt(log, j))
    BY <1>1, ApplyState DEF StateAt
<1> QED BY <1>2, PrefixRestores DEF IsData

\* What apply makes of the membership that was in force.
NewMembership(l, a, b, old) ==
    IF Memberships(l, a, b) = {} THEN old ELSE Max(Memberships(l, a, b))

\* It is an entry of the batch or the old one, and the membership at the end of
\* the batch if the old one was that at its beginning.
LEMMA BatchMembership ==
    ASSUME NEW l, NEW n \in Nat, NEW m \in Nat, n <= m, NEW old
    PROVE  /\ NewMembership(l, n + 1, m, old) = old \/ NewMembership(l, n + 1, m, old) \in 0 .. m
           /\ old = MembershipAt(l, n) => NewMembership(l, n + 1, m, old) = MembershipAt(l, m)
<1> DEFINE mems == Memberships(l, n + 1, m)
<1>1. mems \in SUBSET (0 .. m)
    BY DEF Memberships
<1>2. MembershipAt(l, m) = IF mems = {} THEN MembershipAt(l, n) ELSE Max(mems)
    BY MembershipOfRange
<1>3. mems # {} => Max(mems) \in 0 .. m
    <2> HIDE DEF mems
    <2>1. mems # {} => Max(mems) \in mems
        BY <1>1, MaxOfSet
    <2> QED BY <1>1, <2>1, Zenon
<1> QED BY <1>2, <1>3, Zenon DEF NewMembership

\* A batch of entries is applied.
LEMMA ApplyKeeps ==
    ASSUME IInv, NEW m \in Nat, apply(m)
    PROVE  IInv'
<1> DEFINE n == core_applied
<1>1. /\ UNCHANGED <<log, core_snapshot, purged, status, current_snapshot, catalog, faulted,
                     writing, ads, installs, crashes, config>>
      /\ core_applied' = m /\ last_applied_log' = m /\ m \in n + 1 .. Len(log) /\ status = "up"
      /\ fsm' = ApplyRange(fsm, log, n + 1, m)
      /\ tasks' = IF Standby THEN Spawn(Triggers(n + 1, m)) ELSE tasks
    BY DEF apply, CoreIdle, disk
<1>2. /\ log \in Seq(Payloads) /\ Len(log) \in Nat /\ n \in Nat /\ m \in Nat /\ n < m /\ m <= Len(log)
      /\ last_membership \in 0 .. Len(log) /\ n + 1 \in Nat /\ n + 1 >= 1
    BY <1>1 DEF IInv, Shapes
<1>3. (Offload' <=> Offload) /\ (Rebuilds' <=> Rebuilds)
    BY <1>1 DEF Offload, Rebuilds
<1>4. /\ last_membership' \in 0 .. Len(log)
      /\ last_membership = MembershipAt(log, n) => last_membership' = MembershipAt(log, m)
    <2>1. last_membership' = NewMembership(log, n + 1, m, last_membership)
        BY DEF apply, NewMembership, Memberships
    <2>2. n <= m
        BY <1>2
    <2>3. /\ last_membership' = last_membership \/ last_membership' \in 0 .. m
          /\ last_membership = MembershipAt(log, n) => last_membership' = MembershipAt(log, m)
        BY <1>2, <2>1, <2>2, BatchMembership
    <2> QED BY <1>2, <2>3
<1>5. /\ IsMap(tasks', Len(log))
      /\ \A i \in DOMAIN tasks' :
             /\ i <= m
             /\ \/ tasks'[i] = [stage |-> "spawned", data |-> <<>>, membership |-> 0]
                \/ i \in DOMAIN tasks /\ tasks'[i] = tasks[i]
    <2>1. IsMap(tasks, Len(log)) /\ \A i \in DOMAIN tasks : i \in Nat /\ i <= n
        BY DEF IInv, Shapes, IsMap
    <2>2. CASE ~Standby
        BY <1>1, <1>2, <2>1, <2>2
    <2>3. CASE Standby
        <3> DEFINE batch == Triggers(n + 1, m)
        <3>1. batch \subseteq n + 1 .. m
            BY DEF Triggers
        <3> HIDE DEF batch
        <3>2. tasks' = [i \in batch \cup DOMAIN tasks |-> IF i \in batch
                          THEN [stage |-> "spawned", data |-> <<>>, membership |-> 0] ELSE tasks[i]]
            BY <1>1, <2>3 DEF Spawn, batch
        <3>3. DOMAIN tasks' = batch \cup DOMAIN tasks /\ tasks' = [i \in DOMAIN tasks' |-> tasks'[i]]
            BY <3>2
        <3>4. \A i \in batch \cup DOMAIN tasks : i \in 1 .. Len(log) /\ i <= m
            BY <1>2, <2>1, <3>1 DEF IsMap
        <3> QED BY <3>2, <3>3, <3>4 DEF IsMap
    <2> QED BY <2>2, <2>3
<1>6. Shapes'
    <2>1. IsTask([stage |-> "spawned", data |-> <<>>, membership |-> 0], Len(log))
        BY <1>2 DEF IsTask, Stages
    <2> QED BY <1>1, <1>2, <1>4, <1>5, <2>1 DEF IInv, Shapes
<1>7. States'
    <2>1. IsState(fsm')
        BY <1>1, <1>2, ApplyState DEF IInv, States
    <2> QED BY <1>1, <1>5, <2>1 DEF IInv, States
<1>8. Covered' /\ Opened' /\ Settled'
    BY <1>1, <1>3 DEF IInv, Covered, Opened, Settled
<1>9. Advertised'
    BY <1>1, <1>5 DEF IInv, Advertised
<1>12. Linked'
    <2> SUFFICES ASSUME NEW w \in writing, w.by = "task"
                 PROVE  /\ w.last <= m
                        /\ w.last \in DOMAIN tasks' => tasks'[w.last].stage # "spawned"
        BY <1>1 DEF Linked
    <2>1. /\ w.last \in Nat /\ w.last <= n
          /\ w.last \in DOMAIN tasks => tasks[w.last].stage # "spawned"
        BY DEF IInv, Linked, Shapes, IsWrite
    <2>2. w.last \notin Triggers(n + 1, m)
        BY <1>2, <2>1 DEF Triggers
    <2>3. w.last \in DOMAIN tasks' => w.last \in DOMAIN tasks /\ tasks'[w.last] = tasks[w.last]
        BY <1>1, <2>2 DEF Spawn
    <2> QED BY <1>2, <2>1, <2>3
<1>10. Prefixes'
    <2> SUFFICES ASSUME Rebuilds, UserInstalls # "any"
                 PROVE  /\ Reaches(fsm', log, m)
                        /\ \A i \in DOMAIN tasks' : tasks'[i].stage # "spawned" =>
                               Holds(tasks'[i].data, log, i)
        BY <1>1, <1>3 DEF IInv, Prefixes
    <2>1. PICK j \in n .. Len(log) : fsm = StateAt(log, j)
        BY DEF IInv, Prefixes, Reaches
    <2>2. fsm' = StateAt(log, IF j >= m THEN j ELSE m)
        BY <1>1, <1>2, <2>1, ApplyBatch
    <2>3. Reaches(fsm', log, m)
        BY <1>2, <2>1, <2>2 DEF Reaches
    <2> QED BY <1>5, <2>3 DEF IInv, Prefixes
<1>11. Exact'
    <2> SUFFICES ASSUME ~Offload, crashes = 0
                 PROVE  /\ installs = 0 => /\ fsm' = StateAt(log, m)
                                           /\ last_membership' = MembershipAt(log, m)
                        /\ tasks' = Empty /\ writing' = {} /\ HotSnapshotExact'
        BY <1>1, <1>3 DEF Exact
    <2>1. installs = 0 => fsm = StateAt(log, n) /\ last_membership = MembershipAt(log, n)
        BY <1>1 DEF IInv, Exact
    <2>2. installs = 0 => fsm' = StateAt(log, m)
        BY <1>1, <1>2, <2>1, ApplyBatch
    <2>3. ~Standby
        BY DEF Standby
    <2> QED BY <1>1, <1>3, <1>4, <2>1, <2>2, <2>3 DEF IInv, Exact, HotSnapshotExact
<1> QED BY <1>6, <1>7, <1>8, <1>9, <1>10, <1>11, <1>12 DEF IInv

\* A batch ends at an entry that does not decode.
LEMMA ApplyErrorKeeps ==
    ASSUME IInv, NEW m \in Nat, apply_error(m)
    PROVE  IInv'
<1> DEFINE n == core_applied
<1>1. /\ UNCHANGED <<log, core_applied, core_snapshot, purged, current_snapshot, catalog,
                     faulted, tasks, writing, ads, installs, crashes, config>>
      /\ last_applied_log' = m /\ m \in n + 1 .. Len(log) /\ status' = "failed"
      /\ fsm' = ApplyRange(fsm, log, n + 1, m - 1)
    BY DEF apply_error, disk
<1>2. /\ log \in Seq(Payloads) /\ Len(log) \in Nat /\ n \in Nat /\ m - 1 \in Nat /\ n <= m - 1
      /\ m - 1 <= Len(log) /\ m \in 0 .. Len(log)
      /\ last_membership \in 0 .. Len(log) /\ n + 1 \in Nat /\ n + 1 >= 1
    BY <1>1 DEF IInv, Shapes
<1>3. (Offload' <=> Offload) /\ (Rebuilds' <=> Rebuilds)
    BY <1>1 DEF Offload, Rebuilds
<1>4. last_membership' \in 0 .. Len(log)
    <2> DEFINE k == m - 1
    <2>1. last_membership' = NewMembership(log, n + 1, k, last_membership)
        BY DEF apply_error, NewMembership, Memberships
    <2>2. k \in Nat /\ n <= k /\ k <= Len(log)
        BY <1>2
    <2> HIDE DEF k
    <2>3. last_membership' = last_membership \/ last_membership' \in 0 .. k
        BY <1>2, <2>1, <2>2, BatchMembership
    <2> QED BY <1>2, <2>2, <2>3
<1>5. Shapes'
    BY <1>1, <1>2, <1>4 DEF IInv, Shapes
<1>6. States'
    <2>1. IsState(fsm')
        BY <1>1, <1>2, ApplyState DEF IInv, States
    <2> QED BY <1>1, <2>1 DEF IInv, States
<1>7. Covered' /\ Advertised' /\ Opened' /\ Settled' /\ Linked'
    BY <1>1, <1>3 DEF IInv, Covered, Advertised, Opened, Settled, Linked
<1>8. Prefixes'
    <2> SUFFICES ASSUME Rebuilds, UserInstalls # "any" PROVE Reaches(fsm', log, n)
        BY <1>1, <1>3 DEF IInv, Prefixes
    <2>1. PICK j \in n .. Len(log) : fsm = StateAt(log, j)
        BY DEF IInv, Prefixes, Reaches
    <2> DEFINE k == m - 1
    <2>2. k \in Nat /\ n <= k /\ k <= Len(log) /\ j \in Nat /\ n <= j
        BY <1>2, <2>1
    <2>3. fsm' = ApplyRange(StateAt(log, j), log, n + 1, k)
        BY <1>1, <2>1
    <2> HIDE DEF k
    <2>4. fsm' = StateAt(log, IF j >= k THEN j ELSE k)
        BY <1>2, <2>2, <2>3, ApplyBatch
    <2> QED BY <1>2, <2>1, <2>2, <2>4 DEF Reaches
<1>9. Exact'
    BY <1>1, <1>3 DEF IInv, Exact, HotSnapshotExact
<1> QED BY <1>5, <1>6, <1>7, <1>8, <1>9 DEF IInv

\* What the snapshot tasks leave alone.
TaskFrame ==
    UNCHANGED <<core, last_applied_log, last_membership, fsm, disk, installs, crashes, config>>

\* The frame keeps all that is not about tasks, their writes, ads and the snapshot
\* in memory.
LEMMA FrameKeeps ==
    ASSUME IInv, TaskFrame
    PROVE  /\ log' = log /\ (Offload' <=> Offload) /\ (Rebuilds' <=> Rebuilds)
           /\ UNCHANGED <<core_applied, core_snapshot, purged, status, last_applied_log,
                          last_membership, fsm, catalog, faulted, installs, crashes, config>>
           /\ log \in Seq(Payloads) /\ Len(log) \in Nat
           /\ fsm' = fsm /\ catalog' = catalog
BY DEF TaskFrame, core, disk, Offload, Rebuilds, IInv, Shapes

\* One task moves on to its next stage.
LEMMA TaskMoves ==
    ASSUME IInv, TaskFrame, NEW i \in DOMAIN tasks, NEW t, IsTask(t, Len(log)),
           tasks' = [tasks EXCEPT ![i] = t]
    PROVE  /\ IsMap(tasks', Len(log)) /\ DOMAIN tasks' = DOMAIN tasks
           /\ \A k \in DOMAIN tasks' : IsTask(tasks'[k], Len(log)) /\ k <= core_applied
           /\ tasks'[i] = t /\ \A k \in DOMAIN tasks : k # i => tasks'[k] = tasks[k]
BY DEF IInv, Shapes, IsMap

\* One task ends.
LEMMA TaskEnds ==
    ASSUME IInv, TaskFrame, NEW i \in DOMAIN tasks, tasks' = Without(i)
    PROVE  /\ IsMap(tasks', Len(log)) /\ DOMAIN tasks' \subseteq DOMAIN tasks
           /\ \A k \in DOMAIN tasks' : IsTask(tasks'[k], Len(log)) /\ k <= core_applied
           /\ \A k \in DOMAIN tasks' : tasks'[k] = tasks[k]
BY DEF IInv, Shapes, IsMap, Without

\* Tasks exist with offload only, and with an index of the log.
LEMMA TaskFacts ==
    ASSUME IInv, NEW i \in DOMAIN tasks
    PROVE  /\ i \in 1 .. Len(log) /\ IsTask(tasks[i], Len(log)) /\ i <= core_applied
           /\ Offload \/ crashes # 0
           /\ i \in Nat /\ core_applied \in 0 .. Len(log)
<1>1. i \in 1 .. Len(log) /\ IsTask(tasks[i], Len(log)) /\ i <= core_applied
      /\ core_applied \in 0 .. Len(log)
    BY DEF IInv, Shapes, IsMap
<1>2. DOMAIN Empty = {}
    BY DEF Empty
<1>3. Offload \/ crashes # 0
    BY <1>2 DEF IInv, Exact
<1> QED BY <1>1, <1>3

\* The state that a task freezes has every entry up to its trigger.
LEMMA FreezeKeeps ==
    ASSUME IInv, NEW i, freeze(i)
    PROVE  IInv'
<1> DEFINE t == [stage |-> "writing", data |-> FsmSnapshot(fsm), membership |-> 0]
<1> DEFINE w == CatalogWrite("task", i, FsmSnapshot(fsm))
<1>1. /\ i \in DOMAIN tasks /\ tasks[i].stage = "spawned" /\ tasks' = [tasks EXCEPT ![i] = t]
      /\ TaskFrame /\ UNCHANGED <<current_snapshot, ads>> /\ writing' = writing \cup {w}
    BY DEF freeze, AtStage, TaskFrame, inner
<1>2. /\ t.stage = "writing" /\ t.data = FsmSnapshot(fsm) /\ IsTask(t, Len(log))
    BY <1>1, FrameKeeps DEF IsTask, Stages
<1> HIDE DEF t
<1>3. /\ IsMap(tasks', Len(log)) /\ DOMAIN tasks' = DOMAIN tasks
      /\ \A k \in DOMAIN tasks' : IsTask(tasks'[k], Len(log)) /\ k <= core_applied
      /\ tasks'[i] = t /\ \A k \in DOMAIN tasks : k # i => tasks'[k] = tasks[k]
    BY <1>1, <1>2, TaskMoves
<1>4. /\ w.by = "task" /\ w.last = i /\ w.data = FsmSnapshot(fsm) /\ w.stage = "called"
      /\ IsWrite(w, Len(log)) /\ ~Midway(w)
    BY <1>1, TaskFacts DEF CatalogWrite, IsWrite, WriteStages, Midway
<1> HIDE DEF w
<1>5. Shapes'
    BY <1>1, <1>3, <1>4, FrameKeeps DEF IInv, Shapes
<1>6. States'
    <2>1. IsData(FsmSnapshot(fsm))
        BY DEF IInv, States, IsData, IsState, FsmRestore, FsmSnapshot
    <2> QED BY <1>1, <1>2, <1>3, <1>4, <2>1, FrameKeeps DEF IInv, States
<1>7. Covered' /\ Advertised' /\ Opened' /\ Settled'
    BY <1>1, <1>2, <1>3, <1>4, FrameKeeps DEF IInv, Covered, Advertised, Opened, Settled
<1>8. Linked'
    BY <1>1, <1>2, <1>3, <1>4, TaskFacts, FrameKeeps DEF IInv, Linked
<1>9. Prefixes'
    <2> SUFFICES ASSUME Rebuilds, UserInstalls # "any" PROVE Holds(FsmSnapshot(fsm), log, i)
        BY <1>1, <1>2, <1>3, <1>4, FrameKeeps DEF IInv, Prefixes
    <2>1. PICK j \in core_applied .. Len(log) : fsm = StateAt(log, j)
        BY DEF IInv, Prefixes, Reaches
    <2>2. j \in i .. Len(log)
        BY <1>1, <2>1, TaskFacts, FrameKeeps
    <2> QED BY <2>1, <2>2 DEF Holds
<1>10. Exact'
    BY <1>1, TaskFacts, FrameKeeps DEF Exact
<1> QED BY <1>5, <1>6, <1>7, <1>8, <1>9, <1>10 DEF IInv

\* The other steps of a task: the label, the publication in memory and the
\* advertisement.
LEMMA TaskKeeps ==
    ASSUME IInv, NEW i, read_membership(i) \/ publish(i) \/ record_ad(i)
    PROVE  IInv'
<1>1. /\ i \in DOMAIN tasks /\ TaskFrame /\ writing' = writing
      /\ tasks[i].stage \in {"written", "labelled", "published"}
    BY DEF read_membership, publish, record_ad, AtStage, TaskFrame, inner
<1>2. /\ i \in 1 .. Len(log) /\ IsTask(tasks[i], Len(log)) /\ IsData(tasks[i].data)
      /\ Rebuilds /\ UserInstalls # "any" => Holds(tasks[i].data, log, i)
      /\ Covers(catalog, i)
    BY <1>1, TaskFacts DEF IInv, States, Prefixes, Advertised
<1>3. Exact'
    BY <1>1, TaskFacts, FrameKeeps DEF Exact
<1>4. Covered' /\ Opened' /\ Settled'
    BY <1>1, FrameKeeps DEF IInv, Covered, Opened, Settled
<1>5. ASSUME \A k \in DOMAIN tasks' : k \in DOMAIN tasks /\ (tasks'[k].stage = "spawned" => tasks[k].stage = "spawned")
      PROVE  Linked'
    BY <1>1, <1>5, FrameKeeps DEF IInv, Linked
<1>6. CASE record_ad(i)
    <2>1. tasks' = Without(i) /\ UNCHANGED current_snapshot /\ ads' = ads \cup {i}
        BY <1>6 DEF record_ad, inner
    <2>2. Shapes' /\ States' /\ Prefixes'
        BY <1>1, <1>2, <2>1, TaskEnds, FrameKeeps DEF IInv, Shapes, States, Prefixes
    <2>3. Advertised'
        BY <1>1, <1>2, <2>1, TaskEnds, FrameKeeps DEF IInv, Advertised
    <2>4. Linked'
        BY <1>1, <1>5, <2>1, TaskEnds
    <2> QED BY <1>3, <1>4, <2>2, <2>3, <2>4 DEF IInv
<1>7. CASE read_membership(i)
    <2> DEFINE t == [stage |-> "labelled", data |-> tasks[i].data, membership |-> last_membership]
    <2>1. tasks' = [tasks EXCEPT ![i] = t] /\ UNCHANGED <<current_snapshot, ads>>
        BY <1>7 DEF read_membership, AtStage, inner
    <2>3. t.stage = "labelled" /\ t.data = tasks[i].data /\ IsTask(t, Len(log))
        BY DEF IInv, Shapes, IsTask, Stages
    <2> HIDE DEF t
    <2>4. /\ IsMap(tasks', Len(log)) /\ DOMAIN tasks' = DOMAIN tasks
          /\ \A k \in DOMAIN tasks' : IsTask(tasks'[k], Len(log)) /\ k <= core_applied
          /\ tasks'[i] = t /\ \A k \in DOMAIN tasks : k # i => tasks'[k] = tasks[k]
        BY <1>1, <2>1, <2>3, TaskMoves
    <2>5. Shapes' /\ States' /\ Advertised' /\ Prefixes'
        BY <1>1, <1>2, <2>1, <2>3, <2>4, FrameKeeps DEF IInv, Shapes, States, Advertised, Prefixes
    <2>6. Linked'
        BY <1>5, <2>3, <2>4
    <2> QED BY <1>3, <1>4, <2>5, <2>6 DEF IInv
<1>8. CASE publish(i)
    <2> DEFINE t == [tasks[i] EXCEPT !.stage = "published"]
    <2> DEFINE s == Snapshot(i, tasks[i].membership, tasks[i].data)
    <2>1. /\ tasks' = [tasks EXCEPT ![i] = t] /\ UNCHANGED ads /\ current_snapshot' = s
        BY <1>8 DEF publish, AtStage
    <2>2. t = [stage |-> "published", data |-> tasks[i].data, membership |-> tasks[i].membership]
        BY <1>2 DEF IsTask
    <2>3. /\ IsSnapshot(s, Len(log)) /\ s.data = tasks[i].data /\ s.last = i
        BY <1>2 DEF IsSnapshot, Snapshot, IsTask
    <2> HIDE DEF t, s
    <2>4. t.stage = "published" /\ t.data = tasks[i].data /\ IsTask(t, Len(log))
        BY <1>2, <2>2 DEF IsTask, Stages
    <2>5. /\ IsMap(tasks', Len(log)) /\ DOMAIN tasks' = DOMAIN tasks
          /\ \A k \in DOMAIN tasks' : IsTask(tasks'[k], Len(log)) /\ k <= core_applied
          /\ tasks'[i] = t /\ \A k \in DOMAIN tasks : k # i => tasks'[k] = tasks[k]
        BY <1>1, <2>1, <2>4, TaskMoves
    <2>6. Shapes' /\ States' /\ Advertised' /\ Prefixes'
        BY <1>1, <1>2, <2>1, <2>3, <2>4, <2>5, FrameKeeps DEF IInv, Shapes, States, Advertised, Prefixes
    <2>7. Linked'
        BY <1>5, <2>4, <2>5
    <2> QED BY <1>3, <1>4, <2>6, <2>7 DEF IInv
<1> QED BY <1>6, <1>7, <1>8

(***************************************************************************)
(* The steps of a catalog write.                                           *)
(***************************************************************************)

\* What a step of the write w leaves alone, and what it does to the catalog, to
\* the task that waits for it and to the writes under way.
WriteFrame ==
    /\ UNCHANGED <<log, core_applied, core_snapshot, purged, last_applied_log, last_membership,
                   fsm, current_snapshot, ads, installs, crashes, config>>
    /\ status' = status \/ status' = "failed"
    /\ faulted' \in BOOLEAN /\ (faulted => faulted')

CatalogMoves(w) ==
    /\ IsMap(catalog', Len(log))
    /\ \A p \in Nat : Covers(catalog, p) => Covers(catalog', p)
    /\ \A k \in DOMAIN catalog : k \in DOMAIN catalog' \/ Covers(catalog', k)
    /\ \A k \in DOMAIN catalog' : k # w.last => k \in DOMAIN catalog /\ catalog'[k] = catalog[k]
    /\ \A k \in DOMAIN catalog' :
          /\ IsFiles(catalog'[k])
          /\ catalog'[k].state = "whole" =>
                \/ k = w.last /\ catalog'[k].data = w.data
                \/ k \in DOMAIN catalog /\ catalog'[k] = catalog[k]

TasksMove ==
    /\ IsMap(tasks', Len(log))
    /\ \A k \in DOMAIN tasks' :
          /\ k \in DOMAIN tasks /\ IsTask(tasks'[k], Len(log)) /\ tasks'[k].data = tasks[k].data
          /\ \/ tasks'[k].stage = tasks[k].stage
             \/ /\ tasks'[k].stage = "written" /\ tasks[k].stage # "spawned"
                /\ Covers(catalog', k)

WritingMoves(w) ==
    \A v \in writing' :
        \/ v \in writing
        \/ /\ v.by = w.by /\ v.last = w.last /\ v.data = w.data
           /\ IsWrite(v, Len(log))

\* Such a step keeps the types, the prefixes and what is advertised.
LEMMA MovesKeep ==
    ASSUME IInv, NEW w \in writing, WriteFrame, CatalogMoves(w), TasksMove, WritingMoves(w)
    PROVE  /\ Shapes' /\ States' /\ Advertised' /\ Linked' /\ Prefixes' /\ Exact'
           /\ (Offload' <=> Offload)
           /\ Offload /\ purged > 0 => Covers(catalog', purged)
<1>1. /\ (Offload' <=> Offload) /\ (Rebuilds' <=> Rebuilds) /\ log' = log
      /\ Len(log) \in Nat /\ purged \in Nat /\ ads \subseteq Nat /\ DOMAIN tasks \subseteq Nat
    BY DEF WriteFrame, Offload, Rebuilds, IInv, Shapes, IsMap
<1>2. IsWrite(w, Len(log)) /\ IsData(w.data)
      /\ (Rebuilds /\ UserInstalls # "any" => Holds(w.data, log, w.last))
    BY DEF IInv, Shapes, States, Prefixes
<1>3. Shapes'
    BY <1>1 DEF IInv, Shapes, WriteFrame, CatalogMoves, TasksMove, WritingMoves
<1>4. States'
    BY <1>1, <1>2 DEF IInv, States, WriteFrame, CatalogMoves, TasksMove, WritingMoves
<1>5. Advertised'
    BY <1>1 DEF IInv, Advertised, WriteFrame, CatalogMoves, TasksMove
<1>6. Linked'
    BY DEF IInv, Linked, WriteFrame, TasksMove, WritingMoves
<1>7. Prefixes'
    <2> SUFFICES ASSUME Rebuilds, UserInstalls # "any" PROVE Prefixes'
        BY <1>1 DEF Prefixes
    <2>1. \A k \in DOMAIN catalog' : catalog'[k].state = "whole" => Holds(catalog'[k].data, log, k)
        BY <1>2 DEF IInv, Prefixes, CatalogMoves
    <2>2. \A k \in DOMAIN tasks' : tasks'[k].stage # "spawned" => Holds(tasks'[k].data, log, k)
        BY DEF IInv, Prefixes, TasksMove
    <2>3. \A v \in writing' : Holds(v.data, log, v.last)
        BY <1>2 DEF IInv, Prefixes, WritingMoves
    <2> QED BY <1>1, <2>1, <2>2, <2>3 DEF IInv, Prefixes, WriteFrame
<1>8. Exact'
    <2>1. Offload \/ crashes # 0
        BY DEF IInv, Exact
    <2> QED BY <1>1, <2>1 DEF Exact, WriteFrame
<1> QED BY <1>1, <1>3, <1>4, <1>5, <1>6, <1>7, <1>8 DEF IInv, Covered, CatalogMoves

\* A write that goes on to its next stage.
LEMMA OnToKeeps ==
    ASSUME IInv, NEW w \in writing, NEW stage \in WriteStages, OnTo(w, stage),
           UNCHANGED <<core, inner, tasks, ads, installs, faulted, crashes, config>>,
           CatalogMoves(w)
    PROVE  /\ WriteFrame /\ TasksMove /\ WritingMoves(w)
           /\ \E v \in writing' : v.by = w.by /\ v.last = w.last /\ v.stage = stage
           /\ \A v \in writing' : v \in writing \/ (v.stage = stage /\ v.last = w.last)
           /\ \A v \in writing : v \in writing' \/ v = w
           /\ Covered'
<1> DEFINE u == [w EXCEPT !.stage = stage]
<1>1. IsWrite(w, Len(log))
    BY DEF IInv, Shapes
<1>2. u = [by |-> w.by, last |-> w.last, data |-> w.data, stage |-> stage]
    BY <1>1 DEF IsWrite
<1>3. writing' = (writing \ {w}) \cup {u}
    BY DEF OnTo
<1> HIDE DEF u
<1>4. u.by = w.by /\ u.last = w.last /\ u.data = w.data /\ u.stage = stage /\ IsWrite(u, Len(log))
    BY <1>1, <1>2 DEF IsWrite
<1>5. WriteFrame
    BY DEF WriteFrame, core, inner, IInv, Shapes
<1>6. TasksMove
    BY DEF TasksMove, IInv, Shapes
<1>7. WritingMoves(w)
    BY <1>3, <1>4 DEF WritingMoves
<1>8. Covered'
    <2>1. UNCHANGED <<status, core_snapshot, purged, config>>
        BY DEF core
    <2>2. core_snapshot \in Nat /\ purged \in Nat /\ (Offload' <=> Offload)
        BY <2>1 DEF IInv, Shapes, Offload
    <2>3. \A v \in writing : \E x \in writing' : x.by = v.by /\ x.last = v.last
        BY <1>3, <1>4
    <2> QED BY <2>1, <2>2, <2>3 DEF IInv, Covered, CatalogMoves
<1> QED BY <1>3, <1>4, <1>5, <1>6, <1>7, <1>8

\* data.bin is begun: nothing that was listed ceases to be.
LEMMA CreateDataKeeps ==
    ASSUME IInv, NEW w \in writing, create_data(w)
    PROVE  IInv' /\ CatalogMoves(w)
<1> DEFINE i == w.last
<1> DEFINE before == IF i \in DOMAIN catalog THEN catalog[i].state ELSE "unlisted"
<1> DEFINE after == IF before = "whole" THEN "torn" ELSE before
<1> DEFINE e == Files(after, <<>>, Beside(w) # {})
<1>1. /\ UNCHANGED <<core, inner, tasks, ads, installs, faulted, crashes, config>>
      /\ catalog' = Put(catalog, i, e) /\ OnTo(w, "data") /\ w.stage = "called"
    BY DEF create_data, At
<1>2. /\ i \in 1 .. Len(log) /\ Len(log) \in Nat
      /\ IsMap(catalog, Len(log)) /\ \A k \in DOMAIN catalog : IsFiles(catalog[k])
    BY DEF IInv, Shapes, States, IsWrite
<1>3. before \in FileStates
    BY <1>2 DEF IsFiles, FileStates
<1>4. /\ e.state = after /\ e.state \in {"unlisted", "torn", "undecodable"} /\ IsFiles(e)
      /\ i \in Listed(catalog) => e.state # "unlisted"
    BY <1>3 DEF Files, IsFiles, FileStates, Listed
<1> HIDE DEF e
<1>5. /\ DOMAIN catalog' = DOMAIN catalog \cup {i} /\ catalog' = [k \in DOMAIN catalog' |-> catalog'[k]]
      /\ catalog'[i] = e /\ \A k \in DOMAIN catalog : k # i => catalog'[k] = catalog[k]
    BY <1>1 DEF Put
<1> HIDE DEF i
<1>6. Listed(catalog) \subseteq Listed(catalog')
    BY <1>4, <1>5 DEF Listed
<1>7. CatalogMoves(w)
    <2>1. IsMap(catalog', Len(log))
        BY <1>2, <1>5 DEF IsMap
    <2>2. \A p \in Nat : Covers(catalog, p) => Covers(catalog', p)
        BY <1>6 DEF Covers
    <2>3. \A k \in DOMAIN catalog' : k = i \/ (k \in DOMAIN catalog /\ catalog'[k] = catalog[k])
        BY <1>5
    <2> QED BY <1>2, <1>4, <1>5, <2>1, <2>2, <2>3 DEF CatalogMoves, i
<1>8. "data" \in WriteStages
    BY DEF WriteStages
<1>9. /\ WriteFrame /\ TasksMove /\ WritingMoves(w) /\ Covered'
      /\ \E v \in writing' : v.by = w.by /\ v.last = w.last /\ v.stage = "data"
      /\ \A v \in writing' : v \in writing \/ (v.stage = "data" /\ v.last = w.last)
      /\ \A v \in writing : v \in writing' \/ v = w
    BY <1>1, <1>7, <1>8, OnToKeeps
<1>10. Shapes' /\ States' /\ Advertised' /\ Linked' /\ Prefixes' /\ Exact'
    BY <1>7, <1>9, MovesKeep
<1>11. Opened'
    <2>1. \A v \in writing : v.last \in Nat
        BY DEF IInv, Shapes, IsWrite
    <2>2. \A v \in writing' : v.stage = "meta" => v \in writing
        BY <1>9
    <2>3. \A v \in writing' : v \in writing \/ v.last = i
        BY <1>9 DEF i
    <2> QED BY <1>5, <1>7, <2>1, <2>2, <2>3 DEF IInv, Opened, CatalogMoves
<1>12. Settled'
    <2> SUFFICES ASSUME NEW k \in Listed(catalog'), k # i
                 PROVE  \/ catalog'[k].state = "whole" \/ faulted'
                        \/ \E v \in writing' : Midway(v) /\ v.last = k
        BY <1>9 DEF Settled, Midway, i
    <2>1. k \in Listed(catalog) /\ catalog'[k] = catalog[k]
        BY <1>5 DEF Listed
    <2>2. \A v \in writing : Midway(v) => v \in writing'
        BY <1>1, <1>9 DEF Midway
    <2> QED BY <1>1, <2>1, <2>2 DEF IInv, Settled
<1> QED BY <1>7, <1>9, <1>10, <1>11, <1>12 DEF IInv

\* meta.json is begun, and the directory listed.
LEMMA CreateMetaKeeps ==
    ASSUME IInv, NEW w \in writing, create_meta(w)
    PROVE  IInv' /\ CatalogMoves(w)
<1> DEFINE i == w.last
<1> DEFINE e == Files("undecodable", <<>>, catalog[i].shared)
<1>1. /\ UNCHANGED <<core, inner, tasks, ads, installs, faulted, crashes, config>>
      /\ catalog' = [catalog EXCEPT ![i] = e] /\ OnTo(w, "meta") /\ i \in DOMAIN catalog
    BY DEF create_meta, At
<1>2. /\ i \in 1 .. Len(log) /\ Len(log) \in Nat
      /\ IsMap(catalog, Len(log)) /\ \A k \in DOMAIN catalog : IsFiles(catalog[k])
    BY DEF IInv, Shapes, States, IsWrite
<1>3. e.state = "undecodable" /\ IsFiles(e)
    BY <1>1, <1>2 DEF Files, IsFiles, FileStates
<1> HIDE DEF e
<1>4. /\ DOMAIN catalog' = DOMAIN catalog /\ catalog' = [k \in DOMAIN catalog' |-> catalog'[k]]
      /\ catalog'[i] = e /\ \A k \in DOMAIN catalog : k # i => catalog'[k] = catalog[k]
    BY <1>1, <1>2 DEF IsMap
<1> HIDE DEF i
<1>5. Listed(catalog) \subseteq Listed(catalog') /\ i \in Listed(catalog')
    BY <1>1, <1>3, <1>4 DEF Listed
<1>6. CatalogMoves(w)
    <2>1. IsMap(catalog', Len(log))
        BY <1>2, <1>4 DEF IsMap
    <2>2. \A p \in Nat : Covers(catalog, p) => Covers(catalog', p)
        BY <1>5 DEF Covers
    <2>3. \A k \in DOMAIN catalog' : k = i \/ (k \in DOMAIN catalog /\ catalog'[k] = catalog[k])
        BY <1>4
    <2> QED BY <1>2, <1>3, <1>4, <2>1, <2>2, <2>3 DEF CatalogMoves, i
<1>7. "meta" \in WriteStages
    BY DEF WriteStages
<1>8. /\ WriteFrame /\ TasksMove /\ WritingMoves(w) /\ Covered'
      /\ \E v \in writing' : v.by = w.by /\ v.last = w.last /\ v.stage = "meta"
      /\ \A v \in writing' : v \in writing \/ (v.stage = "meta" /\ v.last = w.last)
      /\ \A v \in writing : v \in writing' \/ v = w
    BY <1>1, <1>6, <1>7, OnToKeeps
<1>9. Shapes' /\ States' /\ Advertised' /\ Linked' /\ Prefixes' /\ Exact'
    BY <1>6, <1>8, MovesKeep
<1>10. Opened'
    <2>1. \A v \in writing : v.last \in Nat
        BY DEF IInv, Shapes, IsWrite
    <2>2. \A v \in writing' : v \in writing \/ v.last = i
        BY <1>8 DEF i
    <2>3. Covers(catalog', i)
        <3>1. i >= i
            BY <1>2
        <3> QED BY <1>5, <3>1 DEF Covers
    <2> QED BY <1>4, <1>6, <2>1, <2>2, <2>3 DEF IInv, Opened, CatalogMoves
<1>11. Settled'
    <2> SUFFICES ASSUME NEW k \in Listed(catalog'), k # i
                 PROVE  \/ catalog'[k].state = "whole" \/ faulted'
                        \/ \E v \in writing' : Midway(v) /\ v.last = k
        BY <1>8 DEF Settled, Midway, i
    <2>1. k \in Listed(catalog) /\ catalog'[k] = catalog[k]
        BY <1>4 DEF Listed
    <2>2. \A v \in writing : v.last = k => v \in writing'
        BY <1>8 DEF i
    <2> QED BY <1>1, <2>1, <2>2 DEF IInv, Settled
<1> QED BY <1>6, <1>8, <1>9, <1>10, <1>11 DEF IInv

\* How a write ends: the task that waits for it goes on or is over.
LEMMA EndMoves ==
    ASSUME IInv, NEW w \in writing, Failed(w) \/ (Returned(w) /\ Covers(catalog', w.last))
    PROVE  /\ TasksMove /\ writing' = writing \ {w} /\ WritingMoves(w)
           /\ status' = status \/ status' = "failed"
           /\ w.by = "core" => status' = "failed" \/ Covers(catalog', w.last)
<1>1. writing' = writing \ {w} /\ WritingMoves(w)
    BY DEF Failed, Returned, WritingMoves
<1>2. /\ status' = status \/ status' = "failed"
      /\ w.by = "core" => status' = "failed" \/ Covers(catalog', w.last)
    BY DEF Failed, Returned
<1>3. IsMap(tasks, Len(log)) /\ \A k \in DOMAIN tasks : IsTask(tasks[k], Len(log))
    BY DEF IInv, Shapes
<1>4. TasksMove
    <2>1. CASE tasks' = tasks
        BY <1>3, <2>1 DEF TasksMove
    <2>2. CASE tasks' = Without(w.last)
        BY <1>3, <2>2 DEF TasksMove, Without, IsMap
    <2>3. CASE /\ w.by = "task" /\ tasks' = [tasks EXCEPT ![w.last].stage = "written"]
               /\ Covers(catalog', w.last)
        <3>1. DOMAIN tasks' = DOMAIN tasks /\ IsMap(tasks', Len(log))
            BY <1>3, <2>3 DEF IsMap
        <3>2. ASSUME NEW k \in DOMAIN tasks, k # w.last PROVE tasks'[k] = tasks[k]
            BY <2>3, <3>2
        <3>3. ASSUME NEW k \in DOMAIN tasks, k = w.last
              PROVE  tasks'[k] = [stage |-> "written", data |-> tasks[k].data,
                                  membership |-> tasks[k].membership]
            BY <1>3, <2>3, <3>3 DEF IsTask
        <3>4. ASSUME NEW k \in DOMAIN tasks, k = w.last
              PROVE  /\ IsTask(tasks'[k], Len(log)) /\ tasks'[k].data = tasks[k].data
                     /\ tasks'[k].stage = "written" /\ tasks[k].stage # "spawned"
            <4> DEFINE t == [stage |-> "written", data |-> tasks[k].data,
                             membership |-> tasks[k].membership]
            <4>1. IsTask(tasks[k], Len(log)) /\ tasks[k].stage # "spawned"
                BY <1>3, <2>3, <3>4 DEF IInv, Linked
            <4>2. IsTask(t, Len(log)) /\ t.data = tasks[k].data /\ t.stage = "written"
                BY <4>1 DEF IsTask, Stages
            <4>3. tasks'[k] = t
                BY <3>3, <3>4
            <4> HIDE DEF t
            <4> QED BY <4>1, <4>2, <4>3
        <3> QED BY <1>3, <2>3, <3>1, <3>2, <3>4 DEF TasksMove
    <2> QED BY <2>1, <2>2, <2>3 DEF Failed, Returned
<1> QED BY <1>1, <1>2, <1>4

\* A write that ends keeps the invariant, provided that the files it leaves are
\* whole, or that it counts as one that met something.
LEMMA EndKeeps ==
    ASSUME IInv, NEW w \in writing, WriteFrame, CatalogMoves(w),
           Failed(w) \/ (Returned(w) /\ Covers(catalog', w.last)),
           faulted' \/ (w.last \in Listed(catalog') => catalog'[w.last].state = "whole")
    PROVE  IInv'
<1>1. /\ TasksMove /\ writing' = writing \ {w} /\ WritingMoves(w)
      /\ w.by = "core" => status' = "failed" \/ Covers(catalog', w.last)
    BY EndMoves
<1>2. /\ Shapes' /\ States' /\ Advertised' /\ Linked' /\ Prefixes' /\ Exact'
      /\ (Offload' <=> Offload) /\ (Offload /\ purged > 0 => Covers(catalog', purged))
    BY <1>1, MovesKeep
<1>3. /\ core_snapshot \in Nat /\ \A v \in writing : v.last \in Nat
      /\ Listed(catalog') \subseteq Nat
      /\ UNCHANGED <<purged, core_snapshot>> /\ (status' = status \/ status' = "failed")
    BY <1>1 DEF IInv, Shapes, IsWrite, CatalogMoves, IsMap, Listed, WriteFrame
<1>4. Covered'
    <2>1. ASSUME Offload, status' = "up", core_snapshot > 0, ~Covers(catalog', core_snapshot)
          PROVE  \E v \in writing' : v.by = "core" /\ v.last >= core_snapshot
        <3>1. status = "up" /\ ~Covers(catalog, core_snapshot)
            BY <1>3, <2>1 DEF CatalogMoves
        <3>2. PICK v \in writing : v.by = "core" /\ v.last >= core_snapshot
            BY <2>1, <3>1 DEF IInv, Covered
        <3>3. v # w
            <4> SUFFICES ASSUME v = w PROVE Covers(catalog', core_snapshot)
                BY <2>1
            <4>1. PICK k \in Listed(catalog') : k >= w.last
                BY <1>1, <2>1, <3>2 DEF Covers
            <4>2. k >= core_snapshot
                BY <1>3, <3>2, <4>1
            <4> QED BY <4>2 DEF Covers
        <3> QED BY <1>1, <3>2, <3>3
    <2> QED BY <1>2, <1>3, <2>1 DEF Covered
<1>5. Opened'
    BY <1>1, <1>3 DEF IInv, Opened, CatalogMoves
<1>6. Settled'
    <2> SUFFICES ASSUME NEW k \in Listed(catalog'), ~faulted', k # w.last
                 PROVE  \/ catalog'[k].state = "whole"
                        \/ \E v \in writing' : Midway(v) /\ v.last = k
        BY DEF Settled
    <2>1. k \in Listed(catalog) /\ catalog'[k] = catalog[k]
        BY DEF Listed, CatalogMoves
    <2> QED BY <1>1, <2>1 DEF IInv, Settled, WriteFrame
<1> QED BY <1>2, <1>4, <1>5, <1>6 DEF IInv

\* The catalog after a prune, or where it failed.
LEMMA PruneOrNot ==
    ASSUME NEW n \in Nat, NEW c, IsMap(c, n), NEW d, d = c \/ d = Prune(c)
    PROVE  /\ IsMap(d, n)
           /\ DOMAIN d \subseteq DOMAIN c
           /\ \A k \in DOMAIN d : d[k] = c[k]
           /\ \A p \in Nat : Covers(c, p) => Covers(d, p)
           /\ \A k \in DOMAIN c : k \in DOMAIN d \/ Covers(d, k)
<1>1. DOMAIN c \subseteq 1 .. n /\ c = [k \in DOMAIN c |-> c[k]]
    BY DEF IsMap
<1>2. CASE d = c
    BY <1>1, <1>2 DEF IsMap
<1>3. CASE d = Prune(c)
    <2>1. /\ DOMAIN Prune(c) \subseteq DOMAIN c
          /\ \A k \in DOMAIN Prune(c) : Prune(c)[k] = c[k]
          /\ \A p \in Nat : Covers(c, p) => Covers(Prune(c), p)
          /\ \A k \in DOMAIN c : k \in DOMAIN Prune(c) \/ Covers(Prune(c), k)
        <3>1. DOMAIN c \subseteq 1 .. n
            BY <1>1
        <3> QED BY <3>1, PruneKeeps
    <2>2. Prune(c) = [k \in DOMAIN Prune(c) |-> Prune(c)[k]]
        BY DEF Prune
    <2>3. IsMap(d, n)
        BY <1>1, <1>3, <2>1, <2>2 DEF IsMap
    <2> QED BY <1>3, <2>1, <2>3
<1> QED BY <1>2, <1>3

Filled(w, files) == [catalog EXCEPT ![w.last] = files]

\* What a write leaves in the files of its index: nothing listed ceases to be, and
\* what is whole is its own data or what was there.
LEMMA FilesMove ==
    ASSUME IInv, NEW w \in writing, w.last \in DOMAIN catalog, NEW files \in Written(w),
           catalog' = Filled(w, files) \/ catalog' = Prune(Filled(w, files))
    PROVE  /\ CatalogMoves(w)
           /\ catalog[w.last].shared \/
                (w.last \in Listed(catalog') => catalog'[w.last].state = "whole")
<1> DEFINE i == w.last
           after == Filled(w, files)
<1>1. /\ Len(log) \in Nat /\ IsMap(catalog, Len(log)) /\ i \in DOMAIN catalog
      /\ \A k \in DOMAIN catalog : IsFiles(catalog[k])
      /\ IsData(w.data)
    BY DEF IInv, Shapes, States
<1>2. /\ IsFiles(files) /\ (files.state = "unlisted" => files = catalog[i])
      /\ files.state = "whole" => files.data = w.data \/ files = catalog[i]
      /\ ~catalog[i].shared => files.state = "whole"
    <2>1. \/ files = catalog[i] /\ catalog[i].shared
          \/ files = Files("whole", w.data, TRUE) /\ catalog[i].shared
          \/ files = Files("torn", <<>>, TRUE) /\ catalog[i].shared
          \/ files = Files("undecodable", <<>>, TRUE) /\ catalog[i].shared
          \/ files = Files("whole", w.data, FALSE)
        BY <1>1 DEF Written
    <2>2. CASE files = catalog[i]
        BY <1>1, <2>1, <2>2 DEF Files
    <2>3. CASE files # catalog[i]
        <3>1. \/ files.state = "whole" /\ files.data = w.data
              \/ files.state \in {"torn", "undecodable"} /\ files.data = <<>> /\ catalog[i].shared
            BY <2>1, <2>3 DEF Files
        <3>2. files.shared = TRUE \/ files.shared = FALSE
            BY <2>1, <2>3 DEF Files
        <3> QED BY <1>1, <2>3, <3>1, <3>2 DEF IsFiles, FileStates
    <2> QED BY <2>2, <2>3
<1>3. /\ DOMAIN after = DOMAIN catalog /\ after = [k \in DOMAIN after |-> after[k]]
      /\ after[i] = files /\ \A k \in DOMAIN catalog : k # i => after[k] = catalog[k]
    BY <1>1 DEF IsMap, Filled
<1> HIDE DEF i, after
<1>4. Listed(catalog) \subseteq Listed(after) /\ DOMAIN after \subseteq 1 .. Len(log)
    BY <1>1, <1>2, <1>3 DEF Listed, IsMap
<1>5. /\ IsMap(catalog', Len(log))
      /\ DOMAIN catalog' \subseteq DOMAIN after
      /\ \A k \in DOMAIN catalog' : catalog'[k] = after[k]
      /\ \A p \in Nat : Covers(after, p) => Covers(catalog', p)
      /\ \A k \in DOMAIN after : k \in DOMAIN catalog' \/ Covers(catalog', k)
    <2>1. IsMap(after, Len(log))
        BY <1>3, <1>4 DEF IsMap
    <2>2. catalog' = after \/ catalog' = Prune(after)
        BY DEF after
    <2> QED BY <1>1, <2>1, <2>2, PruneOrNot
<1>6. \A p \in Nat : Covers(catalog, p) => Covers(catalog', p)
    BY <1>4, <1>5 DEF Covers
<1>7. \A k \in DOMAIN catalog' : IF k = i THEN catalog'[k] = files
                                 ELSE k \in DOMAIN catalog /\ catalog'[k] = catalog[k]
    BY <1>3, <1>5
<1>8. CatalogMoves(w)
    BY <1>1, <1>2, <1>3, <1>5, <1>6, <1>7 DEF CatalogMoves, i
<1>9. catalog[i].shared \/ (i \in Listed(catalog') => catalog'[i].state = "whole")
    BY <1>2, <1>7 DEF Listed
<1> QED BY <1>8, <1>9 DEF i

\* meta.json is complete and the group pruned, or the prune failed.
LEMMA CompleteKeeps ==
    ASSUME IInv, NEW w \in writing, complete(w)
    PROVE  IInv' /\ CatalogMoves(w) /\ Covers(catalog', w.last)
<1>1. PICK files \in Written(w) :
          LET after == [catalog EXCEPT ![w.last] = files]
          IN  IF Listable(after)
              THEN catalog' = Prune(after) /\ Returned(w)
              ELSE catalog' = after /\ Failed(w)
    BY DEF complete
<1>2. /\ UNCHANGED <<log, core_applied, core_snapshot, purged, last_applied_log, last_membership,
                     fsm, current_snapshot, ads, installs, crashes, config>>
      /\ w.stage = "meta" /\ w.last \in DOMAIN catalog
      /\ faulted' = (faulted \/ catalog[w.last].shared)
    BY DEF complete, inner, At
<1>3. /\ catalog' = Filled(w, files) \/ catalog' = Prune(Filled(w, files))
      /\ Returned(w) \/ Failed(w)
    BY <1>1 DEF Filled
<1>4. /\ CatalogMoves(w)
      /\ catalog[w.last].shared \/
            (w.last \in Listed(catalog') => catalog'[w.last].state = "whole")
    BY <1>2, <1>3, FilesMove
<1>5. Covers(catalog', w.last)
    <2>1. Covers(catalog, w.last) /\ w.last \in Nat
        BY <1>2 DEF IInv, Opened, Shapes, IsWrite
    <2> QED BY <1>4, <2>1 DEF CatalogMoves
<1>6. faulted' \in BOOLEAN /\ (faulted => faulted') /\ (catalog[w.last].shared => faulted')
    BY <1>2 DEF IInv, Shapes
<1>7. WriteFrame
    BY <1>2, <1>3, <1>6 DEF WriteFrame, Returned, Failed
<1> QED BY <1>3, <1>4, <1>5, <1>6, <1>7, EndKeeps

\* The directory is gone: the prune that removed it has left newer ones.
LEMMA LoseDirectoryKeeps ==
    ASSUME IInv, NEW w \in writing, lose_directory(w)
    PROVE  IInv'
<1>1. /\ UNCHANGED <<log, core_applied, core_snapshot, purged, last_applied_log, last_membership,
                     fsm, current_snapshot, catalog, faulted, ads, installs, crashes, config>>
      /\ w.last \notin DOMAIN catalog /\ Failed(w)
    BY DEF lose_directory, inner, disk
<1>2. WriteFrame
    BY <1>1 DEF WriteFrame, Failed, IInv, Shapes
<1>3. CatalogMoves(w)
    BY <1>1 DEF CatalogMoves, IInv, Shapes, States
<1>4. w.last \notin Listed(catalog')
    BY <1>1 DEF Listed
<1> QED BY <1>1, <1>2, <1>3, <1>4, EndKeeps

\* A file operation fails.
LEMMA WriteErrorKeeps ==
    ASSUME IInv, NEW w \in writing, write_error(w)
    PROVE  IInv'
<1>1. /\ UNCHANGED <<log, core_applied, core_snapshot, purged, last_applied_log, last_membership,
                     fsm, current_snapshot, ads, installs, crashes, config>>
      /\ Failed(w) /\ faulted' = TRUE
    BY DEF write_error, inner
<1>2. WriteFrame
    BY <1>1 DEF WriteFrame, Failed
<1>3. CatalogMoves(w)
    <2>1. CASE catalog' = catalog
        BY <2>1 DEF CatalogMoves, IInv, Shapes, States
    <2>2. CASE /\ w.last \in DOMAIN catalog
               /\ \E files \in Written(w) : catalog' = [catalog EXCEPT ![w.last] = files]
        BY <2>2, FilesMove DEF Filled
    <2> QED BY <2>1, <2>2 DEF write_error
<1> QED BY <1>1, <1>2, <1>3, EndKeeps

\* What a peer's snapshot restores.
LEMMA PeerRestores ==
    ASSUME log \in Seq(Payloads), NEW s \in PeerSnapshots
    PROVE  /\ IsData(s.data) /\ IsState(FsmRestore(s.data))
           /\ Reaches(FsmRestore(s.data), log, s.last)
           /\ ~Offload => FsmRestore(s.data) = StateAt(log, s.last)
<1>1. /\ s.last \in 1 .. Len(log) /\ Holds(s.data, log, s.last)
      /\ ~Offload => s.data = FsmSnapshot(StateAt(log, s.last))
    BY PeerSnapshotShape
<1>2. PICK j \in s.last .. Len(log) : s.data = FsmSnapshot(StateAt(log, j))
    BY <1>1 DEF Holds
<1>3. j \in 0 .. Len(log) /\ j \in Nat /\ s.last \in Nat
    BY <1>1, <1>2
<1>4. IsData(s.data)
    BY <1>2, <1>3, PrefixState
<1>5. FsmRestore(s.data) = StateAt(log, j) /\ (~Offload => FsmRestore(s.data) = StateAt(log, s.last))
    BY <1>1, <1>2, <1>3, PrefixRestores
<1>6. Reaches(FsmRestore(s.data), log, s.last)
    BY <1>2, <1>5 DEF Reaches
<1> QED BY <1>4, <1>5, <1>6 DEF IsData

\* The write that an install leaves behind has the shape and the data it should.
LEMMA InstallWrite ==
    ASSUME log \in Seq(Payloads), NEW s \in PeerSnapshots, NEW by \in {"core", "user"}
    PROVE  /\ \A w \in WriteOf(by, s) :
                 /\ IsWrite(w, Len(log)) /\ IsData(w.data) /\ Holds(w.data, log, w.last)
                 /\ w.by = by /\ w.last = s.last /\ w.stage = "called"
           /\ Offload => WriteOf(by, s) # {}
           /\ ~Offload => WriteOf(by, s) = {}
<1>1. s.last \in 1 .. Len(log) /\ Holds(s.data, log, s.last) /\ IsData(s.data)
    BY PeerSnapshotShape, PeerRestores
<1> DEFINE u == CatalogWrite(by, s.last, s.data)
<1>2. /\ u.by = by /\ u.last = s.last /\ u.data = s.data /\ u.stage = "called"
      /\ IsWrite(u, Len(log))
    BY <1>1 DEF IsWrite, CatalogWrite, WriteStages
<1> HIDE DEF u
<1>3. WriteOf(by, s) = IF Offload THEN {u} ELSE {}
    BY DEF WriteOf, u
<1> QED BY <1>1, <1>2, <1>3

\* The core installs a peer's snapshot.
LEMMA InstallKeeps ==
    ASSUME IInv, NEW s \in PeerSnapshots, install_snapshot(s)
    PROVE  IInv'
<1>1. /\ UNCHANGED <<log, purged, status, catalog, faulted, tasks, ads, installs, crashes, config>>
      /\ s.last > core_applied /\ core_applied' = s.last /\ core_snapshot' = s.last
      /\ fsm' = FsmRestore(s.data) /\ last_applied_log' = s.last
      /\ last_membership' = s.membership /\ current_snapshot' = s
      /\ writing' = writing \cup WriteOf("core", s)
    BY DEF install_snapshot, Restore, disk
<1>2. log \in Seq(Payloads) /\ Len(log) \in Nat /\ core_applied \in Nat
    BY DEF IInv, Shapes
<1>3. (Offload' <=> Offload) /\ (Rebuilds' <=> Rebuilds)
    BY <1>1 DEF Offload, Rebuilds
<1>4. /\ IsSnapshot(s, Len(log)) /\ s.last \in 1 .. Len(log) /\ Holds(s.data, log, s.last)
      /\ s.last \in 0 .. Len(log) /\ s.membership \in 0 .. Len(log)
      /\ ~Offload => /\ s.data = FsmSnapshot(StateAt(log, s.last))
                     /\ s.membership = MembershipAt(log, s.last)
    BY <1>2, PeerSnapshotShape DEF IsSnapshot
<1>5. /\ \A w \in WriteOf("core", s) :
            /\ IsWrite(w, Len(log)) /\ IsData(w.data) /\ Holds(w.data, log, w.last)
            /\ w.by = "core" /\ w.last = s.last /\ w.stage = "called"
      /\ Offload => WriteOf("core", s) # {}
      /\ ~Offload => WriteOf("core", s) = {}
    BY <1>2, InstallWrite
<1>6. Shapes'
    <2>1. \A i \in DOMAIN tasks : i \in Nat /\ i <= s.last
        BY <1>1, <1>2, <1>4 DEF IInv, Shapes, IsMap
    <2> QED BY <1>1, <1>4, <1>5, <2>1 DEF IInv, Shapes
<1>7. States'
    BY <1>1, <1>2, <1>5, PeerRestores DEF IInv, States
<1>8. Covered'
    <2>1. Offload => \E w \in writing' : w.by = "core" /\ w.last >= core_snapshot'
        <3>1. s.last >= s.last
            BY <1>4
        <3> QED BY <1>1, <1>5, <3>1
    <2> QED BY <1>1, <1>3, <2>1 DEF IInv, Covered
<1>9. Advertised' /\ Opened' /\ Settled'
    BY <1>1, <1>5 DEF IInv, Advertised, Opened, Settled
<1>10. Linked'
    <2>1. ASSUME NEW w \in writing, w.by = "task" PROVE w.last <= s.last
        BY <1>1, <1>2, <1>4, <2>1 DEF IInv, Linked, Shapes, IsWrite
    <2> QED BY <1>1, <1>5, <2>1 DEF IInv, Linked
<1>11. Prefixes'
    BY <1>1, <1>2, <1>3, <1>4, <1>5, PeerRestores DEF IInv, Prefixes
<1>12. Exact'
    BY <1>1, <1>2, <1>3, <1>4, <1>5, PeerRestores DEF IInv, Exact, HotSnapshotExact
<1> QED BY <1>6, <1>7, <1>8, <1>9, <1>10, <1>11, <1>12 DEF IInv

\* The application installs a snapshot.
LEMMA DurableInstallKeeps ==
    ASSUME IInv, NEW s \in PeerSnapshots, install_durable_snapshot(s)
    PROVE  IInv'
<1> DEFINE r == [s EXCEPT !.membership = 0]
<1>1. /\ UNCHANGED <<core, catalog, faulted, tasks, ads, crashes, config>>
      /\ UserInstalls # "any" => s.last >= core_applied
      /\ fsm' = FsmRestore(r.data) /\ last_applied_log' = r.last
      /\ last_membership' = r.membership /\ current_snapshot' = r
      /\ writing' = writing \cup WriteOf("user", s)
      /\ installs' = installs + 1 /\ installs < MaxInstalls
    BY DEF install_durable_snapshot, Restore, disk
<1>2. /\ log \in Seq(Payloads) /\ Len(log) \in Nat /\ core_applied \in 0 .. Len(log)
      /\ installs' \in 0 .. MaxInstalls /\ installs' # 0
    BY <1>1, StoreAssumption DEF IInv, Shapes
<1>3. (Offload' <=> Offload) /\ (Rebuilds' <=> Rebuilds) /\ log' = log
      /\ UNCHANGED <<core_applied, core_snapshot, purged, status>>
    BY <1>1 DEF Offload, Rebuilds, core
<1>4. /\ IsSnapshot(s, Len(log)) /\ s.last \in 1 .. Len(log) /\ Holds(s.data, log, s.last)
    BY <1>2, PeerSnapshotShape
<1>5. r = Snapshot(s.last, 0, s.data)
    BY <1>4 DEF IsSnapshot, Snapshot
<1> HIDE DEF r
<1>6. r.last = s.last /\ r.data = s.data /\ r.membership = 0 /\ IsSnapshot(r, Len(log))
    BY <1>2, <1>4, <1>5 DEF IsSnapshot, Snapshot
<1>7. /\ \A w \in WriteOf("user", s) :
            /\ IsWrite(w, Len(log)) /\ IsData(w.data) /\ Holds(w.data, log, w.last)
            /\ w.by = "user" /\ w.stage = "called"
      /\ ~Offload => WriteOf("user", s) = {}
    BY <1>2, InstallWrite
<1>8. Shapes'
    <2>1. last_applied_log' \in 0 .. Len(log) /\ last_membership' \in 0 .. Len(log)
        BY <1>1, <1>2, <1>4, <1>6
    <2> QED BY <1>1, <1>2, <1>3, <1>6, <1>7, <2>1 DEF IInv, Shapes
<1>9. States'
    BY <1>1, <1>2, <1>6, <1>7, PeerRestores DEF IInv, States
<1>10. Covered' /\ Advertised' /\ Opened' /\ Settled' /\ Linked'
    BY <1>1, <1>3, <1>7 DEF IInv, Covered, Advertised, Opened, Settled, Linked
<1>11. Prefixes'
    <2>1. ASSUME UserInstalls # "any"
          PROVE  Reaches(fsm', log, core_applied) /\ Reaches(fsm', log, last_applied_log')
        <3>1. PICK j \in s.last .. Len(log) : fsm' = StateAt(log, j)
            BY <1>1, <1>2, <1>6, PeerRestores DEF Reaches
        <3>2. j \in core_applied .. Len(log) /\ last_applied_log' = s.last
            BY <1>1, <1>2, <1>4, <1>6, <2>1, <3>1
        <3> QED BY <3>1, <3>2 DEF Reaches
    <2> QED BY <1>1, <1>3, <1>4, <1>6, <1>7, <2>1 DEF IInv, Prefixes
<1>12. Exact'
    BY <1>1, <1>2, <1>3, <1>7 DEF IInv, Exact, HotSnapshotExact
<1> QED BY <1>8, <1>9, <1>10, <1>11, <1>12 DEF IInv

\* build_snapshot dumps the state machine under the lock.
LEMMA BuildKeeps ==
    ASSUME IInv, build_snapshot
    PROVE  IInv'
<1> DEFINE s == Snapshot(last_applied_log, last_membership, FsmSnapshot(fsm))
<1>1. /\ UNCHANGED <<log, core_applied, purged, status, last_applied_log, last_membership, fsm,
                     catalog, faulted, tasks, writing, ads, installs, crashes, config>>
      /\ ~Offload /\ status = "up" /\ current_snapshot' = s /\ core_snapshot' = last_applied_log
    BY DEF build_snapshot, CoreIdle, disk
<1>2. s.last = last_applied_log /\ s.membership = last_membership /\ s.data = FsmSnapshot(fsm)
      /\ s = Snapshot(s.last, s.membership, s.data)
    BY DEF Snapshot
<1> HIDE DEF s
<1>3. ~Offload' /\ (Rebuilds' <=> Rebuilds)
    BY <1>1 DEF Offload, Rebuilds
<1>4. Shapes'
    <2>1. IsSnapshot(s, Len(log))
        BY <1>2 DEF IInv, Shapes, IsSnapshot
    <2> QED BY <1>1, <2>1 DEF IInv, Shapes
<1>5. States'
    <2>1. IsData(FsmSnapshot(fsm))
        BY DEF IInv, States, IsState, IsData, FsmRestore, FsmSnapshot
    <2> QED BY <1>1, <1>2, <2>1 DEF IInv, States
<1>6. Covered' /\ Advertised' /\ Opened' /\ Settled' /\ Linked'
    BY <1>1, <1>3 DEF IInv, Covered, Advertised, Opened, Settled, Linked
<1>7. Prefixes'
    <2> SUFFICES ASSUME Rebuilds, UserInstalls # "any" PROVE Holds(s.data, log, s.last)
        BY <1>1, <1>3 DEF IInv, Prefixes
    <2>1. PICK j \in last_applied_log .. Len(log) : fsm = StateAt(log, j)
        BY <1>1 DEF IInv, Prefixes, Reaches
    <2> QED BY <1>2, <2>1 DEF Holds
<1>8. Exact'
    BY <1>1, <1>2, <1>3 DEF IInv, Exact, HotSnapshotExact
<1> QED BY <1>4, <1>5, <1>6, <1>7, <1>8 DEF IInv

\* The core purges the log up to a snapshot it knows, with no install under way:
\* the snapshot is in the catalog by then.
LEMMA PurgeKeeps ==
    ASSUME IInv, PurgeLog
    PROVE  IInv'
<1>1. /\ UNCHANGED <<log, core_applied, core_snapshot, status, last_applied_log, last_membership,
                     fsm, current_snapshot, catalog, faulted, tasks, writing, ads, installs,
                     crashes, config>>
      /\ purged' = core_snapshot /\ purged < core_snapshot
      /\ status = "up" /\ \A w \in writing : w.by # "core"
    BY DEF PurgeLog, CoreIdle, inner, disk
<1>2. (Offload' <=> Offload) /\ (Rebuilds' <=> Rebuilds)
    BY <1>1 DEF Offload, Rebuilds
<1>3. Shapes' /\ States' /\ Advertised' /\ Opened' /\ Settled' /\ Linked' /\ Prefixes' /\ Exact'
    BY <1>1, <1>2 DEF IInv, Shapes, States, Advertised, Opened, Settled, Linked, Prefixes,
        Exact, HotSnapshotExact
<1>4. Covered'
    <2>1. core_snapshot > 0
        BY <1>1 DEF IInv, Shapes
    <2>2. Offload => Covers(catalog, core_snapshot)
        BY <1>1, <2>1 DEF IInv, Covered
    <2> QED BY <1>1, <1>2, <2>2 DEF IInv, Covered
<1> QED BY <1>3, <1>4 DEF IInv

\* The process restarts.  With offload, what was purged is in the catalog, so the
\* state machine starts from a snapshot that has all of it, or from nothing with
\* the whole log to replay; or the group is not created, where the catalog cannot
\* be read.
LEMMA RestartKeeps ==
    ASSUME IInv, Restart
    PROVE  IInv'
<1> DEFINE s == Latest(catalog)
           use == purged > 0 /\ s # NoSnapshot
<1>1. /\ UNCHANGED <<log, purged, catalog, ads, installs, config>>
      /\ crashes < MaxCrash /\ crashes' = crashes + 1
      /\ fsm' = IF use THEN FsmRestore(s.data) ELSE Fresh
      /\ last_applied_log' = IF use THEN s.last ELSE 0
      /\ current_snapshot' = IF use THEN s ELSE NoSnapshot
      /\ core_applied' = IF use THEN s.last ELSE IF Readable(catalog) THEN purged ELSE 0
      /\ core_snapshot' = s.last
      /\ last_membership' = 0 /\ status' = IF Readable(catalog) THEN "up" ELSE "absent"
      /\ tasks' = Empty /\ writing' = {}
      /\ faulted' = (faulted \/ \E w \in writing : Midway(w))
    BY DEF Restart
<1>2. /\ log \in Seq(Payloads) /\ Len(log) \in Nat /\ purged \in 0 .. Len(log)
      /\ DOMAIN catalog \subseteq 1 .. Len(log)
      /\ crashes \in Nat /\ MaxCrash \in Nat
    BY StoreAssumption DEF IInv, Shapes, IsMap
<1>3. /\ ~(Readable(catalog) /\ Listed(catalog) # {}) => s = NoSnapshot
      /\ Readable(catalog) /\ Listed(catalog) # {} =>
            /\ s # NoSnapshot /\ s.last \in Listed(catalog) /\ catalog[s.last].state = "whole"
            /\ s = Snapshot(s.last, 0, catalog[s.last].data)
    BY <1>2, LatestIsNewest
<1> HIDE DEF s
<1>4. /\ IsSnapshot(s, Len(log)) /\ IsSnapshot(NoSnapshot, Len(log)) /\ s.last \in 0 .. Len(log)
      /\ s # NoSnapshot => /\ s.last \in Listed(catalog) /\ s.last \in DOMAIN catalog
                           /\ catalog[s.last].state = "whole" /\ s.data = catalog[s.last].data
    <2>1. IsSnapshot(NoSnapshot, Len(log)) /\ NoSnapshot.last = 0
        BY <1>2 DEF IsSnapshot, NoSnapshot, Snapshot
    <2>2. CASE s = NoSnapshot
        BY <1>2, <2>1, <2>2
    <2>3. CASE s # NoSnapshot
        <3>1. s.last \in Listed(catalog) /\ catalog[s.last].state = "whole"
              /\ s = Snapshot(s.last, 0, catalog[s.last].data)
            BY <1>3, <2>3
        <3>2. s.last \in DOMAIN catalog
            BY <3>1 DEF Listed
        <3>3. s.last \in 1 .. Len(log) /\ s.membership = 0 /\ s.data = catalog[s.last].data
              /\ s = Snapshot(s.last, s.membership, s.data)
            BY <1>2, <3>1, <3>2 DEF Snapshot
        <3> QED BY <1>2, <2>1, <3>1, <3>2, <3>3 DEF IsSnapshot
    <2> QED BY <2>2, <2>3
<1>5. Offload /\ purged > 0 => use \/ ~Readable(catalog)
    BY <1>3 DEF IInv, Covered, Covers
<1>6. crashes' \in 0 .. MaxCrash /\ crashes' # 0 /\ (Offload' <=> Offload) /\ (Rebuilds' => Offload)
    BY <1>1, <1>2 DEF Offload, Rebuilds
<1>7. IsMap(Empty, Len(log)) /\ DOMAIN Empty = {}
    BY DEF IsMap, Empty
<1>8. Shapes'
    <2>1. faulted' \in BOOLEAN
        BY <1>1
    <2>2. core_applied' \in 0 .. Len(log) /\ last_applied_log' \in 0 .. Len(log)
        BY <1>1, <1>2, <1>4
    <2> QED BY <1>1, <1>2, <1>4, <1>6, <1>7, <2>1, <2>2 DEF IInv, Shapes
<1>9. States'
    <2>1. IsState(Fresh)
        BY DEF IsState, Fresh
    <2>2. s # NoSnapshot => IsData(s.data)
        BY <1>4 DEF IInv, States, IsFiles
    <2> QED BY <1>1, <1>7, <2>1, <2>2 DEF IInv, States, IsData
<1>10. Covered'
    <2>1. s.last > 0 => Covers(catalog, s.last)
        <3>1. s.last > 0 => s.last \in Listed(catalog)
            <4>1. NoSnapshot.last = 0
                BY DEF NoSnapshot
            <4> QED BY <1>4, <4>1
        <3>2. s.last >= s.last
            BY <1>4
        <3> QED BY <3>1, <3>2 DEF Covers
    <2> QED BY <1>1, <1>6, <2>1 DEF IInv, Covered
<1>11. Advertised' /\ Opened' /\ Linked'
    BY <1>1, <1>7 DEF IInv, Advertised, Opened, Linked
<1>12. Settled'
    BY <1>1 DEF IInv, Settled
<1>13. Prefixes'
    <2> SUFFICES ASSUME Offload, UserInstalls # "any" PROVE Prefixes'
        BY <1>6 DEF Prefixes
    <2>1. s # NoSnapshot => Holds(s.data, log, s.last)
        BY <1>4 DEF IInv, Prefixes, Rebuilds
    <2>2. CASE use
        <3>1. PICK j \in s.last .. Len(log) : s.data = FsmSnapshot(StateAt(log, j))
            BY <2>1, <2>2 DEF Holds
        <3>2. j \in Nat
            BY <1>2, <1>4, <3>1
        <3>3. Reaches(fsm', log, s.last)
            BY <1>1, <2>2, <3>1, <3>2, PrefixRestores DEF Reaches
        <3> HIDE DEF use
        <3> QED BY <1>1, <1>7, <2>1, <2>2, <3>3 DEF IInv, Prefixes, Rebuilds, use
    <2>3. CASE ~use
        <3>1. core_applied' = 0 /\ last_applied_log' = 0
            BY <1>1, <1>2, <1>5, <2>3
        <3>2. Fresh = StateAt(log, 0)
            <4> DEFINE one == 1
                       zero == 0
            <4>1. one \in Nat /\ zero \in Nat /\ zero < one
                OBVIOUS
            <4> HIDE DEF one, zero
            <4>2. ApplyRange(Fresh, log, one, zero) = Fresh
                BY <4>1, ApplyNone
            <4> QED BY <4>2 DEF StateAt, one, zero
        <3>3. Reaches(Fresh, log, 0)
            BY <1>2, <3>2 DEF Reaches
        <3> QED BY <1>1, <1>7, <2>3, <3>1, <3>3 DEF IInv, Prefixes, Rebuilds
    <2> QED BY <2>2, <2>3
<1>14. Exact'
    BY <1>6 DEF Exact
<1> QED BY <1>8, <1>9, <1>10, <1>11, <1>12, <1>13, <1>14 DEF IInv

-----------------------------------------------------------------------------
(***************************************************************************)
(* The invariant, and what follows from it.                                *)
(***************************************************************************)

\* A new group starts with it.
LEMMA IInvInit ==
    ASSUME Init
    PROVE  IInv
<1>1. /\ config \in Configs /\ log = <<>> /\ Len(log) = 0 /\ log \in Seq(Payloads)
      /\ MaxLog \in Nat /\ MaxCrash \in Nat /\ MaxInstalls \in Nat
    BY StoreAssumption DEF Init
<1>2. IsMap(Empty, 0) /\ DOMAIN Empty = {} /\ Listed(Empty) = {}
    BY DEF IsMap, Empty, Listed
<1>3. IsSnapshot(NoSnapshot, 0)
    BY DEF IsSnapshot, NoSnapshot, Snapshot
<1>4. Shapes
    <2>1. faulted \in BOOLEAN
        BY Zenon DEF Init
    <2>2. installs \in 0 .. MaxInstalls /\ crashes \in 0 .. MaxCrash
        BY <1>1 DEF Init
    <2> QED BY <1>1, <1>2, <1>3, <2>1, <2>2 DEF Shapes, Init
<1>5. States
    BY <1>2 DEF States, Init, IsState, Fresh
<1>6. Covered /\ Advertised /\ Opened /\ Settled /\ Linked
    BY <1>2 DEF Covered, Advertised, Opened, Settled, Linked, Init
<1>7. Fresh = StateAt(log, 0) /\ MembershipAt(log, 0) = 0
    <2> DEFINE one == 1
               zero == 0
    <2>1. one \in Nat /\ zero \in Nat /\ zero < one
        OBVIOUS
    <2>2. MembershipAt(log, 0) \in 0 .. 0
        BY MembershipSame
    <2> HIDE DEF one, zero
    <2>3. ApplyRange(Fresh, log, one, zero) = Fresh
        BY <2>1, ApplyNone
    <2> QED BY <2>2, <2>3 DEF StateAt, one, zero
<1>8. Prefixes
    <2>1. Reaches(Fresh, log, 0)
        BY <1>1, <1>7 DEF Reaches
    <2> QED BY <1>2, <2>1 DEF Prefixes, Init
<1>9. Exact
    BY <1>7 DEF Exact, Init, HotSnapshotExact
<1> QED BY <1>4, <1>5, <1>6, <1>8, <1>9 DEF IInv

\* Every step keeps it.
LEMMA IInvStep ==
    ASSUME IInv, [Next]_vars
    PROVE  IInv'
<1>1. ASSUME NEW p \in Payloads, Commit(p) PROVE IInv'
    BY <1>1, CommitKeeps
<1>2. ASSUME NEW m \in 1 .. MaxLog, apply(m) \/ apply_error(m) PROVE IInv'
    BY <1>2, ApplyKeeps, ApplyErrorKeeps
<1>3. ASSUME NEW i \in 1 .. MaxLog, Task(i) PROVE IInv'
    BY <1>3, FreezeKeeps, TaskKeeps DEF Task
<1>4. ASSUME NEW s \in PeerSnapshots, install_snapshot(s) \/ install_durable_snapshot(s) PROVE IInv'
    BY <1>4, InstallKeeps, DurableInstallKeeps
<1>5. ASSUME NEW w \in writing, WriteStep(w) \/ write_error(w) PROVE IInv'
    BY <1>5, CreateDataKeeps, CreateMetaKeeps, CompleteKeeps, LoseDirectoryKeeps,
       WriteErrorKeeps DEF WriteStep
<1>6. CASE build_snapshot \/ PurgeLog \/ Restart
    BY <1>6, BuildKeeps, PurgeKeeps, RestartKeeps
<1>7. CASE UNCHANGED vars
    BY <1>7 DEF vars, core, inner, disk, IInv, Shapes, States, Covered, Advertised, Opened,
        Settled, Linked, Prefixes, Exact, HotSnapshotExact, Offload, Rebuilds
<1> QED BY <1>1, <1>2, <1>3, <1>4, <1>5, <1>6, <1>7 DEF Next

\* So it holds in every reachable state.
LEMMA Invariance == Spec => []IInv
<1>1. Init => IInv
    BY IInvInit
<1>2. IInv /\ [Next]_vars => IInv'
    BY IInvStep
<1> QED BY <1>1, <1>2, PTL DEF Spec

\* The states and the data the bridge keeps have their types, and all its indexes
\* are indexes of the committed log.
THEOREM TypeCorrect == Spec => []TypeOK
<1>1. IInv => TypeOK
    <2> SUFFICES ASSUME IInv PROVE TypeOK
        OBVIOUS
    <2>1. /\ {core_applied, core_snapshot, purged, last_applied_log, last_membership,
              current_snapshot.last, current_snapshot.membership} \subseteq 0 .. Len(log)
        BY DEF IInv, Shapes, IsSnapshot
    <2>2. DOMAIN catalog \subseteq 1 .. Len(log) /\ DOMAIN tasks \subseteq 1 .. Len(log)
        BY DEF IInv, Shapes, IsMap
    <2>3. \A i \in DOMAIN tasks : tasks[i].stage \in Stages
        BY DEF IInv, Shapes, IsTask
    <2>4. \A w \in writing :
              /\ w.by \in {"core", "user", "task"} /\ w.last \in 1 .. Len(log)
              /\ w.stage \in WriteStages /\ IsData(w.data)
        BY DEF IInv, Shapes, States, IsWrite
    <2> QED BY <2>1, <2>2, <2>3, <2>4 DEF IInv, Shapes, States, TypeOK
<1> QED BY <1>1, Invariance, PTL

\* A snapshot taken or served by build_standby_snapshot_async, an install or the
\* catalog leads whoever restores it and applies the entries after its label to
\* the state of the whole log, unless the application may install snapshots that
\* are behind what is applied.
THEOREM SnapshotsLeadOn == Spec => [](UserInstalls # "any" => SnapshotsCatchUp)
<1>1. IInv => (UserInstalls # "any" => SnapshotsCatchUp)
    <2> SUFFICES ASSUME IInv, UserInstalls # "any", Rebuilds PROVE SnapshotsCatchUp
        BY DEF SnapshotsCatchUp
    <2>1. ASSUME NEW i \in 0 .. Len(log), NEW d, Holds(d, log, i)
          PROVE  ApplyRange(FsmRestore(d), log, i + 1, Len(log)) = StateAt(log, Len(log))
        <3>1. PICK j \in i .. Len(log) : d = FsmSnapshot(StateAt(log, j))
            BY <2>1 DEF Holds
        <3>2. i \in Nat /\ Len(log) \in Nat /\ j \in Nat /\ i <= j /\ j <= Len(log) /\ i <= Len(log)
            BY <3>1 DEF IInv, Shapes
        <3>3. FsmRestore(d) = StateAt(log, j)
            BY <3>1, <3>2, PrefixRestores
        <3>4. ApplyRange(StateAt(log, j), log, i + 1, Len(log))
                  = StateAt(log, IF j >= Len(log) THEN j ELSE Len(log))
            BY <3>2, ApplyBatch
        <3>5. (IF j >= Len(log) THEN j ELSE Len(log)) = Len(log)
            BY <3>2
        <3> QED BY <3>3, <3>4, <3>5
    <2>2. current_snapshot # NoSnapshot => CatchUp(current_snapshot) = StateAt(log, Len(log))
        <3>1. current_snapshot.last \in 0 .. Len(log)
            BY DEF IInv, Shapes, IsSnapshot
        <3> QED BY <2>1, <3>1 DEF CatchUp, IInv, Prefixes
    <2>3. ASSUME NEW i \in DOMAIN catalog, catalog[i].state = "whole"
          PROVE  CatchUp(Snapshot(i, 0, catalog[i].data)) = StateAt(log, Len(log))
        <3> DEFINE d == catalog[i].data
        <3>1. i \in 0 .. Len(log) /\ Holds(d, log, i)
            BY <2>3 DEF IInv, Shapes, IsMap, Prefixes
        <3>2. Snapshot(i, 0, d).last = i /\ Snapshot(i, 0, d).data = d
            BY DEF Snapshot
        <3> HIDE DEF d
        <3>3. CatchUp(Snapshot(i, 0, d)) = StateAt(log, Len(log))
            BY <2>1, <3>1, <3>2 DEF CatchUp
        <3> QED BY <3>3 DEF d
    <2> QED BY <2>2, <2>3 DEF SnapshotsCatchUp
<1> QED BY <1>1, Invariance, PTL

\* A node that has applied the whole log agrees with every other replica, under
\* the same condition on the application: apply, install_snapshot, the recovery
\* from a catalog and a restart all end in the state of the log.
THEOREM ReplicasAgree == Spec => [](UserInstalls # "any" => CaughtUpAgrees)
<1>1. IInv => (UserInstalls # "any" => CaughtUpAgrees)
    <2> SUFFICES ASSUME IInv, UserInstalls # "any", Rebuilds, core_applied = Len(log)
                 PROVE  fsm = StateAt(log, Len(log))
        BY DEF CaughtUpAgrees
    <2>1. PICK j \in core_applied .. Len(log) : fsm = StateAt(log, j)
        BY DEF IInv, Prefixes, Reaches
    <2>2. j = Len(log)
        BY <2>1 DEF IInv, Shapes
    <2> QED BY <2>1, <2>2
<1> QED BY <1>1, Invariance, PTL

\* Without offload, and as long as the application has not called
\* install_durable_snapshot, a snapshot built or installed before the first restart
\* holds exactly what its label says, with the membership in force there.
THEOREM HotSnapshotsAreExact == Spec => []HotSnapshotExact
<1>1. IInv => HotSnapshotExact
    BY DEF IInv, Exact, HotSnapshotExact
<1> QED BY <1>1, Invariance, PTL

\* What the catalog covers is served, wherever it can be read; and it can be read
\* unless a write is under way or one met an error, a kill or another of its index.
LEMMA CoveredIsOnDisk ==
    ASSUME IInv, NEW i \in Nat, Covers(catalog, i)
    PROVE  OnDisk(i)
<1>1. Len(log) \in Nat /\ DOMAIN catalog \subseteq 1 .. Len(log) /\ Listed(catalog) \subseteq 1 .. Len(log)
    BY DEF IInv, Shapes, IsMap, Listed
<1>2. PICK k \in Listed(catalog) : k >= i
    BY DEF Covers
<1>3. ASSUME ~faulted, \A w \in writing : ~Midway(w) PROVE Readable(catalog)
    <2>1. \A j \in Listed(catalog) : catalog[j].state = "whole"
        BY <1>3 DEF IInv, Settled
    <2>2. Listable(catalog)
        BY <2>1 DEF Listable, Listed
    <2>3. Max(Listed(catalog)) \in Listed(catalog)
        <3>1. Listed(catalog) \in SUBSET (0 .. Len(log)) /\ Listed(catalog) # {}
            BY <1>1, <1>2
        <3> QED BY <1>1, <3>1, MaxOfSet
    <2> QED BY <2>1, <2>2, <2>3 DEF Readable
<1>4. ASSUME Readable(catalog) PROVE Latest(catalog).last >= i
    <2>1. Latest(catalog).last \in Listed(catalog) /\ k <= Latest(catalog).last
        BY <1>1, <1>2, <1>4, LatestIsNewest
    <2> QED BY <1>1, <1>2, <2>1
<1> QED BY <1>2, <1>3, <1>4 DEF OnDisk

\* With offload, what the log store has purged is covered by a snapshot on disk,
\* whatever catalog write fails or is killed half-way and whatever its prune meets;
\* and the latest snapshot, read, covers it wherever the catalog can be read.
THEOREM PurgedIsOnDisk == Spec => []PurgedIsCovered
<1>1. IInv => PurgedIsCovered
    <2> SUFFICES ASSUME IInv, Offload, purged > 0 PROVE OnDisk(purged)
        BY DEF PurgedIsCovered, RestartRebuilds
    <2>1. purged \in Nat /\ Covers(catalog, purged)
        BY DEF IInv, Shapes, Covered
    <2> QED BY <2>1, CoveredIsOnDisk
<1> QED BY <1>1, Invariance, PTL

\* What record_ad has advertised stays on disk until something newer is, and the
\* catalog, where it can be read, serves it or the newer one.
THEOREM AdsAreServed == Spec => []AdvertisedIsServed
<1>1. IInv => AdvertisedIsServed
    <2> SUFFICES ASSUME IInv, NEW i \in ads PROVE OnDisk(i)
        BY DEF AdvertisedIsServed
    <2>1. i \in Nat /\ Covers(catalog, i)
        BY DEF IInv, Shapes, Advertised
    <2> QED BY <2>1, CoveredIsOnDisk
<1> QED BY <1>1, Invariance, PTL

-----------------------------------------------------------------------------
(***************************************************************************)
(* What TriggersCovered rests on: while no file operation fails, no        *)
(* applied trigger of a Standby is forgotten, not even where a prune meets *)
(* the meta.json of another write and its own write fails for it.          *)
(***************************************************************************)

\* A task is on it, or a snapshot at or after it is on disk or being written.
InHand(i) ==
    \/ i \in DOMAIN tasks
    \/ Covers(catalog, i)
    \/ \E w \in writing : w.last >= i

TriggersInHand ==
    Standby => \A i \in 1 .. core_applied : log[i].kind = "trigger" => InHand(i)

\* What a step may do to what is in hand: whatever it takes away is on disk.
HandsOver ==
    /\ \A p \in Nat : Covers(catalog, p) => Covers(catalog', p)
    /\ \A k \in DOMAIN tasks : k \in DOMAIN tasks' \/ Covers(catalog', k)
    /\ \A v \in writing : (\E u \in writing' : u.last = v.last) \/ Covers(catalog', v.last)

\* Such a step keeps every trigger that was in hand.
LEMMA HandsOverKeeps ==
    ASSUME IInv, IInv', HandsOver, NEW i \in Nat, InHand(i)
    PROVE  InHand(i)'
<1>1. Listed(catalog') \subseteq Nat /\ \A w \in writing : w.last \in Nat
    <2>1. Len(log') \in Nat /\ DOMAIN catalog' \subseteq 1 .. Len(log')
        BY DEF IInv, Shapes, IsMap
    <2>2. \A w \in writing : w.last \in Nat
        BY DEF IInv, Shapes, IsWrite
    <2> QED BY <2>1, <2>2 DEF Listed
<1>2. ASSUME NEW w \in writing, w.last >= i PROVE InHand(i)'
    <2>1. CASE \E u \in writing' : u.last = w.last
        BY <1>2, <2>1 DEF InHand
    <2>2. CASE Covers(catalog', w.last)
        <3>1. PICK k \in Listed(catalog') : k >= w.last
            BY <2>2 DEF Covers
        <3>2. k >= i
            BY <1>1, <1>2, <3>1
        <3> QED BY <3>2 DEF InHand, Covers
    <2> QED BY <2>1, <2>2 DEF HandsOver
<1> QED BY <1>2 DEF InHand, HandsOver

\* A step that applies nothing and hands over what it takes keeps the triggers.
LEMMA TriggersKept ==
    ASSUME IInv, IInv', TriggersInHand, HandsOver, UNCHANGED <<config, core_applied>>,
           Len(log') >= Len(log), \A i \in 1 .. Len(log) : log'[i] = log[i]
    PROVE  TriggersInHand'
<1> SUFFICES ASSUME Standby, NEW i \in 1 .. core_applied, log'[i].kind = "trigger" PROVE InHand(i)'
    BY DEF TriggersInHand, Standby, Offload
<1>1. core_applied \in 0 .. Len(log) /\ Len(log) \in Nat
    BY DEF IInv, Shapes
<1>2. i \in 1 .. Len(log) /\ i \in Nat
    BY <1>1
<1>3. InHand(i)
    BY <1>2 DEF TriggersInHand
<1> QED BY <1>2, <1>3, HandsOverKeeps

\* A step of a catalog write hands over: where it ends, its index is covered,
\* whether it returned Ok, its prune failed or its directory was gone.
LEMMA WriteHandsOver ==
    ASSUME IInv, NEW w \in writing, WriteStep(w)
    PROVE  HandsOver /\ UNCHANGED <<config, core_applied, log>>
<1>1. w.last \in Nat
    BY DEF IInv, Shapes, IsWrite
<1>2. CASE create_data(w) \/ create_meta(w)
    <2>1. CatalogMoves(w) /\ UNCHANGED <<config, core_applied, log, tasks>>
        BY <1>2, CreateDataKeeps, CreateMetaKeeps DEF create_data, create_meta, core
    <2>2. PICK stage : writing' = (writing \ {w}) \cup {[w EXCEPT !.stage = stage]}
        BY <1>2 DEF create_data, create_meta, OnTo
    <2>3. [w EXCEPT !.stage = stage].last = w.last
        BY DEF IInv, Shapes, IsWrite
    <2>4. \A v \in writing : \E u \in writing' : u.last = v.last
        BY <2>2, <2>3
    <2> QED BY <2>1, <2>4 DEF HandsOver, CatalogMoves
<1>3. ASSUME Returned(w) \/ Failed(w), Covers(catalog', w.last),
             \A p \in Nat : Covers(catalog, p) => Covers(catalog', p)
      PROVE  HandsOver
    <2>1. writing' = writing \ {w}
        BY <1>3 DEF Returned, Failed
    <2>2. DOMAIN tasks' = DOMAIN tasks \/ tasks' = Without(w.last)
        BY <1>3 DEF Returned, Failed
    <2>3. DOMAIN Without(w.last) = DOMAIN tasks \ {w.last}
        BY DEF Without
    <2> QED BY <1>3, <2>1, <2>2, <2>3 DEF HandsOver
<1>4. CASE complete(w)
    <2>1. UNCHANGED <<config, core_applied, log>> /\ (Returned(w) \/ Failed(w))
        BY <1>4 DEF complete
    <2>2. CatalogMoves(w) /\ Covers(catalog', w.last)
        BY <1>4, CompleteKeeps
    <2> QED BY <1>3, <2>1, <2>2 DEF CatalogMoves
<1>5. CASE lose_directory(w)
    <2>1. /\ UNCHANGED <<config, core_applied, log, catalog>> /\ Failed(w)
          /\ w.stage # "called" /\ w.last \notin DOMAIN catalog
        BY <1>5 DEF lose_directory, disk, Midway
    <2>2. Covers(catalog, w.last)
        BY <2>1 DEF IInv, Opened, Shapes, IsWrite, WriteStages
    <2> QED BY <1>3, <2>1, <2>2
<1> QED BY <1>2, <1>4, <1>5 DEF WriteStep

\* Every step keeps the triggers in hand: apply spawns a task for each trigger of
\* its batch, a task ends once its snapshot is on disk or its write has left one
\* there, an install that jumps over triggers writes a snapshot that has them,
\* and a restart either replays the log from its beginning or starts from a
\* snapshot on disk.
LEMMA TriggersStep ==
    ASSUME ~WriteFails, IInv, IInv', TriggersInHand, [Next]_vars
    PROVE  TriggersInHand'
<1>1. /\ Len(log) \in Nat /\ log \in Seq(Payloads) /\ core_applied \in 0 .. Len(log)
      /\ DOMAIN catalog \subseteq 1 .. Len(log) /\ \A i \in 1 .. Len(log) : log[i] = log[i]
      /\ Len(log) >= Len(log)
    BY DEF IInv, Shapes, IsMap
<1>2. ASSUME UNCHANGED <<config, core_applied, log>>, HandsOver
      PROVE  TriggersInHand'
    BY <1>1, <1>2, TriggersKept
<1>3. ASSUME UNCHANGED catalog, writing \subseteq writing',
             \A k \in DOMAIN tasks : k \in DOMAIN tasks' \/ Covers(catalog, k)
      PROVE  HandsOver
    BY <1>3 DEF HandsOver
<1>4. ASSUME NEW p \in Payloads, Commit(p) PROVE TriggersInHand'
    <2>1. /\ UNCHANGED <<config, core_applied, catalog, writing, tasks>>
          /\ log' = Append(log, p)
        BY <1>4 DEF Commit, disk
    <2>2. Len(log') >= Len(log) /\ \A i \in 1 .. Len(log) : log'[i] = log[i]
        BY <1>1, <2>1
    <2> QED BY <1>3, <2>1, <2>2, TriggersKept
<1>5. ASSUME NEW m \in 1 .. MaxLog, apply(m) PROVE TriggersInHand'
    <2>1. /\ UNCHANGED <<config, log, catalog, writing>>
          /\ m \in core_applied + 1 .. Len(log) /\ core_applied' = m
          /\ tasks' = IF Standby THEN Spawn(Triggers(core_applied + 1, m)) ELSE tasks
        BY <1>5 DEF apply, disk
    <2> SUFFICES ASSUME Standby, NEW i \in 1 .. m, log[i].kind = "trigger" PROVE InHand(i)'
        BY <2>1 DEF TriggersInHand, Standby, Offload
    <2>2. DOMAIN tasks' = Triggers(core_applied + 1, m) \cup DOMAIN tasks
        BY <2>1 DEF Spawn
    <2>3. CASE i <= core_applied
        <3>1. InHand(i) /\ i \in Nat
            BY <1>1, <2>1, <2>3 DEF TriggersInHand
        <3> QED BY <1>3, <2>1, <2>2, <3>1, HandsOverKeeps
    <2>4. CASE ~(i <= core_applied)
        <3>1. i \in core_applied + 1 .. m
            BY <1>1, <2>1, <2>4
        <3>2. i \in Triggers(core_applied + 1, m)
            BY <3>1 DEF Triggers
        <3> QED BY <2>2, <3>2 DEF InHand
    <2> QED BY <2>3, <2>4
<1>6. ASSUME NEW m \in 1 .. MaxLog, apply_error(m) PROVE TriggersInHand'
    BY <1>2, <1>3, <1>6 DEF apply_error, disk
<1>7. ASSUME NEW i \in 1 .. MaxLog, Task(i) PROVE TriggersInHand'
    <2>1. CASE freeze(i) \/ read_membership(i)
        BY <1>2, <1>3, <2>1 DEF freeze, read_membership, core, disk
    <2>2. CASE publish(i)
        BY <1>2, <1>3, <2>2 DEF publish, core, disk
    <2>3. CASE record_ad(i)
        <3>1. /\ UNCHANGED <<config, core_applied, log, catalog, writing>>
              /\ i \in DOMAIN tasks /\ tasks[i].stage = "published"
              /\ DOMAIN tasks' = DOMAIN tasks \ {i}
            BY <2>3 DEF record_ad, Without, AtStage, core, disk
        <3>2. Covers(catalog, i)
            BY <3>1 DEF IInv, Advertised
        <3> QED BY <1>2, <1>3, <3>1, <3>2
    <2> QED BY <1>7, <2>1, <2>2, <2>3 DEF Task
<1>8. ASSUME NEW s \in PeerSnapshots, install_snapshot(s) PROVE TriggersInHand'
    <2>1. /\ UNCHANGED <<config, log>> /\ writing' = writing \cup WriteOf("core", s)
          /\ core_applied' = s.last
        BY <1>8 DEF install_snapshot
    <2>2. s.last \in 1 .. Len(log)
        BY <1>1, PeerSnapshotShape
    <2>3. Offload => \E w \in writing' : w.last = s.last
        BY <1>1, <2>1, InstallWrite
    <2> SUFFICES ASSUME Offload, NEW i \in 1 .. s.last PROVE InHand(i)'
        BY <2>1 DEF TriggersInHand, Standby, Offload
    <2> QED BY <1>1, <2>2, <2>3 DEF InHand
<1>9. ASSUME NEW s \in PeerSnapshots, install_durable_snapshot(s) PROVE TriggersInHand'
    <2>1. UNCHANGED <<config, core_applied, log, catalog, tasks>> /\ writing \subseteq writing'
        BY <1>9 DEF install_durable_snapshot, core, disk
    <2> QED BY <1>2, <1>3, <2>1
<1>10. ASSUME NEW w \in writing, WriteStep(w) PROVE TriggersInHand'
    BY <1>2, <1>10, WriteHandsOver
<1>11. CASE build_snapshot \/ PurgeLog
    BY <1>2, <1>3, <1>11 DEF build_snapshot, PurgeLog, disk
<1>12. CASE Restart
    <2> DEFINE s == Latest(catalog)
               use == purged > 0 /\ s # NoSnapshot
    <2>1. /\ UNCHANGED <<log, purged, catalog, config>>
          /\ core_applied' = IF use THEN s.last ELSE IF Readable(catalog) THEN purged ELSE 0
        BY <1>12 DEF Restart
    <2>2. /\ ~(Readable(catalog) /\ Listed(catalog) # {}) => s = NoSnapshot
          /\ Readable(catalog) /\ Listed(catalog) # {} => s # NoSnapshot /\ s.last \in Listed(catalog)
        BY <1>1, LatestIsNewest
    <2> HIDE DEF s
    <2>3. Offload => use \/ ~Readable(catalog) \/ purged = 0
        <3>1. Offload /\ purged > 0 => Listed(catalog) # {}
            BY DEF IInv, Covered, Covers
        <3>2. purged \in Nat
            BY DEF IInv, Shapes
        <3> QED BY <2>2, <3>1, <3>2
    <2> SUFFICES ASSUME Offload, NEW i \in 1 .. core_applied' PROVE Covers(catalog', i)
        BY <2>1 DEF TriggersInHand, InHand, Standby, Offload
    <2>4. use /\ core_applied' = s.last
        BY <2>1, <2>3
    <2>5. s.last \in Listed(catalog) /\ s.last \in Nat
        BY <1>1, <2>2, <2>4 DEF Listed
    <2> QED BY <2>1, <2>4, <2>5 DEF Covers
<1>13. CASE UNCHANGED vars
    BY <1>2, <1>3, <1>13 DEF vars, core, disk
<1> QED BY <1>4, <1>5, <1>6, <1>7, <1>8, <1>9, <1>10, <1>11, <1>12, <1>13
        DEF Next, write_error

\* On a Standby, while no file operation fails, every trigger that was applied has
\* a task on it, or a snapshot at or after it is listed in the catalog or being
\* written: neither a restart between two steps of build_standby_snapshot_async,
\* nor a kill or another write that makes its prune fail, nor an install that jumps
\* over the trigger, nor a purge or a prune loses it.
THEOREM NoTriggerForgotten ==
    Spec => [](~WriteFails /\ Standby =>
                   \A i \in 1 .. core_applied : log[i].kind = "trigger" =>
                       \/ i \in DOMAIN tasks
                       \/ \E k \in Listed(catalog) : k >= i
                       \/ \E w \in writing : w.last >= i)
<1>1. CASE WriteFails
    <2>1. ~(~WriteFails /\ Standby)
        BY <1>1
    <2> QED BY <2>1, PTL
<1>2. CASE ~WriteFails
    <2>1. Init => TriggersInHand
        BY DEF Init, TriggersInHand
    <2>2. IInv /\ IInv' /\ TriggersInHand /\ [Next]_vars => TriggersInHand'
        BY <1>2, TriggersStep
    <2>3. TriggersInHand =>
              (~WriteFails /\ Standby =>
                   \A i \in 1 .. core_applied : log[i].kind = "trigger" =>
                       \/ i \in DOMAIN tasks
                       \/ \E k \in Listed(catalog) : k >= i
                       \/ \E w \in writing : w.last >= i)
        BY DEF TriggersInHand, InHand, Covers
    <2> QED BY <2>1, <2>2, <2>3, Invariance, PTL DEF Spec
<1> QED BY <1>1, <1>2
=============================================================================
