------------------------------ MODULE RaftLog ------------------------------
(***************************************************************************)
(* Log ids, entries and votes, the map operations the log stores of        *)
(* crates/multiraft-store use, and what the Raft core asks of a store.     *)
(*                                                                         *)
(* An entry is abstracted to the term of its log id: in Raft a log id      *)
(* (term, index) determines the entry.  A vote is abstracted to its rank   *)
(* in the order the Raft core uses; the core never saves a smaller one.    *)
(***************************************************************************)
EXTENDS Integers

CONSTANTS
    Terms,     \* terms of leaders, a set of natural numbers
    Ranks,     \* ranks of votes, a set of natural numbers
    MaxIndex,  \* bound: no entry is appended above this index
    MaxBatch,  \* bound: entries in one append call
    None       \* Rust's Option::None for log ids and votes

ASSUME TermsAssumption == Terms \subseteq Nat
ASSUME RanksAssumption == Ranks \subseteq Nat
ASSUME MaxIndexAssumption == MaxIndex \in Nat
ASSUME MaxBatchAssumption == MaxBatch \in Nat \ {0}

Index == 0 .. MaxIndex
LogId == [term : Terms, index : Index]

ASSUME NoneAssumption == None \notin LogId /\ None \notin Nat

OptLogId == LogId \cup {None}
OptVote  == Ranks \cup {None}

\* Partial maps from indices to entries: the BTreeMap of the stores.
LogMap == UNION { [D -> Terms] : D \in SUBSET Index }

EmptyLog == [i \in {} |-> 0]

\* The arguments append can be called with.
Batches == UNION { [a .. b -> Terms] : a, b \in Index }

(***************************************************************************)
(* The first index after an optional log id (LogId::next_index).           *)
(***************************************************************************)
NextIndex(id) == IF id = None THEN 0 ELSE id.index + 1

\* Vote order: None is below every vote.
VoteLeq(v, w) == v # None => (w # None /\ v <= w)

(***************************************************************************)
(* The map operations of the stores.                                       *)
(***************************************************************************)
InsertAll(log, entries) ==
    [i \in DOMAIN log \cup DOMAIN entries |->
        IF i \in DOMAIN entries THEN entries[i] ELSE log[i]]

KeepBelow(log, start) == [i \in {j \in DOMAIN log : j < start} |-> log[i]]

KeepFrom(log, start) == [i \in {j \in DOMAIN log : j >= start} |-> log[i]]

(***************************************************************************)
(* What the Raft core (openraft, external) may ask of a store.  A new      *)
(* batch starts right after the last_log_id of get_log_state: the last     *)
(* entry, or the purge mark of an empty log; a truncation keeps everything *)
(* committed; a purge mark moves forward, to an entry of the log or, after *)
(* a snapshot was installed, beyond the end of the log; votes and commit   *)
(* marks only grow.  A log that ends below the purge mark, which an        *)
(* interrupted purge leaves in the files, is purged once more, up to its   *)
(* mark or further, before anything is appended (openraft's storage helper *)
(* when it loads the initial state).                                       *)
(***************************************************************************)
IsNextIndex(log, purged, a) ==
    /\ NextIndex(purged) <= a
    /\ \A i \in DOMAIN log : i < a
    /\ \/ (a - 1) \in DOMAIN log
       \/ DOMAIN log = {} /\ a = NextIndex(purged)

\* Terms never decrease along a log; the entry before the first one may be
\* known by the purge mark only.
TermsGrow(log, purged, entries, a) ==
    /\ \A i, j \in DOMAIN entries : i <= j => entries[i] <= entries[j]
    /\ \A i \in DOMAIN entries :
          /\ (a - 1) \in DOMAIN log => log[a - 1] <= entries[i]
          /\ purged # None => purged.term <= entries[i]

CanAppend(log, purged, entries) ==
    \E a, b \in Index :
        /\ a <= b /\ b < a + MaxBatch
        /\ IsNextIndex(log, purged, a)
        /\ entries \in [a .. b -> Terms]
        /\ TermsGrow(log, purged, entries, a)

CanTruncate(log, purged, committed, start) ==
    /\ start \in DOMAIN log
    /\ NextIndex(purged) <= start
    /\ NextIndex(committed) <= start

CanPurge(log, purged, id) ==
    \/ id = purged
    \/ /\ NextIndex(purged) <= id.index
       /\ \/ id.index \in DOMAIN log /\ log[id.index] = id.term
          \/ \A i \in DOMAIN log : i < id.index /\ log[i] <= id.term

CanCommit(log, purged, committed, id) ==
    /\ NextIndex(committed) <= id.index
    /\ NextIndex(purged) <= id.index
    /\ id.index \in DOMAIN log
    /\ log[id.index] = id.term

-----------------------------------------------------------------------------
\* A log the core can restart from: no hole between the purge mark, or an older
\* entry still there, and the last entry; terms that never decrease; a commit
\* mark that the log reaches.
NoHoles(purged, log) ==
    /\ \A i \in DOMAIN log, j \in Index :
           NextIndex(purged) <= j /\ j <= i => j \in DOMAIN log
    /\ \A i, k \in DOMAIN log, j \in Index : k <= j /\ j <= i => j \in DOMAIN log

Sorted(log) == \A i, j \in DOMAIN log : i <= j => log[i] <= log[j]

CommitReached(purged, log, committed) ==
    \/ NextIndex(committed) <= NextIndex(purged)
    \/ committed.index \in DOMAIN log

Restartable(purged, log, committed) ==
    /\ NoHoles(purged, log)
    /\ Sorted(log)
    /\ CommitReached(purged, log, committed)
=============================================================================
