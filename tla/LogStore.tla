------------------------------ MODULE LogStore ------------------------------
(***************************************************************************)
(* The Raft log store of one group as the Raft core sees it: a purge mark, *)
(* a map from indices to entries, a commit mark and a vote, each operation *)
(* taking effect at once (Spec).  It is the memory-only store of           *)
(* crates/multiraft-store/src/log_mem.rs.  DurableSpec is the promise that *)
(* the file store (FileLogStore) is shown to keep across kills: the same,  *)
(* but for a purge, whose mark and whose removal of the entries are two    *)
(* effects that a kill can separate.                                       *)
(***************************************************************************)
EXTENDS RaftLog

VARIABLES
    last_purged_log_id,
    log,
    committed,
    vote

vars == <<last_purged_log_id, log, committed, vote>>

TypeOK ==
    /\ last_purged_log_id \in OptLogId
    /\ log \in LogMap
    /\ committed \in OptLogId
    /\ vote \in OptVote

Init ==
    /\ last_purged_log_id = None
    /\ log = EmptyLog
    /\ committed = None
    /\ vote = None

append(entries) ==
    /\ CanAppend(log, last_purged_log_id, entries)
    /\ log' = InsertAll(log, entries)
    /\ UNCHANGED <<last_purged_log_id, committed, vote>>

truncate_after(start) ==
    /\ CanTruncate(log, last_purged_log_id, committed, start)
    /\ log' = KeepBelow(log, start)
    /\ UNCHANGED <<last_purged_log_id, committed, vote>>

purge(id) ==
    /\ CanPurge(log, last_purged_log_id, id)
    /\ last_purged_log_id' = id
    /\ log' = KeepFrom(log, id.index + 1)
    /\ UNCHANGED <<committed, vote>>

save_committed(id) ==
    /\ CanCommit(log, last_purged_log_id, committed, id)
    /\ committed' = id
    /\ UNCHANGED <<last_purged_log_id, log, vote>>

save_vote(v) ==
    /\ VoteLeq(vote, v)
    /\ vote' = v
    /\ UNCHANGED <<last_purged_log_id, log, committed>>

WholeCall ==
    \/ \E entries \in Batches : append(entries)
    \/ \E start \in Index : truncate_after(start)
    \/ \E id \in LogId : save_committed(id)
    \/ \E v \in Ranks : save_vote(v)

Next == WholeCall \/ \E id \in LogId : purge(id)

Spec == Init /\ [][Next]_vars

-----------------------------------------------------------------------------
\* The two effects of a purge.  Between them, and after a kill there until the
\* next purge, entries at or below the mark are still in the log, and its last
\* entry may be below the mark.
purge_mark(id) ==
    /\ CanPurge(log, last_purged_log_id, id)
    /\ last_purged_log_id' = id
    /\ UNCHANGED <<log, committed, vote>>

purge_entries ==
    /\ log' = KeepFrom(log, NextIndex(last_purged_log_id))
    /\ UNCHANGED <<last_purged_log_id, committed, vote>>

DurableNext == WholeCall \/ (\E id \in LogId : purge_mark(id)) \/ purge_entries

DurableSpec == Init /\ [][DurableNext]_vars
=============================================================================
