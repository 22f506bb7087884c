---------------------------- MODULE FileLogStore ----------------------------
(***************************************************************************)
(* The file-backed log store, crates/multiraft-store/src/log_file.rs.      *)
(*                                                                         *)
(* FileLogInner mirrors two files, hard_state.json and log.json.  A call   *)
(* changes the mirror and then rewrites one file or both, the hard state   *)
(* first; a file is replaced by the rename that ends atomic_write_json.    *)
(* The process can be killed between any two of these steps, any rewrite   *)
(* can fail, and open reads back whatever the two files hold.  The mutex   *)
(* of the store is held for the whole call, so calls never overlap.  The   *)
(* temporary file is never read, so it is not part of the state.  Kills    *)
(* are process kills: what reached the file system stays (no file is       *)
(* synced, so a power loss is outside the model).                          *)
(***************************************************************************)
EXTENDS RaftLog

VARIABLES
    hard_state,          \* the file: last_purged_log_id, committed, vote
    log_file,            \* the file: the entries
    last_purged_log_id,  \* FileLogInner
    log,
    committed,
    vote,
    status,              \* "down", "open", or "failed" after an I/O error
    todo,                \* rewrites the call in progress still has to make
    acked                \* auxiliary: what callers were told is stored

files  == <<hard_state, log_file>>
inner  == <<last_purged_log_id, log, committed, vote>>
vars   == <<hard_state, log_file, last_purged_log_id, log, committed, vote,
            status, todo, acked>>

HardState == [last_purged_log_id : OptLogId, committed : OptLogId, vote : OptVote]
Acked     == [last_purged_log_id : OptLogId, log : LogMap,
              committed : OptLogId, vote : OptVote]

\* "hard": persist_hard_state; "log": persist_log; "all": persist_all.
Todo == {"nothing", "hard", "log", "all"}

TypeOK ==
    /\ hard_state \in HardState
    /\ log_file \in LogMap
    /\ last_purged_log_id \in OptLogId
    /\ log \in LogMap
    /\ committed \in OptLogId
    /\ vote \in OptVote
    /\ status \in {"down", "open", "failed"}
    /\ todo \in Todo
    /\ acked \in Acked

DefaultHardState == [last_purged_log_id |-> None, committed |-> None, vote |-> None]

Mirror == [last_purged_log_id |-> last_purged_log_id, log |-> log,
           committed |-> committed, vote |-> vote]

\* An empty data directory and no process.
Init ==
    /\ hard_state = DefaultHardState
    /\ log_file = EmptyLog
    /\ last_purged_log_id = None
    /\ log = EmptyLog
    /\ committed = None
    /\ vote = None
    /\ status = "down"
    /\ todo = "nothing"
    /\ acked = [last_purged_log_id |-> None, log |-> EmptyLog,
                committed |-> None, vote |-> None]

-----------------------------------------------------------------------------
\* FileLogStore::open with load_hard_state and load_log.
open ==
    /\ status = "down"
    /\ last_purged_log_id' = hard_state.last_purged_log_id
    /\ committed' = hard_state.committed
    /\ vote' = hard_state.vote
    /\ log' = log_file
    /\ status' = "open"
    /\ acked' = [last_purged_log_id |-> hard_state.last_purged_log_id,
                 log |-> log_file, committed |-> hard_state.committed,
                 vote |-> hard_state.vote]
    /\ UNCHANGED <<files, todo>>

\* The store is open and its mutex is free.
Ready == status = "open" /\ todo = "nothing"

append_AckFirst(entries) ==
    /\ Ready
    /\ CanAppend(log, last_purged_log_id, entries)
    /\ log' = InsertAll(log, entries)
    /\ todo' = "hard"
    /\ UNCHANGED <<files, last_purged_log_id, committed, vote, status, acked>>

append(entries) ==
    /\ Ready
    /\ CanAppend(log, last_purged_log_id, entries)
    /\ log' = InsertAll(log, entries)
    /\ todo' = "all"
    /\ UNCHANGED <<files, last_purged_log_id, committed, vote, status, acked>>

truncate_after_MemoryOnly(start) ==
    /\ Ready
    /\ CanTruncate(log, last_purged_log_id, committed, start)
    /\ log' = KeepBelow(log, start)
    /\ todo' = "hard"
    /\ acked' = [acked EXCEPT !.log = KeepBelow(acked.log, start)]
    /\ UNCHANGED <<files, last_purged_log_id, committed, vote, status>>

\* start is the index after the last log id kept, 0 for None.
truncate_after(start) ==
    /\ Ready
    /\ CanTruncate(log, last_purged_log_id, committed, start)
    /\ log' = KeepBelow(log, start)
    /\ todo' = "log"
    /\ acked' = [acked EXCEPT !.log = KeepBelow(acked.log, start)]
    /\ UNCHANGED <<files, last_purged_log_id, committed, vote, status>>

purge_NextIndex(id) ==
    /\ Ready
    /\ CanPurge(log, last_purged_log_id, id)
    /\ last_purged_log_id' = [id EXCEPT !.index = @ + 1]
    /\ log' = KeepFrom(log, id.index + 1)
    /\ todo' = "all"
    /\ UNCHANGED <<files, committed, vote, status, acked>>

purge(id) ==
    /\ Ready
    /\ CanPurge(log, last_purged_log_id, id)
    /\ last_purged_log_id' = id
    /\ log' = KeepFrom(log, id.index + 1)
    /\ todo' = "all"
    /\ UNCHANGED <<files, committed, vote, status, acked>>

save_committed(id) ==
    /\ Ready
    /\ CanCommit(log, last_purged_log_id, committed, id)
    /\ committed' = id
    /\ todo' = "hard"
    /\ UNCHANGED <<files, last_purged_log_id, log, vote, status, acked>>

save_vote(v) ==
    /\ Ready
    /\ VoteLeq(vote, v)
    /\ vote' = v
    /\ todo' = "hard"
    /\ UNCHANGED <<files, last_purged_log_id, log, committed, status, acked>>

(***************************************************************************)
(* The rewrites.  The last one of a call lets it return Ok (for append,    *)
(* io_completed(Ok) is called): the caller now relies on the mirror.       *)
(***************************************************************************)
HardStateOfMirror == [last_purged_log_id |-> last_purged_log_id,
                      committed |-> committed, vote |-> vote]

persist_hard_state_NoPurge ==
    /\ todo \in {"hard", "all"}
    /\ hard_state' = [HardStateOfMirror EXCEPT
                        !.last_purged_log_id = hard_state.last_purged_log_id]
    /\ todo' = IF todo = "all" THEN "log" ELSE "nothing"
    /\ acked' = IF todo = "all" THEN acked ELSE Mirror
    /\ UNCHANGED <<log_file, inner, status>>

persist_hard_state ==
    /\ todo \in {"hard", "all"}
    /\ hard_state' = HardStateOfMirror
    /\ todo' = IF todo = "all" THEN "log" ELSE "nothing"
    /\ acked' = IF todo = "all" THEN acked ELSE Mirror
    /\ UNCHANGED <<log_file, inner, status>>

\* persist_all with the two rewrites swapped.
persist_log_BeforeHardState ==
    /\ todo \in {"log", "all"}
    /\ log_file' = log
    /\ todo' = IF todo = "all" THEN "hard" ELSE "nothing"
    /\ acked' = IF todo = "all" THEN acked ELSE Mirror
    /\ UNCHANGED <<hard_state, inner, status>>

persist_log ==
    /\ todo = "log"
    /\ log_file' = log
    /\ todo' = "nothing"
    /\ acked' = Mirror
    /\ UNCHANGED <<hard_state, inner, status>>

(***************************************************************************)
(* atomic_write_json fails before its rename: the call returns the error,  *)
(* the mirror stays ahead of the files, and the Raft core (external) stops *)
(* using a store that reported an error.                                   *)
(***************************************************************************)
PersistFails ==
    /\ todo # "nothing"
    /\ status' = "failed"
    /\ todo' = "nothing"
    /\ UNCHANGED <<files, inner, acked>>

\* The process is killed or the group is stopped; the mirror is gone.
Crash ==
    /\ status \in {"open", "failed"}
    /\ status' = "down"
    /\ todo' = "nothing"
    /\ last_purged_log_id' = None
    /\ log' = EmptyLog
    /\ committed' = None
    /\ vote' = None
    /\ UNCHANGED <<files, acked>>

Next ==
    \/ open
    \/ \E entries \in Batches : append(entries)
    \/ \E start \in Index : truncate_after(start)
    \/ \E id \in LogId : purge(id) \/ save_committed(id)
    \/ \E v \in Ranks : save_vote(v)
    \/ persist_hard_state
    \/ persist_log
    \/ PersistFails
    \/ Crash

Spec == Init /\ [][Next]_vars

-----------------------------------------------------------------------------
(***************************************************************************)
(* Properties.                                                             *)
(***************************************************************************)

\* Whenever a call has returned Ok, a kill loses nothing: the two files hold
\* exactly what FileLogInner holds (append, truncate_after, purge, save_vote
\* and save_committed all return only after their rewrites).
MirrorsFiles ==
    Ready => /\ hard_state = HardStateOfMirror
             /\ log_file = log

\* No promise is forgotten, whatever happens between two rewrites: a vote, a
\* commit mark and a purge mark that were reported stored never move back in
\* the files, and an entry reported stored by append is still in log.json with
\* its term, unless it was purged or a truncate_after call was made for it.
AckedSurvives ==
    /\ VoteLeq(acked.vote, hard_state.vote)
    /\ NextIndex(acked.committed) <= NextIndex(hard_state.committed)
    /\ NextIndex(acked.last_purged_log_id) <= NextIndex(hard_state.last_purged_log_id)
    /\ \A i \in DOMAIN acked.log :
          i >= NextIndex(hard_state.last_purged_log_id) =>
              i \in DOMAIN log_file /\ log_file[i] = acked.log[i]

\* At every moment, hence at every kill, the two files together hold a log the
\* core can restart from, as load_log reads it, with the entries that an
\* interrupted purge left below its mark: no hole between the purge mark, or an
\* older entry still there, and the last entry, terms that never decrease, and a
\* commit mark that the stored log reaches.
Recoverable ==
    Restartable(hard_state.last_purged_log_id, log_file, hard_state.committed)

\* Two promises.  The two files, as open reads them back, implement the durable
\* store: append, truncate_after, save_committed and save_vote take effect at one
\* rename or not at all, a purge first with its mark and then with its entries,
\* and neither a kill nor an I/O error nor a reopening is visible besides.  And
\* from open to the end of the process the mirror, which all reads are answered
\* from, is the memory store: each call is one step of it, however its rewrites
\* end, also on the entries that an interrupted purge left behind.
Stored == INSTANCE LogStore WITH
    last_purged_log_id <- hard_state.last_purged_log_id,
    log                <- log_file,
    committed          <- hard_state.committed,
    vote               <- hard_state.vote

Memory == INSTANCE LogStore

MirrorStep == status # "down" /\ status' # "down" => Memory!Next \/ UNCHANGED inner

ImplementsLogStore == Stored!DurableSpec /\ [][MirrorStep]_vars
=============================================================================
