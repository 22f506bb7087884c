-------------------------- MODULE SnapshotCatalog --------------------------
(***************************************************************************)
(* The snapshot directory of one group,                                    *)
(* crates/multiraft-store/src/snapshot_catalog.rs, file by file.  Nothing  *)
(* locks it: writers (snapshot tasks on blocking threads, installs), two   *)
(* of one index among them, and readers (latest followed by read)          *)
(* interleave; any file operation of a write can fail, and the process can *)
(* be killed at any step.                                                  *)
(*                                                                         *)
(* An entry is the directory of one index (its term is determined by it)   *)
(* with data.bin and meta.json; the sha256 file is written and never read. *)
(* Bytes are abstracted to the writer they come from; a file that was      *)
(* created and not yet fully written is Partial, one into which two        *)
(* overlapping writes of one index have written can be Mixed.  meta.json   *)
(* is abstracted to the hash it records, that is, to the bytes it was      *)
(* computed from; a Mixed one does not decode, as it is the end of a       *)
(* longer text after a shorter one.                                        *)
(***************************************************************************)
EXTENDS Integers, FiniteSets, FiniteSetsExt

CONSTANTS
    Writers,    \* calls of write, each with bytes of its own
    Readers,    \* callers of latest and then read
    Indices,    \* indices of snapshots
    keep,       \* number of entries prune leaves
    MaxFaults,  \* bound: number of failing file operations and kills
    PowerLoss,  \* a kill may be a power loss
    Absent,     \* no such file
    Partial,    \* created, not fully written
    Mixed       \* bytes of more than one write

ASSUME CatalogAssumption ==
       /\ Indices \subseteq Nat \ {0} /\ IsFiniteSet(Indices)
       /\ keep \in Nat \ {0}
       /\ MaxFaults \in Nat
       /\ PowerLoss \in BOOLEAN
       /\ Absent # Partial /\ Partial # Mixed /\ Mixed # Absent
       /\ {Absent, Partial, Mixed} \cap Writers = {}
       /\ Writers \cap Readers = {}

VARIABLES
    dirs,     \* index -> the entry's directory
    pc,       \* thread -> its next step
    target,   \* thread -> the index it writes or reads
    scan,     \* thread -> the progress of its call of list
    victims,  \* writer -> what its prune still has to remove: <<index, name>>
    result,   \* thread -> what its call returned
    detached, \* writers whose open file was removed
    acked,    \* auxiliary: <<index, writer>> of the writes that returned Ok
    spoiled,  \* auxiliary: indices with an entry that a write was cut short in
              \* by an error or a kill, that two writes have written at once,
              \* or that a power loss has taken
    faults

history == <<acked, spoiled, faults>>
vars == <<dirs, pc, target, scan, victims, result, detached, history>>

Threads == Writers \cup Readers
File    == Writers \cup {Absent, Partial, Mixed}

Names  == {"data", "meta"}
NoDir  == [exists |-> FALSE, data |-> Absent, meta |-> Absent]
NoScan == [todo |-> {}, look |-> 0, found |-> {}]

WriterSteps == {"mkdir", "data_create", "data_write", "meta_create", "meta_write",
                "sha256", "prune_list", "remove", "returned"}
ReaderSteps == {"idle", "latest", "find", "load"}

TypeOK ==
    /\ dirs \in [Indices -> [exists : BOOLEAN, data : File, meta : File]]
    /\ \A w \in Writers : pc[w] \in WriterSteps \cup {"idle", "killed"}
    /\ \A r \in Readers : pc[r] \in ReaderSteps
    /\ \A t \in Threads : /\ scan[t].todo \subseteq Indices
                          /\ scan[t].look \in Indices \cup {0}
                          /\ scan[t].found \subseteq Indices \X Writers
                          /\ target[t] \in Indices \cup {0}
    /\ \A w \in Writers : victims[w] \subseteq Indices \X (Names \cup {"dir"})
    /\ detached \subseteq Writers
    /\ acked \subseteq Indices \X Writers
    /\ spoiled \subseteq Indices
    /\ faults \in 0 .. MaxFaults

Init ==
    /\ dirs = [i \in Indices |-> NoDir]
    /\ pc = [t \in Threads |-> "idle"]
    /\ target = [t \in Threads |-> 0]
    /\ scan = [t \in Threads |-> NoScan]
    /\ victims = [w \in Writers |-> {}]
    /\ result = [t \in Threads |-> Absent]
    /\ detached = {}
    /\ acked = {}
    /\ spoiled = {}
    /\ faults = 0

-----------------------------------------------------------------------------
(***************************************************************************)
(* list: one directory after another, in any order, whether meta.json      *)
(* exists and what it says.  A directory without meta.json is skipped; one *)
(* whose meta.json cannot be read or decoded makes the whole call fail.    *)
(* One that appears during the call is seen or not, depending on the order.*)
(***************************************************************************)
StartScan(t) ==
    scan' = [scan EXCEPT ![t] = [todo |-> Indices, look |-> 0, found |-> {}]]

Scanning(t) == pc[t] \in {"prune_list", "latest", "find"}

Returned(t, res) ==
    /\ result' = [result EXCEPT ![t] = res]
    /\ pc' = [pc EXCEPT ![t] = IF t \in Writers THEN "returned" ELSE "idle"]

list_exists(t) ==
    /\ Scanning(t) /\ scan[t].look = 0
    /\ \E i \in scan[t].todo :
          scan' = [scan EXCEPT ![t] = [todo  |-> @.todo \ {i},
                                       look  |-> IF dirs[i].meta = Absent THEN 0 ELSE i,
                                       found |-> @.found]]
    /\ UNCHANGED <<dirs, pc, target, victims, result, detached, history>>

Seen(s, i) == [todo |-> s.todo, look |-> 0, found |-> s.found \cup {<<i, dirs[i].meta>>}]

list_read_Any(t) ==
    LET i == scan[t].look IN
    /\ Scanning(t) /\ i # 0
    /\ scan' = [scan EXCEPT ![t] = Seen(@, i)]
    /\ UNCHANGED <<dirs, pc, target, victims, result, detached, history>>

list_read(t) ==
    LET i == scan[t].look IN
    /\ Scanning(t) /\ i # 0
    /\ dirs[i].meta \in Writers
    /\ scan' = [scan EXCEPT ![t] = Seen(@, i)]
    /\ UNCHANGED <<dirs, pc, target, victims, result, detached, history>>

list_error(t) ==
    LET i == scan[t].look IN
    /\ Scanning(t) /\ i # 0
    /\ dirs[i].meta \notin Writers
    /\ Returned(t, "err")
    /\ scan' = [scan EXCEPT ![t] = NoScan]
    /\ UNCHANGED <<dirs, target, victims, detached, history>>

Listed(t) == scan[t].todo = {} /\ scan[t].look = 0

Found(t) == {p[1] : p \in scan[t].found}

-----------------------------------------------------------------------------
(***************************************************************************)
(* write.                                                                  *)
(***************************************************************************)
Goto(t, step) == pc' = [pc EXCEPT ![t] = step]

create_dir(w) ==
    /\ pc[w] = "idle"
    /\ \E i \in Indices :
          /\ target' = [target EXCEPT ![w] = i]
          /\ dirs' = [dirs EXCEPT ![i].exists = TRUE]
    /\ Goto(w, "data_create")
    /\ UNCHANGED <<scan, victims, result, detached, history>>

\* Between the creation of data.bin and the end of meta.json the entry is not
\* one write's; another write that begins there works on the same two files.
Midway(w) == pc[w] \in {"data_write", "meta_create", "meta_write"}

Overlapped(w) == {target[v] : v \in {u \in Writers \ {w} : Midway(u) /\ target[u] = target[w]}}

\* File::create of data.bin or meta.json: the old contents are gone, also for
\* another write that has the file open.
file_create(w) ==
    LET i == target[w] IN
    /\ pc[w] \in {"data_create", "meta_create"}
    /\ dirs[i].exists
    /\ IF pc[w] = "data_create"
       THEN dirs' = [dirs EXCEPT ![i].data = Partial] /\ Goto(w, "data_write")
       ELSE dirs' = [dirs EXCEPT ![i].meta = Partial] /\ Goto(w, "meta_write")
    /\ spoiled' = spoiled \cup Overlapped(w)
    /\ UNCHANGED <<target, scan, victims, result, detached, acked, faults>>

\* Another writer's prune has removed the directory: File::create fails, also
\* that of sha256, and so does the open of fsync_dir.
file_create_error(w) ==
    /\ pc[w] \in {"data_create", "meta_create", "sha256"}
    /\ ~dirs[target[w]].exists
    /\ Returned(w, "err")
    /\ UNCHANGED <<dirs, target, scan, victims, detached, history>>

\* write_all into the file as it is: a removed file is written through its open
\* handle and stays removed; over the bytes of another write the longer ones
\* stick out, unless both have the same length.
Fill(w, old) ==
    IF w \in detached THEN {old}
    ELSE IF old = Partial THEN {w} ELSE {w, Mixed}

data_write(w) ==
    /\ pc[w] = "data_write"
    /\ \E c \in Fill(w, dirs[target[w]].data) : dirs' = [dirs EXCEPT ![target[w]].data = c]
    /\ detached' = detached \ {w}
    /\ Goto(w, "meta_create")
    /\ UNCHANGED <<target, scan, victims, result, history>>

meta_write(w) ==
    /\ pc[w] = "meta_write"
    /\ \E c \in Fill(w, dirs[target[w]].meta) : dirs' = [dirs EXCEPT ![target[w]].meta = c]
    /\ detached' = detached \ {w}
    /\ Goto(w, "sha256")
    /\ UNCHANGED <<target, scan, victims, result, history>>

\* A part of the bytes is written into a file that another write of the index
\* has written or is writing too.
write_part(w) ==
    LET i == target[w]
        f == IF pc[w] = "data_write" THEN dirs[i].data ELSE dirs[i].meta
    IN
    /\ pc[w] \in {"data_write", "meta_write"} /\ w \notin detached
    /\ \/ f \in Writers
       \/ /\ f = Partial
          /\ \E v \in Writers \ ({w} \cup detached) : pc[v] = pc[w] /\ target[v] = i
    /\ dirs' = IF pc[w] = "data_write" THEN [dirs EXCEPT ![i].data = Mixed]
                                       ELSE [dirs EXCEPT ![i].meta = Mixed]
    /\ UNCHANGED <<pc, target, scan, victims, result, detached, history>>

\* Any other file operation of the write fails.  The error of write_all leaves
\* the file as it is, the one of sync_all leaves it written.
write_error(w) ==
    LET i == target[w] IN
    /\ Midway(w) \/ pc[w] \in {"data_create", "sha256", "prune_list"}
    /\ faults < MaxFaults
    /\ faults' = faults + 1
    /\ \/ UNCHANGED dirs
       \/ /\ pc[w] = "data_write"
          /\ \E c \in Fill(w, dirs[i].data) : dirs' = [dirs EXCEPT ![i].data = c]
       \/ /\ pc[w] = "meta_write"
          /\ \E c \in Fill(w, dirs[i].meta) : dirs' = [dirs EXCEPT ![i].meta = c]
    /\ Returned(w, "err")
    /\ spoiled' = IF Midway(w) THEN spoiled \cup {i} ELSE spoiled
    /\ detached' = detached \ {w}
    /\ scan' = [scan EXCEPT ![w] = NoScan]
    /\ UNCHANGED <<target, victims, acked>>

\* write_fsync of sha256 and fsync_dir; then prune begins with list.
sha256_write(w) ==
    /\ pc[w] = "sha256"
    /\ dirs[target[w]].exists
    /\ StartScan(w)
    /\ Goto(w, "prune_list")
    /\ UNCHANGED <<dirs, target, victims, result, detached, history>>

Oldest_Newest(found) == {i \in found : Cardinality({j \in found : j < i}) >= keep}

Oldest_OneMore(found) == {i \in found : Cardinality({j \in found : j > i}) > keep}

\* The entries prune removes: all but the newest keep.
Oldest(found) == {i \in found : Cardinality({j \in found : j > i}) >= keep}

prune_select(w) ==
    /\ pc[w] = "prune_list" /\ Listed(w)
    /\ victims' = [victims EXCEPT ![w] = Oldest(Found(w)) \X (Names \cup {"dir"})]
    /\ scan' = [scan EXCEPT ![w] = NoScan]
    /\ Goto(w, "remove")
    /\ UNCHANGED <<dirs, target, result, detached, history>>

\* remove_dir_all unlinks the files in some order and then the directory, which
\* stays when a writer has put a file into it meanwhile; errors are ignored.
remove_file(w) ==
    /\ pc[w] = "remove"
    /\ \E i \in Indices, f \in Names :
          /\ <<i, f>> \in victims[w]
          /\ dirs' = IF f = "data" THEN [dirs EXCEPT ![i].data = Absent]
                                   ELSE [dirs EXCEPT ![i].meta = Absent]
          /\ victims' = [victims EXCEPT ![w] = @ \ {<<i, f>>}]
          /\ detached' = detached \cup {v \in Writers :
                 target[v] = i /\ pc[v] = IF f = "data" THEN "data_write" ELSE "meta_write"}
    /\ UNCHANGED <<pc, target, scan, result, history>>

remove_dir(w) ==
    /\ pc[w] = "remove"
    /\ \E i \in Indices :
          /\ <<i, "dir">> \in victims[w]
          /\ \A f \in Names : <<i, f>> \notin victims[w]
          /\ dirs' = [dirs EXCEPT ![i].exists = dirs[i].data # Absent \/ dirs[i].meta # Absent]
          /\ victims' = [victims EXCEPT ![w] = @ \ {<<i, "dir">>}]
    /\ UNCHANGED <<pc, target, scan, result, detached, history>>

write_ok(w) ==
    /\ pc[w] = "remove" /\ victims[w] = {}
    /\ Returned(w, "ok")
    /\ acked' = acked \cup {<<target[w], w>>}
    /\ UNCHANGED <<dirs, target, scan, victims, detached, spoiled, faults>>

-----------------------------------------------------------------------------
(***************************************************************************)
(* latest, then read of what it found, as the demo's snapshot_latest and   *)
(* try_install_from_standby_catalog do it: find lists again, data.bin is   *)
(* read and its hash compared with the one in the meta.json just listed.   *)
(***************************************************************************)
start_latest(r) ==
    /\ pc[r] = "idle"
    /\ StartScan(r)
    /\ Goto(r, "latest")
    /\ result' = [result EXCEPT ![r] = Absent]
    /\ target' = [target EXCEPT ![r] = 0]
    /\ UNCHANGED <<dirs, victims, detached, history>>

latest(r) ==
    /\ pc[r] = "latest" /\ Listed(r)
    /\ IF Found(r) = {}
       THEN /\ Returned(r, "none")
            /\ scan' = [scan EXCEPT ![r] = NoScan]
            /\ UNCHANGED target
       ELSE /\ target' = [target EXCEPT ![r] = Max(Found(r))]
            /\ StartScan(r)
            /\ Goto(r, "find")
            /\ UNCHANGED result
    /\ UNCHANGED <<dirs, victims, detached, history>>

find(r) ==
    /\ pc[r] = "find" /\ Listed(r)
    /\ IF target[r] \in Found(r)
       THEN Goto(r, "load") /\ UNCHANGED <<scan, result>>
       ELSE Returned(r, "none") /\ scan' = [scan EXCEPT ![r] = NoScan]
    /\ UNCHANGED <<dirs, target, victims, detached, history>>

load_NoHash(r) ==
    LET data == dirs[target[r]].data IN
    /\ pc[r] = "load"
    /\ Returned(r, IF data = Absent THEN "err" ELSE data)
    /\ scan' = [scan EXCEPT ![r] = NoScan]
    /\ UNCHANGED <<dirs, target, victims, detached, history>>

load(r) ==
    LET data == dirs[target[r]].data IN
    /\ pc[r] = "load"
    /\ Returned(r, IF <<target[r], data>> \in scan[r].found THEN data ELSE "err")
    /\ scan' = [scan EXCEPT ![r] = NoScan]
    /\ UNCHANGED <<dirs, target, victims, detached, history>>

-----------------------------------------------------------------------------
(***************************************************************************)
(* The process is killed: calls in progress end, files stay as they are.   *)
(* A power loss may also lose an entry's directory: fsync_dir syncs the    *)
(* entry's own directory, and nothing syncs its parent.                    *)
(***************************************************************************)
Crash(lost) ==
    /\ faults < MaxFaults
    /\ faults' = faults + 1
    /\ dirs' = [i \in Indices |-> IF i \in lost THEN NoDir ELSE dirs[i]]
    /\ pc' = [t \in Threads |-> IF t \in Writers /\ pc[t] \notin {"idle", "returned"}
                                THEN "killed"
                                ELSE IF t \in Readers THEN "idle" ELSE pc[t]]
    /\ scan' = [t \in Threads |-> NoScan]
    /\ victims' = [w \in Writers |-> {}]
    /\ result' = [t \in Threads |-> IF t \in Readers THEN Absent ELSE result[t]]
    /\ detached' = {}
    /\ spoiled' = spoiled \cup lost \cup {target[w] : w \in {v \in Writers : Midway(v)}}
    /\ UNCHANGED <<target, acked>>

Next ==
    \/ \E t \in Threads : list_exists(t) \/ list_read(t) \/ list_error(t)
    \/ \E w \in Writers :
          \/ create_dir(w) \/ file_create(w) \/ file_create_error(w)
          \/ data_write(w) \/ meta_write(w) \/ write_part(w) \/ write_error(w)
          \/ sha256_write(w)
          \/ prune_select(w) \/ remove_file(w) \/ remove_dir(w) \/ write_ok(w)
    \/ \E r \in Readers : start_latest(r) \/ latest(r) \/ find(r) \/ load(r)
    \/ \E lost \in IF PowerLoss THEN SUBSET Indices ELSE {{}} : Crash(lost)

Spec == Init /\ [][Next]_vars

-----------------------------------------------------------------------------
(***************************************************************************)
(* Properties.                                                             *)
(***************************************************************************)
Quiet == \A w \in Writers : pc[w] \in {"idle", "returned", "killed"}

Complete(i) == dirs[i].data \in Writers /\ dirs[i].meta = dirs[i].data

\* A read that succeeds returns the whole bytes of one write to that index,
\* never a mixture with a write or a prune that is in progress (the hash check
\* of read).
ReadsAreWhole ==
    \A r \in Readers :
        pc[r] = "idle" /\ result[r] \notin {Absent, "none", "err"} =>
            result[r] \in Writers /\ target[result[r]] = target[r]

\* Once writers are quiet, a snapshot whose write returned Ok, or a newer one,
\* is complete on disk, and list can decode every meta.json, through concurrent
\* prunes, errors and kills: only the very entry in which a write was cut short,
\* which two writes wrote at once, or which a power loss took, can stand in the
\* way (write, prune, list of SnapshotCatalog).
AckedIsServed ==
    Quiet =>
        /\ \A a \in acked : \E i \in Indices : i >= a[1] /\ (Complete(i) \/ i \in spoiled)
        /\ \A i \in Indices \ spoiled : dirs[i].meta \in Writers \cup {Absent}

AllOk == \A w \in Writers : pc[w] = "returned" => result[w] = "ok"

\* The durable store of the documentation: as long as no write reports an error,
\* list can decode the meta.json of every other entry than an acknowledged one,
\* so that latest and read reach the acknowledged snapshot, also after a kill.
CrashKeepsServed ==
    Quiet /\ AllOk =>
        \A a \in acked, i \in Indices : i # a[1] => dirs[i].meta \in Writers \cup {Absent}

\* Once writers are quiet and every write returned Ok, prune has kept the
\* number of entries within bounds although writers prune concurrently.
Pruned ==
    faults = 0 /\ Quiet /\ AllOk =>
        Cardinality({i \in Indices : dirs[i].meta # Absent}) <= keep
=============================================================================
