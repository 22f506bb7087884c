------------------------- MODULE StateMachineStore -------------------------
(***************************************************************************)
(* The state machine side of one group on one node,                        *)
(* crates/multiraft-store/src/sm_bridge.rs, with the callback that         *)
(* spawn_local_group (crates/multiraft-net/src/multiraft.rs) gives it.     *)
(*                                                                         *)
(* The Raft core (openraft, external) owns the committed log, hands it     *)
(* over in batches, installs snapshots from peers, purges the log up to a  *)
(* snapshot it knows of, and after a restart replays what the log still    *)
(* has.  Beside it run the asynchronous snapshot tasks that trigger        *)
(* entries start on a Standby, and install_durable_snapshot calls made by  *)
(* the application.  One action is what happens under one holding of the   *)
(* mutex, or a part of a catalog write: one that leaves data.bin begun,    *)
(* one that leaves meta.json begun, one that ends them and prunes.  An     *)
(* error or a kill between them leaves the files so, and writers meet each *)
(* other's.  SnapshotCatalog goes through the same files one by one.  The  *)
(* node's configuration, a snapshot mode and a role, is chosen at the      *)
(* beginning.                                                              *)
(***************************************************************************)
EXTENDS CounterFsm, FiniteSets, FiniteSetsExt

CONSTANTS
    Payloads,       \* the entries that may be committed
    Configs,        \* the ClusterConfigs to consider
    Keep,           \* snapshot_keep of the catalog
    BuildEvery,     \* SnapshotPolicy::LogsSinceLast, 5000 in the code
    PeerInstalls,   \* the core may receive snapshots from a peer
    UserInstalls,   \* install_durable_snapshot calls: "none", "recovery" (only with
                    \* snapshots at or ahead of what is applied) or "any"
    WriteFails,     \* a file operation of a catalog write may fail
    MaxLog,         \* bound: length of the committed log
    MaxInstalls,    \* bound: number of install_durable_snapshot calls
    MaxCrash        \* bound: number of restarts

ASSUME StoreAssumption ==
       /\ Configs \subseteq [snapshot_mode : {"Disabled", "StandbyOffload"},
                             role : {"Voter", "Standby"}]
       /\ {PeerInstalls, WriteFails} \subseteq BOOLEAN
       /\ UserInstalls \in {"none", "recovery", "any"}
       /\ \A p \in Payloads : p.kind = "cmd" => p.delta \in Int
       /\ Keep \in Nat \ {0} /\ BuildEvery \in Nat \ {0}
       /\ {MaxLog, MaxInstalls, MaxCrash} \subseteq Nat

VARIABLES
    config,             \* the node's configuration, never changed
    log,                \* the committed log of the group (external)
    core_applied,       \* last index the core has had applied (external)
    core_snapshot,      \* index of the last snapshot the core knows (external)
    purged,             \* purge mark of the log store: entries <= it are gone
    status,             \* "up", "failed" once an error reached the core, "absent" where
                        \* create_group failed
    last_applied_log,   \* StateMachineStoreInner
    last_membership,
    fsm,
    current_snapshot,
    catalog,            \* durable: index -> the files of its directory
    tasks,              \* snapshot tasks: index of the trigger -> task
    writing,            \* catalog writes not yet returned: of tasks and of installs
    ads,                \* indices of the snapshots advertised
    installs,           \* install_durable_snapshot calls so far
    faulted,            \* history: a write met an error, a kill or another of its index
    crashes

core  == <<log, core_applied, core_snapshot, purged, status>>
inner == <<last_applied_log, last_membership, fsm, current_snapshot>>
disk  == <<catalog, faulted>>
vars  == <<config, core, inner, disk, tasks, writing, ads, installs, crashes>>

Offload == config.snapshot_mode = "StandbyOffload"

\* Trigger entries start snapshot tasks.
Standby == config.role = "Standby" /\ Offload

NoSnapshot == [last |-> 0, membership |-> 0, data |-> <<>>]
Snapshot(last, membership, data) ==
    [last |-> last, membership |-> membership, data |-> data]

Empty == [i \in {} |-> <<>>]
Put(f, i, v) == [j \in DOMAIN f \cup {i} |-> IF j = i THEN v ELSE f[j]]

Stages == {"spawned", "writing", "written", "labelled", "published"}

IsState(s) == s.value \in Int /\ s.seen \subseteq {p.idem : p \in {q \in Payloads : q.kind = "cmd"}}
IsData(d) == IsState(FsmRestore(d))

(***************************************************************************)
(* The files of one index: "unlisted" has no meta.json yet; "torn" has one *)
(* that is not of the bytes in data.bin; "undecodable" has one that is     *)
(* empty or cut; "whole" has both.  Two writes of one index that were once *)
(* open together share them until a next write begins alone.               *)
(***************************************************************************)
Files(state, data, shared) == [state |-> state, data |-> data, shared |-> shared]
FileStates == {"unlisted", "torn", "undecodable", "whole"}
IsFiles(e) ==
    /\ e.state \in FileStates /\ e.shared \in BOOLEAN
    /\ IF e.state = "whole" THEN IsData(e.data) ELSE e.data = <<>>

WriteStages == {"called", "data", "meta"}

TypeOK ==
    /\ config \in Configs
    /\ log \in Seq(Payloads) /\ Len(log) <= MaxLog
    /\ {core_applied, core_snapshot, purged, last_applied_log, last_membership,
        current_snapshot.last, current_snapshot.membership} \subseteq 0 .. Len(log)
    /\ status \in {"up", "failed", "absent"}
    /\ IsState(fsm)
    /\ current_snapshot # NoSnapshot => IsData(current_snapshot.data)
    /\ DOMAIN catalog \subseteq 1 .. Len(log) /\ \A i \in DOMAIN catalog : IsFiles(catalog[i])
    /\ DOMAIN tasks \subseteq 1 .. Len(log) /\ \A i \in DOMAIN tasks : tasks[i].stage \in Stages
    /\ \A w \in writing :
          /\ w.by \in {"core", "user", "task"} /\ w.last \in 1 .. Len(log)
          /\ w.stage \in WriteStages /\ IsData(w.data)
    /\ ads \subseteq 1 .. Len(log)
    /\ faulted \in BOOLEAN
    /\ installs \in 0 .. MaxInstalls
    /\ crashes \in 0 .. MaxCrash

Init ==
    /\ config \in Configs
    /\ log = <<>> /\ core_applied = 0 /\ core_snapshot = 0 /\ purged = 0 /\ status = "up"
    /\ last_applied_log = 0 /\ last_membership = 0
    /\ fsm = Fresh /\ current_snapshot = NoSnapshot
    /\ catalog = Empty /\ tasks = Empty /\ writing = {} /\ ads = {}
    /\ installs = 0 /\ faulted = FALSE /\ crashes = 0

-----------------------------------------------------------------------------
(***************************************************************************)
(* The catalog.  list reads every meta.json of the group and fails at one  *)
(* that does not decode; prune removes what it lists beyond the newest     *)
(* Keep; latest is the newest listed, and reading it checks its hash.      *)
(***************************************************************************)
Listed(c) == {i \in DOMAIN c : c[i].state # "unlisted"}
Listable(c) == \A i \in DOMAIN c : c[i].state # "undecodable"

Prune(c) ==
    LET kept == {i \in DOMAIN c :
                    i \in Listed(c) => Cardinality({j \in Listed(c) : j > i}) < Keep}
    IN  [i \in kept |-> c[i]]

Readable(c) == Listable(c) /\ (Listed(c) # {} => c[Max(Listed(c))].state = "whole")

\* snapshot_from_catalog: the label carries the default membership.  Where the
\* catalog is not readable it is an error, and there is no snapshot either.
Latest(c) == IF Readable(c) /\ Listed(c) # {}
             THEN LET i == Max(Listed(c)) IN Snapshot(i, 0, c[i].data)
             ELSE NoSnapshot

(***************************************************************************)
(* SnapshotCatalog::write, called by a task or an install (w.by).  Calls   *)
(* of the same index may overlap.                                          *)
(***************************************************************************)
CatalogWrite(by, i, data) == [by |-> by, last |-> i, data |-> data, stage |-> "called"]

Midway(w) == w.stage # "called"
Beside(w) == {v \in writing \ {w} : v.last = w.last /\ Midway(v)}
At(w, stage) == w \in writing /\ w.stage = stage
OnTo(w, stage) == writing' = (writing \ {w}) \cup {[w EXCEPT !.stage = stage]}

Without(i) == [j \in DOMAIN tasks \ {i} |-> tasks[j]]

\* The call returns Ok, or an error: a task logs it and ends, nothing tries
\* again; where it ends an install the core asked for, the core stops.
Returned(w) ==
    /\ writing' = writing \ {w}
    /\ tasks' = IF w.by = "task" THEN [tasks EXCEPT ![w.last].stage = "written"] ELSE tasks
    /\ UNCHANGED status

Failed(w) ==
    /\ writing' = writing \ {w}
    /\ tasks' = IF w.by = "task" THEN Without(w.last) ELSE tasks
    /\ status' = IF w.by = "core" THEN "failed" ELSE status

\* create_dir_all, and data.bin truncated.
create_data(w) ==
    /\ At(w, "called")
    /\ LET before == IF w.last \in DOMAIN catalog THEN catalog[w.last].state ELSE "unlisted"
           after  == IF before = "whole" THEN "torn" ELSE before
       IN  catalog' = Put(catalog, w.last, Files(after, <<>>, Beside(w) # {}))
    /\ OnTo(w, "data")
    /\ UNCHANGED <<core, inner, tasks, ads, installs, faulted, crashes, config>>

\* data.bin is complete, and meta.json truncated.
create_meta(w) ==
    /\ At(w, "data") /\ w.last \in DOMAIN catalog
    /\ catalog' = [catalog EXCEPT ![w.last] = Files("undecodable", <<>>, @.shared)]
    /\ OnTo(w, "meta")
    /\ UNCHANGED <<core, inner, tasks, ads, installs, faulted, crashes, config>>

\* What may be in the files once w has written meta.json.
Written(w) ==
    LET files == catalog[w.last]
        alone == {Files("whole", w.data, FALSE)}
    IN  IF files.shared
        THEN {files, Files("whole", w.data, TRUE), Files("torn", <<>>, TRUE),
              Files("undecodable", <<>>, TRUE)}
        ELSE alone

\* meta.json and sha256 are complete, and the group is pruned: an error where
\* some meta.json, this one or that of another write, does not decode.
complete(w) ==
    /\ At(w, "meta") /\ w.last \in DOMAIN catalog
    /\ \E files \in Written(w) :
          LET after == [catalog EXCEPT ![w.last] = files]
          IN  IF Listable(after)
              THEN catalog' = Prune(after) /\ Returned(w)
              ELSE catalog' = after /\ Failed(w)
    /\ faulted' = (faulted \/ catalog[w.last].shared)
    /\ UNCHANGED <<log, core_applied, core_snapshot, purged, inner, ads, installs,
                   crashes, config>>

\* A prune has removed the directory under the write.
lose_directory(w) ==
    /\ w \in writing /\ Midway(w) /\ w.last \notin DOMAIN catalog
    /\ Failed(w)
    /\ UNCHANGED <<log, core_applied, core_snapshot, purged, inner, disk, ads, installs,
                   crashes, config>>

\* write_all, sync_all or another file operation fails: the files stay as they
\* are, or with a complete meta.json where one of the operations after it does.
write_error(w) ==
    /\ WriteFails
    /\ w \in writing
    /\ \/ UNCHANGED catalog
       \/ /\ w.stage = "meta" /\ w.last \in DOMAIN catalog
          /\ \E files \in Written(w) : catalog' = [catalog EXCEPT ![w.last] = files]
    /\ Failed(w)
    /\ faulted' = TRUE
    /\ UNCHANGED <<log, core_applied, core_snapshot, purged, inner, ads, installs,
                   crashes, config>>

WriteStep(w) == create_data(w) \/ create_meta(w) \/ complete(w) \/ lose_directory(w)

-----------------------------------------------------------------------------
(***************************************************************************)
(* External: the group commits an entry.                                   *)
(***************************************************************************)
Commit(p) ==
    /\ Len(log) < MaxLog
    /\ log' = Append(log, p)
    /\ UNCHANGED <<core_applied, core_snapshot, purged, status, inner, disk, tasks,
                   writing, ads, installs, crashes, config>>

\* The core waits for an install_snapshot call to return before the next call.
CoreIdle == status = "up" /\ \A w \in writing : w.by # "core"

Triggers_FirstOnly(a, b) ==
    LET all == {i \in a .. b : log[i].kind = "trigger"}
    IN  {i \in all : \A j \in all : i <= j}

Triggers(a, b) == {i \in a .. b : log[i].kind = "trigger"}

Spawn(batch) ==
    [i \in batch \cup DOMAIN tasks |->
        IF i \in batch THEN [stage |-> "spawned", data |-> <<>>, membership |-> 0] ELSE tasks[i]]

(***************************************************************************)
(* RaftStateMachine::apply of the entries core_applied + 1 .. m.  The lock *)
(* is held for the whole batch; the callbacks of its trigger entries only  *)
(* spawn tasks, after the lock was released.                               *)
(***************************************************************************)
apply(m) ==
    /\ CoreIdle
    /\ m \in core_applied + 1 .. Len(log)
    /\ \A i \in core_applied + 1 .. m : log[i].kind # "bad"
    /\ last_applied_log' = m
    /\ fsm' = ApplyRange(fsm, log, core_applied + 1, m)
    /\ LET mems == {i \in core_applied + 1 .. m : log[i].kind = "mem"}
       IN  last_membership' = IF mems = {} THEN last_membership ELSE Max(mems)
    /\ tasks' = IF Standby THEN Spawn(Triggers(core_applied + 1, m)) ELSE tasks
    /\ core_applied' = m
    /\ UNCHANGED <<log, core_snapshot, purged, status, current_snapshot, disk, writing,
                   ads, installs, crashes, config>>

(***************************************************************************)
(* The same when entry m does not decode: the entries before it have been  *)
(* applied, last_applied_log already names m, the triggers of the batch    *)
(* are dropped, and the error stops the core.                              *)
(***************************************************************************)
apply_error(m) ==
    /\ CoreIdle
    /\ m \in core_applied + 1 .. Len(log)
    /\ log[m].kind = "bad"
    /\ \A i \in core_applied + 1 .. m - 1 : log[i].kind # "bad"
    /\ last_applied_log' = m
    /\ fsm' = ApplyRange(fsm, log, core_applied + 1, m - 1)
    /\ LET mems == {i \in core_applied + 1 .. m - 1 : log[i].kind = "mem"}
       IN  last_membership' = IF mems = {} THEN last_membership ELSE Max(mems)
    /\ status' = "failed"
    /\ UNCHANGED <<log, core_applied, core_snapshot, purged, current_snapshot, disk, tasks,
                   writing, ads, installs, crashes, config>>

-----------------------------------------------------------------------------
(***************************************************************************)
(* build_standby_snapshot_async, the task of the trigger at index i: four  *)
(* steps and the catalog write it waits for, with anything in between.     *)
(***************************************************************************)
AtStage(i, stage) == i \in DOMAIN tasks /\ tasks[i].stage = stage

freeze(i) ==
    /\ AtStage(i, "spawned")
    /\ LET data == FsmSnapshot(fsm)
       IN  /\ tasks' = [tasks EXCEPT ![i] = [stage |-> "writing", data |-> data, membership |-> 0]]
           /\ writing' = writing \cup {CatalogWrite("task", i, data)}
    /\ UNCHANGED <<core, inner, disk, ads, installs, crashes, config>>

read_membership(i) ==
    /\ AtStage(i, "written")
    /\ tasks' = [tasks EXCEPT ![i] =
                    [stage |-> "labelled", data |-> @.data, membership |-> last_membership]]
    /\ UNCHANGED <<core, inner, disk, writing, ads, installs, crashes, config>>

publish_NextIndex(i) ==
    /\ AtStage(i, "labelled")
    /\ current_snapshot' = Snapshot(i + 1, tasks[i].membership, tasks[i].data)
    /\ tasks' = [tasks EXCEPT ![i].stage = "published"]
    /\ UNCHANGED <<core, last_applied_log, last_membership, fsm, disk, writing, ads,
                   installs, crashes, config>>

publish(i) ==
    /\ AtStage(i, "labelled")
    /\ current_snapshot' = Snapshot(i, tasks[i].membership, tasks[i].data)
    /\ tasks' = [tasks EXCEPT ![i].stage = "published"]
    /\ UNCHANGED <<core, last_applied_log, last_membership, fsm, disk, writing, ads,
                   installs, crashes, config>>

\* SnapshotRuntime::record_ad, the last thing the callback's task does.
record_ad_BeforeWrite(i) ==
    /\ AtStage(i, "writing")
    /\ ads' = ads \cup {i}
    /\ tasks' = Without(i)
    /\ UNCHANGED <<core, inner, disk, writing, installs, crashes, config>>

record_ad(i) ==
    /\ AtStage(i, "published")
    /\ ads' = ads \cup {i}
    /\ tasks' = Without(i)
    /\ UNCHANGED <<core, inner, disk, writing, installs, crashes, config>>

-----------------------------------------------------------------------------
(***************************************************************************)
(* Snapshots.  A peer's snapshot labelled i holds the state after some     *)
(* entry j; where it was frozen after the trigger was applied, as in       *)
(* StandbyOffload, j may be later than i.                                  *)
(***************************************************************************)
PeerSnapshots ==
    UNION {{Snapshot(i, IF Offload THEN 0 ELSE MembershipAt(log, i), FsmSnapshot(StateAt(log, j))) :
                j \in i .. IF Offload THEN Len(log) ELSE i} : i \in 1 .. Len(log)}

Restore_NoFsm(s) ==
    /\ UNCHANGED fsm
    /\ last_applied_log' = s.last
    /\ last_membership' = s.membership
    /\ current_snapshot' = s

Restore(s) ==
    /\ fsm' = FsmRestore(s.data)
    /\ last_applied_log' = s.last
    /\ last_membership' = s.membership
    /\ current_snapshot' = s

\* Only StandbyOffload has a catalog.
WriteOf(by, s) == IF Offload THEN {CatalogWrite(by, s.last, s.data)} ELSE {}

install_snapshot_NoCatalog(s) ==
    /\ CoreIdle /\ PeerInstalls
    /\ s.last > core_applied
    /\ Restore(s)
    /\ core_applied' = s.last
    /\ core_snapshot' = s.last
    /\ UNCHANGED <<log, purged, status, disk, tasks, writing, ads, installs, crashes, config>>

\* RaftStateMachine::install_snapshot, called by the core with a snapshot that
\* is ahead of what it has applied; the catalog is written after the unlock.
install_snapshot(s) ==
    /\ CoreIdle /\ PeerInstalls
    /\ s.last > core_applied
    /\ Restore(s)
    /\ writing' = writing \cup WriteOf("core", s)
    /\ core_applied' = s.last
    /\ core_snapshot' = s.last
    /\ UNCHANGED <<log, purged, status, disk, tasks, ads, installs, crashes, config>>

\* MultiRaft::install_durable_snapshot, called by the application.  The core is
\* not told.
install_durable_snapshot(s) ==
    /\ status # "absent" /\ installs < MaxInstalls
    /\ \/ UserInstalls = "any"
       \/ UserInstalls = "recovery" /\ s.last >= core_applied
    /\ \A w \in writing : w.by # "user"
    /\ Restore([s EXCEPT !.membership = 0])
    /\ writing' = writing \cup WriteOf("user", s)
    /\ installs' = installs + 1
    /\ UNCHANGED <<core, disk, tasks, ads, crashes, config>>

(***************************************************************************)
(* RaftSnapshotBuilder::build_snapshot.  In Disabled mode the policy calls *)
(* it every BuildEvery entries and it dumps the state machine under the    *)
(* lock.  In StandbyOffload the policy is Never and the call would only    *)
(* return the snapshot it has.                                             *)
(***************************************************************************)
build_snapshot_CoreLabel ==
    /\ ~Offload /\ CoreIdle
    /\ core_applied >= core_snapshot + BuildEvery
    /\ current_snapshot' = Snapshot(core_snapshot + BuildEvery, last_membership, FsmSnapshot(fsm))
    /\ core_snapshot' = core_applied
    /\ UNCHANGED <<log, core_applied, purged, status, last_applied_log, last_membership, fsm,
                   disk, tasks, writing, ads, installs, crashes, config>>

build_snapshot ==
    /\ ~Offload /\ CoreIdle
    /\ core_applied >= core_snapshot + BuildEvery
    /\ current_snapshot' = Snapshot(last_applied_log, last_membership, FsmSnapshot(fsm))
    /\ core_snapshot' = last_applied_log
    /\ UNCHANGED <<log, core_applied, purged, status, last_applied_log, last_membership, fsm,
                   disk, tasks, writing, ads, installs, crashes, config>>

\* The core purges the log up to the snapshot it knows: no entry is kept
\* below it (max_in_snapshot_log_to_keep is 0).  It has applied, or replayed
\* after a restart, what it purges.
PurgeLog ==
    /\ CoreIdle
    /\ purged < core_snapshot /\ core_snapshot <= core_applied
    /\ purged' = core_snapshot
    /\ UNCHANGED <<log, core_applied, core_snapshot, status, inner, disk, tasks, writing,
                   ads, installs, crashes, config>>

(***************************************************************************)
(* The process ends and starts again on the same data directory.  The      *)
(* state machine starts from nothing and nothing in memory survives; the   *)
(* files do, as the writes under way have left them.  The core (external)  *)
(* asks for the snapshot there is, and the group is not created where the  *)
(* catalog cannot be read.  It then replays the log; where entries are     *)
(* purged it takes the snapshot, and where there is none it goes on from   *)
(* the first entry it still has.                                           *)
(***************************************************************************)
Restart ==
    /\ crashes < MaxCrash
    /\ crashes' = crashes + 1
    /\ LET s == Latest(catalog)
           use == purged > 0 /\ s # NoSnapshot
       IN  /\ fsm' = IF use THEN FsmRestore(s.data) ELSE Fresh
           /\ last_applied_log' = IF use THEN s.last ELSE 0
           /\ current_snapshot' = IF use THEN s ELSE NoSnapshot
           /\ core_applied' = IF use THEN s.last ELSE IF Readable(catalog) THEN purged ELSE 0
           /\ core_snapshot' = s.last
    /\ last_membership' = 0
    /\ status' = IF Readable(catalog) THEN "up" ELSE "absent"
    /\ tasks' = Empty
    /\ writing' = {}
    /\ faulted' = (faulted \/ \E w \in writing : Midway(w))
    /\ UNCHANGED <<log, purged, catalog, ads, installs, config>>

Task(i) == freeze(i) \/ read_membership(i) \/ publish(i) \/ record_ad(i)

Next ==
    \/ \E p \in Payloads : Commit(p)
    \/ \E m \in 1 .. MaxLog : apply(m) \/ apply_error(m)
    \/ \E i \in 1 .. MaxLog : Task(i)
    \/ \E s \in PeerSnapshots : install_snapshot(s) \/ install_durable_snapshot(s)
    \/ \E w \in writing : WriteStep(w) \/ write_error(w)
    \/ build_snapshot
    \/ PurgeLog
    \/ Restart

Spec == Init /\ [][Next]_vars

(***************************************************************************)
(* Fairness: the core keeps applying what is committed, a spawned task     *)
(* keeps being polled by the runtime until it ends, and the file           *)
(* operations of each catalog write end.                                   *)
(***************************************************************************)
FairSpec ==
    /\ Spec
    /\ WF_vars(\E m \in 1 .. MaxLog : apply(m))
    /\ \A i \in 1 .. MaxLog : WF_vars(Task(i))
    /\ \A i \in 1 .. MaxLog :
          WF_vars(\E w \in writing : w.by = "task" /\ w.last = i /\ WriteStep(w))
    /\ WF_vars(\E w \in writing : w.by = "core" /\ WriteStep(w))

-----------------------------------------------------------------------------
(***************************************************************************)
(* Properties.                                                             *)
(***************************************************************************)

\* In Disabled mode a restart loses what was purged (RestartRebuilds): of that
\* mode, the next two properties speak up to the first restart.
Rebuilds == Offload \/ crashes = 0

CatchUp(s) == ApplyRange(FsmRestore(s.data), log, s.last + 1, Len(log))

\* Every snapshot this node can hand out, from memory or whole in the catalog,
\* leads a replica that restores it and applies the entries after its label to
\* the state of the whole log, although the freeze happens after the trigger's
\* batch was applied and unlocked (apply, build_standby_snapshot_async).
SnapshotsCatchUp ==
    Rebuilds =>
        /\ current_snapshot # NoSnapshot => CatchUp(current_snapshot) = StateAt(log, Len(log))
        /\ \A i \in DOMAIN catalog :
              catalog[i].state = "whole" =>
                 CatchUp(Snapshot(i, 0, catalog[i].data)) = StateAt(log, Len(log))

\* A node that has applied the whole log agrees with every other replica,
\* whatever was restored, replayed or snapshotted on the way.
CaughtUpAgrees ==
    Rebuilds /\ CoreIdle /\ core_applied = Len(log) => fsm = StateAt(log, Len(log))

\* A snapshot built by build_snapshot under the lock holds exactly the entries
\* its label says, and the membership in force there, through batches cut by an
\* error and installs from peers.  (install_durable_snapshot resets the
\* membership, and what it restores may be ahead of the core: a process in which
\* the application called it is left to SnapshotsCatchUp.)
HotSnapshotExact ==
    ~Offload /\ crashes = 0 /\ installs = 0 /\ current_snapshot # NoSnapshot =>
        /\ current_snapshot.data = FsmSnapshot(StateAt(log, current_snapshot.last))
        /\ current_snapshot.membership = MembershipAt(log, current_snapshot.last)

\* There is a listed snapshot at or after i; and the latest one, read, is one,
\* where the catalog can be read: which it can, unless meta.json or data.bin of
\* some index is being rewritten, or a write has met an error, a kill or another
\* write of its index.
OnDisk(i) ==
    /\ \E k \in Listed(catalog) : k >= i
    /\ (Readable(catalog) \/ (~faulted /\ \A w \in writing : ~Midway(w))) =>
          Latest(catalog).last >= i

\* Whatever the log store has purged is covered by a snapshot on disk, so that
\* a restarted process can rebuild the state machine from its files.
RestartRebuilds == purged > 0 => OnDisk(purged)

\* The same in StandbyOffload mode, through installs whose catalog write is
\* still to come, fails or is killed half-way, and prunes by late snapshot tasks.
PurgedIsCovered == Offload => RestartRebuilds

\* An advertised snapshot stays on disk until a newer one is, whatever write is
\* killed or fails, and /snapshots/<group>/latest serves it or the newer one.
AdvertisedIsServed == \A i \in ads : OnDisk(i)

\* A trigger that was applied leaves a snapshot at or after it on disk, or the
\* core comes to know one, from a peer or from the catalog: through restarts that
\* kill its task half-way, where the replay of the log starts it again, and
\* where its write is refused because the prune met the meta.json of another
\* write (the task then ends without an advertisement, and nothing tries again).
\* The group must be running for that.
TriggersCovered ==
    \A i \in 1 .. MaxLog :
        (i <= core_applied /\ log[i].kind = "trigger")
            ~> \/ \E k \in Listed(catalog) : k >= i
               \/ i <= core_snapshot
               \/ status # "up"
=============================================================================
