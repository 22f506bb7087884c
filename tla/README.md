# bf-multiraft: specifications, model checking and proofs

bf-multiraft runs many Raft groups per node on top of openraft: one node-level
connection per peer, one log and one state machine per group, optional Standby
nodes that take the snapshots. This directory holds TLA+ specifications of the
parts that are the repository's own (openraft itself is external), the TLC
configurations that check them, and TLAPS proofs.

Paths below are relative to the repository; `net/multiraft.rs` stands for
`crates/multiraft-net/src/multiraft.rs`, and so on.

## Inventory

| Component | State | Operations | Hard part |
|---|---|---|---|
| File log store, `store/log_file.rs` | mirror in memory, `hard_state.json`, `log.json` | open, append, truncate_after, purge, save_vote, save_committed | two files per call, kills and I/O errors between the rewrites |
| Memory log store, `store/log_mem.rs` | the mirror only | the same | none: the reference for the file store |
| Counter state machine, `fsm/counter_fsm.rs` | value and consumed idempotency keys | apply, snapshot, restore | replay and retries |
| State machine bridge, `store/sm_bridge.rs` | last applied id, membership, FSM, current snapshot | apply, build and install snapshots, asynchronous Standby snapshots | state frozen after the unlock, tasks out of order, purge against volatile snapshots |
| Snapshot catalog, `store/snapshot_catalog.rs` | one directory per snapshot | write (with prune), latest, read | no lock at all; kills and power loss between system calls |
| Group lifecycle, `net/multiraft.rs` | group map, ClusterGlue (ready, claimed_init) | start, create_group, shutdown | check-then-act across awaits, restarts, half-failed shutdowns |
| Router and link metrics, `net/router.rs`, `net/conn_metrics.rs` | node channels, set of peers | register, unregister, send | registration against shutdown, link counting, calls dropped by a timeout |
| Node loop and handlers, `net/node.rs`, `net/api.rs` | one bounded queue per node | run | one serial loop for all groups, parked senders, shutdown with a filled queue |
| gRPC router and server, `net/grpc/*.rs` | cached channel per peer | channel_for, send, demux_raft_call | two calls that connect at the same time, servers that go away |
| Network adapters, `net/network.rs` | none | forward the core's RPCs | none |
| Snapshot advertisements, `net/multiraft.rs`, `demo/main.rs` | list of ads and `snapshot_ads.json` on every node, posts under way | load_ads, record_ad, publish_snapshot_ad, admin_post_snapshot_ad | copy under the lock, write outside it; truncate-then-write; posts that fail or are cut off |
| Reads, `net/multiraft.rs`, `demo/main.rs` | none of their own | read_linearizable, with_fsm, group_value | two lookups with awaits between, beliefs about the leader |
| Leader callbacks, `net/multiraft.rs` | callbacks, watcher tasks | on_leader_change, spawn_leader_watch | several watchers per group, stale reports |
| Demo service, `demo/main.rs` | key counter per process | group_inc, propose_loop | retries, ambiguous proposals, restarts |
| Jepsen client, `jepsen/.../client.clj` | outcome of each operation | add with failover, read | lost answers |

The core (openraft) calls the log store and the bridge of each group, one call
at a time. The bridge starts snapshot tasks, which run beside it, write the
catalog and end in `record_ad`. `MultiRaft` owns the group map and creates one
Raft per group; nodes of one process share a Router and a ClusterGlue. The demo
proposes through `MultiRaft::propose`; the state machine drops commands whose
key it has seen. The cores of a group talk to each other through the router of
their node, which all groups share: in process a queue per node with one loop
behind it, over gRPC a channel per peer. A Standby posts its advertisements to
the voters over HTTP.

What makes each part correct is stated as the properties listed with the runs
below; what can go wrong in it, line by line, is the list of hazards in
`PROJECT.json`.

## Modules

Operators and actions keep the names of the functions they model. An action is
what the code does under one holding of a lock, between two awaits, or in one
system call where a kill or another thread can come in between.
Operators named `X_Y`, defined right before `X`, are deliberately wrong variants
of `X` (a dropped guard, a missing write, a swapped order). No specification
uses them: each is put in place of `X` to see that a property notices.

| Module | Models | How |
|---|---|---|
| `RaftLog` | log ids, entries, the BTreeMap operations, what the core asks of a store | entries are their terms, votes their rank |
| `LogStore` | `log_mem.rs` | each call one step (`Spec`); `DurableSpec`, what the files of the file store promise, is the same with a purge in two effects, its mark and its entries |
| `FileLogStore` | `log_file.rs` | a call changes the mirror and sets `todo`; each rewrite is a step; `PersistFails` and `Crash` at any of them; `acked` is what callers were told |
| `CounterFsm` | `counter_fsm.rs` | operators; `StateAt(log, n)` is the reference every replica has to agree with |
| `StateMachineStore` | `sm_bridge.rs` and the trigger callback of `spawn_local_group` | the committed log, the core's progress and purge are external actions; a snapshot task has four steps and waits for its catalog write. A write, of a task or an install, is three parts (`create_data`, `create_meta`, `complete`), so that the files of an entry can be unlisted, torn, undecodable or whole when another writer, an error or a kill comes in between; `complete` prunes, and fails where some `meta.json` does not decode. A group whose catalog cannot be read at start is `absent` |
| `SnapshotCatalog` | `snapshot_catalog.rs` | one step per system call, each of which may fail; file contents are the writer they come from, Partial, or Mixed where two writes of one index have met; `detached` are the writes whose open file a prune has removed; `spoiled` are the entries a write was cut short in, or that two wrote at once |
| `GroupLifecycle` | `create_group`, `spawn_local_group`, ClusterGlue, `shutdown`, start, registration | one step per lock or await; `rafts` records every Raft ever created |
| `SnapshotAds` | `SnapshotRuntime` on the Standby and the voters, `publish_snapshot_ad`, `admin_post_snapshot_ad` | record, clone, truncate, write (or its failure), callback and each post are steps of their own; an ad is its id |
| `GroupRouter` | `router.rs`, `node.rs`, `api.rs`, `grpc/*.rs`, `network.rs` | the backend is chosen in `Init`; a call is one step per await, a timeout may drop it at each; the queue of `futures::mpsc` with its parked senders and the Rafts' answers are external; a handle per start of a node |
| `Reads` | `read_linearizable`, `with_fsm`, `read_group_value_best_effort`, `group_value`, the Jepsen client's reads | one read from invocation to outcome, one step per await; `ensure_linearizable`, commits, elections and applies are external |
| `LeaderWatch` | `on_leader_change`, `spawn_leader_watch` | one step per lock, read and callback; the metrics channel is external |
| `IncService` | `group_inc`, `next_idem`, `propose_loop`, `propose`, the Jepsen client's adds | a proposal is accepted, then committed or lost, whatever its caller was told |
| `MC...` | | the instances for TLC: payloads, configurations and symmetries |
| `X_proofs` | | theorems about `X`, for `FileLogStore`, `StateMachineStore`, `SnapshotCatalog`, `GroupLifecycle`, `SnapshotAds`, `GroupRouter`, `Reads` and `IncService` |

Composition: `FileLogStore` is shown to implement `LogStore`, its files the
`DurableSpec` and the mirror of a living process the memory store itself;
`StateMachineStore` and `IncService` are built on `CounterFsm`; a catalog write
is three parts in `StateMachineStore` and taken apart, system call by system
call, in `SnapshotCatalog`; starting,
`create_group` and `shutdown` are short in `GroupRouter` and `Reads` and taken
apart in `GroupLifecycle`; the end of a snapshot task, `record_ad`, is one step
in `StateMachineStore` and taken apart in `SnapshotAds`.

What the abstractions leave out: the temporary file of `atomic_write_json`
(never read); the `sha256` file of a catalog entry as content (its creation and
its failure are a step); validation errors of `create_group` and decoding
errors of `restore`, which return before any change; the term part of a snapshot
id (an index determines it); groups other than one where groups share nothing;
the kind of an RPC (append, vote, snapshot and leader transfer take the same way)
and its encoding.

## Runs

Passing runs (`-config <cfg> <module>`):

| Run | Question | Properties |
|---|---|---|
| `FileLogStore.cfg` | Do kills and I/O errors at any rewrite lose or tear anything, and is the store otherwise the one of `log_mem.rs`? | TypeOK, MirrorsFiles, AckedSurvives, Recoverable, ImplementsLogStore |
| `Snapshots.cfg` | In Disabled mode, on a Standby and on a voter that offloads: are snapshots, with late freezes, out-of-order tasks, installs from two sides in every mode, catalog writes that overlap, fail or are killed half-way, and undecodable entries, safe to restore from, and does what was purged or advertised stay on disk? | TypeOK, SnapshotsCatchUp, CaughtUpAgrees, HotSnapshotExact, PurgedIsCovered, AdvertisedIsServed |
| `TriggerLiveness.cfg` | Does every trigger end with a snapshot at or after it on disk, or known to the core, through two restarts, installs from a peer and writes refused because their prune met the `meta.json` of another? | TriggersCovered |
| `Catalog.cfg` | Do concurrent writers and pruners, two of one index among them, keep what was acknowledged and the bound, through failing file operations, kills and power loss, and can a reader beside them see a mixture? | TypeOK, ReadsAreWhole, AckedIsServed, Pruned |
| `Groups.cfg` | Creation, shutdown and restart of two groups in any order across nodes, in one process or several, with logs in files or in memory, with a failing open or shutdown | TypeOK, OneRaftPerGroup, ShutdownIsComplete, InitializedOnce, CreatedIsInitialized |
| `Ads.cfg` | Is what was announced on disk, listed once, and known to every voter, with concurrent recorders, failing posts and writes, and a restart of the Standby or a voter at any step? | TypeOK, ListedOnce, AnnouncedIsPersisted, VotersTold |
| `LeaderWatch.cfg` | Is every callback told the current leader last? | TypeOK, ToldTheLeader |
| `GroupRouter.cfg` | Does every RPC return, in order, over one link per peer, while nodes are shut down, started again and shut down once more? | TypeOK, UpIsReachable, OneLinkPerPeer, HandledInOrder, SendReturns |
| `Reads.cfg` | Is what a client accepts as read linearizable, and is it served while a leader is stable? | TypeOK, ReadIsLinearizable, ServedWhenStable |
| `Inc.cfg` | Do retries, failover, lost entries and the background loop count each increment once, and every acknowledged one? | TypeOK, AckedIsCounted, CountedOnce |

Runs that end in a violation. Each checks one statement of a comment or a
document of the repository against what the code does; the findings in
`PROJECT.json` quote it.

| Run | What the counterexample shows |
|---|---|
| `HotSnapshotRestart.cfg` | Disabled mode purges the log up to a snapshot in memory; a restart has neither |
| `CatalogCrash.cfg` | a kill while `meta.json` is written makes the whole group's catalog unreadable |

### What the conditions leave out

Some properties of the passing runs carry a condition, and some runs a
restriction. Each marks a place where TLC refutes the unconditional statement:

| Condition | Without it |
|---|---|
| `Rebuilds`, `~Offload` in StateMachineStore | `HotSnapshotRestart.cfg` |
| `UserInstalls = "recovery"` | with "any", `install_durable_snapshot` of a snapshot older than what is applied rolls the replica back for good: the core does not apply the difference again (CaughtUpAgrees) |
| `spoiled` in AckedIsServed | the entry in which a write met an error or a kill, or that two writes wrote at once, may be torn or undecodable, and with `PowerLoss` one may vanish because the directory that holds its name is never synced (`fsync_dir` syncs the entry's own). The property still says that no other entry is touched; that an undecodable one makes them all unreachable is `CatalogCrash.cfg` |
| `faults = 0` in Pruned | a prune that fails leaves its entries until the next one |
| `OnDisk` in PurgedIsCovered and AdvertisedIsServed: listed always, served where the catalog can be read | beside a write that is midway, and after one that met an error, a kill or another of its index (`faulted`), `list` may fail or the newest `data.bin` not have its hash: `latest` is an error, and a restarted process cannot create the group. The properties say that what is needed is still on disk then, and that this is the only way for it not to be served |
| `installs = 0` in HotSnapshotExact | `install_durable_snapshot` works in every mode and sets the default membership: the next hot snapshot records it for an index where another is in force |
| TriggersCovered speaks of disk, not of ads | the prune of one task may list the `meta.json` another has just created: its `write` returns the error although the snapshot is complete, the task ends, and the snapshot is never advertised |
| `Overlap = FALSE` | `create_group` looks the group up, unlocks and spawns: two overlapping calls of one group on one node spawn two Rafts on one log directory (OneRaftPerGroup); a `create_group` under way during `shutdown` leaves a Raft running (ShutdownIsComplete); a shutdown between claim and initialize leaves the claim behind, and no later call initializes the group (CreatedIsInitialized) |
| `Grpc \/ Durable`, `faults = 0` in CreatedIsInitialized | the claim also outlives memory logs, so a cluster restarted on its fabric is not initialized again; and a shutdown that fails half-way leaves a dead Raft in the map, which the claimant cannot initialize |
| `~Grpc` in InitializedOnce | over gRPC each voter calls `initialize` by design |
| `clean` in SnapshotAds | overlapping `record_ad` calls may leave the older list in the file; an I/O error is dropped; a kill between truncate and write loses all ads |
| `failed` in VotersTold | a post that fails, or that a restart of the Standby cuts off, is never made again: the voter does not learn of the snapshot |
| restarts or unkeyed increments in AckedIsCounted | `DemoState.idem` starts at 1 again: a restarted process hands out keys that the state machine has consumed, and increments answered with success are dropped |
| `repeated` in UpIsReachable | `unregister_node` goes by node id: `shutdown` of an old handle after the node was started again leaves the new one unreachable |
| `~Grpc` in HandledInOrder | over gRPC every request is handled in a task of its own: a request that timed out may be handled after its successor |
| `read.index # None` in ReadIsLinearizable | `read_linearizable` looks the group up twice: after `shutdown` and `create_group` in between, the second lookup finds a new state machine that has applied nothing yet, and its value is returned as linearizable |
| `disturbed` in ServedWhenStable | a leader that changes, stops, or does not answer during the read may be missed in every pass |

Three statements are simply not claimed: that every trigger is advertised, that
`unique_peer_links` counts open channels in process (`unregister_node` leaves
`peers` as it is), and that an increment the Jepsen client reports as `:fail` has
no effect (its entry may commit later).

### Bounds and why they are enough

* `FileLogStore`: indices 0..3, two terms, two vote ranks, batches of up to two:
  a truncated and rewritten suffix, a purge inside, at and beyond the end of the
  log, and appends after each. Kills and failures are unbounded. The proofs
  remove the bounds.
* `StateMachineStore`: three entries out of a command that may be repeated, a
  trigger, a membership and an entry that does not decode (a command and a
  trigger in the liveness run); one install by the application; one restart, or
  two in the liveness run (a trigger may be passed over only by a node that
  starts twice); `Keep` of 1 so that pruning happens, `BuildEvery` of 2 for the
  5000 of the code. The configurations are Disabled, a Standby and a voter in
  StandbyOffload mode. On a Standby the log of a behaviour with an install by the
  application is at most two entries long (`ShortLog` in the MC module): a task
  and two installs can then write one index or two, which is all the ways in
  which their writes meet. Errors are not bounded.
* `SnapshotCatalog`: the catalog starts with one entry written, and two more
  writers, a reader and two faults (failing operations, kills or power losses)
  meet there, over two indices with `keep` of 1: each writer may rewrite the
  entry, or write the other, or both the same, and prune what the other writes.
  `InUse` in the MC module is that start; the proofs start from nothing and
  remove the bounds.
* `GroupLifecycle`: two members and a standby, two groups, two concurrent calls,
  four starts (both members twice, or all nodes and one again), one fault. A call
  that would exceed `MaxRafts` waits; three is a group on both members and on one
  of them again, or beside another group. The proofs remove the bounds.
* `SnapshotAds`: a Standby and two voters, two recorders on each, two ids, two
  calls of the Standby's tasks (one snapshot twice, or two whose posts overtake
  each other) and one kill. Failing posts and writes are not bounded.
* `GroupRouter`: one target node (nodes share only the callers) and two callers,
  each of a group of its own, with two requests and one: a request can be left
  behind in the queue by a timeout, its successor queue up behind it, and the
  other group come in between. A buffer of 1, for the 1024 of the code, so that
  senders are parked; two starts of the node, and an old handle shut down once
  more.
* `Reads`: two nodes, in one process or each in its own, two increments, one
  group created again.
* `LeaderWatch`: one group (groups share only the list of callbacks), two
  callbacks, hence three watchers, and two leader changes, so that a watcher can
  hold a report that two newer ones overtake.
* `IncService`: two increments over two nodes, each with a key of the client or
  of the process, and one restart: two proposals of each increment at each node.

Deadlock is not checked where a bound, or simply the end of all work, stops the
system; `FileLogStore` can always go on and is checked.

### Fairness

* `TriggerLiveness`: weak fairness of `apply`, of each task's steps, of the parts
  of each task's catalog write and of the core's. The core's worker applies
  whatever is committed, a task spawned on the runtime is polled until it ends,
  and file operations end. They do not meet an I/O error in that run
  (`WriteFails`), since nothing in the code repeats a failed write; writes that
  fail because of each other are in it.
* `LeaderWatch`: weak fairness of spawning and running watchers and of the
  second half of `on_leader_change`, which is one function without awaits.
  Leader changes and registrations are not fair.
* `GroupRouter`: weak fairness of each call's own steps, of each node's loop and
  of the gRPC handler of each request: all are tasks of a runtime that can go on,
  and a running Raft answers while a stopped one refuses. An error of a gRPC
  connect or call may come at any time, but it is bound to come only where the
  server is gone (`ServerGone`), which breaks its connections: nothing in
  `grpc/router.rs` gives up on a server that lives. Timeouts are not fair, so
  SendReturns does not lean on them; nor are starts and shutdowns.

## Proofs

Every safety property of a passing run is also a theorem, for every value of the
constants, and so is the safe half of each liveness property. The theorems rest on the named
assumptions of the modules only (each is evaluated by TLC on every run that
extends its module) and, where the table says so, on a condition that is part of
the statement. The conditions that are part of a property itself
(see above) are there too.

| Module | Theorems | Condition in the statement |
|---|---|---|
| `FileLogStore_proofs` | `TypeCorrect` (TypeOK), `Durable` (AckedSurvives), `Flushed` (MirrorsFiles), `CrashConsistent` (Recoverable), `Refinement` (ImplementsLogStore) | |
| `StateMachineStore_proofs` | `TypeCorrect` (TypeOK), `SnapshotsLeadOn` (SnapshotsCatchUp), `ReplicasAgree` (CaughtUpAgrees), `HotSnapshotsAreExact` (HotSnapshotExact), `PurgedIsOnDisk` (PurgedIsCovered), `AdsAreServed` (AdvertisedIsServed), `NoTriggerForgotten` | `UserInstalls # "any"` in the second and the third; `~WriteFails` and a Standby in the last |
| `SnapshotCatalog_proofs` | `TypeCorrect` (TypeOK), `ReadsWhole` (ReadsAreWhole), `AckedServed` (AckedIsServed), `PrunedToKeep` (Pruned) | |
| `GroupLifecycle_proofs` | `TypeCorrect` (TypeOK), `InitializedAtMostOnce` (InitializedOnce), `OneRaft` (OneRaftPerGroup), `ShutdownComplete` (ShutdownIsComplete), `CreatedFormed` (CreatedIsInitialized); of `LeaderWatch`: `WatchTypeCorrect` (TypeOK), `CallbacksTold` (SettledMeansTold) | `~Overlap` in `OneRaft`, `ShutdownComplete` and `CreatedFormed`; the assumption of `LeaderWatch` in the last two |
| `IncService_proofs` | `TypeCorrect` (TypeOK), `CountsOnce` (CountedOnce), `AckedCounts` (AckedIsCounted) | `Cardinality(Ops) <= IdemSpace` in the last: with more increments the low 32 bits of `next_idem` repeat |
| `GroupRouter_proofs` | `TypeCorrect` (TypeOK), `Reachable` (UpIsReachable), `SharedLinks` (OneLinkPerPeer), `InOrder` (HandledInOrder), `NobodyStranded` | |
| `Reads_proofs` | `TypeCorrect` (TypeOK), `Linearizable` (ReadIsLinearizable), `StableIsServed` (ServedWhenStable) | |
| `SnapshotAds_proofs` | `TypeCorrect` (TypeOK), `ListsAreSets` (ListedOnce), `AnnouncedOnDisk` (AnnouncedIsPersisted), `VotersLearn` (VotersTold) | |

The assumptions that are more than types: in `Reads` each process runs at least
one node and every node is run by some process; in `IncService` and
`SnapshotCatalog` there are finitely many increments and indices (properties count
them); in `SnapshotAds` there is a voter, the voters are distinct and not the
Standby, and a file that does not parse is not a list.

Each module proves one inductive invariant, `IInv`, and derives the properties
from it; none of them is inductive as it stands. The parts of `IInv` were checked
with TLC on the run of the module before they were proved. What they add:

* `FileLogStore`: the properties speak of the files and of what callers were told,
  while a call in progress is described by the mirror. `Pending` says, for each
  value of `todo`, how far the files are behind the mirror: equal when nothing is
  to be done; same hard state and a log that differs by one admissible truncation
  or append; and so on. `AckedInMirror` says that whatever a caller relies on is
  in the mirror of an open store, so that a rewrite that replaces a file by the
  mirror loses nothing. For the refinement every rewrite maps to one step of
  `DurableSpec` on what the files hold, with nothing filtered on the way, or to a
  stutter: an append takes effect when `log.json` is renamed, a purge with its
  mark when `hard_state.json` is and with its entries when `log.json` is. A kill
  between the two leaves entries at or below the mark, and possibly a last entry
  below it, which `load_log` loads and `get_log_state` reports: `purge_mark`
  without its `purge_entries` is that state. `MirrorSteps` says that every call
  is a step of the memory store on the mirror, on such a log too.
  `CrashConsistent` follows from the abstract steps.
* `StateMachineStore`: a snapshot is frozen after the unlock, so it may hold more
  than its label says. `Prefixes` says that every state the node holds, in
  memory, in a task, in a pending write or in the catalog, is the state after
  some prefix of the log that is no shorter than its label; that restoring such a
  state and applying the log from the label leads to the state of the whole log is
  a lemma about `ApplyRange`, proved by induction over the log: keys that were
  consumed are dropped. `Covered` and `Advertised` follow what is purged or
  advertised through pending writes and prunes, `Opened` says that a write's
  directory is listed from its second part on unless a newer one is, so that
  whatever a failing write leaves behind takes nothing away, and `Settled` that
  what is listed is whole unless a write is midway in it or some write has met an
  error, a kill or another of its index; `Linked` ties the write of a task to its
  trigger. `Exact` is the case without Standby tasks. `TriggersInHand` is behind
  `NoTriggerForgotten`: a trigger the core counts as applied has a task, or a
  snapshot at or after it is listed or being written; whatever a step takes out of
  that hand is on disk (`HandsOver`), a write that its prune makes fail included,
  and a restart replays from a point that passes over no trigger without one.
* `SnapshotCatalog`: `Origins` says that bytes, hashes and results come from a
  write to their own index, which gives ReadsAreWhole through kills and overlapping
  writes. `Orderly` says that outside the spoiled entries no two writes are midway
  in one, an open file is as its writer created it, and a `meta.json` that does not
  decode is being written. `Kept` names an index that no prune reaches, at or above
  everything that was ever listed, whose entry is spoiled, complete or being
  written again. `Bounded` says that as long as
  there are too many entries some writer is on its way to a prune that will see
  all of them: the last to start listing does.
* `GroupLifecycle`: `Alone` says that the lookup of `create_group` is still true
  when it spawns, `Running` that a Raft that runs is in the map, about to be
  inserted or about to be stopped, `Claims` that the claimant alone initializes,
  `Formed` that somebody is at the next step of the initialization as long as it
  is not done. Calls for different groups of a node interleave freely: without
  `Overlap` only calls for one group, and calls and a shutdown, keep apart.
* `LeaderWatch` (in `GroupLifecycle_proofs`, instantiated): every watcher calls
  every callback, so what a callback was told last may come from any of them.
  `Remembered` says that some watcher of the group remembers it: it is the last
  leader that watcher read, or the watcher is on its way to call the callback
  again. `Honest` says that a watcher that has seen the newest version of the
  metrics has read the newest leader. Hence `SettledMeansTold`: when the watchers
  of a group have nothing left to do, every registered callback was last told the
  present leader.
* `IncService`: `Keyed` and `AcceptedKeys` follow a key from its request into
  Raft, `Counted` says that the counter is the number of consumed keys, each of
  which some request has, and `Numbered` that keys of one process differ up to its
  restart. The rest is counting: injections between increments and keys.
* `GroupRouter`: `Line` says that the requests a handle still has to answer are in
  the order in which their callers made them and, unless the handle is down, newer
  than all that were handled; `Single` that of the handles of a node at most one
  is not down. `Stages` and `Links` do the same for the connections of gRPC.
  `Awaited` is behind `NobodyStranded`: a call that waits has its answer, or its
  request is with the loop or in the queue of its handle; the loop of a handle that
  a call goes through has not ended, also when the node was shut down; and a sender
  is parked only while the queue is over its limit.
* `Reads`: `IndexOK` says what a read has established at each await, from the
  confirmation of leadership to the wait for the replica; `Searched` where an
  undisturbed read has looked for the leader without finding it.
* `SnapshotAds`: `Persisted` says for each step of `record_ad`, on a node without
  overlapping calls and failures, how far the file is behind the list; `Told` says
  of every announced ad and every voter that the post failed, is still to be made,
  or was recorded. What `retain` and `push` do to a list is proved by induction
  over it.

The library's induction theorems take an operator as a parameter, which the
installed provers do not instantiate. The inductions over a log, a list or a range
are therefore done over sets of numbers: `NatSetInduction` follows from `LeastNat`,
that every non-empty set of natural numbers has a least element, which is the
library's theorem that `<` is well founded.

Only model-checked: liveness, since TLAPS does not do fairness and ENABLED. What
can be proved of the three liveness properties is that nothing is ever lost or
stuck on the way: `NoTriggerForgotten` for TriggersCovered, `CallbacksTold` for
ToldTheLeader and `NobodyStranded` for SendReturns. That the steps which remain are
taken is fairness, and stays with TLC. `NoCallStranded` is stated in
`GroupRouter_proofs`, `SettledMeansTold` in `LeaderWatch`; TLC agreed with both, on
larger instances than the runs', before they were proved.

## Not modelled, and why

* openraft: elections, replication and the ReadIndex protocol are external and
  appear as actions that do what their callers here rely on.
* Power loss of the log files: nothing in `log_file.rs` is synced, so no state
  of the files is excluded after one.
* Encoding, HTTP, gRPC transport, command line, status output, scripts, the
  Jepsen nemesis, `stub_network.rs` (a test double).

* `create_node` (`net/node.rs`), a constructor that `MultiRaft` does not use.
* `add_standby` and `wait_for_recovery` (`net/multiraft.rs`): one call of the core
  each, without state here.

## What could be added

* The contents of an ad, with posts of one snapshot that overtake each other, and
  the header that `snapshot_latest` sends with the bytes of a snapshot.
* `Overlap = TRUE` with what still holds there, if the code comes to hold a lock
  from the lookup of `create_group` to its insert.
