---------------------------- MODULE LeaderWatch ----------------------------
(***************************************************************************)
(* Leader-change callbacks of one node: on_leader_change and the watcher   *)
(* tasks of spawn_leader_watch (crates/multiraft-net/src/multiraft.rs).    *)
(*                                                                         *)
(* A watcher is spawned when a group is created, and one more for every    *)
(* existing group each time a callback is registered; every watcher calls  *)
(* every callback.  Groups are created and callbacks registered while      *)
(* watchers run.  An action is one holding of a lock, one read of the      *)
(* metrics, or one call of a callback.  The metrics channel (external)     *)
(* holds the current value and a version; a receiver wakes when the        *)
(* version is newer than the one it has seen.                              *)
(***************************************************************************)
EXTENDS Naturals

CONSTANTS
    Groups,
    Callbacks,
    Leaders,        \* node ids that may lead
    None,           \* no leader known
    MaxChanges      \* bound: changes of a group's leader

ASSUME WatchAssumption == None \notin Leaders /\ None \notin Callbacks /\ MaxChanges \in Nat

\* A watcher is named by its group and the callback whose registration
\* spawned it, None for the one of create_group.
Watchers == Groups \X (Callbacks \cup {None})

VARIABLES
    leader,         \* metrics.current_leader of each group
    version,        \* version of the group's metrics channel
    groups,         \* the group map
    unwatched,      \* groups inserted by create_group, watcher not spawned yet
    leader_cbs,     \* the registered callbacks
    registering,    \* on_leader_change calls that have still to visit the groups
    watcher,        \* the watcher tasks
    told            \* last leader each callback was called with, per group

vars == <<leader, version, groups, unwatched, leader_cbs, registering, watcher, told>>

OptLeader == Leaders \cup {None}
Never == "never"
Absent == [pc |-> "absent"]
Task(pc, last, todo, seen) == [pc |-> pc, last |-> last, todo |-> todo, seen |-> seen]

\* A new watcher.  Its receiver has seen the newest version, the case in which
\* it is woken least.
Fresh(g) == Task("read", Never, {}, version[g])

TypeOK ==
    /\ leader \in [Groups -> OptLeader]
    /\ version \in [Groups -> 0 .. MaxChanges]
    /\ groups \subseteq Groups /\ unwatched \subseteq groups
    /\ registering \subseteq leader_cbs /\ leader_cbs \subseteq Callbacks
    /\ \A w \in Watchers : watcher[w] # Absent =>
           /\ watcher[w].pc \in {"read", "clone", "call", "wait"}
           /\ watcher[w].last \in OptLeader \cup {Never}
           /\ watcher[w].todo \subseteq leader_cbs
           /\ watcher[w].seen \in 0 .. version[w[1]]
    /\ told \in [Callbacks -> [Groups -> OptLeader \cup {Never}]]

Init ==
    /\ leader = [g \in Groups |-> None]
    /\ version = [g \in Groups |-> 0]
    /\ groups = {} /\ unwatched = {}
    /\ leader_cbs = {} /\ registering = {}
    /\ watcher = [w \in Watchers |-> Absent]
    /\ told = [c \in Callbacks |-> [g \in Groups |-> Never]]

-----------------------------------------------------------------------------
\* External: the group's Raft sees another leader, or none.
LeaderChanges(g, l) ==
    /\ l # leader[g]
    /\ version[g] < MaxChanges
    /\ leader' = [leader EXCEPT ![g] = l]
    /\ version' = [version EXCEPT ![g] = @ + 1]
    /\ UNCHANGED <<groups, unwatched, leader_cbs, registering, watcher, told>>

\* The end of spawn_local_group: insert into the map, then spawn the watcher.
insert_group(g) ==
    /\ g \notin groups
    /\ groups' = groups \cup {g}
    /\ unwatched' = unwatched \cup {g}
    /\ UNCHANGED <<leader, version, leader_cbs, registering, watcher, told>>

spawn_leader_watch(g) ==
    /\ g \in unwatched
    /\ unwatched' = unwatched \ {g}
    /\ watcher' = [watcher EXCEPT ![<<g, None>>] = Fresh(g)]
    /\ UNCHANGED <<leader, version, groups, leader_cbs, registering, told>>

\* on_leader_change: the callback is registered first, then the groups that
\* exist are read and a watcher is spawned for each.
on_leader_change(c) ==
    /\ c \notin leader_cbs
    /\ leader_cbs' = leader_cbs \cup {c}
    /\ registering' = registering \cup {c}
    /\ UNCHANGED <<leader, version, groups, unwatched, watcher, told>>

visit_groups(c) ==
    /\ c \in registering
    /\ registering' = registering \ {c}
    /\ watcher' = [w \in Watchers |->
                      IF w[1] \in groups /\ w[2] = c THEN Fresh(w[1]) ELSE watcher[w]]
    /\ UNCHANGED <<leader, version, groups, unwatched, leader_cbs, told>>

-----------------------------------------------------------------------------
(***************************************************************************)
(* The loop of a watcher.                                                  *)
(***************************************************************************)
At(w, pc) == watcher[w].pc = pc

watch_read(w) ==
    /\ At(w, "read")
    /\ LET cur == leader[w[1]]
       IN  watcher' = [watcher EXCEPT ![w] =
                          Task(IF @.last = cur THEN "wait" ELSE "clone", cur, @.todo, @.seen)]
    /\ UNCHANGED <<leader, version, groups, unwatched, leader_cbs, registering, told>>

watch_clone(w) ==
    /\ At(w, "clone")
    /\ watcher' = [watcher EXCEPT ![w] = Task("call", @.last, leader_cbs, @.seen)]
    /\ UNCHANGED <<leader, version, groups, unwatched, leader_cbs, registering, told>>

watch_call(w, c) ==
    /\ At(w, "call")
    /\ c \in watcher[w].todo
    /\ told' = [told EXCEPT ![c] = [@ EXCEPT ![w[1]] = watcher[w].last]]
    /\ watcher' = [watcher EXCEPT ![w] = Task("call", @.last, @.todo \ {c}, @.seen)]
    /\ UNCHANGED <<leader, version, groups, unwatched, leader_cbs, registering>>

\* Marks the newest version as seen when the callbacks are done.
watch_called_MarksSeen(w) ==
    /\ At(w, "call")
    /\ watcher[w].todo = {}
    /\ watcher' = [watcher EXCEPT ![w] = Task("wait", @.last, {}, version[w[1]])]
    /\ UNCHANGED <<leader, version, groups, unwatched, leader_cbs, registering, told>>

watch_called(w) ==
    /\ At(w, "call")
    /\ watcher[w].todo = {}
    /\ watcher' = [watcher EXCEPT ![w] = Task("wait", @.last, {}, @.seen)]
    /\ UNCHANGED <<leader, version, groups, unwatched, leader_cbs, registering, told>>

watch_changed_Counts(w) ==
    /\ At(w, "wait")
    /\ watcher' = [watcher EXCEPT ![w] = Task("read", @.last, {}, @.seen + 1)]
    /\ UNCHANGED <<leader, version, groups, unwatched, leader_cbs, registering, told>>

watch_changed(w) ==
    /\ At(w, "wait")
    /\ version[w[1]] > watcher[w].seen
    /\ watcher' = [watcher EXCEPT ![w] = Task("read", @.last, {}, version[w[1]])]
    /\ UNCHANGED <<leader, version, groups, unwatched, leader_cbs, registering, told>>

WatchStep(w) ==
    \/ watch_read(w) \/ watch_clone(w) \/ watch_called(w) \/ watch_changed(w)
    \/ \E c \in Callbacks : watch_call(w, c)

Next ==
    \/ \E g \in Groups :
           \/ insert_group(g) \/ spawn_leader_watch(g)
           \/ \E l \in OptLeader : LeaderChanges(g, l)
    \/ \E c \in Callbacks : on_leader_change(c) \/ visit_groups(c)
    \/ \E w \in Watchers : WatchStep(w)

Spec == Init /\ [][Next]_vars

(***************************************************************************)
(* Fairness: code that has begun goes on, and a task that can run is       *)
(* polled.  Nothing makes a leader change or a callback be registered.     *)
(***************************************************************************)
FairSpec ==
    /\ Spec
    /\ \A g \in Groups : WF_vars(spawn_leader_watch(g))
    /\ \A c \in Callbacks : WF_vars(visit_groups(c))
    /\ \A w \in Watchers : WF_vars(WatchStep(w))

-----------------------------------------------------------------------------
(***************************************************************************)
(* Properties.                                                             *)
(***************************************************************************)

\* A watcher that has nothing left to do: it waits, and its receiver has seen
\* every change of the group's leader.
Settled(w) == watcher[w] = Absent \/ (At(w, "wait") /\ watcher[w].seen = version[w[1]])

\* A callback registered for a group is told the group's leader by the time its
\* watchers settle, whichever of them called it last and with which leader.
SettledMeansTold ==
    \A c \in leader_cbs \ registering, g \in groups \ unwatched :
        (\A w \in Watchers : w[1] = g => Settled(w)) => told[c][g] = leader[g]

\* Once leaders stop changing, the last call of every callback for every group
\* names the current leader, although several watchers report one group, each
\* at its own pace, and may report an old leader after a newer one.
ToldTheLeader ==
    <>[](\A c \in leader_cbs, g \in groups : told[c][g] = leader[g])
=============================================================================
