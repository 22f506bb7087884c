---------------------------- MODULE SnapshotAds ----------------------------
(***************************************************************************)
(* The snapshot advertisements of a Standby and of the voters it posts     *)
(* them to: SnapshotRuntime's ads list, its file snapshot_ads.json and     *)
(* record_ad (crates/multiraft-net/src/multiraft.rs), publish_snapshot_ad  *)
(* and admin_post_snapshot_ad (crates/multiraft-demo/src/main.rs).         *)
(*                                                                         *)
(* record_ad is called from snapshot tasks and from HTTP handlers, on any  *)
(* thread of the runtime.  An action is what happens under one holding of  *)
(* the ads mutex, or one system call of fs::write, which truncates the     *)
(* file and then writes it.  Ads of one group are enough: the key of an ad *)
(* is (group, snapshot_id), and an ad here is its key.                     *)
(* The nodes have a data_dir; without one nothing is persisted.            *)
(***************************************************************************)
EXTENDS Naturals, Sequences, SequencesExt

CONSTANTS
    Standby,
    Voters,         \* nodes that the Standby posts to, in this order
    Recorders,      \* threads of a node that call record_ad
    Ads,            \* advertisements, by their snapshot ids
    Unreadable,     \* file content that does not parse
    MaxCalls,       \* bound: ads of the Standby's snapshot tasks
    MaxCrash        \* bound: restarts of a node

ASSUME AdsAssumption ==
    /\ Voters \in Seq(Range(Voters)) /\ Voters # <<>>
    /\ IsInjective(Voters) /\ Standby \notin Range(Voters)
    /\ Unreadable \notin Seq(Ads)
    /\ MaxCalls \in Nat /\ MaxCrash \in Nat

Nodes == {Standby} \cup Range(Voters)
IsFile(f) == f = Unreadable \/ f \in Seq(Ads)

VARIABLES
    ads,        \* SnapshotRuntime.ads of each node
    file,       \* snapshot_ads.json of each node
    thread,     \* the record_ad call of each recorder
    posting,    \* publish_snapshot_ad tasks: the ad, and the voter that is next
    announced,  \* ads handed to the Standby's on_snapshot_ready
    failed,     \* auxiliary: <<voter, ad>> of posts that did not arrive
    clean,      \* auxiliary: nodes where no two calls have overlapped, no write has
                \* failed and no kill has cut one in two
    calls,
    crashes

vars == <<ads, file, thread, posting, announced, failed, clean, calls, crashes>>

Idle == [pc |-> "idle"]
Pcs == {"clone", "truncate", "write", "callback"}

TypeOK ==
    /\ ads \in [Nodes -> Seq(Ads)]
    /\ \A n \in Nodes : IsFile(file[n])
    /\ \A n \in Nodes, t \in Recorders : thread[n][t] # Idle =>
           /\ thread[n][t].pc \in Pcs /\ thread[n][t].ad \in Ads
           /\ thread[n][t].copy \in Seq(Ads)
    /\ \A p \in Range(posting) : p.ad \in Ads /\ p.next \in DOMAIN Voters
    /\ announced \subseteq Ads
    /\ failed \subseteq Range(Voters) \X Ads
    /\ clean \subseteq Nodes
    /\ calls \in 0 .. MaxCalls /\ crashes \in 0 .. MaxCrash

load_ads_Unchecked(f) == f

\* load_ads: a file that is missing or does not parse is an empty list.
load_ads(f) == IF f = Unreadable THEN <<>> ELSE f

Init ==
    /\ file = [n \in Nodes |-> <<>>]
    /\ ads = [n \in Nodes |-> load_ads(file[n])]
    /\ thread = [n \in Nodes |-> [t \in Recorders |-> Idle]]
    /\ posting = <<>> /\ announced = {} /\ failed = {}
    /\ clean = Nodes /\ calls = 0 /\ crashes = 0

-----------------------------------------------------------------------------
At(n, t, pc) == thread[n][t].pc = pc
SetThread(n, t, call) == thread' = [thread EXCEPT ![n] = [@ EXCEPT ![t] = call]]
Call(pc, ad, copy) == [pc |-> pc, ad |-> ad, copy |-> copy]
Goto(n, t, pc) == SetThread(n, t, Call(pc, thread[n][t].ad, thread[n][t].copy))
Quiet(n) == \A t \in Recorders : thread[n][t] = Idle
Writing(n) == \E t \in Recorders : At(n, t, "write")

\* ads.retain: the list without the ad, by going through it.
Retained(list, ad) ==
    LET kept[i \in 0 .. Len(list)] ==
            IF i = 0 THEN <<>>
            ELSE IF list[i] = ad THEN kept[i - 1] ELSE Append(kept[i - 1], list[i])
    IN  kept[Len(list)]

\* retain, then push: an ad with the same id is replaced.
Record_PushOnly(list, ad) == Append(list, ad)

Record(list, ad) == Append(Retained(list, ad), ad)

record_ad(n, t, ad) ==
    /\ thread[n][t] = Idle
    /\ ads' = [ads EXCEPT ![n] = Record(@, ad)]
    /\ clean' = IF Quiet(n) THEN clean ELSE clean \ {n}
    /\ SetThread(n, t, Call("clone", ad, <<>>))

\* A snapshot task of the Standby has written its snapshot to the catalog.
snapshot_done(t, ad) ==
    /\ calls < MaxCalls
    /\ calls' = calls + 1
    /\ record_ad(Standby, t, ad)
    /\ UNCHANGED <<file, posting, announced, failed, crashes>>

\* persist_ads: the list is copied under the lock, then written without it.
persist_clone(n, t) ==
    /\ At(n, t, "clone")
    /\ SetThread(n, t, Call("truncate", thread[n][t].ad, ads[n]))
    /\ UNCHANGED <<ads, file, posting, announced, failed, clean, calls, crashes>>

persist_truncate(n, t) ==
    /\ At(n, t, "truncate")
    /\ file' = [file EXCEPT ![n] = Unreadable]
    /\ Goto(n, t, "write")
    /\ UNCHANGED <<ads, posting, announced, failed, clean, calls, crashes>>

\* A shorter list written over a longer one leaves the end of the longer one.
persist_write(n, t) ==
    /\ At(n, t, "write")
    /\ LET copy == thread[n][t].copy
       IN  file' = [file EXCEPT ![n] =
                        IF @ # Unreadable /\ Len(@) > Len(copy) THEN Unreadable ELSE copy]
    /\ Goto(n, t, "callback")
    /\ UNCHANGED <<ads, posting, announced, failed, clean, calls, crashes>>

\* Whatever system call of fs::write fails, the error is dropped.
persist_error(n, t) ==
    /\ thread[n][t].pc \in {"truncate", "write"}
    /\ clean' = clean \ {n}
    /\ Goto(n, t, "callback")
    /\ UNCHANGED <<ads, file, posting, announced, failed, calls, crashes>>

\* on_snapshot_ready is set on the Standby only, where it starts a task.
Announce(ad) ==
    /\ announced' = announced \cup {ad}
    /\ posting' = Append(posting, [ad |-> ad, next |-> 1])

callback_BeforePersist(n, t) ==
    /\ At(n, t, "clone")
    /\ IF n = Standby THEN Announce(thread[n][t].ad) ELSE UNCHANGED <<announced, posting>>
    /\ SetThread(n, t, Idle)
    /\ UNCHANGED <<ads, file, failed, clean, calls, crashes>>

callback(n, t) ==
    /\ At(n, t, "callback")
    /\ IF n = Standby THEN Announce(thread[n][t].ad) ELSE UNCHANGED <<announced, posting>>
    /\ SetThread(n, t, Idle)
    /\ UNCHANGED <<ads, file, failed, clean, calls, crashes>>

-----------------------------------------------------------------------------
(***************************************************************************)
(* publish_snapshot_ad posts an ad to one voter after the other, and goes  *)
(* on to the next whatever comes of it; nothing is posted again.           *)
(***************************************************************************)
NextVoter_FirstOnly(i) == posting' = RemoveAt(posting, i)

NextVoter(i) ==
    posting' = IF posting[i].next = Len(Voters) THEN RemoveAt(posting, i)
               ELSE [posting EXCEPT ![i].next = @ + 1]

\* http_post_json reaches admin_post_snapshot_ad on the voter, which records the
\* ad on its first node.
post(i, t) ==
    /\ record_ad(Voters[posting[i].next], t, posting[i].ad)
    /\ NextVoter(i)
    /\ UNCHANGED <<file, announced, failed, calls, crashes>>

post_error(i) ==
    /\ failed' = failed \cup {<<Voters[posting[i].next], posting[i].ad>>}
    /\ NextVoter(i)
    /\ UNCHANGED <<ads, file, thread, announced, clean, calls, crashes>>

\* What a restart of the Standby leaves unposted.
Unposted ==
    {p \in Range(Voters) \X Ads : \E i \in DOMAIN posting, k \in DOMAIN Voters :
        k >= posting[i].next /\ p = <<Voters[k], posting[i].ad>>}

Killed(n) ==
    /\ crashes < MaxCrash
    /\ crashes' = crashes + 1
    /\ clean' = IF Writing(n) THEN clean \ {n} ELSE clean
    /\ thread' = [thread EXCEPT ![n] = [t \in Recorders |-> Idle]]
    /\ posting' = IF n = Standby THEN <<>> ELSE posting
    /\ failed' = failed \cup IF n = Standby THEN Unposted
                             ELSE {n} \X {thread[n][t].ad : t \in {u \in Recorders : thread[n][u] # Idle}}

\* A process ends and starts again: SnapshotRuntime::new reads the file.
Restart(n) ==
    /\ Killed(n)
    /\ ads' = [ads EXCEPT ![n] = load_ads(file[n])]
    /\ UNCHANGED <<file, announced, calls>>

Next ==
    \/ \E t \in Recorders, ad \in Ads : snapshot_done(t, ad)
    \/ \E n \in Nodes, t \in Recorders :
           \/ persist_clone(n, t) \/ persist_truncate(n, t) \/ persist_write(n, t)
           \/ persist_error(n, t) \/ callback(n, t)
    \/ \E i \in DOMAIN posting : post_error(i) \/ \E t \in Recorders : post(i, t)
    \/ \E n \in Nodes : Restart(n)

Spec == Init /\ [][Next]_vars

-----------------------------------------------------------------------------
(***************************************************************************)
(* Properties.                                                             *)
(***************************************************************************)
\* A snapshot is listed once, in memory and in the file, on the Standby and on
\* the voters, through concurrent calls, repeated posts and restarts that record
\* the same snapshot again.
ListedOnce ==
    \A n \in Nodes : IsInjective(ads[n]) /\ (file[n] # Unreadable => IsInjective(file[n]))

\* An ad that was announced, and so may have reached the voters, is in the
\* file whenever no write is under way: a restart still lists it.  Calls that
\* overlap may write the list in the wrong order, an I/O error is dropped, and a
\* kill between truncating and writing loses the file: of those nothing is claimed.
AnnouncedIsPersisted ==
    Standby \in clean /\ ~Writing(Standby) => announced \subseteq Range(load_ads(file[Standby]))

\* When the Standby's tasks have posted, every voter lists what was announced,
\* and lists it still after a restart of its own, unless a post of this ad to
\* this voter failed: nothing posts it again (publish_snapshot_ad,
\* admin_post_snapshot_ad, load_ads).
VotersTold ==
    posting = <<>> =>
        \A v \in Range(Voters) \cap clean, ad \in announced :
            Quiet(v) /\ <<v, ad>> \notin failed => ad \in Range(ads[v]) \cap Range(load_ads(file[v]))
=============================================================================
