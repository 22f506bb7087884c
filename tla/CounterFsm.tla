----------------------------- MODULE CounterFsm -----------------------------
(***************************************************************************)
(* The demo state machine of one group,                                    *)
(* crates/multiraft-fsm/src/counter_fsm.rs: a counter and the set of       *)
(* idempotency keys it has consumed.  A command whose key was consumed     *)
(* before is accepted and changes nothing.                                 *)
(*                                                                         *)
(* A log entry is a record with a kind: "cmd" (with idem and delta),       *)
(* "trigger" (STANDBY_SNAPSHOT_TRIGGER), "mem" (a membership), "blank" or  *)
(* "bad" (bytes that do not decode as a command).                          *)
(***************************************************************************)
EXTENDS Integers, Sequences

Fresh == [value |-> 0, seen |-> {}]

\* CounterFsm::apply of a command that decodes.
FsmApply(fsm, cmd) ==
    IF cmd.idem \in fsm.seen
    THEN fsm
    ELSE [value |-> fsm.value + cmd.delta, seen |-> fsm.seen \cup {cmd.idem}]

\* CounterFsm::snapshot: the value and the consumed keys (their order in the
\* encoded vector is arbitrary and nothing reads it).
FsmSnapshot(fsm) == <<fsm.value, fsm.seen>>

FsmRestore_ValueOnly(data) == [value |-> data[1], seen |-> {}]

\* CounterFsm::restore: replaces the group's value and consumed keys.
FsmRestore(data) == [value |-> data[1], seen |-> data[2]]

(***************************************************************************)
(* Entries a .. b of a log applied one after the other: only commands      *)
(* reach the state machine.                                                *)
(***************************************************************************)
ApplyEntry(fsm, entry) == IF entry.kind = "cmd" THEN FsmApply(fsm, entry) ELSE fsm

ApplyRange(fsm, log, a, b) ==
    LET after[i \in (a - 1) .. b] ==
            IF i = a - 1 THEN fsm ELSE ApplyEntry(after[i - 1], log[i])
    IN  IF b < a THEN fsm ELSE after[b]

\* The state every replica has to agree on: the first n entries, from nothing.
StateAt(log, n) == ApplyRange(Fresh, log, 1, n)

\* The index of the last membership entry among the first n, 0 if none.
MembershipAt(log, n) ==
    LET last[i \in 0 .. n] ==
            IF i = 0 THEN 0 ELSE IF log[i].kind = "mem" THEN i ELSE last[i - 1]
    IN  last[n]
=============================================================================
