------------------------ MODULE MCStateMachineStore ------------------------
(***************************************************************************)
(* Instances of StateMachineStore: commands that may be committed twice (a *)
(* retry with the same key), triggers, memberships and a payload that does *)
(* not decode.                                                             *)
(***************************************************************************)
EXTENDS StateMachineStore

Add(k, d) == [kind |-> "cmd", idem |-> k, delta |-> d]
Trigger == [kind |-> "trigger"]
Membership == [kind |-> "mem"]
Bad == [kind |-> "bad"]

AllPayloads == {Add(1, 1), Trigger, Membership, Bad}
StandbyPayloads == {Add(1, 1), Trigger}
VoterPayloads == {Add(1, 1), Add(2, 5)}

Config(snapshot_mode, role) == [snapshot_mode |-> snapshot_mode, role |-> role]

HotConfigs == {Config("Disabled", "Voter")}
StandbyConfigs == {Config("StandbyOffload", "Standby")}
AllConfigs == HotConfigs \cup StandbyConfigs \cup {Config("StandbyOffload", "Voter")}

\* Bound: on a Standby, whose tasks write beside the application's installs, the
\* log of a behaviour with such an install is at most two entries long.
ShortLog == Standby /\ installs > 0 => Len(log) <= 2
=============================================================================
