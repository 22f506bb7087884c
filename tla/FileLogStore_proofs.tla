------------------------ MODULE FileLogStore_proofs ------------------------
(***************************************************************************)
(* Proofs about the file-backed log store, for all terms, ranks and        *)
(* bounds.  The inductive invariant IInv says, for every moment of a call, *)
(* how far the two files are behind the mirror (Pending), and that nothing *)
(* a caller relies on is missing from the mirror (AckedInMirror).          *)
(***************************************************************************)
EXTENDS FileLogStore, TLAPS

USE TermsAssumption, RanksAssumption, MaxIndexAssumption, MaxBatchAssumption,
    NoneAssumption

-----------------------------------------------------------------------------
(***************************************************************************)
(* Maps.                                                                   *)
(***************************************************************************)

\* A map of the stores is a function from some indices to terms.
LEMMA LogMapDef ==
    ASSUME NEW f
    PROVE  f \in LogMap <=> /\ f = [i \in DOMAIN f |-> f[i]]
                            /\ DOMAIN f \subseteq Index
                            /\ \A i \in DOMAIN f : f[i] \in Terms
BY DEF LogMap

\* The empty map is one of them.
LEMMA EmptyLogMap == EmptyLog \in LogMap
BY LogMapDef DEF EmptyLog

\* Dropping entries from a map leaves a map.
LEMMA KeepMap ==
    ASSUME NEW f \in LogMap, NEW n \in Nat
    PROVE  KeepFrom(f, n) \in LogMap /\ KeepBelow(f, n) \in LogMap
BY LogMapDef DEF KeepFrom, KeepBelow

\* Inserting a batch of entries into a map gives a map.
LEMMA InsertMap ==
    ASSUME NEW f \in LogMap, NEW e \in LogMap
    PROVE  InsertAll(f, e) \in LogMap
BY LogMapDef DEF InsertAll

\* The batches the core appends are maps.
LEMMA BatchMap ==
    ASSUME NEW f, NEW p, NEW e, CanAppend(f, p, e)
    PROVE  e \in LogMap
BY LogMapDef DEF CanAppend, Index

\* The index after an optional log id is a natural number.
LEMMA NextIndexNat ==
    ASSUME NEW id \in OptLogId
    PROVE  NextIndex(id) \in Nat
BY DEF NextIndex, OptLogId, LogId, Index

-----------------------------------------------------------------------------
(***************************************************************************)
(* Types.                                                                  *)
(***************************************************************************)

\* Every step of the store keeps its variables in their types.
LEMMA TypeStep == TypeOK /\ [Next]_vars => TypeOK'
<1> SUFFICES ASSUME TypeOK, [Next]_vars PROVE TypeOK'
  OBVIOUS
<1> USE DEF TypeOK, Todo
<1>1. CASE open
  BY <1>1 DEF open, files, HardState, Acked
<1>2. ASSUME NEW e \in Batches, append(e) PROVE TypeOK'
  <2>1. InsertAll(log, e) \in LogMap
    BY <1>2, BatchMap, InsertMap DEF append
  <2> QED BY <1>2, <2>1 DEF append, files
<1>3. ASSUME NEW s \in Index, truncate_after(s) PROVE TypeOK'
  <2>1. KeepBelow(log, s) \in LogMap /\ KeepBelow(acked.log, s) \in LogMap
    BY KeepMap DEF Index, Acked
  <2> QED BY <1>3, <2>1 DEF truncate_after, files, Acked
<1>4. ASSUME NEW id \in LogId, purge(id) PROVE TypeOK'
  <2>1. KeepFrom(log, id.index + 1) \in LogMap
    BY KeepMap DEF LogId, Index
  <2> QED BY <1>4, <2>1 DEF purge, files, OptLogId
<1>5. ASSUME NEW id \in LogId, save_committed(id) PROVE TypeOK'
  BY <1>5 DEF save_committed, files, OptLogId
<1>6. ASSUME NEW v \in Ranks, save_vote(v) PROVE TypeOK'
  BY <1>6 DEF save_vote, files, OptVote
<1>7. CASE persist_hard_state
  BY <1>7 DEF persist_hard_state, HardStateOfMirror, Mirror, HardState, Acked, inner
<1>8. CASE persist_log
  BY <1>8 DEF persist_log, Mirror, Acked, inner
<1>9. CASE PersistFails
  BY <1>9 DEF PersistFails, files, inner
<1>10. CASE Crash
  BY <1>10, EmptyLogMap DEF Crash, files, OptLogId, OptVote
<1>11. CASE UNCHANGED vars
  BY <1>11 DEF vars
<1> QED
  BY <1>1, <1>2, <1>3, <1>4, <1>5, <1>6, <1>7, <1>8, <1>9, <1>10, <1>11 DEF Next

\* The initial directory has the right types.
LEMMA TypeInit == Init => TypeOK
BY EmptyLogMap DEF Init, TypeOK, DefaultHardState, HardState, Acked, OptLogId, OptVote, Todo

\* Type correctness: the mirror and the files always hold optional log ids,
\* votes and maps from indices to terms, through kills and failed rewrites.
THEOREM TypeCorrect == Spec => []TypeOK
BY TypeInit, TypeStep, PTL DEF Spec

-----------------------------------------------------------------------------
(***************************************************************************)
(* The inductive invariant.                                                *)
(***************************************************************************)

\* The calls that have changed the mirror and not yet the log file (an append,
\* a purge before and after its first rewrite, a truncation), as relations
\* between the files and the mirror.
AppendPending ==
    /\ hard_state.last_purged_log_id = last_purged_log_id
    /\ \E e \in Batches : /\ CanAppend(log_file, last_purged_log_id, e)
                          /\ log = InsertAll(log_file, e)

PurgePending ==
    /\ last_purged_log_id \in LogId
    /\ CanPurge(log_file, hard_state.last_purged_log_id, last_purged_log_id)
    /\ log = KeepFrom(log_file, last_purged_log_id.index + 1)

PurgeHalfDone ==
    /\ last_purged_log_id \in LogId
    /\ hard_state.last_purged_log_id = last_purged_log_id
    /\ log = KeepFrom(log_file, last_purged_log_id.index + 1)

TruncatePending ==
    /\ hard_state.last_purged_log_id = last_purged_log_id
    /\ \E s \in Index : /\ CanTruncate(log_file, last_purged_log_id, committed, s)
                        /\ log = KeepBelow(log_file, s)

\* The calls that have changed the mirror and not yet the hard state file.
CommitPending ==
    /\ hard_state.vote = vote
    /\ committed \in LogId
    /\ CanCommit(log, last_purged_log_id, hard_state.committed, committed)

VotePending ==
    /\ hard_state.committed = committed
    /\ vote \in Ranks
    /\ VoteLeq(hard_state.vote, vote)

Pending ==
    /\ status # "open" => todo = "nothing"
    /\ status = "open" =>
        /\ todo \in {"nothing", "log"} => hard_state = HardStateOfMirror
        /\ todo \in {"nothing", "hard"} => log_file = log
        /\ todo = "hard" => /\ hard_state.last_purged_log_id = last_purged_log_id
                            /\ CommitPending \/ VotePending
        /\ todo = "all" => /\ hard_state.vote = vote
                           /\ hard_state.committed = committed
                           /\ AppendPending \/ PurgePending
        /\ todo = "log" => AppendPending \/ PurgeHalfDone \/ TruncatePending

AckedInMirror ==
    status = "open" =>
        \A i \in DOMAIN acked.log :
            i >= NextIndex(last_purged_log_id) => i \in DOMAIN log /\ log[i] = acked.log[i]

IInv == TypeOK /\ Pending /\ AckedInMirror /\ AckedSurvives

\* The invariant holds of the initial directory.
LEMMA IInvInit == Init => IInv
<1> SUFFICES ASSUME Init PROVE IInv
  OBVIOUS
<1>1. TypeOK
  BY TypeInit
<1>2. Pending /\ AckedInMirror
  BY DEF Init, Pending, AckedInMirror
<1>3. AckedSurvives
  BY DEF Init, AckedSurvives, DefaultHardState, VoteLeq, EmptyLog, NextIndex
<1> QED BY <1>1, <1>2, <1>3 DEF IInv

\* Every step of a call, every failure and every kill keeps Pending.
LEMMA PendingStep == IInv /\ [Next]_vars => Pending'
<1> SUFFICES ASSUME IInv, [Next]_vars PROVE Pending'
  OBVIOUS
<1> USE DEF IInv
<1>1. CASE open
  BY <1>1 DEF open, Pending, files, HardStateOfMirror, TypeOK, HardState
<1>2. ASSUME NEW e \in Batches, append(e) PROVE Pending'
  <2>1. AppendPending'
    BY <1>2 DEF append, Pending, Ready, AppendPending, files, HardStateOfMirror
  <2> QED
    BY <1>2, <2>1 DEF append, Pending, Ready, files, HardStateOfMirror
<1>3. ASSUME NEW s \in Index, truncate_after(s) PROVE Pending'
  <2>1. TruncatePending'
    BY <1>3 DEF truncate_after, Pending, Ready, TruncatePending, files, HardStateOfMirror
  <2> QED
    BY <1>3, <2>1 DEF truncate_after, Pending, Ready, files, HardStateOfMirror
<1>4. ASSUME NEW id \in LogId, purge(id) PROVE Pending'
  <2>1. PurgePending'
    BY <1>4 DEF purge, Pending, Ready, PurgePending, files, HardStateOfMirror
  <2> QED
    BY <1>4, <2>1 DEF purge, Pending, Ready, files, HardStateOfMirror
<1>5. ASSUME NEW id \in LogId, save_committed(id) PROVE Pending'
  <2>1. CommitPending'
    BY <1>5 DEF save_committed, Pending, Ready, CommitPending, files, HardStateOfMirror
  <2> QED
    BY <1>5, <2>1 DEF save_committed, Pending, Ready, files, HardStateOfMirror
<1>6. ASSUME NEW v \in Ranks, save_vote(v) PROVE Pending'
  <2>1. VotePending'
    BY <1>6 DEF save_vote, Pending, Ready, VotePending, files, HardStateOfMirror
  <2> QED
    BY <1>6, <2>1 DEF save_vote, Pending, Ready, files, HardStateOfMirror
<1>7. CASE persist_hard_state
  <2>1. status = "open" /\ status' = "open"
    BY <1>7 DEF persist_hard_state, Pending
  <2>2. (HardStateOfMirror = hard_state)'
    BY <1>7 DEF persist_hard_state, HardStateOfMirror, inner
  <2>3. CASE todo = "hard"
    BY <1>7, <2>1, <2>2, <2>3 DEF persist_hard_state, Pending, inner
  <2>4. CASE todo = "all"
    <3>1. CASE AppendPending
      <4>1. AppendPending'
        BY <1>7, <3>1 DEF persist_hard_state, AppendPending, HardStateOfMirror, inner
      <4> QED
        BY <1>7, <2>1, <2>2, <2>4, <4>1 DEF persist_hard_state, Pending
    <3>2. CASE PurgePending
      <4>1. PurgeHalfDone'
        BY <1>7, <3>2 DEF persist_hard_state, PurgePending, PurgeHalfDone, HardStateOfMirror, inner
      <4> QED
        BY <1>7, <2>1, <2>2, <2>4, <4>1 DEF persist_hard_state, Pending
    <3> QED BY <2>1, <2>4, <3>1, <3>2 DEF Pending
  <2> QED BY <1>7, <2>3, <2>4 DEF persist_hard_state
<1>8. CASE persist_log
  BY <1>8 DEF persist_log, Pending, inner, HardStateOfMirror
<1>9. CASE PersistFails
  BY <1>9 DEF PersistFails, Pending
<1>10. CASE Crash
  BY <1>10 DEF Crash, Pending
<1>11. CASE UNCHANGED vars
  BY <1>11 DEF vars, Pending, HardStateOfMirror, CommitPending, VotePending, AppendPending,
               PurgePending, PurgeHalfDone, TruncatePending
<1> QED
  BY <1>1, <1>2, <1>3, <1>4, <1>5, <1>6, <1>7, <1>8, <1>9, <1>10, <1>11 DEF Next

\* The index of the first entry of a batch is above every entry already there,
\* and not below the purge mark.
LEMMA BatchAbove ==
    ASSUME NEW f \in LogMap, NEW p \in OptLogId, NEW e, CanAppend(f, p, e)
    PROVE  /\ \A i \in DOMAIN e : NextIndex(p) <= i
           /\ \A i \in DOMAIN f, j \in DOMAIN e : i < j
<1>1. PICK a \in Index, b \in Index :
        IsNextIndex(f, p, a) /\ e \in [a .. b -> Terms]
  BY DEF CanAppend
<1>2. \A i \in DOMAIN e : i \in Int /\ a <= i
  BY <1>1 DEF Index
<1> QED
  BY <1>1, <1>2, NextIndexNat, LogMapDef DEF IsNextIndex, Index

\* Nothing a caller relies on is missing from the mirror after any step.
LEMMA AckedInMirrorStep == IInv /\ [Next]_vars => AckedInMirror'
<1> SUFFICES ASSUME IInv, [Next]_vars, status' = "open",
                    NEW i \in DOMAIN acked'.log,
                    i >= NextIndex(last_purged_log_id')
             PROVE  i \in DOMAIN log' /\ log'[i] = acked'.log[i]
  BY DEF AckedInMirror
<1> USE DEF IInv
<1>1. CASE open
  BY <1>1 DEF open
<1>2. ASSUME NEW e \in Batches, append(e)
      PROVE i \in DOMAIN log' /\ log'[i] = acked'.log[i]
  <2>1. i \in DOMAIN log /\ log[i] = acked.log[i]
    BY <1>2 DEF append, AckedInMirror
  <2>2. i \notin DOMAIN e
    BY <1>2, <2>1, BatchAbove, LogMapDef DEF append, TypeOK, Index
  <2> QED BY <1>2, <2>1, <2>2 DEF append, InsertAll
<1>3. ASSUME NEW s \in Index, truncate_after(s)
      PROVE i \in DOMAIN log' /\ log'[i] = acked'.log[i]
  <2>1. acked'.log = KeepBelow(acked.log, s)
    BY <1>3 DEF truncate_after, TypeOK, Acked
  <2>2. i \in DOMAIN acked.log /\ i < s /\ acked'.log[i] = acked.log[i]
    BY <2>1 DEF KeepBelow
  <2>3. i \in DOMAIN log /\ log[i] = acked.log[i]
    BY <1>3, <2>2 DEF truncate_after, AckedInMirror
  <2> QED BY <1>3, <2>2, <2>3 DEF truncate_after, KeepBelow
<1>4. ASSUME NEW id \in LogId, purge(id)
      PROVE i \in DOMAIN log' /\ log'[i] = acked'.log[i]
  <2>1. i >= id.index + 1
    BY <1>4 DEF purge, NextIndex
  <2>2. i \in Int
    BY <1>4, LogMapDef DEF purge, TypeOK, Acked, Index
  <2>3. i >= NextIndex(last_purged_log_id)
    BY <1>4, <2>1, <2>2, NextIndexNat DEF purge, CanPurge, TypeOK, LogId, Index, NextIndex
  <2>4. i \in DOMAIN log /\ log[i] = acked.log[i]
    BY <1>4, <2>3 DEF purge, AckedInMirror
  <2> QED BY <1>4, <2>1, <2>4 DEF purge, KeepFrom
<1>5. ASSUME NEW id \in LogId, save_committed(id)
      PROVE i \in DOMAIN log' /\ log'[i] = acked'.log[i]
  BY <1>5 DEF save_committed, AckedInMirror
<1>6. ASSUME NEW v \in Ranks, save_vote(v)
      PROVE i \in DOMAIN log' /\ log'[i] = acked'.log[i]
  BY <1>6 DEF save_vote, AckedInMirror
<1>7. CASE persist_hard_state
  BY <1>7 DEF persist_hard_state, Mirror, inner, AckedInMirror
<1>8. CASE persist_log
  BY <1>8 DEF persist_log, Mirror, inner
<1>9. CASE PersistFails
  BY <1>9 DEF PersistFails
<1>10. CASE Crash
  BY <1>10 DEF Crash
<1>11. CASE UNCHANGED vars
  BY <1>11 DEF vars, AckedInMirror
<1> QED
  BY <1>1, <1>2, <1>3, <1>4, <1>5, <1>6, <1>7, <1>8, <1>9, <1>10, <1>11 DEF Next

\* The order of votes is reflexive and transitive.
LEMMA VoteLeqRefl == \A v \in OptVote : VoteLeq(v, v)
BY DEF VoteLeq, OptVote

LEMMA VoteLeqTrans ==
    ASSUME NEW u \in OptVote, NEW v \in OptVote, NEW w \in OptVote,
           VoteLeq(u, v), VoteLeq(v, w)
    PROVE  VoteLeq(u, w)
BY DEF VoteLeq, OptVote

\* A call in progress only moves the marks of the mirror forward.
LEMMA MarksForward ==
    ASSUME IInv, status = "open"
    PROVE  /\ VoteLeq(hard_state.vote, vote)
           /\ NextIndex(hard_state.committed) <= NextIndex(committed)
           /\ NextIndex(hard_state.last_purged_log_id) <= NextIndex(last_purged_log_id)
<1> USE DEF IInv, TypeOK, HardState
<1>1. /\ NextIndex(hard_state.committed) \in Nat
      /\ NextIndex(committed) \in Nat
      /\ NextIndex(hard_state.last_purged_log_id) \in Nat
      /\ NextIndex(last_purged_log_id) \in Nat
  BY NextIndexNat
<1>2. VoteLeq(vote, vote)
  BY VoteLeqRefl
<1>3. CASE todo \in {"nothing", "log"}
  BY <1>1, <1>2, <1>3 DEF Pending, HardStateOfMirror
<1>4. CASE todo = "hard"
  BY <1>1, <1>2, <1>4 DEF Pending, CommitPending, VotePending, CanCommit, NextIndex, LogId, Index
<1>5. CASE todo = "all"
  BY <1>1, <1>2, <1>5 DEF Pending, AppendPending, PurgePending, CanPurge, NextIndex, LogId, Index
<1> QED
  BY <1>3, <1>4, <1>5 DEF Todo

\* No step takes back in the files what a caller was told is stored.
LEMMA AckedSurvivesStep == IInv /\ [Next]_vars => AckedSurvives'
<1> SUFFICES ASSUME IInv, [Next]_vars PROVE AckedSurvives'
  OBVIOUS
<1> USE DEF IInv
<1>0. AckedSurvives /\ UNCHANGED <<files, acked>> => AckedSurvives'
  BY DEF AckedSurvives, files
<1>a. /\ NextIndex(hard_state.committed) \in Nat
      /\ NextIndex(committed) \in Nat
      /\ NextIndex(hard_state.last_purged_log_id) \in Nat
      /\ NextIndex(last_purged_log_id) \in Nat
      /\ NextIndex(acked.committed) \in Nat
      /\ NextIndex(acked.last_purged_log_id) \in Nat
  BY NextIndexNat DEF TypeOK, HardState, Acked
<1>b. VoteLeq(vote, vote) /\ VoteLeq(hard_state.vote, hard_state.vote)
  BY VoteLeqRefl DEF TypeOK, HardState
<1>1. CASE open
  BY <1>1, <1>a, <1>b DEF open, files, AckedSurvives, TypeOK, HardState
<1>2. ASSUME NEW e \in Batches, append(e) PROVE AckedSurvives'
  BY <1>0, <1>2 DEF append, files
<1>3. ASSUME NEW s \in Index, truncate_after(s) PROVE AckedSurvives'
  <2>1. /\ acked'.log = KeepBelow(acked.log, s)
        /\ acked'.vote = acked.vote
        /\ acked'.committed = acked.committed
        /\ acked'.last_purged_log_id = acked.last_purged_log_id
    BY <1>3 DEF truncate_after, TypeOK, Acked
  <2> QED
    BY <1>3, <2>1 DEF truncate_after, files, AckedSurvives, KeepBelow
<1>4. ASSUME NEW id \in LogId, purge(id) PROVE AckedSurvives'
  BY <1>0, <1>4 DEF purge, files
<1>5. ASSUME NEW id \in LogId, save_committed(id) PROVE AckedSurvives'
  BY <1>0, <1>5 DEF save_committed, files
<1>6. ASSUME NEW v \in Ranks, save_vote(v) PROVE AckedSurvives'
  BY <1>0, <1>6 DEF save_vote, files
<1>7. CASE persist_hard_state
  <2>1. status = "open"
    BY <1>7 DEF persist_hard_state, Pending
  <2>2. CASE todo = "hard"
    BY <1>7, <2>1, <2>2, <1>a, <1>b
    DEF persist_hard_state, Pending, AckedSurvives, Mirror, HardStateOfMirror
  <2>3. CASE todo = "all"
    <3>1. VoteLeq(acked.vote, vote)
      BY <2>1, MarksForward, VoteLeqTrans DEF AckedSurvives, TypeOK, HardState, Acked
    <3>2. /\ NextIndex(acked.committed) <= NextIndex(committed)
          /\ NextIndex(acked.last_purged_log_id) <= NextIndex(last_purged_log_id)
      BY <2>1, <1>a, MarksForward DEF AckedSurvives
    <3>3. ASSUME NEW i \in DOMAIN acked.log, i >= NextIndex(last_purged_log_id)
          PROVE  i \in DOMAIN log_file /\ log_file[i] = acked.log[i]
      <4>1. i \in Int
        BY LogMapDef DEF TypeOK, Acked, Index
      <4> QED
        BY <3>3, <4>1, <2>1, <1>a, MarksForward DEF AckedSurvives
    <3> QED
      BY <1>7, <2>3, <3>1, <3>2, <3>3 DEF persist_hard_state, AckedSurvives, HardStateOfMirror
  <2> QED BY <1>7, <2>2, <2>3 DEF persist_hard_state
<1>8. CASE persist_log
  <2>1. status = "open" /\ hard_state = HardStateOfMirror
    BY <1>8 DEF persist_log, Pending
  <2> QED
    BY <1>8, <2>1, <1>a, <1>b DEF persist_log, AckedSurvives, Mirror, HardStateOfMirror
<1>9. CASE PersistFails
  BY <1>0, <1>9 DEF PersistFails
<1>10. CASE Crash
  BY <1>0, <1>10 DEF Crash
<1>11. CASE UNCHANGED vars
  BY <1>0, <1>11 DEF vars, files
<1> QED
  BY <1>1, <1>2, <1>3, <1>4, <1>5, <1>6, <1>7, <1>8, <1>9, <1>10, <1>11 DEF Next

\* IInv is an invariant of the store.
THEOREM Inductive == Spec => []IInv
<1>1. IInv /\ [Next]_vars => IInv'
  BY TypeStep, PendingStep, AckedInMirrorStep, AckedSurvivesStep DEF IInv
<1> QED
  BY IInvInit, <1>1, PTL DEF Spec

\* Durability of what was acknowledged: votes, marks and entries that append,
\* save_vote, save_committed and purge reported stored are still in the files
\* whatever kills, failed rewrites and reopenings follow.
THEOREM Durable == Spec => []AckedSurvives
<1>1. IInv => AckedSurvives
  BY DEF IInv
<1> QED
  BY Inductive, <1>1, PTL

\* A call that returned Ok has left its whole effect in the two files.
THEOREM Flushed == Spec => []MirrorsFiles
<1>1. IInv => MirrorsFiles
  BY DEF IInv, Pending, MirrorsFiles, Ready
<1> QED
  BY Inductive, <1>1, PTL

-----------------------------------------------------------------------------
(***************************************************************************)
(* The files implement the durable store.                                  *)
(***************************************************************************)

\* Both stores are built from the same operators.
LEMMA SameSets == /\ Stored!Index = Index
                  /\ Stored!LogId = LogId
                  /\ Stored!Batches = Batches
                  /\ Stored!EmptyLog = EmptyLog
BY DEF Stored!Index, Index, Stored!LogId, LogId, Stored!Batches, Batches, Stored!EmptyLog, EmptyLog

\* The same for the operators on maps and marks.
LEMMA SameOperators ==
    ASSUME NEW f, NEW p, NEW c, NEW e, NEW s, NEW id, NEW v, NEW w
    PROVE  /\ Stored!NextIndex(p) = NextIndex(p)
           /\ Stored!InsertAll(f, e) = InsertAll(f, e)
           /\ Stored!KeepFrom(f, s) = KeepFrom(f, s)
           /\ Stored!KeepBelow(f, s) = KeepBelow(f, s)
           /\ Stored!CanAppend(f, p, e) <=> CanAppend(f, p, e)
           /\ Stored!CanTruncate(f, p, c, s) <=> CanTruncate(f, p, c, s)
           /\ Stored!CanPurge(f, p, id) <=> CanPurge(f, p, id)
           /\ Stored!CanCommit(f, p, c, id) <=> CanCommit(f, p, c, id)
           /\ Stored!VoteLeq(v, w) <=> VoteLeq(v, w)
<1>1. \A q : Stored!NextIndex(q) = NextIndex(q)
  BY DEF Stored!NextIndex, NextIndex
<1>2. /\ Stored!InsertAll(f, e) = InsertAll(f, e)
      /\ Stored!KeepFrom(f, s) = KeepFrom(f, s)
      /\ Stored!KeepBelow(f, s) = KeepBelow(f, s)
  BY DEF Stored!InsertAll, InsertAll, Stored!KeepFrom, KeepFrom, Stored!KeepBelow, KeepBelow
<1>3. \A a : /\ Stored!IsNextIndex(f, p, a) <=> IsNextIndex(f, p, a)
             /\ Stored!TermsGrow(f, p, e, a) <=> TermsGrow(f, p, e, a)
  BY <1>1 DEF Stored!IsNextIndex, IsNextIndex, Stored!TermsGrow, TermsGrow
<1>4. Stored!CanAppend(f, p, e) <=> CanAppend(f, p, e)
  BY <1>3, SameSets DEF Stored!CanAppend, CanAppend
<1>5. /\ Stored!CanTruncate(f, p, c, s) <=> CanTruncate(f, p, c, s)
      /\ Stored!CanPurge(f, p, id) <=> CanPurge(f, p, id)
      /\ Stored!CanCommit(f, p, c, id) <=> CanCommit(f, p, c, id)
      /\ Stored!VoteLeq(v, w) <=> VoteLeq(v, w)
  BY <1>1 DEF Stored!CanTruncate, CanTruncate, Stored!CanPurge, CanPurge,
              Stored!CanCommit, CanCommit, Stored!VoteLeq, VoteLeq
<1> QED BY <1>1, <1>2, <1>4, <1>5

\* Every step of the file store is a step of the durable store on what the files
\* hold, or leaves it alone.
LEMMA StoredStep == IInv /\ [Next]_vars => [Stored!DurableNext]_(Stored!vars)
<1> SUFFICES ASSUME IInv, [Next]_vars PROVE [Stored!DurableNext]_(Stored!vars)
  OBVIOUS
<1> USE DEF IInv
<1>0. UNCHANGED files => UNCHANGED Stored!vars
  BY DEF files, Stored!vars
<1>1. CASE open
  BY <1>0, <1>1 DEF open, files
<1>2. ASSUME NEW e \in Batches, append(e) PROVE UNCHANGED files
  BY <1>2 DEF append
<1>3. ASSUME NEW s \in Index, truncate_after(s) PROVE UNCHANGED files
  BY <1>3 DEF truncate_after
<1>4. ASSUME NEW id \in LogId, purge(id) PROVE UNCHANGED files
  BY <1>4 DEF purge
<1>5. ASSUME NEW id \in LogId, save_committed(id) PROVE UNCHANGED files
  BY <1>5 DEF save_committed
<1>6. ASSUME NEW v \in Ranks, save_vote(v) PROVE UNCHANGED files
  BY <1>6 DEF save_vote
<1>7. CASE persist_hard_state
  <2>1. /\ status = "open"
        /\ hard_state' = HardStateOfMirror
        /\ log_file' = log_file
    BY <1>7 DEF persist_hard_state, Pending
  <2>2. CASE todo = "hard" /\ CommitPending
    <3>1. /\ hard_state'.last_purged_log_id = hard_state.last_purged_log_id
          /\ hard_state'.vote = hard_state.vote
          /\ hard_state'.committed = committed
      BY <2>1, <2>2 DEF Pending, CommitPending, HardStateOfMirror
    <3>2. CanCommit(log_file, hard_state.last_purged_log_id, hard_state.committed, committed)
      BY <2>1, <2>2 DEF Pending, CommitPending
    <3>3. Stored!save_committed(committed)
      BY <2>1, <3>1, <3>2, SameOperators DEF Stored!save_committed
    <3> QED BY <2>2, <3>3, SameSets DEF Stored!DurableNext, Stored!WholeCall, CommitPending
  <2>3. CASE todo = "hard" /\ VotePending
    <3>1. /\ hard_state'.last_purged_log_id = hard_state.last_purged_log_id
          /\ hard_state'.committed = hard_state.committed
          /\ hard_state'.vote = vote
      BY <2>1, <2>3 DEF Pending, VotePending, HardStateOfMirror
    <3>2. Stored!save_vote(vote)
      BY <2>1, <2>3, <3>1, SameOperators DEF Stored!save_vote, VotePending
    <3> QED BY <2>3, <3>2, SameSets DEF Stored!DurableNext, Stored!WholeCall, VotePending
  <2>4. CASE todo = "all" /\ AppendPending
    <3>1. hard_state' = hard_state
      BY <2>1, <2>4 DEF Pending, AppendPending, HardStateOfMirror, TypeOK, HardState
    <3> QED BY <1>0, <2>1, <3>1 DEF files
  <2>5. CASE todo = "all" /\ PurgePending
    <3>1. /\ hard_state'.last_purged_log_id = last_purged_log_id
          /\ hard_state'.committed = hard_state.committed
          /\ hard_state'.vote = hard_state.vote
      BY <2>1, <2>5 DEF Pending, HardStateOfMirror
    <3>2. /\ last_purged_log_id \in LogId
          /\ CanPurge(log_file, hard_state.last_purged_log_id, last_purged_log_id)
      BY <2>5 DEF PurgePending
    <3>3. Stored!purge_mark(last_purged_log_id)
      BY <2>1, <3>1, <3>2, SameOperators DEF Stored!purge_mark
    <3> QED BY <3>2, <3>3, SameSets DEF Stored!DurableNext
  <2> QED BY <1>7, <2>1, <2>2, <2>3, <2>4, <2>5 DEF persist_hard_state, Pending
<1>8. CASE persist_log
  <2>1. /\ status = "open"
        /\ hard_state' = hard_state
        /\ log_file' = log
        /\ hard_state.last_purged_log_id = last_purged_log_id
        /\ hard_state.committed = committed
    BY <1>8 DEF persist_log, Pending, HardStateOfMirror
  <2>2. CASE AppendPending
    <3>1. PICK e \in Batches : /\ CanAppend(log_file, last_purged_log_id, e)
                               /\ log = InsertAll(log_file, e)
      BY <2>2 DEF AppendPending
    <3>2. Stored!append(e)
      BY <2>1, <3>1, SameOperators DEF Stored!append
    <3> QED BY <3>2, SameSets DEF Stored!DurableNext, Stored!WholeCall
  <2>3. CASE PurgeHalfDone
    <3>1. NextIndex(last_purged_log_id) = last_purged_log_id.index + 1
      BY <2>3 DEF PurgeHalfDone, NextIndex
    <3>2. Stored!purge_entries
      BY <2>1, <2>3, <3>1, SameOperators DEF Stored!purge_entries, PurgeHalfDone
    <3> QED BY <3>2 DEF Stored!DurableNext
  <2>4. CASE TruncatePending
    <3>1. PICK s \in Index : /\ CanTruncate(log_file, last_purged_log_id, committed, s)
                             /\ log = KeepBelow(log_file, s)
      BY <2>4 DEF TruncatePending
    <3>2. Stored!truncate_after(s)
      BY <2>1, <3>1, SameOperators DEF Stored!truncate_after
    <3> QED BY <3>2, SameSets DEF Stored!DurableNext, Stored!WholeCall
  <2> QED BY <1>8, <2>1, <2>2, <2>3, <2>4 DEF persist_log, Pending
<1>9. CASE PersistFails
  BY <1>0, <1>9 DEF PersistFails
<1>10. CASE Crash
  BY <1>0, <1>10 DEF Crash
<1>11. CASE UNCHANGED vars
  BY <1>0, <1>11 DEF vars, files
<1> QED
  BY <1>0, <1>1, <1>2, <1>3, <1>4, <1>5, <1>6, <1>7, <1>8, <1>9, <1>10, <1>11 DEF Next

\* The initial files hold what a new store holds.
LEMMA StoredInit == Init => Stored!Init
BY SameSets DEF Init, Stored!Init, DefaultHardState

\* The memory store's copies are the same, too.
LEMMA MemorySets == /\ Memory!Index = Index
                    /\ Memory!LogId = LogId
                    /\ Memory!Batches = Batches
BY DEF Memory!Index, Index, Memory!LogId, LogId, Memory!Batches, Batches

\* And so are its operators.
LEMMA MemoryOperators ==
    ASSUME NEW f, NEW p, NEW c, NEW e, NEW s, NEW id, NEW v, NEW w
    PROVE  /\ Memory!InsertAll(f, e) = InsertAll(f, e)
           /\ Memory!KeepFrom(f, s) = KeepFrom(f, s)
           /\ Memory!KeepBelow(f, s) = KeepBelow(f, s)
           /\ Memory!CanAppend(f, p, e) <=> CanAppend(f, p, e)
           /\ Memory!CanTruncate(f, p, c, s) <=> CanTruncate(f, p, c, s)
           /\ Memory!CanPurge(f, p, id) <=> CanPurge(f, p, id)
           /\ Memory!CanCommit(f, p, c, id) <=> CanCommit(f, p, c, id)
           /\ Memory!VoteLeq(v, w) <=> VoteLeq(v, w)
<1>1. \A q : Memory!NextIndex(q) = NextIndex(q)
  BY DEF Memory!NextIndex, NextIndex
<1>2. /\ Memory!InsertAll(f, e) = InsertAll(f, e)
      /\ Memory!KeepFrom(f, s) = KeepFrom(f, s)
      /\ Memory!KeepBelow(f, s) = KeepBelow(f, s)
  BY DEF Memory!InsertAll, InsertAll, Memory!KeepFrom, KeepFrom, Memory!KeepBelow, KeepBelow
<1>3. \A a : /\ Memory!IsNextIndex(f, p, a) <=> IsNextIndex(f, p, a)
             /\ Memory!TermsGrow(f, p, e, a) <=> TermsGrow(f, p, e, a)
  BY <1>1 DEF Memory!IsNextIndex, IsNextIndex, Memory!TermsGrow, TermsGrow
<1>4. Memory!CanAppend(f, p, e) <=> CanAppend(f, p, e)
  BY <1>3, MemorySets DEF Memory!CanAppend, CanAppend
<1>5. /\ Memory!CanTruncate(f, p, c, s) <=> CanTruncate(f, p, c, s)
      /\ Memory!CanPurge(f, p, id) <=> CanPurge(f, p, id)
      /\ Memory!CanCommit(f, p, c, id) <=> CanCommit(f, p, c, id)
      /\ Memory!VoteLeq(v, w) <=> VoteLeq(v, w)
  BY <1>1 DEF Memory!CanTruncate, CanTruncate, Memory!CanPurge, CanPurge,
              Memory!CanCommit, CanCommit, Memory!VoteLeq, VoteLeq
<1> QED BY <1>1, <1>2, <1>4, <1>5

\* Every call on an open store is a step of the memory store on the mirror, and
\* its rewrites leave the mirror alone.
LEMMA MirrorSteps == [Next]_vars => MirrorStep
<1> SUFFICES ASSUME [Next]_vars, status # "down", status' # "down"
             PROVE  Memory!Next \/ UNCHANGED inner
  BY DEF MirrorStep
<1> USE MemorySets DEF inner, Memory!Next, Memory!WholeCall
<1>1. ASSUME NEW entries \in Batches, append(entries) PROVE Memory!Next
  <2>1. Memory!append(entries)
    BY <1>1, MemoryOperators DEF append, Memory!append
  <2> QED BY <2>1, <1>1
<1>2. ASSUME NEW start \in Index, truncate_after(start) PROVE Memory!Next
  <2>1. Memory!truncate_after(start)
    BY <1>2, MemoryOperators DEF truncate_after, Memory!truncate_after
  <2> QED BY <2>1, <1>2
<1>3. ASSUME NEW id \in LogId, purge(id) PROVE Memory!Next
  <2>1. Memory!purge(id)
    BY <1>3, MemoryOperators DEF purge, Memory!purge
  <2> QED BY <2>1, <1>3
<1>4. ASSUME NEW id \in LogId, save_committed(id) PROVE Memory!Next
  <2>1. Memory!save_committed(id)
    BY <1>4, MemoryOperators DEF save_committed, Memory!save_committed
  <2> QED BY <2>1, <1>4
<1>5. ASSUME NEW v \in Ranks, save_vote(v) PROVE Memory!Next
  <2>1. Memory!save_vote(v)
    BY <1>5, MemoryOperators DEF save_vote, Memory!save_vote
  <2> QED BY <2>1, <1>5
<1>6. CASE open \/ Crash
  BY <1>6 DEF open, Crash
<1>7. CASE persist_hard_state \/ persist_log \/ PersistFails
  BY <1>7 DEF persist_hard_state, persist_log, PersistFails
<1>8. CASE UNCHANGED vars
  BY <1>8 DEF vars
<1> QED BY <1>1, <1>2, <1>3, <1>4, <1>5, <1>6, <1>7, <1>8 DEF Next

\* Refinement: hard_state.json and log.json, as open reads them back, go through
\* exactly the states of the durable store, so a kill between two rewrites
\* leaves the result of a whole number of calls, and at most a purge whose mark
\* is stored and whose entries are still there; and while the process lives its
\* FileLogInner goes through states of the memory store.
THEOREM Refinement == Spec => ImplementsLogStore
<1>1. Spec => Stored!Init
  BY StoredInit DEF Spec
<1>2. Spec => [][Stored!DurableNext]_(Stored!vars)
  BY Inductive, StoredStep, PTL DEF Spec
<1>3. Spec => [][MirrorStep]_vars
  BY MirrorSteps, PTL DEF Spec
<1> QED
  BY <1>1, <1>2, <1>3 DEF ImplementsLogStore, Stored!DurableSpec

-----------------------------------------------------------------------------
(***************************************************************************)
(* Whatever was interrupted, the files hold a log to restart from.         *)
(***************************************************************************)

\* Appending keeps a log restartable.
LEMMA AppendRestartable ==
    ASSUME NEW f \in LogMap, NEW p \in OptLogId, NEW c \in OptLogId, NEW e,
           Restartable(p, f, c), CanAppend(f, p, e)
    PROVE  Restartable(p, InsertAll(f, e), c)
<1> DEFINE g == InsertAll(f, e)
<1>1. PICK a \in Index, b \in Index :
        /\ IsNextIndex(f, p, a)
        /\ e \in [a .. b -> Terms]
        /\ TermsGrow(f, p, e, a)
  BY DEF CanAppend
<1>2. NextIndex(p) \in Nat /\ a \in Nat /\ b \in Nat
  BY NextIndexNat DEF Index
<1>3. /\ DOMAIN e = a .. b
      /\ \A i \in DOMAIN e : e[i] \in Nat
      /\ \A i \in DOMAIN f : i \in Nat /\ i < a /\ f[i] \in Nat
  BY <1>1, LogMapDef DEF IsNextIndex, Index
<1>4. /\ DOMAIN g = DOMAIN f \cup DOMAIN e
      /\ \A i \in DOMAIN e : g[i] = e[i]
      /\ \A i \in DOMAIN f : g[i] = f[i]
  <2>1. DOMAIN g = DOMAIN f \cup DOMAIN e
    BY DEF InsertAll
  <2>2. \A i \in DOMAIN e : g[i] = e[i]
    BY DEF InsertAll
  <2>3. \A i \in DOMAIN f : i \notin DOMAIN e
    BY <1>2, <1>3
  <2>4. \A i \in DOMAIN f : g[i] = f[i]
    BY <2>3 DEF InsertAll
  <2> QED BY <2>1, <2>2, <2>4
<1>5. CASE DOMAIN f = {}
  <2>1. a = NextIndex(p)
    BY <1>1, <1>5 DEF IsNextIndex
  <2>2. NoHoles(p, g)
    BY <2>1, <1>2, <1>3, <1>4, <1>5 DEF NoHoles, Index
  <2>3. Sorted(g)
    BY <1>1, <1>4, <1>5 DEF Sorted, TermsGrow
  <2>4. CommitReached(p, g, c)
    BY <1>4 DEF Restartable, CommitReached
  <2> QED BY <2>2, <2>3, <2>4 DEF Restartable
<1>6. CASE (a - 1) \in DOMAIN f
  <2>1. \A j \in Index : j < a /\ (NextIndex(p) <= j \/ \E k \in DOMAIN f : k <= j)
            => j \in DOMAIN f
    BY <1>2, <1>3, <1>6 DEF Restartable, NoHoles, Index
  <2>2. \A j \in Index : j >= a /\ (\E i \in DOMAIN g : j <= i) => j \in DOMAIN g
    BY <1>2, <1>3, <1>4 DEF Index
  <2>3. \A k \in DOMAIN g : k \in Nat
    BY <1>2, <1>3, <1>4
  <2>4. ASSUME NEW i \in DOMAIN g, NEW j \in Index, NextIndex(p) <= j, j <= i
        PROVE  j \in DOMAIN g
    BY <2>1, <2>2, <2>4, <1>2, <1>4 DEF Index
  <2>5. ASSUME NEW i \in DOMAIN g, NEW k \in DOMAIN g, NEW j \in Index, k <= j, j <= i
        PROVE  j \in DOMAIN g
    <3>1. CASE j >= a
      BY <2>2, <2>5, <3>1
    <3>2. CASE j < a
      <4>1. k \in DOMAIN f
        BY <1>2, <1>3, <1>4, <2>5, <3>2 DEF Index
      <4> QED BY <2>1, <2>5, <3>2, <4>1, <1>4
    <3> QED BY <3>1, <3>2, <1>2 DEF Index
  <2>6. NoHoles(p, g)
    BY <2>4, <2>5 DEF NoHoles
  <2>7. ASSUME NEW i \in DOMAIN g, NEW j \in DOMAIN g, i <= j PROVE g[i] <= g[j]
    <3>1. CASE i \in DOMAIN f /\ j \in DOMAIN f
      BY <3>1, <2>7, <1>4 DEF Restartable, Sorted
    <3>2. CASE i \in DOMAIN e /\ j \in DOMAIN e
      BY <3>2, <2>7, <1>1, <1>4 DEF TermsGrow
    <3>3. CASE i \in DOMAIN e /\ j \in DOMAIN f
      BY <3>3, <2>7, <1>2, <1>3
    <3>4. CASE i \in DOMAIN f /\ j \in DOMAIN e
      <4>1. f[i] <= f[a - 1]
        BY <3>4, <1>2, <1>3, <1>6 DEF Restartable, Sorted
      <4>2. f[a - 1] <= e[j]
        BY <3>4, <1>6, <1>1 DEF TermsGrow
      <4> QED BY <3>4, <4>1, <4>2, <1>3, <1>4, <1>6
    <3> QED BY <3>1, <3>2, <3>3, <3>4, <1>4
  <2>8. CommitReached(p, g, c)
    BY <1>4 DEF Restartable, CommitReached
  <2> QED BY <2>6, <2>7, <2>8 DEF Restartable, Sorted
<1> QED BY <1>1, <1>5, <1>6 DEF IsNextIndex

\* Truncating above the commit mark keeps a log restartable.
LEMMA TruncateRestartable ==
    ASSUME NEW f \in LogMap, NEW p \in OptLogId, NEW c \in OptLogId, NEW s \in Index,
           Restartable(p, f, c), CanTruncate(f, p, c, s)
    PROVE  Restartable(p, KeepBelow(f, s), c)
<1> DEFINE g == KeepBelow(f, s)
<1>1. /\ DOMAIN g = {j \in DOMAIN f : j < s}
      /\ \A i \in DOMAIN g : g[i] = f[i]
      /\ \A i \in DOMAIN f : i \in Nat
      /\ NextIndex(p) \in Nat /\ s \in Nat
  BY LogMapDef, NextIndexNat DEF KeepBelow, Index
<1>2. NoHoles(p, g)
  BY <1>1 DEF Restartable, NoHoles, Index
<1>3. Sorted(g)
  BY <1>1 DEF Restartable, Sorted
<1>4. CommitReached(p, g, c)
  <2>1. CASE NextIndex(c) <= NextIndex(p)
    BY <2>1 DEF CommitReached
  <2>2. CASE c.index \in DOMAIN f /\ c \in LogId
    BY <2>2, <1>1 DEF CommitReached, CanTruncate, NextIndex, LogId, Index
  <2>3. CASE c = None
    BY <2>3, <1>1 DEF CommitReached, NextIndex
  <2> QED BY <2>1, <2>2, <2>3 DEF Restartable, CommitReached, OptLogId
<1> QED BY <1>2, <1>3, <1>4 DEF Restartable

\* Moving the purge mark keeps a log restartable, whatever is below the mark.
LEMMA MarkRestartable ==
    ASSUME NEW f \in LogMap, NEW p \in OptLogId, NEW c \in OptLogId, NEW id \in LogId,
           Restartable(p, f, c), CanPurge(f, p, id)
    PROVE  Restartable(id, f, c)
<1>1. /\ NextIndex(p) \in Nat /\ NextIndex(c) \in Nat /\ NextIndex(id) \in Nat
      /\ NextIndex(p) <= NextIndex(id)
  BY NextIndexNat DEF CanPurge, NextIndex, OptLogId, LogId, Index
<1>2. NoHoles(id, f)
  BY <1>1 DEF Restartable, NoHoles, Index
<1>3. CommitReached(id, f, c)
  BY <1>1 DEF Restartable, CommitReached
<1> QED BY <1>2, <1>3 DEF Restartable

\* Removing the entries at or below the mark keeps a log restartable.
LEMMA DropRestartable ==
    ASSUME NEW f \in LogMap, NEW p \in OptLogId, NEW c \in OptLogId, Restartable(p, f, c)
    PROVE  Restartable(p, KeepFrom(f, NextIndex(p)), c)
<1> DEFINE g == KeepFrom(f, NextIndex(p))
<1>1. /\ DOMAIN g = {j \in DOMAIN f : j >= NextIndex(p)}
      /\ \A i \in DOMAIN g : g[i] = f[i]
      /\ \A i \in DOMAIN f : i \in Nat
      /\ NextIndex(p) \in Nat
  BY LogMapDef, NextIndexNat DEF KeepFrom, Index
<1>2. NoHoles(p, g)
  BY <1>1 DEF Restartable, NoHoles, Index
<1>3. Sorted(g)
  BY <1>1 DEF Restartable, Sorted
<1>4. CommitReached(p, g, c)
  <2>1. CASE NextIndex(c) <= NextIndex(p)
    BY <2>1 DEF CommitReached
  <2>2. CASE c.index \in DOMAIN f /\ c \in LogId
    BY <2>2, <1>1 DEF CommitReached, NextIndex, LogId, Index
  <2>3. CASE c = None
    BY <2>3, <1>1 DEF CommitReached, NextIndex
  <2> QED BY <2>1, <2>2, <2>3 DEF Restartable, CommitReached, OptLogId
<1> QED BY <1>2, <1>3, <1>4 DEF Restartable

\* Every step of the durable store on the files keeps them restartable.
LEMMA RecoverableStep ==
    TypeOK /\ Recoverable /\ [Stored!DurableNext]_(Stored!vars) => Recoverable'
<1> SUFFICES ASSUME TypeOK, Recoverable, [Stored!DurableNext]_(Stored!vars)
             PROVE  Recoverable'
  OBVIOUS
<1> USE SameSets, SameOperators
<1>1. /\ hard_state.last_purged_log_id \in OptLogId
      /\ hard_state.committed \in OptLogId
      /\ log_file \in LogMap
  BY DEF TypeOK, HardState
<1>2. ASSUME NEW e \in Batches, Stored!append(e) PROVE Recoverable'
  BY <1>1, <1>2, AppendRestartable DEF Stored!append, Recoverable
<1>3. ASSUME NEW s \in Index, Stored!truncate_after(s) PROVE Recoverable'
  BY <1>1, <1>3, TruncateRestartable DEF Stored!truncate_after, Recoverable
<1>4. ASSUME NEW id \in LogId, Stored!purge_mark(id) PROVE Recoverable'
  BY <1>1, <1>4, MarkRestartable DEF Stored!purge_mark, Recoverable
<1>5. CASE Stored!purge_entries
  BY <1>1, <1>5, DropRestartable DEF Stored!purge_entries, Recoverable
<1>6. ASSUME NEW id \in LogId, Stored!save_committed(id) PROVE Recoverable'
  BY <1>1, <1>6 DEF Stored!save_committed, Recoverable, Restartable, CommitReached, CanCommit
<1>7. ASSUME NEW v \in Ranks, Stored!save_vote(v) PROVE Recoverable'
  BY <1>7 DEF Stored!save_vote, Recoverable
<1>8. CASE UNCHANGED Stored!vars
  BY <1>8 DEF Stored!vars, Recoverable
<1> QED
  BY <1>2, <1>3, <1>4, <1>5, <1>6, <1>7, <1>8 DEF Stored!DurableNext, Stored!WholeCall

\* Crash consistency: at every moment of every call the two files, as open reads
\* them back, hold a log without holes, in term order, reaching the commit mark.
THEOREM CrashConsistent == Spec => []Recoverable
<1>1. Init => Recoverable
  BY DEF Init, DefaultHardState, Recoverable, Restartable, NoHoles, Sorted, EmptyLog,
         CommitReached, NextIndex
<1>2. IInv /\ Recoverable /\ [Next]_vars => Recoverable'
  BY StoredStep, RecoverableStep DEF IInv
<1> QED
  BY Inductive, <1>1, <1>2, PTL DEF Spec
=============================================================================
