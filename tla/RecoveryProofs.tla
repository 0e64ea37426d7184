---------------------------- MODULE RecoveryProofs ----------------------------
(***************************************************************************)
(* Proofs about Recovery: what a follower may rely on when its owner gives *)
(* a hard state to a new log, and what the asserts make of a commit index  *)
(* that is beyond the log.                                                 *)
(***************************************************************************)
EXTENDS Recovery, ReplicationProofs

-----------------------------------------------------------------------------
(* The inductive invariant *)

(* Until the hard state is loaded the log is as it was built.              *)
NewUntilLoaded ==
  ~loaded => v_entries = <<>> /\ m_commit = Stored /\ m_applied = Stored

(* What was saved was true of the cluster then, and so it is now.          *)
SavedOnce ==
  /\ saved.m_term \in 0 .. LeaderTerm
  /\ saved.m_commit \in 0 .. chosen

(* A term is lost only with a hard state that a snapshot has overtaken.    *)
LostBySnapshot ==
  loaded /\ m_cur_term < saved.m_term => saved.m_commit < Stored

RecInv == LogInv /\ NewUntilLoaded /\ SavedOnce /\ LostBySnapshot

(* The invariant holds before anything was saved.                          *)
LEMMA InitRecInv == RecoveryInit => RecInv
<1> SUFFICES ASSUME RecoveryInit PROVE RecInv
  OBVIOUS
<1>1. IInv /\ m_cur_term = 0 /\ chosen = 0 /\ loaded = TRUE
      /\ saved = [m_term |-> 0, m_commit |-> 0]
  BY InitIInv DEF RecoveryInit, Init
<1>2. LogInv /\ LeaderTerm \in Nat
  BY <1>1, FollowerTypes DEF IInv
<1> QED BY <1>1, <1>2 DEF RecInv, NewUntilLoaded, SavedOnce, LostBySnapshot

(* What was saved stays true while the leaders grow.                       *)
LEMMA SavedStays ==
  ASSUME LogInv, LogInv', SavedOnce, Grows, saved' = saved
  PROVE  SavedOnce'
<1>1. LeaderTerm \in Nat /\ chosen \in Nat
  BY FollowerTypes
<1>2. LeaderTerm' \in Nat /\ chosen' \in Nat
  BY LeaderTypesNext DEF LogInv
<1> QED BY <1>1, <1>2 DEF SavedOnce, Grows

(* Handling messages, applying entries and installing snapshots: the term  *)
(* and the snapshot only move up.                                          *)
LEMMA GuardedStepMoves ==
  ASSUME LogInv, GuardedStep
  PROVE  /\ UNCHANGED leaderVars
         /\ m_cur_term <= m_cur_term' /\ Stored <= Stored'
<1>1. m_cur_term \in Nat /\ Stored \in Nat
  BY FollowerTypes
<1>2. ASSUME NEW t \in 1 .. LeaderTerm, NEW m \in Messages(t),
             ~MessageMiscuts(t, m), Deliver(t, m)
      PROVE  UNCHANGED leaderVars /\ m_cur_term <= m_cur_term' /\ Stored' = Stored
  <2>1. /\ m_cur_term <= t /\ m_cur_term' = t /\ UNCHANGED leaderVars
        /\ UNCHANGED storageVars
    BY <1>2, DeliverOutcome DEF logVars, Failed, Took
  <2> QED BY <2>1 DEF storageVars, Stored
<1>3. CASE Apply
  BY <1>1, <1>3, ApplyKeeps DEF storageVars, Stored
<1>4. ASSUME NEW n \in 1 .. chosen, n <= m_applied, InstallSnapshot(n)
      PROVE  UNCHANGED leaderVars /\ m_cur_term' = m_cur_term /\ Stored <= Stored'
  <2>1. UNCHANGED storageVars => Stored' = Stored
    BY DEF storageVars, Stored
  <2> QED BY <1>1, <1>4, <2>1, InstallKeeps
<1> QED BY <1>1, <1>2, <1>3, <1>4 DEF GuardedStep

(* The commit index of a new log may go beyond its end, as far as the      *)
(* cluster has come.                                                       *)
LEMMA LoadKeeps ==
  ASSUME RecInv, LoadSaved
  PROVE  RecInv' /\ End' = End
<1>1. /\ ~loaded /\ loaded' = TRUE /\ saved' = saved /\ LogInv
      /\ v_entries = <<>> /\ m_commit = Stored /\ m_applied = Stored
  BY DEF LoadSaved, RecInv, NewUntilLoaded
<1>2. /\ saved.m_term \in Nat /\ saved.m_commit \in Nat
      /\ saved.m_term \in 0 .. LeaderTerm /\ saved.m_commit <= chosen
      /\ chosen <= MaxIndex /\ MaxIndex \in Nat /\ chosen \in Nat
  BY <1>1, FollowerTypes DEF RecInv, SavedOnce
<1>3. /\ Stored \in Nat /\ v_offset \in Nat /\ Stored < v_offset /\ End = v_offset - 1
      /\ Stored <= chosen
  <2>1. /\ Stored \in Nat /\ v_offset \in Nat /\ Stored <= End /\ Len(v_entries) = 0
    BY <1>1, FollowerTypes, EmptySeq
  <2>2. End = v_offset - 1
    BY <2>1 DEF End
  <2>3. Stored <= chosen
    BY <1>1 DEF LogInv, FollowerInv, CommitSafe
  <2> QED BY <2>1, <2>2, <2>3
<1>4. CASE saved.m_commit < m_commit /\ UNCHANGED allVars
  <2>1. LogInv' /\ End' = End /\ Stored' = Stored
    BY <1>1, <1>4, StutterKeeps DEF allVars, logVars, storageVars, Stored
  <2>2. LeaderTerm' = LeaderTerm /\ chosen' = chosen
    BY <1>4 DEF allVars, leaderVars, LeaderTerm
  <2> QED BY <1>1, <1>4, <2>1, <2>2
          DEF RecInv, NewUntilLoaded, SavedOnce, LostBySnapshot
<1>5. CASE /\ SetCommit(saved.m_commit)
           /\ m_cur_term' = saved.m_term
           /\ UNCHANGED leaderVars
  <2>1. /\ m_commit' = saved.m_commit
        /\ v_snapshot' = v_snapshot /\ v_entries' = v_entries /\ v_offset' = v_offset
        /\ s_snapshot' = s_snapshot /\ s_entries' = s_entries
        /\ m_applied' = m_applied /\ status' = status
        /\ End' = End /\ Stored' = Stored /\ StoredTerm' = StoredTerm
        /\ \A i : HeldTerm(i)' = HeldTerm(i)
    BY <1>5 DEF SetCommit, volatileVars, storageVars, End, Stored, StoredTerm, HeldTerm
  <2>2. /\ leaderCommit' = leaderCommit /\ leaderLog' = leaderLog /\ chosen' = chosen
        /\ LeaderTerm' = LeaderTerm /\ \A i : ChosenTerm(i)' = ChosenTerm(i)
    BY <1>5 DEF leaderVars, LeaderTerm, ChosenTerm
  <2>3. LeaderInv'
    BY <1>1, <1>5, LeadersSame DEF LogInv
  <2>4. saved.m_commit \in 0 .. MaxIndex
    BY <1>2
  <2>5. FollowerTyped'
    BY <1>1, <1>2, <1>5, <2>1, <2>2, <2>4 DEF FollowerTyped, LogInv, FollowerInv
  <2>6. StoredChosen' /\ Seam' /\ HeldFromLeaders'
    BY <1>1, <2>1, <2>2
       DEF StoredChosen, Seam, VS!Contiguous, HeldFromLeaders, LogInv, FollowerInv
  <2>7. CommitSafe'
    <3>1. \A i : i \notin v_offset .. v_offset - 1
      BY <1>3
    <3> QED BY <1>1, <1>2, <1>3, <2>1, <2>2, <3>1 DEF CommitSafe, Justified
  <2>8. LogInv'
    BY <2>3, <2>5, <2>6, <2>7 DEF LogInv, FollowerInv
  <2> QED BY <1>1, <1>2, <1>5, <2>1, <2>2, <2>8
          DEF RecInv, NewUntilLoaded, SavedOnce, LostBySnapshot
<1> QED BY <1>4, <1>5 DEF LoadSaved, LoadState

(* The invariant is inductive.                                             *)
LEMMA NextRecInv == RecInv /\ [RecoveryNext]_recoveryVars => RecInv'
<1> SUFFICES ASSUME RecInv, [RecoveryNext]_recoveryVars PROVE RecInv'
  OBVIOUS
<1>1. LogInv /\ NewUntilLoaded /\ SavedOnce /\ LostBySnapshot
  BY DEF RecInv
<1>2. CASE LeaderStep /\ UNCHANGED <<saved, loaded>>
  <2>1. /\ LogInv' /\ Grows /\ m_cur_term' = m_cur_term
        /\ UNCHANGED logVars
    BY <1>1, <1>2, LeaderStepKeeps
  <2>2. /\ v_entries' = v_entries /\ m_commit' = m_commit /\ m_applied' = m_applied
        /\ Stored' = Stored
    BY <2>1 DEF logVars, volatileVars, indexVars, storageVars, Stored
  <2>3. SavedOnce'
    BY <1>1, <1>2, <2>1, SavedStays
  <2> QED BY <1>1, <1>2, <2>1, <2>2, <2>3 DEF RecInv, NewUntilLoaded, LostBySnapshot
<1>3. CASE loaded /\ GuardedStep /\ UNCHANGED <<saved, loaded>>
  <2>1. LogInv'
    BY <1>1, <1>3, GuardedStepKeeps
  <2>2. UNCHANGED leaderVars /\ m_cur_term <= m_cur_term' /\ Stored <= Stored'
    BY <1>1, <1>3, GuardedStepMoves
  <2>3. SavedOnce'
    BY <1>1, <1>3, <2>1, <2>2, SavedStays, SameGrows DEF LogInv
  <2>4. LostBySnapshot'
    <3>1. /\ m_cur_term \in Nat /\ Stored \in Nat
          /\ saved.m_term \in Nat /\ saved.m_commit \in Nat
      BY <1>1, FollowerTypes DEF SavedOnce
    <3>2. Stored' \in Nat /\ m_cur_term' \in Nat
      <4>1. m_cur_term' \in 0 .. LeaderTerm'
        BY <2>1 DEF LogInv, FollowerInv, FollowerTyped
      <4> QED BY <2>1, <4>1, NumbersNext DEF Numbers
    <3> QED BY <1>1, <1>3, <2>2, <3>1, <3>2 DEF LostBySnapshot
  <2> QED BY <1>3, <2>1, <2>3, <2>4 DEF RecInv, NewUntilLoaded
<1>4. CASE loaded /\ Save
  <2>1. /\ LogInv' /\ m_cur_term' = m_cur_term /\ LeaderTerm' = LeaderTerm
        /\ chosen' = chosen /\ loaded' = loaded
    BY <1>1, <1>4, StutterKeeps DEF Save, allVars, leaderVars, LeaderTerm
  <2>2. saved'.m_term = m_cur_term /\ saved'.m_commit = m_commit
    BY <1>4 DEF Save
  <2>3. /\ m_cur_term \in Nat /\ m_cur_term \in 0 .. LeaderTerm
        /\ m_commit \in Nat /\ m_commit <= chosen /\ chosen \in Nat
    BY <1>1, FollowerTypes DEF LogInv, FollowerInv, FollowerTyped, CommitSafe
  <2>4. m_commit \in 0 .. chosen /\ ~(m_cur_term < m_cur_term)
    BY <2>3
  <2> QED BY <1>4, <2>1, <2>2, <2>3, <2>4
          DEF RecInv, NewUntilLoaded, SavedOnce, LostBySnapshot
<1>5. CASE Rebuild /\ loaded' = FALSE /\ UNCHANGED saved
  <2>1. /\ LogInv' /\ v_entries' = <<>> /\ m_commit' = Stored' /\ m_applied' = Stored'
        /\ UNCHANGED leaderVars
    BY <1>1, <1>5, RebuildKeeps
  <2>2. SavedOnce'
    BY <1>1, <1>5, <2>1, SavedStays, SameGrows DEF LogInv
  <2> QED BY <1>5, <2>1, <2>2 DEF RecInv, NewUntilLoaded, LostBySnapshot
<1>6. CASE LoadSaved
  BY <1>6, LoadKeeps
<1>7. CASE UNCHANGED recoveryVars
  <2>1. UNCHANGED allVars /\ saved' = saved /\ loaded' = loaded
    BY <1>7 DEF recoveryVars
  <2>2. LogInv'
    BY <1>1, <2>1, StutterKeeps
  <2>3. /\ v_entries' = v_entries /\ m_commit' = m_commit /\ m_applied' = m_applied
        /\ Stored' = Stored /\ LeaderTerm' = LeaderTerm /\ chosen' = chosen
        /\ m_cur_term' = m_cur_term
    BY <2>1 DEF allVars, logVars, leaderVars, volatileVars, indexVars, storageVars,
                Stored, LeaderTerm
  <2> QED BY <1>1, <2>1, <2>2, <2>3
          DEF RecInv, NewUntilLoaded, SavedOnce, LostBySnapshot
<1> QED BY <1>2, <1>3, <1>4, <1>5, <1>6, <1>7 DEF RecoveryNext

(* The inductive invariant holds, with and without the asserts.            *)
THEOREM RecoveryInvariant == RecoverySpec => []RecInv
<1>1. RecoveryInit => RecInv
  BY InitRecInv
<1>2. RecInv /\ [RecoveryNext]_recoveryVars => RecInv'
  BY NextRecInv
<1> QED BY <1>1, <1>2, PTL DEF RecoverySpec
-----------------------------------------------------------------------------
(* What a restart may rely on *)

(* It implies that a loaded commit index is one that the cluster reached.  *)
LEMMA InvLoaded == RecInv => LoadedCommitIsChosen
<1> SUFFICES ASSUME RecInv PROVE LoadedCommitIsChosen
  OBVIOUS
<1>1. LogInv
  BY DEF RecInv
<1>2. m_commit \in Nat /\ m_commit <= chosen
  BY <1>1, FollowerTypes DEF LogInv, FollowerInv, CommitSafe
<1>3. \A i \in 1 .. m_commit : Holds(i)
  BY <1>1, <1>2, ReadChosen
<1> QED BY <1>2, <1>3 DEF LoadedCommitIsChosen

(* It implies that only a snapshot makes the owner forget a term.          *)
LEMMA InvTermKept == RecInv => TermKept
<1> SUFFICES ASSUME RecInv, loaded, m_cur_term < saved.m_term
             PROVE  s_snapshot # NoSnapshot /\ s_snapshot.index > saved.m_commit
  BY DEF TermKept
<1>1. saved.m_commit < Stored /\ saved.m_commit \in Nat /\ Stored \in Nat
  BY FollowerTypes DEF RecInv, LostBySnapshot, SavedOnce
<1>2. s_snapshot # NoSnapshot /\ s_snapshot.index = Stored
  <2>1. Stored # 0
    BY <1>1
  <2> QED BY <2>1, StoredTyped DEF RecInv
<1> QED BY <1>1, <1>2

(* A loaded commit index is one that the cluster has reached, and whatever *)
(* comes in below it is what the cluster chose.                            *)
THEOREM LoadedCommitIsChosenHolds == RecoverySpec => []LoadedCommitIsChosen
BY RecoveryInvariant, InvLoaded, PTL

(* A term that was saved is forgotten only when a snapshot has overtaken   *)
(* the commit index that was saved with it.                                *)
THEOREM TermKeptHolds == RecoverySpec => []TermKept
BY RecoveryInvariant, InvTermKept, PTL

(* Nor does a commit index that was loaded without its entries make a      *)
(* message with entries panic or leave C++'s defined behaviour.            *)
THEOREM OnlyEmptyMessagesFailAfterLoad == RecoverySpec => OnlyEmptyMessagesFail
<1>1. RecInv /\ status' \in {"panicked", "undefined"} =>
        \A t \in 1 .. LeaderTerm : \A m \in Messages(t) :
          m.count > 0 => ~Deliver(t, m)
  BY FailsOnEmpty DEF RecInv
<1> QED BY <1>1, RecoveryInvariant, PTL DEF RecoverySpec, OnlyEmptyMessagesFail

-----------------------------------------------------------------------------
(* With the asserts *)

(* A message changes the log only when it has an entry that the log lacks, *)
(* above the commit index.                                                 *)
LEMMA AssertedDeliver ==
  ASSUME LogInv, Asserts, NEW t \in 1 .. LeaderTerm, NEW m \in Messages(t),
         Deliver(t, m)
  PROVE  \/ UNCHANGED <<volatileVars, storageVars, indexVars>>
         \/ /\ Match(m.prev, PrevTerm(t, m))
            /\ \E c \in m.prev + 1 .. m.prev + m.count :
                 m_commit < c /\ v_offset <= c /\ c <= End + 1
            /\ \/ m_commit' = m_commit
               \/ m_commit' = CommitAfter(m.prev, m.commit, MessageEntries(t, m))
<1> DEFINE ents == MessageEntries(t, m)
<1>1. AppendMessage(m.prev, PrevTerm(t, m), m.commit, ents)
  BY DEF Deliver
<1>2. \/ UNCHANGED <<volatileVars, storageVars, indexVars>>
      \/ Match(m.prev, PrevTerm(t, m)) /\ AcceptEntries(m.prev, m.commit, ents)
  BY <1>1 DEF AppendMessage, Fail, logVars
<1>3. CASE Match(m.prev, PrevTerm(t, m)) /\ AcceptEntries(m.prev, m.commit, ents)
  <2>1. PICK c : c = FindConflict(ents)
    OBVIOUS
  <2>2. \/ UNCHANGED <<volatileVars, storageVars, indexVars>>
        \/ /\ c > m_commit
           /\ AppendToVolatileState(ents, AppendOffset(c, ents),
                                    CommitAfter(m.prev, m.commit, ents))
    BY <1>3, <2>1 DEF AcceptEntries, Fail
  <2>3. ASSUME c > m_commit,
               AppendToVolatileState(ents, AppendOffset(c, ents),
                                     CommitAfter(m.prev, m.commit, ents))
        PROVE  \/ UNCHANGED <<volatileVars, storageVars, indexVars>>
               \/ /\ \E d \in m.prev + 1 .. m.prev + m.count :
                       m_commit < d /\ v_offset <= d /\ d <= End + 1
                  /\ \/ m_commit' = m_commit
                     \/ m_commit' = CommitAfter(m.prev, m.commit, ents)
    <3>1. m_commit \in Nat /\ v_offset \in Nat /\ End \in Int
          /\ m.prev \in Nat /\ m.count \in Nat
      BY FollowerTypes, MessageParts
    <3>2. c # 0
      BY <2>3, <3>1
    <3>3. c \in m.prev + 1 .. m.prev + m.count /\ c \in v_offset .. End + 1
      BY <1>3, <2>1, <3>2, Conflict
    <3>4. m_commit < c /\ v_offset <= c /\ c <= End + 1
      BY <2>3, <3>1, <3>3
    <3>5. \/ UNCHANGED <<volatileVars, storageVars, indexVars>>
          \/ m_commit' = m_commit
          \/ m_commit' = CommitAfter(m.prev, m.commit, ents)
      BY <2>3 DEF AppendToVolatileState, Fail
    <3> QED BY <3>3, <3>4, <3>5
  <2> QED BY <1>3, <2>2, <2>3
<1> QED BY <1>2, <1>3

(* A step of a log whose commit index is beyond its end moves neither,     *)
(* unless it builds a new log.                                             *)
LEMMA StepStuck ==
  ASSUME RecInv, RecInv', Asserts, [RecoveryNext]_recoveryVars,
         m_commit > LastIndex, loaded' # FALSE
  PROVE  m_commit' = m_commit /\ LastIndex' = LastIndex
<1>1. /\ LogInv /\ LogInv' /\ m_commit > End /\ m_commit \in Nat /\ End \in Int
      /\ Stored <= End /\ Stored \in Nat
      /\ LastIndex = End /\ LastIndex' = End'
  BY FollowerTypes, ReadsAlways, ReadsNext DEF RecInv, ReadsRight
<1>2. SUFFICES m_commit' = m_commit /\ End' = End
  BY <1>1
<1>3. ASSUME UNCHANGED <<volatileVars, storageVars, indexVars>>
      PROVE  m_commit' = m_commit /\ End' = End
  BY <1>3 DEF volatileVars, indexVars, End
<1>4. CASE LeaderStep
  BY <1>1, <1>4, LeaderStepKeeps
<1>5. ASSUME NEW t \in 1 .. LeaderTerm, NEW m \in Messages(t), Deliver(t, m)
      PROVE  m_commit' = m_commit /\ End' = End
  <2>1. ASSUME NEW c \in m.prev + 1 .. m.prev + m.count, m_commit < c, c <= End + 1
        PROVE  FALSE
    <3>1. m.prev \in Nat /\ m.count \in Nat
      BY MessageParts, <1>1
    <3> QED BY <1>1, <2>1, <3>1
  <2> QED BY <1>1, <1>3, <1>5, <2>1, AssertedDeliver
<1>6. CASE Apply
  BY <1>1, <1>6, ApplyKeeps
<1>7. ASSUME NEW n \in 1 .. chosen, n <= m_applied, InstallSnapshot(n)
      PROVE  m_commit' = m_commit /\ End' = End
  BY <1>1, <1>7, InstallKeeps DEF indexVars
<1>8. CASE UNCHANGED allVars
  BY <1>1, <1>8, StutterKeeps
<1>9. CASE LoadSaved
  <2>1. m_commit = Stored
    BY <1>9 DEF LoadSaved, RecInv, NewUntilLoaded
  <2> QED BY <1>1, <2>1
<1> QED BY <1>4, <1>5, <1>6, <1>7, <1>8, <1>9
        DEF RecoveryNext, GuardedStep, Save, recoveryVars

(* A log whose commit index was loaded beyond its end is stuck until a new *)
(* log takes its place: no message gets past the asserts.                  *)
THEOREM StuckBeyondLogHolds == ASSUME Asserts PROVE RecoverySpec => StuckBeyondLog
<1>1. RecInv /\ RecInv' /\ [RecoveryNext]_recoveryVars
        => (m_commit > LastIndex /\ status = "running"
              => loaded' = FALSE \/ (m_commit' = m_commit /\ LastIndex' = LastIndex))
  BY StepStuck
<1> QED BY <1>1, RecoveryInvariant, PTL DEF RecoverySpec, StuckBeyondLog

(* A message that gets past the asserts and lowers the commit index sets   *)
(* it to its own.                                                          *)
LEMMA FallsToOlder ==
  ASSUME LogInv, Asserts, NEW t \in 1 .. LeaderTerm, NEW m \in Messages(t),
         Deliver(t, m), m_commit' < m_commit
  PROVE  m_commit' = m.commit
<1>1. /\ m_commit \in Nat /\ m.prev \in Nat /\ m.count \in Nat /\ m.commit \in Nat
      /\ Len(MessageEntries(t, m)) = m.count
  BY FollowerTypes, MessageParts
<1>2. ~(m_commit' = m_commit)
  BY <1>1
<1>3. /\ \E c \in m.prev + 1 .. m.prev + m.count : m_commit < c
      /\ m_commit' = CommitAfter(m.prev, m.commit, MessageEntries(t, m))
  BY <1>2, AssertedDeliver DEF indexVars
<1>4. m_commit' = IF m.commit < m.prev + m.count THEN m.commit ELSE m.prev + m.count
  BY <1>1, <1>3 DEF CommitAfter
<1> QED BY <1>1, <1>3, <1>4

(* With the asserts the commit index falls only to the one that an older   *)
(* message carries.                                                        *)
THEOREM CommitFallsOnlyToOlderHolds ==
  ASSUME Asserts PROVE RecoverySpec => CommitFallsOnlyToOlderCommit
<1> DEFINE Older ==
      m_commit' < m_commit =>
        \A t \in 1 .. LeaderTerm : \A m \in Messages(t) :
          Deliver(t, m) => m_commit' = m.commit
<1>1. RecInv => LogInv
  BY DEF RecInv
<1>2. LogInv => Older
  BY FallsToOlder
<1>3. CommitFallsOnlyToOlderCommit <=> [][Older]_allVars
  BY DEF CommitFallsOnlyToOlderCommit
<1> QED BY <1>1, <1>2, <1>3, RecoveryInvariant, PTL
=============================================================================
