------------------------------ MODULE Replication ------------------------------
(***************************************************************************)
(* One follower's RaftLog fed by the leaders of a Raft cluster.            *)
(*                                                                         *)
(* The follower is the code: every change to its log is an action of       *)
(* RaftLog.  The leaders are not in the repository (no node of this code   *)
(* ever becomes one); they are modelled from what RaftLog::Append takes    *)
(* from them, with the guarantees Raft gives: one leader per term, an      *)
(* append-only log per leader, a commit index that covers only entries     *)
(* chosen by a majority, and every later leader having all chosen entries. *)
(*                                                                         *)
(* Messages need no variable: whatever a leader has sent is a slice of its *)
(* log with a commit index it has had, so Deliver takes any slice of any   *)
(* leader's log at any time.  Loss, delay, duplication and reordering are  *)
(* all in that choice.                                                     *)
(***************************************************************************)
EXTENDS RaftLog

CONSTANT MaxTerm    \* number of elections (a bound)

ASSUME ReplicationAssumption ==
  /\ MaxIndex \in Nat
  /\ MaxTerm \in Nat \ {0}
  /\ Terms = 1 .. MaxTerm
  /\ NoSnapshot \notin VS!Snapshots

(* No index is above 2^31.  Far above, the entries of a message that is    *)
(* delivered again can be appended again (AppendOffset).                   *)
ASSUME IndexAssumption == MaxIndex <= IntLimit

VARIABLES
  leaderLog,      \* leaderLog[t]: the terms of the entries of term t's leader
  leaderCommit,   \* leaderCommit[t]: the commit index that leader knows
  chosen,         \* how many entries the cluster has committed
  m_cur_term      \* the highest term the follower has followed

leaderVars == <<leaderLog, leaderCommit, chosen>>
allVars    == <<logVars, leaderVars, m_cur_term>>

LeaderTerm == Len(leaderLog)

(* The entries chosen so far are the same in the log of every later leader. *)
ChosenTerm(i) == leaderLog[LeaderTerm][i]

TypeOK ==
  /\ VS!TypeOK
  /\ v_snapshot = NoSnapshot
  /\ s_snapshot \in VS!Snapshots \cup {NoSnapshot}
  /\ s_entries \in [1 .. 1 -> [index : 0 .. MaxIndex, term : 0 .. MaxTerm]]
  /\ m_commit \in 0 .. MaxIndex
  /\ m_applied \in 0 .. MaxIndex
  /\ leaderLog \in Seq(Seq(Terms))
  /\ leaderCommit \in [1 .. LeaderTerm -> 0 .. MaxIndex]
  /\ chosen \in 0 .. MaxIndex
  /\ m_cur_term \in 0 .. MaxTerm

Init ==
  /\ MS!Init
  /\ Constructed
  /\ leaderLog = <<<<>>>>
  /\ leaderCommit = <<0>>
  /\ chosen = 0
  /\ m_cur_term = 0

-----------------------------------------------------------------------------
(* The leaders *)

Propose(t) ==
  /\ Len(leaderLog[t]) < MaxIndex
  /\ leaderLog' = [leaderLog EXCEPT ![t] = Append(@, t)]
  /\ UNCHANGED <<leaderCommit, chosen, m_cur_term, logVars>>

(* A majority has the last leader's log up to an entry of its own term.    *)
Commit(i) ==
  /\ i \in leaderCommit[LeaderTerm] + 1 .. Len(leaderLog[LeaderTerm])
  /\ leaderLog[LeaderTerm][i] = LeaderTerm
  /\ leaderCommit' = [leaderCommit EXCEPT ![LeaderTerm] = i]
  /\ chosen' = IF i > chosen THEN i ELSE chosen
  /\ UNCHANGED <<leaderLog, m_cur_term, logVars>>

(* A node with a prefix of some leader's log that has every chosen entry   *)
(* becomes the leader of the next term; it may know an old commit index.   *)
Elect(t, n, c) ==
  /\ LeaderTerm < MaxTerm
  /\ n \in chosen .. Len(leaderLog[t])
  /\ \A i \in 1 .. chosen : leaderLog[t][i] = ChosenTerm(i)
  /\ leaderLog' = Append(leaderLog, SubSeq(leaderLog[t], 1, n))
  /\ leaderCommit' = Append(leaderCommit, c)
  /\ UNCHANGED <<chosen, m_cur_term, logVars>>

LeaderStep ==
  \/ \E t \in 1 .. LeaderTerm : Propose(t)
  \/ \E i \in 1 .. MaxIndex : Commit(i)
  \/ \E t \in 1 .. LeaderTerm, n \in 0 .. MaxIndex, c \in 0 .. chosen :
       Elect(t, n, c)

-----------------------------------------------------------------------------
(* The follower *)

(* What a MsgApp of term t carries: the entries after prev, and a commit   *)
(* index (m_index, m_entries, m_commit; m_log_term is PrevTerm).           *)
Messages(t) ==
  LET n == Len(leaderLog[t]) IN
  {m \in [prev : 0 .. n, count : 0 .. n, commit : 0 .. leaderCommit[t]] :
     m.prev + m.count <= n}

PrevTerm(t, m) == IF m.prev = 0 THEN 0 ELSE leaderLog[t][m.prev]

MessageEntries(t, m) ==
  [k \in 1 .. m.count |->
     [index |-> m.prev + k, term |-> leaderLog[t][m.prev + k]]]

(* A MsgApp arrives; messages of earlier terms are not for the log.        *)
Deliver(t, m) ==
  /\ t >= m_cur_term
  /\ m_cur_term' = t
  /\ UNCHANGED leaderVars
  /\ AppendMessage(m.prev, PrevTerm(t, m), m.commit, MessageEntries(t, m))

MessageMiscuts(t, m) ==
  Miscuts(m.prev, PrevTerm(t, m), MessageEntries(t, m))

(* The owner applies entries of the log that it says are committed.        *)
Apply ==
  /\ \E i \in m_applied + 1 .. m_commit : i <= LastIndex /\ SetApplied(i)
  /\ UNCHANGED <<leaderVars, m_cur_term>>

(* The owner of the storage applies a snapshot of chosen entries, perhaps  *)
(* one that was delayed or sent twice.                                     *)
ChosenSnapshot(i) == [index |-> i, term |-> ChosenTerm(i)]

InstallSnapshot(i) ==
  /\ ApplySnapshot(ChosenSnapshot(i))
  /\ UNCHANGED <<leaderVars, m_cur_term>>

(* The term a node knows is not in the storage either, so it starts at 0.  *)
RestartFollower ==
  /\ Restart
  /\ m_cur_term' = 0
  /\ UNCHANGED leaderVars

(* The owner gives a storage with a newer snapshot to a new log.           *)
RestoreFromSnapshot(i) ==
  /\ status = "running"
  /\ MS!ApplySnapshot(ChosenSnapshot(i))
  /\ Construct
  /\ UNCHANGED <<leaderVars, m_cur_term>>

(* A log object ends and another one takes its place.                      *)
Rebuild == RestartFollower \/ \E i \in 1 .. chosen : RestoreFromSnapshot(i)

Next ==
  \/ LeaderStep
  \/ \E t \in 1 .. LeaderTerm : \E m \in Messages(t) : Deliver(t, m)
  \/ Apply
  \/ \E i \in 1 .. chosen : InstallSnapshot(i)
  \/ Rebuild

Spec == Init /\ [][Next]_allVars

(* The behaviours up to the first step that one of two known defects       *)
(* spoils: a truncation that keeps a wrong number of entries, and a        *)
(* snapshot, other than one of applied entries, that is put into the       *)
(* storage under a log already built over it.                              *)
GuardedStep ==
  \/ \E t \in 1 .. LeaderTerm : \E m \in Messages(t) :
       ~MessageMiscuts(t, m) /\ Deliver(t, m)
  \/ Apply
  \/ \E i \in 1 .. chosen : i <= m_applied /\ InstallSnapshot(i)

GuardedNext == LeaderStep \/ GuardedStep \/ Rebuild

GuardedSpec == Init /\ [][GuardedNext]_allVars

-----------------------------------------------------------------------------
(* Properties *)

(* Whatever the order in which legal messages come, none with entries      *)
(* makes the code panic or leave C++'s defined behaviour (TermOf, Append   *)
(* and erase on the volatile deque; ents[0] on raftlog.cpp:94).  One that  *)
(* matches and has none does the latter, in a build without asserts.       *)
OnlyEmptyMessagesFail ==
  [][status' \in {"panicked", "undefined"} =>
       \A t \in 1 .. LeaderTerm : \A m \in Messages(t) :
         m.count > 0 => ~Deliver(t, m)]_allVars

(* Log matching: an entry the follower holds comes with every entry before *)
(* it from the log of the leader that created it.                          *)
LogMatching ==
  \A i \in 1 .. LastIndex :
    VS!TermOf(i) \in Terms =>
      \A j \in 1 .. i :
        VS!TermOf(j) \in Terms => VS!TermOf(j) = leaderLog[VS!TermOf(i)][j]

Holds(i) == TermOf(i) # VS!Absent => TermOf(i) = ChosenTerm(i)

(* What the log reports as committed is in the log and is what the cluster *)
(* chose, whatever mixture of leaders, slices and snapshots it came from.  *)
CommittedIsChosen ==
  /\ m_commit <= LastIndex
  /\ m_commit <= chosen
  /\ \A i \in 1 .. m_commit : Holds(i)

(* What the owner applied stays chosen and stays in the log even when a    *)
(* late message makes RaftLog::Append move m_commit below m_applied.       *)
AppliedIsChosen ==
  /\ m_applied <= chosen
  /\ \A i \in 1 .. m_applied : Holds(i)

(* No step of RaftLog::Append or of the storage's owner takes away or      *)
(* rewrites an entry that the log reports as committed; entries below      *)
(* FirstIndex have become the snapshot's.                                  *)
CommittedStable ==
  [][Construct \/ \A i \in FirstIndex' .. m_commit :
                    TermOf(i)' = TermOf(i)]_allVars

(* The messages that a leader may have under way to the follower and that  *)
(* Match accepts.                                                          *)
Acceptable(t, m) == t >= m_cur_term /\ Match(m.prev, PrevTerm(t, m))

(* What raftlog.cpp:93 wants to guard against does not happen: no message  *)
(* under way replaces a committed entry, so its aborts are all spurious.   *)
CommittedNeverContested ==
  \A t \in 1 .. LeaderTerm : \A m \in Messages(t) :
    Acceptable(t, m) => FindConflict(MessageEntries(t, m)) \notin 1 .. m_commit

(* Where the asserts are compiled in, m_commit falls only to the commit    *)
(* index that an older message of a leader carries, never to the end of a  *)
(* short message (raftlog.cpp:95), even below a commit index that was      *)
(* loaded beyond the end of the log.                                       *)
CommitFallsOnlyToOlderCommit ==
  [][m_commit' < m_commit =>
       \A t \in 1 .. LeaderTerm : \A m \in Messages(t) :
         Deliver(t, m) => m_commit' = m.commit]_allVars

(* raftlog.cpp:93 asserts that a message has an entry the log lacks, above *)
(* the commit index.  (Messages without entries are left out here.)        *)
ConflictAssertHolds ==
  \A t \in 1 .. LeaderTerm : \A m \in Messages(t) :
    Acceptable(t, m) /\ m.count > 0
      => FindConflict(MessageEntries(t, m)) > m_commit

(* raftlog.cpp:81 asserts that the first entry of a message that passed    *)
(* the other assert is above the commit index.                             *)
OffsetAssertHolds ==
  \A t \in 1 .. LeaderTerm : \A m \in Messages(t) :
    Acceptable(t, m) /\ FindConflict(MessageEntries(t, m)) > m_commit
      => m.prev + 1 > m_commit

(* Both asserts are to hold at all times: a state in which legal messages  *)
(* fail the one and the other refutes both.                                *)
AnAssertHolds == ConflictAssertHolds \/ OffsetAssertHolds

(* VolatileState::Append panics on a gap between the entries held and the  *)
(* ones that come in, so the entries held follow each other.               *)
NoGaps == VS!Contiguous

(* The log that its owner sees: what TermOf answers for every index.       *)
View ==
  LET term == [i \in 0 .. MaxIndex |-> TermOf(i)]
  IN  [i \in {j \in 0 .. MaxIndex : term[j] # VS!Absent} |-> term[i]]

FL == INSTANCE FollowerLog WITH
        log <- View, commit <- m_commit, applied <- m_applied

(* The deque, its offset and the durable placeholder behind it act as one  *)
(* log: a message of any leader, however late, changes only the end that   *)
(* is not committed, and leaves there what it carries.                     *)
ImplementsFollowerLog == FL!Spec
=============================================================================
