-------------------------------- MODULE RaftLog --------------------------------
(***************************************************************************)
(* The log of one Raft node (raftcore/raftlog.cpp): a VolatileState over a *)
(* MemoryStorage, with the commit and applied indexes.  The storage is a   *)
(* shared_ptr whose other owner may apply a snapshot to it at any time.    *)
(*                                                                         *)
(* Asserts says whether the build keeps its assert()s: the CMakeLists.txt  *)
(* sets no build type, so by default it does; a release build does not.    *)
(*                                                                         *)
(* Indexes are uint64_t.  One difference of two of them passes through an  *)
(* int (AppendOffset), so Replication assumes that none is above 2^31; the *)
(* limit of an int is a constant.  Names that end in _mutant are as in     *)
(* VolatileState.                                                          *)
(***************************************************************************)
EXTENDS Integers, Sequences

CONSTANTS Terms, MaxIndex, NoSnapshot,
          Asserts,     \* TRUE when NDEBUG is not defined
          IntLimit     \* an int is below this: 2^31 in the code

ASSUME BuildAssumption == Asserts \in BOOLEAN /\ IntLimit \in Nat \ {0}

VARIABLES
  v_snapshot, v_entries, v_offset,   \* the VolatileState
  s_snapshot, s_entries,             \* the MemoryStorage
  m_commit, m_applied,
  status                             \* as in VolatileState

volatileVars == <<v_snapshot, v_entries, v_offset>>
storageVars  == <<s_snapshot, s_entries>>
indexVars    == <<m_commit, m_applied>>
logVars      == <<volatileVars, storageVars, indexVars, status>>

VS == INSTANCE VolatileState WITH
        m_snapshot <- v_snapshot, m_entries <- v_entries,
        m_offset <- v_offset, MaxBatch <- MaxIndex

MS == INSTANCE MemoryStorage WITH
        m_snapshot <- s_snapshot, m_entries <- s_entries

-----------------------------------------------------------------------------
(* Reads *)

TermOf(i) == IF VS!TermOf(i) # VS!Absent THEN VS!TermOf(i) ELSE MS!TermOf(i)

Match_mutant(i, t) == TermOf(i) # VS!Absent

Match(i, t) == TermOf(i) = t

FirstIndex ==
  IF VS!FirstUnstableIndex # VS!Absent THEN VS!FirstUnstableIndex
  ELSE MS!FirstIndex

LastIndex == IF VS!LastIndex # VS!Absent THEN VS!LastIndex ELSE MS!LastIndex

FindConflict_mutant(ents) == IF ents = <<>> THEN 0 ELSE ents[1].index

(* The index of the first entry the log does not have, 0 if it has all.    *)
FindConflict(ents) ==
  LET missing == {k \in DOMAIN ents : ~Match(ents[k].index, ents[k].term)}
  IN  IF missing = {} THEN 0
      ELSE ents[CHOOSE k \in missing : \A j \in missing : k <= j].index

-----------------------------------------------------------------------------
(* Updates *)

(* The constructor: a log over the storage it is given.                    *)
Constructed ==
  /\ v_snapshot = NoSnapshot
  /\ v_entries = <<>>
  /\ v_offset = MS!LastIndex + 1
  /\ m_commit = MS!FirstIndex - 1
  /\ m_applied = MS!FirstIndex - 1
  /\ status = "running"

Construct ==
  /\ v_snapshot' = NoSnapshot
  /\ v_entries' = <<>>
  /\ v_offset' = MS!LastIndex' + 1
  /\ m_commit' = MS!FirstIndex' - 1
  /\ m_applied' = MS!FirstIndex' - 1
  /\ status' = "running"

Fail(how) ==
  /\ status' = how
  /\ UNCHANGED <<volatileVars, storageVars, indexVars>>

(* A uint64_t difference as an int.                                        *)
AsInt(n) ==
  LET low == n % (2 * IntLimit)
  IN  IF low < IntLimit THEN low ELSE low - 2 * IntLimit

AppendOffset_mutant(conflict, ents) == AsInt(conflict - ents[1].index + 1)

(* How many entries of a message that has some are to be skipped.  Without *)
(* a conflict it is -ents[0].m_index, cut to an int: negative up to 2^31,  *)
(* and any other number of 31 bits for indexes above that.                 *)
AppendOffset(conflict, ents) == AsInt(conflict - ents[1].index)

(* offset >= ents.size(), where a negative int becomes a huge size.        *)
SkipsAll(ents, offset) == offset < 0 \/ offset >= Len(ents)

(* AppendToVolatileState with the m_commit assignment that follows it.     *)
AppendToVolatileState(ents, offset, commit) ==
  \/ /\ SkipsAll(ents, offset)
     /\ m_commit' = commit
     /\ UNCHANGED <<volatileVars, storageVars, m_applied, status>>
  \/ /\ ~SkipsAll(ents, offset)
     /\ Asserts /\ ents[1].index <= m_commit
     /\ Fail("aborted")
  \/ /\ ~SkipsAll(ents, offset)
     /\ ~Asserts \/ ents[1].index > m_commit
     /\ VS!AppendEntries(ents, offset)
     /\ m_commit' = IF status' = "running" THEN commit ELSE m_commit
     /\ UNCHANGED <<storageVars, m_applied>>

CommitUnbounded_mutant(last_index, commit, ents) == commit

CommitLast_mutant(last_index, commit, ents) == last_index + Len(ents)

CommitAfter(last_index, commit, ents) ==
  IF commit < last_index + Len(ents) THEN commit ELSE last_index + Len(ents)

AcceptEntries_mutant(last_index, commit, ents) ==    \* no assert on line 93
  LET conflict == FindConflict(ents) IN
  \/ /\ conflict # 0
     /\ TermOf(conflict) = VS!Garbage
     /\ Fail("undefined")
  \/ ents = <<>> /\ Fail("undefined")
  \/ /\ conflict # 0 => TermOf(conflict) # VS!Garbage
     /\ ents # <<>>
     /\ AppendToVolatileState(ents, AppendOffset(conflict, ents),
                              CommitAfter(last_index, commit, ents))

(* A message whose entries overlap the log: what follows a matching        *)
(* (last_index, last_term).  Line 94 reads the index of ents[0]; if there  *)
(* is none, that is outside the deque.  (The conflict is taken from a set, *)
(* so that TLC looks for it once.)                                         *)
AcceptEntries(last_index, commit, ents) ==
  \E conflict \in {FindConflict(ents)} :
  \/ /\ conflict # 0
     /\ TermOf(conflict) = VS!Garbage
     /\ Fail("undefined")
  \/ /\ conflict # 0 => TermOf(conflict) # VS!Garbage
     /\ Asserts /\ conflict <= m_commit
     /\ Fail("aborted")
  \/ /\ conflict # 0 => TermOf(conflict) # VS!Garbage
     /\ ~Asserts \/ conflict > m_commit
     /\ \/ ents = <<>> /\ Fail("undefined")
        \/ /\ ents # <<>>
           /\ AppendToVolatileState(ents, AppendOffset(conflict, ents),
                                    CommitAfter(last_index, commit, ents))

AppendMessage_mutant(last_index, last_term, commit, ents) ==
  /\ status = "running"    \* a refused message, too, sets the commit index
  /\ \/ /\ TermOf(last_index) \notin {last_term, VS!Garbage}
        /\ m_commit' = CommitAfter(last_index, commit, ents)
        /\ UNCHANGED <<volatileVars, storageVars, m_applied, status>>
     \/ /\ Match(last_index, last_term)
        /\ AcceptEntries(last_index, commit, ents)

(* RaftLog::Append.                                                        *)
AppendMessage(last_index, last_term, commit, ents) ==
  /\ status = "running"
  /\ \/ TermOf(last_index) = VS!Garbage /\ Fail("undefined")
     \/ TermOf(last_index) \notin {last_term, VS!Garbage} /\ UNCHANGED logVars
     \/ /\ Match(last_index, last_term)
        /\ AcceptEntries(last_index, commit, ents)

SetCommit(commit) ==
  /\ m_commit' = commit
  /\ UNCHANGED <<volatileVars, storageVars, m_applied, status>>

SetApplied(applied) ==
  /\ status = "running"
  /\ m_applied' = applied
  /\ UNCHANGED <<volatileVars, storageVars, m_commit, status>>

(* The other owner of the storage applies a snapshot under a live log.     *)
ApplySnapshot(snap) ==
  /\ status = "running"
  /\ MS!ApplySnapshot(snap)
  /\ UNCHANGED <<volatileVars, indexVars, status>>

(* The owner discards the log, or its process ends in whatever way, and a  *)
(* new RaftLog is built: over a storage with the snapshot its owner kept,  *)
(* or over a new MemoryStorage.  All volatile entries are gone.            *)
Restart ==
  /\ UNCHANGED storageVars \/ MS!Renew
  /\ Construct

-----------------------------------------------------------------------------
(* An append that reaches the truncating branch of the volatile log at a   *)
(* place where it keeps a wrong number of entries (VolatileState!CutRule). *)
Miscuts(last_index, last_term, ents) ==
  LET conflict == FindConflict(ents) IN
  /\ Match(last_index, last_term)
  /\ conflict # 0
  /\ v_offset < conflict /\ conflict < VS!NextIndex
  /\ VS!Preserve(conflict) # VS!EntriesBelow(conflict)
=============================================================================
