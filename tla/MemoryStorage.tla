---------------------------- MODULE MemoryStorage ----------------------------
(***************************************************************************)
(* The durable part of a Raft log (raftcore/memory_storage.cpp): the last  *)
(* snapshot applied and a deque whose first entry is a placeholder at the  *)
(* snapshot's index and term.  Nothing in the code adds an entry after the *)
(* placeholder or writes the hard state, so the storage never holds more   *)
(* than a snapshot.  Names that end in _mutant are as in VolatileState.     *)
(***************************************************************************)
EXTENDS Integers, Sequences

CONSTANT NoSnapshot   \* the null shared_ptr<Snapshot>

VARIABLES m_snapshot, m_entries

Absent == -1   \* the method returned false

Init ==
  /\ m_snapshot = NoSnapshot
  /\ m_entries = <<[index |-> 0, term |-> 0]>>

(* A new MemoryStorage takes the place of this one.                        *)
Renew ==
  /\ m_snapshot' = NoSnapshot
  /\ m_entries' = <<[index |-> 0, term |-> 0]>>

FirstIndex == m_entries[1].index + 1
LastIndex_mutant == m_entries[1].index + Len(m_entries)

LastIndex  == m_entries[1].index + Len(m_entries) - 1

TermOf_mutant(i) ==    \* refuses the placeholder
  LET slot == i - m_entries[1].index + 1
  IN  IF slot \in 2 .. Len(m_entries) THEN m_entries[slot].term ELSE Absent

TermOf(i) ==
  LET slot == i - m_entries[1].index + 1
  IN  IF slot \in 1 .. Len(m_entries) THEN m_entries[slot].term ELSE Absent

(* ApplySnapshot refuses a snapshot older than the one it has.             *)
TooOld(snap) == m_snapshot # NoSnapshot /\ m_snapshot.index > snap.index

ApplySnapshot(snap) ==
  \/ TooOld(snap) /\ UNCHANGED <<m_snapshot, m_entries>>
  \/ /\ ~TooOld(snap)
     /\ m_snapshot' = snap
     /\ m_entries' = <<[index |-> snap.index, term |-> snap.term]>>
=============================================================================
