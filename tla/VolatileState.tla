---------------------------- MODULE VolatileState ----------------------------
(***************************************************************************)
(* The unstable part of a Raft log (raftcore/volatile_state.cpp): an       *)
(* optional snapshot waiting to be made durable, a deque of entries, and   *)
(* m_offset, the index the first of those entries should have.             *)
(*                                                                         *)
(* An entry is its index and its term; payload and entry type are never    *)
(* looked at by this code.  A shared_ptr that is null is NoSnapshot.  A    *)
(* method that fills a result only when it returns true returns Absent     *)
(* here when it returns false.                                             *)
(*                                                                         *)
(* `status' says how the process fares: "running"; "panicked" after        *)
(* Logger::Panic, which exits; "undefined" once C++ leaves the result of a *)
(* step open (a read or an erase outside a deque), after which nothing is  *)
(* claimed; "aborted" when an assert of a caller fails.                    *)
(*                                                                         *)
(* A definition whose name ends in _mutant is the definition after it with *)
(* a plausible mistake; it shows that a property depends on that code, and *)
(* nothing uses it.                                                        *)
(***************************************************************************)
EXTENDS Integers, Sequences

CONSTANTS Terms,       \* terms the caller's entries and snapshots may carry
          MaxIndex,    \* highest log index a caller uses (a bound)
          MaxBatch,    \* most entries one Append call carries (a bound)
          NoSnapshot   \* the null shared_ptr<Snapshot>

Entries   == [index : 1 .. MaxIndex, term : Terms]
Snapshots == [index : 1 .. MaxIndex, term : Terms]   \* m_snapshot_metadata

ASSUME VolatileAssumption ==
  /\ Terms \subseteq Nat
  /\ MaxIndex \in Nat
  /\ MaxBatch \in Nat
  /\ NoSnapshot \notin Snapshots

VARIABLES m_snapshot, m_entries, m_offset, status

vars == <<m_snapshot, m_entries, m_offset, status>>

Absent  == -1   \* the method returned false
Garbage == -2   \* the method read outside its deque

Statuses == {"running", "panicked", "undefined", "aborted"}

TypeOK ==
  /\ m_snapshot \in Snapshots \cup {NoSnapshot}
  /\ m_entries \in Seq(Entries)
  /\ m_offset \in 1 .. MaxIndex + 1
  /\ status \in Statuses

-----------------------------------------------------------------------------
(* Reads *)

FirstHeld == m_entries[1].index               \* m_entries.begin()->m_index
EndHeld   == m_entries[Len(m_entries)].index  \* m_entries.rbegin()->m_index
NextIndex == m_offset + Len(m_entries)        \* import_first_index_should_be

LastIndex ==
  IF m_entries # <<>> THEN EndHeld
  ELSE IF m_snapshot # NoSnapshot THEN m_snapshot.index
  ELSE Absent

TermOf_mutant(i) ==    \* without the test against local_end_index
  IF m_entries # <<>> /\ i >= FirstHeld
  THEN IF i - FirstHeld < Len(m_entries)
       THEN m_entries[i - FirstHeld + 1].term
       ELSE Garbage
  ELSE IF m_snapshot # NoSnapshot /\ m_snapshot.index = i
  THEN m_snapshot.term
  ELSE Absent

(* The deque is indexed by distance from its first entry: when the indexes *)
(* in it are not consecutive the slot can lie beyond its end.              *)
TermOf(i) ==
  IF m_entries # <<>> /\ i \in FirstHeld .. EndHeld
  THEN IF i - FirstHeld < Len(m_entries)
       THEN m_entries[i - FirstHeld + 1].term
       ELSE Garbage
  ELSE IF m_snapshot # NoSnapshot /\ m_snapshot.index = i
  THEN m_snapshot.term
  ELSE Absent

FirstUnstableIndex ==
  IF m_snapshot # NoSnapshot THEN m_snapshot.index + 1 ELSE Absent

-----------------------------------------------------------------------------
(* Updates *)

Init ==
  /\ m_snapshot = NoSnapshot
  /\ m_entries = <<>>
  /\ m_offset = 1
  /\ status = "running"

Fail(how) ==
  /\ status' = how
  /\ UNCHANGED <<m_snapshot, m_entries, m_offset>>

(* The local entries whose index is below `first', and the number of local *)
(* entries that the truncating branch of Append keeps.                     *)
EntriesBelow(first) == first - m_offset
Preserve_mutant(first) == EndHeld - first + 1
Preserve(first) == EndHeld - first

(* Append's last branch: entries that start inside, or beyond, the ones    *)
(* held.  rbegin() of an empty deque and an erase that starts beyond the   *)
(* end are undefined; a gap after the last entry held is a Panic.          *)
ImportInside(new) ==
  LET first == new[1].index IN
  \/ /\ m_entries = <<>>
     /\ Fail("undefined")
  \/ /\ m_entries # <<>>
     /\ first > EndHeld
     /\ Fail("panicked")
  \/ /\ m_entries # <<>>
     /\ first <= EndHeld
     /\ Preserve(first) > Len(m_entries)
     /\ Fail("undefined")
  \/ /\ m_entries # <<>>
     /\ first <= EndHeld
     /\ Preserve(first) <= Len(m_entries)
     /\ m_entries' = SubSeq(m_entries, 1, Preserve(first)) \o new
     /\ UNCHANGED <<m_snapshot, m_offset, status>>

ImportAtEnd(new) ==
  /\ m_entries' = m_entries \o new
  /\ UNCHANGED <<m_snapshot, m_offset, status>>

ImportFromFront_mutant(new) ==    \* m_offset is left alone
  /\ m_entries' = new
  /\ UNCHANGED <<m_snapshot, m_offset, status>>

ImportFromFront(new) ==
  /\ m_entries' = new
  /\ m_offset' = new[1].index
  /\ UNCHANGED <<m_snapshot, status>>

Import_mutant(new) ==    \* `<' where the code has `<='
  LET first == new[1].index IN
  \/ first = NextIndex /\ ImportAtEnd(new)
  \/ first # NextIndex /\ first < m_offset /\ ImportFromFront(new)
  \/ first # NextIndex /\ first >= m_offset /\ ImportInside(new)

Import(new) ==
  LET first == new[1].index IN
  \/ first = NextIndex /\ ImportAtEnd(new)
  \/ first # NextIndex /\ first <= m_offset /\ ImportFromFront(new)
  \/ first # NextIndex /\ first > m_offset /\ ImportInside(new)

(* Append(entries, offset): the first `skip' entries are left out.         *)
AppendEntries(ents, skip) ==
  /\ status = "running"
  /\ \/ skip >= Len(ents) /\ UNCHANGED vars
     \/ skip < Len(ents) /\ Import(SubSeq(ents, skip + 1, Len(ents)))

(* ClearEntriesBefore(index, term): forget the entries up to `index', if   *)
(* the entry there still has the term the caller saw.                      *)
RemoveThrough_mutant(i) == SubSeq(m_entries, i - FirstHeld + 1, Len(m_entries))

RemoveThrough(i) == SubSeq(m_entries, i - FirstHeld + 2, Len(m_entries))

ClearEntriesBefore(i, t) ==
  /\ status = "running"
  /\ \/ TermOf(i) = Garbage /\ Fail("undefined")
     \/ TermOf(i) \notin {t, Garbage} /\ UNCHANGED vars
     \/ /\ TermOf(i) = t
        /\ m_entries = <<>>
        /\ Fail("undefined")
     \/ /\ TermOf(i) = t
        /\ m_entries # <<>>
        /\ i \notin FirstHeld .. EndHeld
        /\ UNCHANGED vars
     \/ /\ TermOf(i) = t
        /\ m_entries # <<>>
        /\ i \in FirstHeld .. EndHeld
        /\ m_entries' = RemoveThrough(i)
        /\ m_offset' = i + 1
        /\ UNCHANGED <<m_snapshot, status>>

ClearSnapshot(i) ==
  /\ status = "running"
  /\ m_snapshot' = IF m_snapshot # NoSnapshot /\ m_snapshot.index = i
                   THEN NoSnapshot ELSE m_snapshot
  /\ UNCHANGED <<m_entries, m_offset, status>>

OffsetAfter_mutant(snap) == IF snap = NoSnapshot THEN 1 ELSE snap.index + 2

OffsetAfter(snap) == IF snap = NoSnapshot THEN 1 ELSE snap.index + 1

Load_mutant(snap) ==    \* the entries are not cleared
  /\ status = "running"
  /\ m_snapshot' = snap
  /\ m_offset' = OffsetAfter(snap)
  /\ UNCHANGED <<m_entries, status>>

Load(snap) ==
  /\ status = "running"
  /\ m_snapshot' = snap
  /\ m_entries' = <<>>
  /\ m_offset' = OffsetAfter(snap)
  /\ UNCHANGED status

SetOffset(offset) ==
  /\ status = "running"
  /\ m_offset' = offset
  /\ UNCHANGED <<m_snapshot, m_entries, status>>

-----------------------------------------------------------------------------
(* The callers.  A batch is a run of consecutive entries, which is what a  *)
(* leader sends and what RaftLog::Append passes on.                        *)

Batch(first, terms) ==
  [k \in DOMAIN terms |-> [index |-> first + k - 1, term |-> terms[k]]]

(* SetOffset is called once, on a new object, by the RaftLog constructor.  *)
SetInitialOffset ==
  /\ m_snapshot = NoSnapshot /\ m_entries = <<>> /\ m_offset = 1
  /\ \E offset \in 2 .. MaxIndex + 1 : SetOffset(offset)

AppendCall ==
  \E first \in 1 .. MaxIndex, n \in 1 .. MaxBatch, skip \in 0 .. MaxBatch :
    \E terms \in [1 .. n -> Terms] :
      /\ first + n - 1 <= MaxIndex
      /\ skip <= n
      /\ AppendEntries(Batch(first, terms), skip)

ClearEntriesCall ==
  \E i \in 1 .. MaxIndex, t \in Terms : ClearEntriesBefore(i, t)

ClearSnapshotCall == \E i \in 1 .. MaxIndex : ClearSnapshot(i)

LoadCall == \E snap \in Snapshots \cup {NoSnapshot} : Load(snap)

Next ==
  \/ SetInitialOffset
  \/ AppendCall
  \/ ClearEntriesCall
  \/ ClearSnapshotCall
  \/ LoadCall

(* Any caller of the public methods.                                       *)
Spec == Init /\ [][Next]_vars

(* The calls after which nothing has gone wrong yet:                       *)
(*  - an Append starts above the pending snapshot, leaves no gap, and does *)
(*    not start inside the local entries at a place where the truncation   *)
(*    keeps a wrong number of them;                                        *)
(*  - a pending snapshot is made durable before the entries after it.      *)
OnContract(first) ==
  /\ first <= NextIndex
  /\ m_snapshot # NoSnapshot => first > m_snapshot.index
  /\ m_offset < first /\ first < NextIndex
       => Preserve(first) = EntriesBelow(first)

ContractAppendCall ==
  \E first \in 1 .. MaxIndex, n \in 1 .. MaxBatch, skip \in 0 .. MaxBatch :
    \E terms \in [1 .. n -> Terms] :
      /\ first + n - 1 <= MaxIndex
      /\ skip < n
      /\ OnContract(first + skip)
      /\ AppendEntries(Batch(first, terms), skip)

ContractClearEntriesCall == m_snapshot = NoSnapshot /\ ClearEntriesCall

ContractNext ==
  \/ SetInitialOffset
  \/ ContractAppendCall
  \/ ContractClearEntriesCall
  \/ ClearSnapshotCall
  \/ LoadCall

ContractSpec == Init /\ [][ContractNext]_vars

-----------------------------------------------------------------------------
(* Properties *)

(* The deque holds consecutive indexes from m_offset on, which is what     *)
(* TermOf's arithmetic and Append's first test rely on.                    *)
Contiguous ==
  \A k \in 1 .. Len(m_entries) : m_entries[k].index = m_offset + k - 1

(* Exactly when the truncating branch of Append (volatile_state.cpp:109)   *)
(* leaves a contiguous log: when the batch starts at the midpoint of the   *)
(* entries held.  Anywhere else it drops entries below the batch or keeps  *)
(* some that the batch replaces.                                           *)
CutRule ==
  [][\A first \in 1 .. MaxIndex, n \in 1 .. MaxBatch :
       \A terms \in [1 .. n -> Terms] :
         (/\ Contiguous
          /\ first + n - 1 <= MaxIndex
          /\ m_offset < first /\ first < NextIndex
          /\ AppendEntries(Batch(first, terms), 0))
         => (Contiguous' <=> 2 * first = m_offset + EndHeld)]_vars

(* The only ways into undefined behaviour: a method that looks at the ends *)
(* of an empty deque, or one that trusts a deque which an earlier          *)
(* truncation has left with a gap or a repetition.                         *)
UndefinedCauses ==
  [][status # "undefined" /\ status' = "undefined"
       => m_entries = <<>> \/ ~Contiguous]_vars

(* Callers that keep the contract never meet a Panic or undefined          *)
(* behaviour, however their appends, acknowledgements and snapshots        *)
(* interleave.                                                             *)
ContractSafe == status = "running"

(* A reported last index is the end of the log: an acknowledged write must *)
(* not make the log look as if it ended at the pending snapshot.           *)
LastIndexIsEnd == LastIndex \in {Absent, NextIndex - 1}

(* The abstract unstable log this component promises to its callers.       *)
HeldTerms == [k \in 1 .. Len(m_entries) |-> m_entries[k].term]

Abstract == INSTANCE UnstableLog WITH
              base <- m_offset, terms <- HeldTerms, snapshot <- m_snapshot

(* The deque code implements it for callers that keep the contract.        *)
ImplementsUnstableLog == Abstract!Spec
=============================================================================
