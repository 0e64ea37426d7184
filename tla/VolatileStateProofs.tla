-------------------------- MODULE VolatileStateProofs --------------------------
(***************************************************************************)
(* Proofs about VolatileState, for every set of terms, every highest index *)
(* and every batch size: the invariants, and that it implements            *)
(* UnstableLog.                                                            *)
(***************************************************************************)
EXTENDS VolatileState, SequenceTheorems, TLAPS

(* Entries with consecutive indexes from `first' on.                       *)
RunFrom(new, first) ==
  /\ new \in Seq(Entries)
  /\ \A k \in 1 .. Len(new) : new[k].index = first + k - 1

-----------------------------------------------------------------------------
(* What a caller hands over *)

(* The part of a batch that Append does not skip is a run of entries.      *)
LEMMA BatchTail ==
  ASSUME NEW first \in 1 .. MaxIndex, NEW n \in Nat, NEW skip \in Nat,
         NEW terms \in [1 .. n -> Terms],
         first + n - 1 <= MaxIndex, skip < n
  PROVE  /\ Len(Batch(first, terms)) = n
         /\ RunFrom(SubSeq(Batch(first, terms), skip + 1, n), first + skip)
         /\ Len(SubSeq(Batch(first, terms), skip + 1, n)) = n - skip
<1> DEFINE b == Batch(first, terms)
           new == SubSeq(b, skip + 1, n)
<1> USE VolatileAssumption
<1>1. b \in [1 .. n -> Entries]
  <2>1. b = [k \in 1 .. n |-> [index |-> first + k - 1, term |-> terms[k]]]
    BY DEF Batch
  <2>2. ASSUME NEW k \in 1 .. n
        PROVE  [index |-> first + k - 1, term |-> terms[k]] \in Entries
    BY DEF Entries
  <2>3. QED BY <2>1, <2>2
<1>2. \A k \in 1 .. n : b[k].index = first + k - 1
  BY DEF Batch
<1>3. b \in Seq(Entries) /\ Len(b) = n
  BY <1>1
<1> HIDE DEF b
<1>4. \A k \in skip + 1 .. n : b[k] \in Entries
  BY <1>1
<1>5. /\ new \in Seq(Entries)
      /\ Len(new) = n - skip
      /\ \A k \in 1 .. n - skip : new[k] = b[skip + k]
  <2>1. /\ new \in Seq(Entries)
        /\ Len(new) = IF skip + 1 <= n THEN n - (skip + 1) + 1 ELSE 0
        /\ \A k \in 1 .. n - (skip + 1) + 1 : new[k] = b[skip + 1 + k - 1]
    BY <1>4, SubSeqProperties
  <2>2. QED BY <2>1
<1>6. \A k \in 1 .. Len(new) : new[k].index = (first + skip) + k - 1
  BY <1>2, <1>5
<1>7. RunFrom(new, first + skip)
  <2> HIDE DEF new
  <2>1. QED BY <1>5, <1>6 DEF RunFrom
<1>8. QED BY <1>3, <1>5, <1>7 DEF b

-----------------------------------------------------------------------------
(* Type correctness *)

(* The ends of a non-empty deque are indexes a caller can use.             *)
LEMMA EndsTyped ==
  ASSUME TypeOK, m_entries # <<>>
  PROVE  /\ Len(m_entries) \in Nat \ {0}
         /\ FirstHeld \in 1 .. MaxIndex
         /\ EndHeld \in 1 .. MaxIndex
<1> USE VolatileAssumption DEF TypeOK
<1>1. Len(m_entries) \in Nat \ {0}
  BY EmptySeq
<1>2. m_entries[1] \in Entries /\ m_entries[Len(m_entries)] \in Entries
  BY <1>1, ElementOfSeq
<1>3. QED BY <1>1, <1>2 DEF FirstHeld, EndHeld, Entries

(* Importing a run of entries, in whichever branch, keeps the types.       *)
LEMMA ImportTyped ==
  ASSUME TypeOK, NEW new, NEW first \in 1 .. MaxIndex,
         RunFrom(new, first), Len(new) \in Nat \ {0}, Import(new)
  PROVE  TypeOK'
<1> USE VolatileAssumption
<1>1. new \in Seq(Entries) /\ new[1].index = first
  BY DEF RunFrom
<1>2. CASE ImportAtEnd(new)
  BY <1>1, <1>2, ConcatProperties DEF TypeOK, ImportAtEnd
<1>3. CASE ImportFromFront(new)
  BY <1>1, <1>3 DEF TypeOK, ImportFromFront
<1>4. CASE ImportInside(new)
  <2>1. CASE \E how \in {"undefined", "panicked"} : Fail(how)
    BY <2>1 DEF TypeOK, Fail, Statuses
  <2>2. CASE /\ m_entries # <<>>
             /\ first <= EndHeld
             /\ Preserve(first) <= Len(m_entries)
             /\ m_entries' = SubSeq(m_entries, 1, Preserve(first)) \o new
             /\ UNCHANGED <<m_snapshot, m_offset, status>>
    <3>1. Preserve(first) \in Nat /\ m_entries \in Seq(Entries)
      BY <2>2, EndsTyped DEF Preserve, TypeOK
    <3>2. \A k \in 1 .. Preserve(first) : m_entries[k] \in Entries
      BY <2>2, <3>1, EndsTyped, ElementOfSeq
    <3>3. SubSeq(m_entries, 1, Preserve(first)) \in Seq(Entries)
      BY <3>1, <3>2, SubSeqProperties
    <3>4. m_entries' \in Seq(Entries)
      BY <1>1, <2>2, <3>3, ConcatProperties
    <3>5. QED BY <2>2, <3>4 DEF TypeOK
  <2>3. QED BY <1>1, <1>4, <2>1, <2>2 DEF ImportInside
<1>5. QED BY <1>2, <1>3, <1>4 DEF Import

(* The deque is typed after its first entries are erased.                  *)
LEMMA RemoveThroughTyped ==
  ASSUME TypeOK, m_entries # <<>>, NEW i \in FirstHeld .. EndHeld
  PROVE  /\ RemoveThrough(i) \in Seq(Entries)
         /\ i \in 1 .. MaxIndex
<1> USE VolatileAssumption
<1>1. i \in 1 .. MaxIndex /\ i - FirstHeld \in Nat
  BY EndsTyped
<1>2. \A k \in i - FirstHeld + 2 .. Len(m_entries) : m_entries[k] \in Entries
  BY <1>1, EndsTyped, ElementOfSeq DEF TypeOK
<1>3. i - FirstHeld + 2 \in Int /\ Len(m_entries) \in Int
  BY <1>1, EndsTyped
<1>4. RemoveThrough(i) \in Seq(Entries)
  BY <1>2, <1>3, SubSeqProperties DEF RemoveThrough
<1>5. QED BY <1>1, <1>4

(* Append keeps the types, wherever it truncates.                          *)
LEMMA AppendEntriesTyped ==
  ASSUME TypeOK, NEW first \in 1 .. MaxIndex, NEW n \in Nat, NEW skip \in Nat,
         NEW terms \in [1 .. n -> Terms], first + n - 1 <= MaxIndex,
         AppendEntries(Batch(first, terms), skip)
  PROVE  TypeOK'
<1> USE VolatileAssumption
<1> DEFINE b == Batch(first, terms)
<1>1. CASE UNCHANGED vars
  BY <1>1 DEF TypeOK, vars
<1>2. CASE /\ skip < Len(b)
           /\ Import(SubSeq(b, skip + 1, Len(b)))
  <2>1. Len(b) = n
    BY DEF Batch
  <2>2. /\ RunFrom(SubSeq(b, skip + 1, n), first + skip)
        /\ Len(SubSeq(b, skip + 1, n)) \in Nat \ {0}
    BY <1>2, <2>1, BatchTail
  <2>3. first + skip \in 1 .. MaxIndex
    BY <1>2, <2>1
  <2>4. QED BY <1>2, <2>1, <2>2, <2>3, ImportTyped
<1>3. QED BY <1>1, <1>2 DEF AppendEntries

(* ClearEntriesBefore keeps the types.                                     *)
LEMMA ClearEntriesTyped ==
  ASSUME TypeOK, NEW i, NEW t, ClearEntriesBefore(i, t)
  PROVE  TypeOK'
<1> USE VolatileAssumption
<1>1. CASE UNCHANGED vars
  BY <1>1 DEF TypeOK, vars
<1>2. CASE Fail("undefined")
  BY <1>2 DEF TypeOK, Fail, Statuses
<1>3. CASE /\ m_entries # <<>>
           /\ i \in FirstHeld .. EndHeld
           /\ m_entries' = RemoveThrough(i)
           /\ m_offset' = i + 1
           /\ UNCHANGED <<m_snapshot, status>>
  <2>1. RemoveThrough(i) \in Seq(Entries) /\ i \in 1 .. MaxIndex
    BY <1>3, RemoveThroughTyped
  <2>2. QED BY <1>3, <2>1 DEF TypeOK
<1>4. QED BY <1>1, <1>2, <1>3 DEF ClearEntriesBefore

(* Every call keeps the types.                                             *)
LEMMA NextTyped ==
  ASSUME TypeOK, [Next]_vars
  PROVE  TypeOK'
<1> USE VolatileAssumption
<1>1. CASE SetInitialOffset
  BY <1>1 DEF TypeOK, SetInitialOffset, SetOffset
<1>2. CASE AppendCall
  <2>1. PICK first \in 1 .. MaxIndex, n \in 1 .. MaxBatch, skip \in 0 .. MaxBatch :
          \E terms \in [1 .. n -> Terms] :
            /\ first + n - 1 <= MaxIndex
            /\ AppendEntries(Batch(first, terms), skip)
    BY <1>2 DEF AppendCall
  <2>2. QED BY <2>1, AppendEntriesTyped
<1>3. CASE ClearEntriesCall
  BY <1>3, ClearEntriesTyped DEF ClearEntriesCall
<1>4. CASE ClearSnapshotCall
  BY <1>4 DEF TypeOK, ClearSnapshotCall, ClearSnapshot
<1>5. CASE LoadCall
  BY <1>5 DEF TypeOK, LoadCall, Load, OffsetAfter, Snapshots, Entries
<1>6. CASE UNCHANGED vars
  BY <1>6 DEF TypeOK, vars
<1>7. QED BY <1>1, <1>2, <1>3, <1>4, <1>5, <1>6 DEF Next

(* Whatever its caller does, the component keeps indexes in range and only *)
(* entries that a caller handed over (volatile_state.cpp).                 *)
THEOREM TypeCorrect == Spec => []TypeOK
<1>1. Init => TypeOK
  BY VolatileAssumption, EmptySeq DEF Init, TypeOK, Statuses
<1>2. TypeOK /\ [Next]_vars => TypeOK'
  BY NextTyped
<1>3. QED BY <1>1, <1>2, PTL DEF Spec

-----------------------------------------------------------------------------
(* What the truncation keeps *)

(* In a contiguous log the last index is one below the next.               *)
LEMMA ContiguousEnds ==
  ASSUME TypeOK, Contiguous, m_entries # <<>>
  PROVE  /\ Len(m_entries) \in Nat \ {0}
         /\ m_offset \in 1 .. MaxIndex + 1
         /\ FirstHeld = m_offset
         /\ EndHeld = m_offset + Len(m_entries) - 1
         /\ NextIndex = EndHeld + 1
<1>1. Len(m_entries) \in Nat \ {0} /\ m_offset \in 1 .. MaxIndex + 1
  BY EndsTyped DEF TypeOK
<1>2. m_offset \in Int
  BY <1>1, VolatileAssumption
<1>3. QED
  BY <1>1, <1>2 DEF Contiguous, FirstHeld, EndHeld, NextIndex

(* The first `kept' entries of one run, followed by another run.           *)
Spliced(held, kept, new) == SubSeq(held, 1, kept) \o new

(* What a splice of two runs holds, and at which indexes.                  *)
LEMMA Splice ==
  ASSUME NEW held, NEW base \in Int, RunFrom(held, base),
         NEW kept \in Nat, kept <= Len(held),
         NEW new, NEW first \in Int, RunFrom(new, first)
  PROVE  /\ Spliced(held, kept, new) \in Seq(Entries)
         /\ Len(Spliced(held, kept, new)) = kept + Len(new)
         /\ \A k \in 1 .. kept : Spliced(held, kept, new)[k] = held[k]
         /\ \A k \in 1 .. kept :
              Spliced(held, kept, new)[k].index = base + k - 1
         /\ \A k \in 1 .. Len(new) :
              Spliced(held, kept, new)[kept + k] = new[k]
         /\ \A k \in 1 .. Len(new) :
              Spliced(held, kept, new)[kept + k].index = first + k - 1
<1> DEFINE joined == Spliced(held, kept, new)
<1> DEFINE pre == SubSeq(held, 1, kept)
<1>1. /\ held \in Seq(Entries) /\ Len(held) \in Nat
      /\ new \in Seq(Entries) /\ Len(new) \in Nat
      /\ \A k \in 1 .. Len(held) : held[k].index = base + k - 1
  BY LenProperties DEF RunFrom
<1>2. \A k \in 1 .. kept : held[k] \in Entries
  BY <1>1, ElementOfSeq
<1>3. /\ pre \in Seq(Entries)
      /\ Len(pre) = IF 1 <= kept THEN kept - 1 + 1 ELSE 0
      /\ \A k \in 1 .. kept - 1 + 1 : pre[k] = held[1 + k - 1]
  BY <1>1, <1>2, SubSeqProperties
<1> HIDE DEF pre
<1>4. Len(pre) = kept /\ \A k \in 1 .. kept : pre[k] = held[k]
  BY <1>3
<1>5. /\ joined \in Seq(Entries)
      /\ Len(joined) = kept + Len(new)
      /\ \A k \in 1 .. kept + Len(new) :
           joined[k] = IF k <= kept THEN pre[k] ELSE new[k - kept]
  BY <1>1, <1>3, <1>4, ConcatProperties DEF pre, Spliced
<1> HIDE DEF joined
<1>6. \A k \in 1 .. kept : joined[k] = held[k]
  BY <1>1, <1>4, <1>5
<1>7. ASSUME NEW k \in 1 .. Len(new) PROVE joined[kept + k] = new[k]
  <2>1. kept + k \in 1 .. kept + Len(new) /\ ~(kept + k <= kept)
    BY <1>1
  <2>2. (kept + k) - kept = k
    BY <1>1
  <2>3. QED BY <1>5, <2>1, <2>2
<1>8. \A k \in 1 .. kept : joined[k].index = base + k - 1
  BY <1>1, <1>6
<1>9. \A k \in 1 .. Len(new) : joined[kept + k].index = first + k - 1
  BY <1>7 DEF RunFrom
<1>10. QED BY <1>5, <1>6, <1>7, <1>8, <1>9 DEF joined

(* In a contiguous log that has been truncated and extended, the entries   *)
(* follow each other exactly when the truncation ends where the new ones   *)
(* start.                                                                  *)
LEMMA PrefixThenRun ==
  ASSUME TypeOK, Contiguous, NEW new, NEW first \in Int,
         RunFrom(new, first), Len(new) \in Nat \ {0},
         NEW kept \in Nat, kept <= Len(m_entries),
         m_entries' = Spliced(m_entries, kept, new),
         m_offset' = m_offset
  PROVE  Contiguous' <=> kept = first - m_offset
<1>1. RunFrom(m_entries, m_offset) /\ m_offset \in Int
  BY VolatileAssumption DEF TypeOK, Contiguous, RunFrom
<1> DEFINE joined == Spliced(m_entries, kept, new)
<1>2. /\ Len(joined) = kept + Len(new)
      /\ \A k \in 1 .. kept : joined[k].index = m_offset + k - 1
      /\ \A k \in 1 .. Len(new) : joined[kept + k].index = first + k - 1
  BY <1>1, Splice, SMTT(20)
<1>3. Contiguous' <=> \A k \in 1 .. Len(joined) :
                         joined[k].index = m_offset + k - 1
  BY DEF Contiguous
<1> HIDE DEF joined
<1>4. ASSUME Contiguous' PROVE kept = first - m_offset
  <2>1. kept + 1 \in 1 .. Len(joined)
    BY <1>2
  <2>2. joined[kept + 1].index = m_offset + (kept + 1) - 1
    BY <1>3, <1>4, <2>1
  <2>3. joined[kept + 1].index = first + 1 - 1
    BY <1>2
  <2>4. QED BY <1>1, <2>2, <2>3
<1>5. ASSUME kept = first - m_offset PROVE Contiguous'
  <2>1. ASSUME NEW k \in 1 .. kept + Len(new)
        PROVE  joined[k].index = m_offset + k - 1
    <3>1. CASE k <= kept
      BY <1>2, <3>1
    <3>2. CASE ~(k <= kept)
      <4>1. k - kept \in 1 .. Len(new) /\ kept + (k - kept) = k
        BY <3>2
      <4>2. joined[k].index = first + (k - kept) - 1
        BY <1>2, <4>1
      <4>3. QED BY <1>1, <1>5, <4>2
    <3>3. QED BY <3>1, <3>2
  <2>2. QED BY <1>2, <1>3, <2>1
<1>6. QED BY <1>4, <1>5

(* An Append that starts inside a contiguous log takes the truncating      *)
(* branch and does not fail there.                                         *)
LEMMA InsideStep ==
  ASSUME TypeOK, Contiguous, NEW new, NEW first \in Int,
         RunFrom(new, first), Len(new) \in Nat \ {0},
         m_offset < first, first < NextIndex, Import(new)
  PROVE  /\ m_entries # <<>>
         /\ Preserve(first) \in Nat
         /\ Preserve(first) <= Len(m_entries)
         /\ m_entries' = Spliced(m_entries, Preserve(first), new)
         /\ UNCHANGED <<m_snapshot, m_offset, status>>
<1>1. m_entries # <<>>
  BY VolatileAssumption, EmptySeq DEF NextIndex, TypeOK
<1>2. /\ Len(m_entries) \in Nat \ {0}
      /\ m_offset \in Nat
      /\ EndHeld = m_offset + Len(m_entries) - 1
      /\ NextIndex = EndHeld + 1
  BY <1>1, ContiguousEnds, VolatileAssumption
<1>3. new[1].index = first
  BY DEF RunFrom
<1>4. ImportInside(new)
  BY <1>2, <1>3 DEF Import
<1>5. /\ Preserve(first) \in Nat
      /\ Preserve(first) <= Len(m_entries)
      /\ ~(first > EndHeld) /\ ~(Preserve(first) > Len(m_entries))
  BY <1>2 DEF Preserve
<1>6. /\ m_entries' = SubSeq(m_entries, 1, Preserve(first)) \o new
      /\ UNCHANGED <<m_snapshot, m_offset, status>>
  BY <1>1, <1>3, <1>4, <1>5, Zenon DEF ImportInside
<1>7. QED BY <1>1, <1>5, <1>6 DEF Spliced

(* One truncating Append leaves a contiguous log exactly at the midpoint.  *)
LEMMA CutStep ==
  ASSUME TypeOK, Contiguous, NEW first \in 1 .. MaxIndex,
         NEW n \in Nat \ {0}, NEW terms \in [1 .. n -> Terms],
         m_offset < first, first < NextIndex, first + n - 1 <= MaxIndex,
         AppendEntries(Batch(first, terms), 0)
  PROVE  Contiguous' <=> 2 * first = m_offset + EndHeld
<1> USE VolatileAssumption
<1>0. PICK skip \in Nat : skip = 0
  OBVIOUS
<1> DEFINE b == Batch(first, terms)
           new == SubSeq(b, skip + 1, n)
<1>1. Len(b) = n /\ RunFrom(new, first + skip) /\ Len(new) = n - skip
  <2>1. skip < n /\ n \in Nat
    BY <1>0
  <2>2. QED BY <2>1, BatchTail
<1>2. Import(new) /\ RunFrom(new, first) /\ Len(new) = n
  BY <1>0, <1>1 DEF AppendEntries
<1> HIDE DEF new
<1>3. /\ m_entries # <<>>
      /\ Preserve(first) \in Nat
      /\ Preserve(first) <= Len(m_entries)
      /\ m_entries' = Spliced(m_entries, Preserve(first), new)
      /\ m_offset' = m_offset
  BY <1>2, InsideStep
<1>4. Contiguous' <=> Preserve(first) = first - m_offset
  BY <1>2, <1>3, PrefixThenRun
<1>5. m_offset \in Int /\ EndHeld \in Int
  BY <1>3, EndsTyped DEF TypeOK
<1>6. QED BY <1>4, <1>5 DEF Preserve

(* The truncating branch of Append leaves a contiguous log exactly when    *)
(* the batch starts at the midpoint of the entries held, whatever was      *)
(* called before (volatile_state.cpp:109-111).                             *)
THEOREM CutRuleHolds == Spec => CutRule
<1>1. TypeOK /\ [Next]_vars =>
        [\A first \in 1 .. MaxIndex, n \in 1 .. MaxBatch :
           \A terms \in [1 .. n -> Terms] :
             (/\ Contiguous
              /\ first + n - 1 <= MaxIndex
              /\ m_offset < first /\ first < NextIndex
              /\ AppendEntries(Batch(first, terms), 0))
             => (Contiguous' <=> 2 * first = m_offset + EndHeld)]_vars
  BY VolatileAssumption, CutStep
<1>2. QED BY <1>1, TypeCorrect, PTL DEF Spec, CutRule

-----------------------------------------------------------------------------
(* No undefined behaviour in a contiguous log that holds entries *)

(* In a contiguous deque TermOf finds the slot of its index.               *)
LEMMA ContiguousTermOf ==
  ASSUME TypeOK, Contiguous, NEW i \in 1 .. MaxIndex
  PROVE  /\ TermOf(i) # Garbage
         /\ m_entries # <<>> /\ i \in FirstHeld .. EndHeld =>
              /\ i - m_offset + 1 \in 1 .. Len(m_entries)
              /\ TermOf(i) = m_entries[i - m_offset + 1].term
<1> USE VolatileAssumption
<1>1. CASE m_entries # <<>> /\ i \in FirstHeld .. EndHeld
  <2>1. /\ Len(m_entries) \in Nat \ {0}
        /\ m_offset \in Nat
        /\ FirstHeld = m_offset
        /\ EndHeld = m_offset + Len(m_entries) - 1
    BY <1>1, ContiguousEnds
  <2>2. /\ i - m_offset + 1 \in 1 .. Len(m_entries)
        /\ i - FirstHeld < Len(m_entries)
    BY <1>1, <2>1
  <2>3. m_entries[i - m_offset + 1] \in Entries
    BY <2>2, ElementOfSeq DEF TypeOK
  <2>4. TermOf(i) = m_entries[i - m_offset + 1].term
    BY <1>1, <2>1, <2>2 DEF TermOf
  <2>5. QED BY <2>2, <2>3, <2>4 DEF Entries, Garbage
<1>2. CASE ~(m_entries # <<>> /\ i \in FirstHeld .. EndHeld)
  BY <1>2 DEF TermOf, Garbage, Absent, TypeOK, Snapshots
<1>3. QED BY <1>1, <1>2

(* Append on a contiguous deque that holds entries is defined.             *)
LEMMA AppendDefined ==
  ASSUME TypeOK, Contiguous, m_entries # <<>>,
         NEW first \in 1 .. MaxIndex, NEW n \in Nat, NEW skip \in Nat,
         NEW terms \in [1 .. n -> Terms], first + n - 1 <= MaxIndex,
         AppendEntries(Batch(first, terms), skip)
  PROVE  status' # "undefined"
<1> USE VolatileAssumption
<1> DEFINE b == Batch(first, terms)
           new == SubSeq(b, skip + 1, n)
<1>1. Len(b) = n
  BY DEF Batch
<1>2. CASE UNCHANGED vars
  BY <1>2 DEF vars, AppendEntries
<1>3. CASE skip < n /\ Import(new)
  <2>1. /\ RunFrom(new, first + skip)
        /\ Len(new) \in Nat \ {0}
    BY <1>3, BatchTail
  <2>2. new[1].index = first + skip
    BY <2>1 DEF RunFrom
  <2> HIDE DEF new
  <2>3. status = "running"
    BY DEF AppendEntries
  <2>4. CASE ImportAtEnd(new) \/ ImportFromFront(new)
    BY <2>3, <2>4 DEF ImportAtEnd, ImportFromFront
  <2>5. CASE new[1].index > m_offset /\ ImportInside(new)
    <3>1. /\ Len(m_entries) \in Nat \ {0}
          /\ m_offset \in Nat
          /\ EndHeld = m_offset + Len(m_entries) - 1
      BY ContiguousEnds
    <3>2. ~(first + skip <= EndHeld /\ Preserve(first + skip) > Len(m_entries))
      BY <2>2, <2>5, <3>1 DEF Preserve
    <3>3. \/ Fail("panicked")
          \/ UNCHANGED status
      BY <2>2, <2>5, <3>2, Zenon DEF ImportInside
    <3>4. QED BY <2>3, <3>3 DEF Fail
  <2>6. QED BY <1>3, <2>4, <2>5 DEF Import
<1>4. QED BY <1>1, <1>2, <1>3 DEF AppendEntries

(* So is ClearEntriesBefore.                                               *)
LEMMA ClearEntriesDefined ==
  ASSUME TypeOK, Contiguous, m_entries # <<>>, status # "undefined",
         NEW i \in 1 .. MaxIndex, NEW t, ClearEntriesBefore(i, t)
  PROVE  status' # "undefined"
<1>1. TermOf(i) # Garbage
  BY ContiguousTermOf
<1>2. QED BY <1>1 DEF ClearEntriesBefore, vars

(* Undefined behaviour needs an empty deque or one with a gap.             *)
LEMMA StepDefined ==
  ASSUME TypeOK, [Next]_vars, status # "undefined", status' = "undefined"
  PROVE  m_entries = <<>> \/ ~Contiguous
<1> SUFFICES ASSUME m_entries # <<>>, Contiguous PROVE FALSE
  OBVIOUS
<1>1. CASE SetInitialOffset \/ ClearSnapshotCall \/ LoadCall \/ UNCHANGED vars
  BY <1>1 DEF SetInitialOffset, SetOffset, ClearSnapshotCall, ClearSnapshot,
              LoadCall, Load, vars
<1>2. CASE AppendCall
  <2>1. PICK first \in 1 .. MaxIndex, n \in 1 .. MaxBatch, skip \in 0 .. MaxBatch :
          \E terms \in [1 .. n -> Terms] :
            /\ first + n - 1 <= MaxIndex
            /\ AppendEntries(Batch(first, terms), skip)
    BY <1>2 DEF AppendCall
  <2>2. QED BY <2>1, AppendDefined
<1>3. CASE ClearEntriesCall
  BY <1>3, ClearEntriesDefined DEF ClearEntriesCall
<1>4. QED BY <1>1, <1>2, <1>3 DEF Next

(* Undefined behaviour in the component has no other causes than an empty  *)
(* deque and one that an earlier truncation left with a gap or a           *)
(* repetition (volatile_state.cpp:34, 57-58, 104, 110).                    *)
THEOREM UndefinedCausesHolds == Spec => UndefinedCauses
<1>1. TypeOK /\ [Next]_vars =>
        [status # "undefined" /\ status' = "undefined"
           => m_entries = <<>> \/ ~Contiguous]_vars
  BY StepDefined
<1>2. QED BY <1>1, TypeCorrect, PTL DEF Spec, UndefinedCauses

-----------------------------------------------------------------------------
(* Callers that keep the contract *)

(* What makes the contract sufficient: while a snapshot is pending, the    *)
(* deque starts right after it, so that ContractSafe, Contiguous and       *)
(* LastIndexIsEnd hold together after every step.                          *)
SnapshotAdjoins == m_snapshot # NoSnapshot => m_offset = m_snapshot.index + 1

ContractInv ==
  /\ TypeOK
  /\ status = "running"
  /\ Contiguous
  /\ SnapshotAdjoins

(* Every Append on contract is a splice: it keeps the entries below its    *)
(* first one and nothing else.                                             *)
KeptBelow(first) == IF first < m_offset THEN 0 ELSE first - m_offset

(* Append on contract keeps what is below the batch, and that only.        *)
LEMMA ImportSplices ==
  ASSUME ContractInv, NEW new, NEW first \in 1 .. MaxIndex,
         RunFrom(new, first), Len(new) \in Nat \ {0},
         OnContract(first), Import(new)
  PROVE  /\ KeptBelow(first) \in Nat
         /\ KeptBelow(first) <= Len(m_entries)
         /\ m_entries' = Spliced(m_entries, KeptBelow(first), new)
         /\ m_offset' = IF first < m_offset THEN first ELSE m_offset
         /\ UNCHANGED <<m_snapshot, status>>
<1> USE VolatileAssumption
<1>1. /\ m_entries \in Seq(Entries) /\ new \in Seq(Entries)
      /\ Len(m_entries) \in Nat
      /\ m_offset \in Nat
      /\ NextIndex = m_offset + Len(m_entries)
  BY LenProperties DEF ContractInv, TypeOK, NextIndex, RunFrom
<1>2. new[1].index = first
  BY DEF RunFrom
<1>3. CASE first = NextIndex
  <2>1. ImportAtEnd(new)
    BY <1>2, <1>3 DEF Import
  <2>2. KeptBelow(first) = Len(m_entries)
    BY <1>1, <1>3 DEF KeptBelow
  <2>3. SubSeq(m_entries, 1, Len(m_entries)) = m_entries
    BY <1>1, SubSeqFull
  <2>4. Spliced(m_entries, KeptBelow(first), new) = m_entries \o new
    BY <2>2, <2>3 DEF Spliced
  <2>5. /\ m_entries' = m_entries \o new
        /\ UNCHANGED <<m_snapshot, m_offset, status>>
    BY <2>1 DEF ImportAtEnd
  <2>6. ~(first < m_offset)
    BY <1>1, <1>3
  <2>7. QED BY <1>1, <2>2, <2>4, <2>5, <2>6
<1>4. CASE first # NextIndex /\ first <= m_offset
  <2>1. ImportFromFront(new)
    BY <1>1, <1>2, <1>4 DEF Import
  <2>2. KeptBelow(first) = 0
    BY <1>1, <1>4 DEF KeptBelow
  <2>3. SubSeq(m_entries, 1, 0) \o new = new
    BY <1>1, SubSeqEmpty, ConcatEmptySeq
  <2>4. QED BY <1>1, <1>2, <1>4, <2>1, <2>2, <2>3 DEF ImportFromFront, Spliced
<1>5. CASE m_offset < first /\ first < NextIndex
  <2>1. /\ m_entries' = Spliced(m_entries, Preserve(first), new)
        /\ Preserve(first) \in Nat
        /\ Preserve(first) <= Len(m_entries)
        /\ UNCHANGED <<m_snapshot, m_offset, status>>
    BY <1>5, InsideStep DEF ContractInv
  <2>2. KeptBelow(first) = Preserve(first)
    BY <1>1, <1>5 DEF OnContract, EntriesBelow, KeptBelow
  <2>3. QED BY <1>1, <1>5, <2>1, <2>2
<1>6. first <= NextIndex
  BY DEF OnContract
<1>7. QED BY <1>1, <1>3, <1>4, <1>5, <1>6

(* Append on contract keeps the invariant.                                 *)
LEMMA ContractAppendStep ==
  ASSUME ContractInv, TypeOK', NEW new, NEW first \in 1 .. MaxIndex,
         RunFrom(new, first), Len(new) \in Nat \ {0},
         OnContract(first), Import(new)
  PROVE  ContractInv'
<1> USE VolatileAssumption
<1> DEFINE kept == KeptBelow(first)
           joined == Spliced(m_entries, kept, new)
<1>1. /\ kept \in Nat
      /\ kept <= Len(m_entries)
      /\ m_entries' = joined
      /\ m_offset' = IF first < m_offset THEN first ELSE m_offset
      /\ UNCHANGED <<m_snapshot, status>>
  BY ImportSplices
<1>2. RunFrom(m_entries, m_offset) /\ m_offset \in Nat
  BY DEF ContractInv, TypeOK, Contiguous, RunFrom
<1>3. kept = IF first < m_offset THEN 0 ELSE first - m_offset
  BY DEF KeptBelow
<1> HIDE DEF kept
<1>4. /\ Len(joined) = kept + Len(new)
      /\ \A k \in 1 .. kept : joined[k].index = m_offset + k - 1
      /\ \A k \in 1 .. Len(new) : joined[kept + k].index = first + k - 1
  BY <1>1, <1>2, Splice, SMTT(20)
<1> HIDE DEF joined
<1>5. ASSUME NEW k \in 1 .. kept + Len(new)
      PROVE  joined[k].index = m_offset' + k - 1
  <2>1. CASE k <= kept
    BY <1>1, <1>2, <1>3, <1>4, <2>1
  <2>2. CASE ~(k <= kept)
    <3>1. k - kept \in 1 .. Len(new) /\ kept + (k - kept) = k
      BY <1>1, <2>2
    <3>2. joined[k].index = first + (k - kept) - 1
      BY <1>4, <3>1
    <3>3. QED BY <1>1, <1>2, <1>3, <3>2
  <2>3. QED BY <2>1, <2>2
<1>6. Contiguous'
  BY <1>1, <1>4, <1>5 DEF Contiguous
<1>7. SnapshotAdjoins'
  BY <1>1, <1>2 DEF ContractInv, TypeOK, Snapshots, SnapshotAdjoins, OnContract
<1>8. QED BY <1>1, <1>6, <1>7 DEF ContractInv

(* An acknowledgement on contract keeps the invariant.                     *)
LEMMA ContractClearEntriesStep ==
  ASSUME ContractInv, TypeOK', m_snapshot = NoSnapshot,
         NEW i \in 1 .. MaxIndex, NEW t \in Terms, ClearEntriesBefore(i, t)
  PROVE  ContractInv'
<1> USE VolatileAssumption DEF ContractInv
<1>1. TermOf(i) # Garbage
  BY ContiguousTermOf
<1>2. ASSUME TermOf(i) = t PROVE m_entries # <<>>
  BY <1>2 DEF TermOf, Absent
<1>3. CASE UNCHANGED vars
  BY <1>3 DEF vars, Contiguous, SnapshotAdjoins
<1>4. CASE /\ m_entries # <<>>
           /\ i \in FirstHeld .. EndHeld
           /\ m_entries' = RemoveThrough(i)
           /\ m_offset' = i + 1
           /\ UNCHANGED <<m_snapshot, status>>
  <2>1. /\ Len(m_entries) \in Nat \ {0}
        /\ m_offset \in Nat
        /\ FirstHeld = m_offset
        /\ i - m_offset \in Nat
    BY <1>4, ContiguousEnds
  <2> DEFINE first == i - m_offset + 2
             left == SubSeq(m_entries, first, Len(m_entries))
  <2>2. \A k \in first .. Len(m_entries) : m_entries[k] \in Entries
    BY <2>1, ElementOfSeq DEF TypeOK
  <2>3. first \in Int /\ Len(m_entries) \in Int
    BY <2>1
  <2> HIDE DEF first
  <2>4. /\ Len(left) = IF first <= Len(m_entries)
                       THEN Len(m_entries) - first + 1 ELSE 0
        /\ \A k \in 1 .. Len(m_entries) - first + 1 :
             left[k] = m_entries[first + k - 1]
    BY <2>2, <2>3, SubSeqProperties
  <2>5. m_entries' = left
    BY <1>4, <2>1 DEF RemoveThrough, first
  <2> HIDE DEF left
  <2>6. ASSUME NEW k \in 1 .. Len(left)
        PROVE  left[k].index = m_offset' + k - 1
    <3>1. first + k - 1 \in 1 .. Len(m_entries) /\ left[k] = m_entries[first + k - 1]
      BY <2>1, <2>3, <2>4 DEF first
    <3>2. left[k].index = m_offset + (first + k - 1) - 1
      BY <3>1 DEF Contiguous
    <3>3. QED BY <1>4, <2>1, <3>2 DEF first
  <2>7. Contiguous'
    BY <2>5, <2>6 DEF Contiguous
  <2>8. QED BY <1>4, <2>7 DEF SnapshotAdjoins
<1>5. QED BY <1>1, <1>2, <1>3, <1>4 DEF ClearEntriesBefore

(* Every call on contract keeps the invariant.                             *)
LEMMA ContractStep ==
  ASSUME ContractInv, [ContractNext]_vars
  PROVE  ContractInv'
<1> USE VolatileAssumption
<1>1. TypeOK'
  <2>1. CASE ContractAppendCall
    <3>1. PICK first \in 1 .. MaxIndex, n \in 1 .. MaxBatch, skip \in 0 .. MaxBatch :
            \E terms \in [1 .. n -> Terms] :
              /\ first + n - 1 <= MaxIndex
              /\ AppendEntries(Batch(first, terms), skip)
      BY <2>1 DEF ContractAppendCall
    <3>2. QED BY <3>1, AppendEntriesTyped DEF ContractInv
  <2>2. CASE [Next]_vars
    BY <2>2, NextTyped DEF ContractInv
  <2>3. QED BY <2>1, <2>2 DEF ContractNext, ContractClearEntriesCall, Next
<1>2. CASE SetInitialOffset
  BY <1>1, <1>2 DEF SetInitialOffset, SetOffset, ContractInv, Contiguous,
                    SnapshotAdjoins
<1>3. CASE ContractAppendCall
  <2>0. PICK first \in 1 .. MaxIndex, n \in 1 .. MaxBatch, skip \in 0 .. MaxBatch :
          \E terms \in [1 .. n -> Terms] :
            /\ first + n - 1 <= MaxIndex
            /\ skip < n
            /\ OnContract(first + skip)
            /\ AppendEntries(Batch(first, terms), skip)
    BY <1>3 DEF ContractAppendCall
  <2>1. PICK terms \in [1 .. n -> Terms] :
          /\ first + n - 1 <= MaxIndex
          /\ skip < n
          /\ OnContract(first + skip)
          /\ AppendEntries(Batch(first, terms), skip)
    BY <2>0
  <2> DEFINE b == Batch(first, terms)
             new == SubSeq(b, skip + 1, n)
  <2>2. Len(b) = n /\ RunFrom(new, first + skip) /\ Len(new) = n - skip
    BY <2>1, BatchTail
  <2>3. Import(new)
    BY <2>1, <2>2 DEF AppendEntries
  <2> HIDE DEF new
  <2>4. first + skip \in 1 .. MaxIndex /\ Len(new) \in Nat \ {0}
    BY <2>1, <2>2
  <2>5. QED BY <1>1, <2>1, <2>2, <2>3, <2>4, ContractAppendStep
<1>4. CASE ContractClearEntriesCall
  BY <1>1, <1>4, ContractClearEntriesStep
     DEF ContractClearEntriesCall, ClearEntriesCall
<1>5. CASE ClearSnapshotCall
  BY <1>1, <1>5 DEF ClearSnapshotCall, ClearSnapshot, ContractInv, Contiguous,
                    SnapshotAdjoins
<1>6. CASE LoadCall
  BY <1>1, <1>6 DEF LoadCall, Load, OffsetAfter, ContractInv, Contiguous,
                    SnapshotAdjoins
<1>7. CASE UNCHANGED vars
  BY <1>1, <1>7 DEF vars, ContractInv, Contiguous, SnapshotAdjoins
<1>8. QED BY <1>2, <1>3, <1>4, <1>5, <1>6, <1>7 DEF ContractNext

(* The invariant holds for every caller that keeps the contract.           *)
LEMMA ContractInvariant == ContractSpec => []ContractInv
<1>1. Init => ContractInv
  BY VolatileAssumption, EmptySeq
     DEF Init, ContractInv, TypeOK, Statuses, Contiguous, SnapshotAdjoins
<1>2. ContractInv /\ [ContractNext]_vars => ContractInv'
  BY ContractStep
<1>3. QED BY <1>1, <1>2, PTL DEF ContractSpec

(* Callers that keep the contract never meet a Panic or undefined          *)
(* behaviour (volatile_state.cpp:34, 57-58, 104, 107, 110).                *)
THEOREM ContractSafeHolds == ContractSpec => []ContractSafe
<1>1. ContractInv => ContractSafe
  BY DEF ContractInv, ContractSafe
<1>2. QED BY <1>1, ContractInvariant, PTL

(* For them the deque holds consecutive indexes from m_offset on, as       *)
(* TermOf (volatile_state.cpp:34) and Append (line 90) assume.             *)
THEOREM ContiguousHolds == ContractSpec => []Contiguous
<1>1. ContractInv => Contiguous
  BY DEF ContractInv
<1>2. QED BY <1>1, ContractInvariant, PTL

(* And LastIndex, when it answers, answers the end of the log              *)
(* (volatile_state.cpp:11-24).                                             *)
THEOREM LastIndexIsEndHolds == ContractSpec => []LastIndexIsEnd
<1>1. ContractInv => LastIndexIsEnd
  <2> SUFFICES ASSUME ContractInv PROVE LastIndexIsEnd
    OBVIOUS
  <2>1. CASE m_entries # <<>>
    BY <2>1, ContiguousEnds, VolatileAssumption
       DEF ContractInv, LastIndexIsEnd, LastIndex
  <2>2. CASE m_entries = <<>>
    BY <2>2, EmptySeq, VolatileAssumption
       DEF ContractInv, TypeOK, Snapshots, LastIndexIsEnd, LastIndex, NextIndex,
           SnapshotAdjoins
  <2>3. QED BY <2>1, <2>2
<1>2. QED BY <1>1, ContractInvariant, PTL

-----------------------------------------------------------------------------
(* The refinement: for callers that keep the contract VolatileState        *)
(* implements UnstableLog.  Every call is one step of the abstract log, or *)
(* none.                                                                   *)

(* The terms of a sequence of entries, as HeldTerms has those of the deque. *)
TermsOf(ents) == [k \in 1 .. Len(ents) |-> ents[k].term]

(* The terms of a run of entries form a sequence as long as it.            *)
LEMMA TermsOfTyped ==
  ASSUME NEW ents \in Seq(Entries)
  PROVE  /\ TermsOf(ents) \in Seq(Terms)
         /\ Len(TermsOf(ents)) = Len(ents)
         /\ \A k \in 1 .. Len(ents) : TermsOf(ents)[k] = ents[k].term
<1>1. Len(ents) \in Nat
  BY LenProperties
<1>2. \A k \in 1 .. Len(ents) : ents[k].term \in Terms
  <2>1. ASSUME NEW k \in 1 .. Len(ents) PROVE ents[k] \in Entries
    BY ElementOfSeq
  <2>2. QED BY <2>1 DEF Entries
<1>3. TermsOf(ents) \in [1 .. Len(ents) -> Terms]
  BY <1>2 DEF TermsOf
<1>4. QED BY <1>1, <1>3 DEF TermsOf

(* The terms of a spliced log are the spliced terms.                       *)
LEMMA TermsOfSplice ==
  ASSUME NEW held, NEW base \in Int, RunFrom(held, base),
         NEW kept \in Nat, kept <= Len(held),
         NEW new, NEW first \in Int, RunFrom(new, first)
  PROVE  TermsOf(Spliced(held, kept, new)) =
           SubSeq(TermsOf(held), 1, kept) \o TermsOf(new)
<1> DEFINE joined == Spliced(held, kept, new)
           pre == SubSeq(TermsOf(held), 1, kept)
           right == pre \o TermsOf(new)
<1>1. /\ joined \in Seq(Entries)
      /\ Len(joined) = kept + Len(new)
      /\ \A k \in 1 .. kept : joined[k] = held[k]
      /\ \A k \in 1 .. Len(new) : joined[kept + k] = new[k]
  BY Splice, SMTT(30)
<1> HIDE DEF joined
<1>2. /\ held \in Seq(Entries) /\ new \in Seq(Entries)
      /\ Len(held) \in Nat /\ Len(new) \in Nat
  BY LenProperties DEF RunFrom
<1>3. /\ TermsOf(held) \in Seq(Terms) /\ Len(TermsOf(held)) = Len(held)
      /\ \A k \in 1 .. Len(held) : TermsOf(held)[k] = held[k].term
  BY <1>2, TermsOfTyped
<1>4. /\ TermsOf(new) \in Seq(Terms) /\ Len(TermsOf(new)) = Len(new)
      /\ \A k \in 1 .. Len(new) : TermsOf(new)[k] = new[k].term
  BY <1>2, TermsOfTyped
<1>5. /\ TermsOf(joined) \in Seq(Terms) /\ Len(TermsOf(joined)) = kept + Len(new)
      /\ \A k \in 1 .. kept + Len(new) : TermsOf(joined)[k] = joined[k].term
  BY <1>1, TermsOfTyped
<1>6. \A k \in 1 .. kept : TermsOf(held)[k] \in Terms
  BY <1>2, <1>3, ElementOfSeq
<1>7. /\ pre \in Seq(Terms)
      /\ Len(pre) = IF 1 <= kept THEN kept - 1 + 1 ELSE 0
      /\ \A k \in 1 .. kept - 1 + 1 : pre[k] = TermsOf(held)[1 + k - 1]
  BY <1>6, SubSeqProperties
<1> HIDE DEF pre
<1>8. Len(pre) = kept /\ \A k \in 1 .. kept : pre[k] = held[k].term
  BY <1>2, <1>3, <1>7
<1>9. /\ right \in Seq(Terms)
      /\ Len(right) = kept + Len(new)
      /\ \A k \in 1 .. kept + Len(new) :
           right[k] = IF k <= kept THEN pre[k] ELSE TermsOf(new)[k - kept]
  <2>0. pre \in Seq(Terms) /\ TermsOf(new) \in Seq(Terms)
    BY <1>4, <1>7
  <2>1. /\ right \in Seq(Terms)
        /\ Len(right) = Len(pre) + Len(TermsOf(new))
        /\ \A k \in 1 .. Len(pre) + Len(TermsOf(new)) :
             right[k] = IF k <= Len(pre) THEN pre[k]
                        ELSE TermsOf(new)[k - Len(pre)]
    BY <2>0, ConcatProperties
  <2> HIDE DEF right
  <2>2. QED BY <1>4, <1>8, <2>1
<1> HIDE DEF right
<1>10. ASSUME NEW k \in 1 .. kept + Len(new)
       PROVE  TermsOf(joined)[k] = right[k]
  <2>1. CASE k <= kept
    <3>1. k \in 1 .. kept
      BY <1>2, <2>1
    <3>2. TermsOf(joined)[k] = held[k].term
      BY <1>1, <1>5, <3>1
    <3>3. right[k] = pre[k]
      BY <1>9, <2>1
    <3>4. QED BY <1>8, <3>1, <3>2, <3>3
  <2>2. CASE ~(k <= kept)
    <3>1. k - kept \in 1 .. Len(new) /\ kept + (k - kept) = k
      BY <1>2, <2>2
    <3>2. joined[k] = new[k - kept]
      BY <1>1, <3>1
    <3>3. QED BY <1>4, <1>5, <1>9, <2>2, <3>1, <3>2
  <2>3. QED BY <2>1, <2>2
<1>11. TermsOf(joined) = right
  BY <1>5, <1>9, <1>10, SeqEqual
<1>12. QED BY <1>11 DEF joined, pre, right

(* The terms of what is left after acknowledged entries are forgotten.     *)
LEMMA TermsOfSuffix ==
  ASSUME NEW held \in Seq(Entries), NEW from \in Nat \ {0}
  PROVE  TermsOf(SubSeq(held, from, Len(held))) =
           SubSeq(TermsOf(held), from, Len(held))
<1> DEFINE left == SubSeq(held, from, Len(held))
           right == SubSeq(TermsOf(held), from, Len(held))
           n == IF from <= Len(held) THEN Len(held) - from + 1 ELSE 0
<1>1. Len(held) \in Nat
  BY LenProperties
<1>2. /\ TermsOf(held) \in Seq(Terms) /\ Len(TermsOf(held)) = Len(held)
      /\ \A k \in 1 .. Len(held) : TermsOf(held)[k] = held[k].term
  BY TermsOfTyped
<1>3. /\ \A k \in from .. Len(held) : held[k] \in Entries
      /\ \A k \in from .. Len(held) : TermsOf(held)[k] \in Terms
  BY <1>1, <1>2, ElementOfSeq
<1>4. /\ left \in Seq(Entries)
      /\ Len(left) = n
      /\ \A k \in 1 .. Len(held) - from + 1 : left[k] = held[from + k - 1]
  BY <1>1, <1>3, SubSeqProperties
<1>5. /\ right \in Seq(Terms)
      /\ Len(right) = n
      /\ \A k \in 1 .. Len(held) - from + 1 :
           right[k] = TermsOf(held)[from + k - 1]
  BY <1>1, <1>3, SubSeqProperties
<1> HIDE DEF left, right
<1>6. /\ TermsOf(left) \in Seq(Terms)
      /\ Len(TermsOf(left)) = Len(left)
      /\ \A k \in 1 .. Len(left) : TermsOf(left)[k] = left[k].term
  BY <1>4, TermsOfTyped
<1>7. ASSUME NEW k \in 1 .. n PROVE TermsOf(left)[k] = right[k]
  <2>1. /\ k \in 1 .. Len(held) - from + 1
        /\ from + k - 1 \in 1 .. Len(held)
    BY <1>1
  <2>2. QED BY <1>2, <1>4, <1>5, <1>6, <2>1
<1>8. TermsOf(left) = right
  BY <1>4, <1>5, <1>6, <1>7, SeqEqual
<1>9. QED BY <1>8 DEF left, right

-----------------------------------------------------------------------------
(* Steps *)

(* An empty deque is an empty abstract log.                                *)
LEMMA NoEntriesNoTerms == m_entries = <<>> => HeldTerms = <<>>
  BY EmptySeq DEF HeldTerms

(* HeldTerms is TermsOf applied to the deque.                              *)
LEMMA HeldTermsAre == HeldTerms = TermsOf(m_entries)
  BY DEF HeldTerms, TermsOf

(* An Append on contract is an abstract Write.                             *)
LEMMA AppendWrites ==
  ASSUME ContractInv, NEW new, NEW first \in 1 .. MaxIndex,
         RunFrom(new, first), Len(new) \in Nat \ {0},
         OnContract(first), Import(new)
  PROVE  Abstract!Write(first, TermsOf(new))
<1> USE VolatileAssumption
<1>1. /\ KeptBelow(first) \in Nat
      /\ KeptBelow(first) <= Len(m_entries)
      /\ m_entries' = Spliced(m_entries, KeptBelow(first), new)
      /\ m_offset' = IF first < m_offset THEN first ELSE m_offset
      /\ UNCHANGED <<m_snapshot, status>>
  BY ImportSplices
<1>2. RunFrom(m_entries, m_offset) /\ m_offset \in Nat
  BY DEF ContractInv, TypeOK, Contiguous, RunFrom
<1>3. HeldTerms' = SubSeq(HeldTerms, 1, KeptBelow(first)) \o TermsOf(new)
  <2>1. HeldTerms' = TermsOf(m_entries')
    BY DEF HeldTerms, TermsOf
  <2>2. TermsOf(Spliced(m_entries, KeptBelow(first), new)) =
          SubSeq(TermsOf(m_entries), 1, KeptBelow(first)) \o TermsOf(new)
    BY <1>1, <1>2, TermsOfSplice
  <2>3. QED BY <1>1, <2>1, <2>2, HeldTermsAre
<1>4. SubSeq(HeldTerms, 1, KeptBelow(first)) =
        SubSeq(HeldTerms, 1, first - m_offset)
  <2>1. CASE first < m_offset
    <3>1. /\ SubSeq(HeldTerms, 1, 0) = <<>>
          /\ SubSeq(HeldTerms, 1, first - m_offset) = <<>>
      BY <1>2, <2>1, SubSeqEmpty
    <3>2. QED BY <2>1, <3>1 DEF KeptBelow
  <2>2. CASE ~(first < m_offset)
    BY <2>2 DEF KeptBelow
  <2>3. QED BY <2>1, <2>2
<1>5. m_offset + Len(HeldTerms) = NextIndex
  <2>1. Len(HeldTerms) = Len(m_entries)
    BY HeldTermsAre, TermsOfTyped DEF ContractInv, TypeOK
  <2>2. QED BY <2>1 DEF NextIndex
<1>6. /\ first <= m_offset + Len(HeldTerms)
      /\ m_snapshot # NoSnapshot => first > m_snapshot.index
  BY <1>5 DEF OnContract
<1>7. QED BY <1>1, <1>3, <1>4, <1>6 DEF Abstract!Write

(* An acknowledgement on contract is an abstract Stable or changes nothing. *)
LEMMA ClearEntriesStabilises ==
  ASSUME ContractInv, m_snapshot = NoSnapshot,
         NEW i \in 1 .. MaxIndex, NEW t \in Terms, ClearEntriesBefore(i, t)
  PROVE  Abstract!Stable(i, t) \/ UNCHANGED vars
<1> USE VolatileAssumption DEF ContractInv
<1>1. TermOf(i) # Garbage
  BY ContiguousTermOf
<1>2. ASSUME TermOf(i) = t PROVE m_entries # <<>>
  BY <1>2 DEF TermOf, Absent
<1>3. CASE /\ TermOf(i) = t
           /\ m_entries # <<>>
           /\ i \in FirstHeld .. EndHeld
           /\ m_entries' = RemoveThrough(i)
           /\ m_offset' = i + 1
           /\ UNCHANGED <<m_snapshot, status>>
  <2>1. /\ Len(m_entries) \in Nat \ {0}
        /\ m_offset \in Nat
        /\ FirstHeld = m_offset
        /\ EndHeld = m_offset + Len(m_entries) - 1
    BY <1>3, ContiguousEnds
  <2>2. /\ m_entries \in Seq(Entries)
        /\ i - m_offset + 1 \in 1 .. Len(m_entries)
        /\ m_entries[i - m_offset + 1].term = t
    BY <1>3, <2>1, ContiguousTermOf DEF TypeOK
  <2>3. /\ Len(HeldTerms) = Len(m_entries)
        /\ HeldTerms[i - m_offset + 1] = t
    BY <2>2, HeldTermsAre, TermsOfTyped
  <2> DEFINE from == i - m_offset + 2
  <2>4. from \in Nat \ {0}
    BY <2>1, <2>2
  <2>5. m_entries' = SubSeq(m_entries, from, Len(m_entries))
    BY <1>3, <2>1 DEF RemoveThrough
  <2> HIDE DEF from
  <2>6. HeldTerms' = TermsOf(m_entries')
    BY DEF HeldTerms, TermsOf
  <2>7. HeldTerms' = SubSeq(HeldTerms, from, Len(HeldTerms))
    BY <2>2, <2>3, <2>4, <2>5, <2>6, HeldTermsAre, TermsOfSuffix
  <2>8. i \in m_offset .. m_offset + Len(HeldTerms) - 1
    BY <1>3, <2>1, <2>3
  <2>9. QED BY <1>3, <2>3, <2>7, <2>8 DEF Abstract!Stable, from
<1>4. QED BY <1>1, <1>2, <1>3 DEF ClearEntriesBefore

(* Every call on contract is an abstract step or a stutter.                *)
LEMMA ContractStepRefines ==
  ASSUME ContractInv, [ContractNext]_vars
  PROVE  [Abstract!Next]_(Abstract!absVars)
<1> USE VolatileAssumption
<1>1. ASSUME UNCHANGED vars PROVE UNCHANGED Abstract!absVars
  BY <1>1 DEF vars, Abstract!absVars, HeldTerms
<1>2. CASE SetInitialOffset
  <2>1. PICK offset \in 2 .. MaxIndex + 1 : SetOffset(offset)
    BY <1>2 DEF SetInitialOffset
  <2>2. HeldTerms = <<>> /\ HeldTerms' = <<>>
    BY <1>2, <2>1, NoEntriesNoTerms DEF SetInitialOffset, SetOffset, HeldTerms
  <2>3. Abstract!StartAt(offset)
    BY <1>2, <2>1, <2>2 DEF SetInitialOffset, SetOffset, Abstract!StartAt
  <2>4. offset \in 1 .. MaxIndex + 1
    OBVIOUS
  <2>5. QED BY <2>3, <2>4 DEF Abstract!Next
<1>3. CASE ContractAppendCall
  <2>1. PICK first \in 1 .. MaxIndex, n \in 1 .. MaxBatch, skip \in 0 .. MaxBatch :
          \E terms \in [1 .. n -> Terms] :
            /\ first + n - 1 <= MaxIndex
            /\ skip < n
            /\ OnContract(first + skip)
            /\ AppendEntries(Batch(first, terms), skip)
    BY <1>3 DEF ContractAppendCall
  <2>2. PICK terms \in [1 .. n -> Terms] :
          /\ first + n - 1 <= MaxIndex
          /\ skip < n
          /\ OnContract(first + skip)
          /\ AppendEntries(Batch(first, terms), skip)
    BY <2>1
  <2> DEFINE b == Batch(first, terms)
             new == SubSeq(b, skip + 1, n)
  <2>3. Len(b) = n /\ RunFrom(new, first + skip) /\ Len(new) = n - skip
    BY <2>2, BatchTail
  <2>4. Import(new)
    BY <2>2, <2>3 DEF AppendEntries
  <2> HIDE DEF new
  <2>5. /\ first + skip \in 1 .. MaxIndex
        /\ Len(new) \in Nat \ {0} /\ Len(new) \in 1 .. MaxIndex
    BY <2>2, <2>3
  <2>6. Abstract!Write(first + skip, TermsOf(new))
    BY <2>2, <2>3, <2>4, <2>5, AppendWrites
  <2>7. TermsOf(new) \in [1 .. Len(new) -> Terms]
    BY <2>3, TermsOfTyped, LenProperties DEF RunFrom
  <2>8. QED BY <2>5, <2>6, <2>7 DEF Abstract!Next
<1>4. CASE ContractClearEntriesCall
  <2>1. PICK i \in 1 .. MaxIndex, t \in Terms : ClearEntriesBefore(i, t)
    BY <1>4 DEF ContractClearEntriesCall, ClearEntriesCall
  <2>2. Abstract!Stable(i, t) \/ UNCHANGED vars
    BY <1>4, <2>1, ClearEntriesStabilises DEF ContractClearEntriesCall
  <2>3. QED BY <1>1, <2>2 DEF Abstract!Next
<1>5. CASE ClearSnapshotCall
  <2>1. /\ m_snapshot' \in {m_snapshot, NoSnapshot}
        /\ UNCHANGED <<m_entries, m_offset, status>>
    BY <1>5 DEF ClearSnapshotCall, ClearSnapshot
  <2>2. UNCHANGED HeldTerms
    BY <2>1 DEF HeldTerms
  <2>3. CASE m_snapshot' = NoSnapshot
    BY <2>1, <2>2, <2>3 DEF Abstract!Next, Abstract!SnapshotStable
  <2>4. CASE m_snapshot' = m_snapshot
    BY <1>1, <2>1, <2>4 DEF vars
  <2>5. QED BY <2>1, <2>3, <2>4
<1>6. CASE LoadCall
  <2>1. PICK snap \in Snapshots \cup {NoSnapshot} : Load(snap)
    BY <1>6 DEF LoadCall
  <2>2. HeldTerms' = <<>>
    <3>1. m_entries' = <<>>
      BY <2>1 DEF Load
    <3>2. QED BY <3>1, EmptySeq DEF HeldTerms
  <2>3. Abstract!Restore(snap)
    BY <2>1, <2>2 DEF Load, OffsetAfter, Abstract!Restore
  <2>4. QED BY <2>3 DEF Abstract!Next, Snapshots
<1>7. QED BY <1>1, <1>2, <1>3, <1>4, <1>5, <1>6 DEF ContractNext

(* For callers that keep the contract, the deque, the offset and the       *)
(* truncation arithmetic of volatile_state.cpp implement the abstract      *)
(* unstable log.                                                           *)
THEOREM Implementation == ContractSpec => ImplementsUnstableLog
<1>1. Init => Abstract!Init
  BY NoEntriesNoTerms DEF Init, Abstract!Init
<1>2. ContractInv /\ [ContractNext]_vars => [Abstract!Next]_(Abstract!absVars)
  BY ContractStepRefines
<1>3. QED BY <1>1, <1>2, ContractInvariant, PTL
          DEF ContractSpec, ImplementsUnstableLog, Abstract!Spec
=============================================================================
