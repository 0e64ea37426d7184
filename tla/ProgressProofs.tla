----------------------------- MODULE ProgressProofs -----------------------------
(***************************************************************************)
(* Proofs about Progress, for every window size and every highest index.   *)
(***************************************************************************)
EXTENDS Progress, SequenceTheorems, TLAPS

(* The messages under way are in the order they were sent in.              *)
InOrder == \A j, k \in 1 .. Len(m_buffer) : j < k => m_buffer[j] < m_buffer[k]

(* The window of a peer that replicates has lost its capacity.             *)
ReplicateHasNoWindow == m_state = "Replicate" => m_size = 0

(* TypeOK in two parts: the flags play no part in the rest.                *)
IndexesOK ==
  /\ m_match \in 0 .. MaxIndex
  /\ m_next \in 0 .. MaxIndex + 1
  /\ m_state \in States
  /\ m_pending_snapshot_index \in 0 .. MaxIndex
  /\ m_buffer \in Seq(1 .. MaxIndex)
  /\ m_count \in 0 .. Size
  /\ m_size \in {0, Size}

FlagsOK == m_paused \in BOOLEAN /\ m_active \in BOOLEAN

ProgressInv ==
  /\ IndexesOK
  /\ WindowOK
  /\ InOrder
  /\ NextAboveMatch
  /\ ReplicateHasNoWindow

(* Nothing but the window changes the window's part of the invariant.      *)
LEMMA WindowKept ==
  ASSUME ProgressInv, UNCHANGED inflights
  PROVE  WindowOK' /\ InOrder' /\ (m_buffer \in Seq(1 .. MaxIndex))'
  BY DEF ProgressInv, IndexesOK, inflights, WindowOK, InOrder

(* An emptied window is consistent; it has no capacity left.               *)
LEMMA WindowReset ==
  ASSUME ProgressInv, InflightsReset
  PROVE  /\ WindowOK' /\ InOrder' /\ m_size' = 0
         /\ (m_buffer \in Seq(1 .. MaxIndex))' /\ (m_count \in 0 .. Size)'
<1>1. Len(<<>>) = 0 /\ <<>> \in Seq(1 .. MaxIndex)
  BY EmptySeq
<1>2. QED BY <1>1, ProgressAssumption DEF InflightsReset, WindowOK, InOrder

(* Dropping messages from the front keeps the order of the others.         *)
LEMMA ForgetStep ==
  ASSUME ProgressInv, NEW k \in 0 .. m_count, Forget(k)
  PROVE  /\ ProgressInv'
         /\ Len(m_buffer') = m_count - k
         /\ \A j \in 1 .. m_count - k : m_buffer'[j] = m_buffer[k + j]
<1> USE ProgressAssumption
<1>1. /\ m_buffer \in Seq(1 .. MaxIndex)
      /\ m_count = Len(m_buffer) /\ m_count \in Nat /\ m_size \in Nat
      /\ m_count <= m_size /\ m_count <= Size
  BY DEF ProgressInv, IndexesOK, WindowOK
<1>2. \A j \in k + 1 .. Len(m_buffer) : m_buffer[j] \in 1 .. MaxIndex
  BY <1>1, ElementOfSeq
<1> DEFINE rest == SubSeq(m_buffer, k + 1, Len(m_buffer))
<1>3. /\ rest \in Seq(1 .. MaxIndex)
      /\ Len(rest) = m_count - k
      /\ \A j \in 1 .. m_count - k : rest[j] = m_buffer[k + j]
  <2>1. k + 1 \in Int /\ Len(m_buffer) \in Int
    BY <1>1
  <2>2. /\ rest \in Seq(1 .. MaxIndex)
        /\ Len(rest) = IF k + 1 <= Len(m_buffer)
                       THEN Len(m_buffer) - (k + 1) + 1 ELSE 0
        /\ \A j \in 1 .. Len(m_buffer) - (k + 1) + 1 :
             rest[j] = m_buffer[k + 1 + j - 1]
    BY <1>2, <2>1, SubSeqProperties
  <2>3. QED BY <1>1, <2>2
<1> HIDE DEF rest
<1>4. m_buffer' = rest /\ m_count' = m_count - k
  BY DEF Forget, rest
<1>5. InOrder'
  <2>1. ASSUME NEW i \in 1 .. m_count - k, NEW j \in 1 .. m_count - k, i < j
        PROVE  rest[i] < rest[j]
    <3>1. /\ k + i \in 1 .. Len(m_buffer) /\ k + j \in 1 .. Len(m_buffer)
          /\ k + i < k + j
      BY <1>1, <2>1
    <3>2. QED BY <1>3, <3>1 DEF ProgressInv, InOrder
  <2>2. QED BY <1>3, <1>4, <2>1 DEF InOrder
<1>6. WindowOK' /\ IndexesOK'
  <2>1. m_count - k \in 0 .. Size /\ m_count - k <= m_size
    BY <1>1
  <2>2. UNCHANGED <<m_match, m_next, m_state, m_pending_snapshot_index, m_size>>
    BY DEF Forget
  <2>3. QED BY <1>3, <1>4, <2>1, <2>2 DEF ProgressInv, IndexesOK, WindowOK
<1>7. NextAboveMatch' /\ ReplicateHasNoWindow'
  BY DEF ProgressInv, Forget, NextAboveMatch, ReplicateHasNoWindow
<1>8. QED BY <1>3, <1>4, <1>5, <1>6, <1>7 DEF ProgressInv

(* A message sent in order keeps the window in order and in capacity.      *)
LEMMA SendStep ==
  ASSUME ProgressInv, SendCall
  PROVE  ProgressInv'
<1> USE ProgressAssumption
<1>1. PICK index \in 1 .. MaxIndex :
        /\ \A k \in 1 .. Len(m_buffer) : index > m_buffer[k]
        /\ Add(index)
  BY DEF SendCall
<1>2. CASE Full
  <2>1. UNCHANGED vars
    BY <1>1, <1>2 DEF Add, vars, inflights
  <2>2. QED BY <2>1 DEF vars, inflights, ProgressInv, IndexesOK, WindowOK, InOrder,
                        NextAboveMatch, ReplicateHasNoWindow
<1>3. CASE ~Full
  <2>1. /\ m_buffer' = Append(m_buffer, index)
        /\ m_count' = m_count + 1
        /\ UNCHANGED <<m_match, m_next, m_state, m_paused, m_active,
                       m_pending_snapshot_index, m_size>>
    BY <1>1, <1>3 DEF Add
  <2>2. /\ m_buffer \in Seq(1 .. MaxIndex) /\ Len(m_buffer) \in Nat
        /\ m_count = Len(m_buffer) /\ m_size \in Nat /\ m_size <= Size
        /\ m_count < m_size
    BY <1>3, LenProperties DEF ProgressInv, IndexesOK, WindowOK, Full
  <2>3. /\ m_buffer' \in Seq(1 .. MaxIndex)
        /\ Len(m_buffer') = Len(m_buffer) + 1
        /\ \A k \in 1 .. Len(m_buffer) : m_buffer'[k] = m_buffer[k]
        /\ m_buffer'[Len(m_buffer) + 1] = index
    BY <2>1, <2>2, AppendProperties
  <2>4. WindowOK' /\ IndexesOK'
    BY <2>1, <2>2, <2>3 DEF ProgressInv, IndexesOK, WindowOK
  <2>5. InOrder'
    <3>1. ASSUME NEW j \in 1 .. Len(m_buffer) + 1,
                 NEW k \in 1 .. Len(m_buffer) + 1, j < k
          PROVE  m_buffer'[j] < m_buffer'[k]
      <4>1. j \in 1 .. Len(m_buffer) /\ m_buffer[j] \in 1 .. MaxIndex
        BY <2>2, <3>1, ElementOfSeq
      <4>2. CASE k = Len(m_buffer) + 1
        BY <1>1, <2>3, <4>1, <4>2
      <4>3. CASE k \in 1 .. Len(m_buffer)
        BY <2>3, <3>1, <4>1, <4>3 DEF ProgressInv, InOrder
      <4>4. QED BY <2>2, <4>2, <4>3
    <3>2. QED BY <2>3, <3>1 DEF InOrder
  <2>6. NextAboveMatch' /\ ReplicateHasNoWindow'
    BY <2>1 DEF ProgressInv, NextAboveMatch, ReplicateHasNoWindow
  <2>7. QED BY <2>4, <2>5, <2>6 DEF ProgressInv
<1>4. QED BY <1>2, <1>3

(* An acknowledgement keeps the invariant and frees all it covers.         *)
LEMMA AckStep ==
  ASSUME ProgressInv, NEW index \in Int, Freeto(index)
  PROVE  /\ ProgressInv'
         /\ \A k \in 1 .. Len(m_buffer') : m_buffer'[k] > index
<1> USE ProgressAssumption
<1>1. PICK k \in 0 .. m_count :
        /\ k < m_count => ~(index >= m_buffer[k + 1])
        /\ Forget(k)
  BY DEF Freeto
<1>2. /\ ProgressInv'
      /\ Len(m_buffer') = m_count - k
      /\ \A j \in 1 .. m_count - k : m_buffer'[j] = m_buffer[k + j]
  BY <1>1, ForgetStep
<1>3. /\ m_buffer \in Seq(1 .. MaxIndex) /\ m_count = Len(m_buffer)
      /\ m_count \in Nat /\ InOrder
  BY LenProperties DEF ProgressInv, IndexesOK, WindowOK
<1>4. ASSUME NEW j \in 1 .. m_count - k PROVE m_buffer[k + j] > index
  <2>1. k + 1 \in 1 .. Len(m_buffer) /\ k + j \in 1 .. Len(m_buffer)
    BY <1>3
  <2>2. m_buffer[k + 1] \in Nat /\ m_buffer[k + j] \in Nat
    BY <1>3, <2>1, ElementOfSeq
  <2>3. m_buffer[k + 1] > index
    BY <1>1, <1>3, <2>1, <2>2
  <2>4. m_buffer[k + 1] <= m_buffer[k + j]
    <3>1. CASE j = 1
      BY <2>2, <3>1
    <3>2. CASE k + 1 < k + j
      BY <1>3, <2>1, <2>2, <3>2 DEF InOrder
    <3>3. QED BY <3>1, <3>2
  <2>5. QED BY <2>2, <2>3, <2>4
<1>5. QED BY <1>2, <1>4

(* The calls that empty the window, and set the rest anew.                 *)
LEMMA ResettingStep ==
  ASSUME ProgressInv,
         \/ BecomeProbe \/ BecomeReplicate \/ SnapshotCall \/ SetStateCall
         \/ Reset \/ RewindCall
  PROVE  ProgressInv'
<1> USE ProgressAssumption DEF ProgressInv
<1>1. InflightsReset
  BY DEF BecomeProbe, BecomeReplicate, SnapshotCall, BecomeSnapshot,
         SetStateCall, SetState, Reset, RewindCall, Rewind
<1>2. /\ WindowOK' /\ InOrder' /\ ReplicateHasNoWindow'
      /\ m_size' = 0 /\ (m_buffer \in Seq(1 .. MaxIndex))' /\ (m_count \in 0 .. Size)'
  BY <1>1, WindowReset DEF ReplicateHasNoWindow
<1>3. CASE BecomeProbe \/ BecomeReplicate
  BY <1>2, <1>3 DEF BecomeProbe, BecomeReplicate, SetState, Larger, IndexesOK,
                    States, NextAboveMatch
<1>4. CASE SnapshotCall \/ SetStateCall
  BY <1>2, <1>4 DEF SnapshotCall, BecomeSnapshot, SetStateCall, SetState,
                    IndexesOK, States, NextAboveMatch
<1>5. CASE Reset \/ RewindCall
  BY <1>2, <1>5 DEF Reset, RewindCall, Rewind, IndexesOK, States, NextAboveMatch
<1>6. QED BY <1>3, <1>4, <1>5

(* Every call keeps the invariant.                                         *)
LEMMA ProgressStep ==
  ASSUME ProgressInv, [Next]_vars
  PROVE  ProgressInv'
<1> USE ProgressAssumption
<1>1. CASE AckCall
  BY <1>1, AckStep DEF AckCall
<1>2. CASE FreeFirstOne
  <2>1. 1 \in 0 .. m_count
    BY <1>2 DEF FreeFirstOne, ProgressInv, IndexesOK
  <2>2. QED BY <1>2, <2>1, ForgetStep DEF FreeFirstOne
<1>3. CASE Pause \/ Resume
  <2>1. UNCHANGED inflights
    BY <1>3 DEF Pause, Resume, SetPaused
  <2>2. QED BY <1>3, <2>1, WindowKept
            DEF Pause, Resume, SetPaused, inflights, ProgressInv, IndexesOK,
                NextAboveMatch, ReplicateHasNoWindow
<1>4. CASE UpdateCall
  <2>1. UNCHANGED inflights
    BY <1>4 DEF UpdateCall, MayUpdate
  <2>2. QED BY <1>4, <2>1, WindowKept
            DEF UpdateCall, MayUpdate, Larger, inflights, ProgressInv, IndexesOK,
                NextAboveMatch, ReplicateHasNoWindow
<1>5. CASE UNCHANGED vars
  BY <1>5 DEF vars, inflights, ProgressInv, IndexesOK, WindowOK, InOrder,
              NextAboveMatch, ReplicateHasNoWindow
<1>6. QED BY <1>1, <1>2, <1>3, <1>4, <1>5, SendStep, ResettingStep DEF Next

(* The invariant holds whatever order the calls come in.                   *)
LEMMA ProgressInvariant == Spec => []ProgressInv
<1>1. Init => ProgressInv
  BY ProgressAssumption, EmptySeq
     DEF Init, ProgressInv, IndexesOK, States, WindowOK, InOrder, NextAboveMatch,
         ReplicateHasNoWindow
<1>2. ProgressInv /\ [Next]_vars => ProgressInv'
  BY ProgressStep
<1>3. QED BY <1>1, <1>2, PTL DEF Spec

(* The window's counter and its contents agree, within its capacity, for   *)
(* every capacity (progress.cpp:5-50).                                     *)
THEOREM WindowOKHolds == Spec => []WindowOK
<1>1. ProgressInv => WindowOK
  BY DEF ProgressInv
<1>2. QED BY <1>1, ProgressInvariant, PTL

(* The next index stays above the matched one (progress.cpp:59-77, 95-106; *)
(* raft.cpp:65-92).                                                        *)
THEOREM NextAboveMatchHolds == Spec => []NextAboveMatch
<1>1. ProgressInv => NextAboveMatch
  BY DEF ProgressInv
<1>2. QED BY <1>1, ProgressInvariant, PTL

(* Whatever capacity the window was made with, a replicating peer's window *)
(* is full while empty (progress.cpp:11-14, 45-50, 52-57).                 *)
THEOREM ReplicateStallsHolds == Spec => []ReplicateStalls
<1>1. ProgressInv => ReplicateStalls
  <2> SUFFICES ASSUME ProgressInv, m_state = "Replicate"
               PROVE  SendStopped /\ m_buffer = <<>>
    BY DEF ReplicateStalls
  <2>1. m_size = 0 /\ m_count = Len(m_buffer) /\ m_count <= m_size
        /\ m_buffer \in Seq(1 .. MaxIndex)
    BY DEF ProgressInv, ReplicateHasNoWindow, WindowOK, IndexesOK
  <2>2. m_buffer = <<>> /\ m_count = 0
    BY <2>1, EmptySeq, LenProperties
  <2>3. QED BY <2>1, <2>2 DEF SendStopped, Full
<1>2. QED BY <1>1, ProgressInvariant, PTL

(* Freeing up to an index leaves only later messages under way             *)
(* (progress.cpp:27-34).                                                   *)
THEOREM AckFreesWindowHolds == Spec => AckFreesWindow
<1>1. ProgressInv /\ [Next]_vars =>
        [\A index \in 0 .. MaxIndex :
           Freeto(index) =>
             \A k \in 1 .. Len(m_buffer') : m_buffer'[k] > index]_vars
  BY AckStep
<1>2. QED BY <1>1, ProgressInvariant, PTL DEF Spec, AckFreesWindow

(* Every field of a Progress stays in its range, whichever methods are     *)
(* called in whichever order (progress.h:32-39).                           *)
THEOREM ProgressTypeCorrect == Spec => []TypeOK
<1>1. Init => FlagsOK
  BY DEF Init, FlagsOK
<1>2. FlagsOK /\ [Next]_vars => FlagsOK'
  <2> SUFFICES ASSUME FlagsOK, [Next]_vars PROVE FlagsOK'
    OBVIOUS
  <2>1. CASE SendCall \/ AckCall \/ FreeFirstOne \/ UNCHANGED vars
    BY <2>1, Zenon DEF FlagsOK, SendCall, Add, AckCall, Freeto, FreeFirstOne,
                       Forget, vars
  <2>2. CASE BecomeProbe \/ BecomeReplicate \/ SnapshotCall \/ SetStateCall
    BY <2>2, Zenon DEF FlagsOK, BecomeProbe, BecomeReplicate, SnapshotCall,
                       BecomeSnapshot, SetStateCall, SetState
  <2>3. CASE Pause \/ Resume \/ UpdateCall
    BY <2>3, Zenon DEF FlagsOK, Pause, Resume, SetPaused, UpdateCall, MayUpdate
  <2>4. CASE Reset \/ RewindCall
    BY <2>4, Zenon DEF FlagsOK, Reset, RewindCall, Rewind
  <2>5. QED BY <2>1, <2>2, <2>3, <2>4 DEF Next
<1>3. ProgressInv /\ FlagsOK => TypeOK
  BY DEF ProgressInv, IndexesOK, FlagsOK, TypeOK
<1>4. QED BY <1>1, <1>2, <1>3, ProgressInvariant, PTL DEF Spec
=============================================================================
