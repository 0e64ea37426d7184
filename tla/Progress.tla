-------------------------------- MODULE Progress --------------------------------
(***************************************************************************)
(* What a leader would know of one peer (raftcore/progress.cpp): the last  *)
(* index the peer has, the next to send, how entries are sent, and the     *)
(* window of messages under way.  No caller in the code makes a Progress   *)
(* yet; it is driven here by all its public methods, by Raft::Reset, which *)
(* rewinds the Progress of every peer, and by a leader that sends messages *)
(* in the order of their last index.                                       *)
(*                                                                         *)
(* Not modelled: learner, which nothing reads, and indexes near 2^64.      *)
(* Names that end in _mutant are as in VolatileState.                      *)
(***************************************************************************)
EXTENDS Integers, Sequences

CONSTANTS MaxIndex,   \* highest index a caller uses (a bound)
          Size        \* messages the window of a new Progress can hold

ASSUME ProgressAssumption == MaxIndex \in Nat /\ Size \in Nat

VARIABLES m_match, m_next, m_state, m_paused, m_active,
          m_pending_snapshot_index,
          m_buffer, m_count, m_size     \* m_inflights

inflights == <<m_buffer, m_count, m_size>>
vars == <<m_match, m_next, m_state, m_paused, m_active,
          m_pending_snapshot_index, inflights>>

States == {"Probe", "Replicate", "Snapshot"}   \* ProgressStateType

TypeOK ==
  /\ m_match \in 0 .. MaxIndex
  /\ m_next \in 0 .. MaxIndex + 1
  /\ m_state \in States
  /\ m_paused \in BOOLEAN
  /\ m_active \in BOOLEAN
  /\ m_pending_snapshot_index \in 0 .. MaxIndex
  /\ m_buffer \in Seq(1 .. MaxIndex)
  /\ m_count \in 0 .. Size
  /\ m_size \in {0, Size}

Init ==
  /\ m_match = 0
  /\ m_next = 1
  /\ m_state = "Probe"
  /\ m_paused = FALSE
  /\ m_active = TRUE
  /\ m_pending_snapshot_index = 0
  /\ m_buffer = <<>>
  /\ m_count = 0
  /\ m_size = Size

-----------------------------------------------------------------------------
(* Inflights *)

Full == m_size = m_count

Add_mutant(index) ==    \* room for one more than m_size
  /\ IF m_count > m_size
     THEN UNCHANGED inflights
     ELSE /\ m_buffer' = Append(m_buffer, index)
          /\ m_count' = m_count + 1
          /\ UNCHANGED m_size
  /\ UNCHANGED <<m_match, m_next, m_state, m_paused, m_active,
                 m_pending_snapshot_index>>

Add(index) ==
  /\ IF Full
     THEN UNCHANGED inflights
     ELSE /\ m_buffer' = Append(m_buffer, index)
          /\ m_count' = m_count + 1
          /\ UNCHANGED m_size
  /\ UNCHANGED <<m_match, m_next, m_state, m_paused, m_active,
                 m_pending_snapshot_index>>

(* Forget the first k messages under way.                                  *)
Forget(k) ==
  /\ m_buffer' = SubSeq(m_buffer, k + 1, Len(m_buffer))
  /\ m_count' = m_count - k
  /\ UNCHANGED <<m_match, m_next, m_state, m_paused, m_active,
                 m_pending_snapshot_index, m_size>>

Freeto_mutant(index) ==    \* `>' where the code has `>='
  \E k \in 0 .. m_count :
    /\ \A j \in 1 .. k : index > m_buffer[j]
    /\ k < m_count => ~(index > m_buffer[k + 1])
    /\ Forget(k)

Freeto(index) ==
  \E k \in 0 .. m_count :
    /\ \A j \in 1 .. k : index >= m_buffer[j]
    /\ k < m_count => ~(index >= m_buffer[k + 1])
    /\ Forget(k)

FreeFirstOne_mutant == Forget(1)    \* without the test of m_count

FreeFirstOne == m_count > 0 /\ Forget(1)

(* Inflights::Reset takes the capacity away with the messages.             *)
InflightsReset_mutant ==
  /\ m_buffer' = <<>>
  /\ m_count' = 0
  /\ UNCHANGED m_size

InflightsReset ==
  /\ m_size' = 0
  /\ m_count' = 0
  /\ m_buffer' = <<>>

-----------------------------------------------------------------------------
(* Progress *)

SetState(state) ==
  /\ m_state' = state
  /\ m_paused' = FALSE
  /\ InflightsReset

Larger(a, b) == IF a > b THEN a ELSE b

BecomeProbe ==
  /\ m_next' = IF m_state = "Snapshot"
               THEN Larger(m_match + 1, m_pending_snapshot_index + 1)
               ELSE m_match + 1
  /\ SetState("Probe")
  /\ UNCHANGED <<m_match, m_active, m_pending_snapshot_index>>

BecomeReplicate ==
  /\ SetState("Replicate")
  /\ m_next' = m_match + 1
  /\ UNCHANGED <<m_match, m_active, m_pending_snapshot_index>>

BecomeSnapshot(snapshot_index) ==
  /\ SetState("Snapshot")
  /\ m_pending_snapshot_index' = snapshot_index
  /\ UNCHANGED <<m_match, m_next, m_active>>

SetPaused(paused) ==
  /\ m_paused' = paused
  /\ UNCHANGED <<m_match, m_next, m_state, m_active, m_pending_snapshot_index,
                 inflights>>

Pause  == SetPaused(TRUE)
Resume == SetPaused(FALSE)

MayUpdate_mutant(match_index) ==    \* m_next moves with m_match only
  /\ IF match_index > m_match
     THEN m_match' = match_index /\ m_paused' = FALSE
     ELSE UNCHANGED <<m_match, m_paused>>
  /\ UNCHANGED <<m_next, m_state, m_active, m_pending_snapshot_index, inflights>>

MayUpdate(match_index) ==
  /\ IF match_index > m_match
     THEN m_match' = match_index /\ m_paused' = FALSE
     ELSE UNCHANGED <<m_match, m_paused>>
  /\ m_next' = Larger(m_next, match_index + 1)
  /\ UNCHANGED <<m_state, m_active, m_pending_snapshot_index, inflights>>

SendStopped ==
  CASE m_state = "Probe"     -> m_paused
    [] m_state = "Replicate" -> Full
    [] OTHER                 -> TRUE

Reset ==
  /\ m_match' = 0
  /\ m_next' = 0
  /\ m_state' = "Probe"
  /\ m_paused' = FALSE
  /\ m_active' = FALSE
  /\ InflightsReset
  /\ m_pending_snapshot_index' = 0

(* Raft::Reset on a peer of a node whose log ends at `last'; the state and *)
(* the pause flag stay.  `self' tells whether the peer is the node itself. *)
Rewind(last, self) ==
  /\ m_next' = last + 1
  /\ m_active' = TRUE
  /\ m_pending_snapshot_index' = 0
  /\ InflightsReset
  /\ m_match' = IF self THEN last ELSE 0
  /\ UNCHANGED <<m_state, m_paused>>

-----------------------------------------------------------------------------
(* The callers *)

(* A leader sends messages in the order of their last index.               *)
SendCall ==
  \E index \in 1 .. MaxIndex :
    /\ \A k \in 1 .. Len(m_buffer) : index > m_buffer[k]
    /\ Add(index)

AckCall == \E index \in 0 .. MaxIndex : Freeto(index)

UpdateCall == \E match_index \in 0 .. MaxIndex : MayUpdate(match_index)

SnapshotCall == \E index \in 0 .. MaxIndex : BecomeSnapshot(index)

SetStateCall ==
  /\ \E state \in States : SetState(state)
  /\ UNCHANGED <<m_match, m_next, m_active, m_pending_snapshot_index>>

RewindCall == \E last \in 0 .. MaxIndex, self \in BOOLEAN : Rewind(last, self)

Next ==
  \/ SendCall
  \/ AckCall
  \/ FreeFirstOne
  \/ BecomeProbe
  \/ BecomeReplicate
  \/ SnapshotCall
  \/ SetStateCall
  \/ Pause
  \/ Resume
  \/ UpdateCall
  \/ Reset
  \/ RewindCall

Spec == Init /\ [][Next]_vars

-----------------------------------------------------------------------------
(* Properties *)

(* The window's counter is the number of messages it holds, never more     *)
(* than its capacity, also after the capacity has become 0; Full tests for *)
(* equality, so one message too many would open the window for ever.       *)
WindowOK == m_count = Len(m_buffer) /\ m_count <= m_size

(* The next entry to send is above those the peer has, whatever order      *)
(* acknowledgements, state changes and rewinds come in; only               *)
(* Progress::Reset leaves both at 0.                                       *)
NextAboveMatch == m_next > m_match \/ (m_next = 0 /\ m_match = 0)

(* Freeing up to an index leaves only later messages under way: Freeto     *)
(* looks no further than the first one it keeps, which is enough because   *)
(* the window stays in order.                                              *)
AckFreesWindow ==
  [][\A index \in 0 .. MaxIndex :
       Freeto(index) => \A k \in 1 .. Len(m_buffer') : m_buffer'[k] > index]_vars

(* A peer that replicates never gets a message: each way into that state   *)
(* passes through Inflights::Reset, which leaves a window of capacity 0    *)
(* that is full while empty (progress.cpp:11-14, 45-50).                   *)
ReplicateStalls == m_state = "Replicate" => SendStopped /\ m_buffer = <<>>
=============================================================================
