------------------------------- MODULE Protocol -------------------------------
(***************************************************************************)
(* The messages of raftcore/protocol.h: the fields that the MSGPACK_DEFINE *)
(* of each struct names, in its order.                                     *)
(***************************************************************************)
EXTENDS Msgpack

ConfState == Struct(<<List(Uint64), List(Uint64)>>)     \* m_peers, m_learners

SnapshotMetadata == Struct(<<ConfState, Uint64, Uint64>>)
                                             \* m_conf_state, m_index, m_term

Snapshot == Struct(<<SnapshotMetadata, Str>>)           \* m_snapshot_metadata, m_data

Entry == Struct(<<Uint64, Uint64, Int32, Str>>)    \* m_index, m_term, m_type, m_data

(* m_type, m_to, m_from, m_term, m_log_term, m_index, m_entries, m_commit, *)
(* m_snapshot, m_reject, m_reject_hint, m_context                          *)
Message ==
  Struct(<<Int32, Uint64, Uint64, Uint64, Uint64, Uint64, List(Entry),
           Uint64, Snapshot, Bool, Uint64, Str>>)

HardState == Struct(<<Uint64, Uint64, Uint64>>)          \* m_term, m_vote, m_commit

ConfChange == Struct(<<Uint64, Int32, Uint64, Str>>)
                                             \* m_id, m_type, m_node_id, m_context
=============================================================================
