-------------------------------- MODULE RaftNode --------------------------------
(***************************************************************************)
(* A Raft node (raftcore/raft.cpp) with its configuration and the part of  *)
(* the storage that its constructor reads.                                 *)
(*                                                                         *)
(* The node's log takes part through its commit index only.  m_peers and   *)
(* m_learners are never filled, so the loops of Reset run over nothing     *)
(* (Progress!Rewind is their body); other fields keep one value for life.  *)
(* Senders are external: they are the nodes of a Raft cluster, where a     *)
(* term has one leader and only it sends MsgApp, MsgHeartbeat and MsgSnap. *)
(*                                                                         *)
(* Panic and undefined behaviour end the process; a new one may be started *)
(* at any time.  Names that end in _mutant are as in VolatileState.        *)
(***************************************************************************)
EXTENDS Integers

CONSTANTS Nodes,       \* the ids of nodes; 0 stands for none
          MaxTerm,     \* highest term in a message or hard state (a bound)
          MaxIndex,    \* highest index of a snapshot or hard state (a bound)
          LeaderOf,    \* the leader of each term
          Ticks,       \* tick counts that a configuration may have
          IntLimit,    \* an int is below this: 2^31 in the code
          WordLimit    \* a uint64_t is below this: 2^64 in the code

ASSUME NodeAssumption ==
  /\ Nodes \subseteq Nat \ {0}
  /\ MaxTerm \in Nat
  /\ MaxIndex \in Nat
  /\ LeaderOf \in [1 .. MaxTerm -> Nodes]
  /\ IntLimit \in Nat \ {0}
  /\ WordLimit \in Nat
  /\ WordLimit % (2 * IntLimit) = 0
  /\ Ticks \subseteq 0 .. WordLimit - 1

VARIABLES
  cfg,                       \* the configuration of the last node built
  s_index, s_members,        \* the storage: its snapshot's index, and whether
                             \* that snapshot names the cluster's members
  m_cur_term, m_vote_for, m_leader, m_cur_state, m_random_election_tick,
  m_commit,                  \* m_raftlog's commit index
  status                     \* "running", "panicked" or "undefined"

storageVars == <<s_index, s_members>>
nodeVars    == <<m_cur_term, m_vote_for, m_leader, m_cur_state,
                 m_random_election_tick, m_commit, status>>
vars        == <<cfg, storageVars, nodeVars>>

(* m_sound: the id, the sizes and the read option pass their tests;        *)
(* m_members: m_peers or m_learners is not empty.                          *)
Configs == [m_heartbeat_tick : Ticks, m_election_tick : Ticks,
            m_sound : BOOLEAN, m_members : BOOLEAN]

StateTypes == {"Follower", "PreCandidate", "Candidate", "Leader"}

LeaderMessages == {"MsgApp", "MsgHeartbeat", "MsgSnap"}
VoteMessages   == {"MsgPreVote", "MsgVote"}

Messages ==
  {m \in [m_type : LeaderMessages \cup VoteMessages \cup {"other"},
          m_from : Nodes, m_term : 0 .. MaxTerm] :
     m.m_type \in LeaderMessages =>
       m.m_term # 0 /\ m.m_from = LeaderOf[m.m_term]}

HardStates == [m_term : 0 .. MaxTerm, m_vote : Nodes \cup {0},
               m_commit : 0 .. MaxIndex]

TypeOK ==
  /\ cfg \in Configs
  /\ s_index \in 0 .. MaxIndex
  /\ s_members \in BOOLEAN
  /\ m_cur_term \in 0 .. MaxTerm
  /\ m_vote_for \in Nodes \cup {0}
  /\ m_leader \in Nodes \cup {0}
  /\ m_cur_state \in StateTypes
  /\ m_random_election_tick \in 0 .. WordLimit - 1
  /\ m_commit \in 0 .. MaxIndex
  /\ status \in {"running", "panicked", "undefined"}

-----------------------------------------------------------------------------
(* RaftConfig::Validate *)

TenHeartbeats(c) == (10 * c.m_heartbeat_tick) % WordLimit

Rejected(c) ==
  \/ ~c.m_sound
  \/ c.m_heartbeat_tick = 0
  \/ c.m_election_tick < TenHeartbeats(c)

(* A configuration that passes every test reaches the end of a function    *)
(* that returns no value there: either result is possible.                 *)
ValidateResults(c) == IF Rejected(c) THEN {FALSE} ELSE BOOLEAN

-----------------------------------------------------------------------------
(* The node *)

Fail(how) ==
  /\ status' = how
  /\ UNCHANGED <<m_cur_term, m_vote_for, m_leader, m_cur_state,
                 m_random_election_tick, m_commit>>

BuiltCommit_mutant == s_index + 1

BuiltCommit == s_index    \* the RaftLog constructor: FirstIndex() - 1

(* The constructor.  Its local m_cur_state hides the member, which is left *)
(* with any value.  LoadState, called last, changes nothing: the storage's *)
(* hard state is always zero (memory_storage.cpp:13-16).                   *)
Construct(c) ==
  /\ cfg' = c
  /\ UNCHANGED storageVars
  /\ \E valid \in ValidateResults(c) :
       \/ ~valid /\ Fail("panicked")
       \/ valid /\ s_members /\ c.m_members /\ Fail("panicked")
       \/ /\ valid /\ ~(s_members /\ c.m_members)
          /\ m_cur_term' = 0
          /\ m_vote_for' = 0
          /\ m_leader' = 0
          /\ m_cur_state' \in StateTypes
          /\ m_random_election_tick' = 0
          /\ m_commit' = BuiltCommit
          /\ status' = "running"

LoadState(hs) ==
  /\ status = "running"
  /\ \/ hs.m_commit < m_commit /\ UNCHANGED vars
     \/ /\ hs.m_commit >= m_commit
        /\ m_commit' = hs.m_commit
        /\ m_cur_term' = hs.m_term
        /\ m_vote_for' = hs.m_vote
        /\ UNCHANGED <<cfg, storageVars, m_leader, m_cur_state,
                       m_random_election_tick, status>>

AsInt_mutant(n) == n    \* nothing is cut off

(* A uint64_t passed as an int keeps its low bits.                         *)
AsInt(n) ==
  LET low == n % (2 * IntLimit)
  IN  IF low < IntLimit THEN low ELSE low - 2 * IntLimit

(* Random(high) is any int from 0 to high; a distribution whose range is   *)
(* empty is undefined.                                                     *)
RandomResults(high) == 0 .. AsInt(high)

Reset(term) ==
  /\ m_cur_term' = term
  /\ m_vote_for' = IF term # m_cur_term THEN 0 ELSE m_vote_for
  /\ \E r \in RandomResults(cfg.m_election_tick) :
       m_random_election_tick' = (r + cfg.m_election_tick) % WordLimit

BecomeFollower_mutant(term, leader) ==    \* without Reset
  /\ m_cur_state' = "Follower"
  /\ m_leader' = leader
  /\ UNCHANGED <<m_cur_term, m_vote_for, m_random_election_tick, m_commit,
                 status>>

BecomeFollower(term, leader) ==
  \/ RandomResults(cfg.m_election_tick) = {} /\ Fail("undefined")
  \/ /\ Reset(term)
     /\ m_cur_state' = "Follower"
     /\ m_leader' = leader
     /\ UNCHANGED <<m_commit, status>>

Newer(msg) == msg.m_term > m_cur_term

VoteAfter_mutant(msg) == IF m_vote_for = 0 THEN msg.m_from ELSE m_vote_for

(* A vote is moved, and never given for the first time.                    *)
VoteAfter(msg) == IF m_vote_for # 0 THEN msg.m_from ELSE 0

StepMessage(msg) ==
  /\ status = "running"
  /\ \/ ~Newer(msg) /\ UNCHANGED nodeVars
     \/ /\ Newer(msg) /\ msg.m_type \in LeaderMessages
        /\ BecomeFollower(msg.m_term, msg.m_from)
     \/ /\ Newer(msg) /\ msg.m_type \in VoteMessages
        /\ m_vote_for' = VoteAfter(msg)
        /\ UNCHANGED <<m_cur_term, m_leader, m_cur_state,
                       m_random_election_tick, m_commit, status>>
     \/ Newer(msg) /\ msg.m_type = "other" /\ UNCHANGED nodeVars
  /\ UNCHANGED <<cfg, storageVars>>

(* MemoryStorage::ApplySnapshot by the owner; an older one is refused.     *)
ApplySnapshot(i, members) ==
  /\ \/ i < s_index /\ UNCHANGED storageVars
     \/ i >= s_index /\ s_index' = i /\ s_members' = members
  /\ UNCHANGED <<cfg, nodeVars>>

-----------------------------------------------------------------------------
(* A node has been built over a new storage.                               *)
Init ==
  /\ cfg \in Configs
  /\ s_index = 0
  /\ s_members = FALSE
  /\ m_cur_term = 0
  /\ m_vote_for = 0
  /\ m_leader = 0
  /\ m_cur_state \in StateTypes
  /\ m_random_election_tick = 0
  /\ m_commit = 0
  /\ \E valid \in ValidateResults(cfg) :
       status = IF valid THEN "running" ELSE "panicked"

(* An owner that has kept a hard state loads it before the node has heard  *)
(* from a leader.                                                          *)
LoadCall == m_leader = 0 /\ \E hs \in HardStates : LoadState(hs)

StepCall == \E msg \in Messages : StepMessage(msg)

(* The members are named in every snapshot from some index on.             *)
SnapshotCall ==
  \E i \in 1 .. MaxIndex, members \in BOOLEAN :
    /\ s_members /\ i >= s_index => members
    /\ i = s_index => members = s_members
    /\ ApplySnapshot(i, members)

(* A new process; only the members in its configuration may differ.        *)
RestartCall ==
  \E members \in BOOLEAN : Construct([cfg EXCEPT !.m_members = members])

Next == LoadCall \/ StepCall \/ SnapshotCall \/ RestartCall

Spec == Init /\ [][Next]_vars

-----------------------------------------------------------------------------
(* Properties *)

(* A node that knows a leader knows that of its term and is a follower,    *)
(* although the constructor leaves m_cur_state unset (raft.cpp:17) and old *)
(* leaders' messages keep arriving.                                        *)
FollowsTermLeader ==
  m_leader # 0 => /\ m_cur_term # 0
                  /\ m_leader = LeaderOf[m_cur_term]
                  /\ m_cur_state = "Follower"

(* A node that knows a leader has no vote: following takes away the vote   *)
(* that was loaded, wherever the requests of other candidates have moved   *)
(* it, and no request of a later term gets one from that node again        *)
(* (raft.cpp:58-62, 125-128), until it is started anew and loads one.      *)
NoVoteUnderLeader == m_leader # 0 => m_vote_for = 0

(* The election timeout of a follower is between once and twice the        *)
(* configured one, although it passes through an int (raft.cpp:67).        *)
TimeoutInRange ==
  m_leader # 0 =>
    m_random_election_tick \in cfg.m_election_tick .. 2 * cfg.m_election_tick

(* "cfg is not validate" (raft.cpp:10) and the message about members on    *)
(* line 37 are the constructor's reasons to panic.                         *)
PanicsWithReason ==
  status = "panicked" => Rejected(cfg) \/ (s_members /\ cfg.m_members)
=============================================================================
