----------------------------- MODULE RaftNodeProofs -----------------------------
(***************************************************************************)
(* Proofs about RaftNode, for every cluster, every set of configurations   *)
(* and every width of int and uint64_t.                                    *)
(***************************************************************************)
EXTENDS RaftNode, TLAPS

-----------------------------------------------------------------------------
(* The arithmetic of the election timeout *)

(* The tick counts of a configuration are words.                           *)
LEMMA TicksTyped ==
  ASSUME NEW c \in Configs
  PROVE  /\ c.m_heartbeat_tick \in Nat /\ c.m_election_tick \in Nat
         /\ c.m_election_tick \in 0 .. WordLimit - 1
         /\ 0 \in 0 .. WordLimit - 1
<1>1. c.m_heartbeat_tick \in Ticks /\ c.m_election_tick \in Ticks
  BY DEF Configs
<1>2. Ticks \subseteq 0 .. WordLimit - 1 /\ WordLimit \in Nat
  BY NodeAssumption
<1>3. \A t \in Ticks : t \in Nat /\ t \in 0 .. WordLimit - 1 /\ WordLimit > 0
  BY <1>2
<1>4. /\ c.m_heartbeat_tick \in Nat /\ c.m_election_tick \in Nat
      /\ c.m_election_tick \in 0 .. WordLimit - 1
      /\ WordLimit > 0
  BY <1>1, <1>3, Zenon
<1>5. 0 \in 0 .. WordLimit - 1
  BY <1>2, <1>4
<1>6. QED BY <1>4, <1>5

(* Division with remainder.                                                *)
LEMMA Division ==
  ASSUME NEW d \in Nat \ {0}, NEW n \in Nat
  PROVE  /\ n = d * (n \div d) + (n % d)
         /\ n \div d \in Nat
         /\ n % d \in 0 .. d - 1
  BY Z3

(* Multiples of d are d apart.                                             *)
LEMMA Multiples ==
  ASSUME NEW d \in Nat \ {0}, NEW j \in Int, NEW k \in Int, d * j < d * k
  PROVE  d * j + d <= d * k
<1>1. j < k
  <2>1. ASSUME j >= k PROVE d * j >= d * k
    BY <2>1
  <2>2. QED BY <2>1
<1>2. j + 1 <= k
  BY <1>1
<1>3. d * (j + 1) <= d * k
  BY <1>2
<1>4. d * (j + 1) = d * j + d
  OBVIOUS
<1>5. QED BY <1>3, <1>4

(* A tick count that stays positive as an int can be added to the tick     *)
(* count it came from: the sum is no more than twice that, and never wraps. *)
LEMMA TicksFit ==
  ASSUME NEW tick \in 0 .. WordLimit - 1, tick % (2 * IntLimit) < IntLimit
  PROVE  /\ tick % (2 * IntLimit) \in 0 .. tick
         /\ tick + (tick % (2 * IntLimit)) < WordLimit
<1> USE NodeAssumption
<1> DEFINE d == 2 * IntLimit
           low == tick % d
           whole == d * (tick \div d)
<1>1. d \in Nat \ {0} /\ tick \in Nat /\ WordLimit % d = 0
  OBVIOUS
<1>2. low + low < d
  BY <1>1
<1> HIDE DEF d
<1>3. /\ tick = whole + low /\ tick \div d \in Nat /\ low \in 0 .. d - 1
      /\ WordLimit = d * (WordLimit \div d) + (WordLimit % d)
      /\ WordLimit \div d \in Nat
  BY <1>1, Division
<1>4. whole \in Nat /\ d * (WordLimit \div d) \in Nat
  BY <1>1, <1>3
<1>5. WordLimit = d * (WordLimit \div d)
  BY <1>1, <1>3, <1>4
<1>6. whole < d * (WordLimit \div d)
  BY <1>1, <1>3, <1>4, <1>5
<1>7. whole + d <= d * (WordLimit \div d)
  BY <1>1, <1>3, <1>6, Multiples
<1>8. low \in 0 .. tick
  BY <1>1, <1>3, <1>4
<1>9. tick + low < WordLimit
  BY <1>1, <1>2, <1>3, <1>4, <1>5, <1>7
<1>10. QED BY <1>8, <1>9 DEF d

(* What Reset can leave in m_random_election_tick.                         *)
LEMMA TimeoutDrawn ==
  ASSUME NEW tick \in 0 .. WordLimit - 1, NEW r \in RandomResults(tick)
  PROVE  /\ (r + tick) % WordLimit = r + tick
         /\ r + tick \in tick .. 2 * tick
         /\ r + tick < WordLimit
<1> USE NodeAssumption
<1> DEFINE low == tick % (2 * IntLimit)
<1>1. low \in 0 .. 2 * IntLimit - 1
  OBVIOUS
<1>2. AsInt(tick) = IF low < IntLimit THEN low ELSE low - 2 * IntLimit
  BY DEF AsInt
<1>3. r \in 0 .. AsInt(tick)
  BY DEF RandomResults
<1> HIDE DEF low
<1>4. low < IntLimit /\ AsInt(tick) = low
  BY <1>1, <1>2, <1>3
<1>5. low \in 0 .. tick /\ tick + low < WordLimit
  BY <1>4, TicksFit DEF low
<1>6. r \in Nat /\ r <= low
  BY <1>3, <1>4
<1>7. r + tick \in tick .. 2 * tick /\ r + tick < WordLimit
  BY <1>5, <1>6
<1>8. (r + tick) % WordLimit = r + tick
  BY <1>6, <1>7
<1>9. QED BY <1>7, <1>8

-----------------------------------------------------------------------------
(* Steps *)

(* What following a leader does, when it is defined.                       *)
LEMMA Follows ==
  ASSUME TypeOK, NEW msg \in Messages, msg.m_type \in LeaderMessages,
         BecomeFollower(msg.m_term, msg.m_from), UNCHANGED cfg
  PROVE  \/ Fail("undefined")
         \/ /\ m_cur_term' = msg.m_term /\ msg.m_term \in 1 .. MaxTerm
            /\ m_leader' = msg.m_from /\ msg.m_from = LeaderOf[msg.m_term]
            /\ m_leader' \in Nodes
            /\ m_vote_for' = IF msg.m_term # m_cur_term THEN 0 ELSE m_vote_for
            /\ m_cur_state' = "Follower"
            /\ m_random_election_tick' \in 0 .. WordLimit - 1
            /\ m_random_election_tick' \in
                 cfg.m_election_tick .. 2 * cfg.m_election_tick
            /\ UNCHANGED <<m_commit, status>>
<1> USE NodeAssumption
<1>1. msg.m_term \in 1 .. MaxTerm /\ msg.m_from = LeaderOf[msg.m_term]
  BY DEF Messages
<1>2. cfg.m_election_tick \in 0 .. WordLimit - 1
  BY TicksTyped DEF TypeOK
<1>3. ASSUME Reset(msg.m_term)
      PROVE  /\ m_random_election_tick' \in 0 .. WordLimit - 1
             /\ m_random_election_tick' \in
                  cfg.m_election_tick .. 2 * cfg.m_election_tick
  <2>1. PICK r \in RandomResults(cfg.m_election_tick) :
          m_random_election_tick' = (r + cfg.m_election_tick) % WordLimit
    BY <1>3 DEF Reset
  <2>2. /\ m_random_election_tick' = r + cfg.m_election_tick
        /\ r + cfg.m_election_tick \in
             cfg.m_election_tick .. 2 * cfg.m_election_tick
        /\ r + cfg.m_election_tick < WordLimit
    BY <1>2, <2>1, TimeoutDrawn
  <2>3. QED BY <1>2, <2>2
<1>4. CASE Fail("undefined")
  BY <1>4
<1>5. CASE /\ Reset(msg.m_term)
           /\ m_cur_state' = "Follower"
           /\ m_leader' = msg.m_from
           /\ UNCHANGED <<m_commit, status>>
  BY <1>1, <1>3, <1>5 DEF Reset
<1>6. QED BY <1>4, <1>5 DEF BecomeFollower

(* The properties of a state that hold for as long as the node runs.       *)
Inv == TypeOK /\ FollowsTermLeader /\ TimeoutInRange /\ NoVoteUnderLeader

(* A message keeps them.                                                   *)
LEMMA StepCallKeeps ==
  ASSUME Inv, StepCall
  PROVE  Inv'
<1> USE NodeAssumption DEF Inv
<1>1. PICK msg \in Messages : StepMessage(msg)
  BY DEF StepCall
<1>2. UNCHANGED <<cfg, storageVars>>
  BY <1>1 DEF StepMessage
<1>3. CASE UNCHANGED nodeVars
  BY <1>2, <1>3 DEF TypeOK, FollowsTermLeader, TimeoutInRange, NoVoteUnderLeader,
                    nodeVars, storageVars
<1>4. CASE /\ Newer(msg) /\ msg.m_type \in LeaderMessages
           /\ BecomeFollower(msg.m_term, msg.m_from)
  <2>1. CASE Fail("undefined")
    BY <1>2, <2>1 DEF Fail, TypeOK, FollowsTermLeader, TimeoutInRange,
                      NoVoteUnderLeader, storageVars
  <2>2. CASE ~Fail("undefined")
    <3>1. /\ m_cur_term' = msg.m_term /\ msg.m_term \in 1 .. MaxTerm
          /\ m_leader' = LeaderOf[msg.m_term] /\ m_leader' \in Nodes
          /\ m_vote_for' = IF msg.m_term # m_cur_term THEN 0 ELSE m_vote_for
          /\ m_cur_state' = "Follower"
          /\ m_random_election_tick' \in 0 .. WordLimit - 1
          /\ m_random_election_tick' \in
               cfg.m_election_tick .. 2 * cfg.m_election_tick
          /\ UNCHANGED <<m_commit, status>>
      BY <1>2, <1>4, <2>2, Follows
    <3>2. TypeOK'
      BY <1>2, <3>1 DEF TypeOK, StateTypes, storageVars
    <3>3. (FollowsTermLeader /\ TimeoutInRange)'
      BY <1>2, <3>1 DEF FollowsTermLeader, TimeoutInRange
    <3>4. m_vote_for' = 0
      <4>1. msg.m_term > m_cur_term
        BY <1>4 DEF Newer
      <4>2. msg.m_term \in Int /\ m_cur_term \in Int
        BY DEF TypeOK, Messages
      <4>3. msg.m_term # m_cur_term
        BY <4>1, <4>2
      <4>4. QED BY <3>1, <4>3
    <3>5. QED BY <3>2, <3>3, <3>4 DEF NoVoteUnderLeader
  <2>3. QED BY <2>1, <2>2
<1>5. CASE /\ m_vote_for' = VoteAfter(msg)
           /\ UNCHANGED <<m_cur_term, m_leader, m_cur_state,
                          m_random_election_tick, m_commit, status>>
  <2>1. m_vote_for' \in Nodes \cup {0}
    BY <1>5 DEF VoteAfter, Messages
  <2>2. NoVoteUnderLeader'
    BY <1>5 DEF VoteAfter, NoVoteUnderLeader
  <2>3. (TypeOK /\ FollowsTermLeader /\ TimeoutInRange)'
    BY <1>2, <1>5, <2>1 DEF TypeOK, FollowsTermLeader, TimeoutInRange, storageVars
  <2>4. QED BY <2>2, <2>3
<1>6. QED BY <1>1, <1>3, <1>4, <1>5 DEF StepMessage

(* A new process keeps them.                                               *)
LEMMA RestartKeeps ==
  ASSUME Inv, RestartCall
  PROVE  Inv'
<1> USE NodeAssumption DEF Inv
<1>1. PICK members \in BOOLEAN : Construct([cfg EXCEPT !.m_members = members])
  BY DEF RestartCall
<1> DEFINE c == [cfg EXCEPT !.m_members = members]
<1>2. /\ c \in Configs
      /\ c.m_election_tick = cfg.m_election_tick
      /\ c.m_heartbeat_tick = cfg.m_heartbeat_tick
  BY DEF TypeOK, Configs
<1> HIDE DEF c
<1>3. Construct(c)
  BY <1>1 DEF c
<1>4. cfg' = c /\ UNCHANGED storageVars
  BY <1>3 DEF Construct
<1>5. PICK valid \in ValidateResults(c) :
        \/ Fail("panicked")
        \/ /\ valid
           /\ m_cur_term' = 0
           /\ m_vote_for' = 0
           /\ m_leader' = 0
           /\ m_cur_state' \in StateTypes
           /\ m_random_election_tick' = 0
           /\ m_commit' = BuiltCommit
           /\ status' = "running"
  BY <1>3 DEF Construct
<1>6. CASE Fail("panicked")
  BY <1>2, <1>4, <1>6 DEF Fail, TypeOK, FollowsTermLeader, TimeoutInRange,
                          NoVoteUnderLeader, storageVars
<1>7. CASE valid /\ ~Fail("panicked")
  <2>1. TypeOK'
    BY <1>2, <1>4, <1>5, <1>7 DEF TypeOK, BuiltCommit, storageVars, Fail, Configs
  <2>2. (FollowsTermLeader /\ TimeoutInRange /\ NoVoteUnderLeader)'
    BY <1>5, <1>7 DEF FollowsTermLeader, TimeoutInRange, NoVoteUnderLeader
  <2>3. QED BY <2>1, <2>2
<1>8. QED BY <1>5, <1>6, <1>7

(* Loading a hard state, restoring a snapshot and doing nothing keep them. *)
LEMMA OthersKeep ==
  ASSUME Inv, LoadCall \/ SnapshotCall \/ UNCHANGED vars
  PROVE  Inv'
<1> USE NodeAssumption DEF Inv
<1>1. CASE LoadCall
  <2>1. PICK hs \in HardStates : LoadState(hs) /\ m_leader = 0
    BY <1>1 DEF LoadCall
  <2>2. /\ m_leader' = 0
        /\ UNCHANGED <<cfg, storageVars, m_leader, m_cur_state,
                       m_random_election_tick, status>>
        /\ m_commit' \in 0 .. MaxIndex
        /\ m_cur_term' \in 0 .. MaxTerm
        /\ m_vote_for' \in Nodes \cup {0}
    BY <2>1 DEF LoadState, HardStates, TypeOK, vars, nodeVars
  <2>3. QED BY <2>2 DEF TypeOK, FollowsTermLeader, TimeoutInRange,
                        NoVoteUnderLeader, storageVars
<1>2. CASE SnapshotCall
  BY <1>2 DEF SnapshotCall, ApplySnapshot, TypeOK, FollowsTermLeader,
              TimeoutInRange, NoVoteUnderLeader, storageVars, nodeVars
<1>3. CASE UNCHANGED vars
  BY <1>3 DEF vars, storageVars, nodeVars, TypeOK, FollowsTermLeader,
              TimeoutInRange, NoVoteUnderLeader
<1>4. QED BY <1>1, <1>2, <1>3

(* They hold whatever messages, hard states, snapshots and restarts come.  *)
LEMMA NodeInvariant == Spec => []Inv
<1> USE NodeAssumption
<1>1. Init => Inv
  <2> SUFFICES ASSUME Init PROVE Inv
    OBVIOUS
  <2>1. PICK valid \in ValidateResults(cfg) :
          status = IF valid THEN "running" ELSE "panicked"
    BY DEF Init
  <2>2. cfg \in Configs
    BY DEF Init
  <2>4. TypeOK
    <3>1. status \in {"running", "panicked", "undefined"}
      BY <2>1
    <3>2. 0 \in 0 .. WordLimit - 1
      BY <2>2, TicksTyped
    <3>3. 0 \in 0 .. MaxTerm /\ 0 \in 0 .. MaxIndex
      OBVIOUS
    <3>4. QED BY <2>2, <3>1, <3>2, <3>3 DEF Init, TypeOK
  <2>5. QED BY <2>4 DEF Inv, Init, FollowsTermLeader, TimeoutInRange,
                        NoVoteUnderLeader
<1>2. Inv /\ [Next]_vars => Inv'
  BY StepCallKeeps, RestartKeeps, OthersKeep DEF Next
<1>3. QED BY <1>1, <1>2, PTL DEF Spec

-----------------------------------------------------------------------------
(* Theorems *)

(* Every field of a node stays in its range (raft.cpp).                    *)
THEOREM NodeTypeCorrect == Spec => []TypeOK
  BY NodeInvariant, PTL DEF Inv

(* A node that knows a leader follows that of its term.                    *)
THEOREM FollowsTermLeaderHolds == Spec => []FollowsTermLeader
  BY NodeInvariant, PTL DEF Inv

(* The election timeout is in range for every width of the integers it     *)
(* passes through, and never wraps (raft.cpp:67).                          *)
THEOREM TimeoutInRangeHolds == Spec => []TimeoutInRange
  BY NodeInvariant, PTL DEF Inv

(* No vote request gives a node that follows a leader a vote.              *)
THEOREM NoVoteUnderLeaderHolds == Spec => []NoVoteUnderLeader
  BY NodeInvariant, PTL DEF Inv
=============================================================================
