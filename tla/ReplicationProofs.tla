--------------------------- MODULE ReplicationProofs ---------------------------
(***************************************************************************)
(* Proofs about Replication, for any number of elections and indexes, with *)
(* and without asserts: the types, the invariants that the run checks,     *)
(* that no committed entry changes, which messages can fail, and that a    *)
(* follower implements FollowerLog.  Indexes are within IntLimit, except   *)
(* in DuplicateSkippedUnlessWrapped.                                       *)
(***************************************************************************)
EXTENDS Replication, SequenceTheorems, WellFoundedInduction, TLAPS

-----------------------------------------------------------------------------
(* The inductive invariant: the leaders *)

LeadersTyped ==
  /\ leaderLog \in Seq(Seq(Terms))
  /\ leaderCommit \in Seq(0 .. MaxIndex)
  /\ Len(leaderCommit) = LeaderTerm
  /\ LeaderTerm \in 1 .. MaxTerm
  /\ \A t \in 1 .. LeaderTerm : Len(leaderLog[t]) <= MaxIndex
  /\ chosen \in 0 .. MaxIndex

(* Whoever has an entry has it, and all before it, as its creator has them. *)
CreatorHas ==
  \A t \in 1 .. LeaderTerm : \A i \in 1 .. Len(leaderLog[t]) :
    /\ leaderLog[t][i] <= LeaderTerm
    /\ i <= Len(leaderLog[leaderLog[t][i]])
    /\ \A j \in 1 .. i : leaderLog[leaderLog[t][i]][j] = leaderLog[t][j]

(* A leader has what it, or a leader before it, knows to be committed.     *)
LeadersComplete ==
  /\ chosen <= Len(leaderLog[LeaderTerm])
  /\ \A r, t \in 1 .. LeaderTerm : r <= t =>
       /\ leaderCommit[r] <= chosen
       /\ leaderCommit[r] <= Len(leaderLog[t])
       /\ \A i \in 1 .. leaderCommit[r] : leaderLog[t][i] = ChosenTerm(i)

LeaderInv == LeadersTyped /\ CreatorHas /\ LeadersComplete

(* What the leaders may do to what others have seen of them.               *)
Grows ==
  /\ LeaderTerm <= LeaderTerm'
  /\ \A t \in 1 .. LeaderTerm :
       /\ Len(leaderLog[t]) <= Len(leaderLog'[t])
       /\ \A i \in 1 .. Len(leaderLog[t]) : leaderLog'[t][i] = leaderLog[t][i]
       /\ leaderCommit[t] <= leaderCommit'[t]
  /\ chosen <= chosen'
  /\ \A i \in 1 .. chosen : ChosenTerm(i)' = ChosenTerm(i)

-----------------------------------------------------------------------------
(* The inductive invariant: the follower *)

Stored     == s_entries[1].index      \* the placeholder of the storage
StoredTerm == s_entries[1].term

End         == v_offset + Len(v_entries) - 1     \* the last index held
HeldTerm(i) == v_entries[i - v_offset + 1].term

FollowerTyped ==
  /\ v_snapshot = NoSnapshot
  /\ v_entries \in Seq(VS!Entries)
  /\ v_offset \in 1 .. MaxIndex + 1
  /\ s_entries = <<[index |-> Stored, term |-> StoredTerm]>>
  /\ m_commit \in 0 .. MaxIndex
  /\ m_applied \in 0 .. MaxIndex
  /\ m_cur_term \in 0 .. LeaderTerm
  /\ status \in {"running", "aborted", "undefined"}

(* What the storage holds is nothing, or a snapshot of a chosen entry.     *)
StoredChosen ==
  \/ s_snapshot = NoSnapshot /\ Stored = 0 /\ StoredTerm = 0
  \/ /\ s_snapshot = [index |-> Stored, term |-> StoredTerm]
     /\ Stored \in 1 .. chosen
     /\ StoredTerm = ChosenTerm(Stored)

(* The two stores overlap or touch: the entries held follow each other     *)
(* from v_offset on, and the snapshot ends among them or right before,     *)
(* where everything has been applied.                                      *)
Seam ==
  /\ VS!Contiguous
  /\ v_offset <= Stored + 1
  /\ Stored <= m_applied
  /\ m_applied <= End

(* The entries up to each one are those of the leader that created it.     *)
HeldFromLeaders ==
  \A i \in v_offset .. End :
    /\ HeldTerm(i) <= LeaderTerm
    /\ i <= Len(leaderLog[HeldTerm(i)])
    /\ \A j \in v_offset .. i : HeldTerm(j) = leaderLog[HeldTerm(i)][j]

(* An index is covered by the snapshot that the log was built over, or a   *)
(* leader that the follower has followed, or an earlier one, knows it to   *)
(* be committed.                                                           *)
Justified(i) ==
  \/ i < v_offset
  \/ \E r \in 1 .. LeaderTerm : r <= m_cur_term /\ i <= leaderCommit[r]

(* A commit index may be beyond the log, after it was loaded, until the    *)
(* log has entries.                                                        *)
CommitSafe ==
  /\ m_applied <= chosen /\ Justified(m_applied)
  /\ m_commit <= chosen
  /\ v_entries # <<>> => m_commit <= End /\ Justified(m_commit)
  /\ \A i \in v_offset .. End :
       i <= m_commit \/ i <= m_applied => HeldTerm(i) = ChosenTerm(i)

FollowerInv ==
  FollowerTyped /\ StoredChosen /\ Seam /\ HeldFromLeaders /\ CommitSafe

LogInv == LeaderInv /\ FollowerInv

(* In Replication no commit index is loaded.                               *)
IInv == LogInv /\ m_commit <= End

-----------------------------------------------------------------------------
(* The leaders *)

(* What the types say of one leader.                                       *)
LEMMA LeaderTypes ==
  ASSUME LeadersTyped
  PROVE  /\ LeaderTerm \in Nat \ {0} /\ LeaderTerm \in 1 .. LeaderTerm
         /\ \A t \in 1 .. LeaderTerm :
              /\ leaderLog[t] \in Seq(Terms)
              /\ Len(leaderLog[t]) \in 0 .. MaxIndex
              /\ \A i \in 1 .. Len(leaderLog[t]) : leaderLog[t][i] \in 1 .. MaxTerm
              /\ leaderCommit[t] \in 0 .. MaxIndex
<1> USE ReplicationAssumption DEF LeadersTyped
<1>1. LeaderTerm \in Nat \ {0} /\ LeaderTerm \in 1 .. LeaderTerm
  OBVIOUS
<1>2. ASSUME NEW t \in 1 .. LeaderTerm
      PROVE  /\ leaderLog[t] \in Seq(Terms)
             /\ Len(leaderLog[t]) \in 0 .. MaxIndex
             /\ \A i \in 1 .. Len(leaderLog[t]) : leaderLog[t][i] \in 1 .. MaxTerm
             /\ leaderCommit[t] \in 0 .. MaxIndex
  <2>1. leaderLog[t] \in Seq(Terms) /\ leaderCommit[t] \in 0 .. MaxIndex
    BY ElementOfSeq DEF LeaderTerm
  <2>2. Len(leaderLog[t]) \in Nat
    BY <2>1, LenProperties
  <2>3. \A i \in 1 .. Len(leaderLog[t]) : leaderLog[t][i] \in Terms
    BY <2>1, ElementOfSeq
  <2> QED BY <2>1, <2>2, <2>3
<1> QED BY <1>1, <1>2

(* The creator of an entry is one of the leaders.                          *)
LEMMA Creator ==
  ASSUME LeaderInv, NEW t \in 1 .. LeaderTerm, NEW i \in 1 .. Len(leaderLog[t]),
         NEW u, u = leaderLog[t][i]
  PROVE  /\ u \in 1 .. LeaderTerm
         /\ i <= Len(leaderLog[u])
         /\ \A j \in 1 .. i : leaderLog[u][j] = leaderLog[t][j]
<1>1. u \in 1 .. MaxTerm
  BY LeaderTypes DEF LeaderInv
<1>2. /\ u <= LeaderTerm
      /\ i <= Len(leaderLog[u])
      /\ \A j \in 1 .. i : leaderLog[u][j] = leaderLog[t][j]
  BY DEF LeaderInv, CreatorHas
<1>3. LeaderTerm \in Nat
  BY LeaderTypes DEF LeaderInv
<1> QED BY <1>1, <1>2, <1>3, ReplicationAssumption

(* What a leader knows to be committed is in the log of each later one.    *)
LEMMA Complete ==
  ASSUME LeaderInv, NEW r \in 1 .. LeaderTerm, NEW t \in 1 .. LeaderTerm, r <= t
  PROVE  /\ leaderCommit[r] \in Nat
         /\ leaderCommit[r] <= chosen
         /\ leaderCommit[r] <= Len(leaderLog[t])
         /\ \A i \in 1 .. leaderCommit[r] : leaderLog[t][i] = ChosenTerm(i)
<1>1. leaderCommit[r] \in Nat
  BY LeaderTypes DEF LeaderInv
<1> QED BY <1>1 DEF LeaderInv, LeadersComplete

(* Who has what from whom is a fact about the logs alone.                  *)
LEMMA CreatorSame ==
  ASSUME CreatorHas, leaderLog' = leaderLog
  PROVE  CreatorHas'
<1>1. LeaderTerm' = LeaderTerm
  BY DEF LeaderTerm
<1>2. ASSUME NEW t \in 1 .. LeaderTerm', NEW i \in 1 .. Len(leaderLog'[t])
      PROVE  /\ leaderLog'[t][i] <= LeaderTerm'
             /\ i <= Len(leaderLog'[leaderLog'[t][i]])
             /\ \A j \in 1 .. i : leaderLog'[leaderLog'[t][i]][j] = leaderLog'[t][j]
  <2>1. t \in 1 .. LeaderTerm /\ i \in 1 .. Len(leaderLog[t])
    BY <1>1, <1>2
  <2>2. /\ leaderLog[t][i] <= LeaderTerm
        /\ i <= Len(leaderLog[leaderLog[t][i]])
        /\ \A j \in 1 .. i : leaderLog[leaderLog[t][i]][j] = leaderLog[t][j]
    BY <2>1, Zenon DEF CreatorHas
  <2> QED BY <1>1, <2>2
<1> QED BY <1>2, Zenon DEF CreatorHas

(* The invariant is about the leaders alone.                               *)
LEMMA LeadersSame ==
  ASSUME LeaderInv, UNCHANGED leaderVars
  PROVE  LeaderInv'
<1>0. /\ leaderLog' = leaderLog /\ leaderCommit' = leaderCommit /\ chosen' = chosen
      /\ LeaderTerm' = LeaderTerm
  BY DEF leaderVars, LeaderTerm
<1>1. LeadersTyped'
  BY <1>0 DEF LeaderInv, LeadersTyped
<1>2. CreatorHas'
  BY <1>0, CreatorSame DEF LeaderInv
<1>3. LeadersComplete'
  BY <1>0 DEF LeaderInv, LeadersComplete, ChosenTerm
<1> QED BY <1>1, <1>2, <1>3 DEF LeaderInv

(* A leader appends an entry of its own.                                   *)
LEMMA ProposeGrows ==
  ASSUME LeaderInv, NEW t \in 1 .. LeaderTerm, Propose(t)
  PROVE  LeaderInv' /\ Grows
<1> USE DEF LeaderInv
<1>1. /\ leaderLog' = [leaderLog EXCEPT ![t] = Append(leaderLog[t], t)]
      /\ leaderCommit' = leaderCommit /\ chosen' = chosen
      /\ Len(leaderLog[t]) < MaxIndex
  BY DEF Propose
<1>2. /\ LeaderTerm \in 1 .. MaxTerm /\ MaxTerm \in Nat /\ MaxIndex \in Nat
      /\ \A r \in 1 .. LeaderTerm :
           leaderLog[r] \in Seq(Terms) /\ Len(leaderLog[r]) \in 0 .. MaxIndex
  BY LeaderTypes, ReplicationAssumption DEF LeadersTyped
<1>3. t \in Terms
  BY <1>2, ReplicationAssumption
<1>4. /\ Append(leaderLog[t], t) \in Seq(Terms)
      /\ Len(Append(leaderLog[t], t)) = Len(leaderLog[t]) + 1
      /\ \A i \in 1 .. Len(leaderLog[t]) : Append(leaderLog[t], t)[i] = leaderLog[t][i]
      /\ Append(leaderLog[t], t)[Len(leaderLog[t]) + 1] = t
  BY <1>2, <1>3, AppendProperties
<1>5. /\ leaderLog' \in Seq(Seq(Terms))
      /\ Len(leaderLog') = LeaderTerm
      /\ \A r \in 1 .. LeaderTerm :
           leaderLog'[r] = IF r = t THEN Append(leaderLog[t], t) ELSE leaderLog[r]
  BY <1>1, <1>4, ExceptSeq DEF LeadersTyped, LeaderTerm
<1>6. LeaderTerm' = LeaderTerm
  BY <1>5 DEF LeaderTerm
<1>7. /\ \A r \in 1 .. LeaderTerm : r # t => leaderLog'[r] = leaderLog[r]
      /\ Len(leaderLog'[t]) = Len(leaderLog[t]) + 1
      /\ \A i \in 1 .. Len(leaderLog[t]) : leaderLog'[t][i] = leaderLog[t][i]
      /\ leaderLog'[t][Len(leaderLog[t]) + 1] = t
  BY <1>4, <1>5
<1>8. /\ LeaderTerm \in 1 .. MaxTerm /\ MaxTerm \in Nat /\ MaxIndex \in Nat
      /\ \A r \in 1 .. LeaderTerm : Len(leaderLog[r]) \in Nat /\ Len(leaderLog[r]) <= MaxIndex
  BY <1>2
<1>9. \A r \in 1 .. LeaderTerm :
        /\ Len(leaderLog[r]) \in Nat /\ Len(leaderLog'[r]) \in Nat
        /\ Len(leaderLog[r]) <= Len(leaderLog'[r])
        /\ \A i \in 1 .. Len(leaderLog[r]) : leaderLog'[r][i] = leaderLog[r][i]
  BY <1>7, <1>8
<1>10. /\ LeaderTerm \in 1 .. LeaderTerm /\ chosen \in Nat
       /\ chosen <= Len(leaderLog[LeaderTerm])
  BY <1>2 DEF LeadersComplete, LeadersTyped
<1>11. LeadersTyped'
  BY <1>1, <1>5, <1>6, <1>7, <1>8 DEF LeadersTyped
<1>12. Grows
  <2>1. \A i \in 1 .. chosen : ChosenTerm(i)' = ChosenTerm(i)
    <3>1. \A i \in 1 .. Len(leaderLog[LeaderTerm]) :
            leaderLog'[LeaderTerm][i] = leaderLog[LeaderTerm][i]
      BY <1>9, <1>10
    <3>2. \A i \in 1 .. chosen : i \in 1 .. Len(leaderLog[LeaderTerm])
      BY <1>9, <1>10
    <3> QED BY <1>6, <3>1, <3>2 DEF ChosenTerm
  <2>2. \A r \in 1 .. LeaderTerm : leaderCommit[r] \in Nat
    BY LeaderTypes
  <2> QED BY <1>1, <1>6, <1>8, <1>9, <1>10, <2>1, <2>2 DEF Grows
<1>13. CreatorHas'
  <2> SUFFICES ASSUME NEW r \in 1 .. LeaderTerm, NEW i \in 1 .. Len(leaderLog'[r])
               PROVE  /\ leaderLog'[r][i] <= LeaderTerm
                      /\ i <= Len(leaderLog'[leaderLog'[r][i]])
                      /\ \A j \in 1 .. i :
                           leaderLog'[leaderLog'[r][i]][j] = leaderLog'[r][j]
    BY <1>6 DEF CreatorHas
  <2>1. CASE r = t /\ i = Len(leaderLog[t]) + 1
    BY <1>7, <1>8, <2>1
  <2>2. CASE i \in 1 .. Len(leaderLog[r])
    <3>1. PICK u : u = leaderLog[r][i]
      OBVIOUS
    <3>2. u \in 1 .. LeaderTerm /\ i <= Len(leaderLog[u])
          /\ \A j \in 1 .. i : leaderLog[u][j] = leaderLog[r][j]
      BY <2>2, <3>1, Creator
    <3>3. leaderLog'[r][i] = u
      BY <1>9, <2>2, <3>1
    <3>4. /\ i <= Len(leaderLog'[u])
          /\ \A j \in 1 .. i : leaderLog'[u][j] = leaderLog[u][j]
                               /\ leaderLog'[r][j] = leaderLog[r][j]
      <4>1. /\ Len(leaderLog[u]) \in Nat /\ Len(leaderLog'[u]) \in Nat
            /\ Len(leaderLog[u]) <= Len(leaderLog'[u])
            /\ \A j \in 1 .. Len(leaderLog[u]) : leaderLog'[u][j] = leaderLog[u][j]
        BY <1>9, <3>2
      <4>2. /\ Len(leaderLog[r]) \in Nat
            /\ \A j \in 1 .. Len(leaderLog[r]) : leaderLog'[r][j] = leaderLog[r][j]
        BY <1>9
      <4>3. i \in Nat /\ i <= Len(leaderLog[r]) /\ i <= Len(leaderLog[u])
        BY <2>2, <3>2, <4>2
      <4> QED BY <4>1, <4>2, <4>3
    <3> QED BY <1>8, <3>2, <3>3, <3>4
  <2> QED BY <1>7, <1>8, <2>1, <2>2
<1>14. LeadersComplete'
  <2>1. ASSUME NEW r \in 1 .. LeaderTerm, NEW s \in 1 .. LeaderTerm, r <= s
        PROVE  /\ leaderCommit[r] <= chosen
               /\ leaderCommit[r] <= Len(leaderLog'[s])
               /\ \A i \in 1 .. leaderCommit[r] :
                    leaderLog'[s][i] = ChosenTerm(i) /\ i \in 1 .. chosen
    <3>1. /\ leaderCommit[r] \in Nat /\ leaderCommit[r] <= chosen
          /\ leaderCommit[r] <= Len(leaderLog[s])
          /\ \A i \in 1 .. leaderCommit[r] : leaderLog[s][i] = ChosenTerm(i)
      BY <2>1, Complete
    <3>2. leaderCommit[r] <= Len(leaderLog'[s])
      BY <1>9, <3>1
    <3>3. \A i \in 1 .. leaderCommit[r] : leaderLog'[s][i] = leaderLog[s][i]
      BY <1>9, <3>1
    <3> QED BY <1>10, <3>1, <3>2, <3>3
  <2>2. chosen <= Len(leaderLog'[LeaderTerm])
    BY <1>9, <1>10
  <2>3. \A i \in 1 .. chosen : ChosenTerm(i)' = ChosenTerm(i)
    BY <1>12 DEF Grows
  <2>4. \A r, s \in 1 .. LeaderTerm : r <= s =>
          /\ leaderCommit[r] <= chosen
          /\ leaderCommit[r] <= Len(leaderLog'[s])
          /\ \A i \in 1 .. leaderCommit[r] : leaderLog'[s][i] = ChosenTerm(i)'
    BY <2>1, <2>3
  <2> QED BY <1>1, <1>6, <2>2, <2>4 DEF LeadersComplete
<1> QED BY <1>11, <1>12, <1>13, <1>14

(* A leader learns that an entry is committed.                             *)
LEMMA CommitGrows ==
  ASSUME LeaderInv, NEW n, Commit(n)
  PROVE  LeaderInv' /\ Grows
<1> USE DEF LeaderInv
<1>1. /\ leaderLog' = leaderLog /\ LeaderTerm' = LeaderTerm
      /\ n \in leaderCommit[LeaderTerm] + 1 .. Len(leaderLog[LeaderTerm])
      /\ leaderCommit' = [leaderCommit EXCEPT ![LeaderTerm] = n]
      /\ chosen' = IF n > chosen THEN n ELSE chosen
  BY DEF Commit, LeaderTerm
<1>2. /\ LeaderTerm \in Nat \ {0} /\ LeaderTerm \in 1 .. LeaderTerm
      /\ chosen \in Nat /\ chosen <= MaxIndex /\ MaxIndex \in Nat
      /\ chosen <= Len(leaderLog[LeaderTerm])
      /\ Len(leaderLog[LeaderTerm]) \in Nat /\ Len(leaderLog[LeaderTerm]) <= MaxIndex
      /\ \A r \in 1 .. LeaderTerm : leaderCommit[r] \in Nat
  BY LeaderTypes, ReplicationAssumption DEF LeadersTyped, LeadersComplete
<1>3. /\ n \in 0 .. MaxIndex /\ n > leaderCommit[LeaderTerm]
      /\ n <= Len(leaderLog[LeaderTerm])
      /\ chosen <= chosen' /\ n <= chosen' /\ chosen' <= Len(leaderLog[LeaderTerm])
      /\ chosen' \in 0 .. MaxIndex
  BY <1>1, <1>2
<1>4. /\ leaderCommit' \in Seq(0 .. MaxIndex)
      /\ Len(leaderCommit') = LeaderTerm
      /\ \A r \in 1 .. LeaderTerm :
           leaderCommit'[r] = IF r = LeaderTerm THEN n ELSE leaderCommit[r]
  BY <1>1, <1>2, <1>3, ExceptSeq DEF LeadersTyped
<1>5. \A r \in 1 .. LeaderTerm : leaderCommit[r] <= leaderCommit'[r]
  BY <1>2, <1>3, <1>4
<1>6. LeadersTyped'
  BY <1>1, <1>3, <1>4 DEF LeadersTyped
<1>7. CreatorHas'
  BY <1>1, CreatorSame
<1>8. \A i : ChosenTerm(i)' = ChosenTerm(i)
  BY <1>1 DEF ChosenTerm
<1>9. Grows
  BY <1>1, <1>2, <1>3, <1>5, <1>8, LeaderTypes DEF Grows
<1>10. ASSUME NEW r \in 1 .. LeaderTerm, NEW t \in 1 .. LeaderTerm, r <= t
       PROVE  /\ leaderCommit'[r] <= chosen'
              /\ leaderCommit'[r] <= Len(leaderLog[t])
              /\ \A i \in 1 .. leaderCommit'[r] : leaderLog[t][i] = ChosenTerm(i)
  <2>1. CASE r = LeaderTerm
    <3>1. t = LeaderTerm /\ leaderCommit'[r] = n
      BY <1>2, <1>4, <1>10, <2>1
    <3> QED BY <1>3, <3>1 DEF ChosenTerm
  <2>2. CASE r # LeaderTerm
    <3>1. leaderCommit'[r] = leaderCommit[r]
      BY <1>4, <2>2
    <3>2. /\ leaderCommit[r] \in Nat /\ leaderCommit[r] <= chosen
          /\ leaderCommit[r] <= Len(leaderLog[t])
          /\ \A i \in 1 .. leaderCommit[r] : leaderLog[t][i] = ChosenTerm(i)
      BY <1>10, Complete
    <3>3. leaderCommit[r] <= chosen'
      BY <1>2, <1>3, <3>2
    <3> QED BY <3>1, <3>2, <3>3
  <2> QED BY <2>1, <2>2
<1>11. LeadersComplete'
  BY <1>1, <1>3, <1>8, <1>10 DEF LeadersComplete
<1> QED BY <1>6, <1>7, <1>9, <1>11

(* A new leader has a prefix of another leader's log.                      *)
LEMMA ElectGrows ==
  ASSUME LeaderInv, NEW t \in 1 .. LeaderTerm, NEW n, NEW c \in 0 .. chosen,
         Elect(t, n, c)
  PROVE  LeaderInv' /\ Grows
<1> USE DEF LeaderInv
<1> DEFINE new == SubSeq(leaderLog[t], 1, n)
<1>0. PICK last : last = LeaderTerm + 1
  OBVIOUS
<1>1. /\ LeaderTerm < MaxTerm
      /\ n \in chosen .. Len(leaderLog[t])
      /\ \A i \in 1 .. chosen : leaderLog[t][i] = ChosenTerm(i)
      /\ leaderLog' = Append(leaderLog, new)
      /\ leaderCommit' = Append(leaderCommit, c)
      /\ chosen' = chosen
  BY DEF Elect
<1>2. /\ LeaderTerm \in 1 .. MaxTerm /\ MaxTerm \in Nat /\ MaxIndex \in Nat
      /\ LeaderTerm \in 1 .. LeaderTerm
      /\ chosen \in Nat /\ chosen <= MaxIndex
      /\ chosen <= Len(leaderLog[LeaderTerm])
      /\ \A r \in 1 .. LeaderTerm :
           /\ Len(leaderLog[r]) \in Nat /\ Len(leaderLog[r]) <= MaxIndex
           /\ leaderCommit[r] \in Nat
  BY LeaderTypes, ReplicationAssumption DEF LeadersTyped, LeadersComplete
<1>3. n \in Nat /\ chosen <= n /\ n <= Len(leaderLog[t]) /\ c \in 0 .. MaxIndex
  BY <1>1, <1>2
<1>4. /\ new \in Seq(Terms)
      /\ Len(new) = n
      /\ \A i \in 1 .. n : new[i] = leaderLog[t][i]
  <2>1. \A i \in 1 .. n : leaderLog[t][i] \in Terms
    <3>1. \A i \in 1 .. n : i \in 1 .. Len(leaderLog[t])
      BY <1>2, <1>3
    <3>2. Terms = 1 .. MaxTerm
      BY ReplicationAssumption
    <3> QED BY <3>1, <3>2, LeaderTypes
  <2>2. /\ new \in Seq(Terms)
        /\ Len(new) = IF 1 <= n THEN n - 1 + 1 ELSE 0
        /\ \A i \in 1 .. n - 1 + 1 : new[i] = leaderLog[t][1 + i - 1]
    BY <1>3, <2>1, SubSeqProperties
  <2> HIDE DEF new
  <2> QED BY <1>3, <2>2
<1> HIDE DEF new
<1>5. /\ leaderLog' \in Seq(Seq(Terms))
      /\ Len(leaderLog') = last
      /\ \A r \in 1 .. LeaderTerm : leaderLog'[r] = leaderLog[r]
      /\ leaderLog'[last] = new
  BY <1>0, <1>1, <1>4, AppendProperties DEF LeadersTyped, LeaderTerm
<1>6. /\ leaderCommit' \in Seq(0 .. MaxIndex)
      /\ Len(leaderCommit') = last
      /\ \A r \in 1 .. LeaderTerm : leaderCommit'[r] = leaderCommit[r]
      /\ leaderCommit'[last] = c
  BY <1>0, <1>1, <1>3, AppendProperties DEF LeadersTyped
<1>7. LeaderTerm' = last
  BY <1>5 DEF LeaderTerm
<1>8. /\ \A r \in 1 .. last : r \in 1 .. LeaderTerm \/ r = last
      /\ LeaderTerm < last /\ last \in 1 .. MaxTerm
      /\ \A r \in 1 .. LeaderTerm : r \in 1 .. last /\ r < last
  BY <1>0, <1>1, <1>2
<1>9. /\ \A r \in 1 .. LeaderTerm : leaderLog'[r] = leaderLog[r]
      /\ Len(leaderLog'[last]) = n
      /\ \A i \in 1 .. n : leaderLog'[last][i] = leaderLog[t][i]
  BY <1>4, <1>5
<1>10. LeadersTyped'
  <2>1. \A r \in 1 .. last : Len(leaderLog'[r]) <= MaxIndex
    <3>1. n <= MaxIndex
      BY <1>2, <1>3
    <3> QED BY <1>2, <1>8, <1>9, <3>1
  <2> QED BY <1>1, <1>2, <1>5, <1>6, <1>7, <1>8, <2>1 DEF LeadersTyped
<1>11. ASSUME NEW i \in 1 .. chosen PROVE ChosenTerm(i)' = ChosenTerm(i)
  <2>1. leaderLog'[last][i] = leaderLog[t][i]
    BY <1>2, <1>3, <1>9
  <2>2. ChosenTerm(i)' = leaderLog'[last][i]
    BY <1>7 DEF ChosenTerm
  <2> QED BY <1>1, <2>1, <2>2
<1>12. Grows
  <2>1. ASSUME NEW r \in 1 .. LeaderTerm
        PROVE  /\ Len(leaderLog[r]) <= Len(leaderLog'[r])
               /\ \A i \in 1 .. Len(leaderLog[r]) : leaderLog'[r][i] = leaderLog[r][i]
               /\ leaderCommit[r] <= leaderCommit'[r]
    BY <1>2, <1>6, <1>9
  <2>2. LeaderTerm <= LeaderTerm' /\ chosen <= chosen'
    BY <1>0, <1>1, <1>2, <1>7
  <2> QED BY <1>11, <2>1, <2>2 DEF Grows
<1>13. CreatorHas'
  <2> SUFFICES ASSUME NEW r \in 1 .. last, NEW i \in 1 .. Len(leaderLog'[r])
               PROVE  /\ leaderLog'[r][i] <= last
                      /\ i <= Len(leaderLog'[leaderLog'[r][i]])
                      /\ \A j \in 1 .. i :
                           leaderLog'[leaderLog'[r][i]][j] = leaderLog'[r][j]
    BY <1>7 DEF CreatorHas
  <2>1. PICK s \in 1 .. LeaderTerm :
          /\ i \in 1 .. Len(leaderLog[s])
          /\ \A j \in 1 .. i : leaderLog'[r][j] = leaderLog[s][j]
    <3>1. CASE r = last
      <4>1. i \in 1 .. Len(leaderLog[t])
            /\ \A j \in 1 .. i : leaderLog'[r][j] = leaderLog[t][j]
        BY <1>2, <1>3, <1>9, <3>1
      <4> QED BY <4>1
    <3>2. CASE r \in 1 .. LeaderTerm
      BY <1>9, <3>2
    <3> QED BY <1>8, <3>1, <3>2
  <2>2. PICK u : u = leaderLog[s][i]
    OBVIOUS
  <2>3. /\ u \in 1 .. LeaderTerm /\ i <= Len(leaderLog[u])
        /\ \A j \in 1 .. i : leaderLog[u][j] = leaderLog[s][j]
    BY <2>1, <2>2, Creator
  <2>4. leaderLog'[r][i] = u /\ leaderLog'[u] = leaderLog[u] /\ u <= last
    <3>1. i \in 1 .. i /\ u <= last
      BY <1>2, <1>8, <2>1, <2>3
    <3> QED BY <1>9, <2>1, <2>2, <2>3, <3>1
  <2> QED BY <2>1, <2>3, <2>4
<1>14. LeadersComplete'
  <2>1. chosen <= Len(leaderLog'[last])
    BY <1>3, <1>9
  <2>2. ASSUME NEW r \in 1 .. last, NEW s \in 1 .. last, r <= s
        PROVE  /\ leaderCommit'[r] <= chosen
               /\ leaderCommit'[r] <= Len(leaderLog'[s])
               /\ \A i \in 1 .. leaderCommit'[r] : leaderLog'[s][i] = ChosenTerm(i)'
    <3>1. /\ leaderCommit'[r] \in Nat /\ leaderCommit'[r] <= chosen
      <4>1. CASE r = last
        BY <1>2, <1>6, <4>1
      <4>2. CASE r \in 1 .. LeaderTerm
        <5>1. leaderCommit[r] \in Nat /\ leaderCommit[r] <= chosen
          BY <1>2, <4>2, Complete
        <5> QED BY <1>6, <4>2, <5>1
      <4> QED BY <1>8, <4>1, <4>2
    <3>2. CASE s = last
      <4>1. ASSUME NEW i \in 1 .. leaderCommit'[r]
            PROVE  leaderLog'[last][i] = ChosenTerm(i)'
        <5>1. i \in 1 .. chosen /\ i \in 1 .. n
          BY <1>2, <1>3, <3>1
        <5> QED BY <1>1, <1>9, <1>11, <5>1
      <4>2. leaderCommit'[r] <= n
        BY <1>2, <1>3, <3>1
      <4> QED BY <1>9, <3>1, <3>2, <4>1, <4>2
    <3>3. CASE s \in 1 .. LeaderTerm
      <4>1. r \in 1 .. LeaderTerm
        BY <1>2, <1>8, <2>2, <3>3
      <4>2. /\ leaderCommit'[r] <= Len(leaderLog[s])
            /\ \A i \in 1 .. leaderCommit'[r] : leaderLog[s][i] = ChosenTerm(i)
        BY <1>6, <2>2, <3>3, <4>1, Complete
      <4>3. \A i \in 1 .. leaderCommit'[r] : i \in 1 .. chosen
        BY <1>2, <3>1
      <4> QED BY <1>9, <1>11, <3>1, <3>3, <4>2, <4>3
    <3> QED BY <1>8, <3>2, <3>3
  <2> QED BY <1>1, <1>7, <2>1, <2>2 DEF LeadersComplete
<1> QED BY <1>10, <1>12, <1>13, <1>14

(* Whatever the leaders do, their logs and what is chosen only grow.       *)
LEMMA LeadersGrow ==
  ASSUME LeaderInv, LeaderStep
  PROVE  LeaderInv' /\ Grows
BY ProposeGrows, CommitGrows, ElectGrows DEF LeaderStep

-----------------------------------------------------------------------------
(* What the follower's log answers *)

(* The numbers that the types stand for.                                   *)
LEMMA FollowerTypes ==
  ASSUME LogInv
  PROVE  /\ v_offset \in Nat \ {0} /\ Len(v_entries) \in Nat /\ End \in Int
         /\ v_offset - 1 <= End
         /\ Stored \in Nat /\ StoredTerm \in 0 .. MaxTerm
         /\ v_offset - 1 <= Stored /\ Stored <= m_applied /\ m_applied <= End
         /\ m_commit \in Nat /\ m_applied \in Nat
         /\ m_cur_term \in Nat /\ LeaderTerm \in Nat \ {0}
         /\ chosen \in Nat /\ chosen <= MaxIndex /\ MaxIndex \in Nat
         /\ \A i \in v_offset .. End :
              HeldTerm(i) \in 1 .. MaxTerm /\ i \in Nat /\ i <= MaxIndex
         /\ Len(s_entries) = 1
<1> USE ReplicationAssumption DEF LogInv, LeaderInv, FollowerInv
<1>1. /\ v_offset \in Nat \ {0} /\ Len(v_entries) \in Nat
      /\ m_commit \in Nat /\ m_applied \in Nat
  BY LenProperties DEF FollowerTyped
<1>2. /\ LeaderTerm \in Nat \ {0} /\ LeaderTerm \in 1 .. LeaderTerm
      /\ LeaderTerm <= MaxTerm
      /\ chosen \in Nat /\ chosen <= MaxIndex
      /\ chosen <= Len(leaderLog[LeaderTerm])
  BY LeaderTypes DEF LeadersTyped, LeadersComplete
<1>3. Stored \in Nat /\ StoredTerm \in 0 .. MaxTerm
  <2>1. CASE Stored = 0 /\ StoredTerm = 0
    BY <2>1
  <2>2. CASE Stored \in 1 .. chosen /\ StoredTerm = ChosenTerm(Stored)
    <3>1. Len(leaderLog[LeaderTerm]) \in Nat
      BY <1>2, LeaderTypes
    <3>2. Stored \in 1 .. Len(leaderLog[LeaderTerm])
      BY <1>2, <2>2, <3>1
    <3>3. StoredTerm \in 1 .. MaxTerm
      BY <1>2, <2>2, <3>2, LeaderTypes DEF ChosenTerm
    <3> QED BY <1>2, <2>2, <3>3
  <2> QED BY <2>1, <2>2 DEF StoredChosen
<1>4. \A i \in v_offset .. End :
        HeldTerm(i) \in 1 .. MaxTerm /\ i \in Nat /\ i <= MaxIndex
  <2> SUFFICES ASSUME NEW i \in v_offset .. End
               PROVE  HeldTerm(i) \in 1 .. MaxTerm /\ i \in Nat /\ i <= MaxIndex
    OBVIOUS
  <2>1. i - v_offset + 1 \in 1 .. Len(v_entries)
    BY <1>1 DEF End
  <2>2. /\ v_entries[i - v_offset + 1] \in VS!Entries
        /\ v_entries[i - v_offset + 1].index = i
    <3>1. v_entries[i - v_offset + 1] \in VS!Entries
      BY <2>1, ElementOfSeq DEF FollowerTyped
    <3>2. v_entries[i - v_offset + 1].index = v_offset + (i - v_offset + 1) - 1
      BY <2>1 DEF Seam, VS!Contiguous
    <3> QED BY <1>1, <3>1, <3>2
  <2> QED BY <2>2 DEF VS!Entries, HeldTerm
<1>5. End \in Int /\ v_offset - 1 <= End
  BY <1>1 DEF End
<1>6. /\ v_offset - 1 <= Stored /\ Stored <= m_applied /\ m_applied <= End
      /\ m_cur_term \in Nat /\ MaxIndex \in Nat
  BY <1>1, <1>2, <1>3 DEF Seam, FollowerTyped
<1>7. Len(s_entries) = 1
  BY DEF FollowerTyped
<1> QED BY <1>1, <1>2, <1>3, <1>4, <1>5, <1>6, <1>7

(* TermOf of the volatile log, and of the log.                             *)
LEMMA Reads ==
  ASSUME LogInv
  PROVE  /\ \A i \in Int :
              VS!TermOf(i) = IF i \in v_offset .. End THEN HeldTerm(i) ELSE VS!Absent
         /\ \A i \in Int :
              TermOf(i) = IF i \in v_offset .. End THEN HeldTerm(i)
                          ELSE IF i = Stored THEN StoredTerm ELSE VS!Absent
         /\ \A i \in Int : TermOf(i) # VS!Garbage
         /\ LastIndex = End
         /\ v_entries # <<>> => VS!EndHeld = End /\ VS!FirstHeld = v_offset
<1> USE DEF LogInv, FollowerInv
<1>1. /\ v_offset \in Nat \ {0} /\ Len(v_entries) \in Nat
      /\ End = v_offset + Len(v_entries) - 1
      /\ v_entries = <<>> <=> Len(v_entries) = 0
  BY FollowerTypes, EmptySeq DEF End, FollowerTyped
<1>2. ASSUME v_entries # <<>>
      PROVE  VS!EndHeld = End /\ VS!FirstHeld = v_offset
  <2>1. 1 \in 1 .. Len(v_entries) /\ Len(v_entries) \in 1 .. Len(v_entries)
    BY <1>1, <1>2
  <2>2. /\ v_entries[1].index = v_offset + 1 - 1
        /\ v_entries[Len(v_entries)].index = v_offset + Len(v_entries) - 1
    BY <2>1 DEF Seam, VS!Contiguous
  <2> QED BY <1>1, <2>2 DEF VS!EndHeld, VS!FirstHeld
<1>3. ASSUME NEW i \in Int
      PROVE  VS!TermOf(i) = IF i \in v_offset .. End THEN HeldTerm(i) ELSE VS!Absent
  <2>1. CASE v_entries = <<>>
    BY <1>1, <2>1 DEF VS!TermOf, FollowerTyped
  <2>2. CASE v_entries # <<>>
    <3>1. i \in v_offset .. End => i - v_offset < Len(v_entries)
      BY <1>1
    <3> QED BY <1>2, <2>2, <3>1 DEF VS!TermOf, HeldTerm, FollowerTyped
  <2> QED BY <2>1, <2>2
<1>4. ASSUME NEW i \in Int
      PROVE  MS!TermOf(i) = IF i = Stored THEN StoredTerm ELSE VS!Absent
  <2>1. Stored \in Nat /\ Len(s_entries) = 1
    BY FollowerTypes
  <2>2. i - Stored + 1 \in 1 .. 1 <=> i = Stored
    BY <2>1
  <2>3. i = Stored => i - Stored + 1 = 1
    BY <2>1
  <2> QED BY <2>1, <2>2, <2>3
          DEF MS!TermOf, MS!Absent, VS!Absent, Stored, StoredTerm
<1>5. ASSUME NEW i \in Int
      PROVE  TermOf(i) = IF i \in v_offset .. End THEN HeldTerm(i)
                         ELSE IF i = Stored THEN StoredTerm ELSE VS!Absent
  <2>1. i \in v_offset .. End => HeldTerm(i) # VS!Absent
    BY FollowerTypes, ReplicationAssumption DEF VS!Absent
  <2> QED BY <1>3, <1>4, <2>1 DEF TermOf
<1>6. ASSUME NEW i \in Int PROVE TermOf(i) # VS!Garbage
  <2>1. /\ StoredTerm \in 0 .. MaxTerm
        /\ i \in v_offset .. End => HeldTerm(i) \in 1 .. MaxTerm
    BY FollowerTypes
  <2>2. MaxTerm \in Nat
    BY ReplicationAssumption
  <2> QED BY <1>5, <2>1, <2>2 DEF VS!Absent, VS!Garbage
<1>7. LastIndex = End
  <2>1. CASE v_entries = <<>>
    <3>1. Stored = End
      BY <1>1, <2>1, FollowerTypes
    <3>2. LastIndex = Stored
      <4>1. MS!LastIndex = Stored
        <5>1. Stored \in Nat /\ Len(s_entries) = 1
          BY FollowerTypes
        <5>2. MS!LastIndex = Stored + Len(s_entries) - 1
          BY DEF MS!LastIndex, Stored
        <5> QED BY <5>1, <5>2
      <4> QED BY <2>1, <4>1 DEF LastIndex, VS!LastIndex, VS!Absent, FollowerTyped
    <3> QED BY <3>1, <3>2
  <2>2. CASE v_entries # <<>>
    <3>1. End # VS!Absent
      BY <1>1, FollowerTypes DEF VS!Absent
    <3> QED BY <1>2, <2>2, <3>1 DEF LastIndex, VS!LastIndex
  <2> QED BY <2>1, <2>2
<1> QED BY <1>2, <1>3, <1>5, <1>6, <1>7

-----------------------------------------------------------------------------
(* What a message does *)

(* The entries of a message.                                               *)
LEMMA MessageParts ==
  ASSUME LogInv, NEW t \in 1 .. LeaderTerm, NEW m \in Messages(t)
  PROVE  /\ m.prev \in Nat /\ m.count \in Nat /\ m.commit \in Nat
         /\ m.prev + m.count <= Len(leaderLog[t]) /\ Len(leaderLog[t]) \in Nat
         /\ Len(leaderLog[t]) <= MaxIndex
         /\ m.commit <= leaderCommit[t] /\ leaderCommit[t] \in Nat
         /\ MessageEntries(t, m) \in Seq(VS!Entries)
         /\ Len(MessageEntries(t, m)) = m.count
         /\ DOMAIN MessageEntries(t, m) = 1 .. m.count
         /\ \A k \in 1 .. m.count :
              /\ MessageEntries(t, m)[k].index = m.prev + k
              /\ MessageEntries(t, m)[k].term = leaderLog[t][m.prev + k]
<1>1. /\ Len(leaderLog[t]) \in Nat /\ Len(leaderLog[t]) <= MaxIndex
      /\ leaderCommit[t] \in Nat /\ MaxIndex \in Nat /\ Terms = 1 .. MaxTerm
      /\ \A i \in 1 .. Len(leaderLog[t]) : leaderLog[t][i] \in 1 .. MaxTerm
  BY LeaderTypes, ReplicationAssumption DEF LogInv, LeaderInv
<1>2. /\ m.prev \in Nat /\ m.count \in Nat /\ m.commit \in Nat
      /\ m.prev + m.count <= Len(leaderLog[t])
      /\ m.commit <= leaderCommit[t]
  BY <1>1 DEF Messages
<1>3. ASSUME NEW k \in 1 .. m.count
      PROVE  [index |-> m.prev + k, term |-> leaderLog[t][m.prev + k]] \in VS!Entries
  <2>1. m.prev + k \in 1 .. Len(leaderLog[t]) /\ m.prev + k \in 1 .. MaxIndex
    BY <1>1, <1>2
  <2> QED BY <1>1, <2>1 DEF VS!Entries
<1>4. MessageEntries(t, m) \in [1 .. m.count -> VS!Entries]
  BY <1>3 DEF MessageEntries
<1>5. MessageEntries(t, m) \in Seq(VS!Entries)
  BY <1>2, <1>4, SeqDef
<1>6. Len(MessageEntries(t, m)) = m.count /\ DOMAIN MessageEntries(t, m) = 1 .. m.count
  BY <1>2, <1>4
<1> QED BY <1>1, <1>2, <1>5, <1>6 DEF MessageEntries

(* A leader and the log agree up to the place where a message matches.     *)
LEMMA MatchedBefore ==
  ASSUME LogInv, NEW t \in 1 .. LeaderTerm, NEW i \in 0 .. Len(leaderLog[t]),
         TermOf(i) = IF i = 0 THEN 0 ELSE leaderLog[t][i]
  PROVE  /\ v_offset - 1 <= i /\ i <= End
         /\ \A j \in v_offset .. i : HeldTerm(j) = leaderLog[t][j]
<1>1. /\ Len(leaderLog[t]) \in Nat
      /\ \A k \in 1 .. Len(leaderLog[t]) : leaderLog[t][k] \in 1 .. MaxTerm
      /\ MaxTerm \in Nat
  BY LeaderTypes, ReplicationAssumption DEF LogInv, LeaderInv
<1>2. TermOf(i) # VS!Absent
  BY <1>1 DEF VS!Absent
<1>3. i \in v_offset .. End \/ i = Stored
  BY <1>2, Reads
<1>4. /\ v_offset \in Nat \ {0} /\ End \in Int
      /\ v_offset - 1 <= Stored /\ Stored <= End /\ Stored \in Nat
  BY FollowerTypes
<1>5. CASE i \in v_offset .. End
  <2>1. i \in 1 .. Len(leaderLog[t]) /\ i # 0
    BY <1>1, <1>4, <1>5
  <2>2. PICK u : u = HeldTerm(i)
    OBVIOUS
  <2>3. u = leaderLog[t][i]
    BY <1>5, <2>1, <2>2, Reads
  <2>4. \A j \in v_offset .. i : HeldTerm(j) = leaderLog[u][j]
    BY <1>5, <2>2 DEF LogInv, FollowerInv, HeldFromLeaders
  <2>5. \A j \in 1 .. i : leaderLog[u][j] = leaderLog[t][j]
    BY <2>1, <2>3, Creator DEF LogInv
  <2> QED BY <1>4, <1>5, <2>4, <2>5
<1>6. CASE i = Stored /\ i \notin v_offset .. End
  BY <1>4, <1>6
<1> QED BY <1>3, <1>5, <1>6

(* A leader that the follower may still follow has what is committed.      *)
LEMMA Uncontested ==
  ASSUME LogInv, NEW t \in 1 .. LeaderTerm, m_cur_term <= t,
         NEW i \in v_offset .. End, i <= m_commit \/ i <= m_applied
  PROVE  /\ i <= Len(leaderLog[t])
         /\ HeldTerm(i) = leaderLog[t][i]
         /\ HeldTerm(i) = ChosenTerm(i)
<1> USE DEF LogInv, FollowerInv
<1>1. v_entries # <<>>
  BY FollowerTypes, EmptySeq DEF End
<1>2. HeldTerm(i) = ChosenTerm(i)
  BY DEF CommitSafe
<1>3. /\ v_offset \in Nat \ {0} /\ i \in Nat \ {0} /\ m_cur_term \in Nat
      /\ m_commit \in Nat /\ m_applied \in Nat /\ LeaderTerm \in Nat
  BY FollowerTypes
<1>4. PICK n \in {m_commit, m_applied} : i <= n /\ Justified(n)
  BY <1>1 DEF CommitSafe
<1>5. PICK r \in 1 .. LeaderTerm : r <= m_cur_term /\ n <= leaderCommit[r]
  BY <1>3, <1>4 DEF Justified
<1>6. r <= t
  BY <1>3, <1>5
<1>7. /\ leaderCommit[r] \in Nat
      /\ leaderCommit[r] <= Len(leaderLog[t])
      /\ \A j \in 1 .. leaderCommit[r] : leaderLog[t][j] = ChosenTerm(j)
  BY <1>6, Complete
<1>8. Len(leaderLog[t]) \in Nat
  BY LeaderTypes DEF LeaderInv
<1>9. i \in 1 .. leaderCommit[r]
  BY <1>3, <1>4, <1>5, <1>7
<1> QED BY <1>2, <1>7, <1>8, <1>9

(* A set of numbers that is not empty has a least one.                     *)
LEMMA Least ==
  ASSUME NEW S \in SUBSET Nat, S # {}
  PROVE  \E k \in S : \A j \in S : k <= j
<1>1. PICK k \in S : \A j \in S : ~(<<j, k>> \in OpToRel(<, Nat))
  BY NatLessThanWellFounded, WFMin
<1>2. \A j \in S : ~(j < k)
  BY <1>1 DEF OpToRel
<1> QED BY <1>2

(* What FindConflict finds in a message whose start matches.               *)
LEMMA Conflict ==
  ASSUME LogInv, NEW t \in 1 .. LeaderTerm, NEW m \in Messages(t),
         Match(m.prev, PrevTerm(t, m)),
         NEW c, c = FindConflict(MessageEntries(t, m))
  PROVE  \/ /\ c = 0
            /\ m.prev + m.count <= End
            /\ \A j \in v_offset .. m.prev + m.count : HeldTerm(j) = leaderLog[t][j]
         \/ /\ c \in m.prev + 1 .. m.prev + m.count
            /\ c \in v_offset .. End + 1
            /\ c <= End => HeldTerm(c) # leaderLog[t][c]
            /\ \A j \in v_offset .. c - 1 : HeldTerm(j) = leaderLog[t][j]
<1> DEFINE ents == MessageEntries(t, m)
           missing == {k \in DOMAIN ents : ~Match(ents[k].index, ents[k].term)}
<1>1. /\ m.prev \in Nat /\ m.count \in Nat
      /\ m.prev + m.count <= Len(leaderLog[t]) /\ Len(leaderLog[t]) \in Nat
      /\ DOMAIN ents = 1 .. m.count
      /\ \A k \in 1 .. m.count :
           ents[k].index = m.prev + k /\ ents[k].term = leaderLog[t][m.prev + k]
  BY MessageParts
<1> HIDE DEF ents
<1>2. /\ v_offset \in Nat \ {0} /\ End \in Int
      /\ v_offset - 1 <= Stored /\ Stored <= End /\ Stored \in Nat
      /\ \A i \in 1 .. Len(leaderLog[t]) : leaderLog[t][i] \in 1 .. MaxTerm
      /\ MaxTerm \in Nat
  <2>1. /\ v_offset \in Nat \ {0} /\ End \in Int
        /\ v_offset - 1 <= Stored /\ Stored <= End /\ Stored \in Nat
    BY FollowerTypes
  <2>2. LeadersTyped
    BY DEF LogInv, LeaderInv
  <2>3. \A i \in 1 .. Len(leaderLog[t]) : leaderLog[t][i] \in 1 .. MaxTerm
    BY <2>2, LeaderTypes
  <2>4. MaxTerm \in Nat
    BY ReplicationAssumption
  <2> QED BY <2>1, <2>3, <2>4
<1>3. /\ v_offset - 1 <= m.prev /\ m.prev <= End
      /\ \A j \in v_offset .. m.prev : HeldTerm(j) = leaderLog[t][j]
  <2>1. m.prev \in 0 .. Len(leaderLog[t])
    BY <1>1
  <2> QED BY <2>1, MatchedBefore DEF Match, PrevTerm
<1>4. ASSUME NEW k \in 1 .. m.count
      PROVE  k \notin missing <=> /\ m.prev + k <= End
                                  /\ HeldTerm(m.prev + k) = leaderLog[t][m.prev + k]
  <2>1. m.prev + k \in 1 .. Len(leaderLog[t]) /\ v_offset <= m.prev + k
        /\ m.prev + k \in Int
    BY <1>1, <1>2, <1>3
  <2>2. leaderLog[t][m.prev + k] # VS!Absent
    BY <1>2, <2>1 DEF VS!Absent
  <2>3. k \notin missing <=> TermOf(m.prev + k) = leaderLog[t][m.prev + k]
    BY <1>1 DEF Match
  <2>4. CASE m.prev + k <= End
    <3>1. TermOf(m.prev + k) = HeldTerm(m.prev + k)
      BY <1>2, <2>1, <2>4, Reads
    <3> QED BY <2>3, <2>4, <3>1
  <2>5. CASE ~(m.prev + k <= End)
    <3>1. m.prev + k \notin v_offset .. End /\ m.prev + k # Stored
      BY <1>2, <2>1, <2>5
    <3>2. TermOf(m.prev + k) = VS!Absent
      BY <2>1, <3>1, Reads
    <3> QED BY <2>2, <2>3, <2>5, <3>2
  <2> QED BY <2>4, <2>5
<1>5. missing \subseteq 1 .. m.count
  BY <1>1
<1>6. c = IF missing = {} THEN 0
          ELSE ents[CHOOSE k \in missing : \A j \in missing : k <= j].index
  BY DEF FindConflict, ents
<1> HIDE DEF missing
<1>7. CASE missing = {}
  <2>1. \A j \in v_offset .. m.prev + m.count : j \in v_offset .. m.prev
          \/ (j - m.prev \in 1 .. m.count /\ m.prev + (j - m.prev) = j)
    BY <1>1, <1>2
  <2>2. m.prev + m.count <= End
    <3>1. CASE m.count = 0
      BY <1>1, <1>3, <3>1
    <3>2. CASE m.count # 0
      BY <1>1, <1>4, <1>7, <3>2
    <3> QED BY <3>1, <3>2
  <2> QED BY <1>3, <1>4, <1>6, <1>7, <2>1, <2>2
<1>8. CASE missing # {}
  <2>1. PICK k : k = CHOOSE i \in missing : \A j \in missing : i <= j
    OBVIOUS
  <2>2. k \in missing /\ \A j \in missing : k <= j
    <3>1. missing \in SUBSET Nat
      BY <1>5
    <3> QED BY <1>8, <2>1, <3>1, Least
  <2>3. k \in 1 .. m.count /\ c = m.prev + k
    BY <1>1, <1>5, <1>6, <1>8, <2>1, <2>2
  <2>4. ASSUME NEW j \in 1 .. k - 1
        PROVE  m.prev + j <= End /\ HeldTerm(m.prev + j) = leaderLog[t][m.prev + j]
    <3>1. j \in 1 .. m.count /\ ~(k <= j)
      BY <1>1, <2>3
    <3> QED BY <1>4, <2>2, <3>1
  <2>5. c \in m.prev + 1 .. m.prev + m.count /\ v_offset <= c
    BY <1>1, <1>2, <1>3, <2>3
  <2>6. c <= End + 1
    <3>1. CASE k = 1
      BY <1>1, <1>2, <1>3, <2>3, <3>1
    <3>2. CASE k # 1
      <4>1. k - 1 \in 1 .. k - 1
        BY <1>1, <2>3, <3>2
      <4>2. m.prev + (k - 1) <= End
        BY <2>4, <4>1
      <4> QED BY <1>1, <1>2, <2>3, <4>2
    <3> QED BY <3>1, <3>2
  <2>7. c <= End => HeldTerm(c) # leaderLog[t][c]
    BY <1>4, <2>2, <2>3
  <2>8. \A j \in v_offset .. c - 1 : HeldTerm(j) = leaderLog[t][j]
    <3>1. \A j \in v_offset .. c - 1 : j \in v_offset .. m.prev
            \/ (j - m.prev \in 1 .. k - 1 /\ m.prev + (j - m.prev) = j)
      BY <1>1, <1>2, <2>3
    <3> QED BY <1>3, <2>4, <3>1
  <2> QED BY <1>1, <1>2, <2>5, <2>6, <2>7, <2>8
<1> QED BY <1>7, <1>8

(* A beginning of one sequence with another one after it.                  *)
LEMMA Spliced ==
  ASSUME NEW S, NEW held \in Seq(S), NEW kept \in 0 .. Len(held), NEW new \in Seq(S),
         NEW joined, joined = SubSeq(held, 1, kept) \o new
  PROVE  /\ joined \in Seq(S)
         /\ Len(joined) = kept + Len(new)
         /\ \A k \in 1 .. kept : joined[k] = held[k]
         /\ \A k \in 1 .. Len(new) : joined[kept + k] = new[k]
<1> DEFINE pre == SubSeq(held, 1, kept)
<1>1. Len(held) \in Nat /\ Len(new) \in Nat /\ kept \in Nat
  BY LenProperties
<1>2. \A k \in 1 .. kept : held[k] \in S
  BY <1>1, ElementOfSeq
<1>3. /\ pre \in Seq(S)
      /\ Len(pre) = IF 1 <= kept THEN kept - 1 + 1 ELSE 0
      /\ \A k \in 1 .. kept - 1 + 1 : pre[k] = held[1 + k - 1]
  BY <1>1, <1>2, SubSeqProperties
<1> HIDE DEF pre
<1>4. Len(pre) = kept /\ \A k \in 1 .. kept : pre[k] = held[k]
  BY <1>1, <1>3
<1>5. /\ joined \in Seq(S)
      /\ Len(joined) = Len(pre) + Len(new)
      /\ \A k \in 1 .. Len(pre) + Len(new) :
           joined[k] = IF k <= Len(pre) THEN pre[k] ELSE new[k - Len(pre)]
  <2>1. joined = pre \o new
    BY DEF pre
  <2> QED BY <1>3, <2>1, ConcatProperties
<1>6. Len(joined) = kept + Len(new)
  BY <1>4, <1>5
<1>7. ASSUME NEW k \in 1 .. kept PROVE joined[k] = held[k]
  BY <1>1, <1>4, <1>5
<1>8. ASSUME NEW k \in 1 .. Len(new) PROVE joined[kept + k] = new[k]
  <2>1. kept + k \in 1 .. kept + Len(new) /\ ~(kept + k <= kept) /\ kept + k - kept = k
    BY <1>1
  <2> QED BY <1>4, <1>5, <2>1
<1> QED BY <1>5, <1>6, <1>7, <1>8

(* A run of entries from base on of which another run, that starts after   *)
(* p, replaces those from c on.                                            *)
Splice(held, base, ents, p, c) ==
  SubSeq(held, 1, c - base) \o SubSeq(ents, c - p, Len(ents))

(* Where each index is found then.                                         *)
SplicedRun(joined, held, base, ents, p, c) ==
  /\ base + Len(joined) - 1 = p + Len(ents)
  /\ \A j \in base .. c - 1 : joined[j - base + 1] = held[j - base + 1]
  /\ \A j \in c .. p + Len(ents) : joined[j - base + 1] = ents[j - p]

(* What the log holds after a splice: its own entries before the conflict, *)
(* the message's from it on.                                               *)
LEMMA RunSpliced ==
  ASSUME NEW S, NEW held, NEW ents, NEW base, NEW p, NEW c, NEW joined,
         joined = Splice(held, base, ents, p, c),
         /\ held \in Seq(S) /\ ents \in Seq(S)
         /\ base \in Nat /\ p \in Nat /\ c \in Nat
         /\ base <= c /\ c <= base + Len(held)
         /\ p < c /\ c <= p + Len(ents)
  PROVE  joined \in Seq(S) /\ SplicedRun(joined, held, base, ents, p, c)
<1>0. PICK top : top = p + Len(ents)
  OBVIOUS
<1>1. Len(held) \in Nat /\ Len(ents) \in Nat
  BY LenProperties
<1>2. PICK kept \in Nat, from \in Nat : kept = c - base /\ from = c - p
  BY <1>0, <1>1
<1>3. /\ kept \in 0 .. Len(held) /\ from \in 1 .. Len(ents) /\ from <= Len(ents)
      /\ top = p + Len(ents) /\ c = base + kept /\ c = p + from
  BY <1>0, <1>1, <1>2
<1> DEFINE tail == SubSeq(ents, from, Len(ents))
<1>4. joined = SubSeq(held, 1, kept) \o tail
  BY <1>2 DEF Splice
<1>5. \A k \in from .. Len(ents) : ents[k] \in S
  BY <1>1, <1>3, ElementOfSeq
<1>6. /\ tail \in Seq(S)
      /\ Len(tail) = IF from <= Len(ents) THEN Len(ents) - from + 1 ELSE 0
      /\ \A k \in 1 .. Len(ents) - from + 1 : tail[k] = ents[from + k - 1]
  BY <1>1, <1>3, <1>5, SubSeqProperties
<1> HIDE DEF tail
<1>7. Len(tail) = Len(ents) - from + 1
  BY <1>3, <1>6
<1>8. /\ joined \in Seq(S)
      /\ Len(joined) = kept + Len(tail)
      /\ \A k \in 1 .. kept : joined[k] = held[k]
      /\ \A k \in 1 .. Len(tail) : joined[kept + k] = tail[k]
  <2>1. held \in Seq(S) /\ kept \in 0 .. Len(held) /\ tail \in Seq(S)
    BY <1>3, <1>6
  <2> QED BY ONLY <1>4, <2>1, Spliced
<1>9. base + Len(joined) - 1 = top
  <2>1. Len(joined) = kept + (Len(ents) - from + 1)
    BY <1>7, <1>8
  <2> QED BY <1>1, <1>2, <1>3, <2>1
<1>10. ASSUME NEW j \in base .. c - 1
       PROVE  joined[j - base + 1] = held[j - base + 1]
  <2>1. j - base + 1 \in 1 .. kept
    BY <1>2
  <2> QED BY <1>8, <2>1
<1>11. ASSUME NEW j \in c .. top PROVE joined[j - base + 1] = ents[j - p]
  <2>1. PICK k \in Int : k = j - c + 1
    OBVIOUS
  <2>2. /\ k \in 1 .. Len(tail) /\ k \in 1 .. Len(ents) - from + 1
        /\ kept + k = j - base + 1 /\ from + k - 1 = j - p
    BY <1>1, <1>2, <1>3, <1>7, <2>1
  <2>3. joined[kept + k] = tail[k] /\ tail[k] = ents[from + k - 1]
    BY <1>6, <1>8, <2>2
  <2> QED BY <2>2, <2>3
<1> QED BY <1>0, <1>8, <1>9, <1>10, <1>11 DEF SplicedRun

(* VolatileState::Append, unless it truncates wrongly, keeps the entries   *)
(* below the first new one and puts the new ones behind them.              *)
LEMMA ImportSplices ==
  ASSUME LogInv, NEW new, new \in Seq(VS!Entries), new # <<>>,
         NEW c \in v_offset .. End + 1, new[1].index = c,
         v_offset < c /\ c <= End => VS!Preserve(c) = VS!EntriesBelow(c),
         VS!Import(new)
  PROVE  /\ v_entries' = SubSeq(v_entries, 1, c - v_offset) \o new
         /\ UNCHANGED <<v_snapshot, v_offset, status>>
<1>1. /\ v_offset \in Nat \ {0} /\ Len(v_entries) \in Nat
      /\ End = v_offset + Len(v_entries) - 1
      /\ v_entries \in Seq(VS!Entries)
  BY FollowerTypes DEF End, LogInv, FollowerInv, FollowerTyped
<1>2. VS!NextIndex = End + 1
  BY <1>1 DEF VS!NextIndex
<1>3. CASE c = VS!NextIndex
  <2>1. VS!ImportAtEnd(new)
    BY <1>3 DEF VS!Import
  <2>2. SubSeq(v_entries, 1, c - v_offset) = v_entries
    <3>1. c - v_offset = Len(v_entries)
      BY <1>1, <1>2, <1>3
    <3> QED BY <1>1, <3>1, SubSeqFull
  <2> QED BY <2>1, <2>2 DEF VS!ImportAtEnd
<1>4. CASE c # VS!NextIndex /\ c <= v_offset
  <2>1. VS!ImportFromFront(new)
    BY <1>1, <1>4 DEF VS!Import
  <2>2. c = v_offset
    BY <1>1, <1>4
  <2>3. SubSeq(v_entries, 1, c - v_offset) \o new = new
    <3>1. SubSeq(v_entries, 1, c - v_offset) = <<>>
      BY <1>1, <2>2, SubSeqEmpty
    <3> QED BY <3>1, ConcatEmptySeq
  <2> QED BY <2>1, <2>2, <2>3 DEF VS!ImportFromFront
<1>5. CASE c # VS!NextIndex /\ c > v_offset
  <2>1. VS!ImportInside(new)
    BY <1>1, <1>5 DEF VS!Import
  <2>2. c <= End /\ v_entries # <<>>
    BY <1>1, <1>2, <1>5, EmptySeq
  <2>3. VS!EndHeld = End
    BY <2>2, Reads
  <2>4. VS!Preserve(c) = c - v_offset /\ VS!Preserve(c) <= Len(v_entries)
    BY <1>1, <1>5, <2>2 DEF VS!EntriesBelow
  <2> QED BY <1>1, <2>1, <2>2, <2>3, <2>4 DEF VS!ImportInside
<1> QED BY <1>1, <1>3, <1>4, <1>5

(* What a message that is accepted makes of the log.                       *)
Took(t, m) ==
  /\ UNCHANGED <<v_snapshot, v_offset, storageVars, m_applied, status>>
  /\ m_commit' = CommitAfter(m.prev, m.commit, MessageEntries(t, m))
  /\ v_offset - 1 <= m.prev /\ m.prev <= End
  /\ v_entries' \in Seq(VS!Entries) /\ VS!Contiguous'
  /\ m.prev + m.count <= End'
  /\ \A j \in v_offset .. m.prev + m.count : HeldTerm(j)' = leaderLog[t][j]
  /\ \/ v_entries' = v_entries
     \/ /\ End' = m.prev + m.count
        /\ \E c \in m.prev + 1 .. m.prev + m.count :
             /\ m_applied < c
             /\ v_entries # <<>> => m_commit < c
             /\ v_offset <= c /\ c <= End + 1
             /\ c <= End => HeldTerm(c) # leaderLog[t][c]
             /\ \A j \in v_offset .. c - 1 : HeldTerm(j)' = HeldTerm(j)

(* Splicing in the entries of a message from the conflict on.              *)
LEMMA SpliceTakes ==
  ASSUME LogInv, NEW t \in 1 .. LeaderTerm, NEW m \in Messages(t),
         m_cur_term <= t, Match(m.prev, PrevTerm(t, m)),
         NEW c \in m.prev + 1 .. m.prev + m.count,
         c \in v_offset .. End + 1,
         c <= End => HeldTerm(c) # leaderLog[t][c],
         \A j \in v_offset .. c - 1 : HeldTerm(j) = leaderLog[t][j],
         v_entries' = SubSeq(v_entries, 1, c - v_offset)
                        \o SubSeq(MessageEntries(t, m), c - m.prev, m.count),
         UNCHANGED <<v_snapshot, v_offset, storageVars, m_applied, status>>,
         m_commit' = CommitAfter(m.prev, m.commit, MessageEntries(t, m))
  PROVE  Took(t, m)
<1> DEFINE ents == MessageEntries(t, m)
           p    == m.prev
           top  == p + m.count
<1>1. /\ c \in p + 1 .. top /\ c \in v_offset .. End + 1
      /\ v_entries' = SubSeq(v_entries, 1, c - v_offset)
                        \o SubSeq(ents, c - p, m.count)
  OBVIOUS
<1>2. /\ p \in Nat /\ top \in Nat /\ Len(ents) \in Nat /\ top = p + Len(ents)
      /\ m.count = Len(ents)
      /\ top <= Len(leaderLog[t]) /\ Len(leaderLog[t]) \in Nat
      /\ ents \in Seq(VS!Entries)
      /\ \A k \in 1 .. Len(ents) :
           ents[k].index = p + k /\ ents[k].term = leaderLog[t][p + k]
  <2>1. /\ p \in Nat /\ m.count \in Nat /\ m.count = Len(ents)
        /\ p + m.count <= Len(leaderLog[t]) /\ Len(leaderLog[t]) \in Nat
    BY MessageParts
  <2>2. /\ ents \in Seq(VS!Entries)
        /\ \A k \in 1 .. m.count :
             ents[k].index = p + k /\ ents[k].term = leaderLog[t][p + k]
    BY MessageParts
  <2> HIDE DEF ents, p
  <2>3. /\ top \in Nat /\ Len(ents) \in Nat /\ top = p + Len(ents)
        /\ top <= Len(leaderLog[t])
    BY ONLY <2>1 DEF top
  <2> HIDE DEF top
  <2> QED BY <2>1, <2>2, <2>3
<1> HIDE DEF ents, p, top
<1>3. /\ v_offset \in Nat \ {0} /\ Len(v_entries) \in Nat
      /\ End = v_offset + Len(v_entries) - 1
      /\ m_commit \in Nat /\ m_applied \in Nat /\ m_applied <= End
  BY FollowerTypes DEF End
<1>4. /\ c \in Nat /\ c <= top /\ v_offset <= c /\ p < c
      /\ c <= End + 1 /\ c <= v_offset + Len(v_entries)
  BY <1>1, <1>2, <1>3
<1>5. /\ v_entries' \in Seq(VS!Entries)
      /\ v_offset + Len(v_entries') - 1 = top
      /\ \A j \in v_offset .. c - 1 :
           v_entries'[j - v_offset + 1] = v_entries[j - v_offset + 1]
      /\ \A j \in c .. top : v_entries'[j - v_offset + 1] = ents[j - p]
  <2>1. v_entries \in Seq(VS!Entries)
    BY DEF LogInv, FollowerInv, FollowerTyped
  <2>2. v_entries' = Splice(v_entries, v_offset, ents, p, c)
    BY <1>1, <1>2 DEF Splice
  <2>3. /\ v_offset \in Nat /\ p \in Nat /\ c \in Nat 
        /\ v_offset <= c /\ c <= v_offset + Len(v_entries)
        /\ p < c /\ c <= p + Len(ents)
    BY <1>2, <1>3, <1>4
  <2>4. ents \in Seq(VS!Entries)
    BY <1>2
  <2>5. /\ v_entries' \in Seq(VS!Entries)
        /\ SplicedRun(v_entries', v_entries, v_offset, ents, p, c)
    BY ONLY <2>1, <2>2, <2>3, <2>4, RunSpliced
  <2> QED BY <1>2, <2>5 DEF SplicedRun
<1>6. End' = top
  BY <1>5 DEF End
<1>7. \A j \in v_offset .. c - 1 :
        v_entries'[j - v_offset + 1] = v_entries[j - v_offset + 1]
  BY <1>5
<1>8. ASSUME NEW j \in c .. top
      PROVE  /\ v_entries'[j - v_offset + 1].index = j
             /\ v_entries'[j - v_offset + 1].term = leaderLog[t][j]
  <2>1. PICK k \in Int : k = j - p
    BY <1>2, <1>4
  <2>2. k \in 1 .. Len(ents) /\ p + k = j
    BY <1>2, <1>4, <2>1
  <2>3. v_entries'[j - v_offset + 1] = ents[k]
    BY <1>5, <2>1
  <2> QED BY <1>2, <2>2, <2>3
<1>9. VS!Contiguous'
  <2> SUFFICES ASSUME NEW k \in 1 .. Len(v_entries')
               PROVE  v_entries'[k].index = v_offset + k - 1
    BY DEF VS!Contiguous
  <2>1. Len(v_entries') \in Nat
    BY <1>5, LenProperties
  <2>2. PICK j \in Nat : j = v_offset + k - 1
    BY <1>3, <2>1
  <2>3. k = j - v_offset + 1 /\ j \in v_offset .. top
    BY <1>3, <1>5, <2>1, <2>2
  <2>4. CASE j \in c .. top
    <3>1. v_entries'[j - v_offset + 1].index = j
      BY <1>8, <2>4
    <3> QED BY <2>2, <2>3, <3>1
  <2>5. CASE j \in v_offset .. c - 1
    <3>1. v_entries'[k] = v_entries[k]
      BY <1>7, <2>3, <2>5
    <3>2. k \in 1 .. Len(v_entries)
      BY <1>3, <1>4, <2>2, <2>3, <2>5
    <3> QED BY <3>1, <3>2 DEF LogInv, FollowerInv, Seam, VS!Contiguous
  <2>6. j \in c .. top \/ j \in v_offset .. c - 1
    BY <1>4, <2>2, <2>3
  <2> QED BY <2>4, <2>5, <2>6
<1>10. ASSUME NEW j \in v_offset .. c - 1 PROVE HeldTerm(j)' = HeldTerm(j)
  BY <1>7 DEF HeldTerm
<1>11. ASSUME NEW j \in v_offset .. top PROVE HeldTerm(j)' = leaderLog[t][j]
  <2>1. CASE j \in v_offset .. c - 1
    BY <1>10, <2>1
  <2>2. CASE j \in c .. top
    BY <1>8, <2>2 DEF HeldTerm
  <2> QED BY <1>3, <1>4, <2>1, <2>2
<1>12. m_applied < c /\ (v_entries # <<>> => m_commit < c)
  <2>1. ASSUME c <= End PROVE ~(c <= m_commit \/ c <= m_applied)
    <3>1. c \in v_offset .. End
      BY <1>3, <1>4, <2>1
    <3> QED BY <2>1, <3>1, Uncontested
  <2>2. v_entries # <<>> => m_commit <= End
    BY DEF LogInv, FollowerInv, CommitSafe
  <2> QED BY <1>3, <1>4, <2>1, <2>2
<1>13. v_offset - 1 <= m.prev /\ m.prev <= End
  <2>1. m.prev \in 0 .. Len(leaderLog[t])
    BY MessageParts
  <2> QED BY <2>1, MatchedBefore DEF Match, PrevTerm
<1>14. m.prev + m.count <= End' /\ End' = m.prev + m.count
  BY <1>2, <1>6 DEF p, top
<1>15. \E d \in m.prev + 1 .. m.prev + m.count :
         /\ m_applied < d
         /\ v_entries # <<>> => m_commit < d
         /\ v_offset <= d /\ d <= End + 1
         /\ d <= End => HeldTerm(d) # leaderLog[t][d]
         /\ \A j \in v_offset .. d - 1 : HeldTerm(j)' = HeldTerm(j)
  BY <1>4, <1>10, <1>12
<1>16. \A j \in v_offset .. m.prev + m.count : HeldTerm(j)' = leaderLog[t][j]
  BY <1>11 DEF p, top
<1> QED BY <1>5, <1>9, <1>13, <1>14, <1>15, <1>16 DEF Took

-----------------------------------------------------------------------------
(* The difference that passes through an int *)

(* Division with remainder.                                                *)
LEMMA Remainders ==
  ASSUME NEW d \in Nat \ {0}, NEW n \in Int
  PROVE  /\ n = d * (n \div d) + (n % d)
         /\ n \div d \in Int
         /\ n % d \in Int /\ 0 <= n % d /\ n % d < d
  BY Z3

(* Multiples of d are d apart.                                             *)
LEMMA MultiplesApart ==
  ASSUME NEW d \in Nat \ {0}, NEW j \in Int, NEW k \in Int, d * j < d * k
  PROVE  d * j + d <= d * k
<1>1. j < k
  <2>1. ASSUME j >= k PROVE d * j >= d * k
    BY <2>1
  <2> QED BY <2>1
<1>2. d * (j + 1) <= d * k
  BY <1>1
<1>3. d * (j + 1) = d * j + d
  OBVIOUS
<1> QED BY <1>2, <1>3

(* A remainder is known by its range and by what it leaves.                *)
LEMMA RemainderIs ==
  ASSUME NEW d \in Nat \ {0}, NEW n \in Int, NEW q \in Int, NEW r \in Int,
         n = d * q + r, 0 <= r, r < d
  PROVE  n % d = r
<1> DEFINE p == n \div d
           s == n % d
<1>1. n = d * p + s /\ p \in Int /\ s \in Int /\ 0 <= s /\ s < d
  BY Remainders
<1> HIDE DEF p, s
<1>2. d * p \in Int /\ d * q \in Int
  BY <1>1
<1>3. ~(d * p < d * q)
  <2>1. ASSUME d * p < d * q PROVE d * p + d <= d * q
    BY <1>1, <2>1, MultiplesApart
  <2> QED BY <1>1, <1>2, <2>1
<1>4. ~(d * q < d * p)
  <2>1. ASSUME d * q < d * p PROVE d * q + d <= d * p
    BY <1>1, <2>1, MultiplesApart
  <2> QED BY <1>1, <1>2, <2>1
<1>5. s = r
  BY <1>1, <1>2, <1>3, <1>4
<1> QED BY <1>5 DEF s

(* A number without remainder is a multiple.                               *)
LEMMA MultipleIs ==
  ASSUME NEW d \in Nat \ {0}, NEW n \in Int, n % d = 0
  PROVE  \E q \in Int : n = d * q
<1>1. PICK q \in Int : q = n \div d
  BY Remainders
<1>2. n = d * q + 0 /\ d * q \in Int
  BY <1>1, Remainders
<1> QED BY <1>2

(* What fits into an int comes through it unchanged.                       *)
LEMMA IntKeeps ==
  ASSUME NEW n \in Int, -IntLimit <= n, n < IntLimit
  PROVE  AsInt(n) = n
<1>1. PICK d \in Nat \ {0} : d = 2 * IntLimit
  BY BuildAssumption
<1>2. /\ IntLimit \in Nat \ {0}
      /\ AsInt(n) = IF n % d < IntLimit THEN n % d ELSE (n % d) - d
  BY <1>1, BuildAssumption DEF AsInt
<1>3. CASE 0 <= n
  <2>1. n = d * 0 + n /\ n < d
    BY <1>1, <1>2, <1>3
  <2>2. n % d = n
    BY <1>1, <1>3, <2>1, RemainderIs
  <2> QED BY <1>2, <2>2
<1>4. CASE n < 0
  <2>1. /\ n + d \in Int /\ 0 <= n + d /\ n + d < d
        /\ ~(n + d < IntLimit) /\ n + d - d = n
    BY <1>1, <1>2, <1>4
  <2>2. n % d = n + d
    <3>1. n = d * (-1) + (n + d) /\ -1 \in Int
      BY <1>1
    <3> QED BY <1>1, <2>1, <3>1, RemainderIs
  <2> QED BY <1>2, <2>1, <2>2
<1> QED BY <1>3, <1>4

(* The entries of a message that the log has all of are appended again if  *)
(* and only if one of their indexes is a multiple of 2^32 (raftlog.cpp:94, *)
(* 74-76), whatever the indexes are.                                       *)
THEOREM DuplicateSkippedUnlessWrapped ==
  ASSUME NEW ents, NEW n \in 1 .. IntLimit, Len(ents) = n,
         NEW first \in Nat, ents[1].index = first
  PROVE  ~SkipsAll(ents, AppendOffset(0, ents))
           <=> \E k \in 1 .. n : (first + k - 1) % (2 * IntLimit) = 0
<1>1. PICK d \in Nat \ {0} : d = 2 * IntLimit
  BY BuildAssumption
<1> DEFINE low == (0 - first) % d
           a   == (0 - first) \div d
<1>2. /\ IntLimit \in Nat \ {0} /\ n \in Nat /\ n <= IntLimit
      /\ AppendOffset(0, ents) = IF low < IntLimit THEN low ELSE low - d
  BY <1>1, BuildAssumption DEF AppendOffset, AsInt
<1>3. /\ 0 - first = d * a + low /\ a \in Int
      /\ low \in Int /\ 0 <= low /\ low < d
  <2>1. PICK m \in Int : m = 0 - first
    OBVIOUS
  <2> QED BY <1>1, <2>1, Remainders
<1> HIDE DEF low, a
<1>4. ~SkipsAll(ents, AppendOffset(0, ents)) <=> low < n
  <2>1. SkipsAll(ents, AppendOffset(0, ents))
          <=> AppendOffset(0, ents) < 0 \/ AppendOffset(0, ents) >= n
    BY DEF SkipsAll
  <2>2. CASE low < IntLimit
    BY <1>2, <1>3, <2>1, <2>2
  <2>3. CASE ~(low < IntLimit)
    <3>1. AppendOffset(0, ents) = low - d /\ low - d < 0 /\ ~(low < n)
      BY <1>1, <1>2, <1>3, <2>3
    <3> QED BY <2>1, <3>1
  <2> QED BY <2>2, <2>3
<1>5. ASSUME low < n
      PROVE  \E k \in 1 .. n : (first + k - 1) % d = 0
  <2>1. /\ low + 1 \in 1 .. n /\ first + (low + 1) - 1 = first + low
        /\ first + low \in Int
    BY <1>2, <1>3, <1>5
  <2>2. first + low = d * (-a) + 0 /\ -a \in Int
    <3>1. d * (-a) = 0 - d * a /\ d * a \in Int /\ -a \in Int
      BY <1>1, <1>3
    <3> QED BY <1>3, <3>1
  <2>3. (first + low) % d = 0
    <3>1. 0 <= 0 /\ 0 < d /\ 0 \in Int
      BY <1>1
    <3> QED BY <1>1, <2>1, <2>2, <3>1, RemainderIs
  <2> QED BY <2>1, <2>3
<1>6. ASSUME NEW k \in 1 .. n, (first + k - 1) % d = 0
      PROVE  low < n
  <2>1. PICK q \in Int : first + k - 1 = d * q
    <3>1. first + k - 1 \in Int
      BY <1>2
    <3> QED BY ONLY <1>1, <1>6, <3>1, MultipleIs
  <2>2. /\ 0 - first \in Int /\ k - 1 \in Int /\ 0 <= k - 1 /\ k - 1 < d
    BY <1>1, <1>2
  <2>3. 0 - first = d * (-q) + (k - 1) /\ -q \in Int
    <3>1. d * (-q) = 0 - d * q /\ d * q \in Int /\ -q \in Int
      BY <1>1
    <3> QED BY <1>2, <2>1, <3>1
  <2>4. low = k - 1
    BY <1>1, <2>2, <2>3, RemainderIs DEF low
  <2> QED BY <1>2, <2>4
<1> QED BY <1>1, <1>4, <1>5, <1>6

(* The offsets of this module's indexes, none of which is above 2^31.      *)
LEMMA Offsets ==
  ASSUME NEW ents, NEW first \in 1 .. MaxIndex, ents[1].index = first
  PROVE  /\ SkipsAll(ents, AppendOffset(0, ents))
         /\ \A c \in first .. MaxIndex : AppendOffset(c, ents) = c - first
<1>1. /\ MaxIndex \in Nat /\ IntLimit \in Nat /\ MaxIndex <= IntLimit
      /\ first \in Nat /\ 0 < first /\ first <= MaxIndex
  BY ReplicationAssumption, BuildAssumption, IndexAssumption
<1>2. AppendOffset(0, ents) = 0 - first
  <2>1. 0 - first \in Int /\ -IntLimit <= 0 - first /\ 0 - first < IntLimit
    BY <1>1
  <2> QED BY <2>1, IntKeeps DEF AppendOffset
<1>3. ASSUME NEW c \in first .. MaxIndex PROVE AppendOffset(c, ents) = c - first
  <2>1. c - first \in Int /\ -IntLimit <= c - first /\ c - first < IntLimit
    BY <1>1
  <2> QED BY <2>1, IntKeeps DEF AppendOffset
<1>4. SkipsAll(ents, AppendOffset(0, ents))
  BY <1>1, <1>2 DEF SkipsAll
<1> QED BY <1>3, <1>4

(* What a message ends in that neither changes the log nor takes effect:   *)
(* a failed assert or, if it has no entries, a read outside its deque.     *)
Failed(m) ==
  /\ status' = "aborted" \/ (status' = "undefined" /\ m.count = 0)
  /\ UNCHANGED <<volatileVars, storageVars, indexVars>>

(* A message hands its entries from a conflict on to VolatileState::Append. *)
Imported(t, m, c) ==
  /\ c \in m.prev + 1 .. m.prev + m.count
  /\ c \in v_offset .. End + 1
  /\ c <= End => HeldTerm(c) # leaderLog[t][c]
  /\ \A j \in v_offset .. c - 1 : HeldTerm(j) = leaderLog[t][j]
  /\ c = FindConflict(MessageEntries(t, m))
  /\ \E new \in Seq(VS!Entries) :
       /\ new = SubSeq(MessageEntries(t, m), c - m.prev, m.count)
       /\ new # <<>> /\ new[1].index = c
       /\ VS!Import(new)
  /\ m_commit' = IF status' = "running"
                  THEN CommitAfter(m.prev, m.commit, MessageEntries(t, m))
                  ELSE m_commit
  /\ UNCHANGED <<storageVars, m_applied>>

(* A message is refused, fails, changes nothing but the commit index       *)
(* because the log has its entries, or brings some that the log lacks.     *)
LEMMA DeliverCases ==
  ASSUME LogInv, NEW t \in 1 .. LeaderTerm, NEW m \in Messages(t),
         Deliver(t, m)
  PROVE  /\ status = "running"
         /\ m_cur_term <= t /\ m_cur_term' = t /\ UNCHANGED leaderVars
         /\ \/ UNCHANGED logVars
            \/ Failed(m)
            \/ Match(m.prev, PrevTerm(t, m)) /\ Took(t, m)
            \/ Match(m.prev, PrevTerm(t, m)) /\ \E c : Imported(t, m, c)
<1> DEFINE ents   == MessageEntries(t, m)
           commit == CommitAfter(m.prev, m.commit, ents)
<1>1. /\ status = "running" /\ m_cur_term <= t /\ m_cur_term' = t
      /\ UNCHANGED leaderVars
      /\ AppendMessage(m.prev, PrevTerm(t, m), m.commit, ents)
  BY FollowerTypes DEF Deliver, AppendMessage
<1>2. /\ m.prev \in Nat /\ m.count \in Nat /\ Len(ents) = m.count
      /\ ents \in Seq(VS!Entries)
      /\ \A k \in 1 .. m.count : ents[k].index = m.prev + k
      /\ m.prev + m.count <= MaxIndex /\ MaxIndex \in Nat
  <2>1. /\ Len(leaderLog[t]) \in Nat /\ Len(leaderLog[t]) <= MaxIndex
        /\ m.prev + m.count <= Len(leaderLog[t]) /\ MaxIndex \in Nat
        /\ m.prev \in Nat /\ m.count \in Nat
    BY MessageParts, ReplicationAssumption
  <2>2. m.prev + m.count <= MaxIndex
    BY ONLY <2>1
  <2> QED BY <2>1, <2>2, MessageParts
<1>3. TermOf(m.prev) # VS!Garbage
  BY <1>2, Reads
<1>4. CASE ~Match(m.prev, PrevTerm(t, m))
  BY <1>1, <1>3, <1>4 DEF AppendMessage, Match
<1>5. CASE Match(m.prev, PrevTerm(t, m))
  <2>1. PICK c : c = FindConflict(ents)
    OBVIOUS
  <2>2. \/ /\ c = 0
           /\ m.prev + m.count <= End
           /\ \A j \in v_offset .. m.prev + m.count : HeldTerm(j) = leaderLog[t][j]
        \/ /\ c \in m.prev + 1 .. m.prev + m.count
           /\ c \in v_offset .. End + 1
           /\ c <= End => HeldTerm(c) # leaderLog[t][c]
           /\ \A j \in v_offset .. c - 1 : HeldTerm(j) = leaderLog[t][j]
    BY <1>5, <2>1, Conflict
  <2>3. c \in Int /\ TermOf(c) # VS!Garbage
    <3>1. c \in Int
      BY <1>2, <2>2
    <3> QED BY <3>1, Reads
  <2>4. AcceptEntries(m.prev, m.commit, ents)
    BY <1>1, <1>3, <1>5 DEF AppendMessage, Match
  <2>5. \/ Failed(m)
        \/ /\ m.count # 0
           /\ AppendToVolatileState(ents, AppendOffset(c, ents), commit)
    <3>1. ents = <<>> <=> m.count = 0
      BY <1>2, EmptySeq
    <3> QED BY <2>1, <2>3, <2>4, <3>1 DEF AcceptEntries, Fail, Failed
  <2>6. ASSUME m.count # 0
        PROVE  /\ SkipsAll(ents, AppendOffset(0, ents))
               /\ \A d \in m.prev + 1 .. MaxIndex :
                    AppendOffset(d, ents) = d - (m.prev + 1)
    <3>1. 1 \in 1 .. m.count /\ m.prev + 1 \in 1 .. MaxIndex
      BY <1>2, <2>6
    <3>2. ents[1].index = m.prev + 1
      BY <1>2, <3>1
    <3> HIDE DEF ents
    <3> QED BY <3>1, <3>2, Offsets
  <2>7. ASSUME m.count # 0,
               AppendToVolatileState(ents, AppendOffset(c, ents), commit), c = 0
        PROVE  Took(t, m)
    <3>1. SkipsAll(ents, AppendOffset(c, ents))
      BY <2>6, <2>7
    <3>2. /\ m_commit' = commit
          /\ UNCHANGED <<volatileVars, storageVars, m_applied, status>>
      BY <2>7, <3>1 DEF AppendToVolatileState
    <3>3. /\ v_offset - 1 <= m.prev /\ m.prev <= End
      <4>1. m.prev \in 0 .. Len(leaderLog[t])
        BY MessageParts
      <4> QED BY <1>5, <4>1, MatchedBefore DEF Match, PrevTerm
    <3>4. m.prev + m.count <= End
          /\ \A j \in v_offset .. m.prev + m.count : HeldTerm(j) = leaderLog[t][j]
      BY <1>2, <2>2, <2>7
    <3>5. v_entries' = v_entries /\ v_offset' = v_offset /\ End' = End
          /\ \A j : HeldTerm(j)' = HeldTerm(j)
      BY <3>2 DEF volatileVars, End, HeldTerm
    <3>6. v_entries' \in Seq(VS!Entries) /\ VS!Contiguous'
      BY <3>5 DEF VS!Contiguous, LogInv, FollowerInv, FollowerTyped, Seam
    <3> QED BY <3>2, <3>3, <3>4, <3>5, <3>6 DEF Took, volatileVars
  <2>8. ASSUME m.count # 0,
               AppendToVolatileState(ents, AppendOffset(c, ents), commit), c # 0
        PROVE  Failed(m) \/ Imported(t, m, c)
    <3>1. /\ c \in Nat /\ m.prev < c /\ c <= m.prev + m.count
          /\ c \in m.prev + 1 .. m.prev + m.count
          /\ c \in m.prev + 1 .. MaxIndex
          /\ c \in v_offset .. End + 1
          /\ c <= End => HeldTerm(c) # leaderLog[t][c]
          /\ \A j \in v_offset .. c - 1 : HeldTerm(j) = leaderLog[t][j]
      BY <1>2, <2>2, <2>8
    <3>2. AppendOffset(c, ents) = c - (m.prev + 1)
      BY <2>6, <2>8, <3>1
    <3>3. PICK skip \in Nat : skip = c - (m.prev + 1)
      BY <1>2, <3>1
    <3>4. skip < m.count /\ skip + 1 = c - m.prev /\ skip + 1 \in 1 .. m.count
          /\ m.prev + (skip + 1) = c /\ ~(skip >= m.count) /\ ~(skip < 0)
      <4>1. m.prev \in Nat /\ m.count \in Nat
        BY <1>2
      <4>2. c \in Nat /\ m.prev < c /\ c <= m.prev + m.count
        BY <3>1
      <4> QED BY ONLY <3>3, <4>1, <4>2
    <3> DEFINE new == SubSeq(ents, skip + 1, m.count)
    <3>5. ~SkipsAll(ents, AppendOffset(c, ents))
      BY <1>2, <3>2, <3>3, <3>4 DEF SkipsAll
    <3>6. \/ Failed(m)
          \/ /\ VS!Import(new)
             /\ m_commit' = IF status' = "running" THEN commit ELSE m_commit
             /\ UNCHANGED <<storageVars, m_applied>>
      BY <1>2, <2>8, <3>2, <3>3, <3>4, <3>5
         DEF AppendToVolatileState, VS!AppendEntries, Fail, Failed
    <3>7. new \in Seq(VS!Entries) /\ Len(new) = m.count - (skip + 1) + 1
          /\ \A k \in 1 .. m.count - (skip + 1) + 1 : new[k] = ents[skip + 1 + k - 1]
      <4>1. \A k \in skip + 1 .. m.count : ents[k] \in VS!Entries
        <5>1. \A k \in skip + 1 .. m.count : k \in 1 .. m.count
          BY <1>2
        <5> QED BY <1>2, <5>1, ElementOfSeq
      <4>2. /\ new \in Seq(VS!Entries)
            /\ Len(new) = IF skip + 1 <= m.count THEN m.count - (skip + 1) + 1 ELSE 0
            /\ \A k \in 1 .. m.count - (skip + 1) + 1 : new[k] = ents[skip + 1 + k - 1]
        BY <1>2, <4>1, SubSeqProperties
      <4> HIDE DEF new
      <4>3. skip + 1 <= m.count
        BY <1>2, <3>4
      <4> QED BY <4>2, <4>3
    <3>8. new = SubSeq(ents, c - m.prev, m.count)
      BY <3>4
    <3> HIDE DEF new
    <3>9. new # <<>> /\ new[1].index = c
      <4>1. 1 \in 1 .. m.count - (skip + 1) + 1 /\ skip + 1 + 1 - 1 = skip + 1
            /\ m.count - (skip + 1) + 1 # 0
        BY <1>2, <3>4
      <4>2. new[1] = ents[skip + 1] /\ Len(new) # 0
        BY <3>7, <4>1
      <4> QED BY <1>2, <3>4, <4>2, EmptySeq
    <3> QED BY <2>1, <3>1, <3>6, <3>7, <3>8, <3>9 DEF Imported
  <2> QED BY <1>1, <1>5, <2>5, <2>7, <2>8
<1> QED BY <1>1, <1>4, <1>5

(* Whatever number of entries it keeps, VolatileState::Append stays within *)
(* its deque when what comes in starts right behind it or inside it.       *)
LEMMA ImportDefined ==
  ASSUME LogInv, NEW new, NEW c \in v_offset .. End + 1, new[1].index = c,
         VS!Import(new)
  PROVE  status' = status
<1>1. /\ v_offset \in Nat \ {0} /\ Len(v_entries) \in Nat
      /\ End = v_offset + Len(v_entries) - 1
      /\ v_entries \in Seq(VS!Entries)
  BY FollowerTypes DEF End, LogInv, FollowerInv, FollowerTyped
<1>2. VS!NextIndex = End + 1
  BY <1>1 DEF VS!NextIndex
<1>3. \/ VS!ImportAtEnd(new)
      \/ VS!ImportFromFront(new)
      \/ v_offset < c /\ c <= End /\ VS!ImportInside(new)
  <2>1. c \in Int /\ c <= End + 1
    BY <1>1
  <2> QED BY <1>1, <1>2, <2>1 DEF VS!Import
<1>4. CASE v_offset < c /\ c <= End /\ VS!ImportInside(new)
  <2>1. v_entries # <<>>
    BY <1>1, <1>4, EmptySeq
  <2>2. VS!EndHeld = End
    BY <2>1, Reads
  <2>3. ~(c > VS!EndHeld) /\ ~(VS!Preserve(c) > Len(v_entries))
    BY <1>1, <1>4, <2>2 DEF VS!Preserve
  <2> QED BY <1>4, <2>1, <2>3 DEF VS!ImportInside
<1> QED BY <1>3, <1>4 DEF VS!ImportAtEnd, VS!ImportFromFront

(* No message that has entries makes the log panic or read outside a deque. *)
LEMMA EntriesNeverFail ==
  ASSUME LogInv, NEW t \in 1 .. LeaderTerm, NEW m \in Messages(t),
         Deliver(t, m), m.count > 0
  PROVE  status' \notin {"panicked", "undefined"}
<1>1. status = "running" /\ m.count # 0
  <2>1. m.count \in Nat
    BY MessageParts
  <2> QED BY <2>1, DeliverCases
<1>2. CASE UNCHANGED logVars
  BY <1>1, <1>2 DEF logVars
<1>3. CASE Failed(m)
  BY <1>1, <1>3 DEF Failed
<1>4. CASE Took(t, m)
  BY <1>1, <1>4 DEF Took
<1>5. ASSUME NEW c, Imported(t, m, c) PROVE status' = status
  <2>1. PICK new \in Seq(VS!Entries) : new[1].index = c /\ VS!Import(new)
    BY <1>5 DEF Imported
  <2>2. c \in v_offset .. End + 1
    BY <1>5 DEF Imported
  <2> QED BY <2>1, <2>2, ImportDefined
<1> QED BY <1>1, <1>2, <1>3, <1>4, <1>5, DeliverCases

(* A message that neither miscuts nor comes late is refused, fails or is   *)
(* taken.                                                                  *)
LEMMA DeliverOutcome ==
  ASSUME LogInv, NEW t \in 1 .. LeaderTerm, NEW m \in Messages(t),
         Deliver(t, m), ~MessageMiscuts(t, m)
  PROVE  /\ status = "running"
         /\ m_cur_term <= t /\ m_cur_term' = t /\ UNCHANGED leaderVars
         /\ \/ UNCHANGED logVars
            \/ Failed(m)
            \/ Match(m.prev, PrevTerm(t, m)) /\ Took(t, m)
<1>1. ASSUME Match(m.prev, PrevTerm(t, m)), NEW c, Imported(t, m, c),
             status = "running"
      PROVE  Took(t, m)
  <2> DEFINE ents == MessageEntries(t, m)
  <2>1. PICK new \in Seq(VS!Entries) :
          /\ new = SubSeq(ents, c - m.prev, m.count)
          /\ new # <<>> /\ new[1].index = c
          /\ VS!Import(new)
    BY <1>1 DEF Imported
  <2>2. /\ c \in m.prev + 1 .. m.prev + m.count
        /\ c \in v_offset .. End + 1
        /\ c <= End => HeldTerm(c) # leaderLog[t][c]
        /\ \A j \in v_offset .. c - 1 : HeldTerm(j) = leaderLog[t][j]
        /\ c = FindConflict(ents)
        /\ m_commit' = IF status' = "running"
                        THEN CommitAfter(m.prev, m.commit, ents) ELSE m_commit
        /\ UNCHANGED <<storageVars, m_applied>>
    BY <1>1 DEF Imported
  <2>3. v_offset < c /\ c <= End => VS!Preserve(c) = VS!EntriesBelow(c)
    <3>1. c <= End => c < VS!NextIndex
      <4>1. v_offset \in Nat /\ Len(v_entries) \in Nat
            /\ End = v_offset + Len(v_entries) - 1
        BY FollowerTypes, LenProperties DEF End, LogInv, FollowerInv, FollowerTyped
      <4>2. c \in Int
        BY ONLY <2>2, <4>1
      <4> QED BY ONLY <4>1, <4>2 DEF VS!NextIndex
    <3>2. c # 0
      <4>1. m.prev \in Nat /\ m.count \in Nat
        BY MessageParts
      <4> QED BY ONLY <2>2, <4>1
    <3> QED BY <1>1, <2>2, <3>1, <3>2 DEF MessageMiscuts, Miscuts
  <2>4. /\ v_entries' = SubSeq(v_entries, 1, c - v_offset) \o new
        /\ UNCHANGED <<v_snapshot, v_offset, status>>
    BY <2>1, <2>2, <2>3, ImportSplices
  <2>5. v_entries' = SubSeq(v_entries, 1, c - v_offset)
                       \o SubSeq(ents, c - m.prev, m.count)
    BY <2>1, <2>4
  <2>6. /\ m_commit' = CommitAfter(m.prev, m.commit, ents)
        /\ UNCHANGED <<v_snapshot, v_offset, storageVars, m_applied, status>>
    BY <1>1, <2>2, <2>4
  <2>7. m_cur_term <= t /\ m_cur_term' = t /\ UNCHANGED leaderVars
    BY DeliverCases
  <2> HIDE DEF ents
  <2> QED BY <1>1, <2>2, <2>5, <2>6, <2>7, SpliceTakes DEF ents
<1> QED BY <1>1, DeliverCases

(* The commit index of a message is at most its leader's.                  *)
LEMMA CommitBounds ==
  ASSUME LogInv, NEW t \in 1 .. LeaderTerm, NEW m \in Messages(t),
         NEW n, n = CommitAfter(m.prev, m.commit, MessageEntries(t, m))
  PROVE  /\ n \in Nat /\ n <= m.prev + m.count /\ n <= leaderCommit[t]
         /\ n <= m.commit
         /\ n <= chosen /\ n <= MaxIndex /\ MaxIndex \in Nat
         /\ \A i \in 1 .. n : leaderLog[t][i] = ChosenTerm(i)
<1>1. /\ m.prev \in Nat /\ m.count \in Nat /\ m.commit \in Nat
      /\ Len(MessageEntries(t, m)) = m.count
      /\ m.commit <= leaderCommit[t] /\ leaderCommit[t] \in Nat
  BY MessageParts
<1>2. n = IF m.commit < m.prev + m.count THEN m.commit ELSE m.prev + m.count
  BY <1>1 DEF CommitAfter
<1>3. n \in Nat /\ n <= m.prev + m.count /\ n <= m.commit
  BY <1>1, <1>2
<1>4. n <= leaderCommit[t]
  BY <1>1, <1>3
<1>5. /\ leaderCommit[t] <= chosen
      /\ \A i \in 1 .. leaderCommit[t] : leaderLog[t][i] = ChosenTerm(i)
  <2>1. t <= t /\ LogInv /\ LeaderInv
    BY FollowerTypes DEF LogInv
  <2> QED BY <2>1, Complete
<1>6. chosen \in Nat /\ chosen <= MaxIndex /\ MaxIndex \in Nat
  BY FollowerTypes
<1>7. n <= chosen
  BY <1>1, <1>3, <1>4, <1>5, <1>6
<1> QED BY <1>1, <1>3, <1>4, <1>5, <1>6, <1>7

(* A message that is taken keeps the invariant.                            *)
LEMMA TookKeeps ==
  ASSUME LogInv, NEW t \in 1 .. LeaderTerm, NEW m \in Messages(t),
         m_cur_term <= t, m_cur_term' = t, UNCHANGED leaderVars, Took(t, m)
  PROVE  LogInv' /\ m_commit' <= End'
<1> DEFINE top == m.prev + m.count
<1>1. /\ leaderLog' = leaderLog /\ leaderCommit' = leaderCommit /\ chosen' = chosen
      /\ LeaderTerm' = LeaderTerm /\ \A i : ChosenTerm(i)' = ChosenTerm(i)
  BY DEF leaderVars, LeaderTerm, ChosenTerm
<1>2. /\ v_snapshot' = v_snapshot /\ v_offset' = v_offset /\ status' = status
      /\ s_snapshot' = s_snapshot /\ s_entries' = s_entries
      /\ m_applied' = m_applied /\ Stored' = Stored /\ StoredTerm' = StoredTerm
  BY DEF Took, storageVars, Stored, StoredTerm
<1>3. /\ v_entries' \in Seq(VS!Entries) /\ VS!Contiguous'
      /\ top <= End'
      /\ \A j \in v_offset .. top : HeldTerm(j)' = leaderLog[t][j]
  BY DEF Took
<1>4. PICK n : n = m_commit'
  OBVIOUS
<1>5. /\ n \in Nat /\ n <= top /\ n <= leaderCommit[t] /\ n <= chosen
      /\ n <= MaxIndex /\ MaxIndex \in Nat
      /\ \A i \in 1 .. n : leaderLog[t][i] = ChosenTerm(i)
  <2>1. n = CommitAfter(m.prev, m.commit, MessageEntries(t, m))
    BY <1>4 DEF Took
  <2> QED BY <2>1, CommitBounds
<1>6. /\ v_offset \in Nat \ {0} /\ End \in Int /\ m_applied \in Nat
      /\ Stored <= m_applied /\ m_applied <= End /\ m_cur_term \in Nat
      /\ LeaderTerm \in Nat \ {0} /\ t \in Nat
  BY FollowerTypes
<1>7. top \in Nat /\ top <= Len(leaderLog[t]) /\ Len(leaderLog[t]) \in Nat
  BY MessageParts
<1>8. \/ /\ v_entries' = v_entries /\ End' = End
         /\ \A i : HeldTerm(i)' = HeldTerm(i)
      \/ /\ End' = top
         /\ \E c \in m.prev + 1 .. top :
              /\ m_applied < c /\ c <= End + 1
              /\ \A j \in v_offset .. c - 1 : HeldTerm(j)' = HeldTerm(j)
  BY <1>2 DEF Took, End, HeldTerm
<1>9. End' \in Int
  BY <1>6, <1>7, <1>8
<1>10. m.prev \in Nat
  BY MessageParts
<1> HIDE DEF top
<1>11. n <= End'
  BY <1>3, <1>5, <1>7, <1>9
<1>12. m_applied <= End'
  BY <1>6, <1>7, <1>8, <1>10
<1>13. LeaderInv'
  BY LeadersSame DEF LogInv
<1>14. FollowerTyped'
  <2>1. n \in 0 .. MaxIndex
    BY <1>5
  <2>2. t \in 0 .. LeaderTerm
    BY <1>6
  <2>3. FollowerTyped
    BY DEF LogInv, FollowerInv
  <2> QED BY <1>1, <1>2, <1>3, <1>4, <2>1, <2>2, <2>3 DEF FollowerTyped
<1>15. StoredChosen'
  BY <1>1, <1>2 DEF StoredChosen, LogInv, FollowerInv
<1>16. Seam'
  BY <1>2, <1>3, <1>12 DEF Seam, LogInv, FollowerInv
<1>17. HeldFromLeaders'
  <2>1. CASE v_entries' = v_entries /\ End' = End /\ \A i : HeldTerm(i)' = HeldTerm(i)
    BY <1>1, <1>2, <2>1 DEF HeldFromLeaders, LogInv, FollowerInv
  <2>2. CASE End' = top
    <3>1. ASSUME NEW i \in v_offset .. top
          PROVE  /\ HeldTerm(i)' <= LeaderTerm
                 /\ i <= Len(leaderLog[HeldTerm(i)'])
                 /\ \A j \in v_offset .. i : HeldTerm(j)' = leaderLog[HeldTerm(i)'][j]
      <4>1. PICK u : u = leaderLog[t][i]
        OBVIOUS
      <4>2. i \in 1 .. Len(leaderLog[t])
        BY <1>6, <1>7
      <4>3. /\ u \in 1 .. LeaderTerm /\ i <= Len(leaderLog[u])
            /\ \A j \in 1 .. i : leaderLog[u][j] = leaderLog[t][j]
        BY <4>1, <4>2, Creator DEF LogInv
      <4>4. \A j \in v_offset .. i : j \in v_offset .. top /\ j \in 1 .. i
        BY <1>6, <1>7
      <4>5. HeldTerm(i)' = u
        BY <1>3, <4>1
      <4>6. \A j \in v_offset .. i : HeldTerm(j)' = leaderLog[u][j]
        BY <1>3, <4>3, <4>4
      <4>7. u <= LeaderTerm
        BY <1>6, <4>3
      <4> QED BY <4>3, <4>5, <4>6, <4>7
    <3> QED BY <1>1, <1>2, <2>2, <3>1 DEF HeldFromLeaders
  <2> QED BY <1>8, <2>1, <2>2
<1>18. CommitSafe'
  <2>1. Justified(m_applied)'
    <3>1. Justified(m_applied)
      BY DEF LogInv, FollowerInv, CommitSafe
    <3> QED BY <1>1, <1>2, <1>6, <3>1 DEF Justified
  <2>2. Justified(m_commit)'
    <3>1. t <= t
      BY <1>6
    <3> QED BY <1>1, <1>4, <1>5, <3>1 DEF Justified
  <2>3. ASSUME NEW i \in v_offset .. End', i <= n PROVE HeldTerm(i)' = ChosenTerm(i)
    <3>1. i \in v_offset .. top /\ i \in 1 .. n
      BY <1>5, <1>6, <1>7, <2>3
    <3> QED BY <1>3, <1>5, <3>1
  <2>4. ASSUME NEW i \in v_offset .. End', i <= m_applied
        PROVE  HeldTerm(i)' = ChosenTerm(i)
    <3>1. i \in v_offset .. End
      BY <1>6, <2>4
    <3>2. HeldTerm(i) = ChosenTerm(i)
      BY <2>4, <3>1 DEF LogInv, FollowerInv, CommitSafe
    <3>3. HeldTerm(i)' = HeldTerm(i)
      <4>1. CASE \A j : HeldTerm(j)' = HeldTerm(j)
        BY <4>1
      <4>2. ASSUME NEW c \in m.prev + 1 .. top, m_applied < c,
                   \A j \in v_offset .. c - 1 : HeldTerm(j)' = HeldTerm(j)
            PROVE  HeldTerm(i)' = HeldTerm(i)
        <5>1. i \in v_offset .. c - 1
          BY <1>6, <1>7, <1>10, <2>4, <4>2
        <5> QED BY <4>2, <5>1
      <4> QED BY <1>8, <4>1, <4>2
    <3> QED BY <3>2, <3>3
  <2>5. m_applied <= chosen
    BY DEF LogInv, FollowerInv, CommitSafe
  <2> QED BY <1>1, <1>2, <1>4, <1>5, <1>11, <2>1, <2>2, <2>3, <2>4, <2>5 DEF CommitSafe
<1> QED BY <1>4, <1>11, <1>13, <1>14, <1>15, <1>16, <1>17, <1>18 DEF LogInv, FollowerInv
-----------------------------------------------------------------------------
(* The steps keep the invariant *)

(* The numbers of the leaders after a step.                                *)
LEMMA LeaderTypesNext ==
  ASSUME LeaderInv'
  PROVE  /\ LeaderTerm' \in Nat /\ chosen' \in Nat
         /\ \A t \in 1 .. LeaderTerm' :
              Len(leaderLog'[t]) \in Nat /\ leaderCommit'[t] \in Nat
<1>1. /\ leaderLog' \in Seq(Seq(Terms)) /\ leaderCommit' \in Seq(0 .. MaxIndex)
      /\ Len(leaderCommit') = Len(leaderLog') /\ LeaderTerm' = Len(leaderLog')
      /\ chosen' \in 0 .. MaxIndex /\ MaxIndex \in Nat
  BY ReplicationAssumption DEF LeaderInv, LeadersTyped, LeaderTerm
<1>2. ASSUME NEW t \in 1 .. Len(leaderLog')
      PROVE  leaderLog'[t] \in Seq(Terms) /\ leaderCommit'[t] \in 0 .. MaxIndex
  BY <1>1, ElementOfSeq
<1>3. ASSUME NEW t \in 1 .. Len(leaderLog') PROVE Len(leaderLog'[t]) \in Nat
  BY <1>2, LenProperties
<1> QED BY <1>1, <1>2, <1>3, LenProperties

(* The follower's log is left alone, while the leaders grow.               *)
LEMMA FollowerKept ==
  ASSUME LogInv, LeaderInv', Grows,
         UNCHANGED <<volatileVars, storageVars, indexVars>>,
         status' \in {"running", "aborted", "undefined"},
         m_cur_term <= m_cur_term', m_cur_term' \in 0 .. LeaderTerm'
  PROVE  /\ LogInv' /\ End' = End /\ m_commit' = m_commit
         /\ \A i : HeldTerm(i)' = HeldTerm(i)
<1>1. /\ v_snapshot' = v_snapshot /\ v_entries' = v_entries /\ v_offset' = v_offset
      /\ s_snapshot' = s_snapshot /\ s_entries' = s_entries
      /\ m_commit' = m_commit /\ m_applied' = m_applied
      /\ End' = End /\ Stored' = Stored /\ StoredTerm' = StoredTerm
      /\ \A i : HeldTerm(i)' = HeldTerm(i)
  BY DEF volatileVars, storageVars, indexVars, End, HeldTerm, Stored, StoredTerm
<1>2. /\ v_offset \in Nat \ {0} /\ m_commit \in Nat /\ m_applied \in Nat
      /\ Stored \in Nat /\ chosen \in Nat /\ m_cur_term \in Nat /\ LeaderTerm \in Nat
      /\ End \in Int
      /\ \A i \in v_offset .. End : HeldTerm(i) \in Nat \ {0} /\ i \in Nat
  BY FollowerTypes
<1>3. /\ LeaderTerm' \in Nat /\ chosen' \in Nat
      /\ \A t \in 1 .. LeaderTerm' : Len(leaderLog'[t]) \in Nat /\ leaderCommit'[t] \in Nat
  BY LeaderTypesNext
<1>4. /\ LeaderTerm <= LeaderTerm' /\ chosen <= chosen'
      /\ \A i \in 1 .. chosen : ChosenTerm(i)' = ChosenTerm(i)
      /\ \A t \in 1 .. LeaderTerm :
           /\ Len(leaderLog[t]) <= Len(leaderLog'[t])
           /\ \A i \in 1 .. Len(leaderLog[t]) : leaderLog'[t][i] = leaderLog[t][i]
           /\ leaderCommit[t] <= leaderCommit'[t]
  BY DEF Grows
<1>5. FollowerTyped'
  BY <1>1 DEF FollowerTyped, LogInv, FollowerInv
<1>6. StoredChosen'
  BY <1>1, <1>2, <1>3, <1>4 DEF StoredChosen, LogInv, FollowerInv
<1>7. Seam'
  BY <1>1 DEF Seam, VS!Contiguous, LogInv, FollowerInv
<1>8. HeldFromLeaders'
  <2>1. ASSUME NEW i \in v_offset .. End
        PROVE  /\ HeldTerm(i) <= LeaderTerm'
               /\ i <= Len(leaderLog'[HeldTerm(i)])
               /\ \A j \in v_offset .. i : HeldTerm(j) = leaderLog'[HeldTerm(i)][j]
    <3>1. PICK u : u = HeldTerm(i)
      OBVIOUS
    <3>2. /\ u <= LeaderTerm /\ i <= Len(leaderLog[u])
          /\ \A j \in v_offset .. i : HeldTerm(j) = leaderLog[u][j]
      BY <3>1 DEF HeldFromLeaders, LogInv, FollowerInv
    <3>3. u \in 1 .. LeaderTerm /\ u \in 1 .. LeaderTerm'
      BY <1>2, <1>3, <1>4, <3>1, <3>2
    <3>4. Len(leaderLog[u]) \in Nat /\ Len(leaderLog'[u]) \in Nat
      BY <1>3, <3>3, LeaderTypes DEF LogInv, LeaderInv
    <3>5. \A j \in v_offset .. i : j \in 1 .. Len(leaderLog[u])
      BY <1>2, <3>2, <3>4
    <3>6. u <= LeaderTerm' /\ i <= Len(leaderLog'[u])
      BY <1>2, <1>3, <1>4, <3>2, <3>3, <3>4
    <3> QED BY <1>4, <3>1, <3>2, <3>3, <3>5, <3>6
  <2> QED BY <1>1, <2>1 DEF HeldFromLeaders
<1>9. CommitSafe'
  <2>1. ASSUME NEW i \in {m_commit, m_applied}, Justified(i)
        PROVE  i < v_offset \/ \E r \in 1 .. LeaderTerm' :
                                 r <= m_cur_term' /\ i <= leaderCommit'[r]
    <3>1. CASE i < v_offset
      BY <3>1
    <3>2. CASE ~(i < v_offset)
      <4>1. PICK r \in 1 .. LeaderTerm : r <= m_cur_term /\ i <= leaderCommit[r]
        BY <2>1, <3>2 DEF Justified
      <4>2. leaderCommit[r] \in Nat
        BY LeaderTypes DEF LogInv, LeaderInv
      <4>3. /\ r \in 1 .. LeaderTerm' /\ r <= m_cur_term'
            /\ leaderCommit'[r] \in Nat /\ leaderCommit[r] <= leaderCommit'[r]
        BY <1>2, <1>3, <1>4, <4>1
      <4>4. i <= leaderCommit'[r]
        BY <1>2, <4>1, <4>2, <4>3
      <4> QED BY <4>3, <4>4
    <3> QED BY <3>1, <3>2
  <2>2. /\ m_applied <= chosen /\ m_commit <= chosen
        /\ Justified(m_applied) /\ (v_entries # <<>> => m_commit <= End /\ Justified(m_commit))
    BY DEF CommitSafe, LogInv, FollowerInv
  <2>3. m_applied <= chosen' /\ m_commit <= chosen'
    BY <1>2, <1>3, <1>4, <2>2
  <2>4. ASSUME NEW i \in v_offset .. End, i <= m_commit \/ i <= m_applied
        PROVE  HeldTerm(i) = ChosenTerm(i)'
    <3>1. i \in 1 .. chosen
      BY <1>2, <2>2, <2>4
    <3>2. HeldTerm(i) = ChosenTerm(i)
      BY <2>4 DEF CommitSafe, LogInv, FollowerInv
    <3> QED BY <1>4, <3>1, <3>2
  <2> QED BY <1>1, <2>1, <2>2, <2>3, <2>4 DEF CommitSafe, Justified
<1> QED BY <1>1, <1>5, <1>6, <1>7, <1>8, <1>9 DEF LogInv, FollowerInv

(* Whoever changes no leader grows none either.                            *)
LEMMA SameGrows ==
  ASSUME LeaderInv, UNCHANGED leaderVars
  PROVE  LeaderInv' /\ Grows /\ LeaderTerm' = LeaderTerm
<1>1. /\ leaderLog' = leaderLog /\ leaderCommit' = leaderCommit /\ chosen' = chosen
      /\ LeaderTerm' = LeaderTerm /\ \A i : ChosenTerm(i)' = ChosenTerm(i)
  BY DEF leaderVars, LeaderTerm, ChosenTerm
<1>2. /\ LeaderTerm \in Nat /\ chosen \in Nat
      /\ \A t \in 1 .. LeaderTerm : Len(leaderLog[t]) \in Nat /\ leaderCommit[t] \in Nat
  BY LeaderTypes DEF LeaderInv, LeadersTyped
<1> QED BY <1>1, <1>2, LeadersSame DEF Grows

(* The leaders.                                                            *)
LEMMA LeaderStepKeeps ==
  ASSUME LogInv, LeaderStep
  PROVE  /\ LogInv' /\ UNCHANGED <<logVars, m_cur_term>> /\ Grows
         /\ End' = End /\ m_commit' = m_commit
<1>1. UNCHANGED <<logVars, m_cur_term>>
  BY DEF LeaderStep, Propose, Commit, Elect
<1>2. LeaderInv' /\ Grows
  BY LeadersGrow DEF LogInv
<1>3. /\ UNCHANGED <<volatileVars, storageVars, indexVars>>
      /\ status' \in {"running", "aborted", "undefined"}
  BY <1>1 DEF logVars, LogInv, FollowerInv, FollowerTyped
<1>4. m_cur_term <= m_cur_term' /\ m_cur_term' \in 0 .. LeaderTerm'
  <2>1. m_cur_term' = m_cur_term /\ m_cur_term \in 0 .. LeaderTerm
        /\ m_cur_term \in Nat /\ LeaderTerm \in Nat
    BY <1>1, FollowerTypes DEF LogInv, FollowerInv, FollowerTyped
  <2>2. LeaderTerm' \in Nat /\ LeaderTerm <= LeaderTerm'
    BY <1>2, LeaderTypesNext DEF Grows
  <2> QED BY <2>1, <2>2
<1> QED BY <1>1, <1>2, <1>3, <1>4, FollowerKept

(* A message, in whatever way it ends.                                     *)
LEMMA DeliverKeeps ==
  ASSUME LogInv, NEW t \in 1 .. LeaderTerm, NEW m \in Messages(t),
         Deliver(t, m), ~MessageMiscuts(t, m)
  PROVE  /\ LogInv'
         /\ \/ m_commit' <= End'
            \/ End' = End /\ m_commit' = m_commit /\ v_entries' = v_entries
<1>1. /\ m_cur_term <= t /\ m_cur_term' = t /\ UNCHANGED leaderVars
      /\ \/ UNCHANGED <<volatileVars, storageVars, indexVars>> /\ status' \in {"running", "aborted", "undefined"}
         \/ Took(t, m)
  <2>1. \/ UNCHANGED logVars
        \/ Failed(m)
        \/ Took(t, m)
    BY DeliverOutcome
  <2>2. status = "running" /\ m_cur_term <= t /\ m_cur_term' = t
        /\ UNCHANGED leaderVars
    BY DeliverOutcome
  <2> QED BY <2>1, <2>2 DEF logVars, Failed
<1>2. CASE Took(t, m)
  BY <1>1, <1>2, TookKeeps
<1>3. CASE UNCHANGED <<volatileVars, storageVars, indexVars>> /\ status' \in {"running", "aborted", "undefined"}
  <2>1. LeaderInv' /\ Grows /\ LeaderTerm' = LeaderTerm
    BY <1>1, SameGrows DEF LogInv
  <2>2. m_cur_term <= m_cur_term' /\ m_cur_term' \in 0 .. LeaderTerm'
    BY <1>1, <2>1, FollowerTypes
  <2> QED BY <1>3, <2>1, <2>2, FollowerKept DEF volatileVars
<1> QED BY <1>1, <1>2, <1>3

(* The owner applies what is committed.                                    *)
LEMMA ApplyKeeps ==
  ASSUME LogInv, Apply
  PROVE  /\ LogInv' /\ UNCHANGED <<leaderVars, m_cur_term, volatileVars, storageVars, m_commit>>
         /\ End' = End /\ m_applied' \in m_applied + 1 .. m_commit /\ m_applied' <= End
<1>1. PICK n \in m_applied + 1 .. m_commit : n <= LastIndex /\ SetApplied(n)
  BY DEF Apply
<1>2. /\ m_applied' = n /\ n <= End
      /\ UNCHANGED <<leaderVars, m_cur_term, volatileVars, storageVars, m_commit, status>>
  BY <1>1, Reads DEF SetApplied, Apply
<1>3. /\ v_snapshot' = v_snapshot /\ v_entries' = v_entries /\ v_offset' = v_offset
      /\ s_snapshot' = s_snapshot /\ s_entries' = s_entries
      /\ m_commit' = m_commit /\ m_cur_term' = m_cur_term /\ status' = status
      /\ End' = End /\ Stored' = Stored /\ StoredTerm' = StoredTerm
      /\ \A i : HeldTerm(i)' = HeldTerm(i)
      /\ leaderLog' = leaderLog /\ leaderCommit' = leaderCommit /\ chosen' = chosen
      /\ LeaderTerm' = LeaderTerm /\ \A i : ChosenTerm(i)' = ChosenTerm(i)
  BY <1>2 DEF volatileVars, storageVars, leaderVars, End, HeldTerm, Stored,
              StoredTerm, LeaderTerm, ChosenTerm
<1>4. /\ v_offset \in Nat \ {0} /\ End \in Int /\ Len(v_entries) \in Nat
      /\ v_offset - 1 <= Stored /\ Stored <= m_applied /\ Stored \in Nat
      /\ m_commit \in Nat /\ m_applied \in Nat /\ chosen \in Nat /\ m_cur_term \in Nat
      /\ chosen <= MaxIndex /\ MaxIndex \in Nat
      /\ \A r \in 1 .. LeaderTerm : leaderCommit[r] \in Nat
  <2>1. \A r \in 1 .. LeaderTerm : leaderCommit[r] \in Nat
    BY LeaderTypes DEF LogInv, LeaderInv
  <2> QED BY <2>1, FollowerTypes
<1>5. n \in Nat /\ m_applied < n /\ n <= m_commit /\ v_offset <= n /\ v_offset <= End
  BY <1>1, <1>2, <1>4
<1>6. v_entries # <<>>
  BY <1>4, <1>5, EmptySeq DEF End
<1>7. m_commit <= chosen /\ Justified(m_commit) /\ m_commit <= End
  BY <1>6 DEF CommitSafe, LogInv, FollowerInv
<1>8. n <= chosen /\ n \in 0 .. MaxIndex /\ Stored <= n
  BY <1>4, <1>5, <1>7
<1>9. \E r \in 1 .. LeaderTerm : r <= m_cur_term /\ n <= leaderCommit[r]
  <2>1. PICK r \in 1 .. LeaderTerm :
          \/ r <= m_cur_term /\ m_commit <= leaderCommit[r]
          \/ m_commit < v_offset
    BY <1>7, FollowerTypes DEF Justified
  <2>2. leaderCommit[r] \in Nat /\ m_commit <= leaderCommit[r] /\ r <= m_cur_term
    BY <1>4, <1>5, <2>1
  <2> QED BY <1>4, <1>5, <2>2
<1>10. LeaderInv'
  BY <1>2, LeadersSame DEF LogInv
<1>11. FollowerTyped'
  BY <1>2, <1>3, <1>8 DEF FollowerTyped, LogInv, FollowerInv
<1>12. StoredChosen' /\ HeldFromLeaders'
  BY <1>3 DEF StoredChosen, HeldFromLeaders, LogInv, FollowerInv
<1>13. Seam'
  BY <1>2, <1>3, <1>8 DEF Seam, VS!Contiguous, LogInv, FollowerInv
<1>14. CommitSafe'
  <2>1. ASSUME NEW i \in v_offset .. End, i <= m_commit \/ i <= n
        PROVE  HeldTerm(i) = ChosenTerm(i)
    <3>1. i <= m_commit
      BY <1>4, <1>5, <2>1
    <3> QED BY <3>1 DEF CommitSafe, LogInv, FollowerInv
  <2> QED BY <1>2, <1>3, <1>7, <1>8, <1>9, <2>1 DEF CommitSafe, Justified
<1> QED BY <1>1, <1>2, <1>3, <1>10, <1>11, <1>12, <1>13, <1>14 DEF LogInv, FollowerInv

(* What is in the storage, in the words of the types.                      *)
LEMMA StoredTyped ==
  ASSUME LogInv
  PROVE  /\ \/ s_snapshot = NoSnapshot /\ Stored = 0
            \/ /\ s_snapshot \in VS!Snapshots /\ s_snapshot # NoSnapshot
               /\ s_snapshot.index = Stored
         /\ s_entries \in [1 .. 1 -> [index : 0 .. MaxIndex, term : 0 .. MaxTerm]]
<1>1. /\ Stored \in Nat /\ StoredTerm \in 0 .. MaxTerm
      /\ chosen \in Nat /\ chosen <= MaxIndex /\ MaxIndex \in Nat
  BY FollowerTypes
<1>2. Stored <= chosen
  BY <1>1 DEF StoredChosen, LogInv, FollowerInv
<1>3. s_entries = <<[index |-> Stored, term |-> StoredTerm]>>
  BY DEF LogInv, FollowerInv, FollowerTyped
<1>4. Stored \in 0 .. MaxIndex
  BY <1>1, <1>2
<1>5. s_entries \in [1 .. 1 -> [index : 0 .. MaxIndex, term : 0 .. MaxTerm]]
  BY <1>1, <1>3, <1>4
<1>6. CASE s_snapshot = NoSnapshot /\ Stored = 0
  BY <1>5, <1>6
<1>7. CASE /\ s_snapshot = [index |-> Stored, term |-> StoredTerm]
           /\ Stored \in 1 .. chosen
           /\ StoredTerm = ChosenTerm(Stored)
  <2>1. /\ LeaderTerm \in 1 .. LeaderTerm /\ chosen <= Len(leaderLog[LeaderTerm])
        /\ Len(leaderLog[LeaderTerm]) \in Nat
        /\ \A i \in 1 .. Len(leaderLog[LeaderTerm]) :
             leaderLog[LeaderTerm][i] \in 1 .. MaxTerm
    BY LeaderTypes DEF LogInv, LeaderInv, LeadersComplete
  <2>2. Stored \in 1 .. Len(leaderLog[LeaderTerm]) /\ Stored \in 1 .. MaxIndex
    BY <1>1, <1>7, <2>1
  <2>3. StoredTerm \in Terms
    BY <1>7, <2>1, <2>2, ReplicationAssumption DEF ChosenTerm
  <2>4. s_snapshot \in VS!Snapshots
    BY <1>7, <2>2, <2>3 DEF VS!Snapshots
  <2> QED BY <1>5, <1>7, <2>4, ReplicationAssumption
<1> QED BY <1>6, <1>7 DEF StoredChosen, LogInv, FollowerInv

(* A storage that takes a snapshot of a chosen entry, or refuses it.       *)
LEMMA StorageTakes ==
  ASSUME LogInv, NEW n \in 1 .. chosen, MS!ApplySnapshot(ChosenSnapshot(n)),
         UNCHANGED leaderVars
  PROVE  /\ StoredChosen' /\ s_entries' = <<[index |-> Stored', term |-> StoredTerm']>>
         /\ Stored' \in Nat /\ Stored' <= chosen
         /\ \/ UNCHANGED storageVars
            \/ Stored <= n /\ Stored' = n /\ StoredTerm' = ChosenTerm(n)
<1>1. /\ LeaderTerm' = LeaderTerm /\ \A i : ChosenTerm(i)' = ChosenTerm(i)
      /\ chosen' = chosen
  BY DEF leaderVars, LeaderTerm, ChosenTerm
<1>2. /\ Stored \in Nat /\ chosen \in Nat /\ chosen <= MaxIndex /\ MaxIndex \in Nat
  BY FollowerTypes
<1>3. CASE UNCHANGED storageVars
  <2>1. s_entries' = s_entries /\ s_snapshot' = s_snapshot
        /\ Stored' = Stored /\ StoredTerm' = StoredTerm
    BY <1>3 DEF storageVars, Stored, StoredTerm
  <2>2. StoredChosen /\ s_entries = <<[index |-> Stored, term |-> StoredTerm]>>
    BY DEF LogInv, FollowerInv, FollowerTyped
  <2>3. StoredChosen'
    BY <1>1, <2>1, <2>2 DEF StoredChosen
  <2>4. Stored <= chosen
    BY <1>2, <2>2 DEF StoredChosen
  <2> QED BY <1>2, <1>3, <2>1, <2>2, <2>3, <2>4
<1>4. CASE /\ ~MS!TooOld(ChosenSnapshot(n))
           /\ s_snapshot' = ChosenSnapshot(n)
           /\ s_entries' = <<[index |-> ChosenSnapshot(n).index,
                              term |-> ChosenSnapshot(n).term]>>
  <2>1. /\ s_snapshot' = [index |-> n, term |-> ChosenTerm(n)]
        /\ s_entries' = <<[index |-> n, term |-> ChosenTerm(n)]>>
    BY <1>4 DEF ChosenSnapshot
  <2>2. Stored' = n /\ StoredTerm' = ChosenTerm(n)
    BY <2>1 DEF Stored, StoredTerm
  <2>3. StoredChosen'
    BY <1>1, <2>1, <2>2 DEF StoredChosen
  <2>4. Stored <= n
    <3>1. CASE Stored = 0
      BY <1>2, <3>1
    <3>2. CASE s_snapshot # NoSnapshot /\ s_snapshot.index = Stored
      <4>1. ~(s_snapshot.index > n)
        BY <1>4, <3>2 DEF MS!TooOld, ChosenSnapshot
      <4> QED BY <1>2, <3>2, <4>1
    <3> QED BY <3>1, <3>2, StoredTyped
  <2> QED BY <1>2, <2>1, <2>2, <2>3, <2>4
<1> QED BY <1>3, <1>4 DEF MS!ApplySnapshot, storageVars

(* A snapshot of applied entries reaches the storage under the log.        *)
LEMMA InstallKeeps ==
  ASSUME LogInv, NEW n \in 1 .. chosen, n <= m_applied, InstallSnapshot(n)
  PROVE  /\ LogInv' /\ UNCHANGED <<leaderVars, m_cur_term, volatileVars, indexVars>>
         /\ End' = End
         /\ \/ UNCHANGED storageVars
            \/ /\ Stored <= n /\ Stored' = n /\ StoredTerm' = ChosenTerm(n)
<1>1. /\ UNCHANGED <<leaderVars, m_cur_term, volatileVars, indexVars, status>>
      /\ MS!ApplySnapshot(ChosenSnapshot(n))
  BY DEF InstallSnapshot, ApplySnapshot
<1>2. /\ v_snapshot' = v_snapshot /\ v_entries' = v_entries /\ v_offset' = v_offset
      /\ m_commit' = m_commit /\ m_applied' = m_applied
      /\ m_cur_term' = m_cur_term /\ status' = status
      /\ End' = End /\ \A i : HeldTerm(i)' = HeldTerm(i)
      /\ leaderLog' = leaderLog /\ leaderCommit' = leaderCommit /\ chosen' = chosen
      /\ LeaderTerm' = LeaderTerm /\ \A i : ChosenTerm(i)' = ChosenTerm(i)
  BY <1>1 DEF volatileVars, indexVars, leaderVars, End, HeldTerm, LeaderTerm, ChosenTerm
<1>3. /\ StoredChosen' /\ s_entries' = <<[index |-> Stored', term |-> StoredTerm']>>
      /\ Stored' \in Nat
      /\ \/ UNCHANGED storageVars
         \/ Stored <= n /\ Stored' = n /\ StoredTerm' = ChosenTerm(n)
  BY <1>1, StorageTakes
<1>4. LeaderInv'
  BY <1>1, LeadersSame DEF LogInv
<1>5. FollowerTyped'
  BY <1>2, <1>3 DEF FollowerTyped, LogInv, FollowerInv
<1>6. HeldFromLeaders' /\ CommitSafe'
  BY <1>2 DEF HeldFromLeaders, CommitSafe, Justified, LogInv, FollowerInv
<1>7. Seam'
  <2>1. v_offset \in Nat /\ Stored \in Nat /\ v_offset <= Stored + 1
        /\ Stored <= m_applied /\ m_applied \in Nat /\ n \in Nat
    BY FollowerTypes
  <2>2. Stored' = Stored \/ (Stored <= n /\ Stored' = n)
    BY <1>3 DEF storageVars, Stored
  <2>3. v_offset <= Stored' + 1 /\ Stored' <= m_applied
    BY <2>1, <2>2
  <2> QED BY <1>2, <2>3 DEF Seam, VS!Contiguous, LogInv, FollowerInv
<1> QED BY <1>1, <1>2, <1>3, <1>4, <1>5, <1>6, <1>7 DEF LogInv, FollowerInv

(* A new log object starts at the end of its storage.                      *)
LEMMA ConstructKeeps ==
  ASSUME LeaderInv', Construct, StoredChosen',
         s_entries' = <<[index |-> Stored', term |-> StoredTerm']>>,
         Stored' \in Nat, Stored' <= chosen', m_cur_term' \in 0 .. LeaderTerm'
  PROVE  /\ LogInv' /\ v_entries' = <<>> /\ v_offset' = Stored' + 1
         /\ m_commit' = Stored' /\ m_applied' = Stored' /\ End' = Stored'
<1>1. PICK n \in Nat : n = Stored'
  OBVIOUS
<1>2. n <= MaxIndex /\ MaxIndex \in Nat
  <2>1. chosen' \in Nat /\ chosen' <= MaxIndex /\ MaxIndex \in Nat
    BY ReplicationAssumption DEF LeaderInv, LeadersTyped
  <2>2. n <= chosen'
    BY <1>1
  <2> QED BY <2>1, <2>2
<1>3. MS!LastIndex' = n /\ MS!FirstIndex' = n + 1
  <2>1. /\ MS!LastIndex' = Stored' + Len(s_entries') - 1
        /\ MS!FirstIndex' = Stored' + 1
    BY DEF MS!LastIndex, MS!FirstIndex, Stored
  <2>2. Len(s_entries') = 1
    OBVIOUS
  <2>3. MS!LastIndex' = n + 1 - 1 /\ MS!FirstIndex' = n + 1
    BY ONLY <1>1, <2>1, <2>2
  <2>4. n + 1 - 1 = n
    OBVIOUS
  <2> QED BY ONLY <2>3, <2>4
<1>4. /\ v_snapshot' = NoSnapshot /\ v_entries' = <<>> /\ status' = "running"
      /\ v_offset' = n + 1 /\ m_commit' = n /\ m_applied' = n
  <2>1. m_commit' = n + 1 - 1 /\ m_applied' = n + 1 - 1
        /\ v_snapshot' = NoSnapshot /\ v_entries' = <<>> /\ status' = "running"
        /\ v_offset' = n + 1
    BY <1>3 DEF Construct
  <2>2. n + 1 - 1 = n
    OBVIOUS
  <2> QED BY <2>1, <2>2
<1>5. v_entries' \in Seq(VS!Entries) /\ Len(v_entries') = 0 /\ End' = n
  <2>1. Len(v_entries') = 0 /\ v_entries' \in Seq(VS!Entries)
    BY <1>4, EmptySeq
  <2>2. End' = n + 1 + 0 - 1
    BY <1>4, <2>1 DEF End
  <2>3. n + 1 + 0 - 1 = n
    OBVIOUS
  <2> QED BY <2>1, <2>2, <2>3
<1>6. /\ n \in 0 .. MaxIndex /\ n + 1 \in 1 .. MaxIndex + 1
      /\ n <= n + 1 /\ n <= n /\ n < n + 1 /\ n + 1 <= n + 1
      /\ \A i : i \notin n + 1 .. n
      /\ \A i : i \notin 1 .. 0
  BY <1>2
<1>7. FollowerTyped'
  BY <1>1, <1>4, <1>5, <1>6 DEF FollowerTyped
<1>8. Seam'
  BY <1>1, <1>4, <1>5, <1>6 DEF Seam, VS!Contiguous
<1>9. HeldFromLeaders'
  BY <1>4, <1>5, <1>6 DEF HeldFromLeaders
<1>10. CommitSafe'
  BY <1>1, <1>4, <1>5, <1>6 DEF CommitSafe, Justified
<1> QED BY <1>1, <1>4, <1>5, <1>7, <1>8, <1>9, <1>10 DEF LogInv, FollowerInv

(* A new RaftLog object over the storage keeps the invariant, from any     *)
(* status.                                                                 *)
LEMMA RebuildKeeps ==
  ASSUME LogInv, Rebuild
  PROVE  /\ LogInv' /\ v_entries' = <<>> /\ v_offset' = Stored' + 1
         /\ m_commit' = Stored' /\ m_applied' = Stored' /\ End' = Stored'
         /\ UNCHANGED leaderVars /\ Construct
<1>1. UNCHANGED leaderVars /\ Construct
  BY DEF Rebuild, RestartFollower, Restart, RestoreFromSnapshot
<1>2. LeaderInv' /\ LeaderTerm' = LeaderTerm /\ chosen' = chosen
      /\ \A i : ChosenTerm(i)' = ChosenTerm(i)
  BY <1>1, LeadersSame DEF LogInv, leaderVars, LeaderTerm, ChosenTerm
<1>3. m_cur_term' \in 0 .. LeaderTerm'
  BY <1>2, FollowerTypes DEF Rebuild, RestartFollower, RestoreFromSnapshot,
       LogInv, FollowerInv, FollowerTyped
<1>4. /\ StoredChosen' /\ s_entries' = <<[index |-> Stored', term |-> StoredTerm']>>
      /\ Stored' \in Nat /\ Stored' <= chosen'
  <2>0. Stored \in Nat /\ chosen \in Nat
    BY FollowerTypes
  <2>1. CASE MS!Renew
    <3>1. s_snapshot' = NoSnapshot /\ s_entries' = <<[index |-> 0, term |-> 0]>>
      BY <2>1 DEF MS!Renew
    <3>2. Stored' = 0 /\ StoredTerm' = 0
      BY <3>1 DEF Stored, StoredTerm
    <3> QED BY <1>2, <2>0, <3>1, <3>2 DEF StoredChosen
  <2>2. CASE UNCHANGED storageVars
    <3>1. s_snapshot' = s_snapshot /\ s_entries' = s_entries
          /\ Stored' = Stored /\ StoredTerm' = StoredTerm
      BY <2>2 DEF storageVars, Stored, StoredTerm
    <3>2. StoredChosen /\ s_entries = <<[index |-> Stored, term |-> StoredTerm]>>
      BY DEF LogInv, FollowerInv, FollowerTyped
    <3>3. Stored <= chosen
      BY <2>0, <3>2 DEF StoredChosen
    <3> QED BY <1>2, <2>0, <3>1, <3>2, <3>3 DEF StoredChosen
  <2>3. ASSUME NEW n \in 1 .. chosen, RestoreFromSnapshot(n)
        PROVE  /\ StoredChosen'
               /\ s_entries' = <<[index |-> Stored', term |-> StoredTerm']>>
               /\ Stored' \in Nat /\ Stored' <= chosen'
    <3>1. MS!ApplySnapshot(ChosenSnapshot(n))
      BY <2>3 DEF RestoreFromSnapshot
    <3> QED BY <1>1, <1>2, <3>1, StorageTakes
  <2> QED BY <2>1, <2>2, <2>3 DEF Rebuild, RestartFollower, Restart
<1> QED BY <1>1, <1>2, <1>3, <1>4, ConstructKeeps

(* The invariant holds at the start: one leader, nothing proposed.         *)
LEMMA InitIInv == Init => IInv
<1> SUFFICES ASSUME Init PROVE IInv
  OBVIOUS
<1>1. /\ leaderLog = <<<<>>>> /\ leaderCommit = <<0>> /\ chosen = 0 /\ m_cur_term = 0
      /\ s_snapshot = NoSnapshot /\ s_entries = <<[index |-> 0, term |-> 0]>>
      /\ v_snapshot = NoSnapshot /\ v_entries = <<>> /\ status = "running"
  BY DEF Init, MS!Init, Constructed
<1>2. Stored = 0 /\ StoredTerm = 0 /\ Len(s_entries) = 1
  BY <1>1 DEF Stored, StoredTerm
<1>3. v_offset = 1 /\ m_commit = 0 /\ m_applied = 0
  <2>1. MS!LastIndex = Stored + Len(s_entries) - 1 /\ MS!FirstIndex = Stored + 1
    BY DEF MS!LastIndex, MS!FirstIndex, Stored
  <2>2. MS!LastIndex = 0 /\ MS!FirstIndex = 1
    BY <1>2, <2>1
  <2> QED BY <2>2 DEF Init, Constructed
<1>4. /\ LeaderTerm = 1 /\ Len(leaderLog[1]) = 0 /\ leaderCommit[1] = 0
      /\ Len(leaderCommit) = 1 /\ \A t \in 1 .. 1 : t = 1
  BY <1>1 DEF LeaderTerm
<1>5. leaderLog \in Seq(Seq(Terms)) /\ leaderCommit \in Seq(0 .. MaxIndex)
      /\ 0 \in 0 .. MaxIndex /\ 1 \in 1 .. MaxTerm /\ 1 \in 1 .. MaxIndex + 1
      /\ MaxIndex \in Nat
  <2>1. MaxIndex \in Nat /\ 0 \in 0 .. MaxIndex /\ 1 \in 1 .. MaxTerm
        /\ 1 \in 1 .. MaxIndex + 1
    BY ReplicationAssumption
  <2>2. <<>> \in Seq(Terms)
    BY EmptySeq
  <2> QED BY <1>1, <2>1, <2>2
<1>6. LeaderInv
  <2>1. LeadersTyped
    BY <1>1, <1>4, <1>5 DEF LeadersTyped
  <2>2. CreatorHas
    BY <1>4 DEF CreatorHas
  <2>3. LeadersComplete
    BY <1>1, <1>4 DEF LeadersComplete
  <2> QED BY <2>1, <2>2, <2>3 DEF LeaderInv
<1>7. Len(v_entries) = 0 /\ v_entries \in Seq(VS!Entries) /\ End = 0
  BY <1>1, <1>3, EmptySeq DEF End
<1>8. FollowerTyped
  BY <1>1, <1>2, <1>3, <1>4, <1>5, <1>7 DEF FollowerTyped
<1>9. StoredChosen /\ Seam /\ HeldFromLeaders
  BY <1>1, <1>2, <1>3, <1>7 DEF StoredChosen, Seam, VS!Contiguous, HeldFromLeaders
<1>10. CommitSafe
  BY <1>1, <1>3, <1>7 DEF CommitSafe, Justified
<1> QED BY <1>3, <1>6, <1>7, <1>8, <1>9, <1>10 DEF IInv, LogInv, FollowerInv

(* A step that leaves everything as it is.                                 *)
LEMMA StutterKeeps ==
  ASSUME LogInv, UNCHANGED allVars
  PROVE  LogInv' /\ End' = End /\ m_commit' = m_commit
<1>1. /\ UNCHANGED leaderVars /\ UNCHANGED <<volatileVars, storageVars, indexVars>>
      /\ status' = status /\ m_cur_term' = m_cur_term
  BY DEF allVars, logVars
<1>2. LeaderInv' /\ Grows /\ LeaderTerm' = LeaderTerm
  BY <1>1, SameGrows DEF LogInv
<1>3. /\ status' \in {"running", "aborted", "undefined"}
      /\ m_cur_term <= m_cur_term' /\ m_cur_term' \in 0 .. LeaderTerm'
  BY <1>1, <1>2, FollowerTypes DEF LogInv, FollowerInv, FollowerTyped
<1> QED BY <1>1, <1>2, <1>3, FollowerKept

(* Each step that is not one of the two defects keeps the invariant.       *)
LEMMA GuardedStepKeeps ==
  ASSUME LogInv, GuardedStep
  PROVE  LogInv' /\ (m_commit <= End => m_commit' <= End')
<1>1. ASSUME NEW t \in 1 .. LeaderTerm, NEW m \in Messages(t),
             ~MessageMiscuts(t, m), Deliver(t, m)
      PROVE  LogInv' /\ (m_commit <= End => m_commit' <= End')
  BY <1>1, DeliverKeeps
<1>2. CASE Apply
  BY <1>2, ApplyKeeps
<1>3. ASSUME NEW n \in 1 .. chosen, n <= m_applied, InstallSnapshot(n)
      PROVE  LogInv' /\ (m_commit <= End => m_commit' <= End')
  BY <1>3, InstallKeeps DEF indexVars
<1> QED BY <1>1, <1>2, <1>3 DEF GuardedStep

(* The invariant is inductive.                                             *)
LEMMA NextIInv == IInv /\ [GuardedNext]_allVars => IInv'
<1> SUFFICES ASSUME IInv, [GuardedNext]_allVars PROVE IInv'
  OBVIOUS
<1>1. LogInv /\ m_commit <= End
  BY DEF IInv
<1>2. CASE LeaderStep
  BY <1>1, <1>2, LeaderStepKeeps DEF IInv
<1>3. CASE GuardedStep
  BY <1>1, <1>3, GuardedStepKeeps DEF IInv
<1>4. CASE Rebuild
  <2>1. LogInv' /\ m_commit' = Stored' /\ End' = Stored' /\ Stored' \in Nat
    <3>1. LogInv' /\ m_commit' = Stored' /\ End' = Stored'
      BY <1>1, <1>4, RebuildKeeps
    <3>2. m_commit' \in Nat
      BY <3>1, ReplicationAssumption DEF LogInv, FollowerInv, FollowerTyped
    <3> QED BY <3>1, <3>2
  <2> QED BY <2>1 DEF IInv
<1>5. CASE UNCHANGED allVars
  BY <1>1, <1>5, StutterKeeps DEF IInv
<1> QED BY <1>2, <1>3, <1>4, <1>5 DEF GuardedNext

(* Along every behaviour without one of the two known defects the          *)
(* inductive invariant holds.                                              *)
THEOREM GuardedInvariant == GuardedSpec => []IInv
<1>1. Init => IInv
  BY InitIInv
<1>2. IInv /\ [GuardedNext]_allVars => IInv'
  BY NextIInv
<1> QED BY <1>1, <1>2, PTL DEF GuardedSpec

-----------------------------------------------------------------------------
(* What the invariant says *)

(* Types, with the entries of the volatile log consecutive: they are given *)
(* by the invariant, whatever the leaders send.                            *)
LEMMA InvTypes == IInv => TypeOK
<1> SUFFICES ASSUME IInv PROVE TypeOK
  OBVIOUS
<1>1. LogInv /\ FollowerTyped /\ LeadersTyped
  BY DEF IInv, LogInv, FollowerInv, LeaderInv
<1>2. VS!TypeOK
  BY <1>1 DEF VS!TypeOK, FollowerTyped, VS!Statuses
<1>3. leaderCommit \in [1 .. LeaderTerm -> 0 .. MaxIndex]
  <2>1. leaderCommit \in [1 .. Len(leaderCommit) -> 0 .. MaxIndex]
    BY <1>1, LenProperties DEF LeadersTyped
  <2> QED BY <1>1, <2>1 DEF LeadersTyped
<1>4. m_cur_term \in 0 .. MaxTerm
  BY <1>1, ReplicationAssumption DEF FollowerTyped, LeadersTyped
<1> QED BY <1>1, <1>2, <1>3, <1>4, StoredTyped DEF TypeOK, FollowerTyped, LeadersTyped

(* It implies log matching: the entries held up to an index are those of   *)
(* the leader that created the one there.                                  *)
LEMMA InvMatches == IInv => LogMatching
<1> SUFFICES ASSUME IInv, NEW i \in 1 .. LastIndex, VS!TermOf(i) \in Terms,
                    NEW j \in 1 .. i, VS!TermOf(j) \in Terms
             PROVE  VS!TermOf(j) = leaderLog[VS!TermOf(i)][j]
  BY DEF LogMatching
<1>1. LogInv
  BY DEF IInv
<1>2. VS!Absent \notin Terms
  BY ReplicationAssumption DEF VS!Absent
<1>3. /\ i \in v_offset .. End /\ j \in v_offset .. End
      /\ VS!TermOf(i) = HeldTerm(i) /\ VS!TermOf(j) = HeldTerm(j)
  BY <1>1, <1>2, Reads
<1>4. j \in v_offset .. i
  BY <1>1, <1>3, FollowerTypes
<1> QED BY <1>1, <1>3, <1>4 DEF LogInv, FollowerInv, HeldFromLeaders

(* What is read below the commit or the applied index is chosen.           *)
LEMMA ReadChosen ==
  ASSUME LogInv, NEW i \in Nat \ {0}, i <= m_commit \/ i <= m_applied
  PROVE  Holds(i)
<1>1. CASE i \in v_offset .. End
  BY <1>1, Reads DEF Holds, CommitSafe, LogInv, FollowerInv
<1>2. CASE i \notin v_offset .. End /\ i = Stored
  BY <1>2, Reads DEF Holds, StoredChosen, LogInv, FollowerInv
<1>3. CASE i \notin v_offset .. End /\ i # Stored
  BY <1>3, Reads DEF Holds
<1> QED BY <1>1, <1>2, <1>3

(* It implies that what is committed or applied is chosen.                 *)
LEMMA InvCommitted == IInv => CommittedIsChosen /\ AppliedIsChosen
<1> SUFFICES ASSUME IInv PROVE CommittedIsChosen /\ AppliedIsChosen
  OBVIOUS
<1>1. LogInv /\ m_commit <= End
  BY DEF IInv
<1>2. m_commit \in Nat /\ m_applied \in Nat /\ LastIndex = End
      /\ m_commit <= chosen /\ m_applied <= chosen
  BY <1>1, FollowerTypes, Reads DEF LogInv, FollowerInv, CommitSafe
<1>3. \A i \in 1 .. m_commit : Holds(i)
  BY <1>1, <1>2, ReadChosen
<1>4. \A i \in 1 .. m_applied : Holds(i)
  BY <1>1, <1>2, ReadChosen
<1> QED BY <1>1, <1>2, <1>3, <1>4 DEF CommittedIsChosen, AppliedIsChosen

(* It implies that a message that the log would accept agrees with it up   *)
(* to its commit index.                                                    *)
LEMMA InvUncontested == IInv => CommittedNeverContested
<1> SUFFICES ASSUME IInv, NEW t \in 1 .. LeaderTerm, NEW m \in Messages(t),
                    Acceptable(t, m),
                    FindConflict(MessageEntries(t, m)) \in 1 .. m_commit
             PROVE  FALSE
  BY DEF CommittedNeverContested
<1>1. LogInv /\ m_commit <= End
  BY DEF IInv
<1>2. PICK c \in 1 .. m_commit : c = FindConflict(MessageEntries(t, m))
  OBVIOUS
<1>3. Match(m.prev, PrevTerm(t, m)) /\ m_cur_term <= t
  BY <1>1, FollowerTypes DEF Acceptable
<1>4. c \in v_offset .. End + 1 /\ (c <= End => HeldTerm(c) # leaderLog[t][c])
  BY <1>1, <1>2, <1>3, Conflict
<1>5. c <= m_commit /\ c \in v_offset .. End
  BY <1>1, <1>2, <1>4, FollowerTypes
<1> QED BY <1>1, <1>3, <1>4, <1>5, Uncontested

(* The variables of the log, the leaders and the storage always have the   *)
(* types declared for them.                                                *)
THEOREM ReplicationTypeCorrect == GuardedSpec => []TypeOK
BY GuardedInvariant, InvTypes, PTL

(* An entry that the follower holds comes with every entry before it from  *)
(* the leader that created it.                                             *)
THEOREM LogMatchingHolds == GuardedSpec => []LogMatching
BY GuardedInvariant, InvMatches, PTL

(* What the log reports as committed is in it and is what the cluster      *)
(* chose.                                                                  *)
THEOREM CommittedIsChosenHolds == GuardedSpec => []CommittedIsChosen
BY GuardedInvariant, InvCommitted, PTL

(* What was applied stays in the log and stays chosen.                     *)
THEOREM AppliedIsChosenHolds == GuardedSpec => []AppliedIsChosen
BY GuardedInvariant, InvCommitted, PTL

(* No message that the log would accept replaces a committed entry.        *)
THEOREM CommittedNeverContestedHolds == GuardedSpec => []CommittedNeverContested
BY GuardedInvariant, InvUncontested, PTL

(* The entries held follow each other: the gaps that make Append panic     *)
(* come only from the steps that GuardedSpec leaves out.                   *)
THEOREM NoGapsWithoutMiscuts == GuardedSpec => []NoGaps
<1>1. IInv => NoGaps
  BY DEF IInv, LogInv, FollowerInv, Seam, NoGaps
<1> QED BY <1>1, GuardedInvariant, PTL

-----------------------------------------------------------------------------
(* What a step does to what is read *)

ReadsRight ==
  /\ \A i \in Int :
       TermOf(i) = IF i \in v_offset .. End THEN HeldTerm(i)
                   ELSE IF i = Stored THEN StoredTerm ELSE VS!Absent
  /\ LastIndex = End

(* What the owner reads of a log whose two stores touch.                   *)
LEMMA ReadsAlways == LogInv => ReadsRight
BY Reads DEF ReadsRight

(* The same after a step.                                                  *)
LEMMA ReadsNext == LogInv' => ReadsRight'
BY ReadsAlways, PTL

(* The numbers, after a step as well.                                      *)
Numbers ==
  /\ v_offset \in Nat \ {0} /\ Len(v_entries) \in Nat /\ End \in Int
  /\ Stored \in Nat /\ m_commit \in Nat /\ m_applied \in Nat
  /\ v_offset - 1 <= Stored /\ Stored <= m_applied /\ m_applied <= End

(* The order of the numbers, which the invariant has.                      *)
LEMMA NumbersAlways == LogInv => Numbers
BY FollowerTypes DEF Numbers

(* The same after a step.                                                  *)
LEMMA NumbersNext == LogInv' => Numbers'
BY NumbersAlways, PTL

(* Where the log and the storage are left alone, so are the answers.       *)
LEMMA SameReads ==
  ASSUME LogInv, LogInv', UNCHANGED <<volatileVars, storageVars>>
  PROVE  \A i \in Int : TermOf(i)' = TermOf(i)
<1>1. /\ v_offset' = v_offset /\ End' = End /\ Stored' = Stored
      /\ StoredTerm' = StoredTerm /\ \A i : HeldTerm(i)' = HeldTerm(i)
  BY DEF volatileVars, storageVars, End, Stored, StoredTerm, HeldTerm
<1>2. ReadsRight /\ ReadsRight'
  BY ReadsAlways, ReadsNext
<1> QED BY <1>1, <1>2 DEF ReadsRight

(* A message that is taken leaves what is committed as it is.              *)
LEMMA TookStable ==
  ASSUME LogInv, LogInv', NEW t \in 1 .. LeaderTerm, NEW m \in Messages(t),
         m_commit <= End, Took(t, m)
  PROVE  \A i \in 0 .. m_commit : Stored <= i => TermOf(i)' = TermOf(i)
<1>1. /\ v_offset' = v_offset /\ Stored' = Stored /\ StoredTerm' = StoredTerm
  BY DEF Took, storageVars, Stored, StoredTerm
<1>2. ReadsRight /\ ReadsRight'
  BY ReadsAlways, ReadsNext
<1>3. /\ v_offset \in Nat \ {0} /\ m_commit \in Nat /\ Stored \in Nat
      /\ v_offset - 1 <= Stored /\ End \in Int /\ Len(v_entries) \in Nat
      /\ Stored <= End
  BY FollowerTypes
<1>4. SUFFICES ASSUME NEW i \in 0 .. m_commit, Stored <= i
               PROVE  TermOf(i)' = TermOf(i)
  OBVIOUS
<1>5. i \in Int /\ i <= End
  BY <1>3
<1>6. CASE i \notin v_offset .. End
  <2>1. i = Stored /\ i < v_offset
    BY <1>3, <1>4, <1>5, <1>6
  <2>2. i \notin v_offset .. End'
    BY <1>3, <2>1
  <2> QED BY <1>1, <1>2, <1>5, <1>6, <2>1, <2>2 DEF ReadsRight
<1>7. CASE i \in v_offset .. End
  <2>1. v_entries # <<>>
    BY <1>3, <1>7, EmptySeq DEF End
  <2>2. HeldTerm(i)' = HeldTerm(i) /\ i \in v_offset .. End'
    <3>1. CASE v_entries' = v_entries
      BY <1>1, <1>7, <3>1 DEF HeldTerm, End
    <3>2. ASSUME NEW c \in m.prev + 1 .. m.prev + m.count,
                 End' = m.prev + m.count, m_commit < c,
                 \A j \in v_offset .. c - 1 : HeldTerm(j)' = HeldTerm(j)
          PROVE  HeldTerm(i)' = HeldTerm(i) /\ i \in v_offset .. End'
      <4>1. m.prev \in Nat /\ m.count \in Nat
        BY MessageParts
      <4>2. i \in v_offset .. c - 1
        BY <1>3, <1>7, <3>2, <4>1
      <4>3. i \in v_offset .. End'
        BY <1>3, <1>7, <3>2, <4>1, <4>2
      <4> QED BY <3>2, <4>2, <4>3
    <3> QED BY <2>1, <3>1, <3>2 DEF Took
  <2> QED BY <1>1, <1>2, <1>5, <1>7, <2>2 DEF ReadsRight
<1> QED BY <1>6, <1>7

(* A snapshot of applied entries puts its last one in place of those that  *)
(* are below it.                                                           *)
LEMMA InstallStable ==
  ASSUME LogInv, LogInv', NEW n \in 1 .. chosen, n <= m_applied, InstallSnapshot(n)
  PROVE  \A i \in 0 .. MaxIndex : Stored' < i => TermOf(i)' = TermOf(i)
<1>1. /\ v_offset' = v_offset /\ End' = End /\ \A i : HeldTerm(i)' = HeldTerm(i)
      /\ Stored \in Nat
      /\ (Stored' = Stored /\ StoredTerm' = StoredTerm) \/ (Stored <= n /\ Stored' = n)
  BY InstallKeeps, FollowerTypes
     DEF volatileVars, storageVars, End, HeldTerm, Stored, StoredTerm
<1>2. ReadsRight /\ ReadsRight'
  BY ReadsAlways, ReadsNext
<1>3. SUFFICES ASSUME NEW i \in 0 .. MaxIndex, Stored' < i
               PROVE  TermOf(i)' = TermOf(i)
  OBVIOUS
<1>4. i # Stored /\ i # Stored' /\ i \in Int
  BY <1>1, <1>3, ReplicationAssumption
<1> QED BY <1>1, <1>2, <1>4 DEF ReadsRight

(* The entries that a step leaves readable as they are.                    *)
Keeps == \A i \in FirstIndex' .. m_commit : TermOf(i)' = TermOf(i)

(* A step builds a new log or leaves what is committed as it is.           *)
LEMMA StepStable ==
  ASSUME IInv, IInv', [GuardedNext]_allVars
  PROVE  Construct \/ Keeps
<1>1. LogInv /\ LogInv' /\ m_commit <= End
  BY DEF IInv
<1>2. /\ v_offset \in Nat \ {0} /\ m_commit \in Nat /\ End \in Int
      /\ m_commit <= MaxIndex /\ MaxIndex \in Nat /\ Stored \in Nat
  BY <1>1, FollowerTypes, ReplicationAssumption DEF LogInv, FollowerInv, FollowerTyped
<1>3. FirstIndex' = Stored' + 1 /\ Stored' \in Int
  <2>1. v_snapshot' = NoSnapshot /\ Stored' \in Int
    BY <1>1, NumbersNext DEF Numbers, LogInv, FollowerInv, FollowerTyped
  <2> QED BY <2>1 DEF FirstIndex, VS!FirstUnstableIndex, MS!FirstIndex, Stored
<1>4. ASSUME UNCHANGED <<volatileVars, storageVars>> PROVE Keeps
  <2>1. \A i \in Int : TermOf(i)' = TermOf(i)
    BY <1>1, <1>4, SameReads
  <2> QED BY <1>2, <1>3, <2>1 DEF Keeps
<1>5. CASE LeaderStep
  BY <1>1, <1>4, <1>5, LeaderStepKeeps DEF logVars
<1>6. ASSUME NEW t \in 1 .. LeaderTerm, NEW m \in Messages(t),
             ~MessageMiscuts(t, m), Deliver(t, m)
      PROVE  Keeps
  <2>1. \/ UNCHANGED <<volatileVars, storageVars>>
        \/ Took(t, m)
    BY <1>1, <1>6, DeliverOutcome DEF logVars, Failed
  <2>2. CASE Took(t, m)
    <3>1. \A i \in 0 .. m_commit : Stored <= i => TermOf(i)' = TermOf(i)
      BY <1>1, <2>2, TookStable
    <3>2. Stored' = Stored
      BY <2>2 DEF Took, storageVars, Stored
    <3>3. \A i \in FirstIndex' .. m_commit : i \in 0 .. m_commit /\ Stored <= i
      BY <1>2, <1>3, <3>2
    <3> QED BY <3>1, <3>3 DEF Keeps
  <2> QED BY <1>4, <2>1, <2>2
<1>7. CASE Apply
  BY <1>1, <1>4, <1>7, ApplyKeeps
<1>8. ASSUME NEW n \in 1 .. chosen, n <= m_applied, InstallSnapshot(n)
      PROVE  Keeps
  <2>1. \A i \in 0 .. MaxIndex : Stored' < i => TermOf(i)' = TermOf(i)
    BY <1>1, <1>8, InstallStable
  <2>2. Stored' \in Nat
    BY <1>1, NumbersNext DEF Numbers
  <2>3. ASSUME NEW s \in Nat, NEW i \in s + 1 .. m_commit
        PROVE  i \in 0 .. MaxIndex /\ s < i
    BY <1>2
  <2>4. \A i \in FirstIndex' .. m_commit : i \in 0 .. MaxIndex /\ Stored' < i
    BY ONLY <1>3, <2>2, <2>3
  <2> QED BY <2>1, <2>4 DEF Keeps
<1>9. CASE Rebuild
  BY <1>1, <1>9, RebuildKeeps
<1>10. CASE UNCHANGED allVars
  BY <1>4, <1>10 DEF allVars, logVars
<1> QED BY <1>5, <1>6, <1>7, <1>8, <1>9, <1>10 DEF GuardedNext, GuardedStep

(* No step, short of a new log object, takes away or rewrites an entry     *)
(* that the log reports as committed.                                      *)
THEOREM CommittedStableHolds == GuardedSpec => CommittedStable
<1>1. IInv /\ IInv' /\ [GuardedNext]_allVars => (Construct \/ Keeps)
  BY StepStable
<1> QED BY <1>1, GuardedInvariant, PTL DEF GuardedSpec, CommittedStable, Keeps

(* A step in which the log fails is none of a message with entries.        *)
LEMMA FailsOnEmpty ==
  ASSUME LogInv, status' \in {"panicked", "undefined"}
  PROVE  \A t \in 1 .. LeaderTerm : \A m \in Messages(t) :
           m.count > 0 => ~Deliver(t, m)
BY EntriesNeverFail

(* Whatever the order in which legal messages come, only one without       *)
(* entries makes the code leave C++'s defined behaviour, and none makes it *)
(* panic.                                                                  *)
THEOREM OnlyEmptyMessagesFailHolds == GuardedSpec => OnlyEmptyMessagesFail
<1>1. IInv /\ status' \in {"panicked", "undefined"} =>
        \A t \in 1 .. LeaderTerm : \A m \in Messages(t) :
          m.count > 0 => ~Deliver(t, m)
  BY FailsOnEmpty DEF IInv
<1> QED BY <1>1, GuardedInvariant, PTL DEF OnlyEmptyMessagesFail

-----------------------------------------------------------------------------
(* The refinement: Replication implements FollowerLog.  The entries in the *)
(* deque, with the durable placeholder among or before them, change only   *)
(* as the abstract log allows.                                             *)

(* What the owner sees, without reading it index by index.                 *)
Indexes == {Stored} \cup v_offset .. End
Seen(i) == IF i \in v_offset .. End THEN HeldTerm(i) ELSE StoredTerm
Whole   == [i \in Indexes |-> Seen(i)]

(* What is read index by index is the placeholder and the entries held.    *)
LEMMA Views ==
  ASSUME LogInv
  PROVE  View = Whole
<1> DEFINE term == [i \in 0 .. MaxIndex |-> TermOf(i)]
<1>1. /\ v_offset \in Nat \ {0} /\ End \in Int /\ Stored \in Nat
      /\ StoredTerm \in 0 .. MaxTerm /\ MaxIndex \in Nat
      /\ Stored <= m_applied /\ m_applied <= chosen /\ chosen <= MaxIndex
      /\ m_applied \in Nat /\ chosen \in Nat
      /\ \A i \in v_offset .. End :
           HeldTerm(i) \in 1 .. MaxTerm /\ i \in Nat /\ i <= MaxIndex
  BY FollowerTypes DEF LogInv, FollowerInv, CommitSafe
<1>2. \A i \in 0 .. MaxIndex :
        term[i] = IF i \in v_offset .. End THEN HeldTerm(i)
                  ELSE IF i = Stored THEN StoredTerm ELSE VS!Absent
  BY <1>1, Reads
<1> HIDE DEF term
<1>3. MaxTerm \in Nat
  BY ReplicationAssumption
<1>4. Stored \in 0 .. MaxIndex /\ \A i \in v_offset .. End : i \in 0 .. MaxIndex
  BY <1>1
<1>5. \A i \in 0 .. MaxIndex :
        /\ term[i] # VS!Absent <=> i \in Indexes
        /\ i \in Indexes => term[i] = Seen(i)
  BY <1>1, <1>2, <1>3 DEF Indexes, Seen, VS!Absent
<1>6. {j \in 0 .. MaxIndex : term[j] # VS!Absent} = Indexes
  BY <1>4, <1>5 DEF Indexes
<1>7. \A i \in Indexes : term[i] = Seen(i)
  BY <1>4, <1>5 DEF Indexes
<1>8. View = [i \in {j \in 0 .. MaxIndex : term[j] # VS!Absent} |-> term[i]]
  BY DEF View, term
<1> QED BY <1>6, <1>7, <1>8 DEF Whole

SeesWhole == View = Whole

(* The same as one formula, which can be primed.                           *)
LEMMA ViewsAlways == LogInv => SeesWhole
BY Views DEF SeesWhole

(* The same after a step.                                                  *)
LEMMA ViewsNext == LogInv' => SeesWhole'
BY ViewsAlways, PTL

(* Where nothing that is seen changes, the view does not.                  *)
LEMMA SameView ==
  ASSUME LogInv, LogInv', UNCHANGED <<volatileVars, storageVars>>
  PROVE  View' = View
<1>1. /\ v_offset' = v_offset /\ End' = End /\ Stored' = Stored
      /\ StoredTerm' = StoredTerm /\ \A i : HeldTerm(i)' = HeldTerm(i)
  BY DEF volatileVars, storageVars, End, Stored, StoredTerm, HeldTerm
<1>2. Whole' = Whole
  BY <1>1 DEF Whole, Indexes, Seen
<1> QED BY <1>2, Views, ViewsNext DEF SeesWhole

(* The first index that the owner sees.                                    *)
LEMMA FirstSeen ==
  ASSUME LogInv
  PROVE  /\ DOMAIN Whole = Indexes
         /\ FL!Base(Whole) = IF Stored < v_offset THEN Stored ELSE v_offset
         /\ Indexes = FL!Base(Whole) .. End
<1>1. /\ v_offset \in Nat \ {0} /\ End \in Int /\ Stored \in Nat
      /\ v_offset - 1 <= Stored /\ Stored <= End
  BY FollowerTypes
<1>2. DOMAIN Whole = Indexes
  BY DEF Whole
<1>3. PICK b : b = IF Stored < v_offset THEN Stored ELSE v_offset
  OBVIOUS
<1>4. b \in Nat /\ Indexes = b .. End /\ b <= End
  BY <1>1, <1>3 DEF Indexes
<1>5. b \in Indexes /\ \A j \in Indexes : b <= j
  BY <1>1, <1>4
<1>6. \A i \in Indexes : (\A j \in Indexes : i <= j) => i = b
  BY <1>1, <1>4
<1>7. FL!Base(Whole) = CHOOSE i \in Indexes : \A j \in Indexes : i <= j
  BY <1>2 DEF FL!Base
<1>8. FL!Base(Whole) = b
  BY <1>5, <1>6, <1>7
<1> QED BY <1>2, <1>3, <1>4, <1>8

-----------------------------------------------------------------------------
(* The steps *)

(* A message that is taken.                                                *)
LEMMA TookAccepts ==
  ASSUME LogInv, LogInv', NEW t \in 1 .. LeaderTerm, NEW m \in Messages(t),
         m_cur_term <= t, Match(m.prev, PrevTerm(t, m)), Took(t, m)
  PROVE  FL!Accept(View, View')
<1> DEFINE top == m.prev + m.count
           held(i) == i \in Indexes /\ i \in Indexes' /\ Seen(i) = Seen(i)'
<1>1. /\ v_offset \in Nat \ {0} /\ End \in Int /\ Stored \in Nat
      /\ v_offset - 1 <= Stored /\ Stored <= m_applied /\ m_applied <= End
      /\ m_commit \in Nat /\ m_applied \in Nat /\ Len(v_entries) \in Nat
  BY FollowerTypes
<1>2. /\ v_offset' = v_offset /\ Stored' = Stored /\ StoredTerm' = StoredTerm
      /\ m_applied' = m_applied
  BY DEF Took, storageVars, Stored, StoredTerm
<1>3. /\ m.prev \in Nat /\ m.count \in Nat /\ top \in Nat
      /\ top <= Len(leaderLog[t]) /\ Len(leaderLog[t]) \in Nat
      /\ Len(leaderLog[t]) <= MaxIndex /\ MaxIndex \in Nat
  BY MessageParts, ReplicationAssumption
<1>4. m_commit' \in Nat /\ m_commit' <= top
  <2>1. m_commit' = CommitAfter(m.prev, m.commit, MessageEntries(t, m))
    BY DEF Took
  <2> QED BY <2>1, CommitBounds
<1>5. /\ v_offset - 1 <= m.prev /\ m.prev <= End /\ top <= End'
      /\ \A j \in v_offset .. top : HeldTerm(j)' = leaderLog[t][j]
  BY DEF Took
<1>6. /\ End' \in Int /\ m_applied <= End'
  BY <1>2, NumbersNext DEF Numbers
<1>7. m.prev \in Indexes /\ \A j \in v_offset .. m.prev : HeldTerm(j) = leaderLog[t][j]
  <2>1. m.prev \in 0 .. Len(leaderLog[t])
    BY <1>3
  <2>2. \A j \in v_offset .. m.prev : HeldTerm(j) = leaderLog[t][j]
    BY <2>1, MatchedBefore DEF Match, PrevTerm
  <2>3. TermOf(m.prev) # VS!Absent
    <3>1. \A i \in 1 .. Len(leaderLog[t]) : leaderLog[t][i] \in 1 .. MaxTerm
      BY LeaderTypes DEF LogInv, LeaderInv
    <3>2. MaxTerm \in Nat
      BY ReplicationAssumption
    <3>3. m.prev = 0 \/ m.prev \in 1 .. Len(leaderLog[t])
      BY <1>3
    <3>4. PrevTerm(t, m) \in 0 .. MaxTerm
      BY <3>1, <3>2, <3>3 DEF PrevTerm
    <3> QED BY <3>2, <3>4 DEF Match, VS!Absent
  <2>4. m.prev \in v_offset .. End \/ m.prev = Stored
    BY <1>3, <2>3, Reads
  <2> QED BY <2>2, <2>4 DEF Indexes
<1>8. Indexes = {Stored} \cup v_offset .. End /\ Indexes' = {Stored} \cup v_offset .. End'
  BY <1>2 DEF Indexes
<1>9. \/ v_entries' = v_entries /\ End' = End /\ \A i : HeldTerm(i)' = HeldTerm(i)
      \/ /\ End' = top
         /\ \E c \in m.prev + 1 .. top :
              /\ v_entries # <<>> => m_commit < c
              /\ v_offset <= c /\ c <= End + 1
              /\ c <= End => HeldTerm(c) # leaderLog[t][c]
              /\ \A j \in v_offset .. c - 1 : HeldTerm(j)' = HeldTerm(j)
  BY <1>2 DEF Took, End, HeldTerm
<1> HIDE DEF top
<1>10. ASSUME NEW i \in Indexes, i <= m.prev \/ i <= m_commit
       PROVE  held(i)
  <2>1. CASE i \notin v_offset .. End
    <3>1. i = Stored /\ i < v_offset
      BY <1>1, <1>8, <2>1
    <3>2. i \notin v_offset .. End' /\ i \in Indexes'
      BY <1>1, <1>8, <3>1
    <3> QED BY <1>2, <2>1, <3>2 DEF Seen
  <2>2. CASE i \in v_offset .. End
    <3>1. i \in v_offset .. End' /\ HeldTerm(i)' = HeldTerm(i)
      <4>1. CASE End' = End /\ \A j : HeldTerm(j)' = HeldTerm(j)
        BY <2>2, <4>1
      <4>2. CASE i <= m.prev
        <5>1. i \in v_offset .. m.prev /\ i \in v_offset .. top /\ i \in v_offset .. End'
          BY <1>1, <1>3, <1>5, <1>6, <2>2, <4>2 DEF top
        <5> QED BY <1>5, <1>7, <5>1
      <4>3. ASSUME NEW c \in m.prev + 1 .. top, End' = top,
                   v_entries # <<>> => m_commit < c, i <= m_commit,
                   \A j \in v_offset .. c - 1 : HeldTerm(j)' = HeldTerm(j)
            PROVE  i \in v_offset .. End' /\ HeldTerm(i)' = HeldTerm(i)
        <5>1. v_entries # <<>>
          BY <1>1, <2>2, EmptySeq DEF End
        <5>2. i \in v_offset .. c - 1 /\ i \in v_offset .. End'
          BY <1>1, <1>3, <2>2, <4>3, <5>1
        <5> QED BY <4>3, <5>2
      <4> QED BY <1>9, <1>10, <4>1, <4>2, <4>3
    <3>2. i \in Indexes'
      BY <1>8, <3>1
    <3> QED BY <1>2, <2>2, <3>1, <3>2 DEF Seen
  <2> QED BY <2>1, <2>2
<1>11. \A i \in m.prev + 1 .. top : i \in Indexes'
  BY <1>1, <1>3, <1>5, <1>6, <1>8
<1>12. \/ Whole' = Whole
       \/ /\ Indexes' = FL!Base(Whole) .. top
          /\ \E i \in m.prev + 1 .. top : ~held(i)
  <2>1. CASE v_entries' = v_entries /\ End' = End /\ \A i : HeldTerm(i)' = HeldTerm(i)
    <3>1. Whole' = Whole
      BY <1>2, <2>1 DEF Whole, Indexes, Seen
    <3> QED BY <3>1
  <2>2. ASSUME NEW c \in m.prev + 1 .. top, End' = top,
               v_offset <= c, c <= End + 1,
               c <= End => HeldTerm(c) # leaderLog[t][c]
        PROVE  Indexes' = FL!Base(Whole) .. top /\ ~held(c)
    <3>1. PICK b : b = FL!Base(Whole) /\ b = IF Stored < v_offset THEN Stored ELSE v_offset
      BY FirstSeen
    <3>2. Indexes' = b .. top
      BY <1>1, <1>3, <1>6, <1>8, <2>2, <3>1
    <3>3. CASE c <= End
      <4>1. c \in v_offset .. End /\ c \in v_offset .. top /\ c \in v_offset .. End'
        BY <1>1, <1>3, <2>2, <3>3
      <4>2. Seen(c) = HeldTerm(c) /\ Seen(c)' = leaderLog[t][c]
        BY <1>2, <1>5, <4>1 DEF Seen
      <4> QED BY <2>2, <3>1, <3>2, <3>3, <4>2
    <3>4. CASE ~(c <= End)
      <4>1. c \notin Indexes
        BY <1>1, <1>3, <1>8, <2>2, <3>4
      <4> QED BY <3>1, <3>2, <4>1
    <3> QED BY <3>3, <3>4
  <2> QED BY <1>9, <2>1, <2>2
<1>13. FL!Given(Whole, Whole', m.prev, m.count)
  <2>1. DOMAIN Whole = Indexes /\ DOMAIN Whole' = Indexes'
        /\ (\A i \in Indexes : Whole[i] = Seen(i))
        /\ (\A i \in Indexes' : Whole'[i] = Seen(i)')
    BY DEF Whole
  <2>2. \A i : held(i) <=> /\ i \in DOMAIN Whole /\ i \in DOMAIN Whole'
                           /\ Whole[i] = Whole'[i]
    BY <2>1
  <2> HIDE DEF held
  <2> QED BY <1>10, <1>11, <1>12, <2>1, <2>2 DEF FL!Given, top
<1>14. View = Whole /\ View' = Whole' /\ DOMAIN Whole = Indexes
  BY Views, ViewsNext DEF SeesWhole, Whole
<1>15. m.count \in 0 .. MaxIndex /\ m_commit' \in 0 .. m.prev + m.count
  BY <1>3, <1>4 DEF top
<1> QED BY <1>2, <1>7, <1>13, <1>14, <1>15 DEF FL!Accept

(* The owner applies what is committed.                                    *)
LEMMA ApplyApplies ==
  ASSUME LogInv, LogInv', Apply
  PROVE  FL!Apply(View, View')
<1>1. /\ UNCHANGED <<volatileVars, storageVars, m_commit>>
      /\ m_applied' \in m_applied + 1 .. m_commit /\ m_applied' <= End
  BY ApplyKeeps
<1>2. View' = View
  BY <1>1, SameView
<1>3. View = Whole /\ DOMAIN Whole = Indexes
  BY Views DEF Whole
<1>4. m_applied' \in Indexes
  <2>1. /\ v_offset \in Nat /\ m_applied \in Nat /\ End \in Int /\ Stored \in Nat
        /\ v_offset - 1 <= Stored /\ Stored <= m_applied /\ m_commit \in Nat
    BY FollowerTypes
  <2> QED BY <1>1, <2>1 DEF Indexes
<1> QED BY <1>1, <1>2, <1>3, <1>4 DEF FL!Apply

(* A snapshot of applied entries takes the place of a beginning, or of     *)
(* nothing when its entry is seen in the deque already.                    *)
LEMMA InstallCompacts ==
  ASSUME LogInv, LogInv', NEW n \in 1 .. chosen, n <= m_applied, InstallSnapshot(n)
  PROVE  View' = View \/ FL!Compact(View, View')
<1>1. /\ UNCHANGED <<volatileVars, indexVars>>
      /\ \/ UNCHANGED storageVars
         \/ Stored <= n /\ Stored' = n /\ StoredTerm' = ChosenTerm(n)
  BY InstallKeeps
<1>2. /\ v_offset' = v_offset /\ End' = End /\ \A i : HeldTerm(i)' = HeldTerm(i)
      /\ m_commit' = m_commit /\ m_applied' = m_applied
  BY <1>1 DEF volatileVars, indexVars, End, HeldTerm
<1>3. /\ v_offset \in Nat \ {0} /\ End \in Int /\ Stored \in Nat
      /\ v_offset - 1 <= Stored /\ Stored <= m_applied /\ m_applied <= End
      /\ m_applied \in Nat /\ n \in Nat \ {0}
  BY FollowerTypes
<1>4. View = Whole /\ View' = Whole' /\ DOMAIN Whole = Indexes
      /\ Indexes = {Stored} \cup v_offset .. End
      /\ Indexes' = {Stored'} \cup v_offset .. End
  BY <1>2, Views, ViewsNext DEF SeesWhole, Whole, Indexes
<1>5. CASE UNCHANGED storageVars
  BY <1>1, <1>5, SameView
<1>6. CASE Stored <= n /\ Stored' = n /\ StoredTerm' = ChosenTerm(n)
  <2>1. CASE n < v_offset
    <3>1. n = Stored
      BY <1>3, <1>6, <2>1
    <3>2. StoredTerm = ChosenTerm(n)
      BY <1>3, <3>1 DEF StoredChosen, LogInv, FollowerInv
    <3>3. Stored' = Stored /\ StoredTerm' = StoredTerm
      BY <1>6, <3>1, <3>2
    <3>4. Whole' = Whole
      BY <1>2, <3>3 DEF Whole, Indexes, Seen
    <3> QED BY <1>4, <3>4
  <2>2. CASE ~(n < v_offset)
    <3>1. n \in v_offset .. End /\ v_offset \in v_offset .. End /\ v_offset <= m_applied
      BY <1>3, <2>2
    <3>2. Indexes' = v_offset .. End
      BY <1>4, <1>6, <3>1
    <3>3. {j \in Indexes : v_offset <= j} = v_offset .. End
      <4>1. ASSUME NEW j \in Indexes, v_offset <= j PROVE j \in v_offset .. End
        BY <1>3, <1>4, <4>1
      <4>2. ASSUME NEW j \in v_offset .. End PROVE j \in Indexes /\ v_offset <= j
        BY <1>3, <1>4
      <4> QED BY <4>1, <4>2
    <3>4. \A i \in v_offset .. End : Seen(i)' = Seen(i) /\ i \in Indexes
      BY <1>2, <1>4 DEF Seen
    <3>5. Whole' = [i \in v_offset .. End |-> Seen(i)]
      BY <1>2, <3>2, <3>4 DEF Whole
    <3>6. FL!Restricted(Whole, {j \in DOMAIN Whole : v_offset <= j})
            = [i \in v_offset .. End |-> Seen(i)]
      <4>1. \A i \in v_offset .. End : Whole[i] = Seen(i)
        BY <3>4 DEF Whole
      <4> QED BY <1>4, <3>3, <4>1 DEF FL!Restricted
    <3>7. v_offset \in DOMAIN Whole
      BY <1>4, <3>1
    <3> QED BY <1>2, <1>4, <3>1, <3>5, <3>6, <3>7 DEF FL!Compact
  <2> QED BY <2>1, <2>2
<1> QED BY <1>1, <1>5, <1>6

(* A new log object has the snapshot of the storage and no more.           *)
LEMMA RebuildRebuilds ==
  ASSUME LogInv, LogInv', Rebuild
  PROVE  FL!Rebuild(View')
<1>1. /\ v_offset' = Stored' + 1 /\ End' = Stored'
      /\ m_commit' = Stored' /\ m_applied' = Stored'
  BY RebuildKeeps
<1>2. Stored' \in Nat
  BY NumbersNext DEF Numbers
<1>3. \A k \in Nat : {k} \cup k + 1 .. k = {k}
  OBVIOUS
<1>4. DOMAIN Whole' = {Stored'} \cup Stored' + 1 .. Stored'
  BY <1>1 DEF Whole, Indexes
<1>5. DOMAIN Whole' = {Stored'}
  BY <1>2, <1>3, <1>4
<1> QED BY <1>1, <1>5, ViewsNext DEF SeesWhole, FL!Rebuild

(* A new follower is an empty log.                                         *)
LEMMA InitRefines == Init => FL!Init
<1> SUFFICES ASSUME Init PROVE FL!Init
  OBVIOUS
<1>1. IInv /\ LogInv
  BY InitIInv DEF IInv
<1>2. /\ s_entries = <<[index |-> 0, term |-> 0]>>
      /\ v_entries = <<>>
  BY DEF Init, MS!Init, Constructed
<1>3. Stored = 0 /\ StoredTerm = 0 /\ Len(s_entries) = 1
  BY <1>2 DEF Stored, StoredTerm
<1>4. v_offset = 1 /\ m_commit = 0 /\ m_applied = 0
  <2>1. MS!LastIndex = Stored + Len(s_entries) - 1 /\ MS!FirstIndex = Stored + 1
    BY DEF MS!LastIndex, MS!FirstIndex, Stored
  <2>2. MS!LastIndex = 0 /\ MS!FirstIndex = 1
    BY <1>3, <2>1
  <2> QED BY <2>2 DEF Init, Constructed
<1>5. Len(v_entries) = 0 /\ End = 0
  BY <1>2, <1>4, EmptySeq DEF End
<1>6. Indexes = {0} /\ \A i \in {0} : Seen(i) = 0
  BY <1>3, <1>4, <1>5 DEF Indexes, Seen
<1>7. Whole = [i \in {0} |-> 0]
  BY <1>6 DEF Whole
<1> QED BY <1>1, <1>4, <1>7, Views DEF FL!Init

(* Each step of the follower is a step of the abstract log, or none.       *)
LEMMA StepRefines ==
  ASSUME IInv, IInv', [GuardedNext]_allVars
  PROVE  [FL!Next]_(FL!vars)
<1>1. LogInv /\ LogInv'
  BY DEF IInv
<1>2. ASSUME UNCHANGED <<volatileVars, storageVars, indexVars>>
      PROVE  UNCHANGED FL!vars
  BY <1>1, <1>2, SameView DEF FL!vars, indexVars
<1>3. ASSUME FL!Step(View, View') PROVE FL!Next
  BY <1>3 DEF FL!Next
<1>4. CASE LeaderStep
  BY <1>1, <1>2, <1>4, LeaderStepKeeps DEF logVars
<1>5. ASSUME NEW t \in 1 .. LeaderTerm, NEW m \in Messages(t),
             ~MessageMiscuts(t, m), Deliver(t, m)
      PROVE  [FL!Next]_(FL!vars)
  <2>1. /\ m_cur_term <= t
        /\ \/ UNCHANGED <<volatileVars, storageVars, indexVars>>
           \/ Match(m.prev, PrevTerm(t, m)) /\ Took(t, m)
    BY <1>1, <1>5, DeliverOutcome DEF logVars, Failed
  <2>2. CASE Match(m.prev, PrevTerm(t, m)) /\ Took(t, m)
    <3>1. FL!Accept(View, View')
      BY <1>1, <2>1, <2>2, TookAccepts
    <3> QED BY <1>3, <3>1 DEF FL!Step
  <2> QED BY <1>2, <2>1, <2>2
<1>6. CASE Apply
  BY <1>1, <1>3, <1>6, ApplyApplies DEF FL!Step
<1>7. ASSUME NEW n \in 1 .. chosen, n <= m_applied, InstallSnapshot(n)
      PROVE  [FL!Next]_(FL!vars)
  <2>1. m_commit' = m_commit /\ m_applied' = m_applied
    BY <1>1, <1>7, InstallKeeps DEF indexVars
  <2>2. View' = View \/ FL!Compact(View, View')
    BY <1>1, <1>7, InstallCompacts
  <2> QED BY <1>3, <2>1, <2>2 DEF FL!Step, FL!vars
<1>8. CASE Rebuild
  BY <1>1, <1>3, <1>8, RebuildRebuilds DEF FL!Step
<1>9. CASE UNCHANGED allVars
  BY <1>2, <1>9 DEF allVars, logVars
<1> QED BY <1>4, <1>5, <1>6, <1>7, <1>8, <1>9 DEF GuardedNext, GuardedStep

(* The deque, its offset and the durable placeholder behind it act as one  *)
(* log: messages change only its end that is not committed, snapshots      *)
(* forget a beginning that has been applied.                               *)
THEOREM FollowerLogImplemented == GuardedSpec => ImplementsFollowerLog
<1>1. Init => FL!Init
  BY InitRefines
<1>2. IInv /\ IInv' /\ [GuardedNext]_allVars => [FL!Next]_(FL!vars)
  BY StepRefines
<1> QED BY <1>1, <1>2, GuardedInvariant, PTL
        DEF GuardedSpec, ImplementsFollowerLog, FL!Spec
=============================================================================
