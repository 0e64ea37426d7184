------------------------------- MODULE Recovery -------------------------------
(***************************************************************************)
(* The follower of Replication with an owner that keeps a hard state and   *)
(* gives it back after a restart, as Raft::LoadState (raftcore/raft.cpp)   *)
(* is there for.  The entries of the log are volatile and do not come back *)
(* with it, and a snapshot may be newer than the hard state.               *)
(***************************************************************************)
EXTENDS Replication

VARIABLES
  saved,     \* the last HardState the owner wrote: a term and a commit index
  loaded     \* whether LoadState has been called since the log was built

recoveryVars == <<allVars, saved, loaded>>

RecoveryInit ==
  /\ Init
  /\ saved = [m_term |-> 0, m_commit |-> 0]
  /\ loaded = TRUE

(* The owner writes what the node knows, at a time of its choice.          *)
Save ==
  /\ status = "running"
  /\ saved' = [m_term |-> m_cur_term, m_commit |-> m_commit]
  /\ UNCHANGED <<allVars, loaded>>

LoadState_mutant(hs) ==    \* refuses a hard state as old as the snapshot
  \/ hs.m_commit <= m_commit /\ UNCHANGED allVars
  \/ /\ hs.m_commit > m_commit
     /\ SetCommit(hs.m_commit)
     /\ m_cur_term' = hs.m_term
     /\ UNCHANGED leaderVars

(* Raft::LoadState: all of the hard state or nothing.                      *)
LoadState(hs) ==
  \/ hs.m_commit < m_commit /\ UNCHANGED allVars
  \/ /\ hs.m_commit >= m_commit
     /\ SetCommit(hs.m_commit)
     /\ m_cur_term' = hs.m_term
     /\ UNCHANGED leaderVars

LoadSaved ==
  /\ ~loaded
  /\ LoadState(saved)
  /\ loaded' = TRUE
  /\ UNCHANGED saved

(* Messages are handled once the hard state has been loaded; restarts may  *)
(* come at any time.                                                       *)
RecoveryNext ==
  \/ LeaderStep /\ UNCHANGED <<saved, loaded>>
  \/ loaded /\ GuardedStep /\ UNCHANGED <<saved, loaded>>
  \/ loaded /\ Save
  \/ Rebuild /\ loaded' = FALSE /\ UNCHANGED saved
  \/ LoadSaved

RecoverySpec == RecoveryInit /\ [][RecoveryNext]_recoveryVars

(* The owner starts a process again that has ended.                        *)
Revive ==
  /\ status # "running"
  /\ Rebuild /\ loaded' = FALSE /\ UNCHANGED saved

(* The message with all that the last leader has after the last place      *)
(* where the logs agree, and its commit index.  The leader finds the place *)
(* by the reject hints of the messages it sends before; it sends its last  *)
(* entry again when the follower has them all, since a message without     *)
(* entries would end the follower.  The set is empty when there is no      *)
(* entry to send: the follower's log begins where the leader's ends.       *)
Rest ==
  LET n     == Len(leaderLog[LeaderTerm])
      agree == {i \in 0 .. n - 1 :
                  Match(i, IF i = 0 THEN 0 ELSE leaderLog[LeaderTerm][i])}
  IN  {[prev |-> i, count |-> n - i, commit |-> leaderCommit[LeaderTerm]] :
         i \in {j \in agree : \A k \in agree : k <= j}}

Retry ==
  /\ loaded
  /\ UNCHANGED <<saved, loaded>>
  /\ \E m \in Rest :
       ~MessageMiscuts(LeaderTerm, m) /\ Deliver(LeaderTerm, m)

(* The last leader gets a message through now and then between restarts.   *)
FairRecovery ==
  /\ RecoverySpec
  /\ WF_recoveryVars(Revive)
  /\ WF_recoveryVars(LoadSaved)
  /\ SF_recoveryVars(Retry)

-----------------------------------------------------------------------------
(* Properties *)

(* A commit index that was loaded without its entries is one the cluster   *)
(* has reached, and whatever entries come in below it, from any leader     *)
(* that the node still follows, are those the cluster chose.               *)
LoadedCommitIsChosen ==
  /\ m_commit <= chosen
  /\ \A i \in 1 .. m_commit : Holds(i)

(* A node that has loaded its hard state has forgotten a term it followed  *)
(* only if a snapshot had overtaken the commit index saved with the term   *)
(* (raft.cpp:47-50); the commit index falls, so one of its own may do so.  *)
TermKept ==
  loaded /\ m_cur_term < saved.m_term
    => s_snapshot # NoSnapshot /\ s_snapshot.index > saved.m_commit

CaughtUp ==
  LET n == Len(leaderLog[LeaderTerm]) IN
  /\ Match(n, IF n = 0 THEN 0 ELSE leaderLog[LeaderTerm][n])
  /\ m_commit >= leaderCommit[LeaderTerm]

WouldMiscut   == \E m \in Rest : MessageMiscuts(LeaderTerm, m)
NothingToSend == Rest = {}

(* Where the asserts are compiled out, the last leader brings its log and  *)
(* its commit index to the follower over and over again, by messages that  *)
(* have entries, whatever restarts, snapshots, stale and empty messages    *)
(* and new entries come in between, unless what it sends truncates the     *)
(* follower's log wrongly or there is nothing to send.                     *)
CatchesUp == []<>(CaughtUp \/ WouldMiscut \/ NothingToSend)

(* With the asserts, a log whose commit index was loaded beyond its end is *)
(* stuck: no message changes it any more, each one it matches aborts, and  *)
(* only a new log can get past it.                                         *)
StuckBeyondLog ==
  [][m_commit > LastIndex /\ status = "running" =>
       \/ loaded' = FALSE
       \/ m_commit' = m_commit /\ LastIndex' = LastIndex]_recoveryVars
=============================================================================
