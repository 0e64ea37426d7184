------------------------------ MODULE MCRaftNode ------------------------------
(* RaftNode for TLC: three nodes, and tick counts around the limits.         *)
EXTENDS RaftNode

MCNodes    == 1 .. 3
MCLeaderOf == <<1, 2>>
MCTicks    == {0, 1, 2, 4, 10, 20, 27}
=============================================================================
