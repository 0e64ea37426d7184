----------------------------- MODULE MCReplication -----------------------------
(* Replication for TLC.                                                      *)
EXTENDS Replication

MCTerms == 1 .. MaxTerm
=============================================================================
