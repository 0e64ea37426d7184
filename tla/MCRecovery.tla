------------------------------ MODULE MCRecovery ------------------------------
(* Recovery for TLC.                                                         *)
EXTENDS Recovery

MCTerms == 1 .. MaxTerm
=============================================================================
