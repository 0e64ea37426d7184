------------------------------- MODULE MCProgress -------------------------------
(* Progress for TLC; Progress.cfg gives the constants their values.          *)
EXTENDS Progress
=============================================================================
