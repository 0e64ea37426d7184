---------------------------- MODULE MCVolatileState ----------------------------
(* VolatileState for TLC: two terms, indexes 1..MaxIndex.                    *)
EXTENDS VolatileState

MCTerms == {1, 2}
=============================================================================
