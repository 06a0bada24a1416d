------------------------------- MODULE NoValue -------------------------------
(* What stands for no row, no answer, nobody and nothing in the components.  *)
CONSTANT None
=============================================================================
