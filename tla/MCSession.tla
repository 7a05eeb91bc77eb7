----------------------------- MODULE MCSession -----------------------------
(***************************************************************************)
(* What Session is checked on: ROMs of three and four files, and addresses *)
(* enough for all that can be held at once.                                *)
(***************************************************************************)
EXTENDS Session

MCBlocks == 1..8
MCCounts == {3, 4}
=============================================================================
