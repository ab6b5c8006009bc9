--------------------------- MODULE MCContextTree ---------------------------
(* Instances of ContextTree for TLC.                                         *)
EXTENDS ContextTree

WalksSpec == TreeSpec /\ WalkFairness
=============================================================================
