--------------------------- MODULE MCTaskThreads ---------------------------
(* Instances of TaskThreads for TLC.                                         *)
EXTENDS TaskThreads, TLC

Symmetric == Permutations(AgentCalls) \union Permutations(Requests)
=============================================================================
