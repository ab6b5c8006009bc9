------------------------ MODULE MCWorkerCredentials ------------------------
(* Instances of WorkerCredentials for TLC.                                   *)
EXTENDS WorkerCredentials, TLC

CONSTANTS p1, p2, s1, s2

SameServer == [p \in Processes |-> s1]
ServerEach == (p1 :> s1) @@ (p2 :> s2)
=============================================================================
