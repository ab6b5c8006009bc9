-------------------------- MODULE MCWorkerRuntime --------------------------
(* Model values and bounds for checking WorkerRuntime with TLC.             *)
EXTENDS WorkerRuntime

MCEndReports == {Succeeded, Interrupted, <<"FAILED", "UNKNOWN">>}
MCAgentReports == {Succeeded}
MCTaskEdits ==
  {[AbsentTask EXCEPT !.life = life, !.assignee = a] :
     life \in {"live", "deleted"}, a \in Actors}

FairSpec == RuntimeSpec /\ RuntimeFairness
=============================================================================
