------------------------ MODULE MCActiveExecutions -------------------------
(* Model values and bounds for checking ActiveExecutions with TLC.          *)
EXTENDS ActiveExecutions, TLC

(* What task-picker.ts reports at the end of an execution, in short.         *)
MCEndReports == {<<"SUCCEEDED", None>>, <<"FAILED", "OUT_OF_QUOTA">>}

FairSpec == StoreSpec /\ StoreFairness
=============================================================================
