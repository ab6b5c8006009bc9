------------------------------ MODULE QuietCalls ------------------------------
(***************************************************************************)
(* TaskReadiness with a history variable: the populator calls nothing has   *)
(* interfered with so far.  What such a call leaves in the queue is what the *)
(* rules of the readiness pipeline say, read off one state.                 *)
(***************************************************************************)
EXTENDS TaskReadiness

VARIABLE quiet  \* calls, under way or just ended, with no other step since their start

quietVars == <<vars, quiet>>

(* A step of the call itself, other than its failure.                        *)
CallStep(j) == IF j \in Sweeps THEN SweepStep(j) ELSE EventStep(j)

(* The step that is being taken starts a call or is the call's own.           *)
StillQuiet(j) ==
  IF jobs[j].stage = "idle" THEN jobs'[j].stage # "idle"
                            ELSE j \in quiet /\ CallStep(j)

Watch == quiet' = {j \in Slots : StillQuiet(j)}

QuietInit == Init /\ quiet = {}
QuietNext == Next /\ Watch
QuietSpec == QuietInit /\ [][QuietNext]_quietVars

(***************************************************************************)
(* Properties.                                                             *)
(***************************************************************************)
(* populateAllTasks: a sweep nothing interferes with leaves exactly the ready *)
(* tasks queued, whatever was queued before.                                 *)
QuietSweepExact ==
  \A j \in quiet \intersect Sweeps :
    jobs[j].stage = "idle" => queue = {t \in Tasks : Ready(t)}

(* populateTask: a call for one task, started by the edit or the event of the  *)
(* task, that nothing interferes with ends with the task queued if and only if *)
(* it is ready.                                                              *)
QuietCallExact ==
  [][\A j \in EventSlots, t \in Tasks :
       /\ j \in quiet /\ jobs[j].stage # "idle" /\ jobs[j].task = t
       /\ j \in quiet' /\ jobs'[j].stage = "idle"
       => (t \in queue' <=> Ready(t)')]_quietVars
=============================================================================
