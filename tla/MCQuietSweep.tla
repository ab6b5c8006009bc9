---------------------------- MODULE MCQuietSweep ----------------------------
(* QuietCalls on the model values of MCTaskReadiness.                        *)
EXTENDS MCTaskReadiness, QuietCalls

EventsIdle == \A j \in EventSlots : jobs[j].stage = "idle"
SweepsIdle == \A j \in Sweeps : jobs[j].stage = "idle"

(* A bound: no task is created while an event's call is in flight.          *)
CreationsApart == drafts = {} \/ EventsIdle

(***************************************************************************)
(* Only sweeps nothing interferes with are of interest: they start when no  *)
(* call is in flight, and everything else waits until they end.  A sweep    *)
(* does not read drafts, and DropDraft changes nothing else, so that those  *)
(* which start without a draft stand for all of them.                       *)
(***************************************************************************)
BoundedNext ==
  /\ \/ SweepsIdle /\ Others /\ CreationsApart'
     \/ EventsIdle /\ drafts = {} /\ \E j \in Sweeps : ListCandidates(j)
     \/ \E j \in Sweeps : SweepStep(j)
  /\ Watch
BoundedSpec == QuietInit /\ [][BoundedNext]_quietVars
=============================================================================
