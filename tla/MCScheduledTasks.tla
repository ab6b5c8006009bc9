-------------------------- MODULE MCScheduledTasks --------------------------
(* Model values and bounds for checking ScheduledTasks with TLC.             *)
EXTENDS ScheduledTasks

CONSTANTS s1, b1

OneBlueprint == [s \in Schedules |-> b1]

(* The cron expression that names every minute.                              *)
EveryMinute == {1}
MCNextRun == [c \in Crons |-> [n \in 0 .. MaxTime |-> c * (n \div c + 1)]]
=============================================================================
