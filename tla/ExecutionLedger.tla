-------------------------- MODULE ExecutionLedger --------------------------
(***************************************************************************)
(* What the executions component promises about a task, with no table, no *)
(* queue and no clock: a task has at most one run at a time, a run ends at  *)
(* most once, and what was recorded about an earlier run never changes.    *)
(* ActiveExecutions is shown to implement this specification.              *)
(***************************************************************************)
EXTENDS Naturals, Sequences

CONSTANTS
  Tasks,      \* the tasks that can be executed
  Outcomes,   \* what may be recorded about a run that is over
  NoRun       \* running[t] when nothing works on t

VARIABLES
  running,    \* running[t]: the run that works on t, or NoRun
  records,    \* records[t]: the recorded runs of t, oldest first
  lastRun     \* the last run identifier handed out; the next is lastRun + 1

ledgerVars == <<running, records, lastRun>>

Init ==
  /\ running = [t \in Tasks |-> NoRun]
  /\ records = [t \in Tasks |-> <<>>]
  /\ lastRun = 0

(* A worker takes a free task under an identifier nobody has seen before.   *)
Begin(t) ==
  /\ running[t] = NoRun
  /\ lastRun' = lastRun + 1
  /\ running' = [running EXCEPT ![t] = lastRun + 1]
  /\ UNCHANGED records

(* The run is over and recorded, under its own or under a fresh identifier. *)
Conclude(t, run, outcome) ==
  /\ running[t] # NoRun
  /\ run \in {running[t], lastRun + 1}
  /\ running' = [running EXCEPT ![t] = NoRun]
  /\ records' = [records EXCEPT
                   ![t] = Append(@, [run |-> run, outcome |-> outcome])]
  /\ lastRun' = IF run = running[t] THEN lastRun ELSE run

(* The run is given up without a record.                                    *)
Return(t) ==
  /\ running[t] # NoRun
  /\ running' = [running EXCEPT ![t] = NoRun]
  /\ UNCHANGED <<records, lastRun>>

Next ==
  \E t \in Tasks :
    \/ Begin(t)
    \/ \E run \in {running[t], lastRun + 1}, outcome \in Outcomes :
         Conclude(t, run, outcome)
    \/ Return(t)

Spec == Init /\ [][Next]_ledgerVars
=============================================================================
