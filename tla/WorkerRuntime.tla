--------------------------- MODULE WorkerRuntime ---------------------------
(***************************************************************************)
(* The workers (apps/worker: worker-app, task-claim-worker, task-picker,   *)
(* task-runner) on the execution tables: every call the tables get is here *)
(* made by some pickTask call of some worker process.                      *)
(*                                                                         *)
(* A pickTask call is a slot of "picks": it asks for the claim, prepares,  *)
(* runs the agent, and makes one closing call, which is never repeated.    *)
(* An HTTP call is done or not done by the tables, and its answer may be   *)
(* lost on the way back.  A heartbeat travels on the socket as one step.   *)
(* A crash of a worker comes with its restart: what it had in memory is    *)
(* gone, what it has in the tables stays.                                  *)
(***************************************************************************)
EXTENDS ActiveExecutions

CONSTANTS
  Slots,         \* bound: the pickTask calls under way at a time
  AgentReports,  \* what an agent that nobody interrupted ends with
  TaskEdits      \* the rows that the other writers of tasks leave

Succeeded == <<"SUCCEEDED", None>>
Interrupted == <<"CANCELLED", "INTERRUPTED">>
UnpreparedAsCancelled == <<"CANCELLED", "UNKNOWN">>
Unprepared == <<"FAILED", "UNKNOWN">>

ASSUME RuntimeAssumption ==
  /\ AgentReports \union {Succeeded, Interrupted, <<"FAILED", "UNKNOWN">>}
       \subseteq EndReports
  /\ None \notin Workers \union Tasks \union EndReports
  /\ TaskEdits \subseteq TaskRow
  /\ StaleAfter > 0

VARIABLES
  picks,       \* picks[s]: the pickTask call in slot s
  deferred,    \* deferredTaskClaims: <<worker, task>>
  connected,   \* workerSocketsByClientId: the workers with a socket
  interrupts,  \* interrupt requests under way: <<worker, execution id>>
  fellSilent   \* ghost: the executions that were ever silent for too long

runtime == <<deferred, connected, interrupts>>
workerVars == <<storeVars, picks, runtime, fellSilent>>

NoPick ==
  [pc |-> "none", worker |-> None, task |-> None, id |-> 0, aborted |-> FALSE,
   report |-> None]

WorkingPick ==
  [pc : {"claiming", "claimed", "preparing", "running", "unclaiming",
         "unclaimed"},
   worker : Workers, task : Tasks, id : Nat, aborted : BOOLEAN,
   report : {None}]

StoppingPick ==
  [pc : {"stopping"}, worker : Workers, task : Tasks, id : Nat,
   aborted : BOOLEAN, report : EndReports]

Pick == {NoPick} \union WorkingPick \union StoppingPick

(* executeTask is under way: its abort controller is registered.             *)
Executing(p) == p.pc \in {"preparing", "running"}
(* The pick has an execution and has not yet given it up.                     *)
Holds(p) == Executing(p) \/ p.pc \in {"claimed", "stopping", "unclaiming"}

(* Every endpoint finds the row by the execution's id.                        *)
RowOfTask(p) == {r \in active : r.task = p.task}
RowOf(p) == {r \in active : r.id = p.id}

Goto(s, pc) == picks' = [picks EXCEPT ![s].pc = pc]
Over(s) == picks' = [picks EXCEPT ![s] = NoPick]
TablesKept == UNCHANGED <<storeVars, fellSilent>>

RuntimeInit ==
  /\ StoreInit
  /\ picks = [s \in Slots |-> NoPick]
  /\ deferred = {}
  /\ connected = {}
  /\ interrupts = {}
  /\ fellSilent = {}

(***************************************************************************)
(* Claiming: by the poll of the queue, or on a notification.               *)
(***************************************************************************)
AskToClaim(s, w, t) ==
  /\ picks[s] = NoPick
  /\ <<w, t>> \notin deferred
  /\ picks' = [picks EXCEPT ![s] =
                 [NoPick EXCEPT !.pc = "claiming", !.worker = w, !.task = t]]

(* processNextQueuedTask: some listed task that is not deferred.              *)
Poll(s, w, t) ==
  /\ t \in queue
  /\ AskToClaim(s, w, t)
  /\ TablesKept /\ UNCHANGED runtime

(* attemptClaimTask, from onTaskQueued: broadcast to the sockets each time a  *)
(* task is queued, and often late, so it may be about any task.               *)
TaskQueued(s, w, t) ==
  /\ w \in connected
  /\ AskToClaim(s, w, t)
  /\ TablesKept /\ UNCHANGED runtime

(* The claim is made; its answer is on the way.                               *)
ClaimMade(s) ==
  /\ picks[s].pc = "claiming"
  /\ Claim(picks[s].worker, picks[s].task)
  /\ picks' = [picks EXCEPT ![s].pc = "claimed", ![s].id = lastId + 1]
  /\ UNCHANGED <<runtime, fellSilent>>

(* The claim is refused, never arrives, or its answer is lost: nobody will    *)
(* work on the execution it may have made.                                    *)
ClaimFails(s) ==
  /\ picks[s].pc \in {"claiming", "claimed"}
  /\ Over(s)
  /\ TablesKept /\ UNCHANGED runtime

(***************************************************************************)
(* executeTask.                                                            *)
(***************************************************************************)
StartExecution(s) ==
  /\ picks[s].pc = "claimed"
  /\ Goto(s, "preparing")
  /\ TablesKept /\ UNCHANGED runtime

EndWith(s, report) ==
  /\ picks' = [picks EXCEPT ![s].pc = "stopping", ![s].report = report]
  /\ TablesKept /\ UNCHANGED runtime

(* Task, agent, repository, workspace, thread, permissions or token could not *)
(* be had.                                                                    *)
PreparationFails(s) ==
  /\ picks[s].pc = "preparing"
  /\ EndWith(s, Unprepared)

(* The agent's type has no runner here: UnsupportedAgentTypeError.            *)
Unsupported(s) ==
  /\ picks[s].pc = "preparing"
  /\ Goto(s, "unclaiming")
  /\ TablesKept /\ UNCHANGED runtime

(* updateExecutionStats, whose failure is only logged; then runner.run.       *)
StartAgent(s) ==
  /\ picks[s].pc = "preparing"
  /\ Goto(s, "running")
  /\ \/ \E x \in stats :
          x.execution = picks[s].id /\ UpdateExecutionStats(x)
     \/ UNCHANGED storeVars
  /\ UNCHANGED <<runtime, fellSilent>>

(* onHeartbeat: not once interrupted, and only over a socket.                 *)
Heartbeat(s) ==
  /\ picks[s].pc = "running" /\ ~picks[s].aborted
  /\ picks[s].worker \in connected
  /\ \E r \in RowOf(picks[s]) : TouchHeartbeat(r)
  /\ UNCHANGED <<picks, runtime, fellSilent>>

(* onTokenUsage: a call whose failure is only logged.  onSession and onToolCall *)
(* write other columns of the row in the same way; the tables' module has them.*)
ReportUsage(s) ==
  /\ picks[s].pc = "running" /\ ~picks[s].aborted
  /\ \E x \in stats : x.execution = picks[s].id /\ UpdateExecutionStats(x)
  /\ UNCHANGED <<picks, runtime, fellSilent>>

(* runner.run returns or throws.  A runner that throws first emits the error, *)
(* which throws the interruption instead if there was one.                    *)
AgentEnds(s) ==
  /\ picks[s].pc = "running"
  /\ \E report \in IF picks[s].aborted THEN {Interrupted, Succeeded}
                                       ELSE AgentReports :
       EndWith(s, report)

(***************************************************************************)
(* The closing call of pickTask.                                           *)
(***************************************************************************)
StopMade(s) ==
  /\ picks[s].pc = "stopping"
  /\ \E r \in RowOf(picks[s]) : Stop(picks[s].worker, r, picks[s].report)
  /\ Over(s)
  /\ UNCHANGED <<runtime, fellSilent>>

UnclaimMade(s) ==
  /\ picks[s].pc = "unclaiming"
  /\ \E r \in RowOf(picks[s]) : Unclaim(picks[s].worker, r)
  /\ Goto(s, "unclaimed")
  /\ UNCHANGED <<runtime, fellSilent>>

(* The call never arrives or finds no row, or the answer of the unclaim is    *)
(* lost: pickTask throws, and nothing is tried again.                         *)
ClosingFails(s) ==
  /\ picks[s].pc \in {"stopping", "unclaiming", "unclaimed"}
  /\ Over(s)
  /\ TablesKept /\ UNCHANGED runtime

(* deferTaskClaimAfterUnclaim, when the unclaim is answered.                  *)
Defer(s) ==
  /\ picks[s].pc = "unclaimed"
  /\ deferred' = deferred \union {<<picks[s].worker, picks[s].task>>}
  /\ Over(s)
  /\ TablesKept /\ UNCHANGED <<connected, interrupts>>

DeferralExpires(d) ==
  /\ d \in deferred
  /\ deferred' = deferred \ {d}
  /\ TablesKept /\ UNCHANGED <<picks, connected, interrupts>>

(***************************************************************************)
(* Sockets, interrupts and crashes.                                        *)
(***************************************************************************)
Connect(w) ==
  /\ connected' = connected \union {w}
  /\ TablesKept /\ UNCHANGED <<picks, deferred, interrupts>>

DropSocket(w) ==
  /\ connected' = connected \ {w}
  /\ interrupts' = {i \in interrupts : i[1] # w}

Disconnect(w) ==
  /\ w \in connected
  /\ DropSocket(w)
  /\ TablesKept /\ UNCHANGED <<picks, deferred>>

(* interruptExecution and handleExecutionInterrupt: to the sockets of the     *)
(* claimer, if it has one; the caller is answered alike.                      *)
InterruptExecution(r) ==
  /\ r \in active
  /\ r.worker \in connected
  /\ interrupts' = interrupts \union {<<r.worker, r.id>>}
  /\ TablesKept /\ UNCHANGED <<picks, deferred, connected>>

(* onExecutionInterruptRequest: aborts what is registered, else drops it.     *)
Interrupt(i) ==
  /\ i \in interrupts
  /\ interrupts' = interrupts \ {i}
  /\ picks' = [s \in Slots |->
       IF /\ Executing(picks[s])
          /\ picks[s].worker = i[1] /\ picks[s].id = i[2]
       THEN [picks[s] EXCEPT !.aborted = TRUE] ELSE picks[s]]
  /\ TablesKept /\ UNCHANGED <<deferred, connected>>

Crash(w) ==
  /\ picks' = [s \in Slots |->
                 IF picks[s].worker = w THEN NoPick ELSE picks[s]]
  /\ deferred' = {d \in deferred : d[1] # w}
  /\ DropSocket(w)
  /\ TablesKept

(***************************************************************************)
(* The rest of the backend: the cron, and the writers of tasks and queue.  *)
(***************************************************************************)
Cron ==
  /\ \/ FindStaleExecutions
     \/ \E r \in active : Prune(r)
     \/ \E id \in detected : SkipPruned(id)
     \/ AbandonScan
  /\ UNCHANGED <<picks, runtime, fellSilent>>

TimePasses ==
  /\ Tick
  /\ fellSilent' = fellSilent \union
       {r.id : r \in {x \in active' : x.silence >= StaleAfter}}
  /\ UNCHANGED <<picks, runtime>>

OtherWriters ==
  /\ \/ \E t \in Tasks : QueuePut(t)
     \/ \E ts \in SUBSET Tasks : QueueKeep(ts)
     \/ \E t \in Tasks, row \in TaskEdits : EditTask(t, row)
  /\ UNCHANGED <<picks, runtime, fellSilent>>

PickStep(s) ==
  \/ \E w \in Workers, t \in Tasks : Poll(s, w, t) \/ TaskQueued(s, w, t)
  \/ ClaimMade(s) \/ ClaimFails(s)
  \/ StartExecution(s) \/ PreparationFails(s) \/ Unsupported(s)
  \/ StartAgent(s) \/ Heartbeat(s) \/ ReportUsage(s) \/ AgentEnds(s)
  \/ StopMade(s) \/ UnclaimMade(s) \/ ClosingFails(s) \/ Defer(s)

WorkerStep(w) ==
  \/ \E d \in deferred : d[1] = w /\ DeferralExpires(d)
  \/ Connect(w) \/ Disconnect(w) \/ Crash(w)
  \/ \E i \in interrupts : i[1] = w /\ Interrupt(i)

RuntimeNext ==
  \/ \E s \in Slots : PickStep(s)
  \/ \E w \in Workers : WorkerStep(w)
  \/ \E r \in active : InterruptExecution(r)
  \/ Cron
  \/ TimePasses
  \/ OtherWriters

RuntimeSpec == RuntimeInit /\ [][RuntimeNext]_workerVars

(* Time passes and the cron runs; nothing is assumed of workers, sockets or   *)
(* calls.                                                                     *)
RuntimeFairness ==
  /\ WF_workerVars(TimePasses)
  /\ WF_workerVars(FindStaleExecutions /\ UNCHANGED <<picks, runtime, fellSilent>>)
  /\ \A t \in Tasks :
       SF_workerVars(/\ \E r \in active : r.task = t /\ Prune(r)
                     /\ UNCHANGED <<picks, runtime, fellSilent>>)

(***************************************************************************)
(* Properties.                                                             *)
(***************************************************************************)
RuntimeTypeOK ==
  /\ picks \in [Slots -> Pick]
  /\ deferred \subseteq Workers \X Tasks
  /\ connected \subseteq Workers
  /\ interrupts \subseteq Workers \X Nat
  /\ fellSilent \subseteq Nat

(* A worker that beats in time keeps its execution: whatever other picks,     *)
(* late closing calls, scans and edits do, the row of an execution that was   *)
(* never silent for the threshold is there until its own pick gives it up.    *)
HealthyRunKeepsItsRow ==
  \A s \in Slots :
    Holds(picks[s]) /\ picks[s].id \notin fellSilent =>
      \E r \in active : r.id = picks[s].id /\ r.task = picks[s].task

(* Two agents work on one task (in one workspace directory: it is named after *)
(* the task and the agent) only if one of them was silent for the threshold,  *)
(* as is one whose preparation takes that long.                               *)
OneHealthyRunPerTask ==
  \A s, u \in Slots :
    s # u /\ Holds(picks[s]) /\ Holds(picks[u])
          /\ picks[s].task = picks[u].task
      => picks[s].id \in fellSilent \/ picks[u].id \in fellSilent

(* An execution nobody works on any more (crashed worker, lost answer of the  *)
(* claim, failed closing call) does not block its task for ever.              *)
Abandoned(id) ==
  /\ \E r \in active : r.id = id
  /\ \A s \in Slots : Holds(picks[s]) => picks[s].id # id

RowsDoNotOutliveRuns ==
  \A id \in 1 .. MaxClaims : Abandoned(id) ~> ~Abandoned(id)
=============================================================================
