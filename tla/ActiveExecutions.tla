------------------------- MODULE ActiveExecutions --------------------------
(***************************************************************************)
(* The execution tables of the backend (executions/active, /staleness and  *)
(* /history): what a worker's claim, stop, unclaim, session, tool-call and *)
(* heartbeat calls do to them, and the cron that prunes silent executions. *)
(*                                                                         *)
(* The backend is one process on one SQLite connection: a database         *)
(* transaction is one step; two awaited statements outside a transaction   *)
(* are two steps.  The writers of the tasks and of the queue are here an   *)
(* arbitrary environment; TaskReadiness refines it to the real writers.    *)
(*                                                                         *)
(* Time is an age per row: it grows with Tick and saturates where the code *)
(* stops telling larger ages apart.                                        *)
(***************************************************************************)
EXTENDS Naturals, Sequences

CONSTANTS
  Tasks, Actors,
  Agents,        \* the actors that have an agents row (the others are people)
  Workers,       \* worker client identifiers
  Tags, Sessions,
  Statuses,      \* the task statuses in use
  EndReports,    \* the <<status, errorCode>> pairs workers stop with
  None,          \* SQL NULL
  StaleAfter,    \* EXECUTIONS_STALENESS_THRESHOLD_MS, in ticks
  DelayCap,      \* the age, in ticks, at which a history row stops ageing
  MaxClaims,     \* bound: claims are enabled below this identifier
  MaxToolCalls   \* bound: the tool calls counted per execution

ASSUME ConstantsAssumption ==
  /\ Agents \subseteq Actors
  /\ None \notin Actors \union Sessions
  /\ "NOT_STARTED" \in Statuses
  /\ EndReports \subseteq
       {"SUCCEEDED", "FAILED", "STALE", "CANCELLED"}
         \X ({"OUT_OF_QUOTA", "INTERRUPTED", "UNKNOWN"} \union {None})
  /\ StaleAfter \in Nat /\ DelayCap \in Nat
  /\ MaxClaims \in Nat /\ MaxToolCalls \in Nat

VARIABLES
  tasks,      \* tasks[t]: the row of t; life is absent, live or (soft) deleted
  queue,      \* task_execution_queue: the tasks that have a row
  active,     \* active_task_executions: the set of its rows
  stats,      \* execution_stats: which executions have a row, and if reported
  history,    \* history[t]: the task_execution_history rows of t, oldest first
  sinceEnd,   \* sinceEnd[t]: age of the last history row of t, up to DelayCap
  lastId,     \* the last execution identifier generated
  detected    \* ids returned by findStaleExecutions and not yet pruned

tables == <<tasks, queue, active, stats, history, sinceEnd, lastId>>
storeVars == <<tables, detected>>

TaskRow ==
  [life : {"absent", "live", "deleted"}, status : Statuses,
   assignee : Actors \union {None}, tags : SUBSET Tags]

Snapshot ==
  [status : Statuses, assignee : Actors, tags : SUBSET Tags]

ActiveRow ==
  [id : Nat, task : Tasks, worker : Workers, agent : Agents,
   silence : 0 .. StaleAfter,       \* since the last heartbeat, or the claim
   before : Snapshot,
   session : Sessions \union {None}, toolCalls : 0 .. MaxToolCalls]

HistoryRow ==
  [id : Nat, agent : Agents, worker : Workers,
   session : Sessions \union {None}, toolCalls : 0 .. MaxToolCalls,
   status : {"SUCCEEDED", "FAILED", "STALE", "CANCELLED"},
   error : {"OUT_OF_QUOTA", "INTERRUPTED", "UNKNOWN"} \union {None}]

StatsRow == [execution : Nat, reported : BOOLEAN]

Live(t) == tasks[t].life = "live"
HasActive(t) == \E r \in active : r.task = t

AbsentTask ==
  [life |-> "absent", status |-> "NOT_STARTED", assignee |-> None, tags |-> {}]

StoreInit ==
  /\ tasks = [t \in Tasks |-> AbsentTask]
  /\ queue = {}
  /\ active = {}
  /\ stats = {}
  /\ history = [t \in Tasks |-> <<>>]
  /\ sinceEnd = [t \in Tasks |-> DelayCap]
  /\ lastId = 0
  /\ detected = {}

(***************************************************************************)
(* ActiveTaskExecutionService.  A call that throws rolls its transaction   *)
(* back, so a failed call is a stuttering step.                            *)
(***************************************************************************)

(* The task can be claimed: it has a queue row and an agent as assignee (a   *)
(* foreign key), and no active row (task_id is unique).                      *)
ClaimableWithoutUnique(t) ==
  Live(t) /\ t \in queue /\ tasks[t].assignee \in Agents
Claimable(t) ==
  Live(t) /\ t \in queue /\ tasks[t].assignee \in Agents /\ ~HasActive(t)

NoNewStats(id) == {}
NewStats(id) == {[execution |-> id, reported |-> FALSE]}

(* claimTask: whoever deletes the queue row gets the task.  The snapshot is   *)
(* what a prune will restore.                                                *)
Claim(w, t) ==
  /\ lastId < MaxClaims
  /\ Claimable(t)
  /\ lastId' = lastId + 1
  /\ queue' = queue \ {t}
  /\ active' = active \union
       {[id |-> lastId + 1, task |-> t, worker |-> w,
         agent |-> tasks[t].assignee, silence |-> 0,
         before |-> [status |-> tasks[t].status, tags |-> tasks[t].tags,
                     assignee |-> tasks[t].assignee],
         session |-> None, toolCalls |-> 0]}
  /\ stats' = stats \union NewStats(lastId + 1)
  /\ UNCHANGED <<tasks, history, sinceEnd, detected>>

RemoveNothing(r) == r \in active /\ UNCHANGED active
RemoveActive(r) == r \in active /\ active' = active \ {r}

AddTaskStatus(t, row) ==
  /\ history' = [history EXCEPT ![t] = Append(@, [row EXCEPT !.status = "DONE"])]
  /\ sinceEnd' = [sinceEnd EXCEPT ![t] = 0]
ReplaceHistory(t, row) ==
  /\ history' = [history EXCEPT ![t] = <<row>>]
  /\ sinceEnd' = [sinceEnd EXCEPT ![t] = 0]
AddHistory(t, row) ==
  /\ history' = [history EXCEPT ![t] = Append(@, row)]
  /\ sinceEnd' = [sinceEnd EXCEPT ![t] = 0]

(* The history row of a stopped execution keeps its id, session and tool      *)
(* calls.  The caller is recorded as the worker; nobody checks it claimed it. *)
HistoryWithoutTelemetry(r, w, report) ==
  [id |-> r.id, agent |-> r.agent, worker |-> w, session |-> None,
   toolCalls |-> 0, status |-> report[1], error |-> report[2]]
HistoryOf(r, w, report) ==
  [id |-> r.id, agent |-> r.agent, worker |-> w, session |-> r.session,
   toolCalls |-> r.toolCalls, status |-> report[1], error |-> report[2]]

(* stopTask: the active row becomes a history row.                            *)
Stop(w, r, report) ==
  /\ RemoveActive(r)
  /\ AddHistory(r.task, HistoryOf(r, w, report))
  /\ UNCHANGED <<tasks, queue, stats, lastId, detected>>

(* unclaimTask: only the claimer; the queue row comes back whatever became of *)
(* the task meanwhile.                                                        *)
Unclaim(w, r) ==
  /\ r.worker = w
  /\ RemoveActive(r)
  /\ stats' = {s \in stats : s.execution # r.id}
  /\ queue' = queue \union {r.task}
  /\ UNCHANGED <<tasks, history, sinceEnd, lastId, detected>>

Rewrite(r, new) ==
  /\ r \in active
  /\ active' = (active \ {r}) \union {new}
  /\ UNCHANGED <<tasks, queue, stats, history, sinceEnd, lastId, detected>>

(* updateRunnerSessionId: WHERE runner_session_id IS NULL, the first one wins. *)
UpdateRunnerSessionId(r, s) ==
  /\ r.session = None
  /\ Rewrite(r, [r EXCEPT !.session = s])

IncrementToolCallCount(r) ==
  /\ r.toolCalls < MaxToolCalls
  /\ Rewrite(r, [r EXCEPT !.toolCalls = @ + 1])

(* touchHeartbeat: by execution id, from any worker socket.                   *)
TouchHeartbeat(r) == Rewrite(r, [r EXCEPT !.silence = 0])

(* updateExecutionStats: by execution id, also after the execution is over.   *)
UpdateExecutionStats(s) ==
  /\ s \in stats
  /\ stats' = (stats \ {s}) \union {[s EXCEPT !.reported = TRUE]}
  /\ UNCHANGED <<tasks, queue, active, history, sinceEnd, lastId, detected>>

(***************************************************************************)
(* The stale-execution cron: one query, then one transaction per execution *)
(* found.  Overlapping scans only add to the ids still to be pruned; the    *)
(* order in which they are pruned is left open.                            *)
(***************************************************************************)
IsStale(r) == r.silence >= StaleAfter

FindStaleExecutions ==
  /\ \E r \in active : IsStale(r)
  /\ detected' = detected \union {r.id : r \in {x \in active : IsStale(x)}}
  /\ UNCHANGED tables

(* pruneExecutionById: a live task gets its snapshot back and a STALE record  *)
(* under a new id, without session or tool calls; the stats row stays behind. *)
PruneLive(r) ==
  /\ Live(r.task)
  /\ RemoveActive(r)
  /\ tasks' = [tasks EXCEPT ![r.task] = [@ EXCEPT !.status = r.before.status,
                                                  !.assignee = r.before.assignee,
                                                  !.tags = r.before.tags]]
  /\ lastId' = lastId + 1
  /\ AddHistory(r.task,
       [id |-> lastId + 1, agent |-> r.agent, worker |-> r.worker,
        session |-> None, toolCalls |-> 0, status |-> "STALE", error |-> None])

(* The task was deleted meanwhile: nothing is restored or recorded.           *)
KeepOrphan(r) ==
  /\ ~Live(r.task)
  /\ RemoveNothing(r)
  /\ UNCHANGED <<tasks, lastId, history, sinceEnd>>
PruneOrphan(r) ==
  /\ ~Live(r.task)
  /\ RemoveActive(r)
  /\ UNCHANGED <<tasks, lastId, history, sinceEnd>>

(* The row is found again by id; its age is not looked at again.              *)
Prune(r) ==
  /\ r.id \in detected
  /\ detected' = detected \ {r.id}
  /\ PruneLive(r) \/ PruneOrphan(r)
  /\ UNCHANGED <<queue, stats>>

(* An execution that is over when the scan reaches it: nothing to prune.      *)
SkipPruned(id) ==
  /\ id \in detected
  /\ \A r \in active : r.id # id
  /\ detected' = detected \ {id}
  /\ UNCHANGED tables

(* A transaction failed (the cron's catch drops the rest of the scan), or the *)
(* backend restarted: the tables survive, the scan does not.                  *)
AbandonScan ==
  /\ detected # {}
  /\ detected' = {}
  /\ UNCHANGED tables

(* Time passes for every row.                                                 *)
Tick ==
  /\ active' = {[r EXCEPT !.silence = IF @ < StaleAfter THEN @ + 1 ELSE @] :
                  r \in active}
  /\ sinceEnd' = [t \in Tasks |->
                    IF sinceEnd[t] < DelayCap THEN sinceEnd[t] + 1
                                              ELSE sinceEnd[t]]
  /\ UNCHANGED <<tasks, queue, stats, history, lastId, detected>>

StoreNext ==
  \/ \E w \in Workers, t \in Tasks : Claim(w, t)
  \/ \E w \in Workers, r \in active, report \in EndReports : Stop(w, r, report)
  \/ \E w \in Workers, r \in active : Unclaim(w, r)
  \/ \E r \in active, s \in Sessions : UpdateRunnerSessionId(r, s)
  \/ \E r \in active : IncrementToolCallCount(r)
  \/ \E r \in active : TouchHeartbeat(r)
  \/ \E s \in stats : UpdateExecutionStats(s)
  \/ FindStaleExecutions
  \/ \E r \in active : Prune(r)
  \/ \E id \in detected : SkipPruned(id)
  \/ AbandonScan
  \/ Tick

(***************************************************************************)
(* The environment: the queue populator and the task service.              *)
(***************************************************************************)
QueuePut(t) ==
  /\ queue' = queue \union {t}
  /\ UNCHANGED <<tasks, active, stats, history, sinceEnd, lastId, detected>>

QueueKeep(ts) ==
  /\ queue' = queue \intersect ts
  /\ UNCHANGED <<tasks, active, stats, history, sinceEnd, lastId, detected>>

EditTask(t, row) ==
  /\ row.life # "absent"
  /\ tasks' = [tasks EXCEPT ![t] = row]
  /\ UNCHANGED <<queue, active, stats, history, sinceEnd, lastId, detected>>

Environment ==
  \/ \E t \in Tasks : QueuePut(t)
  \/ \E ts \in SUBSET Tasks : QueueKeep(ts)
  \/ \E t \in Tasks, row \in TaskRow : EditTask(t, row)

StoreSpec == StoreInit /\ [][StoreNext \/ Environment]_storeVars

(* The query and the transactions of the cron run again and again; a pruning *)
(* transaction may fail, but not every time.                                 *)
StoreFairness ==
  /\ WF_storeVars(FindStaleExecutions)
  /\ \A t \in Tasks :
       SF_storeVars(\E r \in active : r.task = t /\ Prune(r))

(***************************************************************************)
(* Properties.                                                             *)
(***************************************************************************)
TypeOK ==
  /\ tasks \in [Tasks -> TaskRow]
  /\ queue \subseteq Tasks
  /\ active \subseteq ActiveRow
  /\ stats \subseteq StatsRow
  /\ history \in [Tasks -> Seq(HistoryRow)]
  /\ sinceEnd \in [Tasks -> 0 .. DelayCap]
  /\ lastId \in Nat
  /\ detected \subseteq Nat

(* A task is worked on by one execution at a time, and no two active rows    *)
(* share an id, so stop, unclaim, heartbeat and prune by id mean one row.    *)
OneRunPerTask ==
  \A r, q \in active : r.task = q.task \/ r.id = q.id => r = q

(* An execution ends at most once: its id is never both active and in the    *)
(* history, and never twice in the history, whoever ends it (stop by a slow   *)
(* worker, the prune of a scan that found it earlier).                        *)
EndsOnce ==
  /\ \A r \in active, t \in Tasks :
       \A i \in DOMAIN history[t] : history[t][i].id # r.id
  /\ \A t, u \in Tasks : \A i \in DOMAIN history[t], j \in DOMAIN history[u] :
       history[t][i].id = history[u][j].id => t = u /\ i = j

(* Every id in the tables was generated, from 1 on, so the next one is fresh. *)
IdsIssued ==
  /\ \A r \in active : 0 < r.id /\ r.id <= lastId
  /\ \A t \in Tasks : \A i \in DOMAIN history[t] : history[t][i].id <= lastId

(* The stats row created by the claim follows its execution into the history: *)
(* a worker's late updateExecutionStats after its stop still finds it, and     *)
(* the stats an unclaim deleted are never those of a recorded execution.       *)
StatsFollowRun ==
  /\ \A r \in active : \E s \in stats : s.execution = r.id
  /\ \A t \in Tasks : \A i \in DOMAIN history[t] :
       history[t][i].status # "STALE" =>
         \E s \in stats : s.execution = history[t][i].id

(* The audit trail: a step only ever adds to a task's history, and what it    *)
(* adds ends an execution of that very task ("append-only conceptually",      *)
(* ARCHITECTURE.md).                                                          *)
HistoryIsAuditTrail ==
  [][\A t \in Tasks :
       history'[t] # history[t] =>
         /\ Len(history'[t]) = Len(history[t]) + 1
         /\ \A i \in DOMAIN history[t] : history'[t][i] = history[t][i]
         /\ \E r \in active : r.task = t /\ r \notin active']_storeVars

(* Telemetry survives the handoff: as long as an execution is active its      *)
(* tool-call count only grows and its first session stays; when a worker ends *)
(* it, the history row has both.                                              *)
TelemetryKept ==
  [][\A r \in active :
       \/ \E q \in active' :
            /\ q.id = r.id /\ q.toolCalls >= r.toolCalls
            /\ r.session # None => q.session = r.session
       \/ /\ \A q \in active' : q.id # r.id
          /\ \/ history'[r.task] = history[r.task]     \* unclaimed, or deleted
             \/ LET h == history'[r.task][Len(history'[r.task])]
                IN  \/ h.status = "STALE"
                    \/ h.session = r.session /\ h.toolCalls = r.toolCalls]_storeVars

(* "stale: will be picked up and fixed by the stale fixer" (README.md): an     *)
(* execution that fell silent does not stay so for ever; it is pruned, ended,  *)
(* given back or heard of again.                                               *)
StaleGetsFixed ==
  \A t \in Tasks :
    (\E r \in active : r.task = t /\ IsStale(r))
      ~> ~(\E r \in active : r.task = t /\ IsStale(r))

(***************************************************************************)
(* The tables implement the ledger.                                        *)
(***************************************************************************)
RunOf(t) ==
  IF HasActive(t) THEN (CHOOSE r \in active : r.task = t).id ELSE 0

RecordsOf(t) ==
  [i \in DOMAIN history[t] |->
     [run |-> history[t][i].id, outcome |-> history[t][i].status]]

Ledger == INSTANCE ExecutionLedger WITH
  Outcomes <- {"SUCCEEDED", "FAILED", "STALE", "CANCELLED"},
  NoRun <- 0,
  running <- [t \in Tasks |-> RunOf(t)],
  records <- [t \in Tasks |-> RecordsOf(t)],
  lastRun <- lastId

ImplementsLedger == Ledger!Spec
=============================================================================
