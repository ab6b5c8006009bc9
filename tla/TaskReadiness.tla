--------------------------- MODULE TaskReadiness ---------------------------
(***************************************************************************)
(* The readiness pipeline (executions/readiness) over the execution tables *)
(* of ActiveExecutions: task and agent edits, the events that reconcile    *)
(* one task, the cron that reconciles all of them, and the populator they   *)
(* share.  Every awaited query of the populator is a step of its own, so a  *)
(* decision may rest on rows that have changed since they were read.       *)
(***************************************************************************)
EXTENDS ActiveExecutions, FiniteSets, FiniteSetsExt

CONSTANTS
  EventSlots,    \* bound: the populateTask calls that may be in flight
  Sweeps,        \* bound: the populateAllTasks calls of the cron that may overlap
  AgentConfigs,  \* the configurations an agent may be given
  DependsOn,     \* DependsOn[t]: the dependencies t is created with, and may have
  MaxRequests,   \* bound: unresolved input requests per task
  CancelDelay, QuotaDelay, MaxQuotaDelay, \* shouldDelayTask's times, in ticks
  MaxAborts      \* bound: populator calls that fail or die with the process

ASSUME ReadinessAssumption ==
  /\ "DONE" \in Statuses
  /\ Sweeps \intersect EventSlots = {}
  /\ DependsOn \in [Tasks -> SUBSET Tasks]
  /\ {CancelDelay, QuotaDelay, MaxQuotaDelay, MaxRequests, MaxAborts} \subseteq Nat
  /\ CancelDelay <= DelayCap /\ MaxQuotaDelay <= DelayCap
  /\ \A c \in AgentConfigs :
       /\ c.on \in BOOLEAN
       /\ c.statusTriggers \subseteq Statuses /\ c.tagTriggers \subseteq Tags
       /\ c.limit \in Nat \union {None}

VARIABLES
  agents,     \* agents[a]: the agents row of a
  dependsOn,  \* task_dependencies
  requests,   \* requests[t]: unresolved input requests of t
  drafts,     \* createTask calls between their first and their last save
  jobs,       \* jobs[j]: the populator call in slot j
  aborts      \* populator calls that died so far

readinessVars == <<agents, dependsOn, requests, drafts, jobs, aborts>>
vars == <<storeVars, readinessVars>>
taskSide == <<queue, active, stats, history, sinceEnd, lastId, detected>>

Slots == EventSlots \union Sweeps

(* A task as the candidate query returns it.                                *)
Candidates == [task : Tasks, status : Statuses, assignee : Actors,
               tags : SUBSET Tags]

NoAgents == [a \in Agents |-> None]

(* What a populator call has in its variables: the candidates still to be    *)
(* reconciled, the current one, its agent and the age of its last execution   *)
(* as read, the ids listed at the start and the agents loaded with them.     *)
Idle == [stage |-> "idle", task |-> None, todo |-> {}, row |-> None,
         agent |-> None, waited |-> 0, listed |-> {}, known |-> NoAgents]

Jobs ==
  [stage : {"idle", "find", "load", "next", "agent", "count", "delay", "backoff",
            "put", "drop"},
   task : Tasks \union {None}, todo : SUBSET Candidates,
   row : Candidates \union {None}, agent : AgentConfigs \union {None},
   waited : 0 .. DelayCap, listed : SUBSET Tasks, known : [Agents -> AgentConfigs \union {None}]]

Init ==
  /\ StoreInit
  /\ agents \in [Agents -> AgentConfigs]
  /\ dependsOn = [t \in Tasks |-> {}]
  /\ requests = [t \in Tasks |-> 0]
  /\ drafts = {}
  /\ jobs = [j \in Slots |-> Idle]
  /\ aborts = 0

(***************************************************************************)
(* TaskEligibilityEventSourceService: created, updated, assigned, status    *)
(* and answered events start populateTask; a deletion does not, nor does a  *)
(* task whose dependency was done.                                          *)
(***************************************************************************)
StartPopulate(t) ==
  \E j \in EventSlots :
    /\ jobs[j].stage = "idle"
    /\ jobs' = [jobs EXCEPT ![j] = [Idle EXCEPT !.stage = "find", !.task = t]]

(***************************************************************************)
(* TasksService.  Each edit is its save and its event; the rows an edit     *)
(* loads first are its caller's business here.                             *)
(***************************************************************************)
SetTask(t, row) ==
  /\ tasks' = [tasks EXCEPT ![t] = row]
  /\ UNCHANGED taskSide

(* createTask inserts the row, then saves its tags, then its dependencies.   *)
InsertTask(t, a) ==
  /\ tasks[t].life = "absent"
  /\ SetTask(t, [life |-> "live", status |-> "NOT_STARTED", assignee |-> a,
                 tags |-> {}])
  /\ drafts' = drafts \union {t}
  /\ UNCHANGED <<agents, dependsOn, requests, jobs, aborts>>

TagDraft(t, tags) ==
  /\ t \in drafts /\ Live(t)
  /\ tasks[t].tags = {}
  /\ SetTask(t, [tasks[t] EXCEPT !.tags = tags])
  /\ UNCHANGED readinessVars

LinkDraft(t) ==
  /\ t \in drafts /\ Live(t)
  /\ drafts' = drafts \ {t}
  /\ \A d \in DependsOn[t] : Live(d)
  /\ dependsOn' = [dependsOn EXCEPT ![t] = DependsOn[t]]
  /\ StartPopulate(t)
  /\ UNCHANGED <<storeVars, agents, requests, aborts>>

(* A dependency was not found or the process died: the row stays as it is.   *)
DropDraft(t) ==
  /\ t \in drafts
  /\ drafts' = drafts \ {t}
  /\ UNCHANGED <<storeVars, agents, dependsOn, requests, jobs, aborts>>

ChangeStatus(t, s) ==
  /\ Live(t)
  /\ s = "IN_PROGRESS" => tasks[t].assignee # None
  /\ SetTask(t, [tasks[t] EXCEPT !.status = s])
  /\ StartPopulate(t)
  /\ UNCHANGED <<agents, dependsOn, requests, drafts, aborts>>

AssignTask(t, a) ==
  /\ Live(t)
  /\ tasks[t].assignee # a
  /\ SetTask(t, [tasks[t] EXCEPT !.assignee = a])
  /\ StartPopulate(t)
  /\ UNCHANGED <<agents, dependsOn, requests, drafts, aborts>>

(* updateTask: any of assignee, tags and dependencies (of those bounded by    *)
(* DependsOn), in one save.                                                  *)
UpdateTask(t, a, tags, ds) ==
  /\ Live(t)
  /\ \A d \in ds : Live(d)
  /\ SetTask(t, [tasks[t] EXCEPT !.assignee = a, !.tags = tags])
  /\ dependsOn' = [dependsOn EXCEPT ![t] = ds]
  /\ StartPopulate(t)
  /\ UNCHANGED <<agents, requests, drafts, aborts>>

(* addTagToTask and removeTagFromTask.                                       *)
ChangeTag(t, g) ==
  /\ Live(t)
  /\ \/ SetTask(t, [tasks[t] EXCEPT !.tags = @ \union {g}])
     \/ SetTask(t, [tasks[t] EXCEPT !.tags = @ \ {g}])
  /\ StartPopulate(t)
  /\ UNCHANGED <<agents, dependsOn, requests, drafts, aborts>>

DeleteForGood(t) ==
  /\ Live(t)
  /\ SetTask(t, AbsentTask)
  /\ UNCHANGED readinessVars
DeleteTask(t) ==
  /\ Live(t)
  /\ SetTask(t, [tasks[t] EXCEPT !.life = "deleted"])
  /\ UNCHANGED readinessVars

CreateInputRequest(t) ==
  /\ Live(t)
  /\ requests[t] < MaxRequests
  /\ requests' = [requests EXCEPT ![t] = @ + 1]
  /\ StartPopulate(t)
  /\ UNCHANGED <<storeVars, agents, dependsOn, drafts, aborts>>

AnswerAnyRequest(t) ==
  /\ requests' = [requests EXCEPT ![t] = @ - 1]
  /\ StartPopulate(t)
  /\ UNCHANGED <<storeVars, agents, dependsOn, drafts, aborts>>
AnswerInputRequest(t) ==
  /\ requests[t] > 0
  /\ requests' = [requests EXCEPT ![t] = @ - 1]
  /\ StartPopulate(t)
  /\ UNCHANGED <<storeVars, agents, dependsOn, drafts, aborts>>

(* patchAgent and deleteAgent: no task event follows.                        *)
PatchAgent(a, c) ==
  /\ agents' = [agents EXCEPT ![a] = c]
  /\ UNCHANGED <<storeVars, dependsOn, requests, drafts, jobs, aborts>>

(***************************************************************************)
(* ReadinessCandidateRepository.                                           *)
(***************************************************************************)
IsCandidate(t) ==
  /\ Live(t)
  /\ tasks[t].status # "DONE"
  /\ tasks[t].assignee # None
  /\ ~HasActive(t)
  /\ \A d \in dependsOn[t] : Live(d) => tasks[d].status = "DONE"
  /\ requests[t] = 0

CandidateRow(t) ==
  [task |-> t, status |-> tasks[t].status, assignee |-> tasks[t].assignee,
   tags |-> tasks[t].tags]

ActiveCount(a) == Cardinality({r \in active : r.agent = a})

(***************************************************************************)
(* The rules of shouldQueueTask, as functions of what was read.             *)
(***************************************************************************)
Triggers(c, row) ==
  /\ c # None /\ c.on
  /\ row.status \in c.statusTriggers
  /\ c.tagTriggers \subseteq row.tags

BelowLimit(c, count) == c.limit = None \/ count < c.limit

IsQuotaError(h) == h.status = "FAILED" /\ h.error = "OUT_OF_QUOTA"

(* countConsecutiveQuotaErrors: the quota errors after the last other row.   *)
QuotaErrors(t) ==
  LET others == {i \in DOMAIN history[t] : ~IsQuotaError(history[t][i])}
  IN  Len(history[t]) - (IF others = {} THEN 0 ELSE Max(others))

(* shouldDelayTask, for an execution that ended age ticks ago.                *)
LastCancelled(t) ==
  history[t] # <<>> /\ history[t][Len(history[t])].status = "CANCELLED"
LastOutOfQuota(t) ==
  history[t] # <<>> /\ IsQuotaError(history[t][Len(history[t])])

BackedOff(t, age) == age < Min({QuotaDelay * QuotaErrors(t), MaxQuotaDelay})

MustWait(t) ==
  \/ LastCancelled(t) /\ sinceEnd[t] < CancelDelay
  \/ LastOutOfQuota(t) /\ BackedOff(t, sinceEnd[t])

(***************************************************************************)
(* TaskExecutionQueuePopulatorService.                                     *)
(***************************************************************************)
Advance(j, job) ==
  /\ jobs' = [jobs EXCEPT ![j] = job]
  /\ UNCHANGED <<agents, dependsOn, requests, drafts, aborts>>

FindOrReturn(j) ==
  /\ jobs[j].stage = "find"
  /\ LET t == jobs[j].task
     IN  IF IsCandidate(t)
           THEN Advance(j, [jobs[j] EXCEPT !.stage = "next",
                                           !.todo = {CandidateRow(t)}])
           ELSE Advance(j, Idle)
  /\ UNCHANGED storeVars

(* populateTask reads its one candidate; a task that is none leaves the queue. *)
FindCandidate(j) ==
  /\ jobs[j].stage = "find"
  /\ LET t == jobs[j].task
     IN  IF IsCandidate(t)
           THEN Advance(j, [jobs[j] EXCEPT !.stage = "next",
                                           !.todo = {CandidateRow(t)}])
           ELSE Advance(j, [jobs[j] EXCEPT !.stage = "drop"])
  /\ UNCHANGED storeVars

(* The cron fires (populateAllTasks), even if an earlier sweep still runs: one *)
(* query lists all the candidates,                                           *)
ListCandidates(j) ==
  /\ jobs[j].stage = "idle"
  /\ LET listed == {t \in Tasks : IsCandidate(t)}
     IN  Advance(j, [Idle EXCEPT !.stage = "load", !.listed = listed,
                                 !.todo = {CandidateRow(t) : t \in listed}])
  /\ UNCHANGED storeVars

(* ... a second one loads the active agents of their assignees.               *)
LoadAgents(j) ==
  /\ jobs[j].stage = "load"
  /\ LET wanted == {row.assignee : row \in jobs[j].todo}
     IN  Advance(j,
           [jobs[j] EXCEPT
              !.stage = "next",
              !.known = [a \in Agents |-> IF a \in wanted /\ agents[a].on
                                            THEN agents[a] ELSE None]])
  /\ UNCHANGED storeVars

(* shouldQueueTask up to its first query: an agent that was loaded is judged  *)
(* at once, any other is looked up.                                           *)
Judge(job, row, c) ==
  LET wanted == Triggers(c, row)
  IN  [job EXCEPT !.todo = @ \ {row}, !.task = row.task,
                  !.row = IF wanted THEN row ELSE None,
                  !.agent = IF wanted THEN c ELSE None,
                  !.stage = IF wanted THEN "count" ELSE "drop"]

PickTask(j) ==
  /\ jobs[j].stage = "next"
  /\ \E row \in jobs[j].todo :
       IF row.assignee \in Agents /\ jobs[j].known[row.assignee] # None
         THEN Advance(j, Judge(jobs[j], row, jobs[j].known[row.assignee]))
         ELSE Advance(j, [jobs[j] EXCEPT !.stage = "agent", !.row = row])
  /\ UNCHANGED storeVars

(* getActiveAgentsByActorIds; a person has no agent.                          *)
ReadAgent(j) ==
  /\ jobs[j].stage = "agent"
  /\ LET row == jobs[j].row
         c == IF row.assignee \in Agents /\ agents[row.assignee].on
                THEN agents[row.assignee] ELSE None
     IN  Advance(j, Judge(jobs[j], row, c))
  /\ UNCHANGED storeVars

CountExecutions(j) ==
  /\ jobs[j].stage = "count"
  /\ LET free == BelowLimit(jobs[j].agent, ActiveCount(jobs[j].row.assignee))
     IN  Advance(j, [jobs[j] EXCEPT !.stage = IF free THEN "delay" ELSE "drop",
                                    !.row = None, !.agent = None])
  /\ UNCHANGED storeVars

IgnoreHistory(j) ==
  /\ jobs[j].stage = "delay"
  /\ Advance(j, [jobs[j] EXCEPT !.stage = "put"])
  /\ UNCHANGED storeVars

(* getLatestHistoryForTask: the age is taken here, ...                        *)
ReadHistory(j) ==
  /\ jobs[j].stage = "delay"
  /\ LET t == jobs[j].task
         wait == LastCancelled(t) /\ sinceEnd[t] < CancelDelay
     IN  IF LastOutOfQuota(t)
           THEN Advance(j, [jobs[j] EXCEPT !.stage = "backoff",
                                           !.waited = sinceEnd[t]])
           ELSE Advance(j, [jobs[j] EXCEPT !.stage = IF wait THEN "drop" ELSE "put"])
  /\ UNCHANGED storeVars

(* ... and the errors are counted by a second query.                          *)
CountQuotaErrors(j) ==
  /\ jobs[j].stage = "backoff"
  /\ LET wait == BackedOff(jobs[j].task, jobs[j].waited)
     IN  Advance(j, [jobs[j] EXCEPT !.stage = IF wait THEN "drop" ELSE "put",
                                    !.waited = 0])
  /\ UNCHANGED storeVars

(* The row is done with; its call goes on to the next one, or ends.           *)
AfterRow(j) ==
  IF j \in Sweeps
    THEN [jobs[j] EXCEPT !.stage = "next", !.task = None]
    ELSE Idle

PutQueueEntry(j) ==
  /\ jobs[j].stage = "put"
  /\ QueuePut(jobs[j].task)
  /\ Advance(j, AfterRow(j))

DeleteQueueEntry(j) ==
  /\ jobs[j].stage = "drop"
  /\ QueueKeep(Tasks \ {jobs[j].task})
  /\ Advance(j, AfterRow(j))

(* All rows reconciled: every task not listed at the start leaves the queue.  *)
TrimListed(j) ==
  /\ jobs[j].stage = "next" /\ jobs[j].todo = {}
  /\ QueueKeep(Tasks \ jobs[j].listed)
  /\ Advance(j, Idle)
TrimUnlessEmpty(j) ==
  /\ jobs[j].stage = "next" /\ jobs[j].todo = {}
  /\ QueueKeep(IF jobs[j].listed = {} THEN Tasks ELSE jobs[j].listed)
  /\ Advance(j, Idle)
TrimQueue(j) ==
  /\ jobs[j].stage = "next" /\ jobs[j].todo = {}
  /\ QueueKeep(jobs[j].listed)
  /\ Advance(j, Idle)

(* A query fails, or the backend restarts: the call is gone, and no retry.    *)
AbortJob(j) ==
  /\ jobs[j].stage # "idle"
  /\ aborts < MaxAborts
  /\ aborts' = aborts + 1
  /\ jobs' = [jobs EXCEPT ![j] = Idle]
  /\ UNCHANGED <<storeVars, agents, dependsOn, requests, drafts>>

SweepStep(j) ==
  \/ LoadAgents(j)
  \/ PickTask(j) \/ ReadAgent(j) \/ CountExecutions(j)
  \/ ReadHistory(j) \/ CountQuotaErrors(j)
  \/ PutQueueEntry(j) \/ DeleteQueueEntry(j) \/ TrimQueue(j)

EventStep(j) ==
  \/ FindCandidate(j)
  \/ PickTask(j) \/ ReadAgent(j) \/ CountExecutions(j)
  \/ ReadHistory(j) \/ CountQuotaErrors(j)
  \/ PutQueueEntry(j) \/ DeleteQueueEntry(j)

TaskEdit ==
  \E t \in Tasks :
    \/ \E a \in Actors \union {None} : InsertTask(t, a) \/ AssignTask(t, a)
    \/ \E tags \in (SUBSET Tags) \ {{}} : TagDraft(t, tags)
    \/ LinkDraft(t) \/ DropDraft(t)
    \/ \E a \in Actors \union {None}, tags \in SUBSET Tags,
         ds \in SUBSET DependsOn[t] : UpdateTask(t, a, tags, ds)
    \/ \E s \in Statuses : ChangeStatus(t, s)
    \/ \E g \in Tags : ChangeTag(t, g)
    \/ DeleteTask(t)
    \/ CreateInputRequest(t) \/ AnswerInputRequest(t)

Others ==
  \/ StoreNext /\ UNCHANGED readinessVars
  \/ TaskEdit
  \/ \E a \in Agents, c \in AgentConfigs : PatchAgent(a, c)
  \/ \E j \in EventSlots : EventStep(j)
  \/ \E j \in Slots : AbortJob(j)

Next ==
  \/ Others
  \/ \E j \in Sweeps : ListCandidates(j) \/ SweepStep(j)

Spec == Init /\ [][Next]_vars

(* The cron fires every minute, and an awaited query is answered.             *)
Fairness ==
  /\ WF_vars(\E j \in Sweeps : ListCandidates(j))
  /\ \A j \in Sweeps : WF_vars(SweepStep(j))
  /\ \A j \in EventSlots : WF_vars(EventStep(j))

FairSpec == Spec /\ Fairness

(***************************************************************************)
(* Properties.                                                             *)
(***************************************************************************)
ReadinessTypeOK ==
  /\ agents \in [Agents -> AgentConfigs]
  /\ dependsOn \in [Tasks -> SUBSET Tasks]
  /\ requests \in [Tasks -> 0 .. MaxRequests]
  /\ drafts \subseteq Tasks
  /\ jobs \in [Slots -> Jobs]
  /\ aborts \in 0 .. MaxAborts

(* The rules of ARCHITECTURE.md ("Current Readiness Rules") and the waiting   *)
(* times, read off one state.                                                 *)
Ready(t) ==
  /\ IsCandidate(t)
  /\ tasks[t].assignee \in Agents
  /\ LET c == agents[tasks[t].assignee]
     IN  Triggers(c, CandidateRow(t)) /\ BelowLimit(c, ActiveCount(tasks[t].assignee))
  /\ ~MustWait(t)

(* The queue catches up with a task that has become ready, and keeps it, even *)
(* if the events were lost and calls with an older view are still in flight.  *)
ReadyGetsQueued ==
  \A t \in Tasks : <>[]Ready(t) => <>[](t \in queue)

(* The queue catches up with a task that stopped being a candidate: done,     *)
(* deleted, unassigned, running, blocked or waiting for an answer.            *)
NonCandidatesLeave ==
  \A t \in Tasks : <>[](~IsCandidate(t)) => <>[](t \notin queue)

(* A task's delay grows with each quota error in a row, and starts anew with  *)
(* any other end of an execution.                                            *)
QuotaErrorsAddUp ==
  [][\A t \in Tasks :
       history'[t] # history[t] =>
         QuotaErrors(t)' = IF LastOutOfQuota(t)' THEN QuotaErrors(t) + 1 ELSE 0]_vars

(* The readiness pipeline touches the execution tables only as the            *)
(* environment of ActiveExecutions may.                                       *)
ImplementsStore == StoreSpec

(* "Presence means the task is ready to be picked up": what a worker claims   *)
(* is a candidate at that moment.                                             *)
ClaimedWasCandidate ==
  [][\A t \in Tasks : (\E w \in Workers : Claim(w, t)) => IsCandidate(t)]_vars
=============================================================================
