------------------------ MODULE TaskReadinessProofs ------------------------
(***************************************************************************)
(* For any number of tasks, agents and populator calls: the readiness      *)
(* pipeline and the task service change the tables only as the environment *)
(* of ActiveExecutions may, so that what is proved of the tables holds with *)
(* their real writers; and a populator call nothing interferes with leaves   *)
(* in the queue what the rules say (QuietCalls).                            *)
(***************************************************************************)
EXTENDS QuietCalls, ActiveExecutionsProofs, WellFoundedInduction

(* A call that is about to read or write for a task has one in its variables, *)
(* and a call that looks up an agent has the candidate's row.                 *)
SoundJob ==
  {job \in Jobs :
     /\ job.stage \in {"find", "count", "delay", "backoff", "put"} => job.task \in Tasks
     /\ job.stage = "agent" => job.row \in Candidates}

JobsSound == \A j \in Slots : jobs[j] \in SoundJob

(* The inductive invariant.  The types alone would allow a call to put a      *)
(* queue row for no task at all.                                              *)
RInv == IInv /\ ReadinessTypeOK /\ JobsSound

(* A call that goes on with sound variables.                                  *)
LEMMA AdvanceSound ==
  ASSUME ReadinessTypeOK, JobsSound, NEW j \in Slots, NEW job \in SoundJob,
         Advance(j, job)
  PROVE  ReadinessTypeOK' /\ JobsSound'
<1>1. job \in Jobs /\ jobs' = [jobs EXCEPT ![j] = job]
      /\ UNCHANGED <<agents, dependsOn, requests, drafts, aborts>>
  BY DEF SoundJob, Advance
<1>. QED
  BY <1>1 DEF ReadinessTypeOK, JobsSound

(* A call that has ended.                                                     *)
LEMMA IdleSound == Idle \in SoundJob
BY ConstantsAssumption
   DEF Idle, NoAgents, SoundJob, Jobs, ConstantsAssumption

(* A call that has been started for a task.                                   *)
LEMMA StartSound ==
  ASSUME ReadinessTypeOK, JobsSound, NEW t \in Tasks, StartPopulate(t)
  PROVE  jobs' \in [Slots -> Jobs] /\ JobsSound'
<1>. DEFINE started == [Idle EXCEPT !.stage = "find", !.task = t]
<1>1. started \in SoundJob
  BY IdleSound DEF SoundJob, Jobs
<1>2. \E j \in Slots : jobs' = [jobs EXCEPT ![j] = started]
  BY DEF StartPopulate, Slots
<1>. HIDE DEF started
<1>. QED
  BY <1>1, <1>2 DEF ReadinessTypeOK, JobsSound, SoundJob

(* The candidate query returns typed rows.                                    *)
LEMMA CandidateRowTyped ==
  ASSUME TypeOK, NEW t \in Tasks, IsCandidate(t)
  PROVE  CandidateRow(t) \in Candidates
BY DEF TypeOK, TaskRow, IsCandidate, CandidateRow, Candidates

(* Rules that are judged at once, or that end in a put or a delete, leave     *)
(* the task of the row in the call.                                           *)
LEMMA JudgeSound ==
  ASSUME NEW job \in Jobs, NEW row \in Candidates,
         NEW c \in AgentConfigs \union {None}
  PROVE  Judge(job, row, c) \in SoundJob
<1>1. row.task \in Tasks
  BY DEF Candidates
<1>. QED
  BY <1>1 DEF Judge, SoundJob, Jobs

(* The populator's steps between two queries.                                 *)
LEMMA PopulatorStep ==
  ASSUME RInv, NEW j \in Slots,
         \/ FindCandidate(j) \/ PickTask(j) \/ ReadAgent(j) \/ CountExecutions(j)
         \/ ReadHistory(j) \/ CountQuotaErrors(j)
         \/ PutQueueEntry(j) \/ DeleteQueueEntry(j)
  PROVE  /\ ReadinessTypeOK' /\ JobsSound'
         /\ [StoreNext \/ Environment]_storeVars
<1>. DEFINE job == jobs[j]
<1>1. job \in Jobs /\ job \in SoundJob
  BY DEF RInv, JobsSound, SoundJob
<1>2. TypeOK /\ ReadinessTypeOK /\ JobsSound
  BY DEF RInv, IInv
<1>3. CASE FindCandidate(j)
  <2>1. job.stage = "find" /\ job.task \in Tasks /\ UNCHANGED storeVars
    BY <1>1, <1>3 DEF FindCandidate, SoundJob
  <2>2. CASE IsCandidate(job.task)
    <3>. DEFINE next == [job EXCEPT !.stage = "next", !.todo = {CandidateRow(job.task)}]
    <3>1. CandidateRow(job.task) \in Candidates
      BY <1>2, <2>1, <2>2, CandidateRowTyped
    <3>2. next \in SoundJob
      BY <1>1, <3>1 DEF SoundJob, Jobs
    <3>3. Advance(j, next)
      BY <1>3, <2>2 DEF FindCandidate
    <3>. QED
      BY <1>2, <2>1, <3>2, <3>3, AdvanceSound
  <2>3. CASE ~IsCandidate(job.task)
    <3>1. [job EXCEPT !.stage = "drop"] \in SoundJob
      BY <1>1 DEF SoundJob, Jobs
    <3>2. Advance(j, [job EXCEPT !.stage = "drop"])
      BY <1>3, <2>3 DEF FindCandidate
    <3>. QED
      BY <1>2, <2>1, <3>1, <3>2, AdvanceSound
  <2>. QED
    BY <2>2, <2>3
<1>4. CASE PickTask(j)
  <2>1. PICK row \in job.todo :
          IF row.assignee \in Agents /\ job.known[row.assignee] # None
            THEN Advance(j, Judge(job, row, job.known[row.assignee]))
            ELSE Advance(j, [job EXCEPT !.stage = "agent", !.row = row])
    BY <1>4 DEF PickTask
  <2>2. row \in Candidates /\ UNCHANGED storeVars
    BY <1>1, <1>4 DEF Jobs, PickTask
  <2>3. CASE row.assignee \in Agents /\ job.known[row.assignee] # None
    <3>1. job.known[row.assignee] \in AgentConfigs \union {None}
      BY <1>1, <2>3 DEF Jobs
    <3>2. Judge(job, row, job.known[row.assignee]) \in SoundJob
      BY <1>1, <2>2, <3>1, JudgeSound
    <3>. QED
      BY <1>2, <2>1, <2>2, <2>3, <3>2, AdvanceSound
  <2>4. CASE ~(row.assignee \in Agents /\ job.known[row.assignee] # None)
    <3>1. [job EXCEPT !.stage = "agent", !.row = row] \in SoundJob
      BY <1>1, <2>2 DEF SoundJob, Jobs
    <3>. QED
      BY <1>2, <2>1, <2>2, <2>4, <3>1, AdvanceSound
  <2>. QED
    BY <2>3, <2>4
<1>5. CASE ReadAgent(j)
  <2>. DEFINE c == IF job.row.assignee \in Agents /\ agents[job.row.assignee].on
                     THEN agents[job.row.assignee] ELSE None
  <2>1. job.row \in Candidates /\ UNCHANGED storeVars
    BY <1>1, <1>5 DEF ReadAgent, SoundJob
  <2>2. c \in AgentConfigs \union {None}
    BY <1>2 DEF ReadinessTypeOK
  <2>3. Advance(j, Judge(job, job.row, c))
    BY <1>5 DEF ReadAgent
  <2>. HIDE DEF c
  <2>4. Judge(job, job.row, c) \in SoundJob
    BY <1>1, <2>1, <2>2, JudgeSound
  <2>. QED
    BY <1>2, <2>1, <2>3, <2>4, AdvanceSound
<1>6. CASE CountExecutions(j) \/ CountQuotaErrors(j) \/ ReadHistory(j)
  <2>1. job.task \in Tasks /\ UNCHANGED storeVars
    BY <1>1, <1>6 DEF CountExecutions, CountQuotaErrors, ReadHistory, SoundJob
  <2>2. sinceEnd[job.task] \in 0 .. DelayCap /\ 0 \in 0 .. DelayCap
    BY <1>2, <2>1, ConstantsAssumption DEF TypeOK, ConstantsAssumption
  <2>3. \A s \in {"delay", "backoff", "put", "drop"} :
          /\ [job EXCEPT !.stage = s] \in SoundJob
          /\ [job EXCEPT !.stage = s, !.row = None, !.agent = None] \in SoundJob
          /\ [job EXCEPT !.stage = s, !.waited = sinceEnd[job.task]] \in SoundJob
          /\ [job EXCEPT !.stage = s, !.waited = 0] \in SoundJob
    BY <1>1, <2>1, <2>2 DEF SoundJob, Jobs
  <2>4. \E next \in SoundJob : Advance(j, next)
    BY <1>6, <2>3 DEF CountExecutions, CountQuotaErrors, ReadHistory
  <2>. QED
    BY <1>2, <2>1, <2>4, AdvanceSound
<1>7. AfterRow(j) \in SoundJob
  BY <1>1, IdleSound DEF AfterRow, SoundJob, Jobs
<1>8. CASE PutQueueEntry(j)
  <2>1. job.task \in Tasks
    BY <1>1, <1>8 DEF PutQueueEntry, SoundJob
  <2>. QED
    BY <1>2, <1>7, <1>8, <2>1, AdvanceSound DEF PutQueueEntry, Environment
<1>9. CASE DeleteQueueEntry(j)
  <2>1. Tasks \ {job.task} \in SUBSET Tasks
    OBVIOUS
  <2>. QED
    BY <1>2, <1>7, <1>9, <2>1, AdvanceSound DEF DeleteQueueEntry, Environment
<1>. QED
  BY <1>3, <1>4, <1>5, <1>6, <1>8, <1>9

(* The steps that only a sweep takes.                                         *)
LEMMA SweepOnlyStep ==
  ASSUME RInv, NEW j \in Sweeps, ListCandidates(j) \/ LoadAgents(j) \/ TrimQueue(j)
  PROVE  /\ ReadinessTypeOK' /\ JobsSound'
         /\ [StoreNext \/ Environment]_storeVars
<1>1. j \in Slots /\ TypeOK /\ ReadinessTypeOK /\ JobsSound
  BY DEF Slots, RInv, IInv
<1>2. jobs[j] \in SoundJob /\ jobs[j] \in Jobs
  BY <1>1 DEF JobsSound, SoundJob
<1>3. CASE ListCandidates(j)
  <2>. DEFINE found == {t \in Tasks : IsCandidate(t)}
              rows == {CandidateRow(t) : t \in found}
              next == [Idle EXCEPT !.stage = "load", !.listed = found, !.todo = rows]
  <2>1. rows \subseteq Candidates /\ found \subseteq Tasks
    BY <1>1, CandidateRowTyped
  <2>2. Advance(j, next) /\ UNCHANGED storeVars
    BY <1>3 DEF ListCandidates
  <2>. HIDE DEF found, rows
  <2>3. next \in SoundJob
    BY <2>1, IdleSound DEF SoundJob, Jobs
  <2>. QED
    BY <1>1, <2>2, <2>3, AdvanceSound
<1>4. CASE LoadAgents(j)
  <2>. DEFINE wanted == {row.assignee : row \in jobs[j].todo}
              loaded == [a \in Agents |-> IF a \in wanted /\ agents[a].on
                                            THEN agents[a] ELSE None]
              next == [jobs[j] EXCEPT !.stage = "next", !.known = loaded]
  <2>1. Advance(j, next) /\ UNCHANGED storeVars
    BY <1>4 DEF LoadAgents
  <2>2. loaded \in [Agents -> AgentConfigs \union {None}]
    BY <1>1 DEF ReadinessTypeOK
  <2>. HIDE DEF loaded
  <2>3. next \in SoundJob
    BY <1>2, <2>2 DEF SoundJob, Jobs
  <2>. QED
    BY <1>1, <2>1, <2>3, AdvanceSound
<1>5. CASE TrimQueue(j)
  <2>1. jobs[j].listed \in SUBSET Tasks
    BY <1>2 DEF Jobs
  <2>. QED
    BY <1>1, <1>5, <2>1, IdleSound, AdvanceSound DEF TrimQueue, Environment
<1>. QED
  BY <1>3, <1>4, <1>5

(* A save of a task writes a typed row, and no row that is absent.            *)
LEMMA SavedRow ==
  ASSUME TypeOK, NEW t \in Tasks, NEW row \in TaskRow, row.life # "absent",
         SetTask(t, row)
  PROVE  Environment
BY DEF SetTask, taskSide, Environment, EditTask

(* The edits of the task service.                                             *)
LEMMA TaskEditStep ==
  ASSUME RInv, TaskEdit
  PROVE  /\ ReadinessTypeOK' /\ JobsSound'
         /\ [StoreNext \/ Environment]_storeVars
<1>1. TypeOK /\ ReadinessTypeOK /\ JobsSound
  BY DEF RInv, IInv
<1>2. PICK t \in Tasks :
        \/ \E a \in Actors \union {None} : InsertTask(t, a) \/ AssignTask(t, a)
        \/ \E tags \in (SUBSET Tags) \ {{}} : TagDraft(t, tags)
        \/ LinkDraft(t) \/ DropDraft(t)
        \/ \E a \in Actors \union {None}, tags \in SUBSET Tags,
             ds \in SUBSET DependsOn[t] : UpdateTask(t, a, tags, ds)
        \/ \E s \in Statuses : ChangeStatus(t, s)
        \/ \E g \in Tags : ChangeTag(t, g)
        \/ DeleteTask(t)
        \/ CreateInputRequest(t) \/ AnswerInputRequest(t)
  BY DEF TaskEdit
<1>3. tasks[t] \in TaskRow
  BY <1>1 DEF TypeOK
<1>4. DependsOn[t] \in SUBSET Tasks
  BY ReadinessAssumption DEF ReadinessAssumption
(* An edit that starts a call and otherwise keeps agents and aborts.          *)
<1>5. ASSUME StartPopulate(t), UNCHANGED <<agents, aborts>>,
             dependsOn' \in [Tasks -> SUBSET Tasks],
             requests' \in [Tasks -> 0 .. MaxRequests], drafts' \subseteq Tasks
      PROVE  ReadinessTypeOK' /\ JobsSound'
  BY <1>1, <1>5, StartSound DEF ReadinessTypeOK
(* A live row with some of its columns rewritten.                             *)
<1>6. ASSUME NEW s \in Statuses, NEW a \in Actors \union {None},
             NEW tags \in SUBSET Tags, Live(t)
      PROVE  /\ [tasks[t] EXCEPT !.status = s] \in TaskRow
             /\ [tasks[t] EXCEPT !.assignee = a] \in TaskRow
             /\ [tasks[t] EXCEPT !.tags = tags] \in TaskRow
             /\ [tasks[t] EXCEPT !.assignee = a, !.tags = tags] \in TaskRow
             /\ [tasks[t] EXCEPT !.status = s].life = "live"
             /\ [tasks[t] EXCEPT !.assignee = a].life = "live"
             /\ [tasks[t] EXCEPT !.tags = tags].life = "live"
             /\ [tasks[t] EXCEPT !.assignee = a, !.tags = tags].life = "live"
  BY <1>3, <1>6 DEF TaskRow, Live
<1>7. tasks[t].status \in Statuses /\ tasks[t].tags \in SUBSET Tags
      /\ tasks[t].assignee \in Actors \union {None}
  BY <1>3 DEF TaskRow
<1>8. ASSUME NEW a \in Actors \union {None}, InsertTask(t, a)
      PROVE  /\ ReadinessTypeOK' /\ JobsSound' /\ Environment
  <2>. DEFINE row == [life |-> "live", status |-> "NOT_STARTED", assignee |-> a,
                      tags |-> {}]
  <2>1. row \in TaskRow /\ row.life # "absent"
    BY ConstantsAssumption DEF TaskRow, ConstantsAssumption
  <2>2. SetTask(t, row) /\ drafts' = drafts \union {t}
        /\ UNCHANGED <<agents, dependsOn, requests, jobs, aborts>>
    BY <1>8 DEF InsertTask
  <2>. HIDE DEF row
  <2>3. ReadinessTypeOK' /\ JobsSound'
    BY <1>1, <2>2 DEF ReadinessTypeOK, JobsSound
  <2>. QED
    BY <1>1, <2>1, <2>2, <2>3, SavedRow
<1>9. ASSUME NEW tags \in SUBSET Tags, TagDraft(t, tags)
      PROVE  /\ ReadinessTypeOK' /\ JobsSound' /\ Environment
  <2>1. SetTask(t, [tasks[t] EXCEPT !.tags = tags]) /\ Live(t)
        /\ UNCHANGED readinessVars
    BY <1>9 DEF TagDraft
  <2>2. ReadinessTypeOK' /\ JobsSound'
    BY <1>1, <2>1 DEF ReadinessTypeOK, JobsSound, readinessVars
  <2>. QED
    BY <1>1, <1>6, <1>7, <2>1, <2>2, SavedRow
<1>10. CASE LinkDraft(t)
  <2>1. StartPopulate(t) /\ UNCHANGED <<storeVars, agents, requests, aborts>>
        /\ drafts' = drafts \ {t}
        /\ dependsOn' = [dependsOn EXCEPT ![t] = DependsOn[t]]
    BY <1>10 DEF LinkDraft
  <2>2. dependsOn' \in [Tasks -> SUBSET Tasks] /\ drafts' \subseteq Tasks
        /\ requests' \in [Tasks -> 0 .. MaxRequests]
    BY <1>1, <1>4, <2>1 DEF ReadinessTypeOK
  <2>. QED
    BY <1>5, <2>1, <2>2
<1>11. CASE DropDraft(t)
  BY <1>1, <1>11 DEF DropDraft, ReadinessTypeOK, JobsSound
<1>12. ASSUME NEW s \in Statuses, ChangeStatus(t, s)
       PROVE  /\ ReadinessTypeOK' /\ JobsSound' /\ Environment
  <2>1. Live(t) /\ SetTask(t, [tasks[t] EXCEPT !.status = s])
        /\ StartPopulate(t) /\ UNCHANGED <<agents, dependsOn, requests, drafts, aborts>>
    BY <1>12 DEF ChangeStatus
  <2>2. ReadinessTypeOK' /\ JobsSound'
    BY <1>1, <1>5, <2>1 DEF ReadinessTypeOK
  <2>. QED
    BY <1>1, <1>6, <1>7, <2>1, <2>2, SavedRow
<1>13. ASSUME NEW a \in Actors \union {None}, AssignTask(t, a)
       PROVE  /\ ReadinessTypeOK' /\ JobsSound' /\ Environment
  <2>1. Live(t) /\ SetTask(t, [tasks[t] EXCEPT !.assignee = a])
        /\ StartPopulate(t) /\ UNCHANGED <<agents, dependsOn, requests, drafts, aborts>>
    BY <1>13 DEF AssignTask
  <2>2. ReadinessTypeOK' /\ JobsSound'
    BY <1>1, <1>5, <2>1 DEF ReadinessTypeOK
  <2>. QED
    BY <1>1, <1>6, <1>7, <2>1, <2>2, SavedRow
<1>14. ASSUME NEW a \in Actors \union {None}, NEW tags \in SUBSET Tags,
              NEW ds \in SUBSET DependsOn[t], UpdateTask(t, a, tags, ds)
       PROVE  /\ ReadinessTypeOK' /\ JobsSound' /\ Environment
  <2>1. Live(t) /\ SetTask(t, [tasks[t] EXCEPT !.assignee = a, !.tags = tags])
        /\ dependsOn' = [dependsOn EXCEPT ![t] = ds]
        /\ StartPopulate(t) /\ UNCHANGED <<agents, requests, drafts, aborts>>
    BY <1>14 DEF UpdateTask
  <2>2. dependsOn' \in [Tasks -> SUBSET Tasks]
    BY <1>1, <1>4, <2>1 DEF ReadinessTypeOK
  <2>3. ReadinessTypeOK' /\ JobsSound'
    BY <1>1, <1>5, <2>1, <2>2 DEF ReadinessTypeOK
  <2>. QED
    BY <1>1, <1>6, <1>7, <2>1, <2>3, SavedRow
<1>15. ASSUME NEW g \in Tags, ChangeTag(t, g)
       PROVE  /\ ReadinessTypeOK' /\ JobsSound' /\ Environment
  <2>1. PICK tags \in SUBSET Tags : SetTask(t, [tasks[t] EXCEPT !.tags = tags])
    <3>1. tasks[t].tags \union {g} \in SUBSET Tags /\ tasks[t].tags \ {g} \in SUBSET Tags
      BY <1>7
    <3>. QED
      BY <1>15, <3>1 DEF ChangeTag
  <2>2. Live(t) /\ StartPopulate(t)
        /\ UNCHANGED <<agents, dependsOn, requests, drafts, aborts>>
    BY <1>15 DEF ChangeTag
  <2>3. ReadinessTypeOK' /\ JobsSound'
    BY <1>1, <1>5, <2>2 DEF ReadinessTypeOK
  <2>. QED
    BY <1>1, <1>6, <1>7, <2>1, <2>2, <2>3, SavedRow
<1>16. CASE DeleteTask(t)
  <2>. DEFINE row == [tasks[t] EXCEPT !.life = "deleted"]
  <2>1. row \in TaskRow /\ row.life # "absent"
    BY <1>3 DEF TaskRow
  <2>2. SetTask(t, row) /\ UNCHANGED readinessVars
    BY <1>16 DEF DeleteTask
  <2>3. ReadinessTypeOK' /\ JobsSound'
    BY <1>1, <2>2 DEF ReadinessTypeOK, JobsSound, readinessVars
  <2>. HIDE DEF row
  <2>. QED
    BY <1>1, <2>1, <2>2, <2>3, SavedRow
<1>17. CASE CreateInputRequest(t) \/ AnswerInputRequest(t)
  <2>1. StartPopulate(t) /\ UNCHANGED <<storeVars, agents, dependsOn, drafts, aborts>>
    BY <1>17 DEF CreateInputRequest, AnswerInputRequest
  <2>2. requests[t] \in 0 .. MaxRequests /\ MaxRequests \in Nat
    BY <1>1, ReadinessAssumption DEF ReadinessTypeOK, ReadinessAssumption
  <2>3. requests' \in [Tasks -> 0 .. MaxRequests]
    BY <1>1, <1>17, <2>2
       DEF ReadinessTypeOK, CreateInputRequest, AnswerInputRequest
  <2>. QED
    BY <1>1, <1>5, <2>1, <2>3 DEF ReadinessTypeOK
<1>. QED
  BY <1>2, <1>8, <1>9, <1>10, <1>11, <1>12, <1>13, <1>14, <1>15, <1>16, <1>17
     DEF LinkDraft, DropDraft

(* Every step keeps types and calls sound, and is a step of the tables or of  *)
(* their environment, or leaves them alone.                                   *)
LEMMA PipelineStep ==
  ASSUME RInv, [Next]_vars
  PROVE  /\ ReadinessTypeOK' /\ JobsSound'
         /\ [StoreNext \/ Environment]_storeVars
<1>1. ReadinessTypeOK /\ JobsSound
  BY DEF RInv
<1>2. CASE (StoreNext \/ UNCHANGED storeVars) /\ UNCHANGED readinessVars
  BY <1>1, <1>2 DEF readinessVars, ReadinessTypeOK, JobsSound
<1>3. CASE TaskEdit
  BY <1>3, TaskEditStep
<1>4. CASE \E a \in Agents, c \in AgentConfigs : PatchAgent(a, c)
  BY <1>1, <1>4 DEF PatchAgent, ReadinessTypeOK, JobsSound
<1>5. ASSUME NEW j \in Slots, AbortJob(j)
      PROVE  ReadinessTypeOK' /\ JobsSound' /\ UNCHANGED storeVars
  <2>1. aborts' \in 0 .. MaxAborts
    BY <1>1, <1>5, ReadinessAssumption
       DEF AbortJob, ReadinessTypeOK, ReadinessAssumption
  <2>2. Idle \in SoundJob /\ Idle \in Jobs
    BY IdleSound DEF SoundJob
  <2>. QED
    BY <1>1, <1>5, <2>1, <2>2 DEF AbortJob, ReadinessTypeOK, JobsSound
<1>6. CASE \E j \in EventSlots : EventStep(j)
  BY <1>6, PopulatorStep DEF EventStep, Slots
<1>7. ASSUME NEW j \in Sweeps, ListCandidates(j) \/ SweepStep(j)
      PROVE  ReadinessTypeOK' /\ JobsSound' /\ [StoreNext \/ Environment]_storeVars
  <2>1. j \in Slots
    BY DEF Slots
  <2>. QED
    BY <1>7, <2>1, PopulatorStep, SweepOnlyStep DEF SweepStep
<1>8. CASE UNCHANGED vars
  BY <1>2, <1>8 DEF vars
<1>. QED
  BY <1>2, <1>3, <1>4, <1>5, <1>6, <1>7, <1>8 DEF Next, Others

(* No task, no call.                                                          *)
LEMMA PipelineInitial == Init => RInv
<1>. SUFFICES ASSUME Init PROVE RInv
  OBVIOUS
<1>1. IInv
  BY InitIInv DEF Init
<1>2. jobs = [j \in Slots |-> Idle] /\ Idle \in SoundJob /\ Idle \in Jobs
  BY IdleSound DEF Init, SoundJob
<1>3. JobsSound
  BY <1>2 DEF JobsSound
<1>4. ReadinessTypeOK
  BY <1>2, ReadinessAssumption DEF Init, ReadinessTypeOK, ReadinessAssumption
<1>. QED
  BY <1>1, <1>3, <1>4 DEF RInv

(* The inductive invariant holds throughout.                                  *)
THEOREM PipelineInvariance == Spec => []RInv
<1>1. RInv /\ [Next]_vars => RInv'
  BY PipelineStep, StoreStep DEF RInv
<1>. QED
  BY <1>1, PipelineInitial, PTL DEF Spec

(* Agents, dependencies, questions, drafts and the populator's variables keep *)
(* the types the services give them.                                          *)
THEOREM ReadinessTypeCorrect == Spec => []ReadinessTypeOK
<1>1. RInv => ReadinessTypeOK
  BY DEF RInv
<1>. QED
  BY <1>1, PipelineInvariance, PTL

(* The readiness pipeline, the task service and the agents service, over the  *)
(* tables, implement the specification of the tables.                         *)
THEOREM PipelineImplementsStore == Spec => ImplementsStore
<1>1. Init => StoreInit
  BY DEF Init
<1>2. RInv /\ [Next]_vars => [StoreNext \/ Environment]_storeVars
  BY PipelineStep
<1>. QED
  BY <1>1, <1>2, PipelineInvariance, PTL DEF Spec, StoreSpec, ImplementsStore

(* With the real writers of queue and tasks, a task is still worked on by one *)
(* execution at a time, however stale the populator's decisions are.          *)
THEOREM PipelineRunsTaskOnce == Spec => []OneRunPerTask
BY PipelineImplementsStore, TaskRunsOnce, PTL DEF ImplementsStore

(* ... and with its real writers an execution ends once, keeps its telemetry,  *)
(* and is one run of the ledger.                                             *)
THEOREM PipelineImplementsLedger ==
  Spec => ImplementsLedger /\ TelemetryKept /\ HistoryIsAuditTrail /\ []EndsOnce
BY PipelineImplementsStore, TablesImplementLedger, TelemetrySurvives, HistoryOnlyGrows,
   ExecutionEndsOnce, PTL DEF ImplementsStore

(***************************************************************************)
(* Calls nothing interferes with.  What such a call holds in its variables  *)
(* agrees with the rows as they are now, so that its decisions are the ones  *)
(* the rules make of one state.                                             *)
(***************************************************************************)
(* Ready, in the order the populator asks.                                   *)
Wanted(t) ==
  /\ IsCandidate(t)
  /\ tasks[t].assignee \in Agents
  /\ Triggers(agents[tasks[t].assignee], CandidateRow(t))

Free(t) ==
  BelowLimit(agents[tasks[t].assignee], ActiveCount(tasks[t].assignee))

LEMMA ReadySplit ==
  ASSUME NEW t
  PROVE  Ready(t) <=> Wanted(t) /\ Free(t) /\ ~MustWait(t)
BY DEF Ready, Wanted, Free

(* Nothing a rule reads has changed.                                         *)
SameReads ==
  UNCHANGED <<tasks, active, history, sinceEnd, agents, dependsOn, requests>>

LEMMA RulesUnchanged ==
  ASSUME NEW t, SameReads
  PROVE  /\ IsCandidate(t)' <=> IsCandidate(t)
         /\ CandidateRow(t)' = CandidateRow(t)
         /\ Wanted(t)' <=> Wanted(t)
         /\ Free(t)' <=> Free(t)
         /\ LastOutOfQuota(t)' <=> LastOutOfQuota(t)
         /\ Ready(t)' <=> Ready(t)
<1>1. IsCandidate(t)' <=> IsCandidate(t)
  BY DEF SameReads, IsCandidate, Live, HasActive
<1>2. CandidateRow(t)' = CandidateRow(t)
  BY DEF SameReads, CandidateRow
<1>3. Wanted(t)' <=> Wanted(t)
  BY <1>1, <1>2 DEF SameReads, Wanted
<1>4. Free(t)' <=> Free(t)
  BY DEF SameReads, Free, BelowLimit, ActiveCount
<1>5. LastOutOfQuota(t)' <=> LastOutOfQuota(t)
  BY DEF SameReads, LastOutOfQuota, IsQuotaError
<1>6. MustWait(t)' <=> MustWait(t)
  BY DEF SameReads, MustWait, LastCancelled, LastOutOfQuota, IsQuotaError, BackedOff,
         QuotaErrors, Max, Min
<1>7. Ready(t)' <=> Ready(t)
  BY <1>3, <1>4, <1>6, ReadySplit DEF SameReads, Ready, Wanted, Free
<1>. QED
  BY <1>1, <1>2, <1>3, <1>4, <1>5, <1>7

(* The variables of a call, stage by stage: what was read is what there is.   *)
Judged == {"count", "delay", "backoff", "put", "drop"}

CallAgrees(job) ==
  /\ job.stage \in {"find", "next", "agent"} \union Judged =>
       /\ \A row \in job.todo : IsCandidate(row.task) /\ CandidateRow(row.task) = row
       /\ \A a \in Agents : job.known[a] \in {None, agents[a]}
  /\ job.stage = "agent" => job.row \in job.todo
  /\ \A t \in Tasks : job.task = t =>
       /\ job.stage \in {"count", "delay", "backoff"} => Wanted(t)
       /\ job.stage = "count" =>
            job.row = CandidateRow(t) /\ job.agent = agents[tasks[t].assignee]
       /\ job.stage \in {"delay", "backoff"} => Free(t)
       /\ job.stage = "backoff" => LastOutOfQuota(t) /\ job.waited = sinceEnd[t]
       /\ job.stage = "put" => Ready(t)
       /\ job.stage = "drop" => ~Ready(t)

Agrees(j) == CallAgrees(jobs[j])

(* What a sweep has listed and has settled: every candidate is still to be   *)
(* reconciled, or is being judged, or is queued if and only if it is ready.   *)
ListingAgrees(job) ==
  /\ job.stage \in {"load", "next", "agent"} \union Judged =>
       job.listed = {t \in Tasks : IsCandidate(t)}
  /\ job.stage = "load" => job.todo = {CandidateRow(t) : t \in job.listed}

SettledBut(job) ==
  job.stage \in {"next", "agent"} \union Judged =>
    \A t \in Tasks :
      IsCandidate(t) => \/ CandidateRow(t) \in job.todo
                        \/ job.stage \in Judged /\ job.task = t
                        \/ t \in queue <=> Ready(t)

SweepAgrees(j) == ListingAgrees(jobs[j]) /\ SettledBut(jobs[j])

(* The inductive invariant.                                                  *)
QuietInv ==
  /\ quiet \subseteq Slots
  /\ \A j \in quiet : Agrees(j)
  /\ \A j \in quiet \intersect Sweeps : SweepAgrees(j)
  /\ QuietSweepExact

(* What holds of the variables a step gives a call holds after the step, if   *)
(* nothing was changed that a rule reads.                                    *)
LEMMA AgreesKept ==
  ASSUME SameReads, NEW j, NEW job, jobs'[j] = job, CallAgrees(job)
  PROVE  Agrees(j)'
<1>1. \A t : /\ IsCandidate(t)' <=> IsCandidate(t)
             /\ CandidateRow(t)' = CandidateRow(t)
             /\ Wanted(t)' <=> Wanted(t)
             /\ Free(t)' <=> Free(t)
             /\ LastOutOfQuota(t)' <=> LastOutOfQuota(t)
             /\ Ready(t)' <=> Ready(t)
  BY RulesUnchanged
<1>2. tasks' = tasks /\ agents' = agents /\ sinceEnd' = sinceEnd
  BY DEF SameReads
<1>. QED
  BY <1>1, <1>2 DEF Agrees, CallAgrees

LEMMA SweepKept ==
  ASSUME SameReads, NEW j, NEW job, jobs'[j] = job, ListingAgrees(job),
         UNCHANGED queue, SettledBut(job)
  PROVE  SweepAgrees(j)'
<1>1. \A t : /\ IsCandidate(t)' <=> IsCandidate(t)
             /\ CandidateRow(t)' = CandidateRow(t)
             /\ Ready(t)' <=> Ready(t)
  BY RulesUnchanged
<1>. QED
  BY <1>1 DEF SweepAgrees, ListingAgrees, SettledBut

(* The rules up to the first query, applied to a current row and to the agent *)
(* its assignee has, if an active one.                                       *)
LEMMA JudgeAgrees ==
  ASSUME RInv, NEW job \in Jobs, job.stage \in {"next", "agent"}, CallAgrees(job),
         NEW row \in job.todo, NEW c,
         \/ row.assignee \in Agents /\ c = agents[row.assignee]
         \/ c = None /\ (row.assignee \in Agents => ~agents[row.assignee].on)
  PROVE  LET next == Judge(job, row, c)
         IN  /\ CallAgrees(next)
             /\ ListingAgrees(job) /\ SettledBut(job) =>
                  ListingAgrees(next) /\ SettledBut(next)
<1>. DEFINE t == row.task
            next == Judge(job, row, c)
<1>1. row \in Candidates /\ t \in Tasks
  BY DEF Jobs, Candidates
<1>2. IsCandidate(t) /\ CandidateRow(t) = row
  BY DEF CallAgrees
<1>3. row.assignee = tasks[t].assignee
  BY <1>2 DEF CandidateRow
<1>4. Wanted(t) <=> Triggers(c, row)
  BY <1>2, <1>3 DEF Wanted, Triggers
<1>5. Wanted(t) => c = agents[row.assignee]
  BY <1>3, <1>4 DEF Triggers
<1>6. ~Triggers(c, row) => ~Ready(t)
  BY <1>4, ReadySplit
<1>7. /\ next.todo = job.todo \ {row} /\ next.task = t
      /\ next.known = job.known /\ next.listed = job.listed
      /\ Triggers(c, row) => next.stage = "count" /\ next.row = row /\ next.agent = c
      /\ ~Triggers(c, row) => next.stage = "drop"
  BY DEF Judge, Jobs
<1>. HIDE DEF next
<1>8. CallAgrees(next)
  BY <1>2, <1>3, <1>4, <1>5, <1>6, <1>7 DEF CallAgrees, Judged
<1>9. ASSUME ListingAgrees(job), SettledBut(job)
      PROVE  ListingAgrees(next) /\ SettledBut(next)
  <2>1. next.stage \in Judged
    BY <1>7 DEF Judged
  <2>2. \A u \in Tasks : CandidateRow(u) = row => u = t
    BY DEF CandidateRow
  <2>3. SettledBut(next)
    BY <1>7, <1>9, <2>1, <2>2 DEF SettledBut, Judged
  <2>4. ListingAgrees(next)
    BY <1>7, <1>9, <2>1 DEF ListingAgrees, Judged
  <2>. QED
    BY <2>3, <2>4
<1>. QED
  BY <1>8, <1>9 DEF next

(* The reads of a call nothing has interfered with.                           *)
LEMMA ReadingStep ==
  ASSUME RInv, NEW j \in Slots, Agrees(j), j \in Sweeps => SweepAgrees(j),
         \/ PickTask(j) \/ ReadAgent(j) \/ CountExecutions(j)
         \/ ReadHistory(j) \/ CountQuotaErrors(j)
  PROVE  Agrees(j)' /\ (j \in Sweeps => SweepAgrees(j)')
<1>. DEFINE job == jobs[j]
            Good(next) ==
              /\ CallAgrees(next)
              /\ j \in Sweeps => ListingAgrees(next) /\ SettledBut(next)
<1>1. job \in Jobs /\ job \in SoundJob /\ jobs \in [Slots -> Jobs]
  BY DEF RInv, JobsSound, SoundJob, ReadinessTypeOK
<1>2. Good(job) /\ CallAgrees(job)
  BY DEF Agrees, SweepAgrees
<1>3. SameReads /\ UNCHANGED queue
  BY DEF PickTask, ReadAgent, CountExecutions, ReadHistory, CountQuotaErrors, Advance,
         SameReads, storeVars, tables
<1>4. SUFFICES \E next : Good(next) /\ Advance(j, next)
  <2>1. ASSUME NEW next, Good(next), Advance(j, next)
        PROVE  Agrees(j)' /\ (j \in Sweeps => SweepAgrees(j)')
    <3>1. jobs'[j] = next
      BY <1>1, <2>1 DEF Advance
    <3>. QED
      BY <1>3, <2>1, <3>1, AgreesKept, SweepKept
  <2>. QED
    BY <2>1
<1>5. CASE PickTask(j)
  <2>1. PICK row \in job.todo :
          IF row.assignee \in Agents /\ job.known[row.assignee] # None
            THEN Advance(j, Judge(job, row, job.known[row.assignee]))
            ELSE Advance(j, [job EXCEPT !.stage = "agent", !.row = row])
    BY <1>5 DEF PickTask
  <2>2. job.stage = "next"
    BY <1>5 DEF PickTask
  <2>3. CASE row.assignee \in Agents /\ job.known[row.assignee] # None
    <3>1. job.known[row.assignee] = agents[row.assignee]
      BY <1>2, <2>2, <2>3 DEF CallAgrees
    <3>2. Good(Judge(job, row, job.known[row.assignee]))
      BY <1>1, <1>2, <2>2, <2>3, <3>1, JudgeAgrees
    <3>. QED
      BY <2>1, <2>3, <3>2
  <2>4. CASE ~(row.assignee \in Agents /\ job.known[row.assignee] # None)
    <3>. DEFINE next == [job EXCEPT !.stage = "agent", !.row = row]
    <3>1. /\ next.stage = "agent" /\ next.row = row /\ next.todo = job.todo
          /\ next.known = job.known /\ next.listed = job.listed /\ next.task = job.task
      BY <1>1 DEF Jobs
    <3>2. Advance(j, next)
      BY <2>1, <2>4
    <3>. HIDE DEF next
    <3>3. CallAgrees(next)
      BY <1>2, <2>2, <3>1 DEF CallAgrees, Judged
    <3>4. ListingAgrees(job) /\ SettledBut(job) => ListingAgrees(next) /\ SettledBut(next)
      BY <2>2, <3>1 DEF ListingAgrees, SettledBut, Judged
    <3>. QED
      BY <1>2, <3>2, <3>3, <3>4
  <2>. QED
    BY <2>3, <2>4
<1>6. CASE ReadAgent(j)
  <2>. DEFINE c == IF job.row.assignee \in Agents /\ agents[job.row.assignee].on
                     THEN agents[job.row.assignee] ELSE None
  <2>1. job.stage = "agent" /\ Advance(j, Judge(job, job.row, c))
    BY <1>6 DEF ReadAgent
  <2>2. job.row \in job.todo
    BY <1>2, <2>1 DEF CallAgrees
  <2>3. \/ job.row.assignee \in Agents /\ c = agents[job.row.assignee]
        \/ c = None /\ (job.row.assignee \in Agents => ~agents[job.row.assignee].on)
    OBVIOUS
  <2>. HIDE DEF c
  <2>4. Good(Judge(job, job.row, c))
    BY <1>1, <1>2, <2>1, <2>2, <2>3, JudgeAgrees
  <2>. QED
    BY <2>1, <2>4
(* The later rules keep task, list and what is still to be reconciled.        *)
<1>7. ASSUME NEW next, job.stage \in Judged, next.stage \in Judged,
             next.todo = job.todo, next.known = job.known, next.task = job.task,
             next.listed = job.listed,
             \A t \in Tasks : job.task = t =>
               /\ next.stage # "count"
               /\ next.stage \in {"delay", "backoff"} => Wanted(t) /\ Free(t)
               /\ next.stage = "backoff" =>
                    LastOutOfQuota(t) /\ next.waited = sinceEnd[t]
               /\ next.stage = "put" => Ready(t)
               /\ next.stage = "drop" => ~Ready(t)
      PROVE  Good(next)
  <2>1. CallAgrees(next)
    BY <1>2, <1>7 DEF CallAgrees, Judged
  <2>2. ListingAgrees(job) /\ SettledBut(job) => ListingAgrees(next) /\ SettledBut(next)
    BY <1>7 DEF ListingAgrees, SettledBut, Judged
  <2>. QED
    BY <1>2, <2>1, <2>2
<1>8. CASE CountExecutions(j)
  <2>. DEFINE free == BelowLimit(job.agent, ActiveCount(job.row.assignee))
              next == [job EXCEPT !.stage = IF free THEN "delay" ELSE "drop",
                                  !.row = None, !.agent = None]
  <2>1. job.stage = "count" /\ Advance(j, next)
    BY <1>8 DEF CountExecutions
  <2>2. ASSUME NEW t \in Tasks, job.task = t
        PROVE  Wanted(t) /\ (free <=> Free(t))
    <3>1. Wanted(t) /\ job.row = CandidateRow(t) /\ job.agent = agents[tasks[t].assignee]
      BY <1>2, <2>1, <2>2 DEF CallAgrees
    <3>2. job.row.assignee = tasks[t].assignee
      BY <3>1 DEF CandidateRow
    <3>. QED
      BY <3>1, <3>2 DEF Free
  <2>3. /\ next.stage = IF free THEN "delay" ELSE "drop"
        /\ next.todo = job.todo /\ next.known = job.known /\ next.task = job.task
        /\ next.listed = job.listed
    BY <1>1 DEF Jobs
  <2>. HIDE DEF next, free
  <2>4. Good(next)
    BY <1>7, <2>1, <2>2, <2>3, ReadySplit DEF Judged
  <2>. QED
    BY <2>1, <2>4
<1>9. CASE ReadHistory(j)
  <2>. DEFINE t == job.task
              wait == LastCancelled(t) /\ sinceEnd[t] < CancelDelay
              next == IF LastOutOfQuota(t)
                        THEN [job EXCEPT !.stage = "backoff", !.waited = sinceEnd[t]]
                        ELSE [job EXCEPT !.stage = IF wait THEN "drop" ELSE "put"]
  <2>1. job.stage = "delay" /\ Advance(j, next)
    BY <1>9 DEF ReadHistory
  <2>2. t \in Tasks
    BY <1>1, <2>1 DEF SoundJob
  <2>3. Wanted(t) /\ Free(t)
    BY <1>2, <2>1, <2>2 DEF CallAgrees
  <2>4. ~LastOutOfQuota(t) => (wait <=> MustWait(t))
    BY DEF MustWait
  <2>5. /\ next.stage = IF LastOutOfQuota(t) THEN "backoff"
                         ELSE IF wait THEN "drop" ELSE "put"
        /\ LastOutOfQuota(t) => next.waited = sinceEnd[t]
        /\ next.todo = job.todo /\ next.known = job.known /\ next.task = job.task
        /\ next.listed = job.listed
    BY <1>1 DEF Jobs
  <2>. HIDE DEF next, wait
  <2>6. Good(next)
    BY <1>7, <2>1, <2>2, <2>3, <2>4, <2>5, ReadySplit DEF Judged
  <2>. QED
    BY <2>1, <2>6
<1>10. CASE CountQuotaErrors(j)
  <2>. DEFINE t == job.task
              wait == BackedOff(t, job.waited)
              next == [job EXCEPT !.stage = IF wait THEN "drop" ELSE "put",
                                  !.waited = 0]
  <2>1. job.stage = "backoff" /\ Advance(j, next)
    BY <1>10 DEF CountQuotaErrors
  <2>2. t \in Tasks
    BY <1>1, <2>1 DEF SoundJob
  <2>3. Wanted(t) /\ Free(t) /\ LastOutOfQuota(t) /\ job.waited = sinceEnd[t]
    BY <1>2, <2>1, <2>2 DEF CallAgrees
  <2>4. ~LastCancelled(t)
    BY <2>3 DEF LastCancelled, LastOutOfQuota, IsQuotaError
  <2>5. wait <=> MustWait(t)
    BY <2>3, <2>4 DEF MustWait
  <2>6. /\ next.stage = IF wait THEN "drop" ELSE "put"
        /\ next.todo = job.todo /\ next.known = job.known /\ next.task = job.task
        /\ next.listed = job.listed
    BY <1>1 DEF Jobs
  <2>. HIDE DEF next, wait
  <2>7. Good(next)
    BY <1>7, <2>1, <2>2, <2>3, <2>5, <2>6, ReadySplit DEF Judged
  <2>. QED
    BY <2>1, <2>7
<1>. QED
  BY <1>5, <1>6, <1>8, <1>9, <1>10

(* The query for one candidate, and the two queries that start a sweep.       *)
LEMMA FindStep ==
  ASSUME RInv, NEW j \in EventSlots, Agrees(j), FindCandidate(j)
  PROVE  Agrees(j)'
<1>. DEFINE job == jobs[j]
            t == job.task
<1>1. job \in Jobs /\ job \in SoundJob /\ jobs \in [Slots -> Jobs] /\ j \in Slots
  BY DEF RInv, JobsSound, SoundJob, ReadinessTypeOK, Slots
<1>2. job.stage = "find" /\ t \in Tasks /\ SameReads
  BY <1>1 DEF FindCandidate, SoundJob, Advance, SameReads, storeVars, tables
<1>3. CallAgrees(job)
  BY DEF Agrees
<1>. DEFINE found == [job EXCEPT !.stage = "next", !.todo = {CandidateRow(t)}]
            none == [job EXCEPT !.stage = "drop"]
<1>4. Advance(j, IF IsCandidate(t) THEN found ELSE none)
  BY DEF FindCandidate
<1>5. /\ found.stage = "next" /\ found.todo = {CandidateRow(t)}
      /\ found.known = job.known /\ found.task = t
      /\ none.stage = "drop" /\ none.known = job.known /\ none.todo = job.todo
      /\ none.task = t
  BY <1>1 DEF Jobs
<1>. HIDE DEF found, none
<1>6. CASE IsCandidate(t)
  <2>1. CandidateRow(t).task = t
    BY DEF CandidateRow
  <2>2. CallAgrees(found)
    BY <1>2, <1>3, <1>5, <1>6, <2>1 DEF CallAgrees, Judged
  <2>. QED
    BY <1>1, <1>2, <1>4, <1>6, <2>2, AgreesKept DEF Advance
<1>7. CASE ~IsCandidate(t)
  <2>1. ~Ready(t)
    BY <1>7 DEF Ready
  <2>2. CallAgrees(none)
    BY <1>2, <1>3, <1>5, <2>1 DEF CallAgrees, Judged
  <2>. QED
    BY <1>1, <1>2, <1>4, <1>7, <2>2, AgreesKept DEF Advance
<1>. QED
  BY <1>6, <1>7

LEMMA ListStep ==
  ASSUME RInv, NEW j \in Sweeps, ListCandidates(j)
  PROVE  Agrees(j)' /\ SweepAgrees(j)'
<1>. DEFINE listed == {t \in Tasks : IsCandidate(t)}
            next == [Idle EXCEPT !.stage = "load", !.listed = listed,
                                 !.todo = {CandidateRow(t) : t \in listed}]
<1>1. Advance(j, next) /\ SameReads /\ UNCHANGED queue
  BY DEF ListCandidates, Advance, SameReads, storeVars, tables
<1>2. jobs'[j] = next
  BY <1>1 DEF RInv, ReadinessTypeOK, Slots, Advance
<1>3. /\ next.stage = "load" /\ next.listed = listed
      /\ next.todo = {CandidateRow(t) : t \in listed}
  BY DEF Idle
<1>. HIDE DEF next
<1>4. CallAgrees(next) /\ ListingAgrees(next) /\ SettledBut(next)
  BY <1>3 DEF CallAgrees, ListingAgrees, SettledBut, Judged
<1>. QED
  BY <1>1, <1>2, <1>4, AgreesKept, SweepKept

LEMMA LoadStep ==
  ASSUME RInv, NEW j \in Sweeps, SweepAgrees(j), LoadAgents(j)
  PROVE  Agrees(j)' /\ SweepAgrees(j)'
<1>. DEFINE job == jobs[j]
            wanted == {row.assignee : row \in job.todo}
            known == [a \in Agents |-> IF a \in wanted /\ agents[a].on
                                         THEN agents[a] ELSE None]
            next == [job EXCEPT !.stage = "next", !.known = known]
<1>1. job \in Jobs /\ jobs \in [Slots -> Jobs] /\ j \in Slots
  BY DEF RInv, ReadinessTypeOK, Slots
<1>2. job.stage = "load" /\ Advance(j, next) /\ SameReads /\ UNCHANGED queue
  BY DEF LoadAgents, Advance, SameReads, storeVars, tables
<1>3. jobs'[j] = next
  BY <1>1, <1>2 DEF Advance
<1>4. /\ job.listed = {t \in Tasks : IsCandidate(t)}
      /\ job.todo = {CandidateRow(t) : t \in job.listed}
  BY <1>2 DEF SweepAgrees, ListingAgrees
<1>5. /\ next.stage = "next" /\ next.listed = job.listed /\ next.todo = job.todo
      /\ next.known = known
  BY <1>1 DEF Jobs
<1>6. \A a \in Agents : known[a] \in {None, agents[a]}
  OBVIOUS
<1>. HIDE DEF next, known
<1>7. \A row \in next.todo : IsCandidate(row.task) /\ CandidateRow(row.task) = row
  BY <1>4, <1>5 DEF CandidateRow
<1>8. CallAgrees(next) /\ ListingAgrees(next) /\ SettledBut(next)
  BY <1>4, <1>5, <1>6, <1>7 DEF CallAgrees, ListingAgrees, SettledBut, Judged
<1>. QED
  BY <1>2, <1>3, <1>8, AgreesKept, SweepKept

(* The write that ends a row: the task is queued if and only if it is ready.  *)
LEMMA WriteStep ==
  ASSUME RInv, NEW j \in Slots, Agrees(j), j \in Sweeps => SweepAgrees(j),
         PutQueueEntry(j) \/ DeleteQueueEntry(j)
  PROVE  /\ SameReads /\ jobs' = [jobs EXCEPT ![j] = AfterRow(j)]
         /\ Agrees(j)' /\ (j \in Sweeps => SweepAgrees(j)')
         /\ \A t \in Tasks : jobs[j].task = t => (t \in queue' <=> Ready(t)')
<1>. DEFINE job == jobs[j]
            next == AfterRow(j)
<1>1. job \in Jobs /\ jobs \in [Slots -> Jobs] /\ queue \subseteq Tasks
  BY DEF RInv, ReadinessTypeOK, IInv, TypeOK
<1>2. SameReads /\ Advance(j, next) /\ jobs' = [jobs EXCEPT ![j] = next]
  BY DEF PutQueueEntry, DeleteQueueEntry, QueuePut, QueueKeep, Advance, SameReads
<1>3. job.stage \in {"put", "drop"}
  BY DEF PutQueueEntry, DeleteQueueEntry
<1>4. CallAgrees(job)
  BY DEF Agrees
<1>5. \A t \in Tasks : job.task = t => (t \in queue' <=> Ready(t))
  BY <1>4 DEF CallAgrees, PutQueueEntry, DeleteQueueEntry, QueuePut, QueueKeep
<1>6. \A t \in Tasks : job.task # t => (t \in queue' <=> t \in queue)
  BY DEF PutQueueEntry, DeleteQueueEntry, QueuePut, QueueKeep
<1>7. \A t : /\ IsCandidate(t)' <=> IsCandidate(t)
             /\ CandidateRow(t)' = CandidateRow(t)
             /\ Ready(t)' <=> Ready(t)
  BY <1>2, RulesUnchanged
<1>8. /\ j \in Sweeps => /\ next.stage = "next" /\ next.task = None
                      /\ next.todo = job.todo /\ next.known = job.known
                      /\ next.listed = job.listed
      /\ j \notin Sweeps => next.stage = "idle"
  BY <1>1 DEF AfterRow, Idle, Jobs
<1>. HIDE DEF next
<1>9. CallAgrees(next)
  BY <1>3, <1>4, <1>8 DEF CallAgrees, Judged
<1>10. Agrees(j)'
  BY <1>1, <1>2, <1>9, AgreesKept
<1>11. ASSUME j \in Sweeps PROVE SweepAgrees(j)'
  <2>1. ListingAgrees(job) /\ SettledBut(job)
    BY <1>11 DEF SweepAgrees
  <2>2. jobs'[j] = next
    BY <1>1, <1>2, <1>11
  <2>3. ListingAgrees(jobs[j])'
    BY <1>3, <1>7, <1>8, <1>11, <2>1, <2>2 DEF ListingAgrees, Judged
  <2>4. SettledBut(jobs[j])'
    BY <1>3, <1>5, <1>6, <1>7, <1>8, <1>11, <2>1, <2>2 DEF SettledBut, Judged
  <2>. QED
    BY <2>3, <2>4 DEF SweepAgrees
<1>. QED
  BY <1>2, <1>5, <1>7, <1>10, <1>11 DEF next

(* The trim: what was not listed is no candidate, and what was is settled.    *)
LEMMA TrimStep ==
  ASSUME RInv, NEW j \in Sweeps, SweepAgrees(j), TrimQueue(j)
  PROVE  /\ Agrees(j)' /\ SweepAgrees(j)'
         /\ queue' = {t \in Tasks : Ready(t)}'
<1>. DEFINE job == jobs[j]
<1>1. job \in Jobs /\ jobs \in [Slots -> Jobs] /\ j \in Slots /\ queue \subseteq Tasks
  BY DEF RInv, ReadinessTypeOK, IInv, TypeOK, Slots
<1>2. /\ job.stage = "next" /\ job.todo = {} /\ queue' = queue \intersect job.listed
      /\ SameReads /\ jobs'[j] = Idle
  BY <1>1 DEF TrimQueue, QueueKeep, Advance, SameReads
<1>3. job.listed = {t \in Tasks : IsCandidate(t)}
  BY <1>2 DEF SweepAgrees, ListingAgrees
<1>4. \A t \in Tasks : IsCandidate(t) => (t \in queue <=> Ready(t))
  BY <1>2 DEF SweepAgrees, SettledBut, Judged
<1>5. \A t \in Tasks : Ready(t) => IsCandidate(t)
  BY DEF Ready
<1>6. \A t : Ready(t)' <=> Ready(t)
  BY <1>2, RulesUnchanged
<1>7. queue' = {t \in Tasks : Ready(t)}'
  BY <1>1, <1>2, <1>3, <1>4, <1>5, <1>6
<1>8. Idle.stage = "idle"
  BY DEF Idle
<1>9. CallAgrees(Idle)
  BY <1>8 DEF CallAgrees, Judged
<1>10. Agrees(j)'
  BY <1>2, <1>9, AgreesKept
<1>11. SweepAgrees(j)'
  BY <1>2, <1>8 DEF SweepAgrees, ListingAgrees, SettledBut, Judged
<1>. QED
  BY <1>7, <1>10, <1>11

(* A step of a call nothing has interfered with.                              *)
LEMMA QuietCallStep ==
  ASSUME RInv, NEW j \in Slots, jobs[j].stage # "idle", CallStep(j),
         Agrees(j), j \in Sweeps => SweepAgrees(j)
  PROVE  /\ Agrees(j)' /\ (j \in Sweeps => SweepAgrees(j)')
         /\ jobs'[j].stage = "idle" =>
              /\ j \in Sweeps => queue' = {t \in Tasks : Ready(t)}'
              /\ j \notin Sweeps => \A t \in Tasks :
                   jobs[j].task = t => (t \in queue' <=> Ready(t)')
<1>1. jobs[j] \in Jobs /\ jobs \in [Slots -> Jobs]
  BY DEF RInv, ReadinessTypeOK
<1>2. CASE \/ PickTask(j) \/ ReadAgent(j) \/ CountExecutions(j)
           \/ ReadHistory(j) \/ CountQuotaErrors(j)
  <2>1. Agrees(j)' /\ (j \in Sweeps => SweepAgrees(j)')
    BY <1>2, ReadingStep
  <2>2. \E next : Advance(j, next) /\ next.stage # "idle"
    <3>1. \A row, c : Judge(jobs[j], row, c).stage \in {"count", "drop"}
      BY <1>1 DEF Judge, Jobs
    <3>2. \A row : [jobs[j] EXCEPT !.stage = "agent", !.row = row].stage = "agent"
      BY <1>1 DEF Jobs
    <3>3. CASE PickTask(j)
      BY <3>1, <3>2, <3>3 DEF PickTask
    <3>4. CASE ReadAgent(j)
      BY <3>1, <3>4 DEF ReadAgent
    <3>5. \A s :
            /\ [jobs[j] EXCEPT !.stage = s].stage = s
            /\ \A n : [jobs[j] EXCEPT !.stage = s, !.waited = n].stage = s
            /\ [jobs[j] EXCEPT !.stage = s, !.row = None, !.agent = None].stage = s
      BY <1>1 DEF Jobs
    <3>6. CASE CountExecutions(j)
      BY <3>5, <3>6 DEF CountExecutions
    <3>7. CASE ReadHistory(j)
      <4>. DEFINE t == jobs[j].task
                  wait == LastCancelled(t) /\ sinceEnd[t] < CancelDelay
      <4>1. CASE LastOutOfQuota(t)
        <5>1. Advance(j, [jobs[j] EXCEPT !.stage = "backoff", !.waited = sinceEnd[t]])
          BY <3>7, <4>1 DEF ReadHistory
        <5>2. [jobs[j] EXCEPT !.stage = "backoff", !.waited = sinceEnd[t]].stage = "backoff"
          BY <3>5
        <5>. QED
          BY <5>1, <5>2
      <4>2. CASE ~LastOutOfQuota(t)
        <5>1. Advance(j, [jobs[j] EXCEPT !.stage = IF wait THEN "drop" ELSE "put"])
          BY <3>7, <4>2 DEF ReadHistory
        <5>. QED
          BY <3>5, <5>1
      <4>. QED
        BY <4>1, <4>2
    <3>8. CASE CountQuotaErrors(j)
      <4>1. \E s \in {"put", "drop"} :
              Advance(j, [jobs[j] EXCEPT !.stage = s, !.waited = 0])
        BY <3>8 DEF CountQuotaErrors
      <4>. QED
        BY <3>5, <4>1
    <3>. QED
      BY <1>2, <3>3, <3>4, <3>6, <3>7, <3>8
  <2>3. jobs'[j].stage # "idle"
    BY <1>1, <2>2 DEF Advance
  <2>. QED
    BY <2>1, <2>3
<1>3. CASE PutQueueEntry(j) \/ DeleteQueueEntry(j)
  <2>1. j \in Sweeps => jobs'[j].stage = "next"
    <3>1. jobs' = [jobs EXCEPT ![j] = AfterRow(j)]
      BY <1>3, WriteStep
    <3>. QED
      BY <1>1, <3>1 DEF AfterRow, Jobs
  <2>. QED
    BY <1>3, <2>1, WriteStep
<1>4. CASE j \in Sweeps /\ LoadAgents(j)
  <2>1. jobs'[j].stage = "next"
    BY <1>1, <1>4 DEF LoadAgents, Advance, Jobs
  <2>. QED
    BY <1>4, <2>1, LoadStep
<1>5. CASE j \in Sweeps /\ TrimQueue(j)
  BY <1>5, TrimStep
<1>6. CASE j \in EventSlots /\ FindCandidate(j)
  <2>1. jobs'[j].stage # "idle"
    BY <1>1, <1>6 DEF FindCandidate, Advance, Jobs
  <2>2. j \notin Sweeps
    BY <1>6, ReadinessAssumption DEF ReadinessAssumption
  <2>. QED
    BY <1>6, <2>1, <2>2, FindStep
<1>7. j \notin Sweeps => j \in EventSlots
  BY DEF Slots
<1>. QED
  BY <1>2, <1>3, <1>4, <1>5, <1>6, <1>7 DEF CallStep, SweepStep, EventStep

(* How a call starts: a sweep with its list, a call for a task with the task. *)
LEMMA StartStep ==
  ASSUME RInv, [Next]_vars, NEW j \in Slots, jobs[j].stage = "idle",
         jobs'[j].stage # "idle"
  PROVE  Agrees(j)' /\ (j \in Sweeps => SweepAgrees(j)')
<1>1. jobs \in [Slots -> Jobs] /\ Sweeps \intersect EventSlots = {}
  BY ReadinessAssumption DEF RInv, ReadinessTypeOK, Slots, ReadinessAssumption
<1>. DEFINE Started ==
              \E t \in Tasks :
                j \in EventSlots
                /\ jobs'[j] = [Idle EXCEPT !.stage = "find", !.task = t]
<1>2. ASSUME NEW t \in Tasks, StartPopulate(t) PROVE Started
  BY <1>1, <1>2 DEF StartPopulate
<1>3. CASE Started
  <2>1. PICK t \in Tasks : jobs'[j] = [Idle EXCEPT !.stage = "find", !.task = t]
    BY <1>3
  <2>2. /\ jobs'[j].stage = "find" /\ jobs'[j].todo = {}
        /\ jobs'[j].known = [a \in Agents |-> None]
    BY <2>1 DEF Idle, NoAgents
  <2>3. Agrees(j)'
    BY <2>2 DEF Agrees, CallAgrees, Judged
  <2>4. j \notin Sweeps
    BY <1>1, <1>3
  <2>. QED
    BY <2>3, <2>4
<1>4. CASE TaskEdit
  <2>1. UNCHANGED jobs \/ \E t \in Tasks : StartPopulate(t)
    BY <1>4 DEF TaskEdit, InsertTask, AssignTask, TagDraft, LinkDraft, DropDraft,
                UpdateTask, ChangeStatus, ChangeTag, DeleteTask, CreateInputRequest,
                AnswerInputRequest, readinessVars
  <2>. QED
    BY <1>2, <1>3, <2>1
(* The other actions start no call but that of the cron.                      *)
<1>5. ASSUME NEW i \in Sweeps, ListCandidates(i)
      PROVE  Agrees(j)' /\ (j \in Sweeps => SweepAgrees(j)')
  <2>1. i = j
    BY <1>1, <1>5 DEF ListCandidates, Advance
  <2>. QED
    BY <1>5, <2>1, ListStep
<1>6. ASSUME NEW i \in Slots, jobs[i].stage # "idle",
             \E job : jobs' = [jobs EXCEPT ![i] = job]
      PROVE  FALSE
  BY <1>1, <1>6
<1>7. CASE \E i \in EventSlots : EventStep(i)
  BY <1>6, <1>7 DEF Slots, EventStep, FindCandidate, PickTask, ReadAgent,
     CountExecutions, ReadHistory, CountQuotaErrors, PutQueueEntry, DeleteQueueEntry,
     Advance
<1>8. CASE \E i \in Sweeps : SweepStep(i)
  BY <1>6, <1>8 DEF Slots, SweepStep, LoadAgents, PickTask, ReadAgent,
     CountExecutions, ReadHistory, CountQuotaErrors, PutQueueEntry, DeleteQueueEntry,
     TrimQueue, Advance
<1>9. CASE \E i \in Slots : AbortJob(i)
  BY <1>6, <1>9 DEF AbortJob
<1>10. CASE UNCHANGED jobs
  BY <1>10
<1>. QED
  BY <1>4, <1>5, <1>7, <1>8, <1>9, <1>10
     DEF Next, Others, PatchAgent, readinessVars, vars

(* Quiet calls stay in agreement, and end with what the rules say.            *)
LEMMA QuietPipelineStep ==
  ASSUME RInv, QuietInv, [QuietNext]_quietVars
  PROVE  /\ QuietInv'
         /\ \A j \in EventSlots, t \in Tasks :
              /\ j \in quiet /\ jobs[j].stage # "idle" /\ jobs[j].task = t
              /\ j \in quiet' /\ jobs'[j].stage = "idle"
              => (t \in queue' <=> Ready(t)')
<1>1. CASE QuietNext
  <2>1. [Next]_vars /\ Watch
    BY <1>1 DEF QuietNext
  <2>2. quiet' = {j \in Slots : StillQuiet(j)}
    BY <2>1 DEF Watch
  <2>3. ASSUME NEW j \in quiet'
        PROVE  /\ j \in Slots /\ Agrees(j)' /\ (j \in Sweeps => SweepAgrees(j)')
               /\ jobs[j].stage = "idle" => jobs'[j].stage # "idle"
               /\ jobs[j].stage # "idle" => j \in quiet /\ CallStep(j)
    <3>1. j \in Slots /\ StillQuiet(j)
      BY <2>2, <2>3
    <3>2. CASE jobs[j].stage = "idle"
      BY <2>1, <3>1, <3>2, StartStep DEF StillQuiet
    <3>3. CASE jobs[j].stage # "idle"
      <4>1. j \in quiet /\ CallStep(j)
        BY <3>1, <3>3 DEF StillQuiet
      <4>2. Agrees(j) /\ (j \in Sweeps => SweepAgrees(j))
        BY <4>1 DEF QuietInv
      <4>. QED
        BY <3>1, <3>3, <4>1, <4>2, QuietCallStep
    <3>. QED
      BY <3>2, <3>3
  <2>4. ASSUME NEW j \in quiet', j \in Sweeps, jobs'[j].stage = "idle"
        PROVE  queue' = {t \in Tasks : Ready(t)}'
    <3>1. jobs[j].stage # "idle" /\ j \in quiet /\ CallStep(j) /\ j \in Slots
      BY <2>3, <2>4
    <3>2. Agrees(j) /\ SweepAgrees(j)
      BY <2>4, <3>1 DEF QuietInv
    <3>. QED
      BY <2>4, <3>1, <3>2, QuietCallStep
  <2>5. QuietSweepExact'
    BY <2>4 DEF QuietSweepExact
  <2>6. QuietInv'
    BY <2>2, <2>3, <2>5 DEF QuietInv
  <2>7. ASSUME NEW j \in EventSlots, NEW t \in Tasks,
               j \in quiet, jobs[j].stage # "idle", jobs[j].task = t,
               j \in quiet', jobs'[j].stage = "idle"
        PROVE  t \in queue' <=> Ready(t)'
    <3>1. j \in Slots /\ j \notin Sweeps /\ CallStep(j)
      BY <2>3, <2>7, ReadinessAssumption DEF Slots, ReadinessAssumption
    <3>2. Agrees(j)
      BY <2>7 DEF QuietInv
    <3>. QED
      BY <2>7, <3>1, <3>2, QuietCallStep
  <2>. QED
    BY <2>6, <2>7
<1>2. CASE UNCHANGED quietVars
  <2>1. UNCHANGED <<quiet, queue, jobs>> /\ SameReads
    BY <1>2 DEF quietVars, vars, storeVars, tables, readinessVars, SameReads
  <2>2. \A j \in quiet : Agrees(j)'
    BY <2>1, AgreesKept DEF QuietInv, Agrees
  <2>3. \A j \in quiet \intersect Sweeps : SweepAgrees(j)'
    BY <2>1, SweepKept DEF QuietInv, SweepAgrees
  <2>4. \A t : Ready(t)' <=> Ready(t)
    BY <2>1, RulesUnchanged
  <2>5. QuietSweepExact'
    BY <2>1, <2>4 DEF QuietInv, QuietSweepExact
  <2>. QED
    BY <2>1, <2>2, <2>3, <2>5 DEF QuietInv
<1>. QED
  BY <1>1, <1>2

(* The history variable adds nothing to what the pipeline does.               *)
LEMMA WatchedPipeline == QuietSpec => Spec
<1>1. QuietInit => Init
  BY DEF QuietInit
<1>2. [QuietNext]_quietVars => [Next]_vars
  BY DEF QuietNext, quietVars
<1>. QED
  BY <1>1, <1>2, PTL DEF QuietSpec, Spec

THEOREM QuietInvariance == QuietSpec => [](RInv /\ QuietInv)
<1>1. Init /\ QuietInit => QuietInv
  BY DEF QuietInit, QuietInv, QuietSweepExact
<1>2. QuietInit => Init
  BY DEF QuietInit
<1>3. RInv /\ QuietInv /\ [QuietNext]_quietVars => QuietInv'
  BY QuietPipelineStep
<1>. QED
  BY <1>1, <1>2, <1>3, WatchedPipeline, PipelineInvariance, PTL DEF QuietSpec

(* A sweep nothing interferes with leaves exactly the ready tasks queued,     *)
(* whatever the queue held when it started.                                  *)
THEOREM SweepLeavesTheReady == QuietSpec => []QuietSweepExact
<1>1. QuietInv => QuietSweepExact
  BY DEF QuietInv
<1>. QED
  BY <1>1, QuietInvariance, PTL

(* A call for one task nothing interferes with ends with the task queued if   *)
(* and only if it is ready.                                                  *)
THEOREM CallSettlesItsTask == QuietSpec => QuietCallExact
<1>1. RInv /\ QuietInv /\ [QuietNext]_quietVars =>
        [\A j \in EventSlots, t \in Tasks :
           /\ j \in quiet /\ jobs[j].stage # "idle" /\ jobs[j].task = t
           /\ j \in quiet' /\ jobs'[j].stage = "idle"
           => (t \in queue' <=> Ready(t)')]_quietVars
  BY QuietPipelineStep
<1>. QED
  BY <1>1, QuietInvariance, PTL DEF QuietSpec, QuietCallExact

(***************************************************************************)
(* countConsecutiveQuotaErrors.                                            *)
(***************************************************************************)
(* A set of positions of a sequence that is not empty has a last one.         *)
LEMMA LastPosition ==
  ASSUME NEW len \in Nat, NEW S, S \subseteq 1 .. len, S # {}
  PROVE  Max(S) \in S /\ \A i \in S : i <= Max(S)
<1>. DEFINE R == OpToRel(<, Nat)
            T == {n \in Nat : len - n \in S}
<1>1. IsWellFoundedOn(R, Nat)
  BY NatLessThanWellFounded
<1>2. ASSUME NEW x \in Nat, NEW y \in Nat, y < x PROVE <<y, x>> \in R
  BY <1>2, Zenon DEF OpToRel
<1>3. T \subseteq Nat /\ T # {}
  <2>1. PICK i \in S : TRUE
    OBVIOUS
  <2>2. len - i \in Nat /\ len - (len - i) = i
    OBVIOUS
  <2>. QED
    BY <2>1, <2>2
<1>. HIDE DEF R
<1>4. PICK x \in T : \A y \in T : <<y, x>> \notin R
  BY <1>1, <1>3, WFMin
<1>5. ASSUME NEW i \in S PROVE i <= len - x
  <2>1. len - i \in Nat /\ len - (len - i) = i
    OBVIOUS
  <2>2. len - i \in T
    BY <2>1
  <2>3. ~(len - i < x)
    BY <1>2, <1>4, <2>1, <2>2
  <2>. QED
    BY <2>1, <2>3
<1>6. len - x \in S
  OBVIOUS
<1>. HIDE DEF T
<1>7. \E m \in S : \A i \in S : m >= i
  BY <1>5, <1>6
<1>8. Max(S) \in S /\ \A i \in S : Max(S) >= i
  BY <1>7 DEF Max
<1>. QED
  BY <1>8

(* n is what the loop returns for the rows h, oldest first: the newest n rows *)
(* are quota errors, and the row before them, if there is one, is not.        *)
CountsErrors(h, n) ==
  /\ n \in 0 .. Len(h)
  /\ \A i \in (Len(h) - n) + 1 .. Len(h) : IsQuotaError(h[i])
  /\ n < Len(h) => ~IsQuotaError(h[Len(h) - n])

LEMMA CountIsUnique ==
  ASSUME NEW h, Len(h) \in Nat, NEW n, NEW m, CountsErrors(h, n), CountsErrors(h, m)
  PROVE  n = m
<1>. DEFINE len == Len(h)
<1>1. /\ n \in 0 .. len /\ m \in 0 .. len
      /\ \A i \in (len - n) + 1 .. len : IsQuotaError(h[i])
      /\ n < len => ~IsQuotaError(h[len - n])
      /\ \A i \in (len - m) + 1 .. len : IsQuotaError(h[i])
      /\ m < len => ~IsQuotaError(h[len - m])
  BY DEF CountsErrors
<1>2. len \in Nat
  OBVIOUS
<1>. HIDE DEF len
<1>3. ~(n < m)
  BY <1>1, <1>2
<1>4. ~(m < n)
  BY <1>1, <1>2
<1>. QED
  BY <1>1, <1>2, <1>3, <1>4

(* QuotaErrors is the count of the loop, for any history.                     *)
THEOREM QuotaErrorsCount ==
  \A t : history[t] \in Seq(HistoryRow) => CountsErrors(history[t], QuotaErrors(t))
<1>. SUFFICES ASSUME NEW t, history[t] \in Seq(HistoryRow)
              PROVE  CountsErrors(history[t], QuotaErrors(t))
  OBVIOUS
<1>. DEFINE h == history[t]
            len == Len(h)
            others == {i \in DOMAIN h : ~IsQuotaError(h[i])}
<1>1. len \in Nat /\ DOMAIN h = 1 .. len
  OBVIOUS
<1>2. QuotaErrors(t) = len - (IF others = {} THEN 0 ELSE Max(others))
  BY DEF QuotaErrors
<1>3. others \subseteq 1 .. len /\ \A i \in 1 .. len : i \in others <=> ~IsQuotaError(h[i])
  BY <1>1
<1>. HIDE DEF others, len
<1>4. CASE others = {}
  <2>1. QuotaErrors(t) = len /\ \A i \in 1 .. len : IsQuotaError(h[i])
    BY <1>1, <1>2, <1>3, <1>4
  <2>. QED
    BY <1>1, <2>1 DEF len, CountsErrors
<1>5. CASE others # {}
  <2>1. Max(others) \in others /\ \A i \in others : i <= Max(others)
    BY <1>1, <1>3, <1>5, LastPosition
  <2>. DEFINE m == Max(others)
  <2>2. m \in 1 .. len /\ ~IsQuotaError(h[m]) /\ QuotaErrors(t) = len - m
    BY <1>2, <1>3, <1>5, <2>1
  <2>. HIDE DEF m
  <2>3. \A i \in m + 1 .. len : IsQuotaError(h[i])
    BY <1>1, <1>3, <2>1, <2>2 DEF m
  <2>4. QuotaErrors(t) \in 0 .. len /\ len - QuotaErrors(t) = m
    BY <1>1, <2>2
  <2>. QED
    BY <1>1, <2>2, <2>3, <2>4 DEF len, CountsErrors
<1>. QED
  BY <1>4, <1>5

LEMMA QuotaErrorsCountNext ==
  (\A t : history[t] \in Seq(HistoryRow) => CountsErrors(history[t], QuotaErrors(t)))'
BY QuotaErrorsCount, PTL

(* A row more, and the loop counts one more or none.                          *)
LEMMA CountOfLonger ==
  ASSUME NEW h \in Seq(HistoryRow), NEW g \in Seq(HistoryRow), Len(g) = Len(h) + 1,
         \A i \in DOMAIN h : g[i] = h[i], NEW n, CountsErrors(h, n)
  PROVE  CountsErrors(g, IF IsQuotaError(g[Len(g)]) THEN n + 1 ELSE 0)
<1>. DEFINE len == Len(h)
<1>1. /\ len \in Nat /\ n \in 0 .. len /\ Len(g) = len + 1
      /\ \A i \in 1 .. len : g[i] = h[i]
      /\ \A i \in (len - n) + 1 .. len : IsQuotaError(h[i])
      /\ n < len => ~IsQuotaError(h[len - n])
  BY DEF CountsErrors
<1>. HIDE DEF len
<1>2. CASE IsQuotaError(g[len + 1])
  <2>1. \A i \in (len - n) + 1 .. len + 1 : IsQuotaError(g[i])
    BY <1>1, <1>2
  <2>2. n + 1 < len + 1 => ~IsQuotaError(g[len - n])
    BY <1>1
  <2>3. (len + 1) - (n + 1) = len - n /\ n + 1 \in 0 .. len + 1
    BY <1>1
  <2>. QED
    BY <1>1, <1>2, <2>1, <2>2, <2>3 DEF CountsErrors
<1>3. CASE ~IsQuotaError(g[len + 1])
  BY <1>1, <1>3 DEF CountsErrors
<1>. QED
  BY <1>1, <1>2, <1>3

(* A task's delay grows with each quota error in a row and starts anew with    *)
(* any other end of an execution.                                            *)
THEOREM QuotaErrorsGrow == Spec => QuotaErrorsAddUp
<1>. DEFINE Grows(t) ==
       history'[t] # history[t] =>
         QuotaErrors(t)' = IF LastOutOfQuota(t)' THEN QuotaErrors(t) + 1 ELSE 0
<1>1. ASSUME RInv, RInv', [Next]_vars, NEW t \in Tasks, history'[t] # history[t]
      PROVE  QuotaErrors(t)' = IF LastOutOfQuota(t)' THEN QuotaErrors(t) + 1 ELSE 0
  <2>1. history[t] \in Seq(HistoryRow) /\ history'[t] \in Seq(HistoryRow)
    BY <1>1 DEF RInv, IInv, TypeOK
  <2>2. [StoreNext \/ Environment]_storeVars /\ IInv
    BY <1>1, PipelineStep DEF RInv
  <2>3. /\ Len(history'[t]) = Len(history[t]) + 1
        /\ \A i \in DOMAIN history[t] : history'[t][i] = history[t][i]
    BY <1>1, <2>2, AuditStep
  <2>4. CountsErrors(history[t], QuotaErrors(t))
    BY <2>1, QuotaErrorsCount
  <2>5. CountsErrors(history'[t], QuotaErrors(t)')
    BY <2>1, QuotaErrorsCountNext
  <2>6. LastOutOfQuota(t)' <=> IsQuotaError(history'[t][Len(history'[t])])
    BY <2>1, <2>3 DEF LastOutOfQuota, IsQuotaError
  <2>. QED
    BY <2>1, <2>3, <2>4, <2>5, <2>6, CountOfLonger, CountIsUnique
<1>2. RInv /\ RInv' /\ [Next]_vars => [\A t \in Tasks : Grows(t)]_vars
  BY <1>1
<1>. QED
  BY <1>2, PipelineInvariance, PTL DEF Spec, QuotaErrorsAddUp
=============================================================================
