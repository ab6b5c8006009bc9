--------------------------- MODULE ScheduledTasks ---------------------------
(***************************************************************************)
(* Scheduled tasks (task-blueprints): schedules that create a task from a  *)
(* blueprint whenever their cron expression says so.  The handler fires     *)
(* every minute without waiting for the one before, so several scans run    *)
(* at once, next to the edits of schedules and blueprints.  An occurrence   *)
(* is a schedule with the time it was due.                                  *)
(***************************************************************************)
EXTENDS Naturals, FiniteSets

CONSTANTS
  Schedules, Blueprints,
  BlueprintOf,   \* the blueprint a schedule is created for; it never changes
  Crons,         \* the cron expressions in use
  NextRun,       \* NextRun[c][n]: the first time after n that c names
  Horizon,       \* the largest of them
  Scans,         \* the handlers that may run at once
  None,
  MaxTime,       \* bound: the clock stops there
  MaxUpdates,    \* bound: updateScheduledTask calls
  MaxFailures,   \* bound: creations and completions that fail
  MaxCrashes     \* bound: restarts of the backend, and rollbacks that fail

ASSUME ScheduleAssumption ==
  /\ BlueprintOf \in [Schedules -> Blueprints]
  /\ {MaxTime, MaxUpdates, MaxFailures, MaxCrashes, Horizon} \subseteq Nat
  /\ NextRun \in [Crons -> [0 .. MaxTime -> 0 .. Horizon]]
  /\ \A c \in Crons, n \in 0 .. MaxTime : NextRun[c][n] > n
  /\ None \notin Crons \union Nat \union Schedules

VARIABLES
  now,         \* minutes since the start
  blueprints,  \* blueprints[b]: live, checked (about to be deleted) or deleted
  schedules,   \* schedules[s]: the scheduled_tasks row of s
  updates,     \* updates[s]: the entity an updateScheduledTask call will save
  scans,       \* scans[j]: the handler in slot j
  created,     \* the tasks inserted, each with the occurrence it is for
  started, failures, crashes, \* updates, failures and crashes so far
  putBack,     \* history: past occurrences that an update's save restored
  restored     \* history: occurrences rolled back after their task was inserted

vars == <<now, blueprints, schedules, updates, scans, created,
          started, failures, crashes, putBack, restored>>

(* A row; checked is a schedule whose blueprint was found but is not saved.  *)
Rows == [life : {"absent", "checked", "live", "deleted"}, enabled : BOOLEAN,
         cron : Crons \union {None}, nextRun : 0 .. Horizon,
         lastRun : 0 .. MaxTime \union {None}]

(* What a scan keeps of a due row.                                           *)
Due == [schedule : Schedules, occurrence : 0 .. Horizon, cron : Crons]

(* The stage says which call of the handler's loop comes next.               *)
Handlers ==
  [stage : {"idle", "claim", "create", "complete", "rollback"},
   todo : SUBSET Due, row : Due \union {None},
   claimed : 0 .. Horizon \union {None}]

Idle == [stage |-> "idle", todo |-> {}, row |-> None, claimed |-> None]

Init ==
  /\ now = 0
  /\ blueprints = [b \in Blueprints |-> "live"]
  /\ schedules = [s \in Schedules |->
       [life |-> "absent", enabled |-> FALSE, cron |-> None, nextRun |-> 0,
        lastRun |-> None]]
  /\ updates = [s \in Schedules |-> None]
  /\ scans = [j \in Scans |-> Idle]
  /\ created = {}
  /\ started = 0 /\ failures = 0 /\ crashes = 0
  /\ putBack = {} /\ restored = {}

history == <<putBack, restored>>
counters == <<started, failures, crashes>>

(***************************************************************************)
(* ScheduledTasksService: the calls of the users.                          *)
(***************************************************************************)
SetRow(s, row) ==
  /\ schedules' = [schedules EXCEPT ![s] = row]
  /\ UNCHANGED <<now, blueprints, scans, created, counters, restored>>

(* createScheduledTask looks its blueprint up, then saves the row.           *)
CheckBlueprint(s) ==
  /\ schedules[s].life = "absent"
  /\ blueprints[BlueprintOf[s]] # "deleted"
  /\ SetRow(s, [schedules[s] EXCEPT !.life = "checked"])
  /\ UNCHANGED <<updates, putBack>>

CreateSchedule(s, c, enabled) ==
  /\ schedules[s].life = "checked"
  /\ SetRow(s, [life |-> "live", enabled |-> enabled, cron |-> c,
                nextRun |-> NextRun[c][now], lastRun |-> None])
  /\ UNCHANGED <<updates, putBack>>

(* updateScheduledTask loads the row and changes it in memory, ...           *)
LoadForUpdate(s, row) ==
  /\ schedules[s].life = "live"
  /\ updates[s] = None
  /\ updates' = [updates EXCEPT ![s] = row]
  /\ started < MaxUpdates
  /\ started' = started + 1
  /\ UNCHANGED <<now, blueprints, schedules, scans, created, failures, crashes,
                 history>>

SetEnabled(s, enabled) ==
  LoadForUpdate(s, [schedules[s] EXCEPT !.enabled = enabled])

SetCron(s, c) ==
  LoadForUpdate(s, [schedules[s] EXCEPT !.cron = c, !.nextRun = NextRun[c][now]])

(* ... and saves it: every column goes back to what was loaded or changed.   *)
SaveUpdate(s) ==
  /\ updates[s] # None
  /\ SetRow(s, updates[s])
  /\ updates' = [updates EXCEPT ![s] = None]
  /\ putBack' = IF updates[s].nextRun <= now
                  THEN putBack \union {<<s, updates[s].nextRun>>} ELSE putBack

DeleteSchedule(s) ==
  /\ schedules[s].life = "live"
  /\ SetRow(s, [schedules[s] EXCEPT !.life = "deleted"])
  /\ UNCHANGED <<updates, putBack>>

(***************************************************************************)
(* deleteTaskBlueprint counts the enabled schedules, then removes the row.  *)
(***************************************************************************)
HasActiveSchedules(b) ==
  \E s \in Schedules :
    /\ BlueprintOf[s] = b
    /\ schedules[s].life = "live" /\ schedules[s].enabled

SetBlueprint(b, life) ==
  /\ blueprints' = [blueprints EXCEPT ![b] = life]
  /\ UNCHANGED <<now, schedules, updates, scans, created, counters, history>>

CountSchedules(b) ==
  /\ blueprints[b] = "live"
  /\ ~HasActiveSchedules(b)
  /\ SetBlueprint(b, "checked")

RemoveBlueprint(b) ==
  /\ blueprints[b] = "checked"
  /\ SetBlueprint(b, "deleted")

(***************************************************************************)
(* TaskSchedulerService.handleScheduledTasks.                              *)
(***************************************************************************)
SetScan(j, scan) ==
  /\ scans' = [scans EXCEPT ![j] = scan]
  /\ UNCHANGED <<now, blueprints, updates, putBack>>

IsDue(s) ==
  schedules[s].life = "live" /\ schedules[s].enabled /\ schedules[s].nextRun <= now

DueRow(s) == [schedule |-> s, occurrence |-> schedules[s].nextRun,
              cron |-> schedules[s].cron]

GetDueScheduledTasks(j) ==
  /\ scans[j].stage = "idle"
  /\ \E s \in Schedules : IsDue(s)
  /\ SetScan(j, [Idle EXCEPT !.stage = "claim",
                             !.todo = {DueRow(s) : s \in {x \in Schedules : IsDue(x)}}])
  /\ UNCHANGED <<schedules, created, counters, restored>>

(* On to the next due row, if there is one.                                  *)
NextRow(todo) ==
  IF todo = {} THEN Idle ELSE [Idle EXCEPT !.stage = "claim", !.todo = todo]

(* claimDueTaskExecution: UPDATE ... WHERE enabled AND next_run_at = the time *)
(* the scan saw; whether the row was deleted meanwhile does not matter.       *)
ClaimableAnyTime(s, row) == schedules[s].enabled
Claimable(s, row) == schedules[s].enabled /\ schedules[s].nextRun = row.occurrence

(* The rows come in the order of their due times.                             *)
ClaimDue(j, row) ==
  /\ scans[j].stage = "claim"
  /\ row \in scans[j].todo
  /\ \A other \in scans[j].todo : row.occurrence <= other.occurrence
  /\ LET next == NextRun[row.cron][now]
         rest == scans[j].todo \ {row}
     IN  IF Claimable(row.schedule, row)
           THEN /\ schedules' = [schedules EXCEPT ![row.schedule].nextRun = next]
                /\ SetScan(j, [stage |-> "create", todo |-> rest, row |-> row,
                               claimed |-> next])
           ELSE UNCHANGED schedules /\ SetScan(j, NextRow(rest))
  /\ UNCHANGED <<created, counters, restored>>

(* A task for the claimed occurrence; it is whole if createTask got as far as  *)
(* its tags and dependencies.                                                *)
NewTask(row, whole) ==
  [number |-> Cardinality(created), schedule |-> row.schedule,
   occurrence |-> row.occurrence, whole |-> whole]

CreateTaskFromBlueprint(j) ==
  /\ scans[j].stage = "create"
  /\ blueprints[BlueprintOf[scans[j].row.schedule]] # "deleted"
  /\ created' = created \union {NewTask(scans[j].row, TRUE)}
  /\ SetScan(j, [scans[j] EXCEPT !.stage = "complete"])
  /\ UNCHANGED <<schedules, counters, restored>>

(* The blueprint is gone.                                                     *)
BlueprintNotFound(j) ==
  /\ scans[j].stage = "create"
  /\ blueprints[BlueprintOf[scans[j].row.schedule]] = "deleted"
  /\ SetScan(j, [scans[j] EXCEPT !.stage = "rollback"])
  /\ UNCHANGED <<schedules, created, counters, restored>>

(* createTask throws, before its first save or after it (a tag could not be   *)
(* saved, a dependency of the blueprint was deleted).                         *)
CreateTaskFails(j, inserted) ==
  /\ scans[j].stage = "create"
  /\ blueprints[BlueprintOf[scans[j].row.schedule]] # "deleted"
  /\ failures < MaxFailures
  /\ failures' = failures + 1
  /\ created' = created \union (IF inserted THEN {NewTask(scans[j].row, FALSE)}
                                            ELSE {})
  /\ SetScan(j, [scans[j] EXCEPT !.stage = "rollback"])
  /\ UNCHANGED <<schedules, started, crashes, restored>>

CompleteClaimedExecution(j) ==
  /\ scans[j].stage = "complete"
  /\ schedules' = [schedules EXCEPT ![scans[j].row.schedule].lastRun = now]
  /\ SetScan(j, NextRow(scans[j].todo))
  /\ UNCHANGED <<created, counters, restored>>

CompleteFails(j) ==
  /\ scans[j].stage = "complete"
  /\ failures < MaxFailures
  /\ failures' = failures + 1
  /\ SetScan(j, [scans[j] EXCEPT !.stage = "rollback"])
  /\ UNCHANGED <<schedules, created, started, crashes, restored>>

HasTask(row) ==
  \E x \in created : x.schedule = row.schedule /\ x.occurrence = row.occurrence

(* rollbackExecutionClaim: UPDATE ... WHERE next_run_at = the claimed time.    *)
RestorableAlways(j) == TRUE
RestorableNever(j) == FALSE
Restorable(j) == schedules[scans[j].row.schedule].nextRun = scans[j].claimed

RollbackExecutionClaim(j) ==
  /\ scans[j].stage = "rollback"
  /\ LET row == scans[j].row
     IN  IF Restorable(j)
           THEN /\ schedules' = [schedules EXCEPT
                                   ![row.schedule].nextRun = row.occurrence]
                /\ restored' = IF HasTask(row)
                     THEN restored \union {<<row.schedule, row.occurrence>>}
                     ELSE restored
           ELSE UNCHANGED <<schedules, restored>>
  /\ SetScan(j, NextRow(scans[j].todo))
  /\ UNCHANGED <<created, counters>>

(* The rollback itself fails and is only logged.                              *)
RollbackFails(j) ==
  /\ scans[j].stage = "rollback"
  /\ crashes < MaxCrashes
  /\ crashes' = crashes + 1
  /\ SetScan(j, NextRow(scans[j].todo))
  /\ UNCHANGED <<schedules, created, started, failures, restored>>

(* A query of the loop fails: the outer catch ends the scan.                   *)
ScanFails(j) ==
  /\ scans[j].stage = "claim"
  /\ crashes < MaxCrashes
  /\ crashes' = crashes + 1
  /\ SetScan(j, Idle)
  /\ UNCHANGED <<schedules, created, started, failures, restored>>

(* The backend restarts: what was in memory is gone.                           *)
Restart ==
  /\ crashes < MaxCrashes
  /\ crashes' = crashes + 1
  /\ scans' = [j \in Scans |-> Idle]
  /\ updates' = [s \in Schedules |-> None]
  /\ blueprints' = [b \in Blueprints |->
                      IF blueprints[b] = "checked" THEN "live" ELSE blueprints[b]]
  /\ schedules' = [s \in Schedules |->
                     IF schedules[s].life = "checked"
                       THEN [schedules[s] EXCEPT !.life = "absent"]
                       ELSE schedules[s]]
  /\ UNCHANGED <<now, created, started, failures, history>>

Tick ==
  /\ now < MaxTime
  /\ now' = now + 1
  /\ UNCHANGED <<blueprints, schedules, updates, scans, created, counters, history>>

Edits ==
  \/ \E s \in Schedules :
       \/ CheckBlueprint(s)
       \/ \E c \in Crons, enabled \in BOOLEAN : CreateSchedule(s, c, enabled)
       \/ \E enabled \in BOOLEAN : SetEnabled(s, enabled)
       \/ \E c \in Crons : SetCron(s, c)
       \/ SaveUpdate(s)
       \/ DeleteSchedule(s)
  \/ \E b \in Blueprints : CountSchedules(b) \/ RemoveBlueprint(b)

Handle(j) ==
  \/ GetDueScheduledTasks(j)
  \/ \E row \in scans[j].todo : ClaimDue(j, row)
  \/ CreateTaskFromBlueprint(j) \/ BlueprintNotFound(j)
  \/ CompleteClaimedExecution(j) \/ RollbackExecutionClaim(j)

Failure(j) ==
  \/ \E inserted \in BOOLEAN : CreateTaskFails(j, inserted)
  \/ CompleteFails(j) \/ RollbackFails(j) \/ ScanFails(j)

Next ==
  \/ Edits
  \/ \E j \in Scans : Handle(j) \/ Failure(j)
  \/ Restart
  \/ Tick

Spec == Init /\ [][Next]_vars

(* The cron fires every minute and its queries are answered.                   *)
Fairness == \A j \in Scans : WF_vars(Handle(j))

FairSpec == Spec /\ Fairness

(***************************************************************************)
(* Properties.                                                             *)
(***************************************************************************)
Tasks == [number : Nat, schedule : Schedules, occurrence : 0 .. Horizon,
          whole : BOOLEAN]

TypeOK ==
  /\ now \in 0 .. MaxTime
  /\ blueprints \in [Blueprints -> {"live", "checked", "deleted"}]
  /\ schedules \in [Schedules -> Rows]
  /\ updates \in [Schedules -> Rows \union {None}]
  /\ scans \in [Scans -> Handlers]
  /\ created \subseteq Tasks
  /\ started \in 0 .. MaxUpdates
  /\ failures \in 0 .. MaxFailures /\ crashes \in 0 .. MaxCrashes
  /\ putBack \subseteq Schedules \X (0 .. Horizon)
  /\ restored \subseteq Schedules \X (0 .. Horizon)

Holds(j) == scans[j].stage \in {"create", "complete", "rollback"}
OccurrenceOf(j) == <<scans[j].row.schedule, scans[j].row.occurrence>>

(* "Atomically claims a due scheduled task execution by advancing nextRunAt":  *)
(* two scans never work on the same occurrence, unless the save of an update   *)
(* put it back.                                                                *)
ClaimExclusive ==
  \A i, j \in Scans :
    Holds(i) /\ Holds(j) /\ OccurrenceOf(i) = OccurrenceOf(j) =>
      i = j \/ OccurrenceOf(i) \in putBack

(* An occurrence gets a second task only after a rollback that came when the   *)
(* first was already inserted, or an update's save that put it back.           *)
NoUnexplainedDuplicate ==
  \A x, y \in created :
    x.schedule = y.schedule /\ x.occurrence = y.occurrence =>
      x = y \/ <<x.schedule, x.occurrence>> \in putBack \union restored

(* A due schedule soon gets one more whole task, whatever transient failures   *)
(* creations meet.  It need not be the task of the occurrence that was due: a  *)
(* creation that fails after the next occurrence was claimed is not retried,   *)
(* and one retried late stands for the occurrences missed meanwhile.  Edits,   *)
(* failing rollbacks and restarts are excused.                                 *)
TasksOf(s) == Cardinality({x \in created : x.schedule = s /\ x.whole})

DueScheduleRuns ==
  \A s \in Schedules, n \in 0 .. MaxTime + MaxFailures + MaxUpdates :
    (IsDue(s) /\ TasksOf(s) = n)
      ~> \/ TasksOf(s) > n
         \/ schedules[s].life # "live" \/ ~schedules[s].enabled
         \/ updates[s] # None
         \/ blueprints[BlueprintOf[s]] = "deleted"
         \/ crashes > 0

(* A rollback never undoes what an update or a later claim did to the row: a   *)
(* scan moves nextRun back only from the value it had itself put there.        *)
RollbackUndoesOwnClaim ==
  [][\A s \in Schedules :
       /\ schedules'[s].nextRun < schedules[s].nextRun
       /\ updates[s] = updates'[s]
       => \E j \in Scans : /\ Holds(j) /\ scans[j].row.schedule = s
                           /\ scans[j].claimed = schedules[s].nextRun]_vars

=============================================================================
