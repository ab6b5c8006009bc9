------------------------ MODULE ScheduledTasksProofs -------------------------
(***************************************************************************)
(* A claim of a scheduled occurrence is exclusive, and a second task for an *)
(* occurrence has one of two explanations, for any number of schedules,     *)
(* overlapping scans, updates, failures and restarts.                      *)
(***************************************************************************)
EXTENDS ScheduledTasks, FiniteSetTheorems, TLAPS

(* A row that was saved once has a cron expression.                          *)
HasCron(row) == row.life \in {"live", "deleted"} => row.cron \in Crons

SavedRowsHaveCron ==
  \A s \in Schedules :
    HasCron(schedules[s]) /\ (updates[s] # None => HasCron(updates[s]))

(* Whatever a scan works on was due when it looked.                           *)
WasDue ==
  \A j \in Scans :
    /\ \A row \in scans[j].todo : row.occurrence <= now
    /\ Holds(j) => scans[j].row \in Due /\ scans[j].row.occurrence <= now

(* The row has moved on from an occurrence that a scan holds.                 *)
MovedOn ==
  \A j \in Scans :
    Holds(j) /\ OccurrenceOf(j) \notin putBack =>
      schedules[scans[j].row.schedule].nextRun # scans[j].row.occurrence

(* It has moved on from an occurrence that has its task, and no scan is about *)
(* to create another.                                                         *)
Settled ==
  \A x \in created :
    /\ x.occurrence <= now
    /\ <<x.schedule, x.occurrence>> \notin putBack \union restored =>
         /\ schedules[x.schedule].nextRun # x.occurrence
         /\ \A j \in Scans :
              scans[j].stage = "create" =>
                OccurrenceOf(j) # <<x.schedule, x.occurrence>>

IInv ==
  /\ TypeOK /\ SavedRowsHaveCron /\ IsFiniteSet(created)
  /\ WasDue /\ MovedOn /\ ClaimExclusive /\ Settled /\ NoUnexplainedDuplicate

(* Without schedules and scans the invariant holds.                          *)
LEMMA InitIInv == Init => IInv
<1>. SUFFICES ASSUME Init PROVE IInv
  OBVIOUS
<1>1. TypeOK
  BY ScheduleAssumption
     DEF Init, TypeOK, Rows, Handlers, Idle, ScheduleAssumption
<1>2. SavedRowsHaveCron /\ WasDue /\ MovedOn /\ ClaimExclusive
  BY DEF Init, SavedRowsHaveCron, HasCron, WasDue, MovedOn, ClaimExclusive, Holds,
         Idle
<1>3. Settled /\ NoUnexplainedDuplicate /\ IsFiniteSet(created)
  BY FS_EmptySet DEF Init, Settled, NoUnexplainedDuplicate
<1>. QED
  BY <1>1, <1>2, <1>3 DEF IInv

(* Steps that neither claim, nor create, nor restore: a scan keeps what it    *)
(* held or lets go of it, and a row moves on to the future or to what an      *)
(* update put back.                                                           *)
LEMMA MildStep ==
  ASSUME IInv, TypeOK', SavedRowsHaveCron',
         created' = created, now <= now',
         putBack \subseteq putBack', restored \subseteq restored',
         \A s \in Schedules :
           \/ schedules'[s].nextRun = schedules[s].nextRun
           \/ schedules'[s].nextRun > now'
           \/ <<s, schedules'[s].nextRun>> \in putBack',
         \A j \in Scans :
           /\ \A row \in scans'[j].todo : row.occurrence <= now'
           /\ Holds(j)' => Holds(j) /\ scans'[j].row = scans[j].row
           /\ scans'[j].stage = "create" => scans[j].stage = "create"
  PROVE  IInv'
<1>1. now \in Nat /\ now' \in Nat
  BY ScheduleAssumption DEF IInv, TypeOK, ScheduleAssumption
<1>2. IsFiniteSet(created)'
  BY DEF IInv
<1>3. \A j \in Scans : Holds(j)' =>
        /\ Holds(j) /\ scans'[j].row = scans[j].row /\ OccurrenceOf(j)' = OccurrenceOf(j)
        /\ scans[j].row \in Due
        /\ scans[j].row.schedule \in Schedules /\ scans[j].row.occurrence \in Nat
        /\ scans[j].row.occurrence <= now
  BY ScheduleAssumption DEF IInv, WasDue, OccurrenceOf, Due, ScheduleAssumption
<1>4. \A s \in Schedules : schedules'[s].nextRun \in Nat
  BY ScheduleAssumption DEF TypeOK, Rows, ScheduleAssumption
<1>5. WasDue'
  BY <1>1, <1>3 DEF WasDue
<1>6. MovedOn'
  BY <1>1, <1>3, <1>4 DEF IInv, MovedOn, OccurrenceOf
<1>7. ClaimExclusive'
  BY <1>3 DEF IInv, ClaimExclusive
<1>8. Settled'
  <2>. SUFFICES ASSUME NEW x \in created
       PROVE  /\ x.occurrence <= now'
              /\ <<x.schedule, x.occurrence>> \notin putBack' \union restored' =>
                   /\ schedules'[x.schedule].nextRun # x.occurrence
                   /\ \A j \in Scans :
                        scans'[j].stage = "create" =>
                          OccurrenceOf(j)' # <<x.schedule, x.occurrence>>
    BY DEF Settled
  <2>1. x.schedule \in Schedules /\ x.occurrence \in Nat /\ x.occurrence <= now
    <3>1. x \in Tasks
      BY DEF IInv, TypeOK
    <3>2. x.occurrence <= now
      BY DEF IInv, Settled
    <3>. QED
      BY <3>1, <3>2, ScheduleAssumption DEF Tasks, ScheduleAssumption
  <2>2. ASSUME <<x.schedule, x.occurrence>> \notin putBack' \union restored'
        PROVE  schedules'[x.schedule].nextRun # x.occurrence
    BY <1>1, <1>4, <2>1, <2>2 DEF IInv, Settled
  <2>3. ASSUME <<x.schedule, x.occurrence>> \notin putBack' \union restored',
               NEW j \in Scans, scans'[j].stage = "create"
        PROVE  OccurrenceOf(j)' # <<x.schedule, x.occurrence>>
    BY <1>3, <2>3 DEF IInv, Settled, Holds
  <2>. QED
    BY <1>1, <2>1, <2>2, <2>3
<1>9. NoUnexplainedDuplicate'
  BY DEF IInv, NoUnexplainedDuplicate
<1>. QED
  BY <1>2, <1>5, <1>6, <1>7, <1>8, <1>9 DEF IInv

(***************************************************************************)
(* Types of the values the actions write.                                  *)
(***************************************************************************)
LEMMA NextRunLater ==
  ASSUME TypeOK, NEW c \in Crons
  PROVE  NextRun[c][now] \in 0 .. Horizon /\ NextRun[c][now] > now
BY ScheduleAssumption DEF TypeOK, ScheduleAssumption

(* What a scan goes on with has the type of a handler.                       *)
LEMMA NextRowType ==
  ASSUME NEW todo \in SUBSET Due
  PROVE  /\ NextRow(todo) \in Handlers
         /\ NextRow(todo).todo \subseteq todo
         /\ NextRow(todo).stage \in {"idle", "claim"}
BY DEF NextRow, Idle, Handlers

(***************************************************************************)
(* Edits of schedules and blueprints.                                      *)
(***************************************************************************)
LEMMA RowStep ==
  ASSUME IInv, NEW s \in Schedules, NEW row \in Rows, SetRow(s, row),
         HasCron(row), updates' \in [Schedules -> Rows \union {None}],
         \A u \in Schedules : updates'[u] = None \/ updates'[u] = updates[u],
         putBack \subseteq putBack', putBack' \subseteq Schedules \X (0 .. Horizon),
         \/ row.nextRun = schedules[s].nextRun
         \/ row.nextRun > now
         \/ <<s, row.nextRun>> \in putBack'
  PROVE  IInv'
<1>1. /\ schedules' = [schedules EXCEPT ![s] = row]
      /\ UNCHANGED <<now, blueprints, scans, created, started, failures, crashes,
                     restored>>
  BY DEF SetRow, counters
<1>2. TypeOK'
  BY <1>1 DEF IInv, TypeOK
<1>3. SavedRowsHaveCron'
  BY <1>1 DEF IInv, TypeOK, SavedRowsHaveCron, HasCron
<1>4. \A u \in Schedules :
        \/ schedules'[u].nextRun = schedules[u].nextRun
        \/ schedules'[u].nextRun > now'
        \/ <<u, schedules'[u].nextRun>> \in putBack'
  BY <1>1 DEF IInv, TypeOK
<1>5. \A j \in Scans :
        /\ \A r \in scans'[j].todo : r.occurrence <= now'
        /\ Holds(j)' => Holds(j) /\ scans'[j].row = scans[j].row
        /\ scans'[j].stage = "create" => scans[j].stage = "create"
  BY <1>1 DEF IInv, WasDue, Holds
<1>6. created' = created /\ now <= now' /\ restored \subseteq restored'
  BY <1>1, ScheduleAssumption DEF IInv, TypeOK, ScheduleAssumption
<1>. QED
  BY <1>2, <1>3, <1>4, <1>5, <1>6, MildStep

(* updateScheduledTask, its load: only the entity in memory changes.         *)
LEMMA LoadStep ==
  ASSUME IInv, NEW s \in Schedules, NEW row \in Rows, HasCron(row),
         LoadForUpdate(s, row)
  PROVE  IInv'
<1>1. /\ updates' = [updates EXCEPT ![s] = row]
      /\ started < MaxUpdates /\ started' = started + 1
      /\ UNCHANGED <<now, blueprints, schedules, scans, created, failures, crashes,
                     putBack, restored>>
  BY DEF LoadForUpdate, history
<1>2. started' \in 0 .. MaxUpdates
  BY <1>1, ScheduleAssumption DEF IInv, TypeOK, ScheduleAssumption
<1>3. TypeOK'
  BY <1>1, <1>2 DEF IInv, TypeOK
<1>4. SavedRowsHaveCron'
  BY <1>1 DEF IInv, TypeOK, SavedRowsHaveCron, HasCron
<1>5. now <= now'
  BY <1>1, ScheduleAssumption DEF IInv, TypeOK, ScheduleAssumption
<1>6. \A j \in Scans :
        /\ \A r \in scans'[j].todo : r.occurrence <= now'
        /\ Holds(j)' => Holds(j) /\ scans'[j].row = scans[j].row
        /\ scans'[j].stage = "create" => scans[j].stage = "create"
  BY <1>1 DEF IInv, WasDue, Holds
<1>. QED
  BY <1>1, <1>3, <1>4, <1>5, <1>6, MildStep

(* Users' edits: a row gets a future time, or one that is noted as put back. *)
LEMMA EditStep ==
  ASSUME IInv, Edits
  PROVE  IInv'
<1>. TypeOK /\ SavedRowsHaveCron /\ now \in Nat
  BY ScheduleAssumption DEF IInv, TypeOK, ScheduleAssumption
<1>rows. \A s \in Schedules : schedules[s] \in Rows
  BY DEF TypeOK
<1>1. ASSUME NEW s \in Schedules, CheckBlueprint(s)
      PROVE  IInv'
  <2>. DEFINE row == [schedules[s] EXCEPT !.life = "checked"]
  <2>1. row \in Rows /\ HasCron(row) /\ row.nextRun = schedules[s].nextRun
    BY <1>rows DEF Rows, HasCron
  <2>2. SetRow(s, row) /\ UNCHANGED <<updates, putBack>>
    BY <1>1 DEF CheckBlueprint
  <2>. HIDE DEF row
  <2>. QED
    BY <2>1, <2>2, RowStep DEF TypeOK
<1>2. ASSUME NEW s \in Schedules, NEW c \in Crons, NEW enabled \in BOOLEAN,
             CreateSchedule(s, c, enabled)
      PROVE  IInv'
  <2>. DEFINE row == [life |-> "live", enabled |-> enabled, cron |-> c,
                      nextRun |-> NextRun[c][now], lastRun |-> None]
  <2>1. row \in Rows /\ HasCron(row) /\ row.nextRun > now
    BY NextRunLater DEF Rows, HasCron
  <2>2. SetRow(s, row) /\ UNCHANGED <<updates, putBack>>
    BY <1>2 DEF CreateSchedule
  <2>. HIDE DEF row
  <2>. QED
    BY <2>1, <2>2, RowStep DEF TypeOK
<1>3. ASSUME NEW s \in Schedules, NEW enabled \in BOOLEAN, SetEnabled(s, enabled)
      PROVE  IInv'
  <2>. DEFINE row == [schedules[s] EXCEPT !.enabled = enabled]
  <2>1. row \in Rows /\ HasCron(row)
    BY <1>rows DEF Rows, HasCron, SavedRowsHaveCron
  <2>2. LoadForUpdate(s, row)
    BY <1>3 DEF SetEnabled
  <2>. HIDE DEF row
  <2>. QED
    BY <2>1, <2>2, LoadStep
<1>4. ASSUME NEW s \in Schedules, NEW c \in Crons, SetCron(s, c)
      PROVE  IInv'
  <2>. DEFINE row == [schedules[s] EXCEPT !.cron = c, !.nextRun = NextRun[c][now]]
  <2>1. row \in Rows /\ HasCron(row)
    BY <1>rows, NextRunLater DEF Rows, HasCron
  <2>2. LoadForUpdate(s, row)
    BY <1>4 DEF SetCron
  <2>. HIDE DEF row
  <2>. QED
    BY <2>1, <2>2, LoadStep
<1>5. ASSUME NEW s \in Schedules, SaveUpdate(s)
      PROVE  IInv'
  <2>1. /\ updates[s] # None /\ SetRow(s, updates[s])
        /\ updates' = [updates EXCEPT ![s] = None]
        /\ putBack' = IF updates[s].nextRun <= now
                        THEN putBack \union {<<s, updates[s].nextRun>>} ELSE putBack
    BY <1>5 DEF SaveUpdate
  <2>2. updates[s] \in Rows /\ HasCron(updates[s])
    BY <2>1 DEF TypeOK, SavedRowsHaveCron
  <2>3. updates[s].nextRun \in 0 .. Horizon /\ 0 .. Horizon \subseteq Nat
    BY <2>2, ScheduleAssumption DEF Rows, ScheduleAssumption
  <2>4. /\ putBack \subseteq putBack'
        /\ putBack' \subseteq Schedules \X (0 .. Horizon)
        /\ updates[s].nextRun > now \/ <<s, updates[s].nextRun>> \in putBack'
    BY <2>1, <2>3 DEF TypeOK
  <2>5. /\ updates' \in [Schedules -> Rows \union {None}]
        /\ \A u \in Schedules : updates'[u] = None \/ updates'[u] = updates[u]
    BY <2>1 DEF TypeOK
  <2>. QED
    BY <2>1, <2>2, <2>4, <2>5, RowStep
<1>6. ASSUME NEW s \in Schedules, DeleteSchedule(s)
      PROVE  IInv'
  <2>. DEFINE row == [schedules[s] EXCEPT !.life = "deleted"]
  <2>1. row \in Rows /\ HasCron(row) /\ row.nextRun = schedules[s].nextRun
    BY <1>6, <1>rows DEF Rows, HasCron, SavedRowsHaveCron, DeleteSchedule
  <2>2. SetRow(s, row) /\ UNCHANGED <<updates, putBack>>
    BY <1>6 DEF DeleteSchedule
  <2>. HIDE DEF row
  <2>. QED
    BY <2>1, <2>2, RowStep DEF TypeOK
<1>7. ASSUME NEW b \in Blueprints, CountSchedules(b) \/ RemoveBlueprint(b)
      PROVE  IInv'
  <2>1. PICK life \in {"checked", "deleted"} : SetBlueprint(b, life)
    BY <1>7 DEF CountSchedules, RemoveBlueprint
  <2>2. /\ blueprints' = [blueprints EXCEPT ![b] = life]
        /\ UNCHANGED <<now, schedules, updates, scans, created, started, failures,
                       crashes, putBack, restored>>
    BY <2>1 DEF SetBlueprint, counters, history
  <2>3. TypeOK' /\ SavedRowsHaveCron' /\ now <= now'
    BY <2>2 DEF TypeOK, SavedRowsHaveCron
  <2>4. \A j \in Scans :
          /\ \A r \in scans'[j].todo : r.occurrence <= now'
          /\ Holds(j)' => Holds(j) /\ scans'[j].row = scans[j].row
          /\ scans'[j].stage = "create" => scans[j].stage = "create"
    BY <2>2 DEF IInv, WasDue, Holds
  <2>. QED
    BY <2>2, <2>3, <2>4, MildStep
<1>. QED
  BY <1>1, <1>2, <1>3, <1>4, <1>5, <1>6, <1>7 DEF Edits

(***************************************************************************)
(* Steps of a scan that neither claim, nor insert a task, nor restore.      *)
(***************************************************************************)
LEMMA ScanStep ==
  ASSUME IInv, NEW j \in Scans, NEW scan \in Handlers, SetScan(j, scan),
         \A r \in scan.todo : r.occurrence <= now,
         scan.stage \in {"create", "complete", "rollback"} =>
           Holds(j) /\ scan.row = scans[j].row,
         scan.stage = "create" => scans[j].stage = "create",
         schedules' \in [Schedules -> Rows],
         \A s \in Schedules : /\ schedules'[s].nextRun = schedules[s].nextRun
                              /\ HasCron(schedules'[s]),
         UNCHANGED <<created, started, restored>>,
         failures' \in 0 .. MaxFailures, crashes' \in 0 .. MaxCrashes
  PROVE  IInv'
<1>1. /\ scans' = [scans EXCEPT ![j] = scan]
      /\ UNCHANGED <<now, blueprints, updates, putBack>>
  BY DEF SetScan
<1>2. TypeOK'
  BY <1>1 DEF IInv, TypeOK
<1>3. SavedRowsHaveCron'
  BY <1>1 DEF IInv, SavedRowsHaveCron, HasCron
<1>4. now <= now'
  BY <1>1, ScheduleAssumption DEF IInv, TypeOK, ScheduleAssumption
<1>5. ASSUME NEW i \in Scans
      PROVE  /\ \A r \in scans'[i].todo : r.occurrence <= now'
             /\ Holds(i)' => Holds(i) /\ scans'[i].row = scans[i].row
             /\ scans'[i].stage = "create" => scans[i].stage = "create"
  <2>1. CASE i = j
    <3>1. scans'[i] = scan
      BY <1>1, <2>1 DEF IInv, TypeOK
    <3>. QED
      BY <1>1, <2>1, <3>1 DEF Holds
  <2>2. CASE i # j
    <3>1. scans'[i] = scans[i]
      BY <1>1, <2>2 DEF IInv, TypeOK
    <3>. QED
      BY <1>1, <3>1 DEF IInv, WasDue, Holds
  <2>. QED
    BY <2>1, <2>2
<1>. QED
  BY <1>1, <1>2, <1>3, <1>4, <1>5, MildStep

(* What a scan that holds an occurrence knows about it.                       *)
LEMMA HeldRow ==
  ASSUME IInv, NEW j \in Scans, Holds(j)
  PROVE  /\ scans[j].row \in Due /\ scans[j].row.schedule \in Schedules
         /\ scans[j].row.occurrence \in 0 .. Horizon
         /\ scans[j].row.occurrence <= now
BY DEF IInv, WasDue, Due

(* Letting go of the row in hand, or of the whole scan.                       *)
LEMMA LetGo ==
  ASSUME IInv, NEW j \in Scans, NEW todo \in SUBSET scans[j].todo
  PROVE  /\ NextRow(todo) \in Handlers
         /\ \A r \in NextRow(todo).todo : r.occurrence <= now
         /\ NextRow(todo).stage \in {"idle", "claim"}
<1>1. todo \in SUBSET Due
  BY DEF IInv, TypeOK, Handlers
<1>2. \A r \in todo : r.occurrence <= now
  BY DEF IInv, WasDue
<1>. QED
  BY <1>1, <1>2, NextRowType

(* Steps in which a scan neither claims, nor creates, nor restores.          *)
LEMMA QuietScanStep ==
  ASSUME IInv, NEW j \in Scans,
         \/ GetDueScheduledTasks(j)
         \/ \E row \in scans[j].todo :
              ClaimDue(j, row) /\ ~Claimable(row.schedule, row)
         \/ BlueprintNotFound(j) \/ CompleteClaimedExecution(j)
         \/ RollbackExecutionClaim(j) /\ ~Restorable(j)
         \/ CreateTaskFails(j, FALSE)
         \/ CompleteFails(j) \/ RollbackFails(j) \/ ScanFails(j)
  PROVE  IInv'
<1>. TypeOK /\ SavedRowsHaveCron
  BY DEF IInv
<1>same. ASSUME UNCHANGED schedules
         PROVE  /\ schedules' \in [Schedules -> Rows]
                /\ \A s \in Schedules :
                     /\ schedules'[s].nextRun = schedules[s].nextRun
                     /\ HasCron(schedules'[s])
  BY <1>same DEF TypeOK, SavedRowsHaveCron
<1>fail. /\ failures < MaxFailures => failures + 1 \in 0 .. MaxFailures
         /\ crashes < MaxCrashes => crashes + 1 \in 0 .. MaxCrashes
         /\ failures \in 0 .. MaxFailures /\ crashes \in 0 .. MaxCrashes
  BY ScheduleAssumption DEF TypeOK, ScheduleAssumption
<1>rest. \A r \in scans[j].todo : r.occurrence <= now
  BY DEF IInv, WasDue
<1>1. CASE GetDueScheduledTasks(j)
  <2>. DEFINE due == {DueRow(s) : s \in {x \in Schedules : IsDue(x)}}
              scan == [Idle EXCEPT !.stage = "claim", !.todo = due]
  <2>1. \A r \in due : r \in Due /\ r.occurrence <= now
    BY DEF DueRow, IsDue, Due, TypeOK, Rows, SavedRowsHaveCron, HasCron
  <2>2. scan \in Handlers /\ scan.stage = "claim" /\ scan.todo = due
    BY <2>1 DEF Idle, Handlers
  <2>3. SetScan(j, scan) /\ UNCHANGED <<schedules, created, started, failures,
                                        crashes, restored>>
    BY <1>1 DEF GetDueScheduledTasks, counters
  <2>. HIDE DEF scan, due
  <2>. QED
    BY <1>same, <1>fail, <2>1, <2>2, <2>3, ScanStep
<1>2. ASSUME NEW row \in scans[j].todo, ClaimDue(j, row),
             ~Claimable(row.schedule, row)
      PROVE  IInv'
  <2>1. /\ SetScan(j, NextRow(scans[j].todo \ {row}))
        /\ UNCHANGED <<schedules, created, started, failures, crashes, restored>>
    BY <1>2 DEF ClaimDue, counters
  <2>. QED
    BY <1>same, <1>fail, <2>1, LetGo, ScanStep
<1>3. CASE BlueprintNotFound(j) \/ CreateTaskFails(j, FALSE) \/ CompleteFails(j)
  <2>. DEFINE scan == [scans[j] EXCEPT !.stage = "rollback"]
  <2>1. /\ scan \in Handlers /\ scan.row = scans[j].row /\ scan.stage = "rollback"
        /\ scan.todo = scans[j].todo
    BY DEF TypeOK, Handlers
  <2>2. /\ SetScan(j, scan) /\ Holds(j)
        /\ UNCHANGED <<schedules, created, started, restored>>
        /\ failures' \in 0 .. MaxFailures /\ crashes' \in 0 .. MaxCrashes
    BY <1>3, <1>fail
       DEF BlueprintNotFound, CreateTaskFails, CompleteFails, counters, Holds
  <2>. HIDE DEF scan
  <2>. QED
    BY <1>same, <1>rest, <2>1, <2>2, ScanStep
<1>4. CASE CompleteClaimedExecution(j)
  <2>. DEFINE s == scans[j].row.schedule
  <2>1. /\ Holds(j) /\ SetScan(j, NextRow(scans[j].todo))
        /\ schedules' = [schedules EXCEPT ![s].lastRun = now]
        /\ UNCHANGED <<created, started, failures, crashes, restored>>
    BY <1>4 DEF CompleteClaimedExecution, counters, Holds
  <2>2. s \in Schedules
    BY <2>1, HeldRow
  <2>3. schedules' \in [Schedules -> Rows]
    BY <2>1, <2>2 DEF TypeOK, Rows
  <2>4. \A u \in Schedules : /\ schedules'[u].nextRun = schedules[u].nextRun
                             /\ HasCron(schedules'[u])
    BY <2>1, <2>2 DEF TypeOK, Rows, SavedRowsHaveCron, HasCron
  <2>. QED
    BY <1>fail, <2>1, <2>3, <2>4, LetGo, ScanStep
<1>5. CASE \/ RollbackExecutionClaim(j) /\ ~Restorable(j)
           \/ RollbackFails(j)
  <2>1. /\ SetScan(j, NextRow(scans[j].todo))
        /\ UNCHANGED <<schedules, created, started, restored>>
        /\ failures' \in 0 .. MaxFailures /\ crashes' \in 0 .. MaxCrashes
    BY <1>5, <1>fail DEF RollbackExecutionClaim, RollbackFails, counters
  <2>. QED
    BY <1>same, <2>1, LetGo, ScanStep
<1>6. CASE ScanFails(j)
  <2>1. /\ SetScan(j, Idle)
        /\ UNCHANGED <<schedules, created, started, restored>>
        /\ failures' \in 0 .. MaxFailures /\ crashes' \in 0 .. MaxCrashes
    BY <1>6, <1>fail DEF ScanFails
  <2>2. Idle \in Handlers /\ Idle.todo = {} /\ Idle.stage = "idle"
    BY DEF Idle, Handlers
  <2>. QED
    BY <1>same, <2>1, <2>2, ScanStep
<1>. QED
  BY <1>1, <1>2, <1>3, <1>4, <1>5, <1>6

(***************************************************************************)
(* A claim that succeeds: the row was still at the occurrence, so nobody    *)
(* held it and it had no task.                                             *)
(***************************************************************************)
LEMMA ClaimStep ==
  ASSUME IInv, NEW j \in Scans, NEW row \in scans[j].todo, ClaimDue(j, row),
         Claimable(row.schedule, row)
  PROVE  IInv'
<1>. DEFINE s == row.schedule
            next == NextRun[row.cron][now]
            scan == [stage |-> "create", todo |-> scans[j].todo \ {row},
                     row |-> row, claimed |-> next]
<1>1. /\ row \in Due /\ s \in Schedules /\ row.cron \in Crons
      /\ row.occurrence \in 0 .. Horizon /\ row.occurrence <= now
  BY DEF IInv, TypeOK, Handlers, WasDue, Due
<1>2. next \in 0 .. Horizon /\ next > now
  BY <1>1, NextRunLater DEF IInv
<1>3. /\ 0 .. Horizon \subseteq Nat /\ now \in Nat
      /\ \A u \in Schedules : schedules[u].nextRun \in 0 .. Horizon
  BY ScheduleAssumption DEF IInv, TypeOK, Rows, ScheduleAssumption
<1>4. /\ schedules' = [schedules EXCEPT ![s].nextRun = next]
      /\ scans' = [scans EXCEPT ![j] = scan]
      /\ schedules[s].nextRun = row.occurrence
      /\ UNCHANGED <<now, blueprints, updates, putBack, created, started, failures,
                     crashes, restored>>
  BY DEF ClaimDue, SetScan, Claimable, counters
<1>5. scan \in Handlers
  BY <1>1, <1>2 DEF IInv, TypeOK, Handlers
<1>6. /\ scans'[j] = scan
      /\ \A i \in Scans : i # j => scans'[i] = scans[i]
      /\ \A u \in Schedules :
           schedules'[u] = IF u = s THEN [schedules[u] EXCEPT !.nextRun = next]
                                    ELSE schedules[u]
  BY <1>4 DEF IInv, TypeOK
<1>. /\ scan.row = row /\ scan.stage = "create"
     /\ scan.todo = scans[j].todo \ {row} /\ scan.claimed = next
  OBVIOUS
<1>. HIDE DEF scan, next
<1>7. /\ Holds(j)' /\ OccurrenceOf(j)' = <<s, row.occurrence>>
      /\ \A i \in Scans \ {j} : /\ Holds(i)' = Holds(i)
                                /\ OccurrenceOf(i)' = OccurrenceOf(i)
  BY <1>6 DEF Holds, OccurrenceOf
<1>8. /\ schedules'[s].nextRun = next
      /\ \A u \in Schedules \ {s} : schedules'[u] = schedules[u]
  <2>1. schedules[s] \in Rows
    BY <1>1 DEF IInv, TypeOK
  <2>2. [schedules[s] EXCEPT !.nextRun = next].nextRun = next
    BY <2>1 DEF Rows
  <2>. QED
    BY <1>1, <1>6, <2>2
<1>9. TypeOK'
  BY <1>1, <1>2, <1>4, <1>5 DEF IInv, TypeOK, Rows
<1>10. SavedRowsHaveCron'
  BY <1>1, <1>4, <1>6 DEF IInv, TypeOK, Rows, SavedRowsHaveCron, HasCron
<1>11. WasDue'
  BY <1>1, <1>4, <1>6 DEF IInv, WasDue, Holds
<1>12. MovedOn'
  <2>. SUFFICES ASSUME NEW i \in Scans, Holds(i)', OccurrenceOf(i)' \notin putBack
       PROVE  schedules'[scans'[i].row.schedule].nextRun # scans'[i].row.occurrence
    BY <1>4 DEF MovedOn
  <2>1. CASE i = j
    BY <1>1, <1>2, <1>3, <1>6, <1>8, <2>1
  <2>2. CASE i # j
    <3>1. /\ scans'[i] = scans[i] /\ Holds(i)
          /\ schedules[scans[i].row.schedule].nextRun # scans[i].row.occurrence
      BY <1>6, <1>7, <2>2 DEF IInv, MovedOn
    <3>2. /\ scans[i].row.schedule \in Schedules
          /\ scans[i].row.occurrence \in 0 .. Horizon
          /\ scans[i].row.occurrence <= now
      BY <3>1, HeldRow
    <3>. QED
      BY <1>2, <1>3, <1>8, <3>1, <3>2
  <2>. QED
    BY <2>1, <2>2
<1>13. \A i \in Scans : Holds(i) /\ OccurrenceOf(i) = <<s, row.occurrence>> =>
         <<s, row.occurrence>> \in putBack
  BY <1>4 DEF IInv, MovedOn, OccurrenceOf
<1>14. ClaimExclusive'
  BY <1>4, <1>7, <1>13 DEF IInv, ClaimExclusive
<1>15. Settled'
  <2>. SUFFICES ASSUME NEW x \in created
       PROVE  /\ x.occurrence <= now
              /\ <<x.schedule, x.occurrence>> \notin putBack \union restored =>
                   /\ schedules'[x.schedule].nextRun # x.occurrence
                   /\ \A i \in Scans :
                        scans'[i].stage = "create" =>
                          OccurrenceOf(i)' # <<x.schedule, x.occurrence>>
    BY <1>4 DEF Settled
  <2>1. x \in Tasks
    BY DEF IInv, TypeOK
  <2>2. x.schedule \in Schedules /\ x.occurrence \in 0 .. Horizon
    BY <2>1 DEF Tasks
  <2>3. x.occurrence <= now
    BY DEF IInv, Settled
  <2>4. ASSUME <<x.schedule, x.occurrence>> \notin putBack \union restored
        PROVE  /\ schedules[x.schedule].nextRun # x.occurrence
               /\ \A i \in Scans :
                    scans[i].stage = "create" =>
                      OccurrenceOf(i) # <<x.schedule, x.occurrence>>
    BY <2>4 DEF IInv, Settled
  <2>5. ASSUME <<x.schedule, x.occurrence>> \notin putBack \union restored
        PROVE  schedules'[x.schedule].nextRun # x.occurrence
    BY <1>2, <1>3, <1>8, <2>2, <2>3, <2>4, <2>5
  <2>6. ASSUME <<x.schedule, x.occurrence>> \notin putBack \union restored,
               NEW i \in Scans, scans'[i].stage = "create"
        PROVE  OccurrenceOf(i)' # <<x.schedule, x.occurrence>>
    BY <1>4, <1>6, <1>7, <2>4, <2>6
  <2>. QED
    BY <2>3, <2>5, <2>6
<1>16. NoUnexplainedDuplicate' /\ IsFiniteSet(created)'
  BY <1>4 DEF IInv, NoUnexplainedDuplicate
<1>. QED
  BY <1>9, <1>10, <1>11, <1>12, <1>14, <1>15, <1>16 DEF IInv

(***************************************************************************)
(* A task is inserted, by a creation that then succeeds or fails: the       *)
(* occurrence had none, and no other scan is about to insert one.           *)
(***************************************************************************)
LEMMA InsertStep ==
  ASSUME IInv, NEW j \in Scans,
         CreateTaskFromBlueprint(j) \/ CreateTaskFails(j, TRUE)
  PROVE  IInv'
<1>. DEFINE row == scans[j].row
<1>1. PICK whole \in BOOLEAN, stage \in {"complete", "rollback"} :
        /\ scans[j].stage = "create"
        /\ created' = created \union {NewTask(row, whole)}
        /\ scans' = [scans EXCEPT ![j] = [scans[j] EXCEPT !.stage = stage]]
        /\ failures' = failures \/ (failures < MaxFailures /\ failures' = failures + 1)
        /\ UNCHANGED <<now, blueprints, schedules, updates, putBack, started,
                       crashes, restored>>
  <2>. DEFINE Inserted(whole, stage) ==
         /\ scans[j].stage = "create"
         /\ created' = created \union {NewTask(row, whole)}
         /\ scans' = [scans EXCEPT ![j] = [scans[j] EXCEPT !.stage = stage]]
         /\ failures' = failures \/ (failures < MaxFailures /\ failures' = failures + 1)
         /\ UNCHANGED <<now, blueprints, schedules, updates, putBack, started,
                        crashes, restored>>
  <2>1. ASSUME CreateTaskFromBlueprint(j)
        PROVE  Inserted(TRUE, "complete")
    BY <2>1 DEF CreateTaskFromBlueprint, SetScan, counters
  <2>2. ASSUME CreateTaskFails(j, TRUE)
        PROVE  Inserted(FALSE, "rollback")
    BY <2>2 DEF CreateTaskFails, SetScan
  <2>3. \E whole \in BOOLEAN, stage \in {"complete", "rollback"} : Inserted(whole, stage)
    <3>. HIDE DEF Inserted
    <3>. QED
      BY <2>1, <2>2, Zenon
  <2>. QED
    BY <2>3
<1>. DEFINE new == NewTask(row, whole)
<1>2. /\ Holds(j) /\ row \in Due /\ row.schedule \in Schedules
      /\ row.occurrence \in 0 .. Horizon /\ row.occurrence <= now
  BY <1>1, HeldRow DEF Holds
<1>3. Cardinality(created) \in Nat
  BY FS_CardinalityType DEF IInv
<1>4. /\ new \in Tasks /\ new.schedule = row.schedule
      /\ new.occurrence = row.occurrence
  BY <1>2, <1>3 DEF NewTask, Tasks
<1>. HIDE DEF new
<1>5. created' = created \union {new}
  BY <1>1 DEF new
<1>6. /\ \A i \in Scans : /\ Holds(i)' = Holds(i)
                          /\ scans'[i].row = scans[i].row
                          /\ scans'[i].todo = scans[i].todo
                          /\ OccurrenceOf(i)' = OccurrenceOf(i)
                          /\ scans'[i].stage = "create" =>
                               i # j /\ scans[i].stage = "create"
      /\ scans' \in [Scans -> Handlers]
  BY <1>1 DEF IInv, TypeOK, Handlers, Holds, OccurrenceOf
<1>7. failures' \in 0 .. MaxFailures
  BY <1>1, ScheduleAssumption DEF IInv, TypeOK, ScheduleAssumption
<1>8. TypeOK'
  BY <1>1, <1>4, <1>5, <1>6, <1>7 DEF IInv, TypeOK
<1>9. IsFiniteSet(created)'
  BY <1>5, FS_AddElement DEF IInv
<1>10. SavedRowsHaveCron' /\ WasDue' /\ MovedOn' /\ ClaimExclusive'
  BY <1>1, <1>6 DEF IInv, SavedRowsHaveCron, HasCron, WasDue, MovedOn, ClaimExclusive
<1>11. OccurrenceOf(j) = <<new.schedule, new.occurrence>>
  BY <1>4 DEF OccurrenceOf
<1>12. ASSUME OccurrenceOf(j) \notin putBack \union restored
       PROVE  /\ schedules[new.schedule].nextRun # new.occurrence
              /\ \A i \in Scans \ {j} : Holds(i) => OccurrenceOf(i) # OccurrenceOf(j)
              /\ \A x \in created : <<x.schedule, x.occurrence>> # OccurrenceOf(j)
  BY <1>1, <1>2, <1>4, <1>12 DEF IInv, MovedOn, ClaimExclusive, Settled
<1>13. Settled'
  <2>1. ASSUME NEW x \in created
        PROVE  /\ x.occurrence <= now
               /\ <<x.schedule, x.occurrence>> \notin putBack \union restored =>
                    /\ schedules[x.schedule].nextRun # x.occurrence
                    /\ \A i \in Scans :
                         scans'[i].stage = "create" =>
                           OccurrenceOf(i)' # <<x.schedule, x.occurrence>>
    BY <1>6 DEF IInv, Settled
  <2>2. /\ new.occurrence <= now
        /\ <<new.schedule, new.occurrence>> \notin putBack \union restored =>
             /\ schedules[new.schedule].nextRun # new.occurrence
             /\ \A i \in Scans :
                  scans'[i].stage = "create" =>
                    OccurrenceOf(i)' # <<new.schedule, new.occurrence>>
    BY <1>2, <1>4, <1>6, <1>11, <1>12 DEF Holds
  <2>. QED
    BY <1>1, <1>5, <2>1, <2>2 DEF Settled
<1>14. NoUnexplainedDuplicate'
  <2>. SUFFICES ASSUME NEW x \in created', NEW y \in created',
                       x.schedule = y.schedule, x.occurrence = y.occurrence, x # y
       PROVE  <<x.schedule, x.occurrence>> \in putBack \union restored
    BY <1>1 DEF NoUnexplainedDuplicate
  <2>1. CASE x \in created /\ y \in created
    BY <2>1 DEF IInv, NoUnexplainedDuplicate
  <2>2. CASE x = new \/ y = new
    BY <1>5, <1>11, <1>12, <2>2
  <2>. QED
    BY <1>5, <2>1, <2>2
<1>. QED
  BY <1>8, <1>9, <1>10, <1>13, <1>14 DEF IInv

(***************************************************************************)
(* A rollback that restores the claim: the scan lets go of the occurrence,  *)
(* and if a task was inserted for it, it is on record as restored.          *)
(***************************************************************************)
LEMMA RestoreStep ==
  ASSUME IInv, NEW j \in Scans, RollbackExecutionClaim(j), Restorable(j)
  PROVE  IInv'
<1>. DEFINE row == scans[j].row
            s == row.schedule
            back == [schedules[s] EXCEPT !.nextRun = row.occurrence]
            scan == NextRow(scans[j].todo)
<1>1. /\ scans[j].stage = "rollback"
      /\ schedules' = [schedules EXCEPT ![s].nextRun = row.occurrence]
      /\ restored' = IF HasTask(row)
                       THEN restored \union {<<s, row.occurrence>>} ELSE restored
      /\ scans' = [scans EXCEPT ![j] = scan]
      /\ UNCHANGED <<now, blueprints, updates, putBack, created, started, failures,
                     crashes>>
  BY DEF RollbackExecutionClaim, SetScan, counters
<1>2. /\ Holds(j) /\ row \in Due /\ s \in Schedules
      /\ row.occurrence \in 0 .. Horizon /\ row.occurrence <= now
  BY <1>1, HeldRow DEF Holds
<1>3. /\ scan \in Handlers /\ scan.stage \in {"idle", "claim"}
      /\ \A r \in scan.todo : r.occurrence <= now
  BY LetGo
<1>4. schedules[s] \in Rows /\ back \in Rows
  <2>1. schedules[s] \in Rows
    BY <1>2 DEF IInv, TypeOK
  <2>. QED
    BY <1>2, <2>1 DEF Rows
<1>5. /\ schedules' \in [Schedules -> Rows]
      /\ schedules'[s].nextRun = row.occurrence
      /\ \A u \in Schedules \ {s} : schedules'[u] = schedules[u]
  BY <1>1, <1>2, <1>4 DEF IInv, TypeOK, Rows
<1>. HIDE DEF scan, back
<1>6. /\ ~Holds(j)' /\ scans'[j] = scan
      /\ \A i \in Scans \ {j} : /\ scans'[i] = scans[i]
                                /\ Holds(i)' = Holds(i)
                                /\ OccurrenceOf(i)' = OccurrenceOf(i)
  BY <1>1, <1>3 DEF IInv, TypeOK, Holds, OccurrenceOf
<1>7. TypeOK'
  <2>1. restored' \subseteq Schedules \X (0 .. Horizon)
    BY <1>1, <1>2 DEF IInv, TypeOK
  <2>. QED
    BY <1>1, <1>3, <1>5, <2>1 DEF IInv, TypeOK
<1>8. SavedRowsHaveCron'
  BY <1>1, <1>2, <1>4 DEF IInv, TypeOK, Rows, SavedRowsHaveCron, HasCron
<1>9. WasDue'
  <2>. SUFFICES ASSUME NEW i \in Scans
       PROVE  /\ \A r \in scans'[i].todo : r.occurrence <= now
              /\ Holds(i)' => scans'[i].row \in Due /\ scans'[i].row.occurrence <= now
    BY <1>1 DEF WasDue
  <2>1. CASE i = j
    BY <1>3, <1>6, <2>1
  <2>2. CASE i # j
    BY <1>6, <2>2 DEF IInv, WasDue
  <2>. QED
    BY <2>1, <2>2
<1>10. \A i \in Scans : Holds(i)' => i # j /\ Holds(i)
  BY <1>6
<1>11. MovedOn'
  <2>. SUFFICES ASSUME NEW i \in Scans, Holds(i)', OccurrenceOf(i)' \notin putBack
       PROVE  schedules'[scans'[i].row.schedule].nextRun # scans'[i].row.occurrence
    BY <1>1 DEF MovedOn
  <2>1. i # j /\ Holds(i) /\ scans'[i] = scans[i] /\ OccurrenceOf(i) \notin putBack
    BY <1>6
  <2>2. scans[i].row.schedule \in Schedules
    BY <2>1, HeldRow
  <2>3. OccurrenceOf(i) # OccurrenceOf(j)
    BY <1>2, <2>1 DEF IInv, ClaimExclusive
  <2>4. schedules[scans[i].row.schedule].nextRun # scans[i].row.occurrence
    BY <2>1 DEF IInv, MovedOn
  <2>. QED
    BY <1>5, <2>1, <2>2, <2>3, <2>4 DEF OccurrenceOf
<1>12. ClaimExclusive'
  BY <1>1, <1>6, <1>10 DEF IInv, ClaimExclusive
<1>13. restored \subseteq restored'
  BY <1>1
<1>14. Settled'
  <2>. SUFFICES ASSUME NEW x \in created
       PROVE  /\ x.occurrence <= now
              /\ <<x.schedule, x.occurrence>> \notin putBack \union restored' =>
                   /\ schedules'[x.schedule].nextRun # x.occurrence
                   /\ \A i \in Scans :
                        scans'[i].stage = "create" =>
                          OccurrenceOf(i)' # <<x.schedule, x.occurrence>>
    BY <1>1 DEF Settled
  <2>1. x \in Tasks /\ x.schedule \in Schedules
    BY DEF IInv, TypeOK, Tasks
  <2>2. x.occurrence <= now
    BY DEF IInv, Settled
  <2>3. ASSUME <<x.schedule, x.occurrence>> \notin putBack \union restored'
        PROVE  schedules'[x.schedule].nextRun # x.occurrence
    <3>1. schedules[x.schedule].nextRun # x.occurrence
      BY <1>13, <2>3 DEF IInv, Settled
    <3>2. x.schedule # s \/ x.occurrence # row.occurrence
      BY <1>1, <2>3 DEF HasTask
    <3>. QED
      BY <1>5, <2>1, <3>1, <3>2
  <2>4. ASSUME <<x.schedule, x.occurrence>> \notin putBack \union restored',
               NEW i \in Scans, scans'[i].stage = "create"
        PROVE  OccurrenceOf(i)' # <<x.schedule, x.occurrence>>
    BY <1>3, <1>6, <1>13, <2>4 DEF IInv, Settled
  <2>. QED
    BY <2>2, <2>3, <2>4
<1>15. NoUnexplainedDuplicate' /\ IsFiniteSet(created)'
  BY <1>1, <1>13 DEF IInv, NoUnexplainedDuplicate
<1>. QED
  BY <1>7, <1>8, <1>9, <1>11, <1>12, <1>14, <1>15 DEF IInv

(***************************************************************************)
(* A restart forgets the scans and the updates; the clock only goes on.     *)
(***************************************************************************)
LEMMA RestartStep ==
  ASSUME IInv, Restart
  PROVE  IInv'
<1>1. \A s \in Schedules : schedules[s] \in Rows
  BY DEF IInv, TypeOK
<1>2. /\ schedules' \in [Schedules -> Rows]
      /\ \A s \in Schedules : /\ schedules'[s].nextRun = schedules[s].nextRun
                              /\ HasCron(schedules[s]) => HasCron(schedules'[s])
  <2>1. \A s \in Schedules :
          LET row == [schedules[s] EXCEPT !.life = "absent"]
          IN  row \in Rows /\ row.nextRun = schedules[s].nextRun /\ HasCron(row)
    BY <1>1 DEF Rows, HasCron
  <2>. QED
    BY <1>1, <2>1 DEF Restart
<1>3. /\ scans' = [j \in Scans |-> Idle] /\ updates' = [s \in Schedules |-> None]
      /\ blueprints' \in [Blueprints -> {"live", "checked", "deleted"}]
      /\ crashes' \in 0 .. MaxCrashes
      /\ UNCHANGED <<now, created, started, failures, putBack, restored>>
  BY ScheduleAssumption
     DEF IInv, TypeOK, Restart, history, ScheduleAssumption
<1>4. Idle \in Handlers /\ Idle.todo = {} /\ Idle.stage = "idle"
  BY DEF Idle, Handlers
<1>5. TypeOK'
  BY <1>2, <1>3, <1>4 DEF IInv, TypeOK
<1>6. SavedRowsHaveCron'
  BY <1>2, <1>3 DEF IInv, SavedRowsHaveCron
<1>7. now <= now'
  BY <1>3, ScheduleAssumption DEF IInv, TypeOK, ScheduleAssumption
<1>. QED
  BY <1>2, <1>3, <1>4, <1>5, <1>6, <1>7, MildStep DEF Holds

(* Time passes: what was due stays due.                                      *)
LEMMA TickStep ==
  ASSUME IInv, Tick
  PROVE  IInv'
<1>1. /\ now \in Nat /\ now < MaxTime /\ now' = now + 1 /\ MaxTime \in Nat
      /\ UNCHANGED <<blueprints, schedules, updates, scans, created, started,
                     failures, crashes, putBack, restored>>
  BY ScheduleAssumption
     DEF IInv, TypeOK, Tick, counters, history, ScheduleAssumption
<1>2. TypeOK' /\ SavedRowsHaveCron'
  BY <1>1 DEF IInv, TypeOK, SavedRowsHaveCron
<1>3. \A j \in Scans :
        /\ \A r \in scans'[j].todo : r.occurrence <= now'
        /\ Holds(j)' => Holds(j) /\ scans'[j].row = scans[j].row
        /\ scans'[j].stage = "create" => scans[j].stage = "create"
  <2>1. \A j \in Scans : \A r \in scans[j].todo :
          r.occurrence \in Nat /\ r.occurrence <= now
    <3>1. \A j \in Scans : \A r \in scans[j].todo : r \in Due /\ r.occurrence <= now
      BY DEF IInv, TypeOK, Handlers, WasDue
    <3>. QED
      BY <3>1, ScheduleAssumption DEF Due, ScheduleAssumption
  <2>. QED
    BY <1>1, <2>1 DEF Holds
<1>. QED
  BY <1>1, <1>2, <1>3, MildStep

(* Every step keeps the invariant.                                           *)
LEMMA StepIInv == IInv /\ [Next]_vars => IInv'
<1>. SUFFICES ASSUME IInv, [Next]_vars PROVE IInv'
  OBVIOUS
<1>1. CASE Edits
  BY <1>1, EditStep
<1>2. ASSUME NEW j \in Scans, Handle(j) \/ Failure(j)
      PROVE  IInv'
  <2>1. ASSUME NEW row \in scans[j].todo, ClaimDue(j, row)
        PROVE  IInv'
    BY <2>1, ClaimStep, QuietScanStep
  <2>2. CASE RollbackExecutionClaim(j)
    BY <2>2, RestoreStep, QuietScanStep
  <2>3. ASSUME NEW inserted \in BOOLEAN, CreateTaskFails(j, inserted)
        PROVE  IInv'
    BY <2>3, InsertStep, QuietScanStep
  <2>4. CASE CreateTaskFromBlueprint(j)
    BY <2>4, InsertStep
  <2>5. CASE \/ GetDueScheduledTasks(j) \/ BlueprintNotFound(j)
             \/ CompleteClaimedExecution(j)
             \/ CompleteFails(j) \/ RollbackFails(j) \/ ScanFails(j)
    BY <2>5, QuietScanStep
  <2>. QED
    BY <1>2, <2>1, <2>2, <2>3, <2>4, <2>5 DEF Handle, Failure
<1>3. CASE Restart
  BY <1>3, RestartStep
<1>4. CASE Tick
  BY <1>4, TickStep
<1>5. CASE UNCHANGED vars
  BY <1>5 DEF vars, IInv, TypeOK, SavedRowsHaveCron, HasCron, WasDue, MovedOn,
              ClaimExclusive, Settled, NoUnexplainedDuplicate, Holds, OccurrenceOf
<1>. QED
  BY <1>1, <1>2, <1>3, <1>4, <1>5 DEF Next

(* The inductive invariant holds in every reachable state of the scheduler.   *)
THEOREM Invariance == Spec => []IInv
BY InitIInv, StepIInv, PTL DEF Spec

(* The rows, the handlers and the tasks keep their shape.                     *)
THEOREM TypeCorrect == Spec => []TypeOK
<1>1. IInv => TypeOK
  BY DEF IInv
<1>. QED
  BY <1>1, Invariance, PTL

(* claimDueTaskExecution: whatever scans overlap, two of them never work on    *)
(* the same occurrence, unless an update's save put it back.                   *)
THEOREM ClaimsAreExclusive == Spec => []ClaimExclusive
<1>1. IInv => ClaimExclusive
  BY DEF IInv
<1>. QED
  BY <1>1, Invariance, PTL

(* handleScheduledTasks: an occurrence gets one task, except after a rollback  *)
(* that came too late or an update that put it back.                           *)
THEOREM DuplicatesAreExplained == Spec => []NoUnexplainedDuplicate
<1>1. IInv => NoUnexplainedDuplicate
  BY DEF IInv
<1>. QED
  BY <1>1, Invariance, PTL

(***************************************************************************)
(* Only rows that were saved are ever due, claimed or updated: a fresh row  *)
(* starts at time 0, so its first save moves it forward.                    *)
(***************************************************************************)
Saved(s) == schedules[s].life \in {"live", "deleted"}

FreshRows ==
  /\ \A s \in Schedules :
       /\ ~Saved(s) => schedules[s].nextRun = 0 /\ ~schedules[s].enabled
       /\ updates[s] # None => Saved(s) /\ updates[s].life = "live"
  /\ \A j \in Scans : /\ \A row \in scans[j].todo : Saved(row.schedule)
                      /\ Holds(j) => Saved(scans[j].row.schedule)

(* Steps after which every saved row is still saved and the other rows are as  *)
(* they were, while a scan works on rows it had, or on saved ones.            *)
LEMMA FreshStep ==
  ASSUME FreshRows,
         \A s \in Schedules :
           \/ Saved(s)'
           \/ /\ ~Saved(s)
              /\ schedules'[s].nextRun = schedules[s].nextRun
              /\ schedules'[s].enabled = schedules[s].enabled,
         \A s \in Schedules :
           updates'[s] # None => Saved(s)' /\ updates'[s].life = "live",
         \A j \in Scans :
           /\ \A row \in scans'[j].todo : row.schedule \in Schedules /\ Saved(row.schedule)
           /\ Holds(j)' => /\ scans'[j].row.schedule \in Schedules
                           /\ Saved(scans'[j].row.schedule)
  PROVE  FreshRows'
BY DEF FreshRows, Saved

(* An edit keeps saved rows saved, and rows without a save empty.            *)
LEMMA FreshEdits ==
  ASSUME IInv, FreshRows, Edits
  PROVE  FreshRows'
<1>1. UNCHANGED scans
  BY DEF Edits, CheckBlueprint, CreateSchedule, LoadForUpdate, SetEnabled, SetCron,
         SaveUpdate, DeleteSchedule, CountSchedules, RemoveBlueprint, SetRow,
         SetBlueprint
<1>2. ASSUME NEW j \in Scans
      PROVE  /\ \A row \in scans[j].todo : row.schedule \in Schedules
             /\ Holds(j) => scans[j].row.schedule \in Schedules
  BY HeldRow DEF IInv, TypeOK, Handlers, Due
<1>3. ASSUME NEW s \in Schedules, NEW row \in Rows, SetRow(s, row),
             \/ row.life \in {"live", "deleted"}
             \/ /\ ~Saved(s)
                /\ row.nextRun = schedules[s].nextRun
                /\ row.enabled = schedules[s].enabled,
             \A u \in Schedules : updates'[u] = None \/ updates'[u] = updates[u]
      PROVE  FreshRows'
  <2>1. \A u \in Schedules : schedules'[u] = IF u = s THEN row ELSE schedules[u]
    BY <1>3 DEF SetRow, IInv, TypeOK
  <2>2. \A u \in Schedules : Saved(u) => Saved(u)'
    BY <1>3, <2>1 DEF Saved
  <2>3. \A u \in Schedules :
          \/ Saved(u)'
          \/ /\ ~Saved(u)
             /\ schedules'[u].nextRun = schedules[u].nextRun
             /\ schedules'[u].enabled = schedules[u].enabled
    BY <1>3, <2>1 DEF Saved
  <2>4. \A u \in Schedules : updates'[u] # None => Saved(u)' /\ updates'[u].life = "live"
    BY <1>3, <2>2 DEF FreshRows
  <2>5. \A j \in Scans : Holds(j)' = Holds(j)
    BY <1>1 DEF Holds
  <2>6. \A j \in Scans :
          /\ \A r \in scans'[j].todo : r.schedule \in Schedules /\ Saved(r.schedule)
          /\ Holds(j)' => /\ scans'[j].row.schedule \in Schedules
                          /\ Saved(scans'[j].row.schedule)
    BY <1>1, <1>2, <2>5 DEF FreshRows
  <2>. QED
    BY <2>3, <2>4, <2>6, FreshStep
<1>4. ASSUME NEW s \in Schedules, NEW row, LoadForUpdate(s, row), row.life = "live"
      PROVE  FreshRows'
  BY <1>1, <1>4 DEF LoadForUpdate, FreshRows, Saved, Holds, IInv, TypeOK
<1>5. \A s \in Schedules : schedules[s] \in Rows
  BY DEF IInv, TypeOK
<1>6. ASSUME NEW s \in Schedules, CheckBlueprint(s)
      PROVE  FreshRows'
  <2>. DEFINE row == [schedules[s] EXCEPT !.life = "checked"]
  <2>1. /\ row \in Rows /\ row.nextRun = schedules[s].nextRun
        /\ row.enabled = schedules[s].enabled
    BY <1>5 DEF Rows
  <2>2. SetRow(s, row) /\ ~Saved(s) /\ UNCHANGED updates
    BY <1>6 DEF CheckBlueprint, Saved
  <2>. HIDE DEF row
  <2>. QED
    BY <1>3, <2>1, <2>2
<1>7. ASSUME NEW s \in Schedules, NEW c \in Crons, NEW enabled \in BOOLEAN,
             CreateSchedule(s, c, enabled)
      PROVE  FreshRows'
  <2>1. \E row \in Rows : SetRow(s, row) /\ row.life = "live"
    BY <1>7, NextRunLater DEF CreateSchedule, Rows, IInv
  <2>. QED
    BY <1>3, <1>7, <2>1 DEF CreateSchedule
<1>8. ASSUME NEW s \in Schedules, NEW enabled \in BOOLEAN, SetEnabled(s, enabled)
      PROVE  FreshRows'
  <2>1. [schedules[s] EXCEPT !.enabled = enabled].life = "live"
    BY <1>5, <1>8 DEF SetEnabled, LoadForUpdate, Rows
  <2>. QED
    BY <1>4, <1>8, <2>1 DEF SetEnabled
<1>9. ASSUME NEW s \in Schedules, NEW c \in Crons, SetCron(s, c)
      PROVE  FreshRows'
  <2>1. [schedules[s] EXCEPT !.cron = c, !.nextRun = NextRun[c][now]].life = "live"
    BY <1>5, <1>9 DEF SetCron, LoadForUpdate, Rows
  <2>. QED
    BY <1>4, <1>9, <2>1 DEF SetCron
<1>10. ASSUME NEW s \in Schedules, SaveUpdate(s)
       PROVE  FreshRows'
  <2>1. /\ updates[s] \in Rows /\ updates[s].life = "live" /\ SetRow(s, updates[s])
        /\ \A u \in Schedules : updates'[u] = None \/ updates'[u] = updates[u]
    BY <1>10 DEF SaveUpdate, FreshRows, IInv, TypeOK
  <2>. QED
    BY <1>3, <2>1
<1>11. ASSUME NEW s \in Schedules, DeleteSchedule(s)
       PROVE  FreshRows'
  <2>. DEFINE row == [schedules[s] EXCEPT !.life = "deleted"]
  <2>1. row \in Rows /\ row.life = "deleted"
    BY <1>5 DEF Rows
  <2>2. SetRow(s, row) /\ UNCHANGED updates
    BY <1>11 DEF DeleteSchedule
  <2>. HIDE DEF row
  <2>. QED
    BY <1>3, <2>1, <2>2
<1>12. ASSUME NEW b \in Blueprints, CountSchedules(b) \/ RemoveBlueprint(b)
       PROVE  FreshRows'
  <2>1. UNCHANGED <<schedules, updates>>
    BY <1>12 DEF CountSchedules, RemoveBlueprint, SetBlueprint
  <2>. QED
    BY <1>1, <2>1 DEF FreshRows, Saved, Holds
<1>. QED
  BY <1>6, <1>7, <1>8, <1>9, <1>10, <1>11, <1>12 DEF Edits

(* Scans do not touch a row that was never saved.                            *)
LEMMA FreshScans ==
  ASSUME IInv, FreshRows, NEW j \in Scans, Handle(j) \/ Failure(j)
  PROVE  FreshRows'
<1>1. UNCHANGED updates
  BY DEF Handle, Failure, GetDueScheduledTasks, ClaimDue, CreateTaskFromBlueprint,
         BlueprintNotFound, CompleteClaimedExecution, RollbackExecutionClaim,
         CreateTaskFails, CompleteFails, RollbackFails, ScanFails, SetScan
<1>2. PICK scan : scans' = [scans EXCEPT ![j] = scan]
  BY DEF Handle, Failure, GetDueScheduledTasks, ClaimDue, CreateTaskFromBlueprint,
         BlueprintNotFound, CompleteClaimedExecution, RollbackExecutionClaim,
         CreateTaskFails, CompleteFails, RollbackFails, ScanFails, SetScan
<1>3. /\ \A i \in Scans : scans'[i] = IF i = j THEN scan ELSE scans[i]
      /\ \A s \in Schedules : schedules[s] \in Rows
  BY <1>2 DEF IInv, TypeOK
<1>4. ASSUME NEW i \in Scans
      PROVE  /\ \A row \in scans[i].todo : row.schedule \in Schedules /\ Saved(row.schedule)
             /\ Holds(i) => /\ scans[i].row.schedule \in Schedules
                            /\ Saved(scans[i].row.schedule)
  BY HeldRow DEF IInv, TypeOK, Handlers, Due, FreshRows
<1>5. \A s \in Schedules :
        /\ schedules'[s].life = schedules[s].life
        /\ Saved(s) \/ schedules'[s] = schedules[s]
  <2>1. CASE \E row \in scans[j].todo : ClaimDue(j, row)
    BY <1>3, <1>4, <2>1 DEF ClaimDue, IInv, TypeOK, Rows
  <2>2. CASE CompleteClaimedExecution(j)
    BY <1>3, <1>4, <2>2 DEF CompleteClaimedExecution, IInv, TypeOK, Rows, Holds
  <2>3. CASE RollbackExecutionClaim(j)
    BY <1>3, <1>4, <2>3 DEF RollbackExecutionClaim, IInv, TypeOK, Rows, Holds
  <2>4. CASE UNCHANGED schedules
    BY <2>4
  <2>. QED
    BY <2>1, <2>2, <2>3, <2>4
       DEF Handle, Failure, GetDueScheduledTasks, CreateTaskFromBlueprint,
           BlueprintNotFound, CreateTaskFails, CompleteFails, RollbackFails, ScanFails
<1>6. /\ \A row \in scan.todo : row.schedule \in Schedules /\ Saved(row.schedule)
      /\ scan.stage \in {"create", "complete", "rollback"} =>
           scan.row.schedule \in Schedules /\ Saved(scan.row.schedule)
  <2>. scans[j].todo \in SUBSET Due
    BY DEF IInv, TypeOK, Handlers
  <2>0. ASSUME NEW x, SetScan(j, x)
        PROVE  scan = x
    BY <1>3, <2>0 DEF SetScan, IInv, TypeOK
  <2>1. CASE GetDueScheduledTasks(j)
    <3>. DEFINE due == {DueRow(s) : s \in {x \in Schedules : IsDue(x)}}
    <3>1. scan = [Idle EXCEPT !.stage = "claim", !.todo = due]
      BY <2>0, <2>1 DEF GetDueScheduledTasks
    <3>2. \A row \in due : row.schedule \in Schedules /\ Saved(row.schedule)
      BY DEF DueRow, IsDue, Saved
    <3>3. scan.todo = due /\ scan.stage = "claim"
      BY <3>1 DEF Idle
    <3>. QED
      BY <3>2, <3>3
  <2>2. ASSUME NEW todo \in SUBSET scans[j].todo, SetScan(j, NextRow(todo))
        PROVE  /\ scan.todo \subseteq scans[j].todo
               /\ scan.stage \in {"idle", "claim"}
    BY <2>0, <2>2, NextRowType
  <2>3. ASSUME NEW row \in scans[j].todo, ClaimDue(j, row)
        PROVE  /\ scan.todo \subseteq scans[j].todo
               /\ scan.stage \in {"create", "complete", "rollback"} => scan.row = row
    <3>1. \/ SetScan(j, [stage |-> "create", todo |-> scans[j].todo \ {row},
                         row |-> row, claimed |-> NextRun[row.cron][now]])
          \/ SetScan(j, NextRow(scans[j].todo \ {row}))
      BY <2>3 DEF ClaimDue
    <3>. QED
      BY <2>0, <2>2, <3>1
  <2>4. ASSUME NEW stage \in {"complete", "rollback"}, Holds(j),
               SetScan(j, [scans[j] EXCEPT !.stage = stage])
        PROVE  scan.todo = scans[j].todo /\ scan.row = scans[j].row
    BY <2>0, <2>4 DEF IInv, TypeOK, Handlers
  <2>5. CASE ScanFails(j)
    <3>1. scan = Idle
      BY <2>0, <2>5 DEF ScanFails
    <3>. QED
      BY <3>1 DEF Idle
  <2>6. \/ GetDueScheduledTasks(j)
        \/ \E row \in scans[j].todo : ClaimDue(j, row)
        \/ \E stage \in {"complete", "rollback"} :
             Holds(j) /\ SetScan(j, [scans[j] EXCEPT !.stage = stage])
        \/ SetScan(j, NextRow(scans[j].todo))
        \/ ScanFails(j)
    BY DEF Handle, Failure, CreateTaskFromBlueprint, BlueprintNotFound,
           CompleteClaimedExecution, RollbackExecutionClaim, CreateTaskFails,
           CompleteFails, RollbackFails, Holds
  <2>. QED
    BY <1>4, <2>1, <2>2, <2>3, <2>4, <2>5, <2>6
<1>7. \A s \in Schedules :
        \/ Saved(s)'
        \/ /\ ~Saved(s)
           /\ schedules'[s].nextRun = schedules[s].nextRun
           /\ schedules'[s].enabled = schedules[s].enabled
  BY <1>5 DEF Saved
<1>8. \A s \in Schedules : updates'[s] # None => Saved(s)' /\ updates'[s].life = "live"
  BY <1>1, <1>5 DEF FreshRows, Saved
<1>9. ASSUME NEW i \in Scans
      PROVE  /\ \A row \in scans'[i].todo : row.schedule \in Schedules /\ Saved(row.schedule)
             /\ Holds(i)' => /\ scans'[i].row.schedule \in Schedules
                             /\ Saved(scans'[i].row.schedule)
  BY <1>3, <1>4, <1>6 DEF Holds
<1>. QED
  BY <1>7, <1>8, <1>9, FreshStep

(* At first there is no row.                                                 *)
LEMMA FreshInit == Init => FreshRows
BY DEF Init, FreshRows, Saved, Holds, Idle

(* Every step keeps FreshRows.                                               *)
LEMMA FreshNext == IInv /\ FreshRows /\ [Next]_vars => FreshRows'
<1>. SUFFICES ASSUME IInv, FreshRows, [Next]_vars PROVE FreshRows'
  OBVIOUS
<1>1. CASE Edits
  BY <1>1, FreshEdits
<1>2. ASSUME NEW j \in Scans, Handle(j) \/ Failure(j)
      PROVE  FreshRows'
  BY <1>2, FreshScans
<1>3. CASE Restart
  <2>1. \A s \in Schedules : schedules[s] \in Rows
    BY DEF IInv, TypeOK
  <2>2. \A s \in Schedules : Saved(s) => Saved(s)'
    BY <1>3 DEF Restart, Saved
  <2>3. \A s \in Schedules : ~Saved(s) =>
          /\ schedules'[s].nextRun = schedules[s].nextRun
          /\ schedules'[s].enabled = schedules[s].enabled
    BY <1>3, <2>1 DEF Restart, Saved, Rows
  <2>4. \A s \in Schedules : updates'[s] = None
    BY <1>3 DEF Restart
  <2>5. \A j \in Scans : scans'[j].todo = {} /\ ~Holds(j)'
    BY <1>3 DEF Restart, Idle, Holds
  <2>. QED
    BY <2>2, <2>3, <2>4, <2>5, FreshStep
<1>4. CASE UNCHANGED <<schedules, updates, scans>>
  BY <1>4 DEF FreshRows, Saved, Holds
<1>. QED
  BY <1>1, <1>2, <1>3, <1>4 DEF Next, Tick, vars

(* rollbackExecutionClaim restores next_run_at only from the value that its    *)
(* own claim put there: a rollback undoes neither an update nor a later claim.  *)
THEOREM RollbacksUndoOwnClaims == Spec => RollbackUndoesOwnClaim
<1>. DEFINE OwnClaim ==
       \A s \in Schedules :
         /\ schedules'[s].nextRun < schedules[s].nextRun
         /\ updates[s] = updates'[s]
         => \E j \in Scans : /\ Holds(j) /\ scans[j].row.schedule = s
                             /\ scans[j].claimed = schedules[s].nextRun
<1>1. IInv /\ FreshRows /\ [Next]_vars => OwnClaim
  <2>. SUFFICES ASSUME IInv, FreshRows, [Next]_vars, NEW s \in Schedules,
                       schedules'[s].nextRun < schedules[s].nextRun,
                       updates[s] = updates'[s]
       PROVE  \E j \in Scans : /\ Holds(j) /\ scans[j].row.schedule = s
                               /\ scans[j].claimed = schedules[s].nextRun
    OBVIOUS
  <2>1. /\ \A u \in Schedules : schedules[u] \in Rows /\ schedules[u].nextRun \in Nat
        /\ schedules[s].nextRun # schedules'[s].nextRun
        /\ now \in Nat
    BY ScheduleAssumption DEF IInv, TypeOK, Rows, ScheduleAssumption
  <2>2. ASSUME Edits
        PROVE  FALSE
    <3>1. ASSUME NEW u \in Schedules, NEW row, SetRow(u, row)
          PROVE  s = u /\ row.nextRun < schedules[u].nextRun
      BY <2>1, <3>1 DEF SetRow, IInv, TypeOK
    <3>2. ASSUME NEW u \in Schedules, CheckBlueprint(u)
          PROVE  FALSE
      BY <2>1, <3>1, <3>2 DEF CheckBlueprint, Rows
    <3>3. ASSUME NEW u \in Schedules, NEW c \in Crons, NEW enabled \in BOOLEAN,
                 CreateSchedule(u, c, enabled)
          PROVE  FALSE
      <4>1. NextRun[c][now] < schedules[u].nextRun
        BY <3>1, <3>3 DEF CreateSchedule
      <4>2. schedules[u].nextRun = 0
        BY <3>3 DEF CreateSchedule, FreshRows, Saved
      <4>. QED
        BY <2>1, <4>1, <4>2, NextRunLater, ScheduleAssumption
           DEF IInv, ScheduleAssumption
    <3>4. ASSUME NEW u \in Schedules, SaveUpdate(u)
          PROVE  FALSE
      BY <3>1, <3>4 DEF SaveUpdate, IInv, TypeOK
    <3>5. ASSUME NEW u \in Schedules, DeleteSchedule(u)
          PROVE  FALSE
      BY <2>1, <3>1, <3>5 DEF DeleteSchedule, Rows
    <3>. QED
      BY <2>1, <2>2, <3>2, <3>3, <3>4, <3>5
         DEF Edits, SetEnabled, SetCron, LoadForUpdate, CountSchedules,
             RemoveBlueprint, SetBlueprint
  <2>3. ASSUME NEW j \in Scans, NEW row \in scans[j].todo, ClaimDue(j, row)
        PROVE  FALSE
    <3>1. row \in Due /\ row.cron \in Crons /\ row.occurrence <= now
      BY DEF IInv, TypeOK, Handlers, WasDue, Due
    <3>2. /\ s = row.schedule /\ schedules[s].nextRun = row.occurrence
          /\ schedules'[s].nextRun = NextRun[row.cron][now]
      BY <2>1, <2>3, <3>1 DEF ClaimDue, Claimable, IInv, TypeOK, Rows, Due
    <3>. QED
      BY <2>1, <3>1, <3>2, NextRunLater, ScheduleAssumption
         DEF IInv, ScheduleAssumption
  <2>4. ASSUME NEW j \in Scans, CompleteClaimedExecution(j)
        PROVE  FALSE
    BY <2>1, <2>4 DEF CompleteClaimedExecution, IInv, TypeOK, Rows
  <2>5. ASSUME NEW j \in Scans, RollbackExecutionClaim(j)
        PROVE  /\ Holds(j) /\ scans[j].row.schedule = s
               /\ scans[j].claimed = schedules[s].nextRun
    BY <2>1, <2>5 DEF RollbackExecutionClaim, Restorable, Holds, IInv, TypeOK, Rows
  <2>6. CASE Restart
    BY <2>1, <2>6 DEF Restart, Rows
  <2>7. CASE UNCHANGED schedules
    BY <2>1, <2>7
  <2>. QED
    BY <2>2, <2>3, <2>4, <2>5, <2>6, <2>7
       DEF Next, Handle, Failure, GetDueScheduledTasks, CreateTaskFromBlueprint,
           BlueprintNotFound, CreateTaskFails, CompleteFails, RollbackFails, ScanFails,
           Tick, vars
<1>2. Spec => []FreshRows
  <2>1. FreshRows /\ IInv /\ [Next]_vars => FreshRows'
    BY FreshNext
  <2>. QED
    BY <2>1, FreshInit, Invariance, PTL DEF Spec
<1>3. IInv /\ FreshRows /\ [Next]_vars => [OwnClaim]_vars
  BY <1>1
<1>. QED
  BY <1>2, <1>3, Invariance, PTL DEF Spec, RollbackUndoesOwnClaim
=============================================================================
