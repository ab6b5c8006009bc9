------------------------ MODULE WorkerRuntimeProofs ------------------------
(***************************************************************************)
(* For any number of tasks, workers and pickTask calls: the workers make   *)
(* only calls the execution tables were proved under, and a worker that    *)
(* beats in time keeps its execution and is alone on its task.             *)
(***************************************************************************)
EXTENDS WorkerRuntime, ActiveExecutionsProofs

(* A pick holds an identifier that was issued, and no two hold the same one.  *)
PicksApart ==
  /\ \A s \in Slots : Holds(picks[s]) => picks[s].id <= lastId
  /\ \A s, u \in Slots :
       Holds(picks[s]) /\ Holds(picks[u]) /\ picks[s].id = picks[u].id => s = u

(* The ghost saw every silence the cron can see or has seen.                  *)
SilenceSeen ==
  /\ \A r \in active : r.silence >= StaleAfter => r.id \in fellSilent
  /\ detected \subseteq fellSilent

(* The inductive invariant.  That a healthy run keeps its row needs that      *)
(* closing calls of other picks are about other rows (PicksApart) and that    *)
(* the cron only prunes rows it saw silent (SilenceSeen).                     *)
WInv == RuntimeTypeOK /\ IInv /\ PicksApart /\ SilenceSeen /\ HealthyRunKeepsItsRow

(* No pick takes a new execution in this step.                                *)
PicksCarryOn ==
  \A s \in Slots : Holds(picks'[s]) =>
    /\ Holds(picks[s])
    /\ picks'[s].id = picks[s].id /\ picks'[s].task = picks[s].task

(* A row goes only if it was silent or its own pick gives it up.              *)
RowsKept ==
  \A r \in active :
    \/ \E q \in active' : q.id = r.id /\ q.task = r.task
    \/ r.id \in fellSilent
    \/ \E s \in Slots : /\ Holds(picks[s]) /\ picks[s].id = r.id
                        /\ ~Holds(picks'[s])

(* A step in which picks only carry on, rows are kept and ids only grow       *)
(* preserves what relates picks and rows.                                     *)
LEMMA CarryOn ==
  ASSUME WInv, IInv', PicksCarryOn, RowsKept, lastId' >= lastId,
         fellSilent \subseteq fellSilent'
  PROVE  PicksApart' /\ HealthyRunKeepsItsRow'
<1>1. lastId \in Nat /\ lastId' \in Nat
  BY DEF WInv, IInv, TypeOK
<1>2. \A s \in Slots : picks[s].id \in Nat
  BY DEF WInv, RuntimeTypeOK, Pick, NoPick, WorkingPick, StoppingPick
<1>3. PicksApart'
  BY <1>1, <1>2 DEF WInv, PicksApart, PicksCarryOn
<1>4. HealthyRunKeepsItsRow'
  <2>. SUFFICES ASSUME NEW s \in Slots, Holds(picks'[s]),
                       picks'[s].id \notin fellSilent'
                PROVE  \E q \in active' : q.id = picks'[s].id
                                          /\ q.task = picks'[s].task
    BY DEF HealthyRunKeepsItsRow, Holds, Executing
  <2>1. /\ Holds(picks[s]) /\ picks'[s].id = picks[s].id
        /\ picks'[s].task = picks[s].task /\ picks[s].id \notin fellSilent
    BY DEF PicksCarryOn
  <2>2. PICK r \in active : r.id = picks[s].id /\ r.task = picks[s].task
    BY <2>1 DEF WInv, HealthyRunKeepsItsRow
  <2>3. CASE \E q \in active' : q.id = r.id /\ q.task = r.task
    BY <2>1, <2>2, <2>3
  <2>4. CASE \E u \in Slots : /\ Holds(picks[u]) /\ picks[u].id = r.id
                              /\ ~Holds(picks'[u])
    <3>1. PICK u \in Slots : /\ Holds(picks[u]) /\ picks[u].id = r.id
                             /\ ~Holds(picks'[u])
      BY <2>4
    <3>2. u = s
      BY <2>1, <2>2, <3>1 DEF WInv, PicksApart
    <3>. QED
      BY <3>1, <3>2
  <2>. QED
    BY <2>1, <2>2, <2>3, <2>4 DEF RowsKept
<1>. QED
  BY <1>3, <1>4

(* The steps of a pick that move on without touching the tables.              *)
LEMMA GotoTyped ==
  ASSUME RuntimeTypeOK, NEW s \in Slots, picks[s].pc \notin {"none", "stopping"},
         NEW pc \in {"claimed", "preparing", "running", "unclaiming", "unclaimed"},
         NEW id \in Nat
  PROVE  /\ picks[s] \in WorkingPick
         /\ [picks[s] EXCEPT !.pc = pc] \in WorkingPick
         /\ [picks[s] EXCEPT !.pc = pc, !.id = id] \in WorkingPick
<1>1. picks[s] \in Pick
  BY DEF RuntimeTypeOK
<1>2. picks[s] \in WorkingPick
  BY <1>1 DEF Pick, NoPick, StoppingPick
<1>. QED
  BY <1>2 DEF WorkingPick

(* Every step of a pick keeps its type.                                       *)
LEMMA PickStepTyped ==
  ASSUME RuntimeTypeOK, IInv, NEW s \in Slots, PickStep(s)
  PROVE  RuntimeTypeOK'
<1>. USE DEF runtime
<1>0. /\ NoPick \in Pick /\ WorkingPick \subseteq Pick /\ StoppingPick \subseteq Pick
      /\ lastId \in Nat
  BY DEF Pick, IInv, TypeOK
<1>1. ASSUME NEW w \in Workers, NEW t \in Tasks, Poll(s, w, t) \/ TaskQueued(s, w, t)
      PROVE  RuntimeTypeOK'
  <2>1. [NoPick EXCEPT !.pc = "claiming", !.worker = w, !.task = t] \in WorkingPick
    BY DEF NoPick, WorkingPick
  <2>. QED
    BY <1>0, <1>1, <2>1
       DEF Poll, TaskQueued, AskToClaim, TablesKept, RuntimeTypeOK
<1>2. CASE ClaimMade(s)
  <2>1. [picks[s] EXCEPT !.pc = "claimed", !.id = lastId + 1] \in WorkingPick
    <3>1. picks[s].pc = "claiming" /\ lastId + 1 \in Nat
      BY <1>0, <1>2 DEF ClaimMade
    <3>. QED
      BY <3>1, GotoTyped
  <2>. QED
    BY <1>0, <1>2, <2>1 DEF ClaimMade, RuntimeTypeOK
<1>3. CASE ClaimFails(s) \/ StopMade(s) \/ ClosingFails(s)
  BY <1>0, <1>3
     DEF ClaimFails, StopMade, ClosingFails, Over, TablesKept, RuntimeTypeOK
<1>4. CASE StartExecution(s)
  BY <1>0, <1>4, GotoTyped DEF StartExecution, Goto, TablesKept, RuntimeTypeOK
<1>5. CASE Unsupported(s)
  BY <1>0, <1>5, GotoTyped DEF Unsupported, Goto, TablesKept, RuntimeTypeOK
<1>6. CASE StartAgent(s)
  BY <1>0, <1>6, GotoTyped DEF StartAgent, Goto, TablesKept, RuntimeTypeOK
<1>7. CASE UnclaimMade(s)
  BY <1>0, <1>7, GotoTyped DEF UnclaimMade, Goto, TablesKept, RuntimeTypeOK
<1>8. ASSUME NEW report \in EndReports, EndWith(s, report),
             picks[s].pc \in {"preparing", "running"}
      PROVE  RuntimeTypeOK'
  <2>1. picks[s] \in WorkingPick
    BY <1>8, GotoTyped
  <2>2. [picks[s] EXCEPT !.pc = "stopping", !.report = report] \in StoppingPick
    BY <2>1 DEF WorkingPick, StoppingPick
  <2>. QED
    BY <1>0, <1>8, <2>2 DEF EndWith, TablesKept, RuntimeTypeOK
<1>9. CASE PreparationFails(s)
  BY <1>8, <1>9, RuntimeAssumption
     DEF PreparationFails, Unprepared, RuntimeAssumption
<1>10. CASE AgentEnds(s)
  BY <1>8, <1>10, RuntimeAssumption DEF AgentEnds, RuntimeAssumption
<1>11. CASE Heartbeat(s) \/ ReportUsage(s)
  BY <1>11 DEF Heartbeat, ReportUsage, RuntimeTypeOK
<1>12. CASE Defer(s)
  <2>1. picks[s] \in WorkingPick
    BY <1>12, GotoTyped DEF Defer
  <2>. QED
    BY <1>0, <1>12, <2>1 DEF Defer, Over, TablesKept, RuntimeTypeOK, WorkingPick
<1>. QED
  BY <1>1, <1>2, <1>3, <1>4, <1>5, <1>6, <1>7, <1>9, <1>10, <1>11, <1>12
     DEF PickStep

(* What a pick does to the tables is a call of a worker, or nothing.          *)
LEMMA PickStepIsStoreStep ==
  ASSUME RuntimeTypeOK, NEW s \in Slots, PickStep(s)
  PROVE  [StoreNext \/ Environment]_storeVars
<1>1. picks[s] \in Pick
  BY DEF RuntimeTypeOK
<1>2. CASE ClaimMade(s)
  <2>1. picks[s].worker \in Workers /\ picks[s].task \in Tasks
    BY <1>1, <1>2 DEF ClaimMade, Pick, NoPick, WorkingPick, StoppingPick
  <2>. QED
    BY <1>2, <2>1 DEF ClaimMade, StoreNext
<1>3. CASE StopMade(s)
  <2>1. picks[s].worker \in Workers /\ picks[s].report \in EndReports
    BY <1>1, <1>3 DEF StopMade, Pick, NoPick, WorkingPick, StoppingPick
  <2>. QED
    BY <1>3, <2>1 DEF StopMade, RowOf, StoreNext
<1>4. CASE UnclaimMade(s)
  <2>1. picks[s].worker \in Workers
    BY <1>1, <1>4 DEF UnclaimMade, Pick, NoPick, WorkingPick, StoppingPick
  <2>. QED
    BY <1>4, <2>1 DEF UnclaimMade, RowOf, StoreNext
<1>5. CASE Heartbeat(s)
  BY <1>5 DEF Heartbeat, RowOf, StoreNext
<1>6. CASE ReportUsage(s) \/ StartAgent(s)
  BY <1>6 DEF ReportUsage, StartAgent, StoreNext
<1>7. CASE UNCHANGED storeVars
  BY <1>7
<1>. QED
  BY <1>2, <1>3, <1>4, <1>5, <1>6, <1>7
     DEF PickStep, Poll, TaskQueued, ClaimFails, StartExecution, Unsupported,
         PreparationFails, AgentEnds, EndWith, ClosingFails, Defer, TablesKept

(* Every step is a step of the tables or of their environment, or leaves them *)
(* alone.                                                                     *)
LEMMA StepIsStoreStep ==
  ASSUME RuntimeTypeOK, [RuntimeNext]_workerVars
  PROVE  [StoreNext \/ Environment]_storeVars
<1>1. CASE \E s \in Slots : PickStep(s)
  BY <1>1, PickStepIsStoreStep
<1>2. CASE \/ \E w \in Workers : WorkerStep(w)
           \/ \E r \in active : InterruptExecution(r)
  BY <1>2 DEF WorkerStep, DeferralExpires, Connect, Disconnect, Crash, Interrupt,
              InterruptExecution, TablesKept
<1>3. CASE Cron
  BY <1>3 DEF Cron, StoreNext
<1>4. CASE TimePasses
  BY <1>4 DEF TimePasses, StoreNext
<1>5. CASE OtherWriters
  BY <1>5, RuntimeAssumption DEF OtherWriters, Environment, RuntimeAssumption
<1>6. CASE UNCHANGED workerVars
  BY <1>6 DEF workerVars
<1>. QED
  BY <1>1, <1>2, <1>3, <1>4, <1>5, <1>6 DEF RuntimeNext

(* Every step keeps the types.                                                *)
LEMMA StepTyped ==
  ASSUME RuntimeTypeOK, IInv, IInv', [RuntimeNext]_workerVars
  PROVE  RuntimeTypeOK'
<1>1. CASE \E s \in Slots : PickStep(s)
  BY <1>1, PickStepTyped
<1>2. ASSUME NEW w \in Workers, WorkerStep(w) PROVE RuntimeTypeOK'
  <2>1. CASE \/ \E d \in deferred : d[1] = w /\ DeferralExpires(d)
             \/ Connect(w) \/ Disconnect(w)
    BY <2>1 DEF DeferralExpires, Connect, Disconnect, DropSocket, TablesKept,
                RuntimeTypeOK
  <2>2. CASE Crash(w)
    BY <2>2 DEF Crash, DropSocket, TablesKept, RuntimeTypeOK, Pick
  <2>3. CASE \E i \in interrupts : i[1] = w /\ Interrupt(i)
    <3>1. \A s \in Slots : Executing(picks[s]) =>
            [picks[s] EXCEPT !.aborted = TRUE] \in WorkingPick
      <4>. SUFFICES ASSUME NEW s \in Slots, Executing(picks[s])
                    PROVE  [picks[s] EXCEPT !.aborted = TRUE] \in WorkingPick
        OBVIOUS
      <4>1. picks[s] \in WorkingPick
        BY GotoTyped DEF Executing
      <4>. QED
        BY <4>1 DEF WorkingPick
    <3>2. picks' \in [Slots -> Pick]
      BY <2>3, <3>1 DEF Interrupt, RuntimeTypeOK, Pick
    <3>. QED
      BY <2>3, <3>2 DEF Interrupt, TablesKept, RuntimeTypeOK
  <2>. QED
    BY <1>2, <2>1, <2>2, <2>3 DEF WorkerStep
<1>3. CASE \E r \in active : InterruptExecution(r)
  BY <1>3 DEF InterruptExecution, TablesKept, RuntimeTypeOK, IInv, TypeOK, ActiveRow
<1>4. CASE Cron \/ OtherWriters \/ UNCHANGED workerVars
  BY <1>4 DEF Cron, OtherWriters, workerVars, runtime, RuntimeTypeOK
<1>5. CASE TimePasses
  <2>1. \A r \in active' : r.id \in Nat
    BY DEF IInv, TypeOK, ActiveRow
  <2>2. fellSilent' \subseteq Nat
    BY <1>5, <2>1 DEF TimePasses, RuntimeTypeOK
  <2>. QED
    BY <1>5, <2>2 DEF TimePasses, runtime, RuntimeTypeOK
<1>. QED
  BY <1>1, <1>2, <1>3, <1>4, <1>5 DEF RuntimeNext

(* Steps that touch no row: picks go on or give up, nothing else matters.     *)
LEMMA RowsUntouched ==
  ASSUME WInv, IInv', PicksCarryOn,
         UNCHANGED <<active, lastId, detected, fellSilent>>
  PROVE  PicksApart' /\ SilenceSeen' /\ HealthyRunKeepsItsRow'
<1>1. RowsKept
  BY DEF RowsKept
<1>2. SilenceSeen'
  BY DEF WInv, SilenceSeen
<1>3. lastId' >= lastId
  BY DEF WInv, IInv, TypeOK
<1>. QED
  BY <1>1, <1>2, <1>3, CarryOn

(* A closing call removes the row of its own pick, by id.                     *)
LEMMA RowGivenUp ==
  ASSUME WInv, IInv', NEW s \in Slots, NEW r \in RowOf(picks[s]),
         Holds(picks[s]), active' = active \ {r},
         UNCHANGED <<lastId, detected, fellSilent>>,
         \A u \in Slots : u # s => picks'[u] = picks[u], ~Holds(picks'[s])
  PROVE  PicksApart' /\ SilenceSeen' /\ HealthyRunKeepsItsRow'
<1>1. PicksCarryOn
  BY DEF PicksCarryOn
<1>2. RowsKept
  BY DEF RowsKept, RowOf
<1>3. SilenceSeen'
  BY DEF WInv, SilenceSeen
<1>4. lastId' >= lastId
  BY DEF WInv, IInv, TypeOK
<1>. QED
  BY <1>1, <1>2, <1>3, <1>4, CarryOn

(* A claim: the new pick's id is above all others, and its row is new.        *)
LEMMA ClaimKeeps ==
  ASSUME WInv, IInv', NEW s \in Slots, ClaimMade(s)
  PROVE  PicksApart' /\ SilenceSeen' /\ HealthyRunKeepsItsRow'
<1>. DEFINE w == picks[s].worker
            t == picks[s].task
            new == [id |-> lastId + 1, task |-> t, worker |-> w,
                    agent |-> tasks[t].assignee, silence |-> 0,
                    before |-> [status |-> tasks[t].status,
                                tags |-> tasks[t].tags,
                                assignee |-> tasks[t].assignee],
                    session |-> None, toolCalls |-> 0]
<1>1. /\ active' = active \union {new} /\ lastId' = lastId + 1
      /\ UNCHANGED <<detected, fellSilent>>
  BY DEF ClaimMade, Claim
<1>2. /\ new.id = lastId + 1 /\ new.task = t /\ new.silence = 0
      /\ lastId \in Nat
  BY DEF WInv, IInv, TypeOK
<1>. HIDE DEF new
<1>3. /\ picks'[s].id = lastId + 1 /\ picks'[s].task = t
      /\ \A u \in Slots : u # s => picks'[u] = picks[u]
  BY DEF ClaimMade, WInv, RuntimeTypeOK, Pick, NoPick, WorkingPick, StoppingPick
<1>4. \A u \in Slots : Holds(picks[u]) => picks[u].id <= lastId /\ picks[u].id \in Nat
  BY DEF WInv, PicksApart, RuntimeTypeOK, Pick, NoPick, WorkingPick, StoppingPick
<1>5. PicksApart'
  BY <1>1, <1>2, <1>3, <1>4 DEF WInv, PicksApart
<1>6. SilenceSeen'
  BY <1>1, <1>2, RuntimeAssumption, ConstantsAssumption
     DEF WInv, SilenceSeen, RuntimeAssumption, ConstantsAssumption
<1>7. HealthyRunKeepsItsRow'
  <2>1. new \in active' /\ active \subseteq active'
    BY <1>1
  <2>. QED
    BY <1>1, <1>2, <1>3, <2>1 DEF WInv, HealthyRunKeepsItsRow
<1>. QED
  BY <1>5, <1>6, <1>7

(* A heartbeat resets the silence of one row and changes nothing else of it.  *)
LEMMA HeartbeatKeeps ==
  ASSUME WInv, IInv', NEW s \in Slots, Heartbeat(s)
  PROVE  PicksApart' /\ SilenceSeen' /\ HealthyRunKeepsItsRow'
<1>1. PICK r \in active : TouchHeartbeat(r)
  BY DEF Heartbeat, RowOf
<1>. DEFINE new == [r EXCEPT !.silence = 0]
<1>2. new.id = r.id /\ new.task = r.task /\ new.silence = 0
  BY DEF WInv, IInv, TypeOK, ActiveRow
<1>3. /\ active' = (active \ {r}) \union {new}
      /\ UNCHANGED <<lastId, detected, fellSilent, picks>>
  BY <1>1 DEF TouchHeartbeat, Rewrite, Heartbeat
<1>. HIDE DEF new
<1>4. PicksCarryOn /\ RowsKept
  BY <1>2, <1>3 DEF PicksCarryOn, RowsKept
<1>5. SilenceSeen'
  BY <1>2, <1>3, RuntimeAssumption, ConstantsAssumption
     DEF WInv, SilenceSeen, RuntimeAssumption, ConstantsAssumption
<1>6. lastId' >= lastId
  BY <1>3 DEF WInv, IInv, TypeOK
<1>. QED
  BY <1>3, <1>4, <1>5, <1>6, CarryOn

(* What a pick does keeps picks and rows together.                            *)
LEMMA PickStepKeeps ==
  ASSUME WInv, IInv', NEW s \in Slots, PickStep(s)
  PROVE  PicksApart' /\ SilenceSeen' /\ HealthyRunKeepsItsRow'
<1>0. picks \in [Slots -> Pick] /\ picks[s] \in Pick
  BY DEF WInv, RuntimeTypeOK
<1>. USE DEF Holds, Executing
<1>1. ASSUME NEW w \in Workers, NEW t \in Tasks, Poll(s, w, t) \/ TaskQueued(s, w, t)
      PROVE  PicksApart' /\ SilenceSeen' /\ HealthyRunKeepsItsRow'
  <2>1. picks'[s].pc = "claiming" /\ \A u \in Slots : u # s => picks'[u] = picks[u]
    BY <1>0, <1>1 DEF Poll, TaskQueued, AskToClaim, NoPick
  <2>2. PicksCarryOn
    BY <2>1 DEF PicksCarryOn
  <2>. QED
    BY <1>1, <2>2, RowsUntouched
       DEF Poll, TaskQueued, TablesKept, storeVars, tables
<1>2. CASE ClaimMade(s)
  BY <1>2, ClaimKeeps
<1>3. CASE ClaimFails(s) \/ ClosingFails(s) \/ Defer(s)
  <2>1. picks'[s] = NoPick /\ \A u \in Slots : u # s => picks'[u] = picks[u]
    BY <1>0, <1>3 DEF ClaimFails, ClosingFails, Defer, Over
  <2>2. PicksCarryOn
    BY <2>1 DEF PicksCarryOn, NoPick
  <2>. QED
    BY <1>3, <2>2, RowsUntouched
       DEF ClaimFails, ClosingFails, Defer, TablesKept, storeVars, tables
<1>4. CASE StartExecution(s) \/ Unsupported(s) \/ StartAgent(s)
           \/ PreparationFails(s) \/ AgentEnds(s)
  <2>1. /\ Holds(picks[s]) /\ picks[s] \in WorkingPick
        /\ picks[s] \in WorkingPick
    BY <1>0, <1>4 DEF StartExecution, Unsupported, StartAgent, PreparationFails,
                      AgentEnds, Pick, NoPick, StoppingPick
  <2>2. /\ picks'[s].id = picks[s].id /\ picks'[s].task = picks[s].task
        /\ \A u \in Slots : u # s => picks'[u] = picks[u]
    BY <1>0, <1>4, <2>1
       DEF StartExecution, Unsupported, StartAgent, PreparationFails, AgentEnds,
           EndWith, Goto, WorkingPick
  <2>3. PicksCarryOn
    BY <2>1, <2>2 DEF PicksCarryOn
  <2>4. UNCHANGED <<active, lastId, detected, fellSilent>>
    BY <1>4 DEF StartExecution, Unsupported, StartAgent, PreparationFails, AgentEnds,
                EndWith, TablesKept, UpdateExecutionStats, storeVars, tables
  <2>. QED
    BY <2>3, <2>4, RowsUntouched
<1>5. CASE StopMade(s)
  <2>1. PICK r \in RowOf(picks[s]) : Stop(picks[s].worker, r, picks[s].report)
    BY <1>5 DEF StopMade
  <2>2. /\ picks'[s] = NoPick /\ Holds(picks[s])
        /\ \A u \in Slots : u # s => picks'[u] = picks[u]
    BY <1>0, <1>5 DEF StopMade, Over
  <2>3. /\ active' = active \ {r}
        /\ UNCHANGED <<lastId, detected, fellSilent>>
    BY <1>5, <2>1 DEF StopMade, Stop, RemoveActive
  <2>4. ~Holds(picks'[s])
    BY <2>2 DEF NoPick
  <2>. HIDE DEF Holds
  <2>. QED
    BY <2>1, <2>2, <2>3, <2>4, RowGivenUp
<1>6. CASE UnclaimMade(s)
  <2>1. PICK r \in RowOf(picks[s]) : Unclaim(picks[s].worker, r)
    BY <1>6 DEF UnclaimMade
  <2>2. /\ picks'[s].pc = "unclaimed" /\ Holds(picks[s])
        /\ \A u \in Slots : u # s => picks'[u] = picks[u]
    BY <1>0, <1>6 DEF UnclaimMade, Goto, Pick, NoPick, WorkingPick, StoppingPick
  <2>. QED
    BY <1>6, <2>1, <2>2, RowGivenUp DEF UnclaimMade, Unclaim, RemoveActive
<1>7. CASE Heartbeat(s)
  BY <1>7, HeartbeatKeeps
<1>8. CASE ReportUsage(s)
  <2>1. PicksCarryOn
    BY <1>8 DEF ReportUsage, PicksCarryOn
  <2>. QED
    BY <1>8, <2>1, RowsUntouched DEF ReportUsage, UpdateExecutionStats
<1>. QED
  BY <1>1, <1>2, <1>3, <1>4, <1>5, <1>6, <1>7, <1>8 DEF PickStep

(* Sockets, interrupts and crashes touch no row and give picks none.          *)
LEMMA WorkerStepKeeps ==
  ASSUME WInv, IInv',
         \/ \E w \in Workers : WorkerStep(w)
         \/ \E r \in active : InterruptExecution(r)
  PROVE  PicksApart' /\ SilenceSeen' /\ HealthyRunKeepsItsRow'
<1>1. UNCHANGED <<active, lastId, detected, fellSilent>>
  BY DEF WorkerStep, DeferralExpires, Connect, Disconnect, Crash, Interrupt,
         InterruptExecution, TablesKept, storeVars, tables
<1>2. ASSUME NEW i, Interrupt(i) PROVE PicksCarryOn
  <2>1. \A s \in Slots : Executing(picks[s]) => picks[s] \in WorkingPick
    BY DEF WInv, RuntimeTypeOK, Pick, NoPick, StoppingPick, Executing
  <2>2. \A s \in Slots :
          \/ picks'[s] = picks[s]
          \/ /\ Executing(picks[s])
             /\ picks'[s].id = picks[s].id /\ picks'[s].task = picks[s].task
    BY <1>2, <2>1 DEF Interrupt, WorkingPick
  <2>. QED
    BY <2>2 DEF PicksCarryOn, Holds
<1>3. ASSUME NEW w, Crash(w) PROVE PicksCarryOn
  BY <1>3 DEF Crash, PicksCarryOn, Holds, Executing, NoPick
<1>4. ASSUME UNCHANGED picks PROVE PicksCarryOn
  BY <1>4 DEF PicksCarryOn
<1>5. PicksCarryOn
  BY <1>2, <1>3, <1>4 DEF WorkerStep, DeferralExpires, Connect, Disconnect,
                          InterruptExecution
<1>. QED
  BY <1>1, <1>5, RowsUntouched

(* The cron finds only rows that are silent, and prunes only those it found.  *)
LEMMA CronKeeps ==
  ASSUME WInv, IInv', Cron
  PROVE  PicksApart' /\ SilenceSeen' /\ HealthyRunKeepsItsRow'
<1>1. PicksCarryOn /\ UNCHANGED fellSilent /\ lastId \in Nat
  BY DEF Cron, PicksCarryOn, WInv, IInv, TypeOK
<1>2. ASSUME NEW r \in active, Prune(r)
      PROVE  PicksApart' /\ SilenceSeen' /\ HealthyRunKeepsItsRow'
  <2>1. /\ active' = active \ {r} /\ r.id \in detected /\ detected' \subseteq detected
        /\ lastId' >= lastId
    BY <1>1, <1>2 DEF Prune, PruneLive, PruneOrphan, RemoveActive
  <2>2. RowsKept
    BY <2>1 DEF RowsKept, WInv, SilenceSeen
  <2>3. SilenceSeen'
    BY <1>1, <2>1 DEF WInv, SilenceSeen
  <2>. QED
    BY <1>1, <2>1, <2>2, <2>3, CarryOn
<1>3. ASSUME UNCHANGED <<active, lastId>>, detected' \subseteq fellSilent
      PROVE  PicksApart' /\ SilenceSeen' /\ HealthyRunKeepsItsRow'
  <2>1. RowsKept /\ lastId' >= lastId
    BY <1>1, <1>3 DEF RowsKept
  <2>2. SilenceSeen'
    BY <1>1, <1>3 DEF WInv, SilenceSeen
  <2>. QED
    BY <1>1, <2>1, <2>2, CarryOn
<1>4. CASE FindStaleExecutions
  <2>. DEFINE found == {x \in active : IsStale(x)}
  <2>1. detected' = detected \union {r.id : r \in found}
    BY <1>4 DEF FindStaleExecutions
  <2>2. \A r \in found : r.id \in fellSilent
    BY DEF IsStale, WInv, SilenceSeen
  <2>3. detected' \subseteq fellSilent
    BY <2>1, <2>2 DEF WInv, SilenceSeen
  <2>. QED
    BY <1>3, <1>4, <2>3 DEF FindStaleExecutions, tables
<1>5. CASE (\E id \in detected : SkipPruned(id)) \/ AbandonScan
  <2>1. detected' \subseteq fellSilent /\ UNCHANGED <<active, lastId>>
    BY <1>5 DEF SkipPruned, AbandonScan, tables, WInv, SilenceSeen
  <2>. QED
    BY <1>3, <2>1
<1>. QED
  BY <1>2, <1>4, <1>5 DEF Cron

(* Time passes: the ghost records the silences it brings about.               *)
LEMMA TimePassesKeeps ==
  ASSUME WInv, IInv', TimePasses
  PROVE  PicksApart' /\ SilenceSeen' /\ HealthyRunKeepsItsRow'
<1>. DEFINE Aged(r) == [r EXCEPT !.silence = IF @ < StaleAfter THEN @ + 1 ELSE @]
            grown == {x \in active' : x.silence >= StaleAfter}
<1>1. /\ active' = {Aged(r) : r \in active}
      /\ fellSilent' = fellSilent \union {r.id : r \in grown}
      /\ UNCHANGED <<picks, lastId, detected>>
  BY DEF TimePasses, Tick
<1>2. \A r \in active : Aged(r).id = r.id /\ Aged(r).task = r.task
  BY DEF WInv, IInv, TypeOK, ActiveRow
<1>. HIDE DEF Aged
<1>3. RowsKept
  BY <1>1, <1>2 DEF RowsKept
<1>4. PicksCarryOn /\ lastId' >= lastId /\ fellSilent \subseteq fellSilent'
  BY <1>1 DEF PicksCarryOn, WInv, IInv, TypeOK
<1>5. SilenceSeen'
  BY <1>1 DEF WInv, SilenceSeen
<1>. QED
  BY <1>3, <1>4, <1>5, CarryOn

(* Every step keeps the inductive invariant.                                  *)
LEMMA RuntimeStep ==
  ASSUME WInv, [RuntimeNext]_workerVars
  PROVE  WInv'
<1>1. IInv'
  BY StepIsStoreStep, StoreStep DEF WInv
<1>2. RuntimeTypeOK'
  BY <1>1, StepTyped DEF WInv
<1>3. CASE OtherWriters \/ UNCHANGED workerVars
  <2>1. PicksCarryOn /\ UNCHANGED <<active, lastId, detected, fellSilent>>
    BY <1>3 DEF OtherWriters, QueuePut, QueueKeep, EditTask, PicksCarryOn, workerVars,
                storeVars, tables
  <2>. QED
    BY <1>1, <1>2, <2>1, RowsUntouched DEF WInv
<1>. QED
  BY <1>1, <1>2, <1>3, PickStepKeeps, WorkerStepKeeps, CronKeeps, TimePassesKeeps
     DEF RuntimeNext, WInv

(* Nothing is claimed at the start.                                           *)
LEMMA RuntimeInitial == RuntimeInit => WInv
<1>. SUFFICES ASSUME RuntimeInit PROVE WInv
  OBVIOUS
<1>1. IInv
  BY InitIInv DEF RuntimeInit
<1>2. RuntimeTypeOK
  BY DEF RuntimeInit, RuntimeTypeOK, Pick
<1>3. PicksApart /\ SilenceSeen /\ HealthyRunKeepsItsRow
  BY DEF RuntimeInit, StoreInit, PicksApart, SilenceSeen, HealthyRunKeepsItsRow,
         Holds, Executing, NoPick
<1>. QED
  BY <1>1, <1>2, <1>3 DEF WInv

(* The inductive invariant holds throughout.                                  *)
THEOREM RuntimeInvariance == RuntimeSpec => []WInv
<1>1. WInv /\ [RuntimeNext]_workerVars => WInv'
  BY RuntimeStep
<1>. QED
  BY <1>1, RuntimeInitial, PTL DEF RuntimeSpec

(* Picks, maps and messages keep the types worker-app.ts and task-picker.ts   *)
(* give them.                                                                 *)
THEOREM RuntimeTypeCorrect == RuntimeSpec => []RuntimeTypeOK
<1>1. WInv => RuntimeTypeOK
  BY DEF WInv
<1>. QED
  BY <1>1, RuntimeInvariance, PTL

(* A worker that beats in time keeps its execution, whatever late calls of    *)
(* other picks, overlapping scans and edits do.                               *)
THEOREM HealthyRunsAreKept == RuntimeSpec => []HealthyRunKeepsItsRow
<1>1. WInv => HealthyRunKeepsItsRow
  BY DEF WInv
<1>. QED
  BY <1>1, RuntimeInvariance, PTL

(* Two picks that both hold an execution of one task have different rows; a   *)
(* task has one row, so one of the two was silent for the threshold.          *)
THEOREM HealthyRunsAreAlone == RuntimeSpec => []OneHealthyRunPerTask
<1>1. WInv => OneHealthyRunPerTask
  <2>. SUFFICES ASSUME WInv, NEW s \in Slots, NEW u \in Slots, s # u,
                       Holds(picks[s]), Holds(picks[u]),
                       picks[s].task = picks[u].task,
                       picks[s].id \notin fellSilent, picks[u].id \notin fellSilent
                PROVE  FALSE
    BY DEF OneHealthyRunPerTask
  <2>1. PICK r \in active : r.id = picks[s].id /\ r.task = picks[s].task
    BY DEF WInv, HealthyRunKeepsItsRow
  <2>2. PICK q \in active : q.id = picks[u].id /\ q.task = picks[u].task
    BY DEF WInv, HealthyRunKeepsItsRow
  <2>3. r = q
    BY <2>1, <2>2 DEF WInv, IInv, OneRunPerTask
  <2>. QED
    BY <2>1, <2>2, <2>3 DEF WInv, PicksApart
<1>. QED
  BY <1>1, RuntimeInvariance, PTL

(* The workers, with the rest of the backend, implement the specification of  *)
(* the tables: what is proved of the tables holds with the real callers.      *)
THEOREM WorkersImplementStore == RuntimeSpec => StoreSpec
<1>1. RuntimeInit => StoreInit
  BY DEF RuntimeInit
<1>2. WInv /\ [RuntimeNext]_workerVars => [StoreNext \/ Environment]_storeVars
  BY StepIsStoreStep DEF WInv
<1>. QED
  BY <1>1, <1>2, RuntimeInvariance, PTL DEF RuntimeSpec, StoreSpec

(* So with its real callers too, an execution is one run of the ledger, ends   *)
(* once, and hands its telemetry over.                                       *)
THEOREM WorkersImplementLedger ==
  RuntimeSpec => ImplementsLedger /\ TelemetryKept /\ HistoryIsAuditTrail /\ []EndsOnce
BY WorkersImplementStore, TablesImplementLedger, TelemetrySurvives, HistoryOnlyGrows,
   ExecutionEndsOnce, PTL
=============================================================================
