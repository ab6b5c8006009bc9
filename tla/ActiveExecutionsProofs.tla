----------------------- MODULE ActiveExecutionsProofs ----------------------
(***************************************************************************)
(* The execution tables keep their invariants for any number of tasks,     *)
(* workers, claims and ticks, and whatever the populator and the task       *)
(* service do meanwhile.                                                   *)
(***************************************************************************)
EXTENDS ActiveExecutions, SequenceTheorems, TLAPS

(* The inductive invariant.  EndsOnce needs that ids are issued once, and     *)
(* StatsFollowRun that an unclaim deletes no other execution's stats, which   *)
(* rests on the first two.                                                    *)
IInv == TypeOK /\ IdsIssued /\ OneRunPerTask /\ EndsOnce /\ StatsFollowRun

(* What an appended row does to the history of its task and of the others.    *)
LEMMA Appended ==
  ASSUME NEW t \in Tasks, NEW row \in HistoryRow, TypeOK, AddHistory(t, row)
  PROVE  /\ history' \in [Tasks -> Seq(HistoryRow)]
         /\ sinceEnd' \in [Tasks -> 0 .. DelayCap]
         /\ \A u \in Tasks : u # t => history'[u] = history[u]
         /\ DOMAIN history'[t] = DOMAIN history[t] \union {Len(history[t]) + 1}
         /\ \A i \in DOMAIN history[t] : history'[t][i] = history[t][i]
         /\ history'[t][Len(history[t]) + 1] = row
         /\ Len(history[t]) + 1 \notin DOMAIN history[t]
<1>1. history[t] \in Seq(HistoryRow)
  BY DEF TypeOK
<1>2. history'[t] = Append(history[t], row)
  BY DEF AddHistory, TypeOK
<1>3. /\ Append(history[t], row) \in Seq(HistoryRow)
      /\ DOMAIN Append(history[t], row) = 1 .. Len(history[t]) + 1
      /\ \A i \in 1 .. Len(history[t]) : Append(history[t], row)[i] = history[t][i]
      /\ Append(history[t], row)[Len(history[t]) + 1] = row
      /\ DOMAIN history[t] = 1 .. Len(history[t])
      /\ Len(history[t]) \in Nat
  BY <1>1
<1>4. \A u \in Tasks : u # t => history'[u] = history[u]
  BY DEF AddHistory, TypeOK
<1>5. history' \in [Tasks -> Seq(HistoryRow)]
  BY <1>2, <1>3, <1>4 DEF AddHistory, TypeOK
<1>6. sinceEnd' \in [Tasks -> 0 .. DelayCap]
  BY ConstantsAssumption DEF AddHistory, TypeOK, ConstantsAssumption
<1>. QED
  BY <1>2, <1>3, <1>4, <1>5, <1>6

(* A history row has the type of its entity, its id included.                *)
LEMMA HistoryIds ==
  ASSUME TypeOK, NEW t \in Tasks, NEW i \in DOMAIN history[t]
  PROVE  history[t][i] \in HistoryRow /\ history[t][i].id \in Nat
<1>1. history[t] \in Seq(HistoryRow)
  BY DEF TypeOK
<1>2. history[t][i] \in HistoryRow
  BY <1>1
<1>. QED
  BY <1>2 DEF HistoryRow

(* The empty tables satisfy the invariant.                                   *)
LEMMA InitIInv == StoreInit => IInv
<1>. SUFFICES ASSUME StoreInit PROVE IInv
  OBVIOUS
<1>1. TypeOK
  BY ConstantsAssumption
     DEF StoreInit, TypeOK, AbsentTask, TaskRow, ConstantsAssumption
<1>2. IdsIssued /\ OneRunPerTask /\ EndsOnce /\ StatsFollowRun
  BY DEF StoreInit, IdsIssued, OneRunPerTask, EndsOnce, StatsFollowRun
<1>. QED
  BY <1>1, <1>2 DEF IInv

(* A claim: the new row has a fresh id and the only active row of its task.   *)
LEMMA ClaimStep ==
  ASSUME NEW w \in Workers, NEW t \in Tasks, IInv, Claim(w, t)
  PROVE  IInv'
<1>. DEFINE new == [id |-> lastId + 1, task |-> t, worker |-> w,
                    agent |-> tasks[t].assignee, silence |-> 0,
                    before |-> [status |-> tasks[t].status,
                                tags |-> tasks[t].tags,
                                assignee |-> tasks[t].assignee],
                    session |-> None, toolCalls |-> 0]
<1>1. /\ active' = active \union {new}
      /\ stats' = stats \union {[execution |-> lastId + 1, reported |-> FALSE]}
      /\ lastId' = lastId + 1
      /\ UNCHANGED <<tasks, history, sinceEnd, detected>>
      /\ queue' = queue \ {t}
      /\ ~HasActive(t)
  BY DEF Claim, NewStats, Claimable
<1>2. new \in ActiveRow
  <2>1. tasks[t] \in TaskRow /\ tasks[t].assignee \in Agents /\ lastId \in Nat
    BY DEF IInv, TypeOK, Claim, Claimable
  <2>2. [status |-> tasks[t].status, tags |-> tasks[t].tags,
         assignee |-> tasks[t].assignee] \in Snapshot
    BY <2>1, ConstantsAssumption DEF TaskRow, Snapshot, ConstantsAssumption
  <2>. QED
    BY <2>1, <2>2, ConstantsAssumption DEF ActiveRow, ConstantsAssumption
<1>3. TypeOK'
  <2>1. [execution |-> lastId + 1, reported |-> FALSE] \in StatsRow
    BY DEF IInv, TypeOK, StatsRow
  <2>2. active' \subseteq ActiveRow /\ stats' \subseteq StatsRow
    BY <1>1, <1>2, <2>1 DEF IInv, TypeOK
  <2>. QED
    BY <1>1, <2>2 DEF IInv, TypeOK
<1>4. IdsIssued'
  <2>1. ASSUME NEW r \in active' PROVE 0 < r.id /\ r.id <= lastId'
    BY <1>1, <2>1 DEF IInv, TypeOK, IdsIssued, ActiveRow
  <2>2. ASSUME NEW u \in Tasks, NEW i \in DOMAIN history[u]
        PROVE  history[u][i].id <= lastId'
    <3>1. history[u][i].id \in Nat
      BY HistoryIds DEF IInv
    <3>. QED
      BY <1>1, <3>1 DEF IInv, TypeOK, IdsIssued
  <2>. QED
    BY <1>1, <2>1, <2>2 DEF IdsIssued
<1>5. OneRunPerTask'
  BY <1>1 DEF IInv, TypeOK, IdsIssued, OneRunPerTask, HasActive, ActiveRow
<1>6. EndsOnce'
  BY <1>1 DEF IInv, TypeOK, IdsIssued, EndsOnce
<1>7. StatsFollowRun'
  <2>1. \A s \in stats : s \in stats'
    BY <1>1
  <2>2. ASSUME NEW r \in active' PROVE \E s \in stats' : s.execution = r.id
    <3>1. CASE r = new
      <4>1. [execution |-> lastId + 1, reported |-> FALSE] \in stats'
        BY <1>1
      <4>. QED
        BY <3>1, <4>1
    <3>2. CASE r \in active
      BY <2>1, <3>2 DEF IInv, StatsFollowRun
    <3>. QED
      BY <1>1, <3>1, <3>2
  <2>. QED
    BY <1>1, <2>1, <2>2 DEF IInv, StatsFollowRun
<1>. QED
  BY <1>3, <1>4, <1>5, <1>6, <1>7 DEF IInv

(* An active row that leaves with a history row, under its own or a fresh id. *)
LEMMA EndStep ==
  ASSUME NEW r \in active, NEW row \in HistoryRow, IInv,
         RemoveActive(r), AddHistory(r.task, row), stats' = stats,
         tasks' \in [Tasks -> TaskRow], queue' \subseteq Tasks,
         detected' \subseteq Nat,
         \/ row.id = r.id /\ lastId' = lastId
         \/ row.id = lastId + 1 /\ lastId' = lastId + 1 /\ row.status = "STALE"
  PROVE  IInv'
<1>1. r \in ActiveRow /\ r.task \in Tasks /\ r.id \in Nat /\ r.id <= lastId
      /\ lastId \in Nat
  BY DEF IInv, TypeOK, ActiveRow, IdsIssued
<1>. DEFINE t == r.task
            n == Len(history[t]) + 1
<1>2. /\ history' \in [Tasks -> Seq(HistoryRow)]
      /\ sinceEnd' \in [Tasks -> 0 .. DelayCap]
      /\ \A u \in Tasks : u # t => history'[u] = history[u]
      /\ DOMAIN history'[t] = DOMAIN history[t] \union {n}
      /\ \A i \in DOMAIN history[t] : history'[t][i] = history[t][i]
      /\ history'[t][n] = row
      /\ n \notin DOMAIN history[t]
  BY <1>1, Appended DEF IInv
<1>. HIDE DEF n
<1>3. active' = active \ {r}
  BY DEF RemoveActive
<1>4. \A q \in active' : q \in active /\ q.id # r.id /\ q.id \in Nat /\ q.id <= lastId
  BY <1>3 DEF IInv, OneRunPerTask, TypeOK, ActiveRow, IdsIssued
<1>5. \A u \in Tasks : \A i \in DOMAIN history[u] :
         /\ history[u][i].id \in Nat /\ history[u][i].id <= lastId
         /\ history[u][i].id # r.id
  BY HistoryIds DEF IInv, IdsIssued, EndsOnce
<1>6. row.id \in Nat /\ row.id <= lastId' /\ lastId <= lastId' /\ lastId' \in Nat
  BY <1>1
(* Each history row is an old one or the appended one.                        *)
<1>7. ASSUME NEW u \in Tasks, NEW i \in DOMAIN history'[u]
      PROVE  \/ i \in DOMAIN history[u] /\ history'[u][i] = history[u][i]
             \/ u = t /\ i = n /\ history'[u][i] = row
  BY <1>2
<1>8. TypeOK'
  BY <1>2, <1>3, <1>6 DEF IInv, TypeOK
<1>9. IdsIssued'
  <2>1. \A q \in active' : 0 < q.id /\ q.id <= lastId'
    BY <1>1, <1>4, <1>6 DEF IInv, IdsIssued
  <2>2. ASSUME NEW u \in Tasks, NEW i \in DOMAIN history'[u]
        PROVE  history'[u][i].id <= lastId'
    BY <1>1, <1>5, <1>6, <1>7
  <2>. QED
    BY <2>1, <2>2 DEF IdsIssued
<1>10. OneRunPerTask'
  BY <1>3 DEF IInv, OneRunPerTask
(* The id of the new row is in no other row of the two tables.                *)
<1>11. \A q \in active' : q.id # row.id
  BY <1>1, <1>4
<1>12. \A u \in Tasks : \A i \in DOMAIN history[u] : history[u][i].id # row.id
  BY <1>1, <1>5
<1>13. EndsOnce'
  <2>1. ASSUME NEW q \in active', NEW u \in Tasks, NEW i \in DOMAIN history'[u]
        PROVE  history'[u][i].id # q.id
    BY <1>4, <1>7, <1>11 DEF IInv, EndsOnce
  <2>2. ASSUME NEW u \in Tasks, NEW v \in Tasks,
               NEW i \in DOMAIN history'[u], NEW j \in DOMAIN history'[v],
               history'[u][i].id = history'[v][j].id
        PROVE  u = v /\ i = j
    BY <1>7, <1>12, <2>2 DEF IInv, EndsOnce
  <2>. QED
    BY <2>1, <2>2 DEF EndsOnce
<1>14. StatsFollowRun'
  <2>1. \A q \in active' : \E s \in stats' : s.execution = q.id
    BY <1>4 DEF IInv, StatsFollowRun
  <2>2. ASSUME NEW u \in Tasks, NEW i \in DOMAIN history'[u],
               history'[u][i].status # "STALE"
        PROVE  \E s \in stats' : s.execution = history'[u][i].id
    <3>1. CASE i \in DOMAIN history[u] /\ history'[u][i] = history[u][i]
      BY <2>2, <3>1 DEF IInv, StatsFollowRun
    <3>2. CASE history'[u][i] = row
      BY <2>2, <3>2 DEF IInv, StatsFollowRun
    <3>. QED
      BY <1>7, <3>1, <3>2
  <2>. QED
    BY <2>1, <2>2 DEF StatsFollowRun
<1>. QED
  BY <1>8, <1>9, <1>10, <1>13, <1>14 DEF IInv

(* Steps that keep the history and the stats of the executions they touch.    *)
LEMMA RowsStep ==
  ASSUME IInv,
         UNCHANGED <<history, lastId>>,
         tasks' \in [Tasks -> TaskRow], queue' \subseteq Tasks,
         detected' \subseteq Nat, sinceEnd' \in [Tasks -> 0 .. DelayCap],
         active' \subseteq ActiveRow, stats' \subseteq StatsRow,
         (* every new row stands for an old one of the same id and task, *)
         \A q \in active' : \E r \in active : q.id = r.id /\ q.task = r.task,
         (* two of them never for the same, *)
         \A p, q \in active' : p.id = q.id => p = q,
         (* and no stats are lost of what is still in the tables. *)
         \A s \in stats :
           \/ \E z \in stats' : z.execution = s.execution
           \/ /\ \A q \in active' : q.id # s.execution
              /\ \E r \in active : r.id = s.execution
  PROVE  IInv'
<1>1. TypeOK'
  BY DEF IInv, TypeOK
<1>2. IdsIssued'
  BY DEF IInv, IdsIssued
<1>3. OneRunPerTask'
  BY DEF IInv, OneRunPerTask
<1>4. EndsOnce'
  BY DEF IInv, EndsOnce
<1>5. StatsFollowRun'
  <2>1. ASSUME NEW q \in active' PROVE \E z \in stats' : z.execution = q.id
    <3>1. PICK r \in active : q.id = r.id
      OBVIOUS
    <3>2. PICK s \in stats : s.execution = r.id
      BY DEF IInv, StatsFollowRun
    <3>. QED
      BY <3>1, <3>2
  <2>2. ASSUME NEW u \in Tasks, NEW i \in DOMAIN history[u],
               history[u][i].status # "STALE"
        PROVE  \E z \in stats' : z.execution = history[u][i].id
    <3>1. PICK s \in stats : s.execution = history[u][i].id
      BY <2>2 DEF IInv, StatsFollowRun
    <3>2. \A r \in active : r.id # history[u][i].id
      BY DEF IInv, EndsOnce
    <3>. QED
      BY <3>1, <3>2
  <2>. QED
    BY <2>1, <2>2 DEF StatsFollowRun
<1>. QED
  BY <1>1, <1>2, <1>3, <1>4, <1>5 DEF IInv

(* stopTask: the id moves from the active rows to the history.               *)
LEMMA StopStep ==
  ASSUME NEW w \in Workers, NEW r \in active, NEW report \in EndReports,
         IInv, Stop(w, r, report)
  PROVE  IInv'
<1>1. r \in ActiveRow
  BY DEF IInv, TypeOK
<1>2. /\ report[1] \in {"SUCCEEDED", "FAILED", "STALE", "CANCELLED"}
      /\ report[2] \in {"OUT_OF_QUOTA", "INTERRUPTED", "UNKNOWN"} \union {None}
  BY ConstantsAssumption DEF ConstantsAssumption
<1>3. HistoryOf(r, w, report) \in HistoryRow
  BY <1>1, <1>2 DEF HistoryOf, HistoryRow, ActiveRow
<1>4. HistoryOf(r, w, report).id = r.id
  BY DEF HistoryOf
<1>5. /\ RemoveActive(r) /\ AddHistory(r.task, HistoryOf(r, w, report))
      /\ UNCHANGED <<tasks, queue, stats, lastId, detected>>
  BY DEF Stop
<1>. QED
  BY <1>3, <1>4, <1>5, EndStep DEF IInv, TypeOK

(* unclaimTask: the stats it deletes belong to the row it deletes.           *)
LEMMA UnclaimStep ==
  ASSUME NEW w \in Workers, NEW r \in active, IInv, Unclaim(w, r)
  PROVE  IInv'
<1>1. /\ active' = active \ {r}
      /\ stats' = {s \in stats : s.execution # r.id}
      /\ queue' = queue \union {r.task}
      /\ UNCHANGED <<tasks, history, sinceEnd, lastId, detected>>
  BY DEF Unclaim, RemoveActive
<1>2. r.task \in Tasks
  BY DEF IInv, TypeOK, ActiveRow
<1>3. \A q \in active' : q.id # r.id
  BY <1>1 DEF IInv, OneRunPerTask
<1>4. \A s \in stats :
        \/ \E z \in stats' : z.execution = s.execution
        \/ (\A q \in active' : q.id # s.execution) /\ (\E q \in active : q.id = s.execution)
  BY <1>1, <1>3
<1>5. \A p, q \in active' : p.id = q.id => p = q
  BY <1>1 DEF IInv, OneRunPerTask
<1>6. \A q \in active' : \E p \in active : q.id = p.id /\ q.task = p.task
  BY <1>1
<1>7. /\ tasks' \in [Tasks -> TaskRow] /\ queue' \subseteq Tasks
      /\ detected' \subseteq Nat /\ sinceEnd' \in [Tasks -> 0 .. DelayCap]
      /\ active' \subseteq ActiveRow /\ stats' \subseteq StatsRow
  BY <1>1, <1>2 DEF IInv, TypeOK
<1>. QED
  BY <1>1, <1>4, <1>5, <1>6, <1>7, RowsStep

(* Session, tool-call and heartbeat updates.                                  *)
LEMMA RewriteStep ==
  ASSUME NEW r \in active, NEW new \in ActiveRow,
         new.id = r.id, new.task = r.task, IInv, Rewrite(r, new)
  PROVE  IInv'
<1>1. /\ active' = (active \ {r}) \union {new}
      /\ UNCHANGED <<tasks, queue, stats, history, sinceEnd, lastId, detected>>
  BY DEF Rewrite
<1>2. \A q \in active' : \E p \in active : q.id = p.id /\ q.task = p.task
  BY <1>1
<1>3. \A p, q \in active' : p.id = q.id => p = q
  BY <1>1 DEF IInv, OneRunPerTask
<1>4. /\ tasks' \in [Tasks -> TaskRow] /\ queue' \subseteq Tasks
      /\ detected' \subseteq Nat /\ sinceEnd' \in [Tasks -> 0 .. DelayCap]
      /\ active' \subseteq ActiveRow /\ stats' \subseteq StatsRow
  BY <1>1 DEF IInv, TypeOK
<1>. QED
  BY <1>1, <1>2, <1>3, <1>4, RowsStep

(* Session, tool-call and heartbeat updates keep id and task of their row.   *)
LEMMA RowUpdates ==
  ASSUME NEW r \in active, IInv,
         \/ \E s \in Sessions : UpdateRunnerSessionId(r, s)
         \/ IncrementToolCallCount(r)
         \/ TouchHeartbeat(r)
  PROVE  IInv'
<1>1. r \in ActiveRow
  BY DEF IInv, TypeOK
<1>2. ASSUME NEW s \in Sessions, UpdateRunnerSessionId(r, s) PROVE IInv'
  <2>1. [r EXCEPT !.session = s] \in ActiveRow
    BY <1>1 DEF ActiveRow
  <2>2. /\ [r EXCEPT !.session = s].id = r.id
        /\ [r EXCEPT !.session = s].task = r.task
    BY <1>1 DEF ActiveRow
  <2>. QED
    BY <1>2, <2>1, <2>2, RewriteStep DEF UpdateRunnerSessionId
<1>3. ASSUME IncrementToolCallCount(r) PROVE IInv'
  <2>1. [r EXCEPT !.toolCalls = @ + 1] \in ActiveRow
    BY <1>1, <1>3, ConstantsAssumption
       DEF ActiveRow, IncrementToolCallCount, ConstantsAssumption
  <2>2. /\ [r EXCEPT !.toolCalls = @ + 1].id = r.id
        /\ [r EXCEPT !.toolCalls = @ + 1].task = r.task
    BY <1>1 DEF ActiveRow
  <2>. QED
    BY <1>3, <2>1, <2>2, RewriteStep DEF IncrementToolCallCount
<1>4. ASSUME TouchHeartbeat(r) PROVE IInv'
  <2>1. [r EXCEPT !.silence = 0] \in ActiveRow
    BY <1>1, ConstantsAssumption DEF ActiveRow, ConstantsAssumption
  <2>2. /\ [r EXCEPT !.silence = 0].id = r.id
        /\ [r EXCEPT !.silence = 0].task = r.task
    BY <1>1 DEF ActiveRow
  <2>. QED
    BY <1>4, <2>1, <2>2, RewriteStep DEF TouchHeartbeat
<1>. QED
  BY <1>2, <1>3, <1>4

(* updateExecutionStats: the row is still there for its execution.           *)
LEMMA StatsStep ==
  ASSUME NEW s \in stats, IInv, UpdateExecutionStats(s)
  PROVE  IInv'
<1>. DEFINE new == [s EXCEPT !.reported = TRUE]
<1>1. /\ stats' = (stats \ {s}) \union {new}
      /\ UNCHANGED <<tasks, queue, active, history, sinceEnd, lastId, detected>>
  BY DEF UpdateExecutionStats
<1>2. s \in StatsRow
  BY DEF IInv, TypeOK
<1>3. new \in StatsRow /\ new.execution = s.execution
  BY <1>2 DEF StatsRow
<1>. HIDE DEF new
<1>4. \A z \in stats : \E y \in stats' : y.execution = z.execution
  BY <1>1, <1>3
<1>5. \A p, q \in active' : p.id = q.id => p = q
  BY <1>1 DEF IInv, OneRunPerTask
<1>6. \A q \in active' : \E p \in active : q.id = p.id /\ q.task = p.task
  BY <1>1
<1>7. /\ tasks' \in [Tasks -> TaskRow] /\ queue' \subseteq Tasks
      /\ detected' \subseteq Nat /\ sinceEnd' \in [Tasks -> 0 .. DelayCap]
      /\ active' \subseteq ActiveRow /\ stats' \subseteq StatsRow
  BY <1>1, <1>3 DEF IInv, TypeOK
<1>. QED
  BY <1>1, <1>4, <1>5, <1>6, <1>7, RowsStep

(* The cron: a pruned execution is recorded under a fresh id.                *)
LEMMA PruneStep ==
  ASSUME NEW r \in active, IInv, Prune(r)
  PROVE  IInv'
<1>1. r \in ActiveRow /\ r.task \in Tasks
  BY DEF IInv, TypeOK, ActiveRow
<1>2. /\ detected' \subseteq Nat
      /\ UNCHANGED <<queue, stats>>
      /\ PruneLive(r) \/ PruneOrphan(r)
  BY DEF Prune, IInv, TypeOK
<1>3. CASE PruneLive(r)
  <2>. DEFINE row == [id |-> lastId + 1, agent |-> r.agent,
                      worker |-> r.worker, session |-> None, toolCalls |-> 0,
                      status |-> "STALE", error |-> None]
  <2>1. row \in HistoryRow
    BY <1>1, ConstantsAssumption
       DEF ActiveRow, HistoryRow, IInv, TypeOK, ConstantsAssumption
  <2>2. RemoveActive(r) /\ AddHistory(r.task, row) /\ lastId' = lastId + 1
    BY <1>3 DEF PruneLive
  <2>3. tasks' \in [Tasks -> TaskRow]
    <3>1. tasks[r.task] \in TaskRow
      BY <1>1 DEF IInv, TypeOK
    <3>2. /\ r.before.status \in Statuses /\ r.before.tags \in SUBSET Tags
          /\ r.before.assignee \in Actors \union {None}
      BY <1>1 DEF ActiveRow, Snapshot
    <3>3. [tasks[r.task] EXCEPT !.status = r.before.status,
                                !.assignee = r.before.assignee,
                                !.tags = r.before.tags] \in TaskRow
      BY <3>1, <3>2 DEF TaskRow
    <3>. QED
      BY <1>1, <1>3, <3>3 DEF PruneLive, IInv, TypeOK
  <2>4. row.id = lastId + 1 /\ row.status = "STALE"
    OBVIOUS
  <2>5. queue' \subseteq Tasks /\ stats' = stats
    BY <1>2 DEF IInv, TypeOK
  <2>. HIDE DEF row
  <2>. QED
    BY <1>2, <2>1, <2>2, <2>3, <2>4, <2>5, EndStep
<1>4. CASE PruneOrphan(r)
  <2>1. /\ active' = active \ {r}
        /\ UNCHANGED <<tasks, lastId, history, sinceEnd>>
    BY <1>4 DEF PruneOrphan, RemoveActive
  <2>2. \A p, q \in active' : p.id = q.id => p = q
    BY <2>1 DEF IInv, OneRunPerTask
  <2>3. \A q \in active' : \E p \in active : q.id = p.id /\ q.task = p.task
    BY <2>1
  <2>4. /\ tasks' \in [Tasks -> TaskRow] /\ queue' \subseteq Tasks
        /\ sinceEnd' \in [Tasks -> 0 .. DelayCap]
        /\ active' \subseteq ActiveRow /\ stats' \subseteq StatsRow
    BY <1>2, <2>1 DEF IInv, TypeOK
  <2>5. \A s \in stats : \E z \in stats' : z.execution = s.execution
    BY <1>2
  <2>. QED
    BY <1>2, <2>1, <2>2, <2>3, <2>4, <2>5, RowsStep
<1>. QED
  BY <1>2, <1>3, <1>4

(* Time only changes ages.                                                   *)
LEMMA TickStep ==
  ASSUME IInv, Tick
  PROVE  IInv'
<1>. DEFINE aged(r) == [r EXCEPT !.silence = IF @ < StaleAfter THEN @ + 1 ELSE @]
<1>1. /\ active' = {aged(r) : r \in active}
      /\ UNCHANGED <<tasks, queue, stats, history, lastId, detected>>
  BY DEF Tick
<1>2. ASSUME NEW r \in active
      PROVE  aged(r) \in ActiveRow /\ aged(r).id = r.id /\ aged(r).task = r.task
  <2>1. r \in ActiveRow
    BY DEF IInv, TypeOK
  <2>2. r.silence \in 0 .. StaleAfter /\ StaleAfter \in Nat
    BY <2>1, ConstantsAssumption DEF ActiveRow, ConstantsAssumption
  <2>3. (IF r.silence < StaleAfter THEN r.silence + 1 ELSE r.silence)
          \in 0 .. StaleAfter
    BY <2>2
  <2>. QED
    BY <2>1, <2>3 DEF ActiveRow
<1>3. sinceEnd' \in [Tasks -> 0 .. DelayCap]
  BY ConstantsAssumption DEF Tick, IInv, TypeOK, ConstantsAssumption
<1>. HIDE DEF aged
<1>4. \A q \in active' : \E p \in active : q.id = p.id /\ q.task = p.task
  BY <1>1, <1>2
<1>5. \A p, q \in active' : p.id = q.id => p = q
  BY <1>1, <1>2 DEF IInv, OneRunPerTask
<1>6. \A s \in stats : \E z \in stats' : z.execution = s.execution
  BY <1>1
<1>7. /\ tasks' \in [Tasks -> TaskRow] /\ queue' \subseteq Tasks
      /\ detected' \subseteq Nat
      /\ active' \subseteq ActiveRow /\ stats' \subseteq StatsRow
  BY <1>1, <1>2 DEF IInv, TypeOK
<1>. QED
  BY <1>1, <1>3, <1>4, <1>5, <1>6, <1>7, RowsStep

(* Steps that touch neither rows, history nor stats: the scan's bookkeeping   *)
(* and the environment.                                                       *)
LEMMA QuietStep ==
  ASSUME IInv, UNCHANGED <<active, stats, history, sinceEnd, lastId>>,
         tasks' \in [Tasks -> TaskRow], queue' \subseteq Tasks,
         detected' \subseteq Nat
  PROVE  IInv'
BY DEF IInv, TypeOK, IdsIssued, OneRunPerTask, EndsOnce, StatsFollowRun

(* The scan's bookkeeping.                                                    *)
LEMMA ScanSteps ==
  ASSUME IInv,
         \/ FindStaleExecutions
         \/ \E id \in detected : SkipPruned(id)
         \/ AbandonScan
  PROVE  IInv'
<1>1. detected' \subseteq Nat
  <2>1. \A r \in active : r.id \in Nat
    BY DEF IInv, TypeOK, ActiveRow
  <2>2. CASE FindStaleExecutions
    <3>. DEFINE found == {x \in active : IsStale(x)}
    <3>1. detected' = detected \union {r.id : r \in found}
      BY <2>2 DEF FindStaleExecutions
    <3>2. found \subseteq active /\ detected \subseteq Nat
      BY DEF IInv, TypeOK
    <3>. QED
      BY <2>1, <3>1, <3>2
  <2>3. CASE detected' \subseteq detected
    BY <2>3 DEF IInv, TypeOK
  <2>. QED
    BY <2>2, <2>3 DEF SkipPruned, AbandonScan
<1>2. UNCHANGED tables
  BY DEF FindStaleExecutions, SkipPruned, AbandonScan
<1>. QED
  BY <1>1, <1>2, QuietStep DEF tables, IInv, TypeOK

(* The queue and the task rows may change in any way.                        *)
LEMMA EnvironmentStep ==
  ASSUME IInv, Environment
  PROVE  IInv'
<1>1. ASSUME NEW t \in Tasks, QueuePut(t) PROVE IInv'
  BY <1>1, QuietStep DEF QueuePut, IInv, TypeOK
<1>2. ASSUME NEW ts \in SUBSET Tasks, QueueKeep(ts) PROVE IInv'
  BY <1>2, QuietStep DEF QueueKeep, IInv, TypeOK
<1>3. ASSUME NEW t \in Tasks, NEW row \in TaskRow, EditTask(t, row) PROVE IInv'
  BY <1>3, QuietStep DEF EditTask, IInv, TypeOK
<1>. QED
  BY <1>1, <1>2, <1>3 DEF Environment

(* Every step of the tables and of their environment keeps the invariant.    *)
LEMMA StoreStep ==
  ASSUME IInv, [StoreNext \/ Environment]_storeVars
  PROVE  IInv'
<1>1. CASE \E w \in Workers, t \in Tasks : Claim(w, t)
  BY <1>1, ClaimStep
<1>2. CASE \E w \in Workers, r \in active, report \in EndReports : Stop(w, r, report)
  BY <1>2, StopStep
<1>3. CASE \E w \in Workers, r \in active : Unclaim(w, r)
  BY <1>3, UnclaimStep
<1>4. CASE \/ \E r \in active, s \in Sessions : UpdateRunnerSessionId(r, s)
           \/ \E r \in active : IncrementToolCallCount(r)
           \/ \E r \in active : TouchHeartbeat(r)
  BY <1>4, RowUpdates
<1>5. CASE \E s \in stats : UpdateExecutionStats(s)
  BY <1>5, StatsStep
<1>6. CASE \/ FindStaleExecutions
           \/ \E id \in detected : SkipPruned(id)
           \/ AbandonScan
  BY <1>6, ScanSteps
<1>7. CASE \E r \in active : Prune(r)
  BY <1>7, PruneStep
<1>8. CASE Tick
  BY <1>8, TickStep
<1>9. CASE Environment
  BY <1>9, EnvironmentStep
<1>10. CASE UNCHANGED storeVars
  BY <1>10, QuietStep DEF storeVars, tables, IInv, TypeOK
<1>. QED
  BY <1>1, <1>2, <1>3, <1>4, <1>5, <1>6, <1>7, <1>8, <1>9, <1>10 DEF StoreNext

(* The inductive invariant holds throughout.                                  *)
THEOREM Invariance == StoreSpec => []IInv
<1>1. IInv /\ [StoreNext \/ Environment]_storeVars => IInv'
  BY StoreStep
<1>. QED
  BY InitIInv, <1>1, PTL DEF StoreSpec

(* Whatever the populator and the task service do, every row of the tables    *)
(* keeps the type of its entity.                                              *)
THEOREM TypeCorrect == StoreSpec => []TypeOK
<1>1. IInv => TypeOK
  BY DEF IInv
<1>. QED
  BY Invariance, <1>1, PTL

(* claimTask never gives a task to two executions, for any number of workers, *)
(* tasks and claims, whatever the queue holds.                                *)
THEOREM TaskRunsOnce == StoreSpec => []OneRunPerTask
<1>1. IInv => OneRunPerTask
  BY DEF IInv
<1>. QED
  BY Invariance, <1>1, PTL

(* stopTask, unclaimTask and the pruner never end an execution twice, however *)
(* many of them reach for it.                                                 *)
THEOREM ExecutionEndsOnce == StoreSpec => []EndsOnce
<1>1. IInv => EndsOnce
  BY DEF IInv
<1>. QED
  BY Invariance, <1>1, PTL

(* An active or worker-ended execution always has its stats row, so a late    *)
(* updateExecutionStats finds it.                                             *)
THEOREM StatsAreKept == StoreSpec => []StatsFollowRun
<1>1. IInv => StatsFollowRun
  BY DEF IInv
<1>. QED
  BY Invariance, <1>1, PTL
(***************************************************************************)
(* The tables implement the ledger.                                        *)
(***************************************************************************)

(* The run that works on t when the active rows are those of S.              *)
RunIn(S, t) ==
  IF \E r \in S : r.task = t THEN (CHOOSE r \in S : r.task = t).id ELSE 0

(* The records that stand for the history h.                                 *)
Recorded(h) ==
  [i \in DOMAIN h |-> [run |-> h[i].id, outcome |-> h[i].status]]

(* Where each task has one row, the row's id is the run.                      *)
LEMMA RunOfRow ==
  ASSUME NEW S, \A p, q \in S : p.task = q.task => p = q, NEW r \in S
  PROVE  RunIn(S, r.task) = r.id
<1>1. (CHOOSE q \in S : q.task = r.task) \in S
      /\ (CHOOSE q \in S : q.task = r.task).task = r.task
  OBVIOUS
<1>2. (CHOOSE q \in S : q.task = r.task) = r
  BY <1>1
<1>. QED
  BY <1>2 DEF RunIn

(* A new row, for a task that had none, is the run of its task only.          *)
LEMMA RunBegins ==
  ASSUME NEW S, \A p, q \in S : p.task = q.task => p = q,
         NEW new, new.task \in Tasks, \A p \in S : p.task # new.task
  PROVE  \A t \in Tasks :
           RunIn(S \union {new}, t)
             = IF t = new.task THEN new.id ELSE RunIn(S, t)
<1>. DEFINE T == S \union {new}
<1>1. \A p, q \in T : p.task = q.task => p = q
  OBVIOUS
<1>2. RunIn(T, new.task) = new.id
  BY <1>1, RunOfRow
<1>3. ASSUME NEW t \in Tasks, t # new.task PROVE RunIn(T, t) = RunIn(S, t)
  <2>1. CASE \E p \in S : p.task = t
    <3>1. PICK p \in S : p.task = t
      BY <2>1
    <3>2. RunIn(S, t) = p.id /\ RunIn(T, t) = p.id
      BY <1>1, <3>1, RunOfRow
    <3>. QED
      BY <3>2
  <2>2. CASE \A p \in S : p.task # t
    BY <1>3, <2>2 DEF RunIn
  <2>. QED
    BY <2>1, <2>2
<1>. QED
  BY <1>2, <1>3

(* A row that goes leaves its task, and no other, without a run.              *)
LEMMA RunEnds ==
  ASSUME NEW S, \A p, q \in S : p.task = q.task => p = q,
         NEW r \in S, r.task \in Tasks
  PROVE  [t \in Tasks |-> RunIn(S \ {r}, t)]
           = [[t \in Tasks |-> RunIn(S, t)] EXCEPT ![r.task] = 0]
<1>. DEFINE T == S \ {r}
<1>1. RunIn(T, r.task) = 0
  BY DEF RunIn
<1>2. ASSUME NEW t \in Tasks, t # r.task PROVE RunIn(T, t) = RunIn(S, t)
  <2>1. CASE \E p \in S : p.task = t
    <3>1. PICK p \in S : p.task = t
      BY <2>1
    <3>2. p \in T
      BY <1>2, <3>1
    <3>3. RunIn(S, t) = p.id /\ RunIn(T, t) = p.id
      BY <3>1, <3>2, RunOfRow
    <3>. QED
      BY <3>3
  <2>2. CASE \A p \in S : p.task # t
    BY <2>2 DEF RunIn
  <2>. QED
    BY <2>1, <2>2
<1>. QED
  BY <1>1, <1>2

(* Rows that stand for the same rows, with their tasks and ids, are the same  *)
(* runs.                                                                      *)
LEMMA RunsSame ==
  ASSUME NEW S, \A p, q \in S : p.task = q.task => p = q,
         NEW T, \A p, q \in T : p.task = q.task => p = q,
         \A q \in T : \E p \in S : p.task = q.task /\ p.id = q.id,
         \A p \in S : \E q \in T : p.task = q.task
  PROVE  [t \in Tasks |-> RunIn(T, t)] = [t \in Tasks |-> RunIn(S, t)]
<1>1. ASSUME NEW t \in Tasks PROVE RunIn(T, t) = RunIn(S, t)
  <2>1. CASE \E q \in T : q.task = t
    <3>1. PICK q \in T : q.task = t
      BY <2>1
    <3>2. PICK p \in S : p.task = q.task /\ p.id = q.id
      OBVIOUS
    <3>3. RunIn(S, t) = p.id /\ RunIn(T, t) = q.id
      BY <3>1, <3>2, RunOfRow
    <3>. QED
      BY <3>2, <3>3
  <2>2. CASE \A q \in T : q.task # t
    BY <2>2 DEF RunIn
  <2>. QED
    BY <2>1, <2>2
<1>. QED
  BY <1>1

(* A history row that is appended is a record that is appended.               *)
LEMMA RecordAppended ==
  ASSUME NEW h \in Seq(HistoryRow), NEW row \in HistoryRow
  PROVE  Recorded(Append(h, row))
           = Append(Recorded(h), [run |-> row.id, outcome |-> row.status])
<1>. DEFINE rec(x) == [run |-> x.id, outcome |-> x.status]
            Record == [run : Nat,
                       outcome : {"SUCCEEDED", "FAILED", "STALE", "CANCELLED"}]
            new == Append(h, row)
<1>1. /\ Len(h) \in Nat /\ DOMAIN h = 1 .. Len(h)
      /\ \A i \in 1 .. Len(h) : h[i] \in HistoryRow
  OBVIOUS
<1>2. /\ new \in Seq(HistoryRow) /\ Len(new) = Len(h) + 1
      /\ DOMAIN new = 1 .. Len(h) + 1
      /\ \A i \in 1 .. Len(h) : new[i] = h[i]
      /\ new[Len(h) + 1] = row
  OBVIOUS
<1>3. \A x \in HistoryRow : rec(x) \in Record
  BY DEF HistoryRow
<1>. HIDE DEF new
<1>4. /\ Recorded(h) = [i \in 1 .. Len(h) |-> rec(h[i])]
      /\ Recorded(new) = [i \in 1 .. Len(h) + 1 |-> rec(new[i])]
  BY <1>1, <1>2 DEF Recorded
<1>. HIDE DEF rec, Record
<1>5. Recorded(h) \in Seq(Record) /\ Len(Recorded(h)) = Len(h)
  BY <1>1, <1>3, <1>4
<1>6. \A i \in 1 .. Len(h) + 1 : new[i] \in HistoryRow
  BY <1>1, <1>2
<1>7. Recorded(new) \in Seq(Record) /\ Len(Recorded(new)) = Len(h) + 1
  BY <1>1, <1>3, <1>4, <1>6
<1>8. rec(row) \in Record
  BY <1>3
<1>9. /\ Append(Recorded(h), rec(row)) \in Seq(Record)
      /\ Len(Append(Recorded(h), rec(row))) = Len(h) + 1
      /\ \A i \in 1 .. Len(h) : Append(Recorded(h), rec(row))[i] = Recorded(h)[i]
      /\ Append(Recorded(h), rec(row))[Len(h) + 1] = rec(row)
  BY <1>5, <1>8
<1>10. \A i \in 1 .. Len(h) + 1 : Recorded(new)[i] = Append(Recorded(h), rec(row))[i]
  BY <1>1, <1>2, <1>4, <1>9
<1>11. Recorded(new) = Append(Recorded(h), rec(row))
  BY <1>1, <1>7, <1>9, <1>10, SeqEqual
<1>. QED
  BY <1>11 DEF rec, new

(* The ledger's variables, as functions of the tables.                        *)
Runs(S) == [t \in Tasks |-> RunIn(S, t)]
Records(h) == [t \in Tasks |-> Recorded(h[t])]

(* The refinement mapping says the same.                                      *)
LEMMA LedgerView ==
  /\ [t \in Tasks |-> RunOf(t)] = Runs(active)
  /\ [t \in Tasks |-> RecordsOf(t)] = Records(history)
  /\ [t \in Tasks |-> RunOf(t)]' = Runs(active')
  /\ [t \in Tasks |-> RecordsOf(t)]' = Records(history')
BY DEF RunOf, HasActive, RunIn, Runs, RecordsOf, Recorded, Records

(* A claim begins a run.                                                      *)
LEMMA ClaimBegins ==
  ASSUME NEW w \in Workers, NEW t \in Tasks, IInv, Claim(w, t)
  PROVE  Ledger!Begin(t)
<1>. DEFINE new == [id |-> lastId + 1, task |-> t, worker |-> w,
                    agent |-> tasks[t].assignee, silence |-> 0,
                    before |-> [status |-> tasks[t].status,
                                tags |-> tasks[t].tags,
                                assignee |-> tasks[t].assignee],
                    session |-> None, toolCalls |-> 0]
<1>1. /\ active' = active \union {new} /\ lastId' = lastId + 1
      /\ history' = history /\ \A p \in active : p.task # t
  BY DEF Claim, Claimable, HasActive
<1>2. \A p, q \in active : p.task = q.task => p = q
  BY DEF IInv, OneRunPerTask
<1>3. new.task = t /\ new.id = lastId + 1
  OBVIOUS
<1>. HIDE DEF new
<1>4. Runs(active') = [Runs(active) EXCEPT ![t] = lastId + 1]
  <2>1. new.task \in Tasks /\ \A p \in active : p.task # new.task
    BY <1>1, <1>3
  <2>2. \A u \in Tasks : RunIn(active \union {new}, u)
                            = IF u = new.task THEN new.id ELSE RunIn(active, u)
    BY <1>2, <2>1, RunBegins
  <2>. QED
    BY <1>1, <1>3, <2>2 DEF Runs
<1>5. Runs(active)[t] = 0
  BY <1>1 DEF Runs, RunIn
<1>. QED
  BY <1>1, <1>4, <1>5, LedgerView DEF Ledger!Begin

(* An active row that leaves without a record gives its run up.               *)
LEMMA RowReturns ==
  ASSUME NEW r \in active, IInv, active' = active \ {r},
         UNCHANGED <<history, lastId>>
  PROVE  Ledger!Return(r.task) /\ r.task \in Tasks
<1>1. r.task \in Tasks /\ 0 < r.id /\ r.id \in Nat
  BY DEF IInv, TypeOK, ActiveRow, IdsIssued
<1>2. \A p, q \in active : p.task = q.task => p = q
  BY DEF IInv, OneRunPerTask
<1>3. Runs(active') = [Runs(active) EXCEPT ![r.task] = 0]
  BY <1>1, <1>2, RunEnds DEF Runs
<1>4. Runs(active)[r.task] # 0
  BY <1>1, <1>2, RunOfRow DEF Runs
<1>. QED
  BY <1>1, <1>3, <1>4, LedgerView DEF Ledger!Return

(* An active row that leaves with a history row concludes its run.            *)
LEMMA RowConcludes ==
  ASSUME NEW r \in active, NEW row \in HistoryRow, IInv,
         RemoveActive(r), AddHistory(r.task, row),
         \/ row.id = r.id /\ lastId' = lastId
         \/ row.id = lastId + 1 /\ lastId' = lastId + 1
  PROVE  Ledger!Next
<1>. DEFINE t == r.task
<1>1. t \in Tasks /\ 0 < r.id /\ r.id <= lastId /\ r.id \in Nat /\ lastId \in Nat
  BY DEF IInv, TypeOK, ActiveRow, IdsIssued
<1>2. \A p, q \in active : p.task = q.task => p = q
  BY DEF IInv, OneRunPerTask
<1>3. Runs(active') = [Runs(active) EXCEPT ![t] = 0]
  BY <1>1, <1>2, RunEnds DEF Runs, RemoveActive
<1>4. Runs(active)[t] = r.id
  BY <1>1, <1>2, RunOfRow DEF Runs
<1>5. Records(history')
        = [Records(history) EXCEPT
             ![t] = Append(@, [run |-> row.id, outcome |-> row.status])]
  <2>1. history[t] \in Seq(HistoryRow) /\ history \in [Tasks -> Seq(HistoryRow)]
    BY <1>1 DEF IInv, TypeOK
  <2>2. history' = [history EXCEPT ![t] = Append(history[t], row)]
    BY DEF AddHistory
  <2>3. Recorded(Append(history[t], row))
          = Append(Recorded(history[t]), [run |-> row.id, outcome |-> row.status])
    BY <2>1, RecordAppended
  <2>. QED
    BY <1>1, <2>1, <2>2, <2>3 DEF Records
<1>6. row.status \in {"SUCCEEDED", "FAILED", "STALE", "CANCELLED"}
  BY DEF HistoryRow
<1>7. row.id \in {r.id, lastId + 1}
      /\ lastId' = IF row.id = r.id THEN lastId ELSE row.id
  BY <1>1
<1>8. Ledger!Conclude(t, row.id, row.status)
  <2>1. [u \in Tasks |-> RunOf(u)][t] = r.id
    BY <1>4, LedgerView
  <2>2. [u \in Tasks |-> RunOf(u)]' = [[u \in Tasks |-> RunOf(u)] EXCEPT ![t] = 0]
    BY <1>3, LedgerView
  <2>3. [u \in Tasks |-> RecordsOf(u)]'
          = [[u \in Tasks |-> RecordsOf(u)] EXCEPT
               ![t] = Append(@, [run |-> row.id, outcome |-> row.status])]
    BY <1>5, LedgerView
  <2>. HIDE DEF t
  <2>. QED
    BY <1>1, <1>7, <2>1, <2>2, <2>3 DEF Ledger!Conclude
<1>. QED
  BY <1>1, <1>4, <1>6, <1>7, <1>8, LedgerView DEF Ledger!Next

(* Steps that only change what the ledger does not tell apart.                *)
LEMMA LedgerStutters ==
  ASSUME IInv, IInv', UNCHANGED <<history, lastId>>,
         \A q \in active' : \E p \in active : p.task = q.task /\ p.id = q.id,
         \A p \in active : \E q \in active' : p.task = q.task
  PROVE  UNCHANGED Ledger!ledgerVars
<1>1. /\ \A p, q \in active : p.task = q.task => p = q
      /\ \A p, q \in active' : p.task = q.task => p = q
  BY DEF IInv, OneRunPerTask
<1>2. Runs(active') = Runs(active)
  BY <1>1, RunsSame DEF Runs
<1>. QED
  BY <1>2, LedgerView DEF Ledger!ledgerVars

(* Session, tool-call and heartbeat updates and the passing of time keep the  *)
(* ids and the tasks of the active rows.                                      *)
LEMMA RowsStay ==
  ASSUME IInv,
         \/ \E r \in active, s \in Sessions : UpdateRunnerSessionId(r, s)
         \/ \E r \in active : IncrementToolCallCount(r)
         \/ \E r \in active : TouchHeartbeat(r)
         \/ Tick
  PROVE  /\ UNCHANGED <<history, lastId>>
         /\ \A q \in active' : \E p \in active : p.task = q.task /\ p.id = q.id
         /\ \A p \in active : \E q \in active' : p.task = q.task
<1>1. active \subseteq ActiveRow
  BY DEF IInv, TypeOK
<1>2. CASE Tick
  <2>. DEFINE aged(r) == [r EXCEPT !.silence = IF @ < StaleAfter THEN @ + 1 ELSE @]
  <2>1. active' = {aged(r) : r \in active} /\ UNCHANGED <<history, lastId>>
    BY <1>2 DEF Tick
  <2>2. \A r \in active : aged(r).id = r.id /\ aged(r).task = r.task
    BY <1>1 DEF ActiveRow
  <2>. HIDE DEF aged
  <2>. QED
    BY <2>1, <2>2
<1>3. ASSUME NEW r \in active, NEW new, Rewrite(r, new),
             new.id = r.id, new.task = r.task
      PROVE  /\ UNCHANGED <<history, lastId>>
             /\ \A q \in active' : \E p \in active : p.task = q.task /\ p.id = q.id
             /\ \A p \in active : \E q \in active' : p.task = q.task
  BY <1>3 DEF Rewrite
<1>4. ASSUME NEW r \in active
      PROVE  /\ \A s \in Sessions : /\ [r EXCEPT !.session = s].id = r.id
                                    /\ [r EXCEPT !.session = s].task = r.task
             /\ [r EXCEPT !.toolCalls = @ + 1].id = r.id
             /\ [r EXCEPT !.toolCalls = @ + 1].task = r.task
             /\ [r EXCEPT !.silence = 0].id = r.id
             /\ [r EXCEPT !.silence = 0].task = r.task
  BY <1>1 DEF ActiveRow
<1>. QED
  BY <1>2, <1>3, <1>4 DEF UpdateRunnerSessionId, IncrementToolCallCount, TouchHeartbeat
(* What a stop records has the type of a history row.                         *)
LEMMA HistoryOfTyped ==
  ASSUME TypeOK, NEW w \in Workers, NEW r \in active, NEW report \in EndReports
  PROVE  HistoryOf(r, w, report) \in HistoryRow
<1>1. r \in ActiveRow
  BY DEF TypeOK
<1>2. /\ report[1] \in {"SUCCEEDED", "FAILED", "STALE", "CANCELLED"}
      /\ report[2] \in {"OUT_OF_QUOTA", "INTERRUPTED", "UNKNOWN"} \union {None}
  BY ConstantsAssumption DEF ConstantsAssumption
<1>. QED
  BY <1>1, <1>2 DEF HistoryOf, HistoryRow, ActiveRow

(* What a prune records.                                                      *)
StaleRecord(r) ==
  [id |-> lastId + 1, agent |-> r.agent, worker |-> r.worker,
   session |-> None, toolCalls |-> 0, status |-> "STALE", error |-> None]

(* It has the type of a history row, too.                                     *)
LEMMA StaleRecordTyped ==
  ASSUME TypeOK, NEW r \in active
  PROVE  StaleRecord(r) \in HistoryRow
BY ConstantsAssumption
   DEF ActiveRow, HistoryRow, TypeOK, ConstantsAssumption, StaleRecord

(* Every step of the tables is a step of the ledger, or nothing to it.        *)
LEMMA StepIsLedgerStep ==
  ASSUME IInv, IInv', [StoreNext \/ Environment]_storeVars
  PROVE  [Ledger!Next]_(Ledger!ledgerVars)
<1>1. ASSUME NEW w \in Workers, NEW t \in Tasks, Claim(w, t) PROVE Ledger!Next
  BY <1>1, ClaimBegins DEF Ledger!Next
<1>2. ASSUME NEW w \in Workers, NEW r \in active, NEW report \in EndReports,
             Stop(w, r, report)
      PROVE  Ledger!Next
  <2>1. HistoryOf(r, w, report) \in HistoryRow /\ HistoryOf(r, w, report).id = r.id
    BY HistoryOfTyped DEF IInv, TypeOK, HistoryOf
  <2>2. /\ RemoveActive(r) /\ AddHistory(r.task, HistoryOf(r, w, report))
        /\ lastId' = lastId
    BY <1>2 DEF Stop
  <2>. QED
    BY <2>1, <2>2, RowConcludes
<1>3. ASSUME NEW w \in Workers, NEW r \in active, Unclaim(w, r) PROVE Ledger!Next
  BY <1>3, RowReturns DEF Unclaim, RemoveActive, Ledger!Next
<1>4. CASE \/ \E r \in active, s \in Sessions : UpdateRunnerSessionId(r, s)
           \/ \E r \in active : IncrementToolCallCount(r)
           \/ \E r \in active : TouchHeartbeat(r)
           \/ Tick
  BY <1>4, RowsStay, LedgerStutters
<1>5. ASSUME NEW r \in active, Prune(r) PROVE Ledger!Next
  <2>1. CASE PruneLive(r)
    <3>1. StaleRecord(r) \in HistoryRow /\ StaleRecord(r).id = lastId + 1
      BY StaleRecordTyped DEF IInv, TypeOK, StaleRecord
    <3>2. /\ RemoveActive(r) /\ AddHistory(r.task, StaleRecord(r))
          /\ lastId' = lastId + 1
      BY <2>1 DEF PruneLive, StaleRecord
    <3>. QED
      BY <3>1, <3>2, RowConcludes
  <2>2. CASE PruneOrphan(r)
    BY <2>2, RowReturns DEF PruneOrphan, RemoveActive, Ledger!Next
  <2>. QED
    BY <1>5, <2>1, <2>2 DEF Prune
<1>6. CASE UNCHANGED <<active, history, lastId>>
  BY <1>6, LedgerStutters
<1>7. CASE \/ \E s \in stats : UpdateExecutionStats(s)
           \/ FindStaleExecutions \/ (\E id \in detected : SkipPruned(id))
           \/ AbandonScan \/ Environment \/ UNCHANGED storeVars
  BY <1>6, <1>7 DEF UpdateExecutionStats, FindStaleExecutions, SkipPruned,
     AbandonScan, Environment, QueuePut, QueueKeep, EditTask, storeVars, tables
<1>. QED
  BY <1>1, <1>2, <1>3, <1>4, <1>5, <1>7 DEF StoreNext

(* The empty tables are an empty ledger.                                      *)
LEMMA InitialLedger == StoreInit => Ledger!Init
<1>. SUFFICES ASSUME StoreInit PROVE Ledger!Init
  OBVIOUS
<1>1. ASSUME NEW t \in Tasks PROVE RunOf(t) = 0 /\ RecordsOf(t) = <<>>
  <2>1. RunOf(t) = 0
    BY DEF StoreInit, RunOf, HasActive
  <2>2. DOMAIN history[t] = {}
    BY DEF StoreInit
  <2>3. RecordsOf(t) \in Seq({}) /\ Len(RecordsOf(t)) = 0
    <3>1. RecordsOf(t) = [i \in 1 .. 0 |-> [run |-> history[t][i].id,
                                            outcome |-> history[t][i].status]]
      BY <2>2 DEF RecordsOf
    <3>. QED
      BY <3>1
  <2>4. RecordsOf(t) = <<>>
    BY <2>3, EmptySeq
  <2>. QED
    BY <2>1, <2>4
<1>2. lastId = 0
  BY DEF StoreInit
<1>. QED
  BY <1>1, <1>2 DEF Ledger!Init

(* The tables, under any callers, populator and task service, implement the   *)
(* ledger: a task has one run at a time, a run ends once under its own or a   *)
(* fresh identifier, and records are final.                                   *)
THEOREM TablesImplementLedger == StoreSpec => ImplementsLedger
<1>1. IInv /\ IInv' /\ [StoreNext \/ Environment]_storeVars
        => [Ledger!Next]_(Ledger!ledgerVars)
  BY StepIsLedgerStep
<1>. QED
  BY <1>1, InitialLedger, Invariance, PTL DEF StoreSpec, ImplementsLedger, Ledger!Spec

(* A history row that is added ends an execution of that very task.           *)
LEMMA AuditStep ==
  ASSUME IInv, [StoreNext \/ Environment]_storeVars,
         NEW t \in Tasks, history'[t] # history[t]
  PROVE  /\ Len(history'[t]) = Len(history[t]) + 1
         /\ \A i \in DOMAIN history[t] : history'[t][i] = history[t][i]
         /\ \E r \in active : r.task = t /\ r \notin active'
<1>1. ASSUME NEW r \in active, NEW row \in HistoryRow, RemoveActive(r),
             AddHistory(r.task, row)
      PROVE  /\ Len(history'[t]) = Len(history[t]) + 1
             /\ \A i \in DOMAIN history[t] : history'[t][i] = history[t][i]
             /\ \E p \in active : p.task = t /\ p \notin active'
  <2>1. r.task \in Tasks
    BY DEF IInv, TypeOK, ActiveRow
  <2>2. r.task = t
    BY <1>1, <2>1, Appended DEF IInv
  <2>3. r \notin active'
    BY <1>1 DEF RemoveActive
  <2>4. \A i \in DOMAIN history[t] : history'[t][i] = history[t][i]
    BY <1>1, <2>1, <2>2, Appended DEF IInv
  <2>5. Len(history'[t]) = Len(history[t]) + 1
    <3>1. history[t] \in Seq(HistoryRow)
      BY DEF IInv, TypeOK
    <3>2. history'[t] = Append(history[t], row)
      BY <1>1, <2>2 DEF AddHistory, IInv, TypeOK
    <3>. QED
      BY <3>1, <3>2
  <2>. QED
    BY <2>2, <2>3, <2>4, <2>5
<1>2. PICK r \in active, row \in HistoryRow : RemoveActive(r) /\ AddHistory(r.task, row)
  <2>1. CASE \E w \in Workers, r \in active, report \in EndReports : Stop(w, r, report)
    BY <2>1, HistoryOfTyped DEF Stop, IInv
  <2>2. CASE \E r \in active : Prune(r)
    BY <2>2, StaleRecordTyped DEF Prune, PruneLive, PruneOrphan, StaleRecord, IInv
  <2>3. CASE ~((\E w \in Workers, r \in active, report \in EndReports : Stop(w, r, report))
                 \/ \E r \in active : Prune(r))
    <3>1. history' = history
      BY <2>3 DEF StoreNext, Claim, Unclaim, UpdateRunnerSessionId, Rewrite,
         IncrementToolCallCount, TouchHeartbeat, UpdateExecutionStats,
         FindStaleExecutions, SkipPruned, AbandonScan, Tick, Environment, QueuePut,
         QueueKeep, EditTask, storeVars, tables
    <3>. QED
      BY <3>1
  <2>. QED
    BY <2>1, <2>2, <2>3
<1>. QED
  BY <1>1, <1>2

(* A step only ever adds to a task's history, and what it adds ends an        *)
(* execution of that task.                                                    *)
THEOREM HistoryOnlyGrows == StoreSpec => HistoryIsAuditTrail
<1>1. IInv /\ [StoreNext \/ Environment]_storeVars =>
        [\A t \in Tasks :
           history'[t] # history[t] =>
             /\ Len(history'[t]) = Len(history[t]) + 1
             /\ \A i \in DOMAIN history[t] : history'[t][i] = history[t][i]
             /\ \E r \in active : r.task = t /\ r \notin active']_storeVars
  BY AuditStep
<1>. QED
  BY <1>1, Invariance, PTL DEF StoreSpec, HistoryIsAuditTrail

(* What becomes of an active execution in a step: it goes on, or its          *)
(* telemetry is on record, unless it was given back or its task was deleted.  *)
TelemetryIn(r) ==
  \/ \E q \in active' :
       /\ q.id = r.id /\ q.toolCalls >= r.toolCalls
       /\ r.session # None => q.session = r.session
  \/ /\ \A q \in active' : q.id # r.id
     /\ \/ history'[r.task] = history[r.task]
        \/ LET h == history'[r.task][Len(history'[r.task])]
           IN  \/ h.status = "STALE"
               \/ h.session = r.session /\ h.toolCalls = r.toolCalls

(* A row that stays keeps what it has; one that leaves takes its id along.    *)
LEMMA RowRemoved ==
  ASSUME IInv, NEW r \in active, RemoveActive(r), NEW p \in active
  PROVE  /\ p # r => TelemetryIn(p)
         /\ \A q \in active' : q.id # r.id
<1>1. p.toolCalls \in Nat /\ active' = active \ {r}
  BY ConstantsAssumption
     DEF IInv, TypeOK, ActiveRow, ConstantsAssumption, RemoveActive
<1>2. p # r => p \in active' /\ p.toolCalls >= p.toolCalls
  BY <1>1
<1>3. \A q \in active' : q.id # r.id
  BY <1>1 DEF IInv, OneRunPerTask
<1>. QED
  BY <1>2, <1>3 DEF TelemetryIn

(* The active row that a step ends has its telemetry recorded.                *)
LEMMA RecordedTelemetry ==
  ASSUME IInv, NEW r \in active, NEW row \in HistoryRow, RemoveActive(r),
         AddHistory(r.task, row),
         row.status = "STALE" \/ (row.session = r.session /\ row.toolCalls = r.toolCalls),
         NEW p \in active
  PROVE  TelemetryIn(p)
<1>1. r.task \in Tasks
  BY DEF IInv, TypeOK, ActiveRow
<1>2. history[r.task] \in Seq(HistoryRow)
  BY <1>1 DEF IInv, TypeOK
<1>3. history'[r.task] = Append(history[r.task], row)
  BY <1>1 DEF AddHistory, IInv, TypeOK
<1>4. history'[r.task][Len(history'[r.task])] = row
  BY <1>2, <1>3
<1>5. CASE p = r
  BY <1>4, <1>5, RowRemoved DEF TelemetryIn
<1>. QED
  BY <1>5, RowRemoved

(* Updates of a row and the passing of time keep the telemetry of every row.  *)
LEMMA UpdatedTelemetry ==
  ASSUME IInv, NEW p \in active,
         \/ \E r \in active, s \in Sessions : UpdateRunnerSessionId(r, s)
         \/ \E r \in active : IncrementToolCallCount(r)
         \/ \E r \in active : TouchHeartbeat(r)
         \/ Tick
  PROVE  TelemetryIn(p)
<1>. DEFINE Keeps(q, r) == /\ q.id = r.id /\ q.toolCalls >= r.toolCalls
                           /\ r.session # None => q.session = r.session
<1>1. \A r \in active : r \in ActiveRow /\ r.toolCalls \in Nat /\ Keeps(r, r)
  BY ConstantsAssumption DEF IInv, TypeOK, ActiveRow, ConstantsAssumption
<1>2. ASSUME NEW r \in active, NEW new, Rewrite(r, new), Keeps(new, r)
      PROVE  \E q \in active' : Keeps(q, p)
  <2>1. active' = (active \ {r}) \union {new}
    BY <1>2 DEF Rewrite
  <2>2. CASE p = r
    BY <1>2, <2>1, <2>2
  <2>3. CASE p # r
    BY <1>1, <2>1, <2>3
  <2>. QED
    BY <2>2, <2>3
<1>3. ASSUME NEW r \in active
      PROVE  /\ \A s \in Sessions : r.session = None => Keeps([r EXCEPT !.session = s], r)
             /\ Keeps([r EXCEPT !.toolCalls = @ + 1], r)
             /\ Keeps([r EXCEPT !.silence = 0], r)
             /\ Keeps([r EXCEPT !.silence = IF @ < StaleAfter THEN @ + 1 ELSE @], r)
  BY <1>1 DEF ActiveRow
<1>4. ASSUME Tick PROVE \E q \in active' : Keeps(q, p)
  <2>. DEFINE aged(r) == [r EXCEPT !.silence = IF @ < StaleAfter THEN @ + 1 ELSE @]
  <2>1. active' = {aged(r) : r \in active}
    BY <1>4 DEF Tick
  <2>2. Keeps(aged(p), p)
    BY <1>3
  <2>. HIDE DEF aged, Keeps
  <2>. QED
    BY <2>1, <2>2
<1>. HIDE DEF Keeps
<1>5. ASSUME NEW r \in active, NEW s \in Sessions, UpdateRunnerSessionId(r, s)
      PROVE  \E q \in active' : Keeps(q, p)
  <2>1. Keeps([r EXCEPT !.session = s], r) /\ Rewrite(r, [r EXCEPT !.session = s])
    BY <1>3, <1>5 DEF UpdateRunnerSessionId
  <2>. QED
    BY <1>2, <2>1
<1>6. ASSUME NEW r \in active, IncrementToolCallCount(r)
      PROVE  \E q \in active' : Keeps(q, p)
  <2>. DEFINE new == [r EXCEPT !.toolCalls = @ + 1]
  <2>1. Rewrite(r, new) /\ Keeps(new, r)
    BY <1>3, <1>6 DEF IncrementToolCallCount
  <2>. HIDE DEF new
  <2>. QED
    BY <1>2, <2>1
<1>7. ASSUME NEW r \in active, TouchHeartbeat(r)
      PROVE  \E q \in active' : Keeps(q, p)
  <2>. DEFINE new == [r EXCEPT !.silence = 0]
  <2>1. Rewrite(r, new) /\ Keeps(new, r)
    BY <1>3, <1>7 DEF TouchHeartbeat
  <2>. HIDE DEF new
  <2>. QED
    BY <1>2, <2>1
<1>8. \E q \in active' : Keeps(q, p)
  BY <1>4, <1>5, <1>6, <1>7
<1>. QED
  BY <1>8 DEF TelemetryIn, Keeps

(* No step loses the telemetry of an execution.                               *)
LEMMA TelemetryStep ==
  ASSUME IInv, [StoreNext \/ Environment]_storeVars, NEW p \in active
  PROVE  TelemetryIn(p)
<1>1. CASE active \subseteq active'
  <2>1. p.toolCalls \in Nat
    BY ConstantsAssumption DEF IInv, TypeOK, ActiveRow, ConstantsAssumption
  <2>. QED
    BY <1>1, <2>1 DEF TelemetryIn
<1>2. ASSUME NEW w \in Workers, NEW r \in active, NEW report \in EndReports,
             Stop(w, r, report)
      PROVE  TelemetryIn(p)
  <2>1. HistoryOf(r, w, report) \in HistoryRow
    BY HistoryOfTyped DEF IInv
  <2>2. /\ HistoryOf(r, w, report).session = r.session
        /\ HistoryOf(r, w, report).toolCalls = r.toolCalls
    BY DEF HistoryOf
  <2>. QED
    BY <1>2, <2>1, <2>2, RecordedTelemetry DEF Stop
<1>3. ASSUME NEW r \in active, RemoveActive(r), history' = history
      PROVE  TelemetryIn(p)
  BY <1>3, RowRemoved DEF TelemetryIn
<1>4. ASSUME NEW r \in active, Prune(r) PROVE TelemetryIn(p)
  <2>1. CASE PruneLive(r)
    <3>1. StaleRecord(r) \in HistoryRow /\ StaleRecord(r).status = "STALE"
      BY StaleRecordTyped DEF IInv, StaleRecord
    <3>2. RemoveActive(r) /\ AddHistory(r.task, StaleRecord(r))
      BY <2>1 DEF PruneLive, StaleRecord
    <3>. QED
      BY <3>1, <3>2, RecordedTelemetry
  <2>. QED
    BY <1>3, <1>4, <2>1 DEF Prune, PruneOrphan
<1>5. CASE \/ \E w \in Workers, t \in Tasks : Claim(w, t)
           \/ \E s \in stats : UpdateExecutionStats(s)
           \/ FindStaleExecutions \/ (\E id \in detected : SkipPruned(id))
           \/ AbandonScan \/ Environment \/ UNCHANGED storeVars
  BY <1>1, <1>5 DEF Claim, UpdateExecutionStats, FindStaleExecutions, SkipPruned,
     AbandonScan, Environment, QueuePut, QueueKeep, EditTask, storeVars, tables
<1>. QED
  BY <1>2, <1>3, <1>4, <1>5, UpdatedTelemetry DEF StoreNext, Unclaim

(* While an execution is active its tool calls only grow and its session      *)
(* stays; a worker that ends it hands both to the history.                    *)
THEOREM TelemetrySurvives == StoreSpec => TelemetryKept
<1>1. IInv /\ [StoreNext \/ Environment]_storeVars =>
        [\A r \in active :
           \/ \E q \in active' :
                /\ q.id = r.id /\ q.toolCalls >= r.toolCalls
                /\ r.session # None => q.session = r.session
           \/ /\ \A q \in active' : q.id # r.id
              /\ \/ history'[r.task] = history[r.task]
                 \/ LET h == history'[r.task][Len(history'[r.task])]
                    IN  \/ h.status = "STALE"
                        \/ h.session = r.session /\ h.toolCalls = r.toolCalls]_storeVars
  BY TelemetryStep DEF TelemetryIn
<1>. QED
  BY <1>1, Invariance, PTL DEF StoreSpec, TelemetryKept
=============================================================================
