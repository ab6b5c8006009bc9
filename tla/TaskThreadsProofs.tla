------------------------- MODULE TaskThreadsProofs -------------------------
(***************************************************************************)
(* TaskThreads for any number of calls and requests.                       *)
(***************************************************************************)
EXTENDS TaskThreads, TLAPS

(* The calls whose thread has been inserted.                                  *)
Inserted(c) ==
  calls[c].pc \in {"converse", "unthread", "unblock", "attach", "participants",
                   "done", "rolledback", "failed"}

(* A thread that a call can recover to is finished, or early.                 *)
Settled(t) ==
  t \in Others \/ (Inserted(t) /\ (Making(t) => t \in early))

(* How far its call is bounds what a thread can be and have: nobody has seen  *)
(* a thread before it is inserted, and unless it is early nobody finds one by *)
(* the parent task before its own call has written its tasks.                 *)
CallStage(c) ==
  /\ Exists(c) => Inserted(c)
  /\ Making(c) /\ Parent \in attached[c] => c \in early
  /\ calls[c].pc \in {"find", "found", "conflict", "refused"} => c \notin blocks
  /\ calls[c].pc \in {"participants", "done", "rolledback"} =>
            (c \in blocks => Exists(c))
  /\ calls[c].pc = "participants" => c \notin AgentCalls
  /\ calls[c].pc \in {"find", "found"} => c \in AgentCalls
  /\ calls[c].pc = "found" => calls[c].thread # None
  /\ calls[c].thread # None =>
       /\ calls[c].pc \in {"found", "done", "failed"}
       /\ Settled(calls[c].thread)

RequestStage(r) ==
  LET q == requests[r] IN
  /\ q.thread \in Calls =>
       /\ Inserted(q.thread)
       /\ Making(q.thread) /\ Parent \in q.tasks => q.thread \in early
  /\ q.pc # "idle" => q.thread \in Threads

StagesOK ==
  /\ \A t \in Threads : Exists(t) => t \in blocks
  /\ \A c \in Calls : CallStage(c)
  /\ \A r \in Requests : RequestStage(r)

(* The inductive invariant.                                                   *)
ThreadsInv ==
  /\ ThreadsTypeOK
  /\ StagesOK
  /\ TasksStayInThread
  /\ OneThreadPerParent

(* A step of a call that changes only how far it is keeps the types.          *)
LEMMA TypeStep == ThreadsTypeOK /\ StagesOK /\ [ThreadsNext]_vars
                    => ThreadsTypeOK'
<1> SUFFICES ASSUME ThreadsTypeOK, StagesOK, [ThreadsNext]_vars
             PROVE  ThreadsTypeOK'
  OBVIOUS
<1> USE DEF ThreadsTypeOK, tables, ghosts, CallPc, Ended
<1> Calls \subseteq Threads BY DEF Threads
<1> DEFINE TablesOK ==
             /\ row' \in [Threads -> {"none", "live", "deleted"}]
             /\ attached' \in [Threads -> SUBSET Tasks]
             /\ blocks' \subseteq Threads
<1>0. ASSUME NEW t \in Threads, NEW tasks \in SUBSET Tasks,
             SaveWith(t, tasks)
      PROVE  TablesOK
  BY <1>0 DEF SaveWith
<1>t. ASSUME NEW t \in Threads, NEW x \in Tasks, InsertThreadTask(t, x)
      PROVE  TablesOK
  BY <1>t DEF InsertThreadTask
<1>r. ASSUME NEW t, NEW tasks, Remove(t, tasks)
      PROVE  removed' \subseteq AgentCalls
  BY <1>r DEF Remove
<1>1. ASSUME NEW c \in Calls, CallStep(c) PROVE ThreadsTypeOK'
  <2>1. \A pc \in CallPc : Goto(c, pc) =>
          calls' \in [Calls -> [pc : CallPc, thread : Threads \union {None}]]
    BY DEF Goto
  <2>2. \A tasks \in SUBSET Tasks : SaveWith(c, tasks) => TablesOK
    BY <1>0
  <2>3. OwnTasks(c) \subseteq Tasks BY DEF OwnTasks, Tasks
  <2>4. CASE CreateStateBlock(c) BY <2>1, <2>4 DEF CreateStateBlock
  <2>5. CASE InsertThread(c) BY <2>1, <2>2, <2>5 DEF InsertThread
  <2>6. CASE ParentTaskThreadExists(c) \/ NoProvider(c) \/ ConversationFails(c)
             \/ NothingMore(c) \/ NoThreadFound(c) \/ CallFails(c)
    BY <2>1, <2>6 DEF ParentTaskThreadExists, NoProvider, ConversationFails,
                      NothingMore, NoThreadFound, CallFails
  <2>7. CASE DiscardBlock(c) BY <2>1, <2>7 DEF DiscardBlock
  <2>8. CASE Converse(c) BY <2>1, <2>2, <2>8 DEF Converse
  <2>9. CASE TakeThreadBack(c)
    <3>1. removed' \subseteq AgentCalls BY <1>r, <2>9 DEF TakeThreadBack
    <3>. QED BY <2>1, <2>9, <3>1 DEF TakeThreadBack
  <2>10. CASE TakeBlockBack(c) BY <2>1, <2>10 DEF TakeBlockBack
  <2>11. CASE AttachTasks(c)
    <3>1. removed' \subseteq AgentCalls BY <1>r, <2>11 DEF AttachTasks
    <3>2. TablesOK BY <2>2, <2>3, <2>11 DEF AttachTasks
    <3>. QED BY <2>1, <2>11, <3>1, <3>2 DEF AttachTasks
  <2>12. CASE AddParticipants(c)
    <3>1. removed' \subseteq AgentCalls BY <1>r, <2>12 DEF AddParticipants
    <3>2. TablesOK BY <2>2, <2>3, <2>12 DEF AddParticipants
    <3>. QED BY <2>1, <2>12, <3>1, <3>2 DEF AddParticipants
  <2>13. CASE \E t \in Threads : FindThread(c, t) BY <2>13 DEF FindThread
  <2>14. CASE AttachToFound(c)
    <3>1. calls[c].thread \in Threads
      BY <2>14 DEF AttachToFound, At, StagesOK, CallStage
    <3>2. c \in Tasks
      BY <2>14, CallsAssumption
         DEF AttachToFound, At, StagesOK, CallStage, Tasks
    <3>3. TablesOK BY <1>t, <2>14, <3>1, <3>2 DEF AttachToFound
    <3>. QED BY <2>1, <2>14, <3>3 DEF AttachToFound
  <2>. QED
    BY <1>1, <2>4, <2>5, <2>6, <2>7, <2>8, <2>9, <2>10, <2>11, <2>12, <2>13,
       <2>14 DEF CallStep
<1>2. ASSUME NEW r \in Requests, RequestStep(r) PROVE ThreadsTypeOK'
  <2>1. NoRequest \in Request BY DEF NoRequest, Request
  <2>2. \A pc \in {"edit", "message"}, t \in Threads,
           tasks, drop \in SUBSET Tasks :
          Load(r, pc, t, tasks, drop) => ThreadsTypeOK'
    BY DEF Load, Request
  <2>3. CASE \E t \in Saved : LoadForEdit(r, t) \/ LoadForMessage(r, t)
    <3>1. PICK t \in Threads : LoadForEdit(r, t) \/ LoadForMessage(r, t)
      BY <2>3, CallsAssumption
    <3>2. attached[t] \in SUBSET Tasks /\ {} \in SUBSET Tasks
      OBVIOUS
    <3>. QED BY <2>2, <3>1, <3>2 DEF LoadForEdit, LoadForMessage
  <2>4. CASE \E t \in Saved, x \in Tasks : LoadForDetach(r, t, x)
    <3>1. PICK t \in Threads, x \in Tasks : LoadForDetach(r, t, x)
      BY <2>4, CallsAssumption
    <3>2. attached[t] \in SUBSET Tasks /\ {x} \in SUBSET Tasks
      OBVIOUS
    <3>. QED BY <2>2, <3>1, <3>2 DEF LoadForDetach
  <2>5. CASE SaveEdit(r)
    <3>1. /\ requests[r].thread \in Threads
          /\ requests[r].tasks \in SUBSET Tasks
      BY <2>5 DEF SaveEdit, StagesOK, RequestStage, Request
    <3> DEFINE kept == requests[r].tasks \ requests[r].drop
    <3>2. kept \in SUBSET Tasks BY <3>1
    <3>3. SaveWith(requests[r].thread, kept) BY <2>5 DEF SaveEdit
    <3> HIDE DEF kept
    <3>4. requests' \in [Requests -> Request]
      BY <2>1, <2>5 DEF SaveEdit, RequestOver
    <3>5. removed' \subseteq AgentCalls BY <1>r, <2>5 DEF SaveEdit
    <3>6. UNCHANGED <<calls, early>> BY <2>5 DEF SaveEdit
    <3>7. TablesOK BY <1>0, <3>1, <3>2, <3>3
    <3>. QED BY <3>4, <3>5, <3>6, <3>7
  <2>6. CASE SaveColumns(r)
    <3>1. requests[r].thread \in Threads
      BY <2>6 DEF SaveColumns, StagesOK, RequestStage
    <3>2. SaveWith(requests[r].thread, attached[requests[r].thread])
      BY <2>6 DEF SaveColumns
    <3>3. requests' \in [Requests -> Request]
      BY <2>1, <2>6 DEF SaveColumns, RequestOver
    <3>4. UNCHANGED <<calls, ghosts>> BY <2>6 DEF SaveColumns
    <3>5. attached[requests[r].thread] \in SUBSET Tasks BY <3>1
    <3>6. TablesOK BY <1>0, <3>1, <3>2, <3>5
    <3>. QED BY <3>3, <3>4, <3>6
  <2>7. CASE EndRequest(r) BY <2>1, <2>7 DEF EndRequest, RequestOver
  <2>. QED BY <1>2, <2>3, <2>4, <2>5, <2>6, <2>7 DEF RequestStep
<1>3. ASSUME NEW t \in Threads, DeleteThread(t) \/ DeleteStateBlock(t)
      PROVE  ThreadsTypeOK'
  BY <1>3 DEF DeleteThread, DeleteStateBlock
<1>4. ASSUME NEW t \in Threads, NEW x \in ByHand, AttachTask(t, x)
      PROVE  ThreadsTypeOK'
  <2>1. TablesOK BY <1>t, <1>4, CallsAssumption DEF AttachTask
  <2>. QED BY <1>4, <2>1 DEF AttachTask, Making
<1>5. CASE UNCHANGED vars BY <1>5 DEF vars
<1>. QED BY <1>1, <1>2, <1>3, <1>4, <1>5 DEF ThreadsNext

(***************************************************************************)
(* The stages.                                                             *)
(***************************************************************************)
(* No step takes a call back over its insert, nor makes a thread unsettled.   *)
LEMMA StagesGrow ==
  ASSUME ThreadsTypeOK, [ThreadsNext]_vars
  PROVE  /\ \A c \in Calls : Inserted(c) => Inserted(c)'
         /\ \A c \in Calls : Inserted(c) /\ Making(c)' => Making(c)
         /\ \A c \in Calls : c \in early /\ Making(c)' => c \in early'
         /\ \A t \in Threads : Settled(t) => Settled(t)'
<1> DEFINE Grow(c) == /\ Inserted(c) => Inserted(c)'
                      /\ Inserted(c) /\ Making(c)' => Making(c)
                      /\ c \in early /\ Making(c)' => c \in early'
<1> USE DEF ThreadsTypeOK, Inserted, Making, Goto, At, Ended, ghosts
<1>1. CASE UNCHANGED <<calls, early>> BY <1>1 DEF Settled
<1>2. ASSUME NEW d \in Calls, CallStep(d), NEW c \in Calls PROVE Grow(c)
  BY <1>2 DEF CallStep, CreateStateBlock, InsertThread,
     ParentTaskThreadExists, DiscardBlock, Converse, NoProvider,
     ConversationFails, TakeThreadBack, TakeBlockBack, AttachTasks,
     AddParticipants, NothingMore, FindThread, NoThreadFound, AttachToFound,
     CallFails
<1>3. ASSUME NEW r \in Requests, RequestStep(r) PROVE UNCHANGED <<calls, early>>
  BY <1>3 DEF RequestStep, LoadForEdit, LoadForMessage, LoadForDetach, Load,
              SaveEdit, SaveColumns, EndRequest
<1>4. ASSUME NEW t \in Threads, DeleteThread(t) \/ DeleteStateBlock(t)
      PROVE  UNCHANGED <<calls, early>>
  BY <1>4 DEF DeleteThread, DeleteStateBlock
<1>5. ASSUME NEW t \in Threads, NEW x \in ByHand, AttachTask(t, x),
             NEW c \in Calls
      PROVE  Grow(c)
  BY <1>5 DEF AttachTask
<1>6. ASSUME \A c \in Calls : Grow(c)
      PROVE  \A t \in Threads : Settled(t) => Settled(t)'
  BY <1>6 DEF Settled, Threads
<1>. QED BY <1>1, <1>2, <1>3, <1>4, <1>5, <1>6 DEF ThreadsNext, vars

(* Every thread has its state block after every step.                         *)
LEMMA BlockStep ==
  ThreadsTypeOK /\ StagesOK /\ [ThreadsNext]_vars
    => \A t \in Threads : Exists(t)' => t \in blocks'
<1> SUFFICES ASSUME ThreadsTypeOK, StagesOK, [ThreadsNext]_vars,
                    NEW t \in Threads, Exists(t)'
             PROVE  t \in blocks'
  OBVIOUS
<1> USE DEF ThreadsTypeOK, tables, Exists
<1>0. Exists(t) => t \in blocks BY DEF StagesOK
<1>1. ASSUME NEW u, NEW tasks, SaveWith(u, tasks) PROVE t \in blocks'
  BY <1>0, <1>1 DEF SaveWith, CanSave
<1>2. ASSUME NEW c \in Calls, CallStep(c) PROVE t \in blocks'
  <2>1. CASE DiscardBlock(c)
    <3>1. ~Exists(c)
      BY <2>1 DEF DiscardBlock, At, StagesOK, CallStage, Inserted
    <3>. QED BY <1>0, <2>1, <3>1 DEF DiscardBlock
  <2>2. CASE ~DiscardBlock(c)
    BY <1>0, <1>1, <1>2, <2>2 DEF CallStep, CreateStateBlock, InsertThread,
     ParentTaskThreadExists, Converse, NoProvider, ConversationFails,
     TakeThreadBack, TakeBlockBack, AttachTasks, AddParticipants, NothingMore,
     FindThread, NoThreadFound, AttachToFound, InsertThreadTask, CallFails
  <2>. QED BY <2>1, <2>2
<1>3. ASSUME NEW r \in Requests, RequestStep(r) PROVE t \in blocks'
  BY <1>0, <1>1, <1>3 DEF RequestStep, LoadForEdit, LoadForMessage,
     LoadForDetach, Load, SaveEdit, SaveColumns, EndRequest
<1>4. ASSUME NEW u \in Threads,
             \/ DeleteThread(u) \/ DeleteStateBlock(u)
             \/ \E x \in ByHand : AttachTask(u, x)
      PROVE  t \in blocks'
  BY <1>0, <1>4 DEF DeleteThread, DeleteStateBlock, AttachTask, InsertThreadTask
<1>. QED BY <1>0, <1>2, <1>3, <1>4 DEF ThreadsNext, vars

(* The stages hold of every call after every step.                            *)
LEMMA CallStageStep ==
  ThreadsTypeOK /\ StagesOK /\ [ThreadsNext]_vars
    => \A c \in Calls : CallStage(c)'
<1> SUFFICES ASSUME ThreadsTypeOK, StagesOK, [ThreadsNext]_vars,
                    NEW u \in Calls
             PROVE  CallStage(u)'
  OBVIOUS
<1> USE DEF ThreadsTypeOK, tables, ghosts, At, Goto
<1> u \in Threads /\ u # Parent BY CallsAssumption DEF Threads
<1>0. /\ CallStage(u)
      /\ Exists(u) => u \in blocks
      /\ Inserted(u) => Inserted(u)'
      /\ u \in early /\ Making(u)' => u \in early'
      /\ calls[u].thread # None
           => \A t \in {calls[u].thread} : Settled(t)'
  BY StagesGrow DEF StagesOK, CallStage
<1>1. ASSUME row'[u] = row[u],
             Parent \in attached'[u] => Parent \in attached[u] \/ u \in early',
             u \in blocks' <=> u \in blocks, calls'[u] = calls[u]
      PROVE  CallStage(u)'
  BY <1>0, <1>1 DEF CallStage, Exists, Inserted, Making
<1>2. ASSUME CallStep(u) PROVE CallStage(u)'
  <2> USE <1>0 DEF CallStage, Exists, Inserted, Making, Ended
  <2>1. CASE CreateStateBlock(u) BY <2>1 DEF CreateStateBlock
  <2>2. CASE InsertThread(u) BY <2>2 DEF InsertThread, SaveWith, CanSave
  <2>3. CASE ParentTaskThreadExists(u) BY <2>3 DEF ParentTaskThreadExists
  <2>4. CASE DiscardBlock(u) BY <2>4 DEF DiscardBlock
  <2>5. CASE Converse(u) BY <2>5 DEF Converse, SaveWith, CanSave
  <2>6. CASE NoProvider(u) \/ ConversationFails(u)
    BY <2>6 DEF NoProvider, ConversationFails
  <2>7. CASE TakeThreadBack(u) BY <2>7 DEF TakeThreadBack
  <2>8. CASE TakeBlockBack(u) BY <2>8 DEF TakeBlockBack
  <2>9. CASE AttachTasks(u) BY <2>9 DEF AttachTasks, SaveWith, CanSave
  <2>10. CASE AddParticipants(u) \/ NothingMore(u)
    BY <2>10 DEF AddParticipants, NothingMore, SaveWith, CanSave
  <2>11. CASE \E t \in Threads : FindThread(u, t)
    <3>1. PICK t \in Threads : FindThread(u, t) BY <2>11
    <3>2. Settled(t)
      BY <3>1 DEF FindThread, ThreadWithParent, StagesOK, Settled, Threads
    <3>3. Settled(t)' BY <3>2, StagesGrow
    <3>4. calls'[u] = [pc |-> "found", thread |-> t] /\ t # None
      BY <3>1, CallsAssumption DEF FindThread
    <3>. QED BY <3>1, <3>3, <3>4 DEF FindThread
  <2>12. CASE NoThreadFound(u) BY <2>12 DEF NoThreadFound
  <2>13. CASE AttachToFound(u)
    <3>1. calls'[u].pc \in {"done", "failed"}
          /\ calls'[u].thread = calls[u].thread
      BY <2>13 DEF AttachToFound
    <3>2. u \notin blocks /\ ~Exists(u) BY <2>13 DEF AttachToFound
    <3>3. UNCHANGED <<row, blocks>> BY <2>13 DEF AttachToFound, InsertThreadTask
    <3>. QED BY <3>1, <3>2, <3>3
  <2>14. CASE CallFails(u) BY <2>14 DEF CallFails
  <2>. QED
    BY <1>2, <2>1, <2>2, <2>3, <2>4, <2>5, <2>6, <2>7, <2>8, <2>9, <2>10,
       <2>11, <2>12, <2>13, <2>14 DEF CallStep
<1>3. ASSUME NEW c \in Calls, c # u, CallStep(c) PROVE CallStage(u)'
  <2>1. calls'[u] = calls[u]
    BY <1>3 DEF CallStep, CreateStateBlock, InsertThread,
       ParentTaskThreadExists, DiscardBlock, Converse, NoProvider,
       ConversationFails, TakeThreadBack, TakeBlockBack, AttachTasks,
       AddParticipants, NothingMore, FindThread, NoThreadFound, AttachToFound,
       CallFails
  <2>2. /\ row'[u] = row[u]
        /\ u \in blocks' <=> u \in blocks
    BY <1>3 DEF CallStep, CreateStateBlock, InsertThread,
       ParentTaskThreadExists, DiscardBlock, Converse, NoProvider,
       ConversationFails, TakeThreadBack, TakeBlockBack, AttachTasks,
       AddParticipants, NothingMore, FindThread, NoThreadFound, AttachToFound,
       CallFails, SaveWith, InsertThreadTask
  <2>3. Parent \in attached'[u] => Parent \in attached[u]
    <3>1. CASE AttachToFound(c)
      <4>1. c # Parent BY CallsAssumption DEF Threads
      <4>. QED BY <3>1, <4>1 DEF AttachToFound, InsertThreadTask
    <3>2. CASE ~AttachToFound(c)
      BY <1>3, <3>2 DEF CallStep, CreateStateBlock, InsertThread,
       ParentTaskThreadExists, DiscardBlock, Converse, NoProvider,
       ConversationFails, TakeThreadBack, TakeBlockBack, AttachTasks,
       AddParticipants, NothingMore, FindThread, NoThreadFound, AttachToFound,
       CallFails, SaveWith
    <3>. QED BY <3>1, <3>2
  <2>. QED BY <1>1, <2>1, <2>2, <2>3
<1>4. ASSUME NEW r \in Requests, RequestStep(r) PROVE CallStage(u)'
  <2>1. CASE SaveEdit(r)
    <3>1. calls' = calls /\ blocks' = blocks /\ early' = early
      BY <2>1 DEF SaveEdit, SaveWith
    <3>2. CASE requests[r].thread = u
      <4>1. /\ Inserted(u)
            /\ Making(u) /\ Parent \in requests[r].tasks => u \in early
        BY <3>2 DEF StagesOK, RequestStage
      <4>2. /\ row'[u] = "live" /\ u \in blocks
            /\ attached'[u] \subseteq requests[r].tasks
        BY <2>1, <3>2 DEF SaveEdit, SaveWith, CanSave
      <4>. QED
        BY <1>0, <3>1, <4>1, <4>2 DEF CallStage, Exists, Inserted, Making
    <3>3. CASE requests[r].thread # u
      BY <1>1, <2>1, <3>1, <3>3 DEF SaveEdit, SaveWith
    <3>. QED BY <3>2, <3>3
  <2>2. CASE SaveColumns(r)
    <3>1. calls' = calls /\ blocks' = blocks /\ early' = early
      BY <2>2 DEF SaveColumns, SaveWith
    <3>2. CASE requests[r].thread = u
      <4>1. Inserted(u) BY <3>2 DEF StagesOK, RequestStage
      <4>2. row'[u] = "live" /\ u \in blocks /\ attached'[u] = attached[u]
        BY <2>2, <3>2 DEF SaveColumns, SaveWith, CanSave
      <4>. QED
        BY <1>0, <3>1, <4>1, <4>2 DEF CallStage, Exists, Inserted, Making
    <3>3. CASE requests[r].thread # u
      BY <1>1, <2>2, <3>1, <3>3 DEF SaveColumns, SaveWith
    <3>. QED BY <3>2, <3>3
  <2>3. CASE ~SaveEdit(r) /\ ~SaveColumns(r)
    BY <1>1, <1>4, <2>3 DEF RequestStep, LoadForEdit, LoadForMessage,
       LoadForDetach, Load, EndRequest
  <2>. QED BY <2>1, <2>2, <2>3
<1>5. ASSUME NEW t \in Threads, DeleteThread(t) \/ DeleteStateBlock(t)
      PROVE  CallStage(u)'
  BY <1>0, <1>5
     DEF DeleteThread, DeleteStateBlock, CallStage, Exists, Inserted, Making
<1>6. ASSUME NEW t \in Threads, NEW x \in ByHand, AttachTask(t, x)
      PROVE  CallStage(u)'
  <2>1. UNCHANGED <<row, blocks, calls>> BY <1>6 DEF AttachTask, InsertThreadTask
  <2>2. Making(u) /\ Parent \in attached'[u] => u \in early'
    BY <1>0, <1>6 DEF AttachTask, InsertThreadTask, CallStage
  <2>. QED BY <1>0, <2>1, <2>2 DEF CallStage, Exists, Inserted, Making
<1>7. CASE UNCHANGED vars BY <1>1, <1>7 DEF vars
<1>. QED BY <1>2, <1>3, <1>4, <1>5, <1>6, <1>7 DEF ThreadsNext

(* The stages hold of every request after every step.                         *)
LEMMA RequestStageStep ==
  ThreadsTypeOK /\ StagesOK /\ [ThreadsNext]_vars
    => \A r \in Requests : RequestStage(r)'
<1> SUFFICES ASSUME ThreadsTypeOK, StagesOK, [ThreadsNext]_vars,
                    NEW u \in Requests
             PROVE  RequestStage(u)'
  OBVIOUS
<1>1. \A c \in Calls :
        /\ Inserted(c) => Inserted(c)'
        /\ Inserted(c) /\ Making(c)' => Making(c)
        /\ c \in early /\ Making(c)' => c \in early'
  BY StagesGrow
<1>2. ASSUME requests'[u] = requests[u] PROVE RequestStage(u)'
  BY <1>1, <1>2 DEF StagesOK, RequestStage
<1>3. ASSUME requests'[u] = NoRequest PROVE RequestStage(u)'
  BY <1>3, CallsAssumption DEF RequestStage, NoRequest, Threads
<1>4. ASSUME NEW t \in Saved, NEW pc \in {"edit", "message"}, NEW drop,
             NEW tasks, tasks = {} \/ tasks = attached[t],
             Load(u, pc, t, tasks, drop)
      PROVE  RequestStage(u)'
  <2>1. requests'[u] = [pc |-> pc, thread |-> t, tasks |-> tasks,
                        drop |-> drop]
    BY <1>4 DEF Load, ThreadsTypeOK
  <2>2. t \in Calls => /\ Inserted(t)
                       /\ Making(t) /\ Parent \in attached[t] => t \in early
    BY <1>4 DEF Load, StagesOK, CallStage, Exists
  <2>. QED BY <1>1, <1>4, <2>1, <2>2, CallsAssumption DEF RequestStage
<1>5. ASSUME RequestStep(u) PROVE RequestStage(u)'
  <2>1. CASE \E t \in Saved : LoadForEdit(u, t) \/ LoadForMessage(u, t)
    BY <1>4, <2>1 DEF LoadForEdit, LoadForMessage
  <2>2. CASE \E t \in Saved, x \in Tasks : LoadForDetach(u, t, x)
    BY <1>4, <2>2 DEF LoadForDetach
  <2>3. CASE SaveEdit(u) \/ SaveColumns(u) \/ EndRequest(u)
    BY <1>2, <1>3, <2>3
       DEF SaveEdit, SaveColumns, EndRequest, RequestOver, ThreadsTypeOK
  <2>. QED BY <1>5, <2>1, <2>2, <2>3 DEF RequestStep
<1>6. ASSUME NEW r \in Requests, r # u, RequestStep(r)
      PROVE  requests'[u] = requests[u]
  BY <1>6 DEF RequestStep, LoadForEdit, LoadForMessage, LoadForDetach, Load,
              SaveEdit, SaveColumns, EndRequest, RequestOver, ThreadsTypeOK
<1>7. ASSUME NEW c \in Calls, CallStep(c) PROVE UNCHANGED requests
  BY <1>7 DEF CallStep, CreateStateBlock, InsertThread,
     ParentTaskThreadExists, DiscardBlock, Converse, NoProvider,
     ConversationFails, TakeThreadBack, TakeBlockBack, AttachTasks,
     AddParticipants, NothingMore, FindThread, NoThreadFound, AttachToFound,
     CallFails
<1>8. CASE \/ \E t \in Threads : \/ DeleteThread(t) \/ DeleteStateBlock(t)
                              \/ \E x \in ByHand : AttachTask(t, x)
           \/ UNCHANGED vars
  BY <1>2, <1>8 DEF DeleteThread, DeleteStateBlock, AttachTask, vars
<1>. QED BY <1>2, <1>5, <1>6, <1>7, <1>8 DEF ThreadsNext

(***************************************************************************)
(* The results.                                                            *)
(***************************************************************************)
(* A save makes a row live only if no other is: the unique index.             *)
LEMMA OneThreadStep ==
  ThreadsTypeOK /\ OneThreadPerParent /\ [ThreadsNext]_vars
    => OneThreadPerParent'
<1> SUFFICES ASSUME ThreadsTypeOK, OneThreadPerParent, [ThreadsNext]_vars
             PROVE  OneThreadPerParent'
  OBVIOUS
<1> USE DEF Threads
<1>1. ASSUME NEW t, NEW tasks, SaveWith(t, tasks) PROVE OneThreadPerParent'
  BY <1>1, CallsAssumption
     DEF SaveWith, CanSave, MayBeLive, ThreadsTypeOK, OneThreadPerParent
<1>2. ASSUME \A t \in Calls : row'[t] = "live" => row[t] = "live"
      PROVE  OneThreadPerParent'
  BY <1>2 DEF OneThreadPerParent
<1>3. ASSUME NEW c \in Calls, CallStep(c) PROVE OneThreadPerParent'
  BY <1>1, <1>2, <1>3 DEF CallStep, CreateStateBlock, InsertThread,
     ParentTaskThreadExists, DiscardBlock, Converse, NoProvider,
     ConversationFails, TakeThreadBack, TakeBlockBack, AttachTasks,
     AddParticipants, NothingMore, FindThread, NoThreadFound, AttachToFound,
     InsertThreadTask, CallFails, tables, ThreadsTypeOK
<1>4. ASSUME NEW r \in Requests, RequestStep(r) PROVE OneThreadPerParent'
  BY <1>1, <1>2, <1>4 DEF RequestStep, LoadForEdit, LoadForMessage,
     LoadForDetach, Load, SaveEdit, SaveColumns, EndRequest, tables
<1>5. CASE \/ \E t \in Threads : \/ DeleteThread(t) \/ DeleteStateBlock(t)
                              \/ \E x \in ByHand : AttachTask(t, x)
           \/ UNCHANGED vars
  BY <1>2, <1>5 DEF DeleteThread, DeleteStateBlock, AttachTask,
     InsertThreadTask, vars, tables, ThreadsTypeOK
<1>. QED BY <1>3, <1>4, <1>5 DEF ThreadsNext

(* Where the task of a call is.                                               *)
AtHome(c) == Exists(Home(c)) /\ c \in attached[Home(c)]

(* A write of a thread's tasks, with what it takes out accounted for, leaves  *)
(* every other task where it is.                                              *)
LEMMA KeepingWrite ==
  ASSUME ThreadsTypeOK, NEW c \in AgentCalls, AtHome(c), Home(c)' = Home(c),
         NEW t, NEW tasks, SaveWith(t, tasks),
         Home(c) = t => c \in tasks
  PROVE  AtHome(c)'
  BY DEF AtHome, SaveWith, Exists, Home, ThreadsTypeOK

(* A task leaves the thread its call put it into only by one of the steps     *)
(* that "removed" records.                                                    *)
LEMMA TasksStayStep ==
  ThreadsInv /\ [ThreadsNext]_vars => TasksStayInThread'
<1> SUFFICES ASSUME ThreadsInv, [ThreadsNext]_vars,
                    NEW c \in AgentCalls, c \notin removed', At(c, "done")'
             PROVE  AtHome(c)'
  BY DEF TasksStayInThread, AtHome
<1> USE DEF ThreadsInv, ThreadsTypeOK, tables, ghosts
<1> c \in Calls /\ c \in Threads /\ c # Parent
  BY CallsAssumption DEF Calls, Threads
<1>0. \A t, tasks :
        Remove(t, tasks) /\ At(c, "done") /\ Home(c) = t => c \notin tasks
  BY DEF Remove
<1>1. c \notin removed
  BY DEF ThreadsNext, CallStep, CreateStateBlock, InsertThread,
     ParentTaskThreadExists, DiscardBlock, Converse, NoProvider,
     ConversationFails, TakeThreadBack, TakeBlockBack, AttachTasks,
     AddParticipants, NothingMore, FindThread, NoThreadFound, AttachToFound,
     CallFails, RequestStep, LoadForEdit, LoadForMessage, LoadForDetach, Load,
     SaveEdit, SaveColumns, EndRequest, AttachTask, DeleteThread,
     DeleteStateBlock, Remove, vars
<1>2. ASSUME At(c, "done") PROVE AtHome(c)
  BY <1>1, <1>2 DEF TasksStayInThread, AtHome
<1>3. ASSUME AtHome(c), UNCHANGED <<attached, Home(c)>>,
             \A t \in Threads : Exists(t) => Exists(t)'
      PROVE  AtHome(c)'
  BY <1>3, CallsAssumption DEF AtHome, Home
<1>4. ASSUME NEW u \in Calls, CallStep(u) PROVE AtHome(c)'
  <2> USE DEF At, Goto
  <2> u \in Threads BY DEF Threads
  <2>1. ASSUME calls[c].pc = "done"
        PROVE  /\ AtHome(c) /\ Home(c)' = Home(c) /\ calls'[c] = calls[c]
               /\ Home(c) = u => /\ Inserted(u)
                                 /\ Making(u) => u \in early
    <3>1. u # c
      BY <1>4, <2>1 DEF CallStep, CreateStateBlock, InsertThread,
         ParentTaskThreadExists, DiscardBlock, Converse, NoProvider,
         ConversationFails, TakeThreadBack, TakeBlockBack, AttachTasks,
         AddParticipants, NothingMore, FindThread, NoThreadFound,
         AttachToFound, CallFails, Ended
    <3>2. calls'[c] = calls[c]
      BY <1>4, <3>1 DEF CallStep, CreateStateBlock, InsertThread,
         ParentTaskThreadExists, DiscardBlock, Converse, NoProvider,
         ConversationFails, TakeThreadBack, TakeBlockBack, AttachTasks,
         AddParticipants, NothingMore, FindThread, NoThreadFound,
         AttachToFound, CallFails
    <3>3. Home(c) = u => Settled(u)
      BY <2>1, <3>1 DEF Home, StagesOK, CallStage
    <3>4. u \notin Others BY CallsAssumption
    <3>. QED BY <1>2, <2>1, <3>2, <3>3, <3>4 DEF Home, Settled
  <2>2. CASE calls[c].pc # "done"
    <3>1. u = c /\ (AttachTasks(c) \/ AttachToFound(c))
      <4>1. u = c
        BY <1>4, <2>2 DEF CallStep, CreateStateBlock, InsertThread,
           ParentTaskThreadExists, DiscardBlock, Converse, NoProvider,
           ConversationFails, TakeThreadBack, TakeBlockBack, AttachTasks,
           AddParticipants, NothingMore, FindThread, NoThreadFound,
           AttachToFound, CallFails
      <4>2. calls[c].pc # "participants" BY DEF StagesOK, CallStage
      <4>. QED
        BY <1>4, <2>2, <4>1, <4>2 DEF CallStep, CreateStateBlock,
           InsertThread, ParentTaskThreadExists, DiscardBlock, Converse,
           NoProvider, ConversationFails, TakeThreadBack, TakeBlockBack,
           AddParticipants, NothingMore, FindThread, NoThreadFound, CallFails
    <3>2. CASE AttachTasks(c)
      <4>1. calls'[c].thread = None
        BY <3>2 DEF AttachTasks, StagesOK, CallStage
      <4>2. Home(c)' = c BY <4>1 DEF Home
      <4>3. SaveWith(c, OwnTasks(c)) BY <3>2 DEF AttachTasks
      <4>. QED BY <4>2, <4>3 DEF AtHome, SaveWith, Exists, OwnTasks
    <3>3. CASE AttachToFound(c)
      <4>1. calls[c].thread \in Threads /\ calls'[c].thread = calls[c].thread
        BY <3>3 DEF AttachToFound, StagesOK, CallStage
      <4>2. Home(c)' = calls[c].thread BY <4>1, CallsAssumption DEF Home
      <4>3. InsertThreadTask(calls[c].thread, c) BY <3>3 DEF AttachToFound
      <4>. QED BY <4>1, <4>2, <4>3 DEF AtHome, InsertThreadTask, Exists
    <3>. QED BY <3>1, <3>2, <3>3
  <2>3. CASE calls[c].pc = "done" /\ AttachTasks(u)
    <3>1. SaveWith(u, OwnTasks(u)) /\ Remove(u, Exposed(u) \ OwnTasks(u))
      BY <2>3 DEF AttachTasks
    <3>2. Home(c) = u => c \in Exposed(u)
      BY <2>1, <2>3 DEF AttachTasks, Making, Exposed, AtHome
    <3>3. Home(c) = u => c \in OwnTasks(u) BY <1>0, <2>3, <3>1, <3>2
    <3>. QED BY <2>1, <2>3, <3>1, <3>3, KeepingWrite
  <2>4. CASE calls[c].pc = "done" /\ AddParticipants(u)
    <3>1. SaveWith(u, OwnTasks(u)) /\ Remove(u, attached[u] \ OwnTasks(u))
      BY <2>4 DEF AddParticipants
    <3>2. Home(c) = u => c \in OwnTasks(u)
      BY <1>0, <2>1, <2>4, <3>1 DEF AtHome
    <3>. QED BY <2>1, <2>4, <3>1, <3>2, KeepingWrite
  <2>5. CASE calls[c].pc = "done" /\ TakeThreadBack(u)
    <3>1. Home(c) = u => c \in Exposed(u)
      BY <2>1, <2>5 DEF TakeThreadBack, Making, Exposed, AtHome
    <3>2. Home(c) # u BY <1>0, <2>5, <3>1 DEF TakeThreadBack
    <3>. QED BY <2>1, <2>5, <3>2 DEF TakeThreadBack, AtHome, Exists, Home
  <2>6. CASE calls[c].pc = "done" /\ InsertThread(u)
    <3>1. Home(c) # u BY <2>1, <2>6 DEF InsertThread, Inserted
    <3>. QED BY <2>1, <2>6, <3>1, KeepingWrite DEF InsertThread
  <2>7. CASE calls[c].pc = "done" /\ Converse(u)
    BY <2>1, <2>7, KeepingWrite DEF Converse, AtHome
  <2>8. CASE calls[c].pc = "done" /\ AttachToFound(u)
    BY <2>1, <2>8 DEF AttachToFound, InsertThreadTask, AtHome, Exists, Home
  <2>9. CASE /\ calls[c].pc = "done"
             /\ ~(\/ AttachTasks(u) \/ AddParticipants(u) \/ TakeThreadBack(u)
                  \/ AttachToFound(u) \/ InsertThread(u) \/ Converse(u))
    <3>1. UNCHANGED <<row, attached>>
      BY <1>4, <2>9 DEF CallStep, CreateStateBlock, ParentTaskThreadExists,
         DiscardBlock, NoProvider, ConversationFails, TakeBlockBack,
         NothingMore, FindThread, NoThreadFound, CallFails
    <3>. QED BY <1>3, <2>1, <2>9, <3>1 DEF Exists
  <2>. QED BY <1>4, <2>2, <2>3, <2>4, <2>5, <2>6, <2>7, <2>8, <2>9
<1>5. ASSUME UNCHANGED calls
      PROVE  At(c, "done") /\ AtHome(c) /\ UNCHANGED Home(c)
  BY <1>2, <1>5 DEF At, Home
<1>6. ASSUME NEW r \in Requests, RequestStep(r) PROVE AtHome(c)'
  <2>1. At(c, "done") /\ AtHome(c) /\ UNCHANGED Home(c)
    BY <1>5, <1>6 DEF RequestStep, LoadForEdit, LoadForMessage, LoadForDetach,
       Load, SaveEdit, SaveColumns, EndRequest
  <2>2. CASE SaveEdit(r)
    <3> DEFINE t == requests[r].thread
               kept == requests[r].tasks \ requests[r].drop
    <3>1. /\ SaveWith(t, kept)
          /\ Remove(t, requests[r].drop \union (attached[t] \ requests[r].tasks))
      BY <2>2 DEF SaveEdit
    <3>2. Home(c) = t => c \in kept BY <1>0, <2>1, <3>1 DEF AtHome
    <3> HIDE DEF t, kept
    <3>. QED BY <2>1, <3>1, <3>2, KeepingWrite
  <2>3. CASE SaveColumns(r)
    BY <2>1, <2>3, KeepingWrite DEF SaveColumns, AtHome
  <2>4. CASE ~SaveEdit(r) /\ ~SaveColumns(r)
    BY <1>3, <1>6, <2>1, <2>4 DEF RequestStep, LoadForEdit, LoadForMessage,
       LoadForDetach, Load, EndRequest, Exists
  <2>. QED BY <2>2, <2>3, <2>4
<1>7. ASSUME NEW t \in Threads, DeleteThread(t) \/ DeleteStateBlock(t)
      PROVE  AtHome(c)'
  <2>1. AtHome(c) /\ UNCHANGED Home(c)
    BY <1>5, <1>7 DEF DeleteThread, DeleteStateBlock
  <2>. QED BY <1>3, <1>7, <2>1 DEF DeleteThread, DeleteStateBlock, Exists
<1>8. ASSUME NEW t \in Threads, NEW x \in ByHand, AttachTask(t, x)
      PROVE  AtHome(c)'
  <2>1. AtHome(c) /\ UNCHANGED Home(c) BY <1>5, <1>8 DEF AttachTask
  <2>. QED BY <1>8, <2>1 DEF AttachTask, InsertThreadTask, AtHome, Exists
<1>9. CASE UNCHANGED vars BY <1>3, <1>5, <1>9 DEF vars, Exists
<1>. QED BY <1>4, <1>6, <1>7, <1>8, <1>9 DEF ThreadsNext

(* ThreadsInv holds at the start and through every step.                      *)
THEOREM ThreadsInvariance == ThreadsSpec => []ThreadsInv
<1>1. ThreadsInit => ThreadsInv
  <2> SUFFICES ASSUME ThreadsInit PROVE ThreadsInv OBVIOUS
  <2>1. NoRequest \in Request BY DEF NoRequest, Request
  <2>2. ThreadsTypeOK BY <2>1 DEF ThreadsInit, ThreadsTypeOK, CallPc, Tasks, Threads
  <2>3. \A c \in Calls : CallStage(c)
    BY CallsAssumption DEF ThreadsInit, CallStage, Exists, Making, Threads
  <2>4. \A r \in Requests : RequestStage(r)
    BY CallsAssumption DEF ThreadsInit, RequestStage, NoRequest, Threads
  <2>5. TasksStayInThread
    BY DEF ThreadsInit, TasksStayInThread, Calls, At
  <2>6. OneThreadPerParent
    BY CallsAssumption DEF ThreadsInit, OneThreadPerParent, Threads
  <2>7. \A t \in Threads : Exists(t) => t \in blocks
    BY DEF ThreadsInit, Exists
  <2>. QED BY <2>2, <2>3, <2>4, <2>5, <2>6, <2>7 DEF ThreadsInv, StagesOK
<1>2. ThreadsInv /\ [ThreadsNext]_vars => ThreadsInv'
  BY TypeStep, BlockStep, CallStageStep, RequestStageStep, OneThreadStep,
     TasksStayStep
     DEF ThreadsInv, StagesOK
<1>. QED BY <1>1, <1>2, PTL DEF ThreadsSpec

(* The variables keep their types: a request or a recovering call always has  *)
(* a thread in hand.                                                          *)
THEOREM ThreadsTypeCorrect == ThreadsSpec => []ThreadsTypeOK
<1>1. ThreadsInv => ThreadsTypeOK BY DEF ThreadsInv
<1>. QED BY <1>1, ThreadsInvariance, PTL

(* Every thread has its state block, and creations that lost the race or were *)
(* rolled back leave none behind, for any number of racing calls.             *)
THEOREM BlocksFollowThreads == ThreadsSpec => []BlockIffThread
<1>1. ThreadsInv => BlockIffThread
  BY DEF ThreadsInv, StagesOK, CallStage, BlockIffThread
<1>. QED BY <1>1, ThreadsInvariance, PTL

(* The task of a call that succeeded stays in the thread the call put it into *)
(* unless it is detached there, overwritten by a save that had not loaded it, *)
(* or was put into a thread in the making that a user had shown to others by  *)
(* attaching the parent task to it.                                           *)
THEOREM TasksStay == ThreadsSpec => []TasksStayInThread
<1>1. ThreadsInv => TasksStayInThread BY DEF ThreadsInv
<1>. QED BY <1>1, ThreadsInvariance, PTL

(* The parent task never has two threads that are not deleted.                *)
THEOREM ThreadIsUnique == ThreadsSpec => []OneThreadPerParent
<1>1. ThreadsInv => OneThreadPerParent BY DEF ThreadsInv
<1>. QED BY <1>1, ThreadsInvariance, PTL
=============================================================================
