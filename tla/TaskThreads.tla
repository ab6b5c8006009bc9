---------------------------- MODULE TaskThreads ----------------------------
(***************************************************************************)
(* The thread of one parent task (apps/backend/src/threads, and            *)
(* createTaskInThread of tasks.service.ts).  Agents that work on the task  *)
(* create tasks of their own, which must come into the task's one thread:  *)
(* each call creates its task, then creates the thread, and when another   *)
(* call was first attaches its task to that one.  A user may create the    *)
(* thread too, and may attach a task to any thread at any time.  A thread  *)
(* is created in steps with an await between any two (state block, row,    *)
(* conversation, tasks, participants), some undone by hand when a later    *)
(* one fails.                                                              *)
(*                                                                         *)
(* A save writes every loaded column and every loaded relation that        *)
(* differs from the tables: deleted_at, so that it restores a thread       *)
(* deleted since, and the whole set of tasks.  It inserts the row again    *)
(* when that is gone.                                                      *)
(*                                                                         *)
(* Call c stands for the task, the state block and the thread it creates.  *)
(***************************************************************************)
EXTENDS FiniteSets

CONSTANTS
  AgentCalls,  \* calls of createTaskInThread under the parent task
  UserCalls,   \* calls of createThread with the parent task
  Others,      \* threads of other parents that have the parent task in them
  Parent,      \* the parent task
  ByHand,      \* bound: the tasks that users attach to threads
  Saved,       \* bound: the threads that requests load and save
  Requests,    \* bound: the requests that have loaded a thread at a time
  None

Calls == AgentCalls \union UserCalls
Threads == Calls \union Others
Tasks == AgentCalls \union {Parent}

ASSUME CallsAssumption ==
  /\ AgentCalls \intersect UserCalls = {}
  /\ Others \intersect Calls = {}
  /\ Parent \notin Threads
  /\ None \notin Threads
  /\ ByHand \subseteq Tasks
  /\ Saved \subseteq Threads

VARIABLES
  row,        \* row[t]: the row of thread t: "none", "live", "deleted"
  attached,   \* attached[t]: the rows of thread_tasks
  blocks,     \* the state blocks that exist
  calls,      \* calls[c]: how far call c is, and the thread it recovers to
  requests,   \* requests[r]: the thread that request r has loaded
  early,      \* ghost: the threads being made that a user, not their call, has
              \*        put the parent task into
  removed     \* ghost: the tasks taken out of the thread their call put them
              \*        into, by a detach, by a save that had not loaded them,
              \*        or with an early thread

tables == <<row, attached, blocks>>
ghosts == <<early, removed>>
vars == <<tables, calls, requests, ghosts>>

Exists(t) == row[t] # "none"
OwnTasks(c) == {Parent} \union ({c} \intersect AgentCalls)

(* uq_threads_parent_task_id_non_null: among the rows not deleted.            *)
AnyMayBeLive(t) == TRUE
MayBeLive(t) == t \in Others \/ \A u \in Calls \ {t} : row[u] # "live"

Ended == {"done", "refused", "conflict", "rolledback", "failed"}

CallPc == {"start", "insert", "discard", "converse", "unthread", "unblock",
           "attach", "participants", "find", "found"} \union Ended

NoRequest == [pc |-> "idle", thread |-> None, tasks |-> {}, drop |-> {}]

Request ==
  [pc : {"idle", "edit", "message"}, thread : Threads \union {None},
   tasks : SUBSET Tasks,   \* the tasks it has loaded
   drop : SUBSET Tasks]    \* those it takes out

ThreadsInit ==
  /\ row = [t \in Threads |-> IF t \in Others THEN "live" ELSE "none"]
  /\ attached = [t \in Threads |-> IF t \in Others THEN {Parent} ELSE {}]
  /\ blocks = Others
  /\ calls = [c \in Calls |-> [pc |-> "start", thread |-> None]]
  /\ requests = [r \in Requests |-> NoRequest]
  /\ early = {}
  /\ removed = {}

At(c, pc) == calls[c].pc = pc
Goto(c, pc) == calls' = [calls EXCEPT ![c].pc = pc]

(* The thread is inserted, and its call has not written its tasks.            *)
Making(t) == t \in Calls /\ calls[t].pc \in {"converse", "unthread", "attach"}

(* The thread that call c put its task into.                                  *)
Home(c) == IF calls[c].thread = None THEN c ELSE calls[c].thread
Remove(t, tasks) ==
  removed' = removed \union
    {x \in tasks \intersect AgentCalls : At(x, "done") /\ Home(x) = t}

(* What is in thread t only because it was early.                             *)
Exposed(t) == IF t \in early THEN attached[t] ELSE {}

(* repository.save: the row is live afterwards, with the columns as loaded.   *)
CanSave(t) == t \in blocks /\ MayBeLive(t)
SaveWith(t, tasks) ==
  /\ CanSave(t)
  /\ row' = [row EXCEPT ![t] = "live"]
  /\ attached' = [attached EXCEPT ![t] = tasks]
  /\ UNCHANGED blocks

(***************************************************************************)
(* createThread.                                                           *)
(***************************************************************************)
(* The parent task is there, the title is generated, a conversation can be    *)
(* had, and the block is created.                                             *)
CreateStateBlock(c) ==
  /\ At(c, "start")
  /\ blocks' = blocks \union {c}
  /\ Goto(c, "insert")
  /\ UNCHANGED <<row, attached, requests, ghosts>>

InsertThread(c) ==
  /\ At(c, "insert")
  /\ SaveWith(c, {})
  /\ Goto(c, "converse")
  /\ UNCHANGED <<requests, ghosts>>

(* isParentTaskThreadUniqueViolation.                                         *)
ParentTaskThreadExists(c) ==
  /\ At(c, "insert")
  /\ ~MayBeLive(c)
  /\ Goto(c, "discard")
  /\ UNCHANGED <<tables, requests, ghosts>>

KeepBlock(c) ==
  /\ At(c, "discard")
  /\ Goto(c, IF c \in AgentCalls THEN "find" ELSE "refused")
  /\ UNCHANGED <<tables, requests, ghosts>>

DiscardBlock(c) ==
  /\ At(c, "discard")
  /\ blocks' = blocks \ {c}
  /\ Goto(c, IF c \in AgentCalls THEN "find" ELSE "refused")
  /\ UNCHANGED <<row, attached, requests, ghosts>>

(* createConversation, and the save of its id.                                *)
Converse(c) ==
  /\ At(c, "converse")
  /\ SaveWith(c, attached[c])
  /\ Goto(c, "attach")
  /\ UNCHANGED <<requests, ghosts>>

(* NoActiveChatProviderError.                                                 *)
NoProvider(c) ==
  /\ At(c, "converse")
  /\ Goto(c, "attach")
  /\ UNCHANGED <<tables, requests, ghosts>>

(* Any other error, the save's own included: the thread is taken back, then   *)
(* its block, unless the thread is there again.                               *)
ConversationFails(c) ==
  /\ At(c, "converse")
  /\ Goto(c, "unthread")
  /\ UNCHANGED <<tables, requests, ghosts>>

TakeThreadBack(c) ==
  /\ At(c, "unthread")
  /\ row' = [row EXCEPT ![c] = "none"]
  /\ attached' = [attached EXCEPT ![c] = {}]
  /\ Remove(c, Exposed(c))
  /\ Goto(c, "unblock")
  /\ early' = early \ {c}
  /\ UNCHANGED <<blocks, requests>>

TakeBlockBack(c) ==
  /\ At(c, "unblock")
  /\ blocks' = IF Exists(c) THEN blocks ELSE blocks \ {c}
  /\ Goto(c, "rolledback")
  /\ UNCHANGED <<row, attached, requests, ghosts>>

(* The given tasks and the parent task become the thread's tasks, in place of *)
(* those attached meanwhile.                                                  *)
AttachTasks(c) ==
  /\ At(c, "attach")
  /\ SaveWith(c, OwnTasks(c))
  /\ Remove(c, Exposed(c) \ OwnTasks(c))
  /\ early' = early \ {c}
  /\ Goto(c, IF c \in AgentCalls THEN "done" ELSE "participants")
  /\ UNCHANGED requests

(* Context blocks and participants, if the user gave any: a save each, of the *)
(* entity with its tasks.                                                     *)
AddParticipants(c) ==
  /\ At(c, "participants")
  /\ SaveWith(c, OwnTasks(c))
  /\ Remove(c, attached[c] \ OwnTasks(c))
  /\ \/ Goto(c, "done")
     \/ UNCHANGED calls
  /\ UNCHANGED <<requests, early>>

NothingMore(c) ==
  /\ At(c, "participants")
  /\ Goto(c, "done")
  /\ UNCHANGED <<tables, requests, ghosts>>

(***************************************************************************)
(* createTaskInThread, when another call has created the thread.           *)
(***************************************************************************)
(* The thread that a search by the parent column would find.                  *)
ThreadOfParent(t) == row[t] = "live"
(* findThreadByTaskId: a thread that has the parent task among its tasks,     *)
(* which need not be the parent's own.                                        *)
ThreadWithParent(t) == row[t] = "live" /\ Parent \in attached[t]

FindParentAsThread(c, t) ==
  /\ At(c, "find")
  /\ ThreadWithParent(t)
  /\ calls' = [calls EXCEPT ![c] = [pc |-> "found", thread |-> Parent]]
  /\ UNCHANGED <<tables, requests, ghosts>>

FindThread(c, t) ==
  /\ At(c, "find")
  /\ ThreadWithParent(t)
  /\ calls' = [calls EXCEPT ![c] = [pc |-> "found", thread |-> t]]
  /\ UNCHANGED <<tables, requests, ghosts>>

(* The conflict is thrown again.                                              *)
NoThreadFound(c) ==
  /\ At(c, "find")
  /\ ~\E t \in Threads : ThreadWithParent(t)
  /\ Goto(c, "conflict")
  /\ UNCHANGED <<tables, requests, ghosts>>

(* attachTask: one row of thread_tasks, which may be there already; the       *)
(* thread was live at a read before and may be deleted at the one after.      *)
InsertThreadTask(t, x) ==
  /\ Exists(t)
  /\ attached' = [attached EXCEPT ![t] = @ \union {x}]
  /\ UNCHANGED <<row, blocks>>

AttachToFound(c) ==
  /\ At(c, "found")
  /\ InsertThreadTask(calls[c].thread, c)
  /\ Goto(c, "done") \/ Goto(c, "failed")
  /\ UNCHANGED <<requests, ghosts>>

(* Anything else thrown, or a restart of the backend: what was made stays.    *)
CallFails(c) ==
  /\ calls[c].pc \notin Ended
  /\ Goto(c, "failed")
  /\ early' = early \ {c}
  /\ UNCHANGED <<tables, requests, removed>>

(***************************************************************************)
(* The other requests on a thread.                                         *)
(***************************************************************************)
Load(r, pc, t, tasks, drop) ==
  /\ requests[r] = NoRequest
  /\ row[t] = "live"
  /\ requests' = [requests EXCEPT ![r] =
       [pc |-> pc, thread |-> t, tasks |-> tasks, drop |-> drop]]
  /\ UNCHANGED <<tables, calls, ghosts>>

(* updateThread, addTagToThread, removeTagFromThread, addParticipant,         *)
(* referenceContextBlock, unreferenceContextBlock: a load with all relations. *)
LoadForEdit(r, t) == Load(r, "edit", t, attached[t], {})

(* detachTask.                                                                *)
LoadForDetach(r, t, x) ==
  x \in attached[t] /\ Load(r, "edit", t, attached[t], {x})

RequestOver(r) == requests' = [requests EXCEPT ![r] = NoRequest]

SaveEdit(r) ==
  LET q == requests[r] IN
  /\ q.pc = "edit"
  /\ SaveWith(q.thread, q.tasks \ q.drop)
  /\ Remove(q.thread, q.drop \union (attached[q.thread] \ q.tasks))
  /\ RequestOver(r)
  /\ UNCHANGED <<calls, early>>

(* createMessage: a load without relations; ensureThreadConversationSession   *)
(* and maybeGenerateTitleFromFirstMessage may each save what was loaded.      *)
LoadForMessage(r, t) == Load(r, "message", t, {}, {})

SaveColumns(r) ==
  LET t == requests[r].thread IN
  /\ requests[r].pc = "message"
  /\ SaveWith(t, attached[t])
  /\ RequestOver(r) \/ UNCHANGED requests
  /\ UNCHANGED <<calls, ghosts>>

(* Nothing to save, or an error.                                              *)
EndRequest(r) ==
  /\ requests[r] # NoRequest
  /\ RequestOver(r)
  /\ UNCHANGED <<tables, calls, ghosts>>

(* POST /threads/:id/tasks, and the tool attach_task_to_thread.               *)
AttachTask(t, x) ==
  /\ InsertThreadTask(t, x)
  /\ early' = IF Making(t) /\ x = Parent THEN early \union {t} ELSE early
  /\ UNCHANGED <<calls, requests, removed>>

(* deleteThread: the row is marked.                                           *)
DeleteThread(t) ==
  /\ row[t] = "live"
  /\ row' = [row EXCEPT ![t] = "deleted"]
  /\ UNCHANGED <<attached, blocks, calls, requests, ghosts>>

(* deleteBlock of the context service, which refuses a thread's state block.  *)
DeleteStateBlock(t) ==
  /\ t \in blocks /\ ~Exists(t)
  /\ blocks' = blocks \ {t}
  /\ UNCHANGED <<row, attached, calls, requests, ghosts>>

(***************************************************************************)
(* The specification.                                                      *)
(***************************************************************************)
CallStep(c) ==
  \/ CreateStateBlock(c) \/ InsertThread(c) \/ ParentTaskThreadExists(c)
  \/ DiscardBlock(c) \/ Converse(c) \/ NoProvider(c) \/ ConversationFails(c)
  \/ TakeThreadBack(c) \/ TakeBlockBack(c) \/ AttachTasks(c)
  \/ AddParticipants(c) \/ NothingMore(c)
  \/ (\E t \in Threads : FindThread(c, t)) \/ NoThreadFound(c)
  \/ AttachToFound(c) \/ CallFails(c)

RequestStep(r) ==
  \/ \E t \in Saved : LoadForEdit(r, t) \/ LoadForMessage(r, t)
  \/ \E t \in Saved, x \in Tasks : LoadForDetach(r, t, x)
  \/ SaveEdit(r) \/ SaveColumns(r) \/ EndRequest(r)

ThreadsNext ==
  \/ \E c \in Calls : CallStep(c)
  \/ \E r \in Requests : RequestStep(r)
  \/ \E t \in Threads :
       \/ (\E x \in ByHand : AttachTask(t, x))
       \/ DeleteThread(t) \/ DeleteStateBlock(t)

ThreadsSpec == ThreadsInit /\ [][ThreadsNext]_vars

(***************************************************************************)
(* Properties.                                                             *)
(***************************************************************************)
ThreadsTypeOK ==
  /\ row \in [Threads -> {"none", "live", "deleted"}]
  /\ attached \in [Threads -> SUBSET Tasks]
  /\ blocks \subseteq Threads
  /\ calls \in [Calls -> [pc : CallPc, thread : Threads \union {None}]]
  /\ requests \in [Requests -> Request]
  /\ early \subseteq Calls
  /\ removed \subseteq AgentCalls

(* A thread has its state block, and a call that lost the race or was rolled  *)
(* back leaves no block without a thread: although a stale save may bring the *)
(* thread back between the two steps of the roll-back.                        *)
BlockIffThread ==
  /\ \A t \in Threads : Exists(t) => t \in blocks
  /\ \A c \in Calls :
       calls[c].pc \in {"done", "refused", "conflict", "rolledback"}
         => (c \in blocks => Exists(c))

(* The task of a call that succeeded is in the thread its call put it into,   *)
(* whoever created, saved, deleted or rolled back that thread meanwhile, until *)
(* a request detaches it or a save that had not loaded it overwrites the      *)
(* thread's tasks.  It is not so of a call that met a thread still being made *)
(* with the parent task put into it by hand: that thread's own call may yet   *)
(* delete it, or write its own tasks only.                                    *)
TasksStayInThread ==
  \A c \in AgentCalls \ removed :
    At(c, "done") => Exists(Home(c)) /\ c \in attached[Home(c)]

(* The parent task has one thread at a time, also after a save brought one    *)
(* back.                                                                      *)
OneThreadPerParent ==
  \A t, u \in Calls : row[t] = "live" /\ row[u] = "live" => t = u

(* "If another call created it first, recover by attaching this task to the   *)
(* already-created thread": a call never ends with the conflict while the     *)
(* thread it conflicts with is there.                                         *)
RecoversByAttaching ==
  [][\A c \in Calls :
       calls'[c].pc = "conflict" /\ calls[c].pc # "conflict"
         => \A t \in Calls : row[t] # "live"]_vars
=============================================================================
