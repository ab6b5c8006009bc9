---------------------------- MODULE ContextTree ----------------------------
(***************************************************************************)
(* The context blocks of apps/backend/src/context (context.service.ts): a  *)
(* table of pages, each with at most one parent.  The service reads and    *)
(* writes without a transaction around them: it loads a block, validates   *)
(* the new parent by one query per ancestor, and saves the copy it loaded. *)
(* Saving writes every column of the copy that differs from the row, and   *)
(* inserts the row again when it was deleted meanwhile.                    *)
(*                                                                         *)
(* Titles, contents, orders and tags are not told apart: an edit of any of *)
(* them is a save of the loaded copy.                                      *)
(***************************************************************************)
EXTENDS Naturals, FiniteSets

CONSTANTS
  Blocks,    \* the ids that are ever given to a block
  ThreadBlocks,  \* those that createThread asked for
  Requests,  \* bound: the requests served at a time
  Root,      \* parent_id is null
  Unborn,    \* no row has had the id yet
  Gone       \* the row was deleted

ASSUME BlocksAssumption ==
  /\ IsFiniteSet(Blocks)
  /\ ThreadBlocks \subseteq Blocks
  /\ {Root, Unborn, Gone} \intersect Blocks = {}
  /\ Root \notin {Unborn, Gone}

VARIABLES
  parent,    \* parent[b]: the parent_id of row b, or why there is no row
  stateOf,   \* the blocks that are some thread's state, deleted threads' too
  requests,  \* requests[q]: what request q has read and is about to do
  overtaken  \* ghost: a save ever used what another save had changed

vars == <<parent, stateOf, requests, overtaken>>

Live(b) == parent[b] \notin {Unborn, Gone}
LiveBlocks == {b \in Blocks : Live(b)}
Children(b) == {c \in LiveBlocks : parent[c] = b}

(* The foreign keys on context_blocks: parent_id of the block itself, and     *)
(* state_context_block_id of the threads.                                     *)
MayPointTo(p) == p = Root \/ p \in LiveBlocks
Unkeyed(b) == TRUE
Unreferenced(b) == Children(b) = {} /\ b \notin stateOf

Idle == [pc |-> "idle", block |-> Root, to |-> Root, at |-> Root, walk |-> {}]

Request ==
  [pc : {"idle", "create", "edit", "parent", "walk", "move", "children",
         "threads", "delete"},
   block : Blocks \union {Root},   \* the block it is about
   to : Blocks \union {Root},      \* the parent it will write
   at : Blocks \union {Root},      \* where the walk up has come
   walk : SUBSET (Blocks \X (Blocks \union {Root, Unborn, Gone}))]
                                   \* the rows the walk has read

TreeInit ==
  /\ parent = [b \in Blocks |-> Unborn]
  /\ stateOf = {}
  /\ requests = [q \in Requests |-> Idle]
  /\ overtaken = FALSE

Begin(q, pc, b, p) ==
  /\ requests[q].pc = "idle"
  /\ requests' = [requests EXCEPT ![q] =
                    [Idle EXCEPT !.pc = pc, !.block = b, !.to = p]]
  /\ UNCHANGED <<parent, stateOf, overtaken>>

Goto(q, pc) ==
  /\ requests' = [requests EXCEPT ![q].pc = pc]
  /\ UNCHANGED <<parent, stateOf, overtaken>>

Done(q) == requests' = [requests EXCEPT ![q] = Idle]

(* An exception: a block or parent not found, CircularReferenceError, a       *)
(* foreign key, or any failure of the database.                               *)
Fail(q) ==
  /\ requests[q].pc # "idle"
  /\ Done(q)
  /\ UNCHANGED <<parent, stateOf, overtaken>>

(***************************************************************************)
(* createBlock: the parent is looked up, then the row inserted; with tags  *)
(* the inserted entity is saved a second time.  An import from a zip is a  *)
(* sequence of these.                                                      *)
(***************************************************************************)
CreateBlock(q, p) == MayPointTo(p) /\ Begin(q, "create", Root, p)

InsertBlock(q, b) ==
  LET p == requests[q].to IN
  /\ requests[q].pc = "create"
  /\ parent[b] = Unborn
  /\ MayPointTo(p)
  /\ parent' = [parent EXCEPT ![b] = p]
  /\ \/ Done(q)
     \/ requests' = [requests EXCEPT ![q].pc = "edit", ![q].block = b]
  /\ UNCHANGED <<stateOf, overtaken>>

(***************************************************************************)
(* appendToBlock, reorderBlock, addTagToBlock, removeTagFromBlock, and     *)
(* updateBlock without a parent: load, change, save.                       *)
(***************************************************************************)
LoadForEdit(q, b) == Live(b) /\ Begin(q, "edit", b, parent[b])

(* repository.save: an update, or an insert of a row deleted meanwhile.       *)
Save(q) ==
  /\ MayPointTo(requests[q].to)
  /\ parent' = [parent EXCEPT ![requests[q].block] = requests[q].to]
  /\ Done(q)
  /\ UNCHANGED stateOf

(* The block was moved since it was loaded.                                   *)
CopyIsOld(q) ==
  Live(requests[q].block) /\ parent[requests[q].block] # requests[q].to

SaveEdit(q) ==
  /\ requests[q].pc = "edit"
  /\ Save(q)
  /\ overtaken' = (overtaken \/ CopyIsOld(q))

(***************************************************************************)
(* moveBlock, and updateBlock with a parent.                               *)
(***************************************************************************)
LoadForMove(q, b, p) ==
  /\ Live(b)
  /\ p # b
  /\ Begin(q, IF p = Root THEN "move" ELSE "parent", b, p)

ParentExists(q) ==
  /\ requests[q].pc = "parent"
  /\ Live(requests[q].to)
  /\ requests' = [requests EXCEPT ![q].pc = "walk", ![q].at = requests[q].to]
  /\ UNCHANGED <<parent, stateOf, overtaken>>

(* validateNoCircularReference: one query per ancestor, up to the root or to  *)
(* a row that is not there.                                                   *)
RememberNothing(q) == FALSE
Visited(q) == \E e \in requests[q].walk : e[1] = requests[q].at
IgnoreOwnBlock(q) == FALSE
Reached(q) == requests[q].at = requests[q].block

WalkPastMissing(q) ==
  LET x == requests[q].at
      seen == requests[q].walk \union {<<x, parent[x]>>} IN
  /\ requests[q].pc = "walk"
  /\ ~Visited(q) /\ ~Reached(q)
  /\ requests' = [requests EXCEPT ![q] =
       IF parent[x] # Root THEN [@ EXCEPT !.at = parent[x], !.walk = seen]
       ELSE [@ EXCEPT !.pc = "move", !.walk = seen]]
  /\ UNCHANGED <<parent, stateOf, overtaken>>

WalkUp(q) ==
  LET x == requests[q].at
      seen == requests[q].walk \union {<<x, parent[x]>>} IN
  /\ requests[q].pc = "walk"
  /\ ~Visited(q) /\ ~Reached(q)
  /\ requests' = [requests EXCEPT ![q] =
       IF parent[x] \in Blocks
       THEN [@ EXCEPT !.at = parent[x], !.walk = seen]
       ELSE [@ EXCEPT !.pc = "move", !.walk = seen]]
  /\ UNCHANGED <<parent, stateOf, overtaken>>

(* CircularReferenceError.                                                    *)
Circular(q) ==
  /\ requests[q].pc = "walk"
  /\ Visited(q) \/ Reached(q)
  /\ Done(q)
  /\ UNCHANGED <<parent, stateOf, overtaken>>

(* A row the walk has read is not as it was read.                             *)
WalkIsOld(q) ==
  \E e \in requests[q].walk : Live(e[1]) /\ parent[e[1]] # e[2]

SaveMove(q) ==
  /\ requests[q].pc = "move"
  /\ Save(q)
  /\ overtaken' = (overtaken \/ WalkIsOld(q))

(***************************************************************************)
(* deleteBlock: two checks, then the delete.                               *)
(***************************************************************************)
LoadForDelete(q, b) == Live(b) /\ Begin(q, "children", b, Root)

NoChildren(q) ==
  /\ requests[q].pc = "children"
  /\ Children(requests[q].block) = {}
  /\ Goto(q, "threads")

NotThreadState(q) ==
  /\ requests[q].pc = "threads"
  /\ requests[q].block \notin stateOf
  /\ Goto(q, "delete")

DeleteBlock(q) ==
  LET b == requests[q].block IN
  /\ requests[q].pc = "delete"
  /\ Live(b) /\ Unreferenced(b)
  /\ parent' = [parent EXCEPT ![b] = Gone]
  /\ Done(q)
  /\ UNCHANGED <<stateOf, overtaken>>

(* ThreadsService.createThread: the thread's row is inserted after its block, *)
(* and is never deleted but marked so.                                        *)
ThreadTakesBlock(b) ==
  /\ Live(b)
  /\ stateOf' = stateOf \union {b}
  /\ UNCHANGED <<parent, requests, overtaken>>

(***************************************************************************)
(* The specification.                                                      *)
(***************************************************************************)
Arrive(q) ==
  \/ \E p \in Blocks \union {Root} : CreateBlock(q, p)
  \/ \E b \in Blocks : LoadForEdit(q, b) \/ LoadForDelete(q, b)
  \/ \E b \in Blocks, p \in Blocks \union {Root} : LoadForMove(q, b, p)

Continue(q) ==
  \/ \E b \in Blocks : InsertBlock(q, b)
  \/ SaveEdit(q)
  \/ ParentExists(q) \/ WalkUp(q) \/ Circular(q) \/ SaveMove(q)
  \/ NoChildren(q) \/ NotThreadState(q) \/ DeleteBlock(q)

TreeNext ==
  \/ \E q \in Requests : Arrive(q) \/ Continue(q) \/ Fail(q)
  \/ \E b \in ThreadBlocks : ThreadTakesBlock(b)

TreeSpec == TreeInit /\ [][TreeNext]_vars

(* A walk whose queries are answered and do not fail.                         *)
WalkFairness == \A q \in Requests : WF_vars(WalkUp(q) \/ Circular(q))

(***************************************************************************)
(* What the readers get.                                                   *)
(***************************************************************************)
(* getBlockTree and exportBlocksAsZip: what hangs from the top, n levels deep. *)
Tops == {b \in LiveBlocks : parent[b] \notin LiveBlocks}
WithChildren(bs) == bs \union {b \in LiveBlocks : parent[b] \in bs}

ShownTo[n \in 0 .. Cardinality(Blocks)] ==
  IF n = 0 THEN Tops ELSE WithChildren(ShownTo[n - 1])

Shown == ShownTo[Cardinality(Blocks)]

(***************************************************************************)
(* Properties.                                                             *)
(***************************************************************************)
TreeTypeOK ==
  /\ parent \in [Blocks -> Blocks \union {Root, Unborn, Gone}]
  /\ stateOf \subseteq ThreadBlocks
  /\ requests \in [Requests -> Request]
  /\ overtaken \in BOOLEAN

(* No block is its own ancestor: every set of blocks has one whose parent is  *)
(* not in the set.                                                            *)
Acyclic ==
  \A S \in SUBSET LiveBlocks : S # {} => \E b \in S : parent[b] \notin S

(* The validation, made row by row while others move, insert and delete, lets *)
(* no cycle through as long as no save writes over a move it has not seen: a  *)
(* copy loaded before the move, or a walk through the row that was moved.     *)
ForestUnlessOvertaken == ~overtaken => Acyclic

(* No block then drops out of the tree and of the export, which both start at *)
(* the top and meet no block of a cycle.                                      *)
EveryBlockIsShown == ~overtaken => Shown = LiveBlocks

(* Deletes that passed both checks, inserts and moves that found their parent,*)
(* and threads taking their block, in any order: no block is left below a     *)
(* deleted one, and no thread without its state.                              *)
ReferencesHold ==
  /\ \A b \in LiveBlocks : MayPointTo(parent[b])
  /\ stateOf \subseteq LiveBlocks

(* The validation reads no row twice and never its own block's: it ends after *)
(* one query per other block at the latest, also above a cycle, and also when *)
(* the rows move under it.                                                    *)
WalksAreShort ==
  \A q \in Requests :
    Cardinality(requests[q].walk) <= Cardinality(Blocks \ {requests[q].block})

(* A walk ends, also when there is a cycle above, and also when the rows move *)
(* under it.                                                                  *)
WalksEnd ==
  \A q \in Requests : requests[q].pc = "walk" ~> requests[q].pc # "walk"
=============================================================================
