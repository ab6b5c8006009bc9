------------------------- MODULE ContextTreeProofs -------------------------
(***************************************************************************)
(* ContextTree for any finite set of blocks and any number of requests:    *)
(* the types, the references, that only an overtaken save makes a cycle,   *)
(* that without one every block is shown, and that walks are short.        *)
(***************************************************************************)
EXTENDS ContextTree, FiniteSetTheorems, WellFoundedInduction, TLAPS

(* What a walk has read of q's new ancestors: none is q's block, and it has   *)
(* read the parent of each that has one, or is about to.                      *)
Read(q, b) == \E e \in requests[q].walk : e[1] = b

WalkOK(q) ==
  /\ requests[q].pc = "walk" =>
       /\ requests[q].at \in Blocks
       /\ requests[q].at = requests[q].to \/ Read(q, requests[q].to)
       /\ \A e \in requests[q].walk :
            /\ e[1] # requests[q].block
            /\ e[2] \in Blocks => e[2] = requests[q].at \/ Read(q, e[2])
  /\ requests[q].pc = "move" =>
       /\ requests[q].to # Root => Read(q, requests[q].to)
       /\ \A e \in requests[q].walk :
            /\ e[1] # requests[q].block
            /\ e[2] \in Blocks => Read(q, e[2])
  /\ requests[q].pc = "parent" =>
       requests[q].walk = {} /\ requests[q].to # Root

(* A request that is past its first query, and does not create, has a block.  *)
HasBlock(q) ==
  requests[q].pc \notin {"idle", "create"} => requests[q].block \in Blocks

(* The inductive invariant.                                                   *)
TreeInv ==
  /\ TreeTypeOK
  /\ ReferencesHold
  /\ \A q \in Requests : WalkOK(q) /\ HasBlock(q)
  /\ ForestUnlessOvertaken

(* A request is one of the records, and stays one when fields are set.        *)
LEMMA RequestFields ==
  ASSUME NEW r \in Request
  PROVE  /\ \A pc \in {"idle", "create", "edit", "parent", "walk", "move",
                       "children", "threads", "delete"} :
              [r EXCEPT !.pc = pc] \in Request
         /\ \A pc \in {"idle", "create", "edit", "parent", "walk", "move",
                       "children", "threads", "delete"},
               b \in Blocks \union {Root} :
              /\ [r EXCEPT !.pc = pc, !.block = b] \in Request
              /\ [r EXCEPT !.pc = pc, !.at = b] \in Request
         /\ Idle \in Request
  BY DEF Request, Idle

(* The types hold in every state: no walk follows a row that is not there.    *)
LEMMA TypeStep ==
  TreeTypeOK /\ (\A q \in Requests : WalkOK(q)) /\ [TreeNext]_vars
    => TreeTypeOK'
<1> SUFFICES ASSUME TreeTypeOK, \A q \in Requests : WalkOK(q),
                    [TreeNext]_vars
             PROVE  TreeTypeOK'
  OBVIOUS
<1> USE BlocksAssumption DEF TreeTypeOK
<1>1. ASSUME NEW q \in Requests, Arrive(q) PROVE TreeTypeOK'
  <2>1. \A pc \in {"create", "edit", "children", "move", "parent"},
           b \in Blocks \union {Root}, p \in Blocks \union {Root} :
          Begin(q, pc, b, p) => TreeTypeOK'
    <3> SUFFICES ASSUME NEW pc \in {"create", "edit", "children", "move", "parent"},
                        NEW b \in Blocks \union {Root},
                        NEW p \in Blocks \union {Root}, Begin(q, pc, b, p)
                 PROVE  TreeTypeOK'
      OBVIOUS
    <3>1. [Idle EXCEPT !.pc = pc, !.block = b, !.to = p] \in Request
      BY DEF Idle, Request
    <3>. QED BY <3>1 DEF Begin
  <2>2. CASE \E p \in Blocks \union {Root} : CreateBlock(q, p)
    BY <2>1, <2>2 DEF CreateBlock
  <2>3. CASE \E b \in Blocks : LoadForEdit(q, b)
    <3>1. PICK b \in Blocks : LoadForEdit(q, b) BY <2>3
    <3>2. parent[b] \in Blocks \union {Root} BY <3>1 DEF LoadForEdit, Live
    <3>. QED BY <2>1, <3>1, <3>2 DEF LoadForEdit
  <2>4. CASE \E b \in Blocks : LoadForDelete(q, b)
    BY <2>1, <2>4 DEF LoadForDelete
  <2>5. CASE \E b \in Blocks, p \in Blocks \union {Root} : LoadForMove(q, b, p)
    <3>1. PICK b \in Blocks, p \in Blocks \union {Root} : LoadForMove(q, b, p)
      BY <2>5
    <3>2. CASE p = Root BY <2>1, <3>1, <3>2 DEF LoadForMove
    <3>3. CASE p # Root BY <2>1, <3>1, <3>3 DEF LoadForMove
    <3>. QED BY <3>2, <3>3
  <2>. QED BY <1>1, <2>2, <2>3, <2>4, <2>5 DEF Arrive
<1>2. ASSUME NEW q \in Requests, NEW b \in Blocks, InsertBlock(q, b)
      PROVE  TreeTypeOK'
  <2>1. requests[q] \in Request /\ requests[q].to \in Blocks \union {Root}
    BY DEF Request
  <2>2. parent' \in [Blocks -> Blocks \union {Root, Unborn, Gone}]
    BY <1>2, <2>1 DEF InsertBlock
  <2>3. requests' \in [Requests -> Request]
    <3>1. CASE Done(q) BY <3>1, RequestFields DEF Done
    <3>2. CASE requests' = [requests EXCEPT ![q].pc = "edit", ![q].block = b]
      <4>1. [requests[q] EXCEPT !.pc = "edit", !.block = b] \in Request
        BY <2>1, RequestFields
      <4>. QED BY <3>2, <4>1
    <3>. QED BY <1>2, <3>1, <3>2 DEF InsertBlock
  <2>. QED BY <1>2, <2>2, <2>3 DEF InsertBlock
<1>3. ASSUME NEW q \in Requests, SaveEdit(q) \/ SaveMove(q) PROVE TreeTypeOK'
  <2>1. requests[q].to \in Blocks \union {Root} BY DEF Request
  <2>2. parent' \in [Blocks -> Blocks \union {Root, Unborn, Gone}]
    BY <1>3, <2>1 DEF SaveEdit, SaveMove, Save
  <2>3. requests' \in [Requests -> Request]
    BY <1>3, RequestFields DEF SaveEdit, SaveMove, Save, Done
  <2>4. overtaken' \in BOOLEAN
    BY <1>3 DEF SaveEdit, SaveMove, CopyIsOld, WalkIsOld
  <2>. QED BY <1>3, <2>2, <2>3, <2>4 DEF SaveEdit, SaveMove, Save
<1>4. ASSUME NEW q \in Requests, ParentExists(q) PROVE TreeTypeOK'
  <2>1. requests[q] \in Request /\ requests[q].to \in Blocks \union {Root}
    BY DEF Request
  <2>2. [requests[q] EXCEPT !.pc = "walk", !.at = requests[q].to] \in Request
    BY <2>1, RequestFields
  <2>. QED BY <1>4, <2>2 DEF ParentExists
<1>5. ASSUME NEW q \in Requests, WalkUp(q) PROVE TreeTypeOK'
  <2> DEFINE x == requests[q].at
             seen == requests[q].walk \union {<<x, parent[x]>>}
  <2>1. requests[q] \in Request BY DEF Request
  <2>2. x \in Blocks BY <1>5 DEF WalkUp, WalkOK
  <2>3. seen \in SUBSET (Blocks \X (Blocks \union {Root, Unborn, Gone}))
    BY <2>1, <2>2 DEF Request
  <2> HIDE DEF seen
  <2>4. CASE parent[x] \in Blocks
    <3>1. requests' = [requests EXCEPT ![q] =
                         [@ EXCEPT !.at = parent[x], !.walk = seen]]
      BY <1>5, <2>4 DEF WalkUp, seen
    <3>2. [requests[q] EXCEPT !.at = parent[x], !.walk = seen] \in Request
      BY <2>1, <2>3, <2>4 DEF Request
    <3>. QED BY <1>5, <3>1, <3>2 DEF WalkUp
  <2>5. CASE parent[x] \notin Blocks
    <3>1. requests' = [requests EXCEPT ![q] =
                         [@ EXCEPT !.pc = "move", !.walk = seen]]
      BY <1>5, <2>5 DEF WalkUp, seen
    <3>2. [requests[q] EXCEPT !.pc = "move", !.walk = seen] \in Request
      BY <2>1, <2>3 DEF Request
    <3>. QED BY <1>5, <3>1, <3>2 DEF WalkUp
  <2>. QED BY <2>4, <2>5
<1>6. ASSUME NEW q \in Requests, Circular(q) \/ Fail(q) PROVE TreeTypeOK'
  BY <1>6, RequestFields DEF Circular, Fail, Done
<1>7. ASSUME NEW q \in Requests, NoChildren(q) \/ NotThreadState(q)
      PROVE  TreeTypeOK'
  <2>1. requests[q] \in Request OBVIOUS
  <2>. QED BY <1>7, <2>1, RequestFields DEF NoChildren, NotThreadState, Goto
<1>8. ASSUME NEW q \in Requests, DeleteBlock(q) PROVE TreeTypeOK'
  BY <1>8, RequestFields DEF DeleteBlock, Done
<1>9. ASSUME NEW b \in ThreadBlocks, ThreadTakesBlock(b) PROVE TreeTypeOK'
  BY <1>9 DEF ThreadTakesBlock
<1>10. CASE UNCHANGED vars BY <1>10 DEF vars
<1>. QED
  BY <1>1, <1>2, <1>3, <1>4, <1>5, <1>6, <1>7, <1>8, <1>9, <1>10
     DEF TreeNext, Continue

(***************************************************************************)
(* References: a row points to rows, a thread to its block.                *)
(***************************************************************************)
(* Writing into a row a parent that may be pointed to keeps the references.   *)
LEMMA WriteKeepsReferences ==
  ASSUME TreeTypeOK, ReferencesHold,
         NEW b \in Blocks, NEW p, MayPointTo(p),
         parent' = [parent EXCEPT ![b] = p], UNCHANGED stateOf
  PROVE  ReferencesHold' /\ LiveBlocks' = LiveBlocks \union {b}
<1>1. p \notin {Unborn, Gone}
  BY BlocksAssumption DEF MayPointTo, LiveBlocks, Live
<1>2. \A c \in Blocks : parent'[c] = IF c = b THEN p ELSE parent[c]
  BY DEF TreeTypeOK
<1>3. LiveBlocks' = LiveBlocks \union {b}
  BY <1>1, <1>2 DEF LiveBlocks, Live
<1>. QED BY <1>2, <1>3 DEF ReferencesHold, MayPointTo

(* No interleaving leaves a reference to a row that is not there.             *)
LEMMA ReferencesStep ==
  TreeTypeOK /\ ReferencesHold /\ (\A q \in Requests : HasBlock(q))
             /\ [TreeNext]_vars
    => ReferencesHold'
<1> SUFFICES ASSUME TreeTypeOK, ReferencesHold,
                    \A q \in Requests : HasBlock(q), [TreeNext]_vars
             PROVE  ReferencesHold'
  OBVIOUS
<1>1. ASSUME UNCHANGED <<parent, stateOf>> PROVE ReferencesHold'
  BY <1>1 DEF ReferencesHold, MayPointTo, LiveBlocks, Live
<1>2. ASSUME NEW q \in Requests, NEW b \in Blocks, InsertBlock(q, b)
      PROVE  ReferencesHold'
  BY <1>2, WriteKeepsReferences DEF InsertBlock
<1>3. ASSUME NEW q \in Requests, SaveEdit(q) \/ SaveMove(q)
      PROVE  ReferencesHold'
  <2>1. requests[q].block \in Blocks
    BY <1>3 DEF SaveEdit, SaveMove, HasBlock
  <2>. QED BY <1>3, <2>1, WriteKeepsReferences DEF SaveEdit, SaveMove, Save
<1>4. ASSUME NEW q \in Requests, DeleteBlock(q) PROVE ReferencesHold'
  <2> DEFINE b == requests[q].block
  <2>1. b \in Blocks /\ Unreferenced(b)
    BY <1>4 DEF DeleteBlock, HasBlock
  <2>2. LiveBlocks' = LiveBlocks \ {b}
    BY <1>4, <2>1 DEF DeleteBlock, LiveBlocks, Live, TreeTypeOK
  <2>3. \A c \in LiveBlocks' : parent'[c] = parent[c] /\ parent[c] # b
    BY <1>4, <2>1, <2>2
       DEF DeleteBlock, TreeTypeOK, Unreferenced, Children, LiveBlocks
  <2>. QED
    BY <1>4, <2>1, <2>2, <2>3
       DEF DeleteBlock, ReferencesHold, MayPointTo, Unreferenced
<1>5. ASSUME NEW b \in ThreadBlocks, ThreadTakesBlock(b) PROVE ReferencesHold'
  BY <1>5, BlocksAssumption
     DEF ThreadTakesBlock, ReferencesHold, MayPointTo, LiveBlocks, Live
<1>6. ASSUME NEW q \in Requests,
             \/ Arrive(q) \/ ParentExists(q) \/ WalkUp(q) \/ Circular(q)
             \/ NoChildren(q) \/ NotThreadState(q) \/ Fail(q)
      PROVE  UNCHANGED <<parent, stateOf>>
  BY <1>6 DEF Arrive, CreateBlock, LoadForEdit, LoadForDelete, LoadForMove,
              Begin, ParentExists, WalkUp, Circular, NoChildren,
              NotThreadState, Goto, Fail
<1>7. CASE UNCHANGED vars BY <1>1, <1>7 DEF vars
<1>. QED
  BY <1>1, <1>2, <1>3, <1>4, <1>5, <1>6, <1>7 DEF TreeNext, Continue

(***************************************************************************)
(* What a request has read.                                                *)
(***************************************************************************)
(* The claims about a request depend on nothing but that request.             *)
LEMMA OthersKept ==
  ASSUME NEW q \in Requests, WalkOK(q), HasBlock(q),
         requests'[q] = requests[q]
  PROVE  WalkOK(q)' /\ HasBlock(q)'
  BY DEF WalkOK, HasBlock, Read

(* They hold of a request that has just begun, or that is over.               *)
LEMMA Fresh ==
  ASSUME NEW q \in Requests,
         NEW pc \in {"idle", "create", "edit", "parent", "move", "children"},
         NEW b, NEW p,
         requests'[q] = [Idle EXCEPT !.pc = pc, !.block = b, !.to = p],
         pc \notin {"idle", "create"} => b \in Blocks,
         pc = "move" => p = Root, pc = "parent" => p # Root
  PROVE  WalkOK(q)' /\ HasBlock(q)'
  BY DEF WalkOK, HasBlock, Read, Idle

(* The walk records each row it reads, and follows what it read.              *)
LEMMA WalkStep ==
  TreeTypeOK /\ (\A q \in Requests : WalkOK(q) /\ HasBlock(q))
             /\ [TreeNext]_vars
    => \A q \in Requests : WalkOK(q)' /\ HasBlock(q)'
<1> SUFFICES ASSUME TreeTypeOK, \A q \in Requests : WalkOK(q) /\ HasBlock(q),
                    [TreeNext]_vars, NEW u \in Requests
             PROVE  WalkOK(u)' /\ HasBlock(u)'
  OBVIOUS
<1>1. ASSUME requests'[u] = requests[u] PROVE WalkOK(u)' /\ HasBlock(u)'
  BY <1>1, OthersKept
<1>2. ASSUME Done(u) PROVE WalkOK(u)' /\ HasBlock(u)'
  BY <1>2, BlocksAssumption DEF Done, TreeTypeOK, Idle, WalkOK, HasBlock
<1>3. ASSUME NEW pc \in {"create", "edit", "parent", "move", "children"},
             NEW b, NEW p, Begin(u, pc, b, p),
             pc # "create" => b \in Blocks, pc = "move" => p = Root,
             pc = "parent" => p # Root
      PROVE  WalkOK(u)' /\ HasBlock(u)'
  <2>1. requests'[u] = [Idle EXCEPT !.pc = pc, !.block = b, !.to = p]
    BY <1>3 DEF Begin, TreeTypeOK
  <2>. QED BY <1>3, <2>1, Fresh
<1>4. ASSUME Arrive(u) PROVE WalkOK(u)' /\ HasBlock(u)'
  <2>1. CASE \E p \in Blocks \union {Root} : CreateBlock(u, p)
    BY <1>3, <2>1 DEF CreateBlock
  <2>2. CASE \E b \in Blocks : LoadForEdit(u, b) \/ LoadForDelete(u, b)
    BY <1>3, <2>2 DEF LoadForEdit, LoadForDelete
  <2>3. CASE \E b \in Blocks, p \in Blocks \union {Root} : LoadForMove(u, b, p)
    BY <1>3, <2>3 DEF LoadForMove
  <2>. QED BY <1>4, <2>1, <2>2, <2>3 DEF Arrive
<1>5. ASSUME NEW b \in Blocks, InsertBlock(u, b)
      PROVE  WalkOK(u)' /\ HasBlock(u)'
  <2>1. CASE Done(u) BY <1>2, <2>1
  <2>2. CASE requests' = [requests EXCEPT ![u].pc = "edit", ![u].block = b]
    BY <2>2 DEF TreeTypeOK, Request, WalkOK, HasBlock
  <2>. QED BY <1>5, <2>1, <2>2 DEF InsertBlock
<1>6. ASSUME ParentExists(u) PROVE WalkOK(u)' /\ HasBlock(u)'
  <2>1. /\ requests[u].walk = {} /\ requests[u].pc = "parent"
        /\ requests[u].to \in Blocks
    BY <1>6 DEF ParentExists, WalkOK, TreeTypeOK, Request
  <2>2. requests'[u] = [requests[u] EXCEPT !.pc = "walk",
                                           !.at = requests[u].to]
    BY <1>6 DEF ParentExists, TreeTypeOK
  <2>. QED
    BY <2>1, <2>2 DEF TreeTypeOK, Request, WalkOK, HasBlock, Read
<1>7. ASSUME WalkUp(u) PROVE WalkOK(u)' /\ HasBlock(u)'
  <2> DEFINE x == requests[u].at
             seen == requests[u].walk \union {<<x, parent[x]>>}
             ReadNow(b) == \E e \in seen : e[1] = b
  <2>1. /\ x \in Blocks /\ x # requests[u].block /\ requests[u].pc = "walk"
        /\ requests[u] \in Request
    BY <1>7 DEF WalkUp, WalkOK, Reached, TreeTypeOK
  <2>2. ReadNow(x) /\ (\A b : Read(u, b) => ReadNow(b))
    <3>1. <<x, parent[x]>> \in seen /\ <<x, parent[x]>>[1] = x OBVIOUS
    <3>2. requests[u].walk \subseteq seen OBVIOUS
    <3> HIDE DEF seen
    <3>. QED BY <3>1, <3>2 DEF Read
  <2>3. /\ ReadNow(requests[u].to)
        /\ \A e \in requests[u].walk :
             e[1] # requests[u].block /\ (e[2] \in Blocks => ReadNow(e[2]))
    BY <2>1, <2>2 DEF WalkOK
  <2>4. \A e \in seen :
          e[1] # requests[u].block
          /\ (e[2] \in Blocks => e[2] = parent[x] \/ ReadNow(e[2]))
    BY <2>1, <2>3
  <2>5. CASE parent[x] \in Blocks
    <3>1. requests'[u] = [requests[u] EXCEPT !.at = parent[x], !.walk = seen]
      BY <1>7, <2>5 DEF WalkUp, TreeTypeOK
    <3> HIDE DEF seen
    <3>2. /\ requests'[u].pc = "walk" /\ requests'[u].at = parent[x]
          /\ requests'[u].walk = seen /\ requests'[u].to = requests[u].to
          /\ requests'[u].block = requests[u].block
      BY <2>1, <3>1 DEF Request
    <3>3. \A b : Read(u, b)' <=> ReadNow(b) BY <3>2 DEF Read
    <3> HIDE DEF ReadNow
    <3>4. WalkOK(u)' BY <2>3, <2>4, <2>5, <3>2, <3>3 DEF WalkOK
    <3>. QED BY <2>1, <3>2, <3>4 DEF HasBlock, WalkOK
  <2>6. CASE parent[x] \notin Blocks
    <3>1. requests'[u] = [requests[u] EXCEPT !.pc = "move", !.walk = seen]
      BY <1>7, <2>6 DEF WalkUp, TreeTypeOK
    <3> HIDE DEF seen
    <3>2. /\ requests'[u].pc = "move"
          /\ requests'[u].walk = seen /\ requests'[u].to = requests[u].to
          /\ requests'[u].block = requests[u].block
      BY <2>1, <3>1 DEF Request
    <3>. QED BY <2>1, <2>3, <2>4, <2>6, <3>2 DEF WalkOK, HasBlock, Read
  <2>. QED BY <2>5, <2>6
<1>8. ASSUME NEW pc \in {"threads", "delete"}, Goto(u, pc),
             requests[u].pc \in {"children", "threads"}
      PROVE  WalkOK(u)' /\ HasBlock(u)'
  BY <1>8 DEF Goto, TreeTypeOK, Request, WalkOK, HasBlock
<1>9. ASSUME Continue(u) \/ Fail(u) PROVE WalkOK(u)' /\ HasBlock(u)'
  BY <1>2, <1>5, <1>6, <1>7, <1>8, <1>9
     DEF Continue, SaveEdit, SaveMove, Save, Circular, NoChildren,
         NotThreadState, DeleteBlock, Fail
<1>10. ASSUME NEW q \in Requests, q # u, Arrive(q) \/ Continue(q) \/ Fail(q)
       PROVE  requests'[u] = requests[u]
  BY <1>10
     DEF Arrive, CreateBlock, LoadForEdit, LoadForDelete, LoadForMove, Begin,
         Continue, InsertBlock, SaveEdit, SaveMove, Save, ParentExists, WalkUp,
         Circular, NoChildren, NotThreadState, Goto, DeleteBlock, Fail, Done,
         TreeTypeOK
<1>11. CASE (\E b \in ThreadBlocks : ThreadTakesBlock(b)) \/ UNCHANGED vars
  BY <1>1, <1>11 DEF ThreadTakesBlock, vars
<1>. QED BY <1>1, <1>4, <1>9, <1>10, <1>11 DEF TreeNext

(***************************************************************************)
(* The forest.                                                             *)
(***************************************************************************)
(* A row that nobody points to, or whose parent stays as it is, can be        *)
(* written: the other members of a set closed upwards would be closed too.    *)
LEMMA WriteLeaf ==
  ASSUME TreeTypeOK, ReferencesHold, Acyclic,
         NEW b \in Blocks, ~Live(b), NEW p, MayPointTo(p),
         parent' = [parent EXCEPT ![b] = p], UNCHANGED stateOf
  PROVE  Acyclic'
<1> SUFFICES ASSUME NEW S \in SUBSET LiveBlocks', S # {},
                    \A c \in S : parent'[c] \in S
             PROVE  FALSE
  BY DEF Acyclic
<1>1. LiveBlocks' = LiveBlocks \union {b} BY WriteKeepsReferences
<1>2. /\ b \notin LiveBlocks /\ parent'[b] = p
      /\ \A c \in LiveBlocks : parent'[c] = parent[c]
  BY DEF LiveBlocks, TreeTypeOK
<1>3. \A c \in S \ {b} : parent[c] \in S \ {b}
  BY <1>1, <1>2, BlocksAssumption DEF ReferencesHold, MayPointTo
<1>4. S \ {b} = {} BY <1>1, <1>3 DEF Acyclic
<1>5. p = b BY <1>2, <1>4
<1>. QED BY <1>2, <1>5, BlocksAssumption DEF MayPointTo

(* A move below ancestors that were all read, are as they were read, and are  *)
(* other blocks, makes no cycle: one would contain a set of them closed       *)
(* upwards.                                                                   *)
LEMMA WriteMove ==
  ASSUME TreeTypeOK, ReferencesHold, Acyclic, NEW q \in Requests,
         WalkOK(q), HasBlock(q), requests[q].pc = "move", ~WalkIsOld(q),
         MayPointTo(requests[q].to), UNCHANGED stateOf,
         parent' = [parent EXCEPT ![requests[q].block] = requests[q].to]
  PROVE  Acyclic'
<1> DEFINE b == requests[q].block
           p == requests[q].to
           V == {c \in LiveBlocks : Read(q, c)}
<1> SUFFICES ASSUME NEW S \in SUBSET LiveBlocks', S # {},
                    \A c \in S : parent'[c] \in S
             PROVE  FALSE
  BY DEF Acyclic
<1>1. b \in Blocks BY DEF HasBlock
<1>2. LiveBlocks' = LiveBlocks \union {b} BY <1>1, WriteKeepsReferences
<1>3. \A c \in Blocks : parent'[c] = IF c = b THEN p ELSE parent[c]
  BY <1>1 DEF TreeTypeOK
<1>4. b \notin V BY DEF WalkOK, Read
<1>5. \A c \in V : parent[c] \in LiveBlocks => parent[c] \in V
  <2> SUFFICES ASSUME NEW c \in V, parent[c] \in LiveBlocks
               PROVE  Read(q, parent[c])
    OBVIOUS
  <2>1. PICK e \in requests[q].walk : e[1] = c BY DEF Read
  <2>2. parent[c] = e[2] BY <2>1 DEF WalkIsOld, LiveBlocks
  <2>. QED BY <2>1, <2>2 DEF WalkOK, LiveBlocks
<1>6. \A c \in S \intersect LiveBlocks : c # b => parent[c] \in LiveBlocks
  <2> SUFFICES ASSUME NEW c \in S \intersect LiveBlocks, c # b
               PROVE  parent[c] \in LiveBlocks
    OBVIOUS
  <2>1. parent[c] \in S BY <1>3 DEF LiveBlocks
  <2>2. parent[c] # Root BY <1>2, <2>1, <1>1, BlocksAssumption DEF LiveBlocks
  <2>. QED BY <2>2 DEF ReferencesHold, MayPointTo
<1>7. S \intersect V = {}
  <2>1. \A c \in S \intersect V : parent[c] \in S \intersect V
    BY <1>3, <1>4, <1>5, <1>6 DEF LiveBlocks
  <2>2. S \intersect V \in SUBSET LiveBlocks OBVIOUS
  <2>. QED BY <2>1, <2>2 DEF Acyclic
<1>8. b \notin S
  <2> SUFFICES ASSUME b \in S PROVE FALSE OBVIOUS
  <2>1. p \in S BY <1>1, <1>3
  <2>2. p \in LiveBlocks
    BY <1>1, <1>2, <2>1, BlocksAssumption DEF MayPointTo, LiveBlocks
  <2>3. Read(q, p) BY <2>2, BlocksAssumption DEF WalkOK, LiveBlocks
  <2>. QED BY <1>7, <2>1, <2>2, <2>3
<1>9. S \in SUBSET LiveBlocks /\ \A c \in S : parent[c] \in S
  BY <1>2, <1>3, <1>8 DEF LiveBlocks
<1>. QED BY <1>9 DEF Acyclic

(* Only an overtaken save makes a cycle.                                      *)
LEMMA ForestStep == TreeInv /\ [TreeNext]_vars => ForestUnlessOvertaken'
<1> SUFFICES ASSUME TreeInv, [TreeNext]_vars, ~overtaken' PROVE Acyclic'
  BY DEF ForestUnlessOvertaken
<1>1. overtaken' = FALSE => ~overtaken
  BY DEF TreeInv, TreeTypeOK, TreeNext, Arrive, CreateBlock, LoadForEdit,
         LoadForDelete, LoadForMove, Begin, Continue, InsertBlock, SaveEdit,
         SaveMove, ParentExists, WalkUp, Circular, NoChildren, NotThreadState,
         Goto, DeleteBlock, Fail, ThreadTakesBlock, vars
<1>2. Acyclic BY <1>1 DEF TreeInv, ForestUnlessOvertaken
<1> USE DEF TreeInv
<1>3. ASSUME UNCHANGED parent PROVE Acyclic'
  BY <1>2, <1>3 DEF Acyclic, LiveBlocks, Live
<1>4. ASSUME NEW q \in Requests, NEW b \in Blocks, InsertBlock(q, b)
      PROVE  Acyclic'
  BY <1>2, <1>4, WriteLeaf DEF InsertBlock, Live
<1>5. ASSUME NEW q \in Requests, SaveEdit(q) PROVE Acyclic'
  <2>1. requests[q].block \in Blocks BY <1>5 DEF SaveEdit, HasBlock
  <2>2. CASE Live(requests[q].block)
    <3>1. parent[requests[q].block] = requests[q].to
      BY <1>5, <2>2 DEF SaveEdit, CopyIsOld
    <3>2. parent' = parent
      BY <1>5, <2>1, <3>1 DEF SaveEdit, Save, TreeTypeOK
    <3>. QED BY <1>3, <3>2
  <2>3. CASE ~Live(requests[q].block)
    BY <1>2, <1>5, <2>1, <2>3, WriteLeaf DEF SaveEdit, Save
  <2>. QED BY <2>2, <2>3
<1>6. ASSUME NEW q \in Requests, SaveMove(q) PROVE Acyclic'
  BY <1>2, <1>6, WriteMove DEF SaveMove, Save
<1>7. ASSUME NEW q \in Requests, DeleteBlock(q) PROVE Acyclic'
  <2>1. /\ LiveBlocks' \subseteq LiveBlocks
        /\ \A c \in LiveBlocks' : parent'[c] = parent[c]
    BY <1>7, BlocksAssumption DEF DeleteBlock, LiveBlocks, Live, TreeTypeOK
  <2>. QED BY <1>2, <2>1 DEF Acyclic
<1>8. ASSUME NEW q \in Requests,
             \/ Arrive(q) \/ ParentExists(q) \/ WalkUp(q) \/ Circular(q)
             \/ NoChildren(q) \/ NotThreadState(q) \/ Fail(q)
      PROVE  UNCHANGED parent
  BY <1>8 DEF Arrive, CreateBlock, LoadForEdit, LoadForDelete, LoadForMove,
              Begin, ParentExists, WalkUp, Circular, NoChildren,
              NotThreadState, Goto, Fail
<1>9. CASE (\E b \in ThreadBlocks : ThreadTakesBlock(b)) \/ UNCHANGED vars
  BY <1>3, <1>9 DEF ThreadTakesBlock, vars
<1>. QED
  BY <1>3, <1>4, <1>5, <1>6, <1>7, <1>8, <1>9 DEF TreeNext, Continue

(***************************************************************************)
(* What is shown.                                                          *)
(***************************************************************************)
(* Every set of natural numbers has a least element: the induction used below *)
(* is on the least counterexample.                                            *)
LEMMA LeastNumber ==
  ASSUME NEW T \in SUBSET Nat, T # {}
  PROVE  \E n \in T : n = 0 \/ n - 1 \in Nat \ T
<1> DEFINE R == OpToRel(<, Nat)
<1>1. IsWellFoundedOn(R, Nat)
  BY NatLessThanWellFounded
<1>2. ASSUME NEW x \in Nat, NEW y \in Nat, y < x PROVE <<y, x>> \in R
  BY <1>2, Zenon DEF OpToRel
<1> HIDE DEF R
<1>3. PICK x \in T : \A y \in T : <<y, x>> \notin R
  BY <1>1, WFMin
<1>4. CASE x # 0
  <2>1. x \in Nat /\ x - 1 \in Nat /\ x - 1 < x
    BY <1>4
  <2>. QED
    BY <1>2, <1>3, <2>1
<1>. QED
  BY <1>3, <1>4

Level(f, n) == IF n = 0 THEN Tops ELSE WithChildren(f[n - 1])

(* The recursion of ShownTo has a solution: the first n + 1 levels can be     *)
(* written down for each n.                                                   *)
LEMMA ShownToDefined ==
  \A n \in 0 .. Cardinality(Blocks) :
    ShownTo[n] = IF n = 0 THEN Tops ELSE WithChildren(ShownTo[n - 1])
<1> DEFINE N == Cardinality(Blocks)
           Levels(n) == {f \in [0 .. n -> SUBSET LiveBlocks] :
                           \A m \in 0 .. n : f[m] = Level(f, m)}
           T == {n \in Nat : Levels(n) = {}}
<1>1. N \in Nat
  BY BlocksAssumption, FS_CardinalityType
<1>2. T = {}
  <2> SUFFICES ASSUME T # {} PROVE FALSE
    OBVIOUS
  <2>1. PICK n \in T : n = 0 \/ n - 1 \in Nat \ T
    BY LeastNumber
  <2>2. CASE n = 0
    <3>1. [m \in 0 .. 0 |-> Tops] \in Levels(0)
      BY DEF Level, Tops
    <3>. QED
      BY <2>1, <2>2, <3>1
  <2>3. CASE n # 0
    <3>1. PICK g \in Levels(n - 1) : TRUE
      BY <2>1, <2>3
    <3>2. n \in Nat /\ n - 1 \in 0 .. (n - 1)
      BY <2>1, <2>3
    <3> DEFINE f == [m \in 0 .. n |-> IF m = n THEN WithChildren(g[n - 1]) ELSE g[m]]
    <3>3. f \in [0 .. n -> SUBSET LiveBlocks]
      <4>1. ASSUME NEW m \in 0 .. n, m # n PROVE g[m] \in SUBSET LiveBlocks
        BY <3>1, <3>2, <4>1
      <4>2. WithChildren(g[n - 1]) \in SUBSET LiveBlocks
        BY <3>1, <3>2 DEF WithChildren
      <4>. QED
        BY <4>1, <4>2
    <3>4. ASSUME NEW m \in 0 .. n PROVE f[m] = Level(f, m)
      <4>1. CASE m = n
        <5>1. f[n] = WithChildren(g[n - 1]) /\ f[n - 1] = g[n - 1]
          BY <3>2
        <5>. QED
          BY <2>3, <4>1, <5>1 DEF Level
      <4>2. CASE m # n
        <5>1. m \in 0 .. (n - 1) /\ (m # 0 => m - 1 \in 0 .. n /\ m - 1 # n)
          BY <3>2, <4>2
        <5>2. f[m] = g[m] /\ (m # 0 => f[m - 1] = g[m - 1])
          BY <4>2, <5>1
        <5>3. g[m] = Level(g, m)
          BY <3>1, <5>1
        <5>. QED
          BY <5>2, <5>3 DEF Level
      <4>. QED
        BY <4>1, <4>2
    <3> HIDE DEF f
    <3>5. f \in Levels(n)
      BY <3>3, <3>4
    <3>. QED
      BY <2>1, <3>5
  <2>. QED
    BY <2>2, <2>3
<1>3. PICK f \in Levels(N) : TRUE
  BY <1>1, <1>2
<1>4. f = [n \in 0 .. N |-> Level(f, n)]
  BY <1>3
<1> HIDE DEF N
<1>5. ShownTo = [n \in 0 .. N |-> IF n = 0 THEN Tops ELSE WithChildren(ShownTo[n - 1])]
  BY <1>4, Zenon DEF ShownTo, N, Level
<1>. QED
  BY <1>5 DEF N

(* In a forest each level adds a block until none is missing.                 *)
LEMMA ForestIsShown ==
  ASSUME Acyclic
  PROVE  Shown = LiveBlocks
<1> DEFINE N == Cardinality(Blocks)
           Progress(n) ==
             /\ Tops \subseteq ShownTo[n] /\ ShownTo[n] \subseteq LiveBlocks
             /\ ShownTo[n] = LiveBlocks \/ n <= Cardinality(ShownTo[n])
           T == {n \in 0 .. N : ~Progress(n)}
<1>1. N \in Nat /\ IsFiniteSet(Blocks) /\ IsFiniteSet(LiveBlocks)
      /\ Cardinality(LiveBlocks) <= N
  BY BlocksAssumption, FS_CardinalityType, FS_Subset DEF LiveBlocks
<1>2. \A S \in SUBSET LiveBlocks : IsFiniteSet(S) /\ Cardinality(S) \in Nat
  BY <1>1, FS_Subset, FS_CardinalityType
<1>3. Progress(0)
  <2>1. ShownTo[0] = Tops
    BY <1>1, ShownToDefined
  <2>. QED
    BY <1>2, <2>1 DEF Tops
<1>4. ASSUME NEW n \in 1 .. N, Progress(n - 1) PROVE Progress(n)
  <2> DEFINE A == ShownTo[n - 1]
             B == ShownTo[n]
  <2>1. B = WithChildren(A)
    BY <1>1, ShownToDefined
  <2>2. A \subseteq B /\ B \subseteq LiveBlocks /\ Tops \subseteq B
    BY <1>4, <2>1 DEF WithChildren
  <2>3. CASE A = LiveBlocks
    BY <2>2, <2>3
  <2>4. CASE A # LiveBlocks
    <3>1. PICK b \in LiveBlocks \ A : parent[b] \notin LiveBlocks \ A
      BY <1>4, <2>4 DEF Acyclic
    <3>2. parent[b] \in LiveBlocks
      BY <1>4, <3>1 DEF Tops
    <3>3. b \in B
      BY <2>1, <3>1, <3>2 DEF WithChildren
    <3>4. Cardinality(A \union {b}) = Cardinality(A) + 1
      BY <1>2, <1>4, <3>1, FS_AddElement
    <3>5. Cardinality(A \union {b}) <= Cardinality(B)
      BY <1>2, <2>2, <3>3, FS_Subset
    <3>6. n - 1 <= Cardinality(A) /\ Cardinality(A) \in Nat /\ Cardinality(B) \in Nat
      BY <1>2, <1>4, <2>2, <2>4
    <3>. QED
      BY <2>2, <3>4, <3>5, <3>6
  <2>. QED
    BY <2>3, <2>4
<1>5. T = {}
  <2> HIDE DEF Progress
  <2> SUFFICES ASSUME T # {} PROVE FALSE
    OBVIOUS
  <2>1. PICK n \in T : n = 0 \/ n - 1 \in Nat \ T
    <3>1. T \in SUBSET Nat
      BY <1>1
    <3> HIDE DEF T
    <3>. QED
      BY <3>1, LeastNumber
  <2>. QED
    BY <1>1, <1>3, <1>4, <2>1
<1>6. Progress(N)
  BY <1>1, <1>5
<1>7. CASE N <= Cardinality(ShownTo[N])
  <2>1. Cardinality(ShownTo[N]) = Cardinality(LiveBlocks)
    BY <1>1, <1>2, <1>6, <1>7, FS_Subset, FS_CardinalityType
  <2>. QED
    BY <1>1, <1>6, <2>1, FS_Subset DEF Shown
<1>. QED
  BY <1>6, <1>7 DEF Shown

(***************************************************************************)
(* The length of a walk.                                                   *)
(***************************************************************************)
(* A walk has read no row twice, and only a move walks.                       *)
OneReadPerRow ==
  \A q \in Requests :
    /\ \A d, e \in requests[q].walk : d[1] = e[1] => d = e
    /\ requests[q].walk # {} => requests[q].pc \in {"walk", "move"}

LEMMA OneReadStep ==
  ASSUME TreeTypeOK, OneReadPerRow, [TreeNext]_vars
  PROVE  OneReadPerRow'
<1> SUFFICES ASSUME NEW u \in Requests
             PROVE  /\ \A d, e \in requests'[u].walk : d[1] = e[1] => d = e
                    /\ requests'[u].walk # {} => requests'[u].pc \in {"walk", "move"}
  BY DEF OneReadPerRow
<1>1. CASE requests'[u] = requests[u] \/ requests'[u].walk = {}
  BY <1>1 DEF OneReadPerRow
<1>2. CASE WalkUp(u)
  <2> DEFINE x == requests[u].at
             new == <<x, parent[x]>>
  <2>1. /\ requests'[u].walk = requests[u].walk \union {new}
        /\ requests'[u].pc \in {"walk", "move"}
    BY <1>2 DEF WalkUp, TreeTypeOK, Request
  <2>2. \A e \in requests[u].walk : e[1] # x
    BY <1>2 DEF WalkUp, Visited
  <2>3. new[1] = x
    OBVIOUS
  <2> HIDE DEF new
  <2>. QED
    BY <2>1, <2>2, <2>3 DEF OneReadPerRow
<1>3. ASSUME NEW q \in Requests, Arrive(q) \/ Continue(q) \/ Fail(q), ~WalkUp(u)
      PROVE  requests'[u] = requests[u] \/ requests'[u].walk = {}
  <2>1. CASE Arrive(q)
    BY <2>1 DEF Arrive, CreateBlock, LoadForEdit, LoadForDelete, LoadForMove,
                Begin, TreeTypeOK, Idle
  <2>2. CASE /\ requests[q].pc \notin {"walk", "move"}
             /\ \/ \E b \in Blocks : InsertBlock(q, b)
                \/ ParentExists(q) \/ NoChildren(q) \/ NotThreadState(q)
    <3>1. requests[q].walk = {}
      BY <2>2 DEF OneReadPerRow
    <3>. QED
      BY <2>2, <3>1
         DEF InsertBlock, ParentExists, NoChildren, NotThreadState, Goto, Done,
             TreeTypeOK, Request, Idle
  <2>3. CASE SaveEdit(q) \/ Circular(q) \/ SaveMove(q) \/ DeleteBlock(q) \/ Fail(q)
    BY <2>3 DEF SaveEdit, Circular, SaveMove, Save, DeleteBlock, Fail, Done,
                TreeTypeOK, Idle
  <2>4. CASE WalkUp(q)
    BY <1>3, <2>4 DEF WalkUp, TreeTypeOK
  <2>. QED
    BY <1>3, <2>1, <2>2, <2>3, <2>4
       DEF Continue, InsertBlock, ParentExists, NoChildren, NotThreadState
<1>4. CASE (\E b \in ThreadBlocks : ThreadTakesBlock(b)) \/ UNCHANGED vars
  BY <1>1, <1>4 DEF ThreadTakesBlock, vars
<1>. QED
  BY <1>1, <1>2, <1>3, <1>4 DEF TreeNext

(* The rows read are as many as the entries, and none is the block's own.     *)
LEMMA WalkBound ==
  ASSUME TreeInv, OneReadPerRow
  PROVE  WalksAreShort
<1> SUFFICES ASSUME NEW q \in Requests
             PROVE  Cardinality(requests[q].walk)
                      <= Cardinality(Blocks \ {requests[q].block})
  BY DEF WalksAreShort
<1> DEFINE W == requests[q].walk
           others == Blocks \ {requests[q].block}
           row == [e \in W |-> e[1]]
<1>1. \A e \in W : e[1] \in others
  <2>1. requests[q] \in Request
    BY DEF TreeInv, TreeTypeOK
  <2>2. \A e \in W : e[1] \in Blocks
    BY <2>1 DEF Request
  <2>. QED
    BY <2>2 DEF TreeInv, WalkOK, OneReadPerRow
<1>2. row \in [W -> others]
  BY <1>1
<1>3. \A d, e \in W : row[d] = row[e] => d = e
  BY DEF OneReadPerRow
<1>4. row \in Injection(W, others)
  BY <1>2, <1>3 DEF Injection, IsInjective
<1>5. IsFiniteSet(others)
  BY BlocksAssumption, FS_RemoveElement
<1>. QED
  BY <1>4, <1>5, FS_Injection

(* TreeInv holds at the start and through every step.                         *)
THEOREM TreeInvariance == TreeSpec => []TreeInv
<1>1. TreeInit => TreeInv
  <2> SUFFICES ASSUME TreeInit PROVE TreeInv OBVIOUS
  <2>1. Idle \in Request BY DEF Idle, Request
  <2>2. TreeTypeOK BY <2>1 DEF TreeInit, TreeTypeOK
  <2>3. LiveBlocks = {} BY DEF TreeInit, LiveBlocks, Live
  <2>4. ReferencesHold BY <2>3 DEF TreeInit, ReferencesHold
  <2>5. \A q \in Requests : WalkOK(q) /\ HasBlock(q)
    BY DEF TreeInit, WalkOK, HasBlock, Idle
  <2>6. ForestUnlessOvertaken BY <2>3 DEF ForestUnlessOvertaken, Acyclic
  <2>. QED BY <2>2, <2>4, <2>5, <2>6 DEF TreeInv
<1>2. TreeInv /\ [TreeNext]_vars => TreeInv'
  BY TypeStep, ReferencesStep, WalkStep, ForestStep DEF TreeInv
<1>. QED BY <1>1, <1>2, PTL DEF TreeSpec

(* The variables keep their types, and no walk goes past the top: what        *)
(* validateNoCircularReference looks up is always the id of a block.          *)
THEOREM TreeTypeCorrect == TreeSpec => []TreeTypeOK
<1>1. TreeInv => TreeTypeOK BY DEF TreeInv
<1>. QED BY <1>1, TreeInvariance, PTL

(* No block is left below a deleted one, and no thread without its state,     *)
(* however the checks of deleteBlock and the inserts interleave.              *)
THEOREM ReferencesAlwaysHold == TreeSpec => []ReferencesHold
<1>1. TreeInv => ReferencesHold BY DEF TreeInv
<1>. QED BY <1>1, TreeInvariance, PTL

(* For any number of blocks and concurrent requests, the row-by-row           *)
(* validation lets no cycle through unless a save was overtaken.              *)
THEOREM CyclesNeedAnOvertakenSave == TreeSpec => []ForestUnlessOvertaken
<1>1. TreeInv => ForestUnlessOvertaken BY DEF TreeInv
<1>. QED BY <1>1, TreeInvariance, PTL

(* As long as no save was overtaken, every block is in the tree and in the    *)
(* export, whatever was moved, deleted and created at once.                   *)
THEOREM BlocksAreShown == TreeSpec => []EveryBlockIsShown
<1>1. TreeInv => EveryBlockIsShown
  BY ForestIsShown DEF TreeInv, ForestUnlessOvertaken, EveryBlockIsShown
<1>. QED BY <1>1, TreeInvariance, PTL

(* A walk asks for no row twice and not for its own block's: once per other   *)
(* block at most, though the rows move under it and may form a cycle.         *)
THEOREM WalksStayShort == TreeSpec => []WalksAreShort
<1>1. TreeInit => OneReadPerRow
  BY DEF TreeInit, OneReadPerRow, Idle
<1>2. TreeInv /\ OneReadPerRow /\ [TreeNext]_vars => OneReadPerRow'
  BY OneReadStep DEF TreeInv
<1>. QED
  BY <1>1, <1>2, TreeInvariance, WalkBound, PTL DEF TreeSpec
=============================================================================
