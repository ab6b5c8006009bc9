----------------------- MODULE DebouncedBatchesProofs ------------------------
(***************************************************************************)
(* Proofs about DebouncedBatches, for any keys and any number of items.     *)
(***************************************************************************)
EXTENDS DebouncedBatches, TLAPS

(* What is handed over arrived before what still waits.                       *)
HandledFirst ==
  \A k \in Keys : \A x \in handled[k], y \in pending[k] : x < y

(* The in-flight mark stands for a batch, and until dispose it is exact.       *)
MarksAreBatches ==
  \A k \in Keys :
    /\ k \in inFlight => running[k] # {}
    /\ ~disposed => (running[k] # {} => k \in inFlight)

NothingDroppedYet == ~disposed => \A k \in Keys : dropped[k] = {}

IInv ==
  /\ TypeOK
  /\ EachItemOnce
  /\ OneBatchAtATime
  /\ NothingStranded
  /\ HandledFirst
  /\ MarksAreBatches
  /\ NothingDroppedYet

(* The initial state, in which nothing has arrived, satisfies the invariant.   *)
LEMMA InitInv == Init => IInv
<1> SUFFICES ASSUME Init PROVE IInv
  OBVIOUS
<1>1. TypeOK
  <2>1. enqueued \in [Keys -> 0 .. MaxItems]
    BY ItemsAssumption DEF Init
  <2>2. pending \in [Keys -> SUBSET (1 .. MaxItems)]
    BY DEF Init
  <2>3. running \in [Keys -> SUBSET SUBSET (1 .. MaxItems)]
    BY DEF Init
  <2>4. handled \in [Keys -> SUBSET (1 .. MaxItems)]
    BY DEF Init
  <2>5. dropped \in [Keys -> SUBSET (1 .. MaxItems)]
    BY DEF Init
  <2> QED
    BY <2>1, <2>2, <2>3, <2>4, <2>5 DEF Init, TypeOK
<1>2. EachItemOnce
  <2> SUFFICES ASSUME NEW k \in Keys
               PROVE  /\ pending[k] \union handled[k] \union dropped[k] = 1 .. enqueued[k]
                      /\ pending[k] \intersect handled[k] = {}
                      /\ (pending[k] \union handled[k]) \intersect dropped[k] = {}
    BY DEF EachItemOnce
  <2>1. enqueued[k] = 0 /\ pending[k] = {} /\ handled[k] = {} /\ dropped[k] = {}
    BY DEF Init
  <2>2. 1 .. 0 = {}
    OBVIOUS
  <2> QED
    BY <2>1, <2>2
<1>3. OneBatchAtATime /\ NothingStranded /\ HandledFirst
  BY DEF Init, OneBatchAtATime, NothingStranded, HandledFirst
<1>4. MarksAreBatches /\ NothingDroppedYet
  BY DEF Init, MarksAreBatches, NothingDroppedYet
<1> QED
  BY <1>1, <1>2, <1>3, <1>4 DEF IInv

(* Enqueue preserves the invariant: the item is the largest one so far.        *)
LEMMA EnqueueInv ==
  ASSUME IInv, NEW k \in Keys, Enqueue(k)
  PROVE  IInv'
<1> USE ItemsAssumption DEF IInv, TypeOK, Enqueue
<1>1. TypeOK'
  OBVIOUS
<1>2. EachItemOnce'
  BY DEF EachItemOnce
<1>3. HandledFirst'
  BY DEF HandledFirst, EachItemOnce
<1>4. NothingStranded'
  BY DEF NothingStranded
<1>5. OneBatchAtATime' /\ MarksAreBatches' /\ NothingDroppedYet'
  BY DEF OneBatchAtATime, MarksAreBatches, NothingDroppedYet
<1> QED
  BY <1>1, <1>2, <1>3, <1>4, <1>5

(* A flush that finds a batch under way preserves the invariant: that batch    *)
(* will come for the items.                                                   *)
LEMMA PostponeInv ==
  ASSUME IInv, NEW k \in Keys, Postpone(k)
  PROVE  IInv'
<1> USE DEF IInv, TypeOK, Postpone
<1>1. TypeOK'
  OBVIOUS
<1>2. NothingStranded'
  BY DEF NothingStranded, MarksAreBatches
<1>3. EachItemOnce' /\ HandledFirst' /\ OneBatchAtATime' /\ MarksAreBatches'
      /\ NothingDroppedYet'
  BY DEF EachItemOnce, HandledFirst, OneBatchAtATime, MarksAreBatches,
         NothingDroppedYet
<1> QED
  BY <1>1, <1>2, <1>3

(* A flush that starts a batch preserves the invariant: there was no other     *)
(* one, since the key was not in flight.                                      *)
LEMMA FlushInv ==
  ASSUME IInv, NEW k \in Keys, Flush(k)
  PROVE  IInv'
<1> USE DEF IInv, TypeOK, Flush, Free, NothingWaits
<1>1. CASE pending[k] = {}
  <2>1. TypeOK' /\ MarksAreBatches' /\ NothingDroppedYet'
    BY <1>1 DEF MarksAreBatches, NothingDroppedYet
  <2>2. EachItemOnce' /\ HandledFirst' /\ OneBatchAtATime'
    BY <1>1 DEF EachItemOnce, HandledFirst, OneBatchAtATime
  <2>3. NothingStranded'
    BY <1>1 DEF NothingStranded
  <2> QED
    BY <2>1, <2>2, <2>3
<1>2. CASE pending[k] # {}
  <2>1. TypeOK'
    BY <1>2
  <2>2. EachItemOnce'
    BY <1>2 DEF EachItemOnce
  <2>3. HandledFirst' /\ NothingStranded' /\ NothingDroppedYet'
    BY <1>2 DEF HandledFirst, NothingStranded, NothingDroppedYet
  <2>4. OneBatchAtATime'
    BY <1>2 DEF OneBatchAtATime, MarksAreBatches
  <2>5. MarksAreBatches'
    BY <1>2 DEF MarksAreBatches
  <2> QED
    BY <2>1, <2>2, <2>3, <2>4, <2>5
<1> QED
  BY <1>1, <1>2

(* The end of a batch preserves the invariant: what waits gets a timer.        *)
LEMMA FinishInv ==
  ASSUME IInv, NEW k \in Keys, NEW batch \in running[k], Finish(k, batch)
  PROVE  IInv'
<1> USE DEF IInv, TypeOK, Finish, MustRunAgain
<1>1. TypeOK'
  OBVIOUS
<1>2. NothingStranded'
  BY DEF NothingStranded
<1>3. OneBatchAtATime' /\ MarksAreBatches'
  BY DEF OneBatchAtATime, MarksAreBatches
<1>4. EachItemOnce' /\ HandledFirst' /\ NothingDroppedYet'
  BY DEF EachItemOnce, HandledFirst, NothingDroppedYet
<1> QED
  BY <1>1, <1>2, <1>3, <1>4

(* Dispose preserves the invariant: what waited is dropped.                    *)
LEMMA DisposeInv ==
  ASSUME IInv, Dispose
  PROVE  IInv'
<1> USE DEF IInv, TypeOK, Dispose
<1>1. TypeOK'
  OBVIOUS
<1>2. EachItemOnce'
  BY DEF EachItemOnce, NothingDroppedYet
<1>3. HandledFirst' /\ NothingStranded' /\ NothingDroppedYet'
      /\ OneBatchAtATime' /\ MarksAreBatches'
  BY DEF HandledFirst, NothingStranded, NothingDroppedYet, OneBatchAtATime,
         MarksAreBatches
<1> QED
  BY <1>1, <1>2, <1>3

(* Every step of the processor preserves the invariant.                        *)
LEMMA NextInv ==
  ASSUME IInv, [Next]_vars
  PROVE  IInv'
<1>1. CASE \E k \in Keys : Enqueue(k) \/ Postpone(k) \/ Flush(k) \/ FinishSome(k)
  <2>1. PICK k \in Keys : Enqueue(k) \/ Postpone(k) \/ Flush(k) \/ FinishSome(k)
    BY <1>1
  <2>2. CASE FinishSome(k)
    BY <2>2, FinishInv DEF FinishSome
  <2> QED
    BY <2>1, <2>2, EnqueueInv, PostponeInv, FlushInv
<1>2. CASE Dispose
  BY <1>2, DisposeInv
<1>3. CASE UNCHANGED vars
  BY <1>3 DEF vars, IInv, TypeOK, EachItemOnce, OneBatchAtATime, NothingStranded,
     HandledFirst, MarksAreBatches, NothingDroppedYet
<1> QED
  BY <1>1, <1>2, <1>3 DEF Next

(* The inductive invariant holds in every reachable state.                     *)
THEOREM Invariance == Spec => []IInv
  BY InitInv, NextInv, PTL DEF Spec

(* No item is lost, handled twice, or handled after dispose dropped it.        *)
THEOREM ItemsHandledOnce == Spec => []EachItemOnce
<1>1. IInv => EachItemOnce
  BY DEF IInv
<1> QED
  BY <1>1, Invariance, PTL

(* Until dispose, the batches of a key never overlap.                          *)
THEOREM BatchesDoNotOverlap == Spec => []OneBatchAtATime
<1>1. IInv => OneBatchAtATime
  BY DEF IInv
<1> QED
  BY <1>1, Invariance, PTL

(* Whatever waits has a timer or a running batch that will set one.            *)
THEOREM WaitingIsComeFor == Spec => []NothingStranded
<1>1. IInv => NothingStranded
  BY DEF IInv
<1> QED
  BY <1>1, Invariance, PTL

(* Batches start in the order in which their items arrived.                    *)
THEOREM BatchesInOrder == Spec => InOrder
<1> DEFINE Ordered ==
      \A k \in Keys : \A batch \in running'[k] \ running[k] :
        \A x \in batch, y \in handled[k] : y < x
<1>1. ASSUME IInv, [Next]_vars
      PROVE  [Ordered]_vars
  <2> SUFFICES ASSUME NEW k \in Keys, NEW batch \in running'[k] \ running[k],
                      NEW x \in batch, NEW y \in handled[k],
                      Next
               PROVE  y < x
    BY <1>1 DEF vars
  <2>1. PICK j \in Keys : Flush(j)
    BY <1>1 DEF Next, Enqueue, Postpone, FinishSome, Finish, Dispose, IInv, TypeOK
  <2>2. batch = pending[k]
    BY <1>1, <2>1 DEF Flush, IInv, TypeOK
  <2> QED
    BY <1>1, <2>2 DEF IInv, HandledFirst
<1> QED
  BY <1>1, Invariance, PTL DEF Spec, InOrder

(* What waits is what is outstanding in the log.                              *)
LEMMA WaitingIsOutstanding ==
  ASSUME IInv, NEW k \in Keys
  PROVE  Log!Outstanding(k) = pending[k]
BY DEF IInv, EachItemOnce, Log!Outstanding

(* A flush with something to hand over takes all that is outstanding.         *)
LEMMA FlushTakes ==
  ASSUME IInv, NEW k \in Keys, Flush(k), pending[k] # {}
  PROVE  Log!Take(k)
<1>1. Log!Outstanding(k) = pending[k]
  BY WaitingIsOutstanding
<1>2. running[k] = {} \/ disposed
  BY DEF Flush, Free, IInv, MarksAreBatches
<1>3. running' = [running EXCEPT ![k] = @ \union {pending[k]}]
      /\ handled' = [handled EXCEPT ![k] = @ \union pending[k]]
      /\ UNCHANGED <<enqueued, dropped, disposed>>
  BY DEF Flush
<1>4. [i \in Keys |-> handled[i] \union dropped[i]]'
        = [[i \in Keys |-> handled[i] \union dropped[i]] EXCEPT ![k] = 1 .. enqueued[k]]
  BY <1>3 DEF IInv, TypeOK, EachItemOnce
<1>. QED
  BY <1>1, <1>2, <1>3, <1>4 DEF Log!Take

(* What waits at dispose is given up.                                        *)
LEMMA DisposeCloses ==
  ASSUME IInv, Dispose
  PROVE  Log!Close
<1>1. [k \in Keys |-> handled[k] \union dropped[k]]' = [k \in Keys |-> 1 .. enqueued[k]]
  BY DEF Dispose, IInv, TypeOK, EachItemOnce, NothingDroppedYet
<1>. QED
  BY <1>1 DEF Dispose, Log!Close

(* Every step is a step of the log, or changes nothing of it.                 *)
LEMMA StepIsLogStep ==
  ASSUME IInv, [Next]_vars
  PROVE  [Log!Next]_(Log!logVars)
<1>1. ASSUME NEW k \in Keys, Enqueue(k) PROVE Log!Next
  BY <1>1 DEF Enqueue, Log!Next, Log!Arrive
<1>2. ASSUME NEW k \in Keys, Postpone(k) PROVE UNCHANGED Log!logVars
  BY <1>2 DEF Postpone, Log!logVars
<1>3. ASSUME NEW k \in Keys, Flush(k) PROVE [Log!Next]_(Log!logVars)
  <2>1. CASE pending[k] = {}
    BY <1>3, <2>1 DEF Flush, Log!logVars
  <2>2. CASE pending[k] # {}
    BY <1>3, <2>2, FlushTakes DEF Log!Next
  <2>. QED
    BY <2>1, <2>2
<1>4. ASSUME NEW k \in Keys, FinishSome(k) PROVE Log!Next
  <2>1. Log!Return(k)
    BY <1>4 DEF FinishSome, Finish, Log!Return
  <2>. QED
    BY <2>1 DEF Log!Next
<1>5. CASE Dispose
  BY <1>5, DisposeCloses DEF Log!Next
<1>6. CASE UNCHANGED vars
  BY <1>6 DEF vars, Log!logVars
<1>. QED
  BY <1>1, <1>2, <1>3, <1>4, <1>5, <1>6 DEF Next

(* Timers, marks and reruns implement the log of each key: a batch takes all  *)
(* that arrived and was not handed over or given up, and starts when the last  *)
(* one is over.                                                              *)
THEOREM ProcessorImplementsLog == Spec => ImplementsLog
<1>1. Init => Log!Init
  BY DEF Init, Log!Init
<1>2. IInv /\ [Next]_vars => [Log!Next]_(Log!logVars)
  BY StepIsLogStep
<1>. QED
  BY <1>1, <1>2, Invariance, PTL DEF Spec, Log!Spec, ImplementsLog
=============================================================================
