-------------------------- MODULE DebouncedBatches ---------------------------
(***************************************************************************)
(* KeyedDebounceBatchProcessor, which ThreadStateReconcilerService uses to  *)
(* collect the activity of a thread and hand it to a language model in      *)
(* batches: after a pause, one batch per thread at a time.  The callbacks   *)
(* of one JavaScript process interleave: what runs between two awaits is    *)
(* one step.  The items of a key are numbered as they arrive.               *)
(***************************************************************************)
EXTENDS Naturals

CONSTANTS
  Keys,
  MaxItems  \* bound: the items enqueued per key, after which activity stops

ASSUME ItemsAssumption == MaxItems \in Nat

VARIABLES
  enqueued,  \* enqueued[k]: how many items of k arrived
  timers,    \* the keys with a timer
  pending,   \* pending[k]: the items that wait for a batch
  inFlight, rerunRequested, \* the two sets of keys of the same names
  running,   \* running[k]: the batches whose handleBatch has not returned
  disposed,
  handled,   \* history: handled[k], the items of the batches that started
  dropped    \* history: dropped[k], the items that waited at dispose

vars == <<enqueued, timers, pending, inFlight, rerunRequested, running, disposed,
          handled, dropped>>

Init ==
  /\ enqueued = [k \in Keys |-> 0]
  /\ timers = {} /\ inFlight = {} /\ rerunRequested = {}
  /\ pending = [k \in Keys |-> {}]
  /\ running = [k \in Keys |-> {}]
  /\ disposed = FALSE
  /\ handled = [k \in Keys |-> {}] /\ dropped = [k \in Keys |-> {}]

(* enqueue: the item waits and the timer starts again.  The caller awaits a    *)
(* query first, so an item may also arrive after dispose.                     *)
Enqueue(k) ==
  /\ enqueued[k] < MaxItems
  /\ enqueued' = [enqueued EXCEPT ![k] = @ + 1]
  /\ pending' = [pending EXCEPT ![k] = @ \union {enqueued[k] + 1}]
  /\ timers' = timers \union {k}
  /\ UNCHANGED <<inFlight, rerunRequested, running, disposed, handled, dropped>>

(* flush, when a batch of the key is being handled: the timer is spent.        *)
Postpone(k) ==
  /\ k \in timers /\ k \in inFlight
  /\ timers' = timers \ {k}
  /\ rerunRequested' = rerunRequested \union {k}
  /\ UNCHANGED <<enqueued, pending, inFlight, running, disposed, handled, dropped>>

(* What is left of pending[k] once its batch has been taken.                   *)
KeepWaiting(k) == pending[k]
NothingWaits(k) == {}

FreeAnyTime(k) == TRUE
Free(k) == k \notin inFlight

(* flush, when there is none: the waiting items, if any, become a batch.       *)
Flush(k) ==
  /\ k \in timers /\ Free(k)
  /\ timers' = timers \ {k}
  /\ pending' = [pending EXCEPT ![k] = NothingWaits(k)]
  /\ IF pending[k] = {}
       THEN UNCHANGED <<inFlight, running, handled>>
       ELSE /\ inFlight' = inFlight \union {k}
            /\ running' = [running EXCEPT ![k] = @ \union {pending[k]}]
            /\ handled' = [handled EXCEPT ![k] = @ \union pending[k]]
  /\ UNCHANGED <<enqueued, rerunRequested, disposed, dropped>>

(* The key gets a new timer when a batch is over.                              *)
NeverAgain(k) == FALSE
MustRunAgain(k) == k \in rerunRequested \/ pending[k] # {}

(* handleBatch returned, or threw, which is only logged.                       *)
Finish(k, batch) ==
  /\ batch \in running[k]
  /\ running' = [running EXCEPT ![k] = @ \ {batch}]
  /\ inFlight' = inFlight \ {k}
  /\ rerunRequested' = rerunRequested \ {k}
  /\ timers' = IF MustRunAgain(k) THEN timers \union {k} ELSE timers
  /\ UNCHANGED <<enqueued, pending, disposed, handled, dropped>>

(* onModuleDestroy: all is forgotten, except that running batches still run.   *)
Dispose ==
  /\ ~disposed
  /\ disposed' = TRUE
  /\ timers' = {} /\ inFlight' = {} /\ rerunRequested' = {}
  /\ dropped' = pending
  /\ pending' = [k \in Keys |-> {}]
  /\ UNCHANGED <<enqueued, running, handled>>

FinishSome(k) == \E batch \in running[k] : Finish(k, batch)

Next ==
  \/ \E k \in Keys : Enqueue(k) \/ Postpone(k) \/ Flush(k) \/ FinishSome(k)
  \/ Dispose

Spec == Init /\ [][Next]_vars

(* Timers fire, and a batch does not take for ever.                            *)
Fairness ==
  \A k \in Keys : WF_vars(Postpone(k) \/ Flush(k)) /\ WF_vars(FinishSome(k))

FairSpec == Spec /\ Fairness

(***************************************************************************)
(* Properties.                                                             *)
(***************************************************************************)
TypeOK ==
  /\ enqueued \in [Keys -> 0 .. MaxItems]
  /\ timers \subseteq Keys /\ inFlight \subseteq Keys /\ rerunRequested \subseteq Keys
  /\ pending \in [Keys -> SUBSET (1 .. MaxItems)]
  /\ running \in [Keys -> SUBSET SUBSET (1 .. MaxItems)]
  /\ disposed \in BOOLEAN
  /\ handled \in [Keys -> SUBSET (1 .. MaxItems)]
  /\ dropped \in [Keys -> SUBSET (1 .. MaxItems)]

(* Every item that arrived waits, was handed to one batch, or was dropped by   *)
(* dispose, and is never in two of these places: nothing is lost between two   *)
(* batches, handled a second time, or handled after it was dropped.           *)
EachItemOnce ==
  \A k \in Keys :
    /\ pending[k] \union handled[k] \union dropped[k] = 1 .. enqueued[k]
    /\ pending[k] \intersect handled[k] = {}
    /\ (pending[k] \union handled[k]) \intersect dropped[k] = {}

(* Until dispose, a key has one batch at a time: the thread's state block is   *)
(* never reconciled twice at once.                                            *)
OneBatchAtATime ==
  ~disposed => \A k \in Keys : \A b, c \in running[k] : b = c

(* An item never waits without something that will come for it: a timer, or a  *)
(* running batch that sets one when it ends.                                  *)
NothingStranded ==
  \A k \in Keys : pending[k] # {} => k \in timers \/ running[k] # {}

(* Batches start in the order of arrival: whatever a new batch holds arrived    *)
(* after everything handed over before it, although each item reset the timer. *)
InOrder ==
  [][\A k \in Keys : \A batch \in running'[k] \ running[k] :
       \A x \in batch, y \in handled[k] : y < x]_vars

(* Once activity pauses, what was enqueued reaches a batch, or the processor   *)
(* is disposed of.                                                            *)
EveryItemHandled ==
  \A k \in Keys, x \in 1 .. MaxItems :
    x \in pending[k] ~> x \in handled[k] \union dropped[k]

(* The processor keeps the promise of BatchLog: timers, marks and reruns only   *)
(* decide when the next batch of all that waits is taken.                     *)
Log == INSTANCE BatchLog WITH
  arrived <- enqueued,
  settled <- [k \in Keys |-> handled[k] \union dropped[k]],
  busy <- running,
  closed <- disposed

ImplementsLog == Log!Spec
=============================================================================
