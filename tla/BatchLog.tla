------------------------------ MODULE BatchLog ------------------------------
(***************************************************************************)
(* What the batch processor promises about the items of a key, with no timer *)
(* and no mark: the items are a log, a batch takes all of the log that is    *)
(* not settled yet, and until the processor is closed the next batch starts  *)
(* when the last one is over.  DebouncedBatches is shown to implement this   *)
(* specification.                                                          *)
(***************************************************************************)
EXTENDS Naturals

CONSTANT Keys

VARIABLES
  arrived,  \* arrived[k]: the length of the log of k
  settled,  \* settled[k]: its items that were handed over, or given up
  busy,     \* busy[k]: the batches being handled
  closed

logVars == <<arrived, settled, busy, closed>>

Init ==
  /\ arrived = [k \in Keys |-> 0]
  /\ settled = [k \in Keys |-> {}]
  /\ busy = [k \in Keys |-> {}]
  /\ closed = FALSE

Outstanding(k) == (1 .. arrived[k]) \ settled[k]

Arrive(k) ==
  /\ arrived' = [arrived EXCEPT ![k] = @ + 1]
  /\ UNCHANGED <<settled, busy, closed>>

Take(k) ==
  /\ Outstanding(k) # {}
  /\ busy[k] = {} \/ closed
  /\ busy' = [busy EXCEPT ![k] = @ \union {Outstanding(k)}]
  /\ settled' = [settled EXCEPT ![k] = 1 .. arrived[k]]
  /\ UNCHANGED <<arrived, closed>>

Return(k) ==
  /\ \E batch \in busy[k] : busy' = [busy EXCEPT ![k] = @ \ {batch}]
  /\ UNCHANGED <<arrived, settled, closed>>

(* What nobody took is given up, in the logs of all keys.                     *)
Close ==
  /\ ~closed
  /\ closed' = TRUE
  /\ settled' = [k \in Keys |-> 1 .. arrived[k]]
  /\ UNCHANGED <<arrived, busy>>

Next == Close \/ \E k \in Keys : Arrive(k) \/ Take(k) \/ Return(k)

Spec == Init /\ [][Next]_logVars
=============================================================================
