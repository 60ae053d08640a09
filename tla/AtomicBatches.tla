--------------------------- MODULE AtomicBatches ---------------------------
(***************************************************************************)
(* What a batch of operations promises when can_fail is off: all of its    *)
(* operations take effect at once, or none ever does, and the answer says  *)
(* which.  The docstring of POST /projects/{project}/operations states it  *)
(* (api/operations/operations.py).                                         *)
(***************************************************************************)
EXTENDS Naturals, Sequences

CONSTANTS
  Batches,   \* requests
  NULL

VARIABLES
  script,    \* the operations of each batch
  applied,   \* the operations whose effects are in the database
  reply      \* the answer to each batch

vars == <<script, applied, reply>>

Whole(b) == {b} \X DOMAIN script[b]

InEffect(b) == Whole(b) \subseteq applied

Init ==
  /\ applied = {}
  /\ reply = [b \in Batches |-> NULL]

\* The operations of a batch are committed; the answer may be sent with them.
Take(b) ==
  /\ reply[b] = NULL
  /\ applied' = applied \cup Whole(b)
  /\ \E r \in {NULL, "ok"} : reply' = [reply EXCEPT ![b] = r]
  /\ UNCHANGED script

\* The answer to a batch in effect.
Confirm(b) ==
  /\ reply[b] = NULL
  /\ InEffect(b)
  /\ reply' = [reply EXCEPT ![b] = "ok"]
  /\ UNCHANGED <<script, applied>>

\* The answer to a batch that has no effect, and will have none.
Refuse(b) ==
  /\ reply[b] = NULL
  /\ applied \cap Whole(b) = {}
  /\ reply' = [reply EXCEPT ![b] = "error"]
  /\ UNCHANGED <<script, applied>>

\* The server dies: the client of a batch learns nothing.
Lose ==
  /\ \E lost \in SUBSET Batches :
       /\ \A b \in lost : reply[b] = NULL
       /\ reply' = [b \in Batches |-> IF b \in lost THEN "lost" ELSE reply[b]]
  /\ UNCHANGED <<script, applied>>

Next ==
  \/ \E b \in Batches : Take(b) \/ Confirm(b) \/ Refuse(b)
  \/ Lose

Spec == Init /\ [][Next]_vars
=============================================================================
