----------------------------- MODULE SyncDelivery -----------------------------
(***************************************************************************)
(* What the synchronisation promises of an operation that is handed to it, *)
(* whatever fails on the way: it is tried a bounded number of times, each  *)
(* try takes effect at most once, perhaps long after it was given up, it   *)
(* is reported as completed only when a try took effect, and as failed     *)
(* only when no try is left.  A process that ends forgets its operations.  *)
(***************************************************************************)
EXTENDS Naturals

CONSTANTS
  Ops,        \* the operations
  Effective,  \* those that leave a trace on the chain
  Limit       \* operation -> how often it may be tried

VARIABLES
  fate,     \* operation -> what has become of it
  tries,    \* operation -> how many tries it was granted
  effects   \* operation -> how many of them took effect

deliveryVars == <<fate, tries, effects>>

DeliveryTypeOK ==
  /\ fate \in [Ops -> {"new", "pending", "completed", "failed", "lost"}]
  /\ tries \in [Ops -> Nat]
  /\ effects \in [Ops -> Nat]

Submit(op) ==
  /\ fate[op] = "new"
  /\ fate' = [fate EXCEPT ![op] = "pending"]
  /\ tries' = [tries EXCEPT ![op] = 1]
  /\ UNCHANGED effects

TakeEffect(op) ==
  /\ effects[op] < tries[op]
  /\ effects' = [effects EXCEPT ![op] = @ + 1]
  /\ UNCHANGED <<fate, tries>>

TryAgain(op) ==
  /\ fate[op] = "pending" /\ tries[op] < Limit[op]
  /\ tries' = [tries EXCEPT ![op] = @ + 1]
  /\ UNCHANGED <<fate, effects>>

Finish(op) ==
  /\ fate[op] = "pending"
  /\ op \in Effective => effects[op] > 0
  /\ fate' = [fate EXCEPT ![op] = "completed"]
  /\ UNCHANGED <<tries, effects>>

Abandon(op) ==
  /\ fate[op] = "pending" /\ tries[op] = Limit[op]
  /\ fate' = [fate EXCEPT ![op] = "failed"]
  /\ UNCHANGED <<tries, effects>>

Forget ==
  /\ fate' = [op \in Ops |-> IF fate[op] = "pending" THEN "lost" ELSE fate[op]]
  /\ UNCHANGED <<tries, effects>>

Init ==
  /\ fate = [op \in Ops |-> "new"]
  /\ tries = [op \in Ops |-> 0]
  /\ effects = [op \in Ops |-> 0]

Next ==
  \/ \E op \in Ops :
        \/ Submit(op)
        \/ TakeEffect(op)
        \/ TryAgain(op)
        \/ Finish(op)
        \/ Abandon(op)
  \/ Forget

Spec == Init /\ [][Next]_deliveryVars
=============================================================================
