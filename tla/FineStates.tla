----------------------------- MODULE FineStates -----------------------------
(***************************************************************************)
(* The life cycle of a fine as the domain layer defines it: the enum that  *)
(* the contract and the backend share, and the transition table of         *)
(* FineState.canTransitionTo.                                              *)
(***************************************************************************)

FineState == {"PENDING", "PAID", "APPEALED", "RESOLVED_APPEAL", "CANCELLED"}

(* The successors that canTransitionTo lists for each state; CANCELLED has *)
(* none.                                                                   *)
Transitions(s) ==
  CASE s = "PENDING"         -> {"PAID", "APPEALED", "CANCELLED"}
    [] s = "PAID"            -> {"APPEALED"}
    [] s = "APPEALED"        -> {"RESOLVED_APPEAL", "CANCELLED"}
    [] s = "RESOLVED_APPEAL" -> {"PAID", "CANCELLED"}
    [] OTHER                 -> {}

CanTransitionTo(from, to) == to \in Transitions(from)
=============================================================================
