----------------------------- MODULE MCHybridSync -----------------------------
(***************************************************************************)
(* A small instance of the synchronisation: a registration that may be     *)
(* tried twice, an update of the same fine, an appeal and a cancellation,  *)
(* and rounds that overlap.                                                *)
(***************************************************************************)
EXTENDS HybridSync

CONSTANTS wallet, clerk, zero, plate, street, speeding, one, other, cid,
          register, update, appeal, cancel

MCAddress == {wallet, clerk}

MCText == {Empty, plate, street, speeding, one, other, cid}

MCOps == {register, update, appeal, cancel}

(* Appeals and cancellations never reach the contract.                     *)
MCMixes == {{register, update}, {appeal, cancel}}

MCKind ==
  [op \in MCOps |-> CASE op = register -> "REGISTER"
                      [] op = update   -> "UPDATE_STATUS"
                      [] op = appeal   -> "APPEAL"
                      [] op = cancel   -> "CANCEL"]

MCFineId == [op \in MCOps |-> 1]

MCMaxRetries == [op \in MCOps |-> IF op = register THEN 1 ELSE 0]

MCIdText == [n \in {1} |-> one]

MCInternalFine ==
  [id |-> one, plateNumber |-> plate, evidenceCID |-> cid,
   location |-> street, infractionType |-> speeding, cost |-> 1,
   currentState |-> "PENDING"]

(* A fine of another agent in another place, which may come to hold the    *)
(* number 1.                                                               *)
MCOtherFines ==
  {[plateNumber |-> plate, evidenceCID |-> cid, location |-> other,
    infractionType |-> speeding, cost |-> 1, ownerIdentifier |-> other,
    externalSystemId |-> Empty]}

PaidOnly == {"PAID"}
=============================================================================
