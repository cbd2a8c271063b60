-------------------------- MODULE MCFineManagement --------------------------
(***************************************************************************)
(* Small instances of the contract: an account that deploys and, in the    *)
(* run about rights, a second one; two plates and two owners; five calls   *)
(* of registerFine, two of which are rejected by a require().              *)
(***************************************************************************)
EXTENDS FineManagement

CONSTANTS deployer, agent, zero, plateA, plateB, cid, street, speeding, driver

OneAddress == {deployer}

TwoAddresses == {deployer, agent}

MCText == {Empty, plateA, plateB, cid, street, speeding, driver}

Call(plate, evidence, cost, ownerId) ==
  [plateNumber |-> plate, evidenceCID |-> evidence, location |-> street,
   infractionType |-> speeding, cost |-> cost, ownerIdentifier |-> ownerId,
   externalSystemId |-> Empty]

(* The third has no owner, which the contract accepts; the fourth has no   *)
(* evidence and the fifth costs nothing.                                   *)
MCSubmissions ==
  {Call(plateA, cid, 1, driver), Call(plateB, cid, 1, driver),
   Call(plateA, cid, 1, Empty), Call(plateA, Empty, 1, driver),
   Call(plateB, cid, 0, driver)}

OneSubmission == {Call(plateA, cid, 1, driver)}
=============================================================================
