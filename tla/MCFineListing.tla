---------------------------- MODULE MCFineListing ----------------------------
(***************************************************************************)
(* Small instances of the listing: one client, a few fines, pages of one   *)
(* or two; costs at the maximum, where the late fee does not fit, and one  *)
(* below, where it does.                                                   *)
(***************************************************************************)
EXTENDS FineListing

CONSTANTS wallet, zero, plate, street, speeding, driver, cid, photo

OneAddress == {wallet}

MCText == {Empty, plate, street, speeding, driver, cid}

MCBlanks      == {Empty}
MCPlates      == {plate}
MCPlaces      == {street}
MCInfractions == {speeding}
MCCids        == {cid}
MCCidOf       == [f \in {photo} |-> cid]
MCNormal      == [t \in MCText |-> t]

Call(cost, ownerId) ==
  [plateNumber |-> plate, evidenceCID |-> cid, location |-> street,
   infractionType |-> speeding, cost |-> cost, ownerIdentifier |-> ownerId,
   externalSystemId |-> Empty]

(* The contract accepts a fine without an owner, the domain does not.      *)
MCSubmissions == {Call(MaxCost, driver), Call(1, Empty)}

PaidOnly == {"PAID"}

ReadableSubmissions == {Call(MaxCost, driver), Call(MaxCost - 1, driver)}
=============================================================================
