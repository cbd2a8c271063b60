-------------------------- MODULE MCIntegrityCheck --------------------------
(***************************************************************************)
(* Small instances of the check: one fine that the domain can read, one    *)
(* that it cannot, and a few checks while they are registered and updated. *)
(***************************************************************************)
EXTENDS IntegrityCheck

CONSTANTS wallet, zero, plate, street, speeding, driver, cid, photo

OneAddress == {wallet}

MCText == {Empty, plate, street, speeding, driver, cid}

MCBlanks      == {Empty}
MCPlates      == {plate}
MCPlaces      == {street}
MCInfractions == {speeding}
MCCids        == {cid}
MCCidOf       == [f \in {photo} |-> cid]
MCNormal      == [t \in MCText |-> t]

Call(ownerId) ==
  [plateNumber |-> plate, evidenceCID |-> cid, location |-> street,
   infractionType |-> speeding, cost |-> 1, ownerIdentifier |-> ownerId,
   externalSystemId |-> Empty]

(* The contract accepts a fine without an owner, the domain does not.      *)
MCSubmissions == {Call(driver), Call(Empty)}

ReadableSubmission == {Call(driver)}
=============================================================================
