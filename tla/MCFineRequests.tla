--------------------------- MODULE MCFineRequests ---------------------------
(***************************************************************************)
(* Small instances of the backend: a few POST and PUT requests, bodies     *)
(* that each layer rejects, and evidence files that two clients share.     *)
(***************************************************************************)
EXTENDS FineRequests, TLC

CONSTANTS wallet, zero, plate, lowerPlate, street, speeding, driver, blank,
          cid, photo

OneAddress == {wallet}

MCText == {Empty, plate, lowerPlate, street, speeding, driver, blank, cid}

MCBlanks      == {Empty, blank}
MCPlates      == {plate}
MCPlaces      == {street}
MCInfractions == {speeding}
MCCids        == {cid}
MCCidOf       == [f \in {photo} |-> cid]

(* Upper case of a plate; the other strings are in upper case already.     *)
MCNormal == [t \in MCText |-> IF t = lowerPlate THEN plate ELSE t]

Post(file, plateText, cost, ownerId) ==
  [file |-> file, plateNumber |-> plateText, location |-> street,
   infractionType |-> speeding, cost |-> cost, ownerIdentifier |-> ownerId,
   registeredBy |-> driver, externalSystemId |-> Empty]

Good == Post(photo, lowerPlate, 1, driver)

(* Rejected by the contract, by the entity after the upload, by a value    *)
(* object, and by the controller.                                          *)
MCBodies ==
  {Good, Post(photo, plate, 0, driver), Post(photo, plate, 2, blank),
   Post(photo, plate, 5, driver), Post(NoFile, plate, 2, driver)}

GoodBodies == {Good}

Put(id, st) == [fineId |-> id, newState |-> st]

MCChanges ==
  {Put(1, "PAID"), Put(1, "APPEALED"), Put(1, "CANCELLED"), Put(2, "PAID"),
   Put(1, NoState)}

(* Enough for an appeal, its resolution and a race.                        *)
AppealChanges ==
  {Put(1, "PAID"), Put(1, "APPEALED"), Put(1, "RESOLVED_APPEAL")}

Interchangeable == Permutations(RegisterReqs) \cup Permutations(UpdateReqs)
=============================================================================
