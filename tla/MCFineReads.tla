----------------------------- MODULE MCFineReads -----------------------------
(***************************************************************************)
(* A small instance of the requests that read: one client, two plates, one *)
(* of them also typed in lower case, fines that the domain cannot show;    *)
(* two files in IPFS.                                                      *)
(***************************************************************************)
EXTENDS FineReads

CONSTANTS wallet, zero, plate, lowerPlate, otherPlate, street, speeding,
          driver, cid, otherCid, photo

OneAddress == {wallet}

MCText == {Empty, plate, lowerPlate, otherPlate, street, speeding, driver, cid,
           otherCid}

MCBlanks      == {Empty}
MCPlates      == {plate, otherPlate}
MCPlaces      == {street}
MCInfractions == {speeding}
MCCids        == {cid, otherCid}
MCCidOf       == [f \in {photo} |-> cid]

(* Upper case of a plate; the other strings are in upper case already.     *)
MCNormal == [t \in MCText |-> IF t = lowerPlate THEN plate ELSE t]

Call(plateText, cost, ownerId) ==
  [plateNumber |-> plateText, evidenceCID |-> cid, location |-> street,
   infractionType |-> speeding, cost |-> cost, ownerIdentifier |-> ownerId,
   externalSystemId |-> Empty]

(* The contract accepts a fine without an owner, the domain does not; a    *)
(* fine at the maximum cost cannot be shown once it is overdue.            *)
MCSubmissions ==
  {Call(plate, MaxCost, driver), Call(otherPlate, 1, Empty)}

PaidOnly == {"PAID"}

(* One file in three pieces, and an empty one.                             *)
MCFiles == [f \in {cid, otherCid} |-> IF f = cid THEN 3 ELSE 0]

Numbered(kind, id) == [kind |-> kind, id |-> id, text |-> Empty]
Named(kind, text) == [kind |-> kind, id |-> 0, text |-> text]

MCLookups ==
  {Numbered("fine", 0), Numbered("fine", 1), Numbered("legacyFine", 0),
   Numbered("legacyFine", 1), Numbered("publicFine", 2),
   Named("plate", lowerPlate), Named("plate", driver),
   Named("legacyPlate", plate), Named("citizen", plate),
   Numbered("history", 0), Numbered("history", 1),
   Numbered("legacyHistory", 1), Numbered("activity", 0),
   Numbered("legacyList", 2), Numbered("publicList", 0),
   Numbered("publicHistory", 2), Named("evidence", cid),
   Named("evidence", otherCid), Named("evidence", driver),
   Named("legacyEvidence", cid)}
=============================================================================
