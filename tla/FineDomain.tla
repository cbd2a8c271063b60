----------------------------- MODULE FineDomain -----------------------------
(***************************************************************************)
(* What the domain layer accepts: the value objects that a fine is built   *)
(* from and the rules of the entity Fine.  A string is a member of Text;   *)
(* of each format only the set of strings that satisfy it matters.         *)
(***************************************************************************)
EXTENDS Naturals, FineStates

CONSTANTS
  Text,          \* the strings a call may carry
  Empty,         \* the empty string
  Blanks,        \* the strings that trim() to nothing
  Plates,        \* the strings that match PLATE_REGEX
  Places,        \* the addresses that Location accepts
  Infractions,   \* the values of InfractionTypeEnum
  Cids,          \* the strings in the format of an IPFS CID
  Normal,        \* string -> the string in upper case, blanks underscored
  CidOf,         \* evidence file -> the CID that IPFS computes from it
  MaxCost        \* Cost.MAX_COST

ASSUME TextsAssumption ==
  /\ Empty \in Blanks \cap Text
  /\ Plates \subseteq Text \ Blanks
  /\ Places \subseteq Text \ Blanks
  /\ Infractions \subseteq Text \ Blanks
  /\ Normal \in [Text -> Text] /\ \A t \in Text : Normal[Normal[t]] = Normal[t]
  /\ Cids \subseteq Text \ Blanks
  /\ CidOf \in [DOMAIN CidOf -> Cids]
  /\ MaxCost \in Nat

-----------------------------------------------------------------------------
(* The value objects that can be created.                                  *)

IsPlateNumber(text) == Normal[text] \in Plates

IsLocation(text) == text \in Places

IsInfractionType(text) == Normal[text] \in Infractions

IsEvidenceCID(text) == text \in Cids

(* A cost is sent as a decimal number, counted here in halves of a peso;   *)
(* Math.round rounds a half up.                                            *)
Rounded(halves) == (halves + 1) \div 2

IsCost(pesos) == pesos <= MaxCost

WellFormed(plate, place, infraction, cost) ==
  /\ IsPlateNumber(plate)
  /\ IsLocation(place)
  /\ IsInfractionType(infraction)
  /\ IsCost(cost)

(* What the backend's clock may show while the time of the chain is time.  *)
(* The two are not synchronised: a node that mines on demand gives every   *)
(* block a later time than the one before, so that a burst of transactions *)
(* takes the chain ahead of the clock, and a clock can be set back.  That  *)
(* the clock is ahead of the chain needs no case of its own: a block       *)
(* without transactions brings the chain up to it.                         *)
Clock(time) == 0 .. time

(* The rules that the constructor of the entity adds.  A timestamp must    *)
(* not be in the future of the clock, which shows now.                     *)
BusinessRules(ownerIdentifier, registeredBy, timestamp, now) ==
  /\ ownerIdentifier \notin Blanks
  /\ registeredBy \notin Blanks
  /\ timestamp <= now

(* FineMapper.toDomain accepts a fine that comes back from the contract,   *)
(* with the time of the block that registered it, when the clock shows now.*)
Readable(fine, now) ==
  /\ WellFormed(fine.plateNumber, fine.location, fine.infractionType,
                fine.cost)
  /\ IsEvidenceCID(fine.evidenceCID)
  /\ BusinessRules(fine.ownerIdentifier, fine.registeredBy, fine.timestamp, now)
=============================================================================
