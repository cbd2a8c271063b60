--------------------------- MODULE FineManagement ---------------------------
(***************************************************************************)
(* The smart contract FineManagement.sol: an append-only register of       *)
(* traffic fines on an EVM chain, with the rights of OpenZeppelin's        *)
(* Ownable and a set of operators.                                         *)
(*                                                                         *)
(* A transaction is atomic.  One that fails a require() is reverted and    *)
(* changes nothing, so it is not a step of this module; the conditions it  *)
(* is reverted on are the guards of the action.                            *)
(***************************************************************************)
EXTENDS Naturals, FiniteSets, SequencesExt, FineStates

CONSTANTS
  Address,       \* the accounts that send transactions
  NoAddress,     \* address(0)
  Deployer,      \* the account that ran the constructor
  Text,          \* the strings a call may carry
  Empty,         \* the empty string
  Submissions,   \* the arguments registerFine is called with
  MaxFines,      \* bound: number of fines ever registered
  MaxUpdates,    \* bound: length of one fine's history
  MaxBlock       \* bound: number of blocks mined

(* The fields of a fine that are fixed by the call that registers it.      *)
Submission ==
  [plateNumber: Text, evidenceCID: Text, location: Text,
   infractionType: Text, cost: Nat, ownerIdentifier: Text,
   externalSystemId: Text]

ASSUME AddressAssumption == Deployer \in Address /\ NoAddress \notin Address
ASSUME TextAssumption    == Empty \in Text /\ Submissions \subseteq Submission
ASSUME BoundsAssumption  == MaxFines \in Nat /\ MaxUpdates \in Nat
                            /\ MaxBlock \in Nat

VARIABLES
  owner,              \* Ownable's _owner
  operators,          \* the addresses mapped to true
  fineIds,            \* _fineIds, the number of the last fine
  fines,              \* id -> Fine, the zero struct where there is none
  fineStatusHistory,  \* id -> FineStatusUpdate[]
  finesByPlate,       \* plate number -> ids
  finesByOwner,       \* owner identifier -> ids
  block               \* height of the block being built

(* Timestamps strictly increase with the height of a block, so the height  *)
(* stands for block.timestamp as well as for block.number.                 *)

registerVars == <<fineIds, fines, fineStatusHistory, finesByPlate,
                  finesByOwner>>
vars == <<owner, operators, registerVars, block>>

FineIds == 1 .. MaxFines

Fine ==
  [id: Nat, plateNumber: Text, evidenceCID: Text, location: Text,
   timestamp: Nat, infractionType: Text, cost: Nat, ownerIdentifier: Text,
   currentState: FineState, registeredBy: Address \cup {NoAddress},
   externalSystemId: Text]

FineStatusUpdate ==
  [lastUpdatedTimestamp: Nat, oldState: FineState, newState: FineState,
   updatedBy: Address]

(* What a Solidity mapping holds at a key that was never written.          *)
ZeroFine ==
  [id |-> 0, plateNumber |-> Empty, evidenceCID |-> Empty,
   location |-> Empty, timestamp |-> 0, infractionType |-> Empty,
   cost |-> 0, ownerIdentifier |-> Empty, currentState |-> "PENDING",
   registeredBy |-> NoAddress, externalSystemId |-> Empty]

TypeOK ==
  /\ owner \in Address \cup {NoAddress}
  /\ operators \in SUBSET Address
  /\ fineIds \in 0 .. MaxFines
  /\ fines \in [FineIds -> Fine]
  /\ fineStatusHistory \in [FineIds -> Seq(FineStatusUpdate)]
  /\ finesByPlate \in [Text -> Seq(FineIds)]
  /\ finesByOwner \in [Text -> Seq(FineIds)]
  /\ block \in 0 .. MaxBlock

-----------------------------------------------------------------------------
(* Who may call what.                                                      *)

(* Faulty: the modifier is missing.                                        *)
onlyOperatorMissing(sender) == TRUE

onlyOperator(sender) == sender \in operators \/ sender = owner

onlyOwner(sender) == sender = owner

-----------------------------------------------------------------------------
(* registerFine.                                                           *)

(* The five require() that follow the modifier.                            *)
Registrable(s) ==
  /\ \A f \in {"plateNumber", "evidenceCID", "location", "infractionType"} :
        s[f] # Empty
  /\ s.cost > 0

(* Faulty: the counter is read before it is incremented.                   *)
newFineIdStale == fineIds

newFineId == fineIds + 1

(* Faulty: the number in the struct is the one before, or the owner is     *)
(* taken from another argument.                                            *)
FineOfStaleId(id, s, sender, time) ==
  [id |-> id - 1, plateNumber |-> s.plateNumber, evidenceCID |-> s.evidenceCID,
   location |-> s.location, timestamp |-> time,
   infractionType |-> s.infractionType, cost |-> s.cost,
   ownerIdentifier |-> s.ownerIdentifier, currentState |-> "PENDING",
   registeredBy |-> sender, externalSystemId |-> s.externalSystemId]

FineOfWrongOwner(id, s, sender, time) ==
  [id |-> id, plateNumber |-> s.plateNumber, evidenceCID |-> s.evidenceCID,
   location |-> s.location, timestamp |-> time,
   infractionType |-> s.infractionType, cost |-> s.cost,
   ownerIdentifier |-> s.externalSystemId, currentState |-> "PENDING",
   registeredBy |-> sender, externalSystemId |-> s.externalSystemId]

FineOf(id, s, sender, time) ==
  [id |-> id, plateNumber |-> s.plateNumber, evidenceCID |-> s.evidenceCID,
   location |-> s.location, timestamp |-> time,
   infractionType |-> s.infractionType, cost |-> s.cost,
   ownerIdentifier |-> s.ownerIdentifier, currentState |-> "PENDING",
   registeredBy |-> sender, externalSystemId |-> s.externalSystemId]

(* Faulty: the old state is read after the new one was written, or the     *)
(* time is left at its default.                                            *)
StatusUpdateAfterWrite(old, new, sender) ==
  [lastUpdatedTimestamp |-> block, oldState |-> new, newState |-> new,
   updatedBy |-> sender]

StatusUpdateUntimed(old, new, sender) ==
  [lastUpdatedTimestamp |-> 0, oldState |-> old, newState |-> new,
   updatedBy |-> sender]

StatusUpdate(old, new, sender) ==
  [lastUpdatedTimestamp |-> block, oldState |-> old, newState |-> new,
   updatedBy |-> sender]

registerFine(sender, s) ==
  /\ onlyOperator(sender)
  /\ Registrable(s)
  /\ newFineId <= MaxFines
  /\ fineIds' = newFineId
  /\ fines' = [fines EXCEPT ![newFineId] = FineOf(newFineId, s, sender, block)]
  /\ finesByPlate' =
       [finesByPlate EXCEPT ![s.plateNumber] = Append(@, newFineId)]
  /\ finesByOwner' =
       [finesByOwner EXCEPT ![s.ownerIdentifier] = Append(@, newFineId)]
  /\ fineStatusHistory' =
       [fineStatusHistory EXCEPT
          ![newFineId] = Append(@, StatusUpdate("PENDING", "PENDING", sender))]
  /\ UNCHANGED <<owner, operators, block>>

-----------------------------------------------------------------------------
(* updateFineStatus.  The contract has no transition table: any state but  *)
(* the current one is accepted.                                            *)

Exists(id) == fines[id].id # 0

(* Faulty: the check that the state is a new one is dropped.               *)
UpdatableAnyState(id, newState) == Exists(id)

Updatable(id, newState) ==
  /\ Exists(id)
  /\ fines[id].currentState # newState

(* Faulty: the update also refreshes the fine's own timestamp.             *)
updateFineStatusRestamping(sender, id, newState) ==
  /\ onlyOperator(sender)
  /\ Updatable(id, newState)
  /\ Len(fineStatusHistory[id]) < MaxUpdates
  /\ fines' = [fines EXCEPT ![id].currentState = newState,
                            ![id].timestamp = block]
  /\ fineStatusHistory' =
       [fineStatusHistory EXCEPT
          ![id] = Append(@, StatusUpdate(fines[id].currentState, newState,
                                         sender))]
  /\ UNCHANGED <<owner, operators, fineIds, finesByPlate, finesByOwner, block>>

updateFineStatus(sender, id, newState) ==
  /\ onlyOperator(sender)
  /\ Updatable(id, newState)
  /\ Len(fineStatusHistory[id]) < MaxUpdates
  /\ fines' = [fines EXCEPT ![id].currentState = newState]
  /\ fineStatusHistory' =
       [fineStatusHistory EXCEPT
          ![id] = Append(@, StatusUpdate(fines[id].currentState, newState,
                                         sender))]
  /\ UNCHANGED <<owner, operators, fineIds, finesByPlate, finesByOwner, block>>
-----------------------------------------------------------------------------
(* Administration.                                                         *)

addOperator(sender, a) ==
  /\ onlyOwner(sender)
  /\ operators' = operators \cup {a}
  /\ UNCHANGED <<owner, registerVars, block>>

removeOperator(sender, a) ==
  /\ onlyOwner(sender)
  /\ operators' = operators \ {a}
  /\ UNCHANGED <<owner, registerVars, block>>

(* Inherited from Ownable: the successor must not be address(0), and the   *)
(* register of operators is left alone.                                    *)
transferOwnership(sender, a) ==
  /\ onlyOwner(sender)
  /\ owner' = a
  /\ UNCHANGED <<operators, registerVars, block>>

renounceOwnership(sender) ==
  /\ onlyOwner(sender)
  /\ owner' = NoAddress
  /\ UNCHANGED <<operators, registerVars, block>>

(* The chain starts a new block; several transactions may share one.       *)
MineBlock ==
  /\ block < MaxBlock
  /\ block' = block + 1
  /\ UNCHANGED <<owner, operators, registerVars>>

-----------------------------------------------------------------------------
(* The views.                                                              *)

Least(m, n) == IF m <= n THEN m ELSE n

(* The bounds both paginated views compute: the 0-based start, and the end *)
(* clipped to the total.  Page 0 underflows and reverts.                   *)
(* Faulty: pages counted from 0.                                           *)
startIndexFromZero(page, size) == page * size

startIndex(page, size) == (page - 1) * size

endIndex(page, size, total) == Least(startIndex(page, size) + size, total)

Page(f, total, page, size) ==
  IF startIndex(page, size) >= total
  THEN <<>>
  ELSE [i \in 1 .. (endIndex(page, size, total) - startIndex(page, size)) |->
          f[startIndex(page, size) + i]]

getPaginatedFines(page, size) == Page(fines, fineIds, page, size)

getFineStatusHistory(id, page, size) ==
  Page(fineStatusHistory[id], Len(fineStatusHistory[id]), page, size)

getAllFineCount == fineIds

(* Whatever the names say, the block and the timestamp are those of the    *)
(* block in which the view is called, not of the registration.             *)
getFineRegistrationDetails(id) ==
  [timestamp |-> block, statusHistoryLength |-> Len(fineStatusHistory[id]),
   registeredBy |-> fines[id].registeredBy]

-----------------------------------------------------------------------------

Init ==
  /\ owner = Deployer
  /\ operators = {Deployer}
  /\ fineIds = 0
  /\ fines = [id \in FineIds |-> ZeroFine]
  /\ fineStatusHistory = [id \in FineIds |-> <<>>]
  /\ finesByPlate = [p \in Text |-> <<>>]
  /\ finesByOwner = [o \in Text |-> <<>>]
  /\ block = 0

Next ==
  \/ \E sender \in Address :
        \/ \E s \in Submissions : registerFine(sender, s)
        \/ \E id \in FineIds, st \in FineState :
              updateFineStatus(sender, id, st)
        \/ \E a \in Address : addOperator(sender, a)
        \/ \E a \in Address : removeOperator(sender, a)
        \/ \E a \in Address : transferOwnership(sender, a)
        \/ renounceOwnership(sender)
  \/ MineBlock

Spec == Init /\ [][Next]_vars

-----------------------------------------------------------------------------
(* Safety.                                                                 *)

(* Numbers are dense: a fine exists exactly for the numbers handed out so  *)
(* far and carries its own number, and no storage was written beyond them  *)
(* (registerFine increments the counter before it writes).                 *)
IdsAreDense ==
  \A id \in FineIds :
     IF id <= fineIds
     THEN fines[id].id = id
     ELSE fines[id] = ZeroFine /\ fineStatusHistory[id] = <<>>

(* The history of one fine accounts for its current state: it begins with  *)
(* the registration, every later entry leaves the state that the one       *)
(* before it entered, and the last one entered the current state.          *)
Accounts(h, state) ==
  /\ h # <<>>
  /\ h[1].oldState = "PENDING" /\ h[1].newState = "PENDING"
  /\ \A k \in 2 .. Len(h) : /\ h[k].oldState = h[k-1].newState
                            /\ h[k].newState # h[k].oldState
  /\ h[Len(h)].newState = state

(* Every fine's history accounts for the state stored beside it: the two   *)
(* are separate storage that registerFine and updateFineStatus must keep   *)
(* in step.                                                                *)
HistoryExplainsState ==
  \A id \in FineIds :
     Exists(id) => Accounts(fineStatusHistory[id], fines[id].currentState)

(* Histories are in the order of time, from the fine's registration up to  *)
(* the block being built; entries of one block share a timestamp.          *)
HistoryInTimeOrder ==
  \A id \in FineIds : LET h == fineStatusHistory[id] IN
     /\ Exists(id) => h[1].lastUpdatedTimestamp = fines[id].timestamp
     /\ \A k \in DOMAIN h :
          /\ h[k].lastUpdatedTimestamp <= block
          /\ k > 1 => h[k-1].lastUpdatedTimestamp <= h[k].lastUpdatedTimestamp

(* A list of numbers is the index of a set of fines: all of them, once     *)
(* each, oldest first.                                                     *)
IsIndex(list, ids) ==
  /\ \A i, j \in DOMAIN list : i < j => list[i] < list[j]
  /\ {list[i] : i \in DOMAIN list} = ids

(* The lookups by plate and by owner return exactly the fines of that      *)
(* plate or owner, although the arrays are filled by registerFine and      *)
(* never derived from the fines.                                           *)
IndicesExact ==
  \A t \in Text :
     /\ IsIndex(finesByPlate[t],
                {id \in FineIds : Exists(id) /\ fines[id].plateNumber = t})
     /\ IsIndex(finesByOwner[t],
                {id \in FineIds : Exists(id) /\ fines[id].ownerIdentifier = t})

(* Reading the pages one after the other, past the last one, yields every  *)
(* fine once and in order, whatever the size of a page, and likewise for a *)
(* history.                                                                *)
PagesTile ==
  \A size \in 1 .. MaxFines :
     /\ FlattenSeq([p \in 1 .. MaxFines + 1 |-> getPaginatedFines(p, size)])
          = [id \in 1 .. fineIds |-> fines[id]]
     /\ \A id \in FineIds :
          FlattenSeq([p \in 1 .. MaxUpdates + 1 |->
                        getFineStatusHistory(id, p, size)])
            = fineStatusHistory[id]

-----------------------------------------------------------------------------
(* What a step may never do.                                               *)

(* All that a fine holds besides its state.                                *)
Metadata(fine) == [fine EXCEPT !.currentState = "PENDING"]

(* Requirement IM-001 of the contract's tests: once a fine is registered,  *)
(* no call alters anything but its state, and none removes it.             *)
MetadataImmutable ==
  [][\A id \in FineIds :
        Exists(id) => Metadata(fines'[id]) = Metadata(fines[id])]_vars

(* A fine changes only together with one new entry at the end of its       *)
(* history, which tells the truth about the change and names a sender who  *)
(* held the right to make it at that moment.                               *)
EveryChangeIsSigned ==
  [][\A id \in FineIds :
        fines'[id] # fines[id] \/ fineStatusHistory'[id] # fineStatusHistory[id]
        => \E sender \in Address :
             /\ sender \in operators \/ sender = owner
             /\ fineStatusHistory'[id] =
                  Append(fineStatusHistory[id],
                         [lastUpdatedTimestamp |-> block,
                          oldState |-> fines[id].currentState,
                          newState |-> fines'[id].currentState,
                          updatedBy |-> sender])]_vars

-----------------------------------------------------------------------------
(* The contract implements the abstract register.                          *)

RegisteredFines ==
  {FineOf(id, s, a, t) : id \in FineIds, s \in Submissions, a \in Address,
                         t \in 0 .. MaxBlock}

(* An entry of the book: a fine as it was registered, and the states that  *)
(* its history entered.                                                    *)
EntryOf(fine, history) ==
  [facts |-> Metadata(fine),
   log   |-> [k \in 1 .. Len(history) |-> history[k].newState]]

bookOfFines ==
  [id \in 1 .. fineIds |-> EntryOf(fines[id], fineStatusHistory[id])]

Ledger == INSTANCE FineLedger
            WITH book <- bookOfFines, Facts <- RegisteredFines,
                 States <- FineState

(* Every call is a step of the abstract register or leaves it alone.       *)
ImplementsLedger == Ledger!Spec
=============================================================================
