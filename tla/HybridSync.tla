------------------------------ MODULE HybridSync ------------------------------
(***************************************************************************)
(* The synchronisation of the hybrid architecture: operations wait in a    *)
(* queue in memory; a timer starts a round for the first of them, whether  *)
(* or not the rounds before it have ended; a round writes to Hyperledger   *)
(* and then to the contract, through the wallet and the node that          *)
(* FineRequests describes; an operation that fails is queued again.  The   *)
(* services are started in order by ServiceFactory.initializeServices and  *)
(* stopped by shutdownServices, and the process may end at any time.       *)
(*                                                                         *)
(* Hyperledger is simulated by the code itself, which answers every query  *)
(* with the same made-up fine.  The Fabric client is external: in this     *)
(* commit nothing assigns it, and without it the synchronisation never     *)
(* starts.                                                                 *)
(*                                                                         *)
(* The hashes of both services call require(), which the package, an ES    *)
(* module, has where the tests and the development server run it and not   *)
(* where plain node does.  There the call throws.                          *)
(***************************************************************************)
EXTENDS Naturals, Sequences, SequencesExt, FiniteSetsExt, FineStates

CONSTANTS
  Address, NoAddress, Deployer, Text, Empty,   \* as in FineManagement
  MaxFines, MaxUpdates, MaxBlock,
  Wallet,        \* the account of blockchainConfig.privateKey
  Ops, NoOp,     \* the operations handed to the queue; none
  Mixes,         \* which of them are handed over in one run
  Kind,          \* operation -> SyncOperation.operation
  FineId,        \* operation -> the number that its fineId spells
  MaxRetries,    \* operation -> SyncOperation.maxRetries
  IdText,        \* number -> the string that spells it
  InternalFine,  \* the fine that Hyperledger makes up
  OtherFines,    \* what others register on the chain
  OtherStates,   \* the states that others update fines to
  FinesOfOthers, EntriesOfOthers,   \* bounds: how many of each
  MaxRounds,     \* bound: the rounds that run at once
  MaxStarts      \* bound: calls of initializeServices

(* What Hyperledger answers, whichever fine it is asked for.               *)
getInternalFineDetails(n) ==
  [InternalFine EXCEPT !.id = IdText[n]]

(* The fine without what is private.                                       *)
publicMetadata(n) ==
  LET internalFine == getInternalFineDetails(n) IN
  [fineId |-> internalFine.id,
   plateNumber |-> internalFine.plateNumber,
   evidenceHash |-> internalFine.evidenceCID,
   location |-> internalFine.location,
   infractionType |-> internalFine.infractionType,
   cost |-> internalFine.cost]

(* Faulty: two strings of the contract's call are swapped.                 *)
registerPublicFineSwapped(metadata) ==
  [plateNumber |-> metadata.plateNumber,
   evidenceCID |-> metadata.evidenceHash,
   location |-> metadata.infractionType,
   infractionType |-> metadata.location,
   cost |-> metadata.cost,
   ownerIdentifier |-> metadata.fineId, externalSystemId |-> metadata.fineId]

(* The number that Hyperledger knows the fine by goes along as text.       *)
registerPublicFine(metadata) ==
  [plateNumber |-> metadata.plateNumber,
   evidenceCID |-> metadata.evidenceHash,
   location |-> metadata.location,
   infractionType |-> metadata.infractionType,
   cost |-> metadata.cost,
   ownerIdentifier |-> metadata.fineId, externalSystemId |-> metadata.fineId]

PublicFine(n) == registerPublicFine(publicMetadata(n))

Rounds == 1 .. MaxRounds

Numbers == {FineId[op] : op \in Ops}

ASSUME OperationsAssumption ==
  /\ IsFiniteSet(Ops) /\ NoOp \notin Ops /\ Mixes \subseteq SUBSET Ops
  /\ Kind \in [Ops -> {"REGISTER", "UPDATE_STATUS", "APPEAL", "CANCEL"}]
  /\ FineId \in [Ops -> 1 .. MaxFines]
  /\ MaxRetries \in [Ops -> Nat]
  /\ IdText \in [Numbers -> Text \ {Empty}]
  /\ \A m, n \in Numbers : IdText[m] = IdText[n] => m = n
(* The made-up fine is a pending one.                                      *)
ASSUME InternalAssumption ==
  InternalFine \in [id: Text, plateNumber: Text, evidenceCID: Text,
                    location: Text, infractionType: Text, cost: Nat,
                    currentState: {"PENDING"}]
ASSUME AccountsAssumption ==
  /\ {Deployer, Wallet} \subseteq Address /\ Deployer # Wallet
  /\ NoAddress \notin Address
ASSUME OthersAssumption ==
  /\ OtherStates \subseteq FineState \ {"PENDING"}
  /\ \A s \in OtherFines : s.externalSystemId \notin {IdText[n] : n \in Numbers}

(* Every try of an operation finds room on the chain.                      *)
Attempts == MapThenSumSet(LAMBDA op : MaxRetries[op] + 1, Ops)

ASSUME RoomAssumption ==
  /\ MaxFines \in Nat /\ MaxUpdates \in Nat /\ MaxBlock \in Nat
  /\ FinesOfOthers + Attempts <= MaxFines
  /\ EntriesOfOthers + Attempts <= MaxUpdates
  /\ MaxStarts \in Nat /\ MaxRounds \in Nat

VARIABLES
  owner, operators, fineIds, fines, fineStatusHistory, finesByPlate,
  finesByOwner, block,   \* the contract
  slots,       \* the wallet's transactions by nonce: slots[n + 1] has nonce n
  outcome,     \* of those that are mined, in the same order
  setting,     \* what hybridConfig enables, whether there is a Fabric,
               \* whether the runtime defines require(), and the operations
               \* that callers will hand over
  fabricClient,   \* the Fabric client is attached
  up,          \* the services whose isInitialized is set
  boot,        \* the call that initializeServices awaits
  starts,      \* how often it was called
  isRunning,   \* the timer of the synchronisation is set
  syncQueue,   \* the operations that wait
  status,      \* operation -> SyncOperation.status, and NEW, and LOST
  retryCount,  \* operation -> SyncOperation.retryCount
  round,       \* round -> its operation, the call it awaits, and its nonce
  ledger       \* auxiliary: operation -> its updates in Hyperledger

contractVars == <<owner, operators, fineIds, fines, fineStatusHistory,
                  finesByPlate, finesByOwner, block>>
nodeVars == <<slots, outcome>>
serviceVars == <<setting, fabricClient, up, boot, starts, isRunning>>
queueVars == <<syncQueue, status, retryCount>>
vars == <<contractVars, nodeVars, serviceVars, queueVars, round, ledger>>

Chain == INSTANCE FineManagement
           WITH Submissions <- OtherFines \cup {PublicFine(n) : n \in Numbers}

ASSUME FinesAssumption ==
  /\ Empty \in Text
  /\ OtherFines \cup {PublicFine(n) : n \in Numbers} \subseteq Chain!Submission

(* A transaction is known by the try that sent it.                         *)
Try(op) == <<op, retryCount[op]>>

Setting ==
  [enabled: BOOLEAN, fabric: BOOLEAN, ethereum: BOOLEAN, require: BOOLEAN,
   handed: Mixes]

Idle == [op |-> NoOp, at |-> "idle", nonce |-> 0]

TypeOK ==
  /\ Chain!TypeOK
  /\ slots \in Seq(Ops \X Nat)
  /\ outcome \in Seq({"success", "reverted"}) /\ Len(outcome) <= Len(slots)
  /\ setting \in Setting
  /\ fabricClient \in BOOLEAN
  /\ up \subseteq {"hyperledger", "ethereum"}
  /\ boot \in {"idle", "hyperledger", "ethereum", "sync", "node"}
  /\ starts \in 0 .. MaxStarts
  /\ isRunning \in BOOLEAN
  /\ syncQueue \in Seq(Ops)
  /\ status \in [Ops -> {"NEW", "PENDING", "COMPLETED", "FAILED", "LOST"}]
  /\ \A op \in Ops : retryCount[op] \in 0 .. MaxRetries[op]
  /\ round \in [Rounds -> [op: Ops \cup {NoOp}, nonce: Nat,
                           at: {"idle", "nonce", "estimate", "broadcast",
                                "wait", "audit"}]]
  /\ ledger \in [Ops -> Nat]

-----------------------------------------------------------------------------
(* Starting and stopping the services.                                     *)

(* initializeServices begins; IPFS, the first service, may fail.           *)
Boot ==
  /\ boot = "idle" /\ starts < MaxStarts
  /\ starts' = starts + 1
  /\ boot' \in {"idle", "hyperledger"}
  /\ UNCHANGED <<setting, fabricClient, up, isRunning>>

(* Every name that the Hyperledger service needs has a default.            *)
InitHyperledger ==
  /\ boot = "hyperledger"
  /\ up' = up \cup {"hyperledger"}
  /\ boot' = "ethereum"
  /\ UNCHANGED <<setting, fabricClient, starts, isRunning>>

HyperledgerConnected == "hyperledger" \in up /\ fabricClient

(* The node is asked for the number of fines, but the answer plays no      *)
(* part.                                                                   *)
InitEthereum ==
  /\ boot = "ethereum"
  /\ IF setting.ethereum
     THEN up' = up \cup {"ethereum"} /\ boot' = "sync"
     ELSE boot' = "idle" /\ UNCHANGED up
  /\ UNCHANGED <<setting, fabricClient, starts, isRunning>>

(* The synchronisation is off, or Hyperledger is not connected, or it is.  *)
InitSync ==
  /\ boot = "sync"
  /\ boot' \in IF setting.enabled /\ HyperledgerConnected
               THEN {"idle", "node"} ELSE {"idle"}
  /\ UNCHANGED <<setting, fabricClient, up, starts, isRunning>>

(* A timer that is already set is kept.  Nothing but the node is asked, so *)
(* the timer may be set after the services were shut down.                 *)
StartSync ==
  /\ boot = "node"
  /\ boot' = "idle"
  /\ isRunning' \in {isRunning, TRUE}   \* unchanged if the node fails
  /\ UNCHANGED <<setting, fabricClient, up, starts>>

(* The rounds in flight go on; what is queued stays queued.                *)
stopSyncProcess == isRunning' = FALSE

(* The Fabric client is dropped and never attached again.                  *)
shutdownHyperledger == fabricClient' = FALSE

ShutDown ==
  /\ up # {}
  /\ stopSyncProcess /\ shutdownHyperledger
  /\ up' = {}
  /\ UNCHANGED <<setting, boot, starts>>

(* The process ends: queue and rounds are gone, what was sent is not.      *)
Crash ==
  /\ isRunning' = FALSE /\ up' = {} /\ fabricClient' = setting.fabric
  /\ boot' = "idle"
  /\ syncQueue' = <<>>
  /\ status' = [op \in Ops |->
                  IF status[op] = "PENDING" THEN "LOST" ELSE status[op]]
  /\ round' = [r \in Rounds |-> Idle]
  /\ UNCHANGED <<contractVars, nodeVars, setting, starts, retryCount, ledger>>

-----------------------------------------------------------------------------
(* The queue.                                                              *)

Enqueue(op) ==
  /\ op \in setting.handed /\ status[op] = "NEW"
  /\ status' = [status EXCEPT ![op] = "PENDING"]
  /\ syncQueue' = Append(syncQueue, op)
  /\ UNCHANGED <<contractVars, nodeVars, serviceVars, retryCount, round,
                 ledger>>

(* Faulty: the count of retries is not kept.                               *)
MoreRetries(n) == n

CountRetry(n) == n + 1

(* The round ends: the operation is done, or it failed and goes to the end *)
(* of the queue unless its retries are used up.                            *)
Complete(op, queue) ==
  /\ status' = [status EXCEPT ![op] = "COMPLETED"]
  /\ syncQueue' = queue
  /\ UNCHANGED retryCount

(* Faulty: one retry too many.                                             *)
RetriesLeftOneMore(op) == retryCount[op] <= MaxRetries[op]

RetriesLeft(op) == retryCount[op] < MaxRetries[op]

FailOrRetry(op, queue) ==
  IF RetriesLeft(op)
  THEN /\ retryCount' = [retryCount EXCEPT ![op] = CountRetry(@)]
       /\ syncQueue' = Append(queue, op)
       /\ UNCHANGED status
  ELSE /\ status' = [status EXCEPT ![op] = "FAILED"]
       /\ syncQueue' = queue
       /\ UNCHANGED retryCount

At(r, phase) == round[r].at = phase

Await(r, phase) ==
  /\ round' = [round EXCEPT ![r].at = phase]
  /\ UNCHANGED queueVars

Finish(r) ==
  /\ round' = [round EXCEPT ![r] = Idle]
  /\ Complete(round[r].op, syncQueue)

Fail(r) ==
  /\ round' = [round EXCEPT ![r] = Idle]
  /\ FailOrRetry(round[r].op, syncQueue)

-----------------------------------------------------------------------------
(* A round.                                                                *)

(* Faulty: the operation is read from the queue but not removed.           *)
Unshifted(queue) == queue

Shifted(queue) == Tail(queue)

(* Faulty: only the contract is updated.                                   *)
LedgerIgnored(op) == ledger

(* An update is written to Hyperledger before the contract is called.      *)
Ledgered(op) ==
  IF "hyperledger" \in up
  THEN [ledger EXCEPT ![op] = @ + 1]
  ELSE ledger

(* Both services must have been started, or the operation fails, perhaps   *)
(* half done; then the contract is called.  Before that only settled       *)
(* promises are awaited.                                                   *)
CallContract(r, op) ==
  IF up = {"hyperledger", "ethereum"}
  THEN /\ round' = [round EXCEPT ![r] = [op |-> op, at |-> "nonce",
                                         nonce |-> 0]]
       /\ syncQueue' = Shifted(syncQueue)
       /\ UNCHANGED <<status, retryCount>>
  ELSE FailOrRetry(op, Shifted(syncQueue)) /\ UNCHANGED round

(* The hash of the fine is computed first, although the contract is not    *)
(* given it; where it cannot be, no fine is ever registered.               *)
syncFineToPublic(r, op) ==
  /\ IF setting.require
     THEN CallContract(r, op)
     ELSE FailOrRetry(op, Shifted(syncQueue)) /\ UNCHANGED round
  /\ UNCHANGED ledger

syncStatusUpdate(r, op) == CallContract(r, op) /\ ledger' = Ledgered(op)

(* The timer fires and starts a round, whichever others run.  An appeal is *)
(* reported as synchronised without a call; a cancellation is an unknown   *)
(* operation.                                                              *)
Tick(r) ==
  LET op == Head(syncQueue) IN
  /\ isRunning /\ syncQueue # <<>>
  /\ At(r, "idle") /\ \A q \in 1 .. r - 1 : ~At(q, "idle")
  /\ \/ /\ Kind[op] = "APPEAL"
        /\ Complete(op, Shifted(syncQueue))
        /\ UNCHANGED <<round, ledger>>
     \/ /\ Kind[op] = "CANCEL"
        /\ FailOrRetry(op, Shifted(syncQueue))
        /\ UNCHANGED <<round, ledger>>
     \/ Kind[op] = "REGISTER" /\ syncFineToPublic(r, op)
     \/ Kind[op] = "UPDATE_STATUS" /\ syncStatusUpdate(r, op)
  /\ UNCHANGED <<contractVars, nodeVars, serviceVars>>

(* The contract call of an operation would not be reverted.                *)
Executable(op) ==
  /\ Chain!onlyOperator(Wallet)
  /\ IF Kind[op] = "REGISTER"
     THEN Chain!Registrable(PublicFine(FineId[op]))
     ELSE Chain!Updatable(FineId[op], "PENDING")

(* Every update is one to PENDING, of the fine that the contract numbers   *)
(* as Hyperledger numbers the one that is meant.                           *)
updateFineStatus(op) ==
  Chain!updateFineStatus(Wallet, FineId[op], "PENDING")

GetNonce(r) ==
  /\ At(r, "nonce")
  /\ round' = [round EXCEPT ![r].nonce = Len(slots), ![r].at = "estimate"]
  /\ UNCHANGED <<contractVars, nodeVars, serviceVars, queueVars, ledger>>

EstimateGas(r) ==
  /\ At(r, "estimate")
  /\ IF Executable(round[r].op) THEN Await(r, "broadcast") ELSE Fail(r)
  /\ UNCHANGED <<contractVars, nodeVars, serviceVars, ledger>>

(* Appended, or in place of a pending transaction with the same nonce; the *)
(* answer may be lost.                                                     *)
Broadcast(r) ==
  LET n == round[r].nonce + 1 IN
  /\ At(r, "broadcast")
  /\ n > Len(outcome)
  /\ slots' = IF n > Len(slots) THEN Append(slots, Try(round[r].op))
                                ELSE [slots EXCEPT ![n] = Try(round[r].op)]
  /\ Await(r, "wait") \/ Fail(r)
  /\ UNCHANGED <<contractVars, outcome, serviceVars, ledger>>

Refused(r) ==
  /\ At(r, "broadcast")
  /\ round[r].nonce < Len(slots)
  /\ Fail(r)
  /\ UNCHANGED <<contractVars, nodeVars, serviceVars, ledger>>

(* Faulty: a replaced transaction is not noticed.                          *)
ReplacedUnnoticed(r) == FALSE

Replaced(r) ==
  LET n == round[r].nonce + 1
  IN n <= Len(outcome) /\ slots[n] # Try(round[r].op)

(* Faulty: a reverted transaction is taken for a success.                  *)
ConfirmedAnyStatus(r) ==
  LET n == round[r].nonce + 1
  IN n <= Len(outcome) /\ slots[n] = Try(round[r].op)

Confirmed(r) ==
  LET n == round[r].nonce + 1
  IN n <= Len(outcome) /\ slots[n] = Try(round[r].op) /\ outcome[n] = "success"

Settle(r) ==
  LET n == round[r].nonce + 1 IN
  /\ At(r, "wait")
  /\ \/ Confirmed(r) /\ Await(r, "audit")
     \/ Replaced(r) /\ Fail(r)
     \/ /\ n <= Len(outcome) /\ slots[n] = Try(round[r].op)
        /\ outcome[n] = "reverted"
        /\ Fail(r)
  /\ UNCHANGED <<contractVars, nodeVars, serviceVars, ledger>>

(* The audit service, if there is one, is told.                            *)
Audit(r) ==
  /\ At(r, "audit")
  /\ Finish(r)
  /\ UNCHANGED <<contractVars, nodeVars, serviceVars, ledger>>

(* A call to the node fails, or the audit does, whatever was done before.  *)
CallFails(r) ==
  /\ round[r].at \in {"nonce", "estimate", "broadcast", "wait", "audit"}
  /\ Fail(r)
  /\ UNCHANGED <<contractVars, nodeVars, serviceVars, ledger>>

-----------------------------------------------------------------------------
(* The chain.                                                              *)

MineTransaction ==
  /\ Len(outcome) < Len(slots)
  /\ LET op == slots[Len(outcome) + 1][1] IN
       IF Executable(op)
       THEN /\ outcome' = Append(outcome, "success")
            /\ IF Kind[op] = "REGISTER"
               THEN Chain!registerFine(Wallet, PublicFine(FineId[op]))
               ELSE updateFineStatus(op)
       ELSE /\ outcome' = Append(outcome, "reverted")
            /\ UNCHANGED contractVars
  /\ UNCHANGED <<slots, serviceVars, queueVars, round, ledger>>

(* What others do on the chain; one account stands for them all.  The      *)
(* bound on withdrawals: only while a transaction of the wallet waits, for *)
(* otherwise the wallet is where it was before it was made an operator.    *)
Transact ==
  /\ \/ Chain!addOperator(Deployer, Wallet)
     \/ Len(outcome) < Len(slots) /\ Chain!removeOperator(Deployer, Wallet)
     \/ /\ fineIds < FinesOfOthers
        /\ \E s \in OtherFines : Chain!registerFine(Deployer, s)
     \/ \E id \in Chain!FineIds, st \in OtherStates :
          /\ Len(fineStatusHistory[id]) < EntriesOfOthers
          /\ Chain!updateFineStatus(Deployer, id, st)
     \/ Chain!MineBlock
  /\ UNCHANGED <<nodeVars, serviceVars, queueVars, round, ledger>>

-----------------------------------------------------------------------------

Init ==
  /\ Chain!Init
  /\ slots = <<>> /\ outcome = <<>>
  /\ setting \in Setting
  /\ fabricClient = setting.fabric
  /\ up = {} /\ boot = "idle" /\ starts = 0 /\ isRunning = FALSE
  /\ syncQueue = <<>>
  /\ status = [op \in Ops |-> "NEW"]
  /\ retryCount = [op \in Ops |-> 0]
  /\ round = [r \in Rounds |-> Idle]
  /\ ledger = [op \in Ops |-> 0]

Services ==
  \/ Boot
  \/ InitHyperledger
  \/ InitEthereum
  \/ InitSync
  \/ StartSync
  \/ ShutDown

(* The next await of a round returns.                                      *)
Proceed(r) ==
  \/ GetNonce(r)
  \/ EstimateGas(r)
  \/ Broadcast(r)
  \/ Refused(r)
  \/ Settle(r)
  \/ Audit(r)

Next ==
  \/ Services /\ UNCHANGED <<contractVars, nodeVars, queueVars, round, ledger>>
  \/ Crash
  \/ \E op \in Ops : Enqueue(op)
  \/ \E r \in Rounds : Tick(r) \/ Proceed(r) \/ CallFails(r)
  \/ MineTransaction
  \/ Transact

Spec == Init /\ [][Next]_vars

(* While the timer may fire, the node may answer or may mine, one of them  *)
(* happens in the end.  Nothing is asked of any one round, nor of the      *)
(* services, the callers and the failures.                                 *)
Fairness ==
  WF_vars(\/ \E r \in Rounds : Tick(r) \/ Proceed(r)
          \/ MineTransaction)

FairSpec == Spec /\ Fairness

-----------------------------------------------------------------------------
(* The comparison of the two chains.  It is asked for by a number of       *)
(* Hyperledger and reads the fine that the contract gave the same number.  *)

(* The two digests have different keys and so never agree.                 *)
generateInternalHash(n) ==
  LET fine == getInternalFineDetails(n) IN
  [id |-> fine.id, plateNumber |-> fine.plateNumber,
   evidenceCID |-> fine.evidenceCID, location |-> fine.location,
   infractionType |-> fine.infractionType, cost |-> fine.cost,
   currentState |-> fine.currentState]

generateIntegrityHash(n) ==
  [fineId |-> n, plateNumber |-> fines[n].plateNumber,
   evidenceHash |-> fines[n].evidenceCID, location |-> fines[n].location,
   infractionType |-> fines[n].infractionType, cost |-> fines[n].cost,
   status |-> fines[n].currentState]

(* Both services must have been started, the contract must have a fine of  *)
(* that number, and the runtime must have what the hashes need.            *)
Comparable(n) ==
  up = {"hyperledger", "ethereum"} /\ n \in 1 .. fineIds /\ setting.require

Compared(isValid, mismatchFields) ==
  [error |-> FALSE, isValid |-> isValid, mismatchFields |-> mismatchFields]

ComparisonFails == [error |-> TRUE, isValid |-> FALSE, mismatchFields |-> {}]

(* The answer if the node gives one.                                       *)
verifyDataConsistency(n) ==
  IF Comparable(n)
  THEN LET isValid == generateInternalHash(n) = generateIntegrityHash(n) IN
       Compared(isValid,
         {field \in {"plateNumber", "location", "infractionType", "cost",
                     "currentState"} :
            ~isValid /\ getInternalFineDetails(n)[field] # fines[n][field]})
  ELSE ComparisonFails

-----------------------------------------------------------------------------
(* Safety.                                                                 *)

Waiting == ToSet(syncQueue)

WorkedOn == {round[r].op : r \in Rounds} \ {NoOp}

(* An operation that is PENDING is in one place, waiting in the queue or   *)
(* being worked on by one round, and no other operation is anywhere; one   *)
(* that FAILED has used up its retries.  Rounds overlap, and each of them  *)
(* takes from the queue and puts back.                                     *)
OperationsAccounted ==
  /\ {op \in Ops : status[op] = "PENDING"} = Waiting \cup WorkedOn
  /\ Waiting \cap WorkedOn = {}
  /\ \A i, j \in DOMAIN syncQueue : syncQueue[i] = syncQueue[j] => i = j
  /\ \A q, r \in Rounds :
       round[q].op = round[r].op /\ round[q].op # NoOp => q = r
  /\ \A op \in Ops : status[op] = "FAILED" => retryCount[op] = MaxRetries[op]

(* The operations of one kind on one fine.                                 *)
Of(kind, n) == {op \in Ops : Kind[op] = kind /\ FineId[op] = n}

CompletedOf(kind, n) ==
  Cardinality({op \in Of(kind, n) : status[op] = "COMPLETED"})

TriesOf(op) == IF status[op] = "NEW" THEN 0 ELSE retryCount[op] + 1

(* As many for each operation of a set as times says.                      *)
Each(ops, times(_)) == UNION {{op} \X (1 .. times(op)) : op \in ops}

PublicFines(n) == {id \in 1 .. fineIds : fines[id].externalSystemId = IdText[n]}

PublicUpdates(n) ==
  {k \in 2 .. Len(fineStatusHistory[n]) :
     fineStatusHistory[n][k].newState = "PENDING"}

(* At least once, and no more often than it was tried: the contract holds  *)
(* a public fine for every registration that was completed, and at most    *)
(* one for every try.  It may hold several, because a try whose answer was *)
(* lost is made again and nothing looks for the fine it may have made.     *)
RegistrationsAccounted ==
  \A n \in Numbers :
    /\ CompletedOf("REGISTER", n) <= Cardinality(PublicFines(n))
    /\ Cardinality(PublicFines(n))
         <= Cardinality(Each(Of("REGISTER", n), TriesOf))

(* Hyperledger is written first: the contract never holds more updates     *)
(* than Hyperledger, and at least one for every update that was completed. *)
UpdatesAccounted ==
  \A n \in Numbers :
    /\ CompletedOf("UPDATE_STATUS", n) <= Cardinality(PublicUpdates(n))
    /\ Cardinality(PublicUpdates(n))
         <= Cardinality(Each(Of("UPDATE_STATUS", n), LAMBDA op : ledger[op]))

(* Nothing keeps the comparison from being given the fine of another       *)
(* client, because the contract numbers the fines anew.  A mismatch in     *)
(* what a fine was registered with is always due to that: the fine that    *)
(* holds the number is none that the synchronisation wrote, under this     *)
(* number of Hyperledger or another.  A mismatch in the state is due to    *)
(* someone else, who made the last update.                                 *)
MismatchesExplained ==
  \A n \in Numbers : \A field \in verifyDataConsistency(n).mismatchFields :
    IF field = "currentState"
    THEN Last(fineStatusHistory[n]).updatedBy # Wallet
    ELSE fines[n].externalSystemId \notin {IdText[m] : m \in Numbers}

(* The queue delivers its operations as SyncDelivery promises, however the *)
(* rounds overlap and whatever fails, stops or ends.                       *)
fateOf ==
  [op \in Ops |->
     CASE status[op] = "NEW"       -> "new"
       [] status[op] = "PENDING"   -> "pending"
       [] status[op] = "COMPLETED" -> "completed"
       [] status[op] = "FAILED"    -> "failed"
       [] OTHER                    -> "lost"]

effectsOf ==
  [op \in Ops |-> Cardinality({n \in DOMAIN outcome :
                                 slots[n][1] = op /\ outcome[n] = "success"})]

Delivery ==
  INSTANCE SyncDelivery
    WITH fate <- fateOf, tries <- [op \in Ops |-> TriesOf(op)],
         effects <- effectsOf,
         Effective <- {op \in Ops : Kind[op] \in {"REGISTER", "UPDATE_STATUS"}},
         Limit <- [op \in Ops |-> MaxRetries[op] + 1]

ImplementsDelivery == Delivery!Spec

-----------------------------------------------------------------------------
(* Liveness.                                                               *)

(* While the timer runs the queue drains: there comes a time when no       *)
(* operation is PENDING, not even one whose transaction lost its nonce to  *)
(* a round that overtook it.                                               *)
EveryOperationEnds ==
  []<>(isRunning => \A op \in Ops : status[op] # "PENDING")
=============================================================================
