---------------------------- MODULE FineRequests ----------------------------
(***************************************************************************)
(* The two requests of the backend that write: POST /api/fines and         *)
(* PUT /api/fines/:fineId/status.  Many are in flight at once in one       *)
(* Node.js process, which interleaves them at every await; all of them     *)
(* send their transactions from one wallet to one node, which mines them   *)
(* in the order of their nonces, and wait for the receipt.                 *)
(*                                                                         *)
(* A request goes from its controller through its use case and the         *)
(* Ethereum adapter to the legacy repository.  Each step below is the code *)
(* that runs between two awaits.  The contract is Chain; IPFS, the node    *)
(* and the ethers library are external and appear as far as the code uses  *)
(* them.                                                                   *)
(***************************************************************************)
EXTENDS Naturals, FiniteSets, Sequences, FineDomain

CONSTANTS
  Address, NoAddress, Deployer,   \* as in FineManagement
  MaxFines, MaxUpdates, MaxBlock,
  Wallet,        \* the account of blockchainConfig.privateKey
  RegisterReqs,  \* the POST requests, bounded in number
  UpdateReqs,    \* the PUT requests, bounded in number
  NoBody,        \* the body of a request that has not been made
  Bodies,        \* what a POST may carry
  Changes,       \* what a PUT may carry: fineId and newState
  NoFile         \* a POST without an evidence file

Requests == RegisterReqs \cup UpdateReqs

NoState == "UNKNOWN"

Body ==
  [file: DOMAIN CidOf \cup {NoFile}, plateNumber: Text, location: Text,
   infractionType: Text, cost: Nat, ownerIdentifier: Text,
   registeredBy: Text, externalSystemId: Text]

Change == [fineId: 0 .. MaxFines, newState: FineState \cup {NoState}]

(* An address is never blank.                                              *)
ASSUME AccountsAssumption ==
  /\ {Deployer, Wallet} \subseteq Address
  /\ NoAddress \notin Address
  /\ Address \cap Blanks = {}
ASSUME InputsAssumption ==
  /\ Bodies \subseteq Body /\ Changes \subseteq Change
  /\ RegisterReqs \cap UpdateReqs = {}
ASSUME RoomAssumption ==
  /\ MaxFines \in Nat /\ MaxUpdates \in Nat /\ MaxBlock \in Nat
  /\ IsFiniteSet(Requests)
  /\ Cardinality(RegisterReqs) <= MaxFines
  /\ Cardinality(UpdateReqs) < MaxUpdates

VARIABLES
  owner, operators, fineIds, fines, fineStatusHistory, finesByPlate,
  finesByOwner, block,   \* the contract
  slots,     \* the wallet's transactions by nonce: slots[n + 1] has nonce n
  mined,     \* how many of them are mined, in that order
  receipt,   \* request -> the receipt of its transaction
  ipfs,      \* the CIDs that the IPFS node stores
  pc,        \* request -> the call it awaits
  dto,       \* request -> what the client sent
  seen,      \* request -> previousState, as the use case read it
  nonce,     \* request -> the nonce ethers read for its transaction
  answer     \* request -> the fineId of a success response, 0 of a failure

contractVars == <<owner, operators, fineIds, fines, fineStatusHistory,
                  finesByPlate, finesByOwner, block>>
nodeVars == <<slots, mined, receipt>>
requestVars == <<pc, dto, seen, nonce, answer>>
vars == <<contractVars, nodeVars, ipfs, requestVars>>

(* What a request awaits, or that it was not made or is answered.          *)
Phases == {"idle", "upload", "read", "nonce", "estimate", "broadcast",
           "wait", "done"}

NoReceipt == [status |-> "none", fineId |-> 0]
Reverted  == [status |-> "reverted", fineId |-> 0]

(* Faulty: the event carries the number after the one that was assigned.   *)
SuccessNextId(id) == [status |-> "success", fineId |-> id + 1]

Success(id) == [status |-> "success", fineId |-> id]

-----------------------------------------------------------------------------
(* What the controller accepts.                                            *)

(* The truthiness checks of FineController.registerFine.                   *)
Complete(b) ==
  /\ b.file # NoFile
  /\ \A f \in {"plateNumber", "location", "infractionType",
               "ownerIdentifier", "registeredBy"} : b[f] # Empty

(* The arguments of the contract call: the primitives of the entity.       *)
SubmissionOf(b) ==
  [plateNumber |-> Normal[b.plateNumber], evidenceCID |-> CidOf[b.file],
   location |-> b.location, infractionType |-> Normal[b.infractionType],
   cost |-> Rounded(b.cost), ownerIdentifier |-> b.ownerIdentifier,
   externalSystemId |-> b.externalSystemId]

Sendable == {b \in Bodies : Complete(b)}

Chain == INSTANCE FineManagement
           WITH Submissions <- {SubmissionOf(b) : b \in Sendable}

TypeOK ==
  /\ Chain!TypeOK
  /\ slots \in Seq(Requests)
  /\ mined \in 0 .. Len(slots)
  /\ receipt \in [Requests -> [status: {"none", "reverted", "success"},
                               fineId: 0 .. MaxFines]]
  /\ ipfs \subseteq {CidOf[f] : f \in DOMAIN CidOf}
  /\ pc \in [Requests -> Phases]
  /\ \A r \in RegisterReqs : dto[r] \in Bodies \cup {NoBody}
  /\ \A u \in UpdateReqs : dto[u] \in Changes \cup {NoBody}
  /\ seen \in [Requests -> FineState \cup {NoState}]
  /\ nonce \in [Requests -> Nat]
  /\ answer \in [Requests -> 0 .. MaxFines]

-----------------------------------------------------------------------------

At(r, phase) == pc[r] = phase

Await(r, phase) ==
  /\ pc' = [pc EXCEPT ![r] = phase]
  /\ UNCHANGED answer

(* The response: a success carries the number of the fine.                 *)
Respond(r, id) ==
  /\ pc' = [pc EXCEPT ![r] = "done"]
  /\ answer' = [answer EXCEPT ![r] = id]

Fail(r) == Respond(r, 0)

-----------------------------------------------------------------------------
(* POST /api/fines up to the point where the fine goes to the repository.  *)

AcceptRegister(r) == \E b \in Bodies :
  /\ At(r, "idle")
  /\ dto' = [dto EXCEPT ![r] = b]
  /\ IF Complete(b) /\ WellFormed(b.plateNumber, b.location,
                                  b.infractionType, Rounded(b.cost))
     THEN Await(r, "upload")
     ELSE Fail(r)
  /\ UNCHANGED <<contractVars, nodeVars, ipfs, seen, nonce>>

(* Faulty: the entity is created without its rules.                        *)
UploadUnchecked(r) ==
  /\ At(r, "upload")
  /\ ipfs' = ipfs \cup {CidOf[dto[r].file]}
  /\ Await(r, "nonce")
  /\ UNCHANGED <<contractVars, nodeVars, dto, seen, nonce>>

(* The file is stored; the entity is created only now, so a request may    *)
(* fail after its evidence went to IPFS.  The entity takes the time of its *)
(* creation for its timestamp, which the contract replaces by its own.     *)
Upload(r) == \E now \in Clock(block) :
  /\ At(r, "upload")
  /\ ipfs' = ipfs \cup {CidOf[dto[r].file]}
  /\ IF BusinessRules(dto[r].ownerIdentifier, dto[r].registeredBy, now, now)
     THEN Await(r, "nonce")
     ELSE Fail(r)
  /\ UNCHANGED <<contractVars, nodeVars, dto, seen, nonce>>

(* IPFS cannot be reached, or its answer is lost.                          *)
(* Faulty: the failed upload goes unnoticed.                               *)
UploadFailsUnnoticed(r) ==
  /\ At(r, "upload")
  /\ Await(r, "nonce")
  /\ UNCHANGED <<contractVars, nodeVars, ipfs, dto, seen, nonce>>

UploadFails(r) ==
  /\ At(r, "upload")
  /\ ipfs' \in {ipfs, ipfs \cup {CidOf[dto[r].file]}}
  /\ Fail(r)
  /\ UNCHANGED <<contractVars, nodeVars, dto, seen, nonce>>

-----------------------------------------------------------------------------
(* PUT /api/fines/:fineId/status up to the same point.                     *)

AcceptUpdate(u) == \E c \in Changes :
  /\ At(u, "idle")
  /\ dto' = [dto EXCEPT ![u] = c]
  /\ IF c.newState # NoState THEN Await(u, "read") ELSE Fail(u)
  /\ UNCHANGED <<contractVars, nodeVars, ipfs, seen, nonce>>

(* getFineById finds the fine and makes an entity of it; one whose block   *)
(* the clock has not reached is not found.                                 *)
Found(id, now) == id \in 1 .. fineIds /\ Readable(fines[id], now)

(* Faulty: the transition is not validated.                                *)
AllowedAlways(state, newState) == TRUE

(* Step 3 of the use case, on the state that was read.                     *)
Allowed(state, newState) == CanTransitionTo(state, newState)

(* The fine is read, and the transition is checked against what was read.  *)
(* The count and the fine come from two calls; fines are never removed, so *)
(* they give what one call would.                                          *)
Read(u) == \E now \in Clock(block) : LET id == dto[u].fineId IN
  /\ At(u, "read")
  /\ IF ~ Found(id, now)
     THEN Fail(u) /\ UNCHANGED seen
     ELSE /\ seen' = [seen EXCEPT ![u] = fines[id].currentState]
          /\ IF Allowed(fines[id].currentState, dto[u].newState)
             THEN Await(u, "nonce")
             ELSE Fail(u)
  /\ UNCHANGED <<contractVars, nodeVars, ipfs, dto, nonce>>

-----------------------------------------------------------------------------
(* Sending a transaction and waiting for it, which both requests share.    *)

(* The call would not be reverted if it were executed now.                 *)
Executable(r) ==
  /\ Chain!onlyOperator(Wallet)
  /\ IF r \in RegisterReqs
     THEN Chain!Registrable(SubmissionOf(dto[r]))
     ELSE Chain!Updatable(dto[r].fineId, dto[r].newState)

(* ethers asks for the number of transactions sent, pending ones included. *)
GetNonce(r) ==
  /\ At(r, "nonce")
  /\ nonce' = [nonce EXCEPT ![r] = Len(slots)]
  /\ Await(r, "estimate")
  /\ UNCHANGED <<contractVars, nodeVars, ipfs, dto, seen>>

(* The node simulates the call; one that would revert is never sent.       *)
EstimateGas(r) ==
  /\ At(r, "estimate")
  /\ IF Executable(r) THEN Await(r, "broadcast") ELSE Fail(r)
  /\ UNCHANGED <<contractVars, nodeVars, ipfs, dto, seen, nonce>>

(* Where the node puts a transaction: after the others, or in place of a   *)
(* pending one with the same nonce that pays less.                         *)
Accepts(r) ==
  \/ nonce[r] = Len(slots) /\ slots' = Append(slots, r)
  \/ /\ mined <= nonce[r] /\ nonce[r] < Len(slots)
     /\ slots' = [slots EXCEPT ![nonce[r] + 1] = r]

(* Faulty: a transaction whose answer is lost is sent once more.           *)
BroadcastRetried(r) ==
  /\ At(r, "broadcast")
  /\ Accepts(r)
  /\ \/ Await(r, "wait")
     \/ Await(r, "nonce")
  /\ UNCHANGED <<contractVars, mined, receipt, ipfs, dto, seen, nonce>>

Broadcast(r) ==
  /\ At(r, "broadcast")
  /\ Accepts(r)
  /\ \/ Await(r, "wait")
     \/ Fail(r)                       \* the node's answer is lost
  /\ UNCHANGED <<contractVars, mined, receipt, ipfs, dto, seen, nonce>>

(* Another transaction took the nonce: "nonce too low", or "replacement    *)
(* transaction underpriced".                                               *)
Refused(r) ==
  /\ At(r, "broadcast")
  /\ nonce[r] < Len(slots)
  /\ Fail(r)
  /\ UNCHANGED <<contractVars, nodeVars, ipfs, dto, seen, nonce>>

(* The node executes the next transaction of the wallet.                   *)
Execute(r) ==
  IF r \in RegisterReqs
  THEN Chain!registerFine(Wallet, SubmissionOf(dto[r]))
  ELSE Chain!updateFineStatus(Wallet, dto[r].fineId, dto[r].newState)

MineTransaction ==
  /\ mined < Len(slots)
  /\ mined' = mined + 1
  /\ LET r == slots[mined + 1] IN
       IF Executable(r)
       THEN /\ Execute(r)
            /\ receipt' = [receipt EXCEPT ![r] =
                 Success(IF r \in RegisterReqs THEN Chain!newFineId ELSE 0)]
       ELSE /\ receipt' = [receipt EXCEPT ![r] = Reverted]
            /\ UNCHANGED contractVars
  /\ UNCHANGED <<slots, ipfs, requestVars>>

MineBlock ==
  /\ Chain!MineBlock
  /\ UNCHANGED <<nodeVars, ipfs, requestVars>>

(* Faulty: wait() only looks for the receipt of its own transaction.       *)
ReplacedUnnoticed(r) == FALSE

(* wait() notices that the nonce of its transaction was used by another.   *)
Replaced(r) == nonce[r] < mined /\ slots[nonce[r] + 1] # r

(* Faulty: a receipt is taken for a success whatever its status.           *)
ConfirmedAnyStatus(r) == receipt[r].status # "none"

Confirmed(r) == receipt[r].status = "success"

(* Faulty: the number of fines there are now, which the repository answers *)
(* with when a receipt has no logs.                                        *)
RegisteredIdByCount(r) == fineIds

(* The number in the event FineRegistered.  The contract emits it in every *)
(* registration, so the fallback for receipts without logs is never taken. *)
RegisteredId(r) == receipt[r].fineId

(* The receipt names the fine in the event FineRegistered; a reverted or   *)
(* replaced transaction makes wait() throw.                                *)
Settle(r) ==
  /\ At(r, "wait")
  /\ \/ /\ Confirmed(r)
        /\ Respond(r, IF r \in RegisterReqs THEN RegisteredId(r)
                                            ELSE dto[r].fineId)
     \/ receipt[r].status = "reverted" /\ Fail(r)
     \/ Replaced(r) /\ Fail(r)
  /\ UNCHANGED <<contractVars, nodeVars, ipfs, dto, seen, nonce>>

(* A call to the node fails or times out, whatever became of it there.     *)
CallFails(r) ==
  /\ pc[r] \in {"read", "nonce", "estimate", "broadcast", "wait"}
  /\ Fail(r)
  /\ UNCHANGED <<contractVars, nodeVars, ipfs, dto, seen, nonce>>

InFlight == {r \in Requests : pc[r] \notin {"idle", "done"}}

(* An unhandled rejection ends the process; the connections of all the     *)
(* requests in flight break, and what they sent stays with the node.       *)
Crash ==
  /\ InFlight # {}
  /\ pc' = [r \in Requests |-> IF r \in InFlight THEN "done" ELSE pc[r]]
  /\ UNCHANGED <<contractVars, nodeVars, ipfs, dto, seen, nonce, answer>>

-----------------------------------------------------------------------------

Init ==
  /\ Chain!Init
  /\ slots = <<>>
  /\ mined = 0
  /\ receipt = [r \in Requests |-> NoReceipt]
  /\ ipfs = {}
  /\ pc = [r \in Requests |-> "idle"]
  /\ dto = [r \in Requests |-> NoBody]
  /\ seen = [r \in Requests |-> NoState]
  /\ nonce = [r \in Requests |-> 0]
  /\ answer = [r \in Requests |-> 0]

(* The next await of a request returns.                                    *)
Proceed(r) ==
  \/ Upload(r)
  \/ Read(r)
  \/ GetNonce(r)
  \/ EstimateGas(r)
  \/ Broadcast(r)
  \/ Refused(r)
  \/ Settle(r)

Next ==
  \/ \E r \in RegisterReqs : AcceptRegister(r) \/ UploadFails(r)
  \/ \E u \in UpdateReqs : AcceptUpdate(u)
  \/ \E r \in Requests : Proceed(r) \/ CallFails(r)
  \/ MineTransaction
  \/ MineBlock
  \/ Crash

Spec == Init /\ [][Next]_vars

(* The node answers every call and mines what it has accepted.  Nothing is *)
(* owed to a failure, to a client or to the clock.                         *)
Fairness ==
  /\ \A r \in Requests : WF_vars(Proceed(r))
  /\ WF_vars(MineTransaction)

FairSpec == Spec /\ Fairness

-----------------------------------------------------------------------------
(* Safety.                                                                 *)

Succeeded(r) == At(r, "done") /\ answer[r] # 0

(* A success response of POST names a fine that is on the chain and holds  *)
(* what this client sent, and no other client is given its number, however *)
(* the requests interleave.                                                *)
RegistrationsTruthful ==
  \A r \in RegisterReqs : Succeeded(r) =>
    /\ answer[r] \in 1 .. fineIds
    /\ LET fine == fines[answer[r]] IN
         Chain!Metadata(fine) =
           Chain!FineOf(answer[r], SubmissionOf(dto[r]), Wallet, fine.timestamp)
    /\ \A q \in RegisterReqs \ {r} : answer[q] # answer[r]

(* Every success response of PUT stands for a history entry of its own:    *)
(* no update that was acknowledged is missing from the history.            *)
UpdatesRecorded ==
  \A id \in Chain!FineIds, st \in FineState :
    LET h == fineStatusHistory[id] IN
    Cardinality({u \in UpdateReqs :
                   /\ Succeeded(u)
                   /\ dto[u] = [fineId |-> id, newState |-> st]})
      <= Cardinality({k \in 2 .. Len(h) : h[k].newState = st})

(* The requests that ask for a registration with these arguments.          *)
Senders(s) ==
  {r \in RegisterReqs : dto[r] \in Sendable /\ SubmissionOf(dto[r]) = s}

(* However its calls fail, a POST registers at most one fine: there are    *)
(* never more fines with the same contents than requests that asked for    *)
(* them.  A request that was answered with a failure may be one of them.   *)
AtMostOnePerRequest ==
  \A id \in 1 .. fineIds : \E r \in RegisterReqs :
    LET s == SubmissionOf(dto[r])
        Same(n) == Chain!Metadata(fines[n]) =
                     Chain!FineOf(n, s, Wallet, fines[n].timestamp)
    IN /\ dto[r] \in Sendable /\ Same(id)
       /\ Cardinality({n \in 1 .. fineIds : Same(n)})
            <= Cardinality(Senders(s))

(* The evidence of every fine on the chain is in IPFS: uploads come first, *)
(* and no failure between the two leaves a fine without its evidence.      *)
EvidenceStored ==
  \A id \in 1 .. fineIds : fines[id].evidenceCID \in ipfs

(* What the backend registers it can read back as soon as its clock has    *)
(* reached the time of the block: the checks of the domain and those of    *)
(* the contract together admit no fine that toDomain rejects for anything  *)
(* but a clock that is behind, which ends when the clock has caught up     *)
(* with the chain.  A fine that is rejected can neither be shown nor       *)
(* updated.                                                                *)
FinesReadable ==
  \A id \in 1 .. fineIds : LET fine == fines[id] IN
    /\ fine.cost > 0 /\ fine.timestamp <= block
    /\ \A now \in Clock(block) : Readable(fine, now) <=> fine.timestamp <= now

(* The requests that may have changed a fine to a state: they asked for it *)
(* and read a state from which it is legal.                                *)
Askers(id, st) ==
  {u \in UpdateReqs : /\ dto[u] = [fineId |-> id, newState |-> st]
                      /\ CanTransitionTo(seen[u], st)}

(* Every change of state was asked for by a request that had read, earlier *)
(* in this fine's life, a state from which the change is legal, and no     *)
(* request changed it twice.  What was read need not be the state that the *)
(* change was made from: see LegalTransitions.                             *)
ChangesJustified ==
  \A id \in 1 .. fineIds : LET h == fineStatusHistory[id] IN
    /\ \A k \in 2 .. Len(h) : \E u \in Askers(id, h[k].newState) :
         \E j \in 1 .. k - 1 : seen[u] = h[j].newState
    /\ \A st \in FineState :
         Cardinality({k \in 2 .. Len(h) : h[k].newState = st})
           <= Cardinality(Askers(id, st))

(* What FineState promises and the use case checks, read as a statement    *)
(* about the register: a fine only makes the transitions of the table.     *)
(* Two requests that read the same state and then both send violate it.    *)
LegalTransitions ==
  \A id \in 1 .. fineIds : LET h == fineStatusHistory[id] IN
    \A k \in 2 .. Len(h) : CanTransitionTo(h[k].oldState, h[k].newState)

-----------------------------------------------------------------------------
(* Liveness.                                                               *)

(* Every request that arrives is answered, also one whose transaction was  *)
(* reverted or lost its nonce to another.                                  *)
EveryRequestAnswered ==
  \A r \in Requests : ~ At(r, "idle") ~> At(r, "done")

-----------------------------------------------------------------------------
(* Whatever the requests do, the contract takes only its own steps.        *)
ContractSpec == Chain!Spec
=============================================================================
