------------------------ MODULE HybridAccountsProofs ------------------------
(***************************************************************************)
(* Proofs that the accounts of HybridSync balance: what the queue reports, *)
(* what the two chains hold and what the comparison of the two finds, for  *)
(* any operations, any number of rounds that overlap and any bounds.       *)
(***************************************************************************)
EXTENDS HybridSyncProofs, FunctionTheorems

Contract == INSTANCE FineManagementProofs
              WITH Submissions <-
                OtherFines \cup {PublicFine(n) : n \in Numbers}

-----------------------------------------------------------------------------
(* The contract goes on as it does for anyone.                             *)

LEMMA ContractAssumptions ==
  /\ Contract!AddressAssumption
  /\ Contract!TextAssumption
  /\ Contract!BoundsAssumption
BY AccountsAssumption, FinesAssumption, RoomAssumption
   DEF Contract!AddressAssumption, Contract!BoundsAssumption,
       Contract!TextAssumption, Contract!Submission, Chain!Submission

LEMMA InitOfContract == Init => Contract!Init
BY DEF Init, Chain!Init, Contract!Init, Chain!FineIds, Contract!FineIds,
       Chain!ZeroFine, Contract!ZeroFine

LEMMA SameRegister ==
  ASSUME NEW sender, NEW s, Chain!registerFine(sender, s)
  PROVE  Contract!registerFine(sender, s)
BY DEF Chain!registerFine, Contract!registerFine, Chain!onlyOperator,
       Contract!onlyOperator, Chain!Registrable, Contract!Registrable,
       Chain!newFineId, Contract!newFineId, Chain!FineOf, Contract!FineOf,
       Chain!StatusUpdate, Contract!StatusUpdate

LEMMA SameUpdate ==
  ASSUME NEW sender, NEW id, NEW st, Chain!updateFineStatus(sender, id, st)
  PROVE  Contract!updateFineStatus(sender, id, st)
BY DEF Chain!updateFineStatus, Contract!updateFineStatus,
       Chain!onlyOperator, Contract!onlyOperator, Chain!Updatable,
       Contract!Updatable, Chain!Exists, Contract!Exists,
       Chain!StatusUpdate, Contract!StatusUpdate

(* What others do.                                                         *)
OthersDo ==
  \/ \E s \in OtherFines : Contract!registerFine(Deployer, s)
  \/ \E id \in Contract!FineIds, st \in OtherStates :
       Contract!updateFineStatus(Deployer, id, st)
  \/ UNCHANGED Contract!registerVars

(* What a transaction of the wallet does when it is mined.                 *)
WalletDoes(op) ==
  IF Kind[op] = "REGISTER"
  THEN Contract!registerFine(Wallet, PublicFine(FineId[op]))
  ELSE Contract!updateFineStatus(Wallet, FineId[op], "PENDING")

LEMMA TransactOfContract ==
  ASSUME Transact
  PROVE  OthersDo /\ Contract!Next
<1>1. ASSUME NEW s \in OtherFines, Chain!registerFine(Deployer, s)
      PROVE  OthersDo /\ Contract!Next
  BY <1>1, SameRegister, AccountsAssumption DEF OthersDo, Contract!Next
<1>2. ASSUME NEW id \in Chain!FineIds, NEW st \in OtherStates,
             Chain!updateFineStatus(Deployer, id, st)
      PROVE  OthersDo /\ Contract!Next
  <2>1. id \in Contract!FineIds /\ st \in Contract!FineState
    BY OthersAssumption
       DEF Chain!FineIds, Contract!FineIds, FineState, Contract!FineState
  <2>2. Contract!updateFineStatus(Deployer, id, st)
    BY <1>2, SameUpdate
  <2> QED
    BY <2>1, <2>2, AccountsAssumption DEF OthersDo, Contract!Next
<1>3. CASE Chain!addOperator(Deployer, Wallet)
  <2>1. Contract!addOperator(Deployer, Wallet)
    BY <1>3 DEF Chain!addOperator, Contract!addOperator, Chain!onlyOwner,
                Contract!onlyOwner, Chain!registerVars, Contract!registerVars
  <2> QED
    BY <2>1, AccountsAssumption
       DEF OthersDo, Contract!Next, Contract!addOperator
<1>4. CASE Chain!removeOperator(Deployer, Wallet)
  <2>1. Contract!removeOperator(Deployer, Wallet)
    BY <1>4 DEF Chain!removeOperator, Contract!removeOperator,
                Chain!onlyOwner, Contract!onlyOwner, Chain!registerVars,
                Contract!registerVars
  <2> QED
    BY <2>1, AccountsAssumption
       DEF OthersDo, Contract!Next, Contract!removeOperator
<1>5. CASE Chain!MineBlock
  BY <1>5 DEF Chain!MineBlock, Contract!MineBlock, Chain!registerVars,
              Contract!registerVars, OthersDo, Contract!Next
<1> QED
  BY <1>1, <1>2, <1>3, <1>4, <1>5 DEF Transact

(* A transaction that is mined has its effect, or it is reverted.          *)
LEMMA MineOfContract ==
  ASSUME QueueInv, TryInv, MineTransaction
  PROVE  \E n \in 1 .. Len(slots) :
           /\ n = Len(outcome) + 1 /\ slots[n][1] \in Ops
           /\ \/ /\ outcome' = Append(outcome, "success")
                 /\ WalletDoes(slots[n][1])
              \/ /\ outcome' = Append(outcome, "reverted")
                 /\ UNCHANGED contractVars
<1>1. /\ slots \in Seq(Ops \X Nat)
      /\ Len(outcome) \in Nat /\ Len(outcome) < Len(slots)
  BY DEF MineTransaction, QueueInv, QueueTypes, TryInv, OutcomeTypes
<1>2. Len(outcome) + 1 \in 1 .. Len(slots)
  BY <1>1
<1>3. PICK op : op = slots[Len(outcome) + 1][1]
  OBVIOUS
<1>4. op \in Ops
  BY <1>1, <1>2, <1>3
<1>5. \/ /\ outcome' = Append(outcome, "success")
         /\ IF Kind[op] = "REGISTER"
            THEN Chain!registerFine(Wallet, PublicFine(FineId[op]))
            ELSE Chain!updateFineStatus(Wallet, FineId[op], "PENDING")
      \/ /\ outcome' = Append(outcome, "reverted")
         /\ UNCHANGED contractVars
  BY <1>3 DEF MineTransaction, updateFineStatus
<1> QED
  BY <1>2, <1>3, <1>4, <1>5, SameRegister, SameUpdate DEF WalletDoes

LEMMA WalletOfContract ==
  ASSUME NEW op \in Ops, WalletDoes(op)
  PROVE  Contract!Next
<1>1. /\ FineId[op] \in Contract!FineIds /\ FineId[op] \in Numbers
      /\ Wallet \in Address /\ "PENDING" \in Contract!FineState
  BY OperationsAssumption, AccountsAssumption
     DEF Contract!FineIds, Numbers, Contract!FineState
<1> QED
  BY <1>1 DEF WalletDoes, Contract!Next

(* The rest is not about the chain.                                        *)
LEMMA QueueOffChain ==
  ASSUME [Next]_vars, ~ Transact, ~ MineTransaction
  PROVE  UNCHANGED contractVars
BY DEF Next, vars, Crash, Enqueue, Tick, Proceed, CallFails, GetNonce,
       EstimateGas, Broadcast, Refused, Settle, Audit

LEMMA StepOfContract ==
  ASSUME QueueInv, TryInv, [Next]_vars
  PROVE  [Contract!Next]_Contract!vars
<1>1. CASE UNCHANGED contractVars
  BY <1>1 DEF contractVars, Contract!vars, Contract!registerVars
<1>2. CASE Transact
  BY <1>2, TransactOfContract
<1>3. CASE MineTransaction
  BY <1>1, <1>3, MineOfContract, WalletOfContract
<1> QED
  BY <1>1, <1>2, <1>3, QueueOffChain

(* The contract sees only calls that it can see, however rounds overlap    *)
(* and fail.                                                               *)
LEMMA ContractRefined == Spec => Contract!Spec
BY InitOfContract, StepOfContract, TriesSound, PTL DEF Spec, Contract!Spec

(* So what is proved of the contract alone holds while it is written to.   *)
THEOREM LedgerHolds == Spec => []Contract!LedgerInv
BY ContractRefined, ContractAssumptions, Contract!LedgerCorrect, PTL

(* And with the synchronisation and others writing, the register is still  *)
(* a book that only grows, as FineLedger promises.                         *)
THEOREM SyncKeepsLedger == Spec => Contract!ImplementsLedger
BY ContractRefined, ContractAssumptions, Contract!Refinement, PTL

-----------------------------------------------------------------------------
(* What a step of a round amounts to.                                      *)

OnChain == {"REGISTER", "UPDATE_STATUS"}

(* The operation ends, or waits again, and its round is over.              *)
Ended(r) ==
  LET op == round[r].op IN
  /\ round' = [round EXCEPT ![r] = Idle]
  /\ \/ /\ Effected(op) # {} /\ UNCHANGED retryCount
        /\ status' = [status EXCEPT ![op] = "COMPLETED"]
     \/ /\ status' = [status EXCEPT ![op] = "FAILED"] /\ UNCHANGED retryCount
     \/ UNCHANGED status /\ retryCount' = [retryCount EXCEPT ![op] = @ + 1]

GoesOn ==
  /\ UNCHANGED <<status, retryCount>>
  /\ \A q \in Rounds : round'[q].op = round[q].op

LEMMA RoundStep ==
  ASSUME QueueInv, TryInv, NEW r \in Rounds, Proceed(r) \/ CallFails(r)
  PROVE  /\ round[r].op \in Ops /\ round[r].op \in WorkedOn
         /\ UNCHANGED <<ledger, outcome>> /\ UNCHANGED contractVars
         /\ Ended(r) \/ GoesOn
         /\ slots' = slots \/ Broadcast(r)
<1>1. /\ round[r].at # "idle" /\ UNCHANGED <<ledger, outcome>>
      /\ UNCHANGED contractVars
      /\ slots' = slots \/ Broadcast(r)
  BY DEF Proceed, GetNonce, EstimateGas, Broadcast, Refused, Settle, Audit,
         CallFails, At, nodeVars
<1>2. round[r].op \in Ops /\ round[r].op \in WorkedOn
  BY <1>1, OperationsAssumption
     DEF QueueInv, QueueTypes, RoundsBusy, Rest, WorkedOn
<1>3. CASE Finish(r) /\ round[r].at = "audit"
  <2>1. Effected(round[r].op) # {}
    BY <1>3 DEF TryInv, AuditsEffected
  <2> QED
    BY <1>1, <1>2, <1>3, <2>1 DEF Finish, Complete, Ended
<1>4. CASE Fail(r)
  BY <1>1, <1>2, <1>4 DEF Fail, FailOrRetry, CountRetry, Ended
<1>5. CASE UNCHANGED queueVars /\ \E phase : Await(r, phase)
  <2>1. \A q \in Rounds : round'[q].op = round[q].op
    BY <1>5 DEF Await, QueueInv, QueueTypes, Rest
  <2> QED
    BY <1>1, <1>2, <1>5, <2>1 DEF GoesOn, queueVars
<1>6. CASE GetNonce(r)
  <2>1. \A q \in Rounds : round'[q].op = round[q].op
    BY <1>6 DEF GetNonce, QueueInv, QueueTypes, Rest
  <2> QED
    BY <1>1, <1>2, <1>6, <2>1 DEF GoesOn, GetNonce, queueVars
<1> QED
  BY <1>3, <1>4, <1>5, <1>6
     DEF Proceed, EstimateGas, Broadcast, Refused, Settle, Audit, CallFails,
         Await, At

(* What the timer does: it ends the operation at the head of the queue at  *)
(* once, or starts a round for it.                                         *)
Started(r, op) ==
  /\ Kind[op] \in OnChain /\ UNCHANGED <<status, retryCount>>
  /\ up = {"hyperledger", "ethereum"}
  /\ round' = [round EXCEPT ![r] = [op |-> op, at |-> "nonce", nonce |-> 0]]

Dismissed(op) ==
  /\ UNCHANGED round
  /\ \/ /\ Kind[op] = "APPEAL" /\ UNCHANGED retryCount
        /\ status' = [status EXCEPT ![op] = "COMPLETED"]
     \/ /\ status' = [status EXCEPT ![op] = "FAILED"] /\ UNCHANGED retryCount
     \/ UNCHANGED status /\ retryCount' = [retryCount EXCEPT ![op] = @ + 1]

LEMMA TickStep ==
  ASSUME QueueInv, NEW r \in Rounds, Tick(r)
  PROVE  \E op \in Ops :
           /\ op \notin WorkedOn /\ status[op] = "PENDING"
           /\ UNCHANGED nodeVars /\ UNCHANGED contractVars
           /\ Started(r, op) \/ Dismissed(op)
           /\ ledger' = IF Kind[op] = "UPDATE_STATUS" THEN Ledgered(op)
                                                     ELSE ledger
<1> DEFINE op == Head(syncQueue)
<1>1. /\ op \in Ops /\ op \notin WorkedOn /\ status[op] = "PENDING"
  BY HeadPending DEF Tick
<1>2. UNCHANGED nodeVars /\ UNCHANGED contractVars
  BY DEF Tick
<1>3. /\ Started(r, op) \/ Dismissed(op)
      /\ ledger' = IF Kind[op] = "UPDATE_STATUS" THEN Ledgered(op) ELSE ledger
  <2> HIDE DEF op
  <2>1. CASE Kind[op] = "APPEAL" /\ Complete(op, Shifted(syncQueue))
             /\ UNCHANGED <<round, ledger>>
    BY <2>1 DEF Complete, Dismissed
  <2>2. CASE Kind[op] = "CANCEL" /\ FailOrRetry(op, Shifted(syncQueue))
             /\ UNCHANGED <<round, ledger>>
    BY <2>2 DEF FailOrRetry, CountRetry, Dismissed
  <2>3. CASE Kind[op] = "REGISTER" /\ syncFineToPublic(r, op)
    BY <2>3 DEF syncFineToPublic, CallContract, FailOrRetry, CountRetry,
                Dismissed, Started, OnChain
  <2>4. CASE Kind[op] = "UPDATE_STATUS" /\ syncStatusUpdate(r, op)
    BY <2>4 DEF syncStatusUpdate, CallContract, FailOrRetry, CountRetry,
                Dismissed, Started, OnChain
  <2> QED
    BY <2>1, <2>2, <2>3, <2>4 DEF op, Tick
<1> HIDE DEF op
<1> QED
  BY <1>1, <1>2, <1>3

-----------------------------------------------------------------------------
(* Only registrations and updates reach the chain, and one that is         *)
(* reported as done has had its effect there.                              *)

KindsOnChain ==
  /\ \A op \in WorkedOn : Kind[op] \in OnChain
  /\ \A n \in DOMAIN slots : Kind[slots[n][1]] \in OnChain

CompletedEffected ==
  \A op \in Ops : status[op] = "COMPLETED" /\ Kind[op] \in OnChain =>
    Effected(op) # {}

LEMMA EffectsStay ==
  ASSUME QueueInv, TryInv, [Next]_vars
  PROVE  \A op : Effected(op) \subseteq Effected(op)'
<1>1. ASSUME \A n \in DOMAIN outcome :
               /\ n \in DOMAIN outcome' /\ outcome'[n] = outcome[n]
               /\ slots'[n] = slots[n]
      PROVE  \A op : Effected(op) \subseteq Effected(op)'
  BY <1>1 DEF Effected
<1>2. /\ outcome \in Seq({"success", "reverted"})
      /\ DOMAIN outcome = 1 .. Len(outcome)
  BY DEF TryInv, OutcomeTypes
<1>3. CASE UNCHANGED nodeVars
  BY <1>1, <1>3 DEF nodeVars
<1>4. CASE \E r \in Rounds : Broadcast(r)
  BY <1>1, <1>2, <1>4, Sends
<1>5. CASE MineTransaction
  <2>1. slots' = slots /\ \E st \in {"success", "reverted"} :
                             outcome' = Append(outcome, st)
    BY <1>5 DEF MineTransaction
  <2> QED
    BY <1>1, <1>2, <2>1
<1> QED
  BY <1>3, <1>4, <1>5
     DEF Next, vars, Crash, Enqueue, Tick, Proceed, CallFails, GetNonce,
         EstimateGas, Refused, Settle, Audit, Transact

(* What a round works on after a step it worked on before, in the same     *)
(* try, or the timer has just handed it over.                              *)
LEMMA WorkGoesOn ==
  ASSUME QueueInv, TryInv, [Next]_vars, NEW op \in WorkedOn'
  PROVE  \/ op \in WorkedOn /\ retryCount'[op] = retryCount[op]
         \/ op \notin WorkedOn /\ \E r \in Rounds : Tick(r) /\ Started(r, op)
<1>1. /\ round \in [Rounds -> Rest] /\ retryCount \in [Ops -> Nat]
      /\ OnePlace /\ NoOp \notin Ops
  BY Accounted, OperationsAssumption DEF QueueInv, QueueTypes
<1>2. PICK q \in Rounds : round'[q].op = op /\ op # NoOp
  BY DEF WorkedOn
<1>3. ASSUME NEW r \in Rounds, Ended(r), round[r].op \in Ops
      PROVE  op \in WorkedOn /\ retryCount'[op] = retryCount[op]
  <2>1. q # r
    BY <1>1, <1>2, <1>3 DEF Ended, Idle
  <2>2. round[q].op = op
    BY <1>1, <1>2, <1>3, <2>1 DEF Ended
  <2>3. op # round[r].op
    BY <1>1, <1>2, <2>1, <2>2 DEF OnePlace
  <2>4. retryCount'[op] = retryCount[op]
    <3>1. op \in Ops
      BY <1>1, <1>2, <2>2 DEF Rest
    <3> QED
      BY <1>1, <1>3, <2>3, <3>1 DEF Ended
  <2> QED
    BY <1>2, <2>2, <2>4 DEF WorkedOn
<1>4. CASE GoesOn
  BY <1>2, <1>4 DEF GoesOn, WorkedOn
<1>5. CASE \E r \in Rounds : Proceed(r) \/ CallFails(r)
  <2>1. PICK r \in Rounds : round[r].op \in Ops /\ (Ended(r) \/ GoesOn)
    BY <1>5, RoundStep
  <2> QED
    BY <1>3, <1>4, <2>1
<1>6. CASE \E r \in Rounds : Tick(r)
  <2>1. PICK r \in Rounds : Tick(r)
    BY <1>6
  <2>2. PICK o \in Ops : /\ o \notin WorkedOn
                         /\ Started(r, o) \/ Dismissed(o)
    BY <2>1, TickStep
  <2>3. CASE Started(r, o)
    <3>1. CASE q = r
      <4>1. op = o
        BY <1>1, <1>2, <2>3, <3>1 DEF Started
      <4>2. Started(r, op)
        BY <2>3, <4>1 DEF Started
      <4>3. op \notin WorkedOn
        BY <2>2, <4>1
      <4> QED
        BY <2>1, <4>2, <4>3
    <3>2. CASE q # r
      BY <1>1, <1>2, <2>3, <3>2 DEF Started, WorkedOn
    <3> QED
      BY <3>1, <3>2
  <2>4. CASE Dismissed(o)
    <3>1. op \in WorkedOn /\ op # o /\ op \in Ops
      BY <1>1, <1>2, <2>2, <2>4 DEF Dismissed, WorkedOn, Rest
    <3> QED
      BY <1>1, <2>4, <3>1 DEF Dismissed
  <2> QED
    BY <2>2, <2>3, <2>4
<1>7. CASE UNCHANGED <<retryCount, round>>
  BY <1>2, <1>7 DEF WorkedOn
<1>8. CASE Crash
  BY <1>2, <1>8 DEF Crash, Idle
<1> QED
  BY <1>5, <1>6, <1>7, <1>8
     DEF Next, vars, queueVars, Enqueue, MineTransaction, Transact

(* Every transaction that is new is the try of an operation that a round   *)
(* works on.                                                               *)
LEMMA SentByRound ==
  ASSUME QueueInv, TryInv, [Next]_vars, NEW n \in DOMAIN slots'
  PROVE  \/ n \in DOMAIN slots /\ slots'[n] = slots[n]
         \/ \E op \in WorkedOn : slots'[n] = Try(op)
<1>1. CASE slots' = slots
  BY <1>1
<1>2. CASE \E r \in Rounds : Broadcast(r)
  <2>1. PICK r \in Rounds : Broadcast(r)
    BY <1>2
  <2>2. round[r].op \in WorkedOn
    BY <2>1, RoundStep DEF Proceed
  <2> QED
    BY <2>1, <2>2, Sends
<1> QED
  BY <1>1, <1>2
     DEF Next, vars, nodeVars, Crash, Enqueue, Tick, Proceed, CallFails,
         GetNonce, EstimateGas, Refused, Settle, Audit, MineTransaction,
         Transact

(* How an operation comes to be reported as done.                          *)
LEMMA HowCompleted ==
  ASSUME QueueInv, TryInv, [Next]_vars, NEW op \in Ops,
         status'[op] = "COMPLETED"
  PROVE  \/ status[op] = "COMPLETED"
         \/ Kind[op] = "APPEAL"
         \/ Effected(op) # {}
<1>1. status \in [Ops -> Statuses]
  BY DEF QueueInv, QueueTypes
<1>2. CASE \E r \in Rounds : Proceed(r) \/ CallFails(r)
  <2>1. PICK r \in Rounds : round[r].op \in Ops /\ (Ended(r) \/ GoesOn)
    BY <1>2, RoundStep
  <2> QED
    BY <1>1, <2>1 DEF Ended, GoesOn
<1>3. CASE \E r \in Rounds : Tick(r)
  <2>1. PICK r \in Rounds, o \in Ops : Started(r, o) \/ Dismissed(o)
    BY <1>3, TickStep
  <2> QED
    BY <1>1, <2>1 DEF Started, Dismissed
<1>4. CASE Crash
  BY <1>1, <1>4 DEF Crash
<1>5. CASE \E o \in Ops : Enqueue(o)
  BY <1>1, <1>5 DEF Enqueue
<1>6. CASE status' = status
  BY <1>6
<1> QED
  BY <1>2, <1>3, <1>4, <1>5, <1>6
     DEF Next, vars, queueVars, MineTransaction, Transact

LEMMA StepKinds ==
  ASSUME QueueInv, TryInv, KindsOnChain, CompletedEffected, [Next]_vars
  PROVE  KindsOnChain' /\ CompletedEffected'
<1>1. \A op \in WorkedOn' : Kind[op] \in OnChain
  BY WorkGoesOn DEF KindsOnChain, Started
<1>2. ASSUME NEW n \in DOMAIN slots' PROVE Kind[slots'[n][1]] \in OnChain
  <2>1. CASE n \in DOMAIN slots /\ slots'[n] = slots[n]
    BY <2>1 DEF KindsOnChain
  <2>2. ASSUME NEW op \in WorkedOn, slots'[n] = Try(op)
        PROVE  Kind[slots'[n][1]] \in OnChain
    <3>1. slots'[n][1] = op
      BY <2>2 DEF Try
    <3> QED
      BY <3>1 DEF KindsOnChain
  <2> QED
    BY <2>1, <2>2, SentByRound
<1>3. ASSUME NEW op \in Ops, status'[op] = "COMPLETED", Kind[op] \in OnChain
      PROVE  Effected(op)' # {}
  <2>1. Effected(op) # {}
    BY <1>3, HowCompleted DEF CompletedEffected, OnChain
  <2> QED
    BY <2>1, EffectsStay
<1> QED
  BY <1>1, <1>2, <1>3 DEF KindsOnChain, CompletedEffected

-----------------------------------------------------------------------------
(* What the calls that change the register do to it.                       *)

Submitted == OtherFines \cup {PublicFine(n) : n \in Numbers}

LEMMA LedgerTypes ==
  ASSUME Contract!LedgerInv
  PROVE  /\ fineIds \in 0 .. MaxFines /\ MaxFines \in Nat
         /\ fines \in [1 .. MaxFines -> Contract!Fine]
         /\ fineStatusHistory
              \in [1 .. MaxFines -> Seq(Contract!FineStatusUpdate)]
         /\ \A id \in 1 .. MaxFines :
              IF id <= fineIds
              THEN /\ Len(fineStatusHistory[id]) >= 1
                   /\ fineStatusHistory[id][Len(fineStatusHistory[id])].newState
                        = fines[id].currentState
              ELSE fineStatusHistory[id] = <<>> /\ fines[id] = Contract!ZeroFine
<1>1. /\ fineIds \in 0 .. MaxFines /\ MaxFines \in Nat
      /\ fines \in [1 .. MaxFines -> Contract!Fine]
      /\ fineStatusHistory \in [1 .. MaxFines -> Seq(Contract!FineStatusUpdate)]
  BY RoomAssumption
     DEF Contract!LedgerInv, Contract!TypeOK, Contract!FineIds
<1>2. ASSUME NEW id \in 1 .. MaxFines
      PROVE  IF id <= fineIds
             THEN /\ Len(fineStatusHistory[id]) >= 1
                  /\ fineStatusHistory[id][Len(fineStatusHistory[id])].newState
                       = fines[id].currentState
             ELSE fineStatusHistory[id] = <<>> /\ fines[id] = Contract!ZeroFine
  <2>1. CASE id <= fineIds
    <3>1. PICK h : h = fineStatusHistory[id]
      OBVIOUS
    <3>2. fines[id].id = id
      BY <2>1 DEF Contract!LedgerInv, Contract!IdsAreDense, Contract!FineIds
    <3>3. Contract!Accounts(h, fines[id].currentState)
      BY <1>2, <3>1, <3>2
         DEF Contract!LedgerInv, Contract!HistoryExplainsState,
             Contract!Exists, Contract!FineIds
    <3>4. h \in Seq(Contract!FineStatusUpdate) /\ h # <<>>
      BY <1>1, <3>1, <3>3 DEF Contract!Accounts
    <3>5. Len(h) >= 1
      BY <3>4
    <3> QED
      BY <2>1, <3>1, <3>3, <3>5 DEF Contract!Accounts
  <2>2. CASE ~ (id <= fineIds)
    BY <2>2 DEF Contract!LedgerInv, Contract!IdsAreDense, Contract!FineIds
  <2> QED
    BY <2>1, <2>2
<1> QED
  BY <1>1, <1>2

(* One fine more, whose history begins.                                    *)
LEMMA Registers ==
  ASSUME Contract!LedgerInv, NEW sender \in Address, NEW s \in Submitted,
         Contract!registerFine(sender, s)
  PROVE  /\ fineIds' = fineIds + 1 /\ fineIds' \in 1 .. MaxFines
         /\ fines'[fineIds'].externalSystemId = s.externalSystemId
         /\ fines'[fineIds'].plateNumber = s.plateNumber
         /\ fines'[fineIds'].location = s.location
         /\ fines'[fineIds'].infractionType = s.infractionType
         /\ fines'[fineIds'].cost = s.cost
         /\ fines'[fineIds'].currentState = "PENDING"
         /\ Len(fineStatusHistory'[fineIds']) = 1
         /\ fineStatusHistory[fineIds'] = <<>>
         /\ \A id \in (1 .. MaxFines) \ {fineIds'} :
               /\ fines'[id] = fines[id]
               /\ fineStatusHistory'[id] = fineStatusHistory[id]
<1>1. /\ fineIds \in 0 .. MaxFines /\ MaxFines \in Nat
      /\ fines \in [1 .. MaxFines -> Contract!Fine]
      /\ fineStatusHistory \in [1 .. MaxFines -> Seq(Contract!FineStatusUpdate)]
  BY LedgerTypes
<1>2. /\ fineIds' = fineIds + 1 /\ fineIds + 1 <= MaxFines
      /\ fines' = [fines EXCEPT ![fineIds + 1] =
                     Contract!FineOf(fineIds + 1, s, sender, block)]
  BY DEF Contract!registerFine, Contract!newFineId
<1>3. PICK u : u = Contract!StatusUpdate("PENDING", "PENDING", sender)
  OBVIOUS
<1>4. fineStatusHistory' =
        [fineStatusHistory EXCEPT ![fineIds + 1] = Append(@, u)]
  BY <1>3 DEF Contract!registerFine, Contract!newFineId
<1>5. fineIds + 1 \in 1 .. MaxFines
  BY <1>1, <1>2
<1>6. fineStatusHistory[fineIds + 1] = <<>>
  <2>1. ~ (fineIds + 1 <= fineIds)
    BY <1>1
  <2> QED
    BY <1>5, <2>1, LedgerTypes
<1>7. fineStatusHistory'[fineIds + 1] = <<u>>
  BY <1>1, <1>4, <1>5, <1>6
<1>8. Len(<<u>>) = 1
  OBVIOUS
<1>9. fines'[fineIds + 1] = Contract!FineOf(fineIds + 1, s, sender, block)
  BY <1>1, <1>2, <1>5
<1> QED
  BY <1>1, <1>2, <1>4, <1>5, <1>6, <1>7, <1>8, <1>9 DEF Contract!FineOf

(* One fine enters another state, and its history grows.                   *)
LEMMA Updates ==
  ASSUME Contract!LedgerInv, NEW sender \in Address, NEW id \in 1 .. MaxFines,
         NEW st, Contract!updateFineStatus(sender, id, st)
  PROVE  /\ fineIds' = fineIds /\ id <= fineIds
         /\ fines' = [fines EXCEPT ![id].currentState = st]
         /\ \E u : /\ fineStatusHistory'
                        = [fineStatusHistory EXCEPT ![id] = Append(@, u)]
                   /\ u.newState = st /\ u.updatedBy = sender
<1>1. /\ fineIds \in 0 .. MaxFines /\ MaxFines \in Nat
  BY LedgerTypes
<1>2. id <= fineIds
  <2>1. fines[id].id # 0
    BY DEF Contract!updateFineStatus, Contract!Updatable, Contract!Exists
  <2>2. CASE ~ (id <= fineIds)
    BY <2>1, <2>2, LedgerTypes DEF Contract!ZeroFine
  <2> QED
    BY <2>2
<1>3. PICK u : u = Contract!StatusUpdate(fines[id].currentState, st, sender)
  OBVIOUS
<1>4. u.newState = st /\ u.updatedBy = sender
  BY <1>3 DEF Contract!StatusUpdate
<1>5. fineStatusHistory' = [fineStatusHistory EXCEPT ![id] = Append(@, u)]
  BY <1>3 DEF Contract!updateFineStatus
<1> QED
  BY <1>2, <1>4, <1>5 DEF Contract!updateFineStatus

-----------------------------------------------------------------------------
(* What they do to the fines and the updates that the accounts count.      *)

LEMMA RegistrationCounts ==
  ASSUME Contract!LedgerInv, NEW sender \in Address, NEW s \in Submitted,
         Contract!registerFine(sender, s), NEW n \in Numbers
  PROVE  /\ PublicUpdates(n)' = PublicUpdates(n)
         /\ PublicFines(n)' = PublicFines(n) \cup
              IF s.externalSystemId = IdText[n] THEN {fineIds + 1} ELSE {}
         /\ fineIds + 1 \notin PublicFines(n)
<1>1. fineIds \in 0 .. MaxFines /\ MaxFines \in Nat /\ n \in 1 .. MaxFines
  BY LedgerTypes, OperationsAssumption DEF Numbers
<1>2. PublicUpdates(n)' = PublicUpdates(n)
  <2>1. CASE n = fineIds'
    <3>1. fineStatusHistory[n] = <<>> /\ Len(fineStatusHistory'[n]) = 1
      BY <2>1, Registers
    <3>2. \A k : k \notin 2 .. 1
      OBVIOUS
    <3>3. Len(<<>>) = 0 /\ \A k : k \notin 2 .. 0
      OBVIOUS
    <3>4. /\ 2 .. Len(fineStatusHistory[n]) = {}
          /\ 2 .. Len(fineStatusHistory'[n]) = {}
      BY <3>1, <3>2, <3>3
    <3> QED
      BY <3>4 DEF PublicUpdates
  <2>2. CASE n # fineIds'
    <3>1. fineStatusHistory'[n] = fineStatusHistory[n]
      BY <1>1, <2>2, Registers
    <3> QED
      BY <3>1 DEF PublicUpdates
  <2> QED
    BY <2>1, <2>2
<1>3. /\ fineIds' = fineIds + 1 /\ fineIds' \in 1 .. MaxFines
      /\ fines'[fineIds'].externalSystemId = s.externalSystemId
      /\ \A id \in 1 .. fineIds : fines'[id] = fines[id]
  <2>1. \A id \in 1 .. fineIds : id \in (1 .. MaxFines) \ {fineIds + 1}
    BY <1>1
  <2>2. /\ fineIds' = fineIds + 1 /\ fineIds' \in 1 .. MaxFines
        /\ fines'[fineIds'].externalSystemId = s.externalSystemId
        /\ \A id \in (1 .. MaxFines) \ {fineIds'} : fines'[id] = fines[id]
    BY Registers
  <2> QED
    BY <2>1, <2>2
<1>4. fineIds + 1 \notin PublicFines(n)
  BY <1>1 DEF PublicFines
<1>5. 1 .. fineIds' = (1 .. fineIds) \cup {fineIds + 1}
  BY <1>1, <1>3
<1>6. PublicFines(n)' = {id \in 1 .. fineIds' :
                          fines'[id].externalSystemId = IdText[n]}
  BY DEF PublicFines
<1>7. \A id : id \in PublicFines(n)' <=>
               \/ id \in PublicFines(n)
               \/ id = fineIds + 1 /\ s.externalSystemId = IdText[n]
  BY <1>3, <1>5, <1>6 DEF PublicFines
<1>8. PublicFines(n)' = PublicFines(n) \cup
        IF s.externalSystemId = IdText[n] THEN {fineIds + 1} ELSE {}
  BY <1>7
<1> QED
  BY <1>2, <1>4, <1>8

LEMMA UpdateCounts ==
  ASSUME Contract!LedgerInv, NEW sender \in Address, NEW id \in 1 .. MaxFines,
         NEW st, Contract!updateFineStatus(sender, id, st), NEW n \in Numbers
  PROVE  /\ PublicFines(n)' = PublicFines(n)
         /\ PublicUpdates(n)' = PublicUpdates(n) \cup
              IF id = n /\ st = "PENDING" THEN {Len(fineStatusHistory[n]) + 1}
                                          ELSE {}
         /\ Len(fineStatusHistory[n]) + 1 \notin PublicUpdates(n)
<1>1. /\ fineIds \in 0 .. MaxFines /\ MaxFines \in Nat /\ n \in 1 .. MaxFines
      /\ fines \in [1 .. MaxFines -> Contract!Fine]
      /\ fineStatusHistory \in [1 .. MaxFines -> Seq(Contract!FineStatusUpdate)]
      /\ 1 .. fineIds \subseteq 1 .. MaxFines
  BY LedgerTypes, OperationsAssumption DEF Numbers
<1>2. PICK u :
        /\ fineStatusHistory' = [fineStatusHistory EXCEPT ![id] = Append(@, u)]
        /\ u.newState = st
  BY Updates
<1>3. /\ fineIds' = fineIds /\ id <= fineIds
      /\ fines' = [fines EXCEPT ![id].currentState = st]
  BY Updates
<1>4. PublicFines(n)' = PublicFines(n)
  <2>1. \A i \in 1 .. MaxFines :
          fines'[i].externalSystemId = fines[i].externalSystemId
    BY <1>1, <1>3 DEF Contract!Fine
  <2> QED
    BY <1>1, <1>3, <2>1 DEF PublicFines
<1>5. PICK h : h = fineStatusHistory[n]
  OBVIOUS
<1>6. h \in Seq(Contract!FineStatusUpdate) /\ Len(h) \in Nat
  BY <1>1, <1>5
<1>7. Len(h) + 1 \notin PublicUpdates(n)
  BY <1>5, <1>6 DEF PublicUpdates
<1>8. CASE id = n
  <2>1. fineStatusHistory'[n] = Append(h, u)
    BY <1>1, <1>2, <1>5, <1>8
  <2>2. Len(h) >= 1
    BY <1>1, <1>3, <1>5, <1>8, LedgerTypes
  <2>3. /\ Len(Append(h, u)) = Len(h) + 1
        /\ Append(h, u)[Len(h) + 1] = u
        /\ \A k \in 1 .. Len(h) : Append(h, u)[k] = h[k]
    BY <1>6
  <2>4. PublicUpdates(n)' = {k \in 2 .. Len(h) + 1 :
                               Append(h, u)[k].newState = "PENDING"}
    BY <2>1, <2>3 DEF PublicUpdates
  <2>5. /\ 2 .. Len(h) + 1 = (2 .. Len(h)) \cup {Len(h) + 1}
        /\ 2 .. Len(h) \subseteq 1 .. Len(h)
    BY <1>6, <2>2
  <2>6. \A k : k \in PublicUpdates(n)' <=>
                \/ k \in PublicUpdates(n)
                \/ k = Len(h) + 1 /\ st = "PENDING"
    BY <1>2, <1>5, <2>3, <2>4, <2>5 DEF PublicUpdates
  <2> QED
    BY <1>4, <1>5, <1>7, <1>8, <2>6
<1>9. CASE id # n
  <2>1. fineStatusHistory'[n] = h
    BY <1>1, <1>2, <1>5, <1>9
  <2>2. PublicUpdates(n)' = PublicUpdates(n)
    BY <1>5, <2>1 DEF PublicUpdates
  <2> QED
    BY <1>4, <1>5, <1>7, <1>9, <2>2
<1> QED
  BY <1>8, <1>9

LEMMA CountedFinite ==
  ASSUME Contract!LedgerInv, NEW n \in Numbers
  PROVE  IsFiniteSet(PublicFines(n)) /\ IsFiniteSet(PublicUpdates(n))
<1>1. /\ fineIds \in Nat /\ n \in 1 .. MaxFines
      /\ fineStatusHistory[n] \in Seq(Contract!FineStatusUpdate)
  BY LedgerTypes, OperationsAssumption DEF Numbers
<1>2. Len(fineStatusHistory[n]) \in Nat
  BY <1>1
<1>3. IsFiniteSet(1 .. fineIds)
  BY <1>1, FS_Interval
<1>4. IsFiniteSet(2 .. Len(fineStatusHistory[n]))
  <2>1. 2 \in Int /\ Len(fineStatusHistory[n]) \in Int
    BY <1>2
  <2> QED
    BY <2>1, FS_Interval
<1>5. /\ PublicFines(n) \subseteq 1 .. fineIds
      /\ PublicUpdates(n) \subseteq 2 .. Len(fineStatusHistory[n])
  BY DEF PublicFines, PublicUpdates
<1> QED
  BY <1>3, <1>4, <1>5, FS_Subset

(* The transactions of one kind about one fine that succeeded.             *)
Successes(kind, n) ==
  {j \in DOMAIN outcome : slots[j][1] \in Of(kind, n) /\ outcome[j] = "success"}

Balanced(n) ==
  /\ Cardinality(PublicFines(n)) = Cardinality(Successes("REGISTER", n))
  /\ Cardinality(PublicUpdates(n)) = Cardinality(Successes("UPDATE_STATUS", n))

LEMMA SuccessesFinite ==
  ASSUME OutcomeTypes, NEW kind, NEW n
  PROVE  IsFiniteSet(Successes(kind, n))
<1>1. IsFiniteSet(1 .. Len(outcome)) /\ DOMAIN outcome = 1 .. Len(outcome)
  BY FS_Interval DEF OutcomeTypes
<1>2. Successes(kind, n) \subseteq 1 .. Len(outcome)
  BY <1>1 DEF Successes
<1> QED
  BY <1>1, <1>2, FS_Subset

LEMMA SuccessesKept ==
  ASSUME OutcomeTypes, outcome' = outcome,
         \A j \in 1 .. Len(outcome) : slots'[j] = slots[j], NEW kind, NEW n
  PROVE  Successes(kind, n)' = Successes(kind, n)
BY DEF OutcomeTypes, Successes, Of

LEMMA SuccessesGrow ==
  ASSUME OutcomeTypes, slots' = slots, NEW st \in {"success", "reverted"},
         outcome' = Append(outcome, st), NEW kind, NEW n
  PROVE  /\ Successes(kind, n)' = Successes(kind, n) \cup
              IF st = "success" /\ slots[Len(outcome) + 1][1] \in Of(kind, n)
              THEN {Len(outcome) + 1} ELSE {}
         /\ Len(outcome) + 1 \notin Successes(kind, n)
<1> DEFINE j == Len(outcome) + 1
<1>1. /\ outcome \in Seq({"success", "reverted"})
      /\ DOMAIN outcome = 1 .. Len(outcome) /\ Len(outcome) \in Nat
  BY DEF OutcomeTypes
<1>2. /\ j \notin DOMAIN outcome
      /\ DOMAIN outcome' = DOMAIN outcome \cup {j} /\ outcome'[j] = st
      /\ \A m \in DOMAIN outcome : outcome'[m] = outcome[m]
  BY <1>1
<1> HIDE DEF j
<1>3. j \notin Successes(kind, n)
  BY <1>2 DEF Successes
<1>4. Successes(kind, n)' =
        {m \in DOMAIN outcome' : /\ slots[m][1] \in Of(kind, n)
                                 /\ outcome'[m] = "success"}
  BY DEF Successes, Of
<1>5. \A m : m \in Successes(kind, n)' <=>
        \/ m \in Successes(kind, n)
        \/ m = j /\ st = "success" /\ slots[j][1] \in Of(kind, n)
  BY <1>2, <1>4 DEF Successes
<1> QED
  BY <1>3, <1>5 DEF j

(* The string that a fine of the synchronisation carries.                  *)
LEMMA PublicFineIs ==
  ASSUME NEW m \in Numbers
  PROVE  /\ PublicFine(m).externalSystemId = IdText[m]
         /\ PublicFine(m).plateNumber = InternalFine.plateNumber
         /\ PublicFine(m).location = InternalFine.location
         /\ PublicFine(m).infractionType = InternalFine.infractionType
         /\ PublicFine(m).cost = InternalFine.cost
BY InternalAssumption
   DEF PublicFine, registerPublicFine, publicMetadata, getInternalFineDetails

(* An effect that the accounts count comes with a transaction of the       *)
(* wallet, and the other way round.                                        *)
LEMMA OneMore ==
  ASSUME NEW S, NEW T, NEW x, NEW y, IsFiniteSet(S), IsFiniteSet(T),
         x \notin S, y \notin T, Cardinality(S) = Cardinality(T)
  PROVE  Cardinality(S \cup {x}) = Cardinality(T \cup {y})
<1>1. /\ Cardinality(S \cup {x}) = Cardinality(S) + 1
      /\ Cardinality(T \cup {y}) = Cardinality(T) + 1
  BY FS_AddElement
<1> QED
  BY <1>1

LEMMA MineBalances ==
  ASSUME QueueInv, TryInv, KindsOnChain, Contract!LedgerInv, MineTransaction,
         NEW n \in Numbers, Balanced(n)
  PROVE  Balanced(n)'
<1>1. /\ OutcomeTypes /\ slots' = slots
      /\ slots \in Seq(Ops \X Nat)
  BY DEF TryInv, MineTransaction, QueueInv, QueueTypes
<1>2. PICK j \in 1 .. Len(slots) :
        /\ j = Len(outcome) + 1 /\ slots[j][1] \in Ops
        /\ \/ /\ outcome' = Append(outcome, "success")
              /\ WalletDoes(slots[j][1])
           \/ /\ outcome' = Append(outcome, "reverted")
              /\ UNCHANGED contractVars
  BY MineOfContract
<1>3. PICK op \in Ops, m \in Numbers : op = slots[j][1] /\ m = FineId[op]
  BY <1>2 DEF Numbers
<1>4. Kind[op] \in OnChain
  BY <1>1, <1>2, <1>3 DEF KindsOnChain
<1>5. /\ IsFiniteSet(PublicFines(n)) /\ IsFiniteSet(PublicUpdates(n))
      /\ IsFiniteSet(Successes("REGISTER", n))
      /\ IsFiniteSet(Successes("UPDATE_STATUS", n))
  BY <1>1, CountedFinite, SuccessesFinite
<1>6. /\ Wallet \in Address /\ PublicFine(m) \in Submitted
      /\ m \in 1 .. MaxFines
  BY AccountsAssumption, OperationsAssumption DEF Submitted, Numbers
<1>7. CASE outcome' = Append(outcome, "reverted") /\ UNCHANGED contractVars
  <2>1. \A kind : Successes(kind, n)' = Successes(kind, n)
    BY <1>1, <1>7, SuccessesGrow
  <2>2. PublicFines(n)' = PublicFines(n) /\ PublicUpdates(n)' = PublicUpdates(n)
    BY <1>7 DEF PublicFines, PublicUpdates, contractVars
  <2> QED
    BY <2>1, <2>2 DEF Balanced
<1>8. CASE outcome' = Append(outcome, "success") /\ WalletDoes(op)
  <2>1. \A kind : /\ Successes(kind, n)' = Successes(kind, n) \cup
                       IF op \in Of(kind, n) THEN {j} ELSE {}
                  /\ j \notin Successes(kind, n)
    BY <1>1, <1>2, <1>3, <1>8, SuccessesGrow
  <2>2. CASE Kind[op] = "REGISTER"
    <3>1. Contract!registerFine(Wallet, PublicFine(m))
      BY <1>3, <1>8, <2>2 DEF WalletDoes
    <3>2. PublicFine(m).externalSystemId = IdText[n] <=> m = n
      BY PublicFineIs, OperationsAssumption
    <3>3. /\ PublicUpdates(n)' = PublicUpdates(n)
          /\ PublicFines(n)' = PublicFines(n) \cup
               IF m = n THEN {fineIds + 1} ELSE {}
          /\ fineIds + 1 \notin PublicFines(n)
      BY <1>6, <3>1, <3>2, RegistrationCounts
    <3>4. /\ Successes("UPDATE_STATUS", n)' = Successes("UPDATE_STATUS", n)
          /\ Successes("REGISTER", n)' = Successes("REGISTER", n) \cup
               IF m = n THEN {j} ELSE {}
          /\ j \notin Successes("REGISTER", n)
      BY <1>3, <2>1, <2>2 DEF Of
    <3>5. PICK one, another :
            /\ one = IF m = n THEN {fineIds + 1} ELSE {}
            /\ another = IF m = n THEN {j} ELSE {}
      OBVIOUS
    <3>6. \/ one = {fineIds + 1} /\ another = {j}
          \/ one = {} /\ another = {}
      BY <3>5
    <3>7. Cardinality(PublicFines(n)) = Cardinality(Successes("REGISTER", n))
      BY DEF Balanced
    <3>8. Cardinality(PublicFines(n) \cup one)
            = Cardinality(Successes("REGISTER", n) \cup another)
      <4>1. PICK S, T, x : /\ S = PublicFines(n)
                           /\ T = Successes("REGISTER", n)
                           /\ x = fineIds + 1
        OBVIOUS
      <4>2. /\ IsFiniteSet(S) /\ IsFiniteSet(T) /\ x \notin S /\ j \notin T
            /\ Cardinality(S) = Cardinality(T)
        BY <1>5, <3>3, <3>4, <3>7, <4>1
      <4>3. \/ one = {x} /\ another = {j}
            \/ one = {} /\ another = {}
        BY <3>6, <4>1
      <4>4. Cardinality(S \cup {x}) = Cardinality(T \cup {j})
        BY <4>2, OneMore
      <4>5. S \cup {} = S /\ T \cup {} = T
        OBVIOUS
      <4>6. Cardinality(S \cup one) = Cardinality(T \cup another)
        BY <4>2, <4>3, <4>4, <4>5
      <4> QED
        BY <4>1, <4>6
    <3>9. Cardinality(PublicFines(n)') = Cardinality(Successes("REGISTER", n)')
      BY <3>3, <3>4, <3>5, <3>8
    <3> QED
      BY <3>3, <3>4, <3>9 DEF Balanced
  <2>3. CASE Kind[op] = "UPDATE_STATUS"
    <3>1. Contract!updateFineStatus(Wallet, m, "PENDING")
      BY <1>3, <1>8, <2>3 DEF WalletDoes
    <3>2. PICK k : k = Len(fineStatusHistory[n]) + 1
      OBVIOUS
    <3>3. /\ PublicFines(n)' = PublicFines(n)
          /\ PublicUpdates(n)' = PublicUpdates(n) \cup
               IF m = n THEN {k} ELSE {}
          /\ k \notin PublicUpdates(n)
      BY <1>6, <3>1, <3>2, UpdateCounts
    <3>4. /\ Successes("REGISTER", n)' = Successes("REGISTER", n)
          /\ Successes("UPDATE_STATUS", n)' = Successes("UPDATE_STATUS", n) \cup
               IF m = n THEN {j} ELSE {}
          /\ j \notin Successes("UPDATE_STATUS", n)
      BY <1>3, <2>1, <2>3 DEF Of
    <3>5. PICK one, another :
            /\ one = IF m = n THEN {k} ELSE {}
            /\ another = IF m = n THEN {j} ELSE {}
      OBVIOUS
    <3>6. \/ one = {k} /\ another = {j}
          \/ one = {} /\ another = {}
      BY <3>5
    <3>7. Cardinality(PublicUpdates(n))
            = Cardinality(Successes("UPDATE_STATUS", n))
      BY DEF Balanced
    <3>8. Cardinality(PublicUpdates(n) \cup one)
            = Cardinality(Successes("UPDATE_STATUS", n) \cup another)
      <4>1. PICK S, T, x : /\ S = PublicUpdates(n)
                           /\ T = Successes("UPDATE_STATUS", n)
                           /\ x = k
        OBVIOUS
      <4>2. /\ IsFiniteSet(S) /\ IsFiniteSet(T) /\ x \notin S /\ j \notin T
            /\ Cardinality(S) = Cardinality(T)
        BY <1>5, <3>3, <3>4, <3>7, <4>1
      <4>3. \/ one = {x} /\ another = {j}
            \/ one = {} /\ another = {}
        BY <3>6, <4>1
      <4>4. Cardinality(S \cup {x}) = Cardinality(T \cup {j})
        BY <4>2, OneMore
      <4>5. S \cup {} = S /\ T \cup {} = T
        OBVIOUS
      <4>6. Cardinality(S \cup one) = Cardinality(T \cup another)
        BY <4>2, <4>3, <4>4, <4>5
      <4> QED
        BY <4>1, <4>6
    <3>9. Cardinality(PublicUpdates(n)')
            = Cardinality(Successes("UPDATE_STATUS", n)')
      BY <3>3, <3>4, <3>5, <3>8
    <3> QED
      BY <3>3, <3>4, <3>9 DEF Balanced
  <2> QED
    BY <1>4, <2>2, <2>3 DEF OnChain
<1> QED
  BY <1>2, <1>3, <1>7, <1>8

LEMMA OthersBalance ==
  ASSUME QueueInv, TryInv, Contract!LedgerInv, OthersDo, UNCHANGED nodeVars,
         NEW n \in Numbers, Balanced(n)
  PROVE  Balanced(n)'
<1>1. \A kind : Successes(kind, n)' = Successes(kind, n)
  BY DEF Successes, Of, nodeVars
<1>2. PublicFines(n)' = PublicFines(n) /\ PublicUpdates(n)' = PublicUpdates(n)
  <2>1. ASSUME NEW s \in OtherFines, Contract!registerFine(Deployer, s)
        PROVE  /\ PublicFines(n)' = PublicFines(n)
               /\ PublicUpdates(n)' = PublicUpdates(n)
    <3>1. s \in Submitted /\ Deployer \in Address
      BY AccountsAssumption DEF Submitted
    <3>2. s.externalSystemId # IdText[n]
      BY OthersAssumption
    <3> QED
      BY <2>1, <3>1, <3>2, RegistrationCounts
  <2>2. ASSUME NEW id \in Contract!FineIds, NEW st \in OtherStates,
               Contract!updateFineStatus(Deployer, id, st)
        PROVE  /\ PublicFines(n)' = PublicFines(n)
               /\ PublicUpdates(n)' = PublicUpdates(n)
    <3>1. id \in 1 .. MaxFines /\ Deployer \in Address /\ st # "PENDING"
      BY AccountsAssumption, OthersAssumption DEF Contract!FineIds
    <3>2. PICK sender, more : /\ sender = Deployer
                              /\ more = {Len(fineStatusHistory[n]) + 1}
      OBVIOUS
    <3>3. Contract!updateFineStatus(sender, id, st)
      BY <2>2, <3>2
    <3>4. /\ PublicFines(n)' = PublicFines(n)
          /\ PublicUpdates(n)' = PublicUpdates(n) \cup
               IF id = n /\ st = "PENDING" THEN more ELSE {}
      BY <3>1, <3>2, <3>3, UpdateCounts
    <3> QED
      BY <3>1, <3>4
  <2>3. CASE UNCHANGED Contract!registerVars
    BY <2>3 DEF PublicFines, PublicUpdates, Contract!registerVars
  <2> QED
    BY <2>1, <2>2, <2>3 DEF OthersDo
<1> QED
  BY <1>1, <1>2 DEF Balanced

LEMMA StepBalances ==
  ASSUME QueueInv, TryInv, KindsOnChain, Contract!LedgerInv, [Next]_vars,
         NEW n \in Numbers, Balanced(n)
  PROVE  Balanced(n)'
<1>1. CASE MineTransaction
  BY <1>1, MineBalances
<1>2. CASE Transact
  BY <1>2, TransactOfContract, OthersBalance DEF Transact
<1>3. CASE ~ Transact /\ ~ MineTransaction
  <2>1. PublicFines(n)' = PublicFines(n) /\ PublicUpdates(n)' = PublicUpdates(n)
    BY <1>3, QueueOffChain DEF PublicFines, PublicUpdates, contractVars
  <2>2. /\ outcome' = outcome
        /\ \A j \in 1 .. Len(outcome) : slots'[j] = slots[j]
    <3>1. CASE \E r \in Rounds : Broadcast(r)
      BY <3>1, Sends
    <3>2. CASE UNCHANGED nodeVars
      BY <3>2 DEF nodeVars
    <3> QED
      BY <1>3, <3>1, <3>2
         DEF Next, vars, Crash, Enqueue, Tick, Proceed, CallFails, GetNonce,
             EstimateGas, Refused, Settle, Audit
  <2>3. \A kind : Successes(kind, n)' = Successes(kind, n)
    BY <2>2, SuccessesKept DEF TryInv
  <2> QED
    BY <2>1, <2>3 DEF Balanced
<1> QED
  BY <1>1, <1>2, <1>3

LEMMA InitBalanced ==
  ASSUME Init, NEW n \in Numbers
  PROVE  Balanced(n)
<1>1. /\ n \in 1 .. MaxFines /\ fineIds = 0 /\ fineStatusHistory[n] = <<>>
      /\ outcome = <<>>
  BY OperationsAssumption DEF Init, Chain!Init, Chain!FineIds, Numbers
<1>2. /\ 1 .. 0 = {} /\ Len(<<>>) = 0 /\ 2 .. 0 = {} /\ DOMAIN <<>> = {}
  OBVIOUS
<1>3. /\ PublicFines(n) = {} /\ PublicUpdates(n) = {}
      /\ Successes("REGISTER", n) = {} /\ Successes("UPDATE_STATUS", n) = {}
  BY <1>1, <1>2 DEF PublicFines, PublicUpdates, Successes
<1> QED
  BY <1>3 DEF Balanced

AccountsInv ==
  /\ KindsOnChain
  /\ CompletedEffected
  /\ \A n \in Numbers : Balanced(n)

LEMMA AccountsHold ==
  Spec => [](QueueInv /\ TryInv /\ Contract!LedgerInv /\ AccountsInv)
<1>1. Init => AccountsInv
  <2> SUFFICES ASSUME Init PROVE AccountsInv
    OBVIOUS
  <2>1. KindsOnChain /\ CompletedEffected
    BY DEF Init, KindsOnChain, CompletedEffected, WorkedOn, Idle
  <2> QED
    BY <2>1, InitBalanced DEF AccountsInv
<1>2. /\ QueueInv /\ TryInv /\ Contract!LedgerInv /\ AccountsInv
      /\ [Next]_vars
      => AccountsInv'
  <2> SUFFICES ASSUME QueueInv, TryInv, Contract!LedgerInv, AccountsInv,
                      [Next]_vars
               PROVE  AccountsInv'
    OBVIOUS
  <2>1. KindsOnChain' /\ CompletedEffected'
    BY StepKinds DEF AccountsInv
  <2>2. ASSUME NEW n \in Numbers PROVE Balanced(n)'
    BY StepBalances DEF AccountsInv
  <2> QED
    BY <2>1, <2>2 DEF AccountsInv
<1> QED
  BY <1>1, <1>2, TriesSound, LedgerHolds, PTL DEF Spec

-----------------------------------------------------------------------------
(* Counting.                                                               *)

LEMMA NoMore ==
  ASSUME NEW S, NEW T, IsFiniteSet(T), NEW f \in [S -> T],
         \A x, y \in S : f[x] = f[y] => x = y
  PROVE  /\ IsFiniteSet(S) /\ Cardinality(S) <= Cardinality(T)
         /\ Cardinality(S) \in Nat /\ Cardinality(T) \in Nat
<1>1. f \in Injection(S, T)
  BY Fun_IsInj
<1>2. IsFiniteSet(S) /\ Cardinality(S) <= Cardinality(T)
  BY <1>1, FS_Injection
<1> QED
  BY <1>2, FS_CardinalityType

LEMMA EachFinite ==
  ASSUME NEW ops, IsFiniteSet(ops), NEW times \in [ops -> Nat]
  PROVE  IsFiniteSet(UNION {{op} \X (1 .. times[op]) : op \in ops})
<1> DEFINE places(op) == {op} \X (1 .. times[op])
           all == {places(op) : op \in ops}
           f == [op \in ops |-> places(op)]
<1>1. f \in [ops -> all] /\ \A p \in all : \E op \in ops : f[op] = p
  OBVIOUS
<1>2. ASSUME NEW op \in ops PROVE IsFiniteSet(places(op))
  <2>1. IsFiniteSet({op})
    BY FS_Singleton
  <2>2. IsFiniteSet(1 .. times[op])
    <3>1. 1 \in Int /\ times[op] \in Int
      OBVIOUS
    <3> QED
      BY <3>1, FS_Interval
  <2> QED
    BY <2>1, <2>2, FS_Product
<1>3. \A p \in all : IsFiniteSet(p)
  BY <1>2
<1>4. IsFiniteSet(all)
  <2> HIDE DEF all, f
  <2>1. f \in Surjection(ops, all)
    BY <1>1, Fun_IsSurj
  <2> QED
    BY <2>1, FS_Surjection
<1>5. IsFiniteSet(UNION all)
  <2> HIDE DEF all
  <2> QED
    BY <1>3, <1>4, FS_UNION
<1> QED
  BY <1>5

(* Each of J is counted at a place of its own.                             *)
LEMMA EachCounted ==
  ASSUME NEW ops, IsFiniteSet(ops), NEW times \in [ops -> Nat],
         NEW J, NEW of \in [J -> ops], NEW place \in [J -> Nat],
         \A j \in J : place[j] \in 1 .. times[of[j]],
         \A i, j \in J : of[i] = of[j] /\ place[i] = place[j] => i = j
  PROVE  Cardinality(J)
           <= Cardinality(UNION {{op} \X (1 .. times[op]) : op \in ops})
<1> DEFINE all == UNION {{op} \X (1 .. times[op]) : op \in ops}
           f == [j \in J |-> <<of[j], place[j]>>]
<1>1. f \in [J -> all]
  OBVIOUS
<1>2. \A i, j \in J : f[i] = f[j] => i = j
  OBVIOUS
<1>3. IsFiniteSet(all)
  BY EachFinite
<1> HIDE DEF all, f
<1>4. Cardinality(J) <= Cardinality(all)
  BY <1>1, <1>2, <1>3, NoMore
<1> QED
  BY <1>4 DEF all

LEMMA CompletedCounted ==
  ASSUME OutcomeTypes, CompletedEffected, NEW kind \in OnChain, NEW n
  PROVE  CompletedOf(kind, n) <= Cardinality(Successes(kind, n))
<1> DEFINE done == {op \in Of(kind, n) : status[op] = "COMPLETED"}
           f == [op \in done |-> CHOOSE j : j \in Effected(op)]
<1>1. ASSUME NEW op \in done
      PROVE  f[op] \in Successes(kind, n) /\ slots[f[op]][1] = op
  <2>1. op \in Ops /\ Kind[op] = kind /\ Effected(op) # {}
    BY DEF CompletedEffected, Of
  <2>2. f[op] \in Effected(op)
    BY <2>1
  <2> HIDE DEF f
  <2> QED
    BY <2>2 DEF Effected, Successes
<1>2. f \in [done -> Successes(kind, n)]
  <2>1. \A op \in done : f[op] \in Successes(kind, n)
    BY <1>1
  <2> QED
    BY <2>1
<1>3. \A x, y \in done : f[x] = f[y] => x = y
  <2> HIDE DEF done, f
  <2> QED
    BY <1>1
<1> HIDE DEF done, f
<1>4. Cardinality(done) <= Cardinality(Successes(kind, n))
  BY <1>2, <1>3, SuccessesFinite, NoMore
<1> QED
  BY <1>4 DEF CompletedOf, done

(* Every success is that of an operation and of a try of it.               *)
LEMMA SuccessIsTry ==
  ASSUME QueueInv, TryInv, NEW kind, NEW n
  PROVE  /\ \A j \in Successes(kind, n) :
               /\ j \in DOMAIN slots /\ j \in Effected(slots[j][1])
               /\ slots[j][1] \in Of(kind, n) /\ slots[j][2] \in Nat
               /\ status[slots[j][1]] # "NEW"
               /\ slots[j][2] <= retryCount[slots[j][1]]
         /\ \A i, j \in Successes(kind, n) :
               slots[i][1] = slots[j][1] /\ slots[i][2] = slots[j][2] => i = j
<1>1. /\ slots \in Seq(Ops \X Nat) /\ DOMAIN outcome \subseteq DOMAIN slots
  BY DEF QueueInv, QueueTypes, TryInv, OutcomeTypes
<1>2. ASSUME NEW j \in Successes(kind, n)
      PROVE  /\ j \in DOMAIN slots /\ slots[j] \in Ops \X Nat
             /\ j \in Effected(slots[j][1])
             /\ slots[j][1] \in Of(kind, n) /\ slots[j][2] \in Nat
             /\ status[slots[j][1]] # "NEW"
             /\ slots[j][2] <= retryCount[slots[j][1]]
  <2>1. /\ j \in DOMAIN outcome /\ slots[j][1] \in Of(kind, n)
        /\ outcome[j] = "success"
    BY DEF Successes
  <2>2. j \in DOMAIN slots /\ slots[j] \in Ops \X Nat
    BY <1>1, <2>1
  <2> QED
    BY <2>1, <2>2 DEF Effected, TryInv, SentGranted
<1>3. ASSUME NEW i \in Successes(kind, n), NEW j \in Successes(kind, n),
             slots[i][1] = slots[j][1], slots[i][2] = slots[j][2]
      PROVE  i = j
  <2>1. slots[i] = slots[j] /\ i \in DOMAIN slots /\ j \in DOMAIN slots
    BY <1>2, <1>3
  <2> QED
    BY <2>1 DEF TryInv, SentOnce
<1> QED
  BY <1>2, <1>3

LEMMA OfFinite ==
  ASSUME NEW kind, NEW n
  PROVE  IsFiniteSet(Of(kind, n)) /\ Of(kind, n) \subseteq Ops
<1>1. Of(kind, n) \in SUBSET Ops /\ IsFiniteSet(Ops)
  BY OperationsAssumption DEF Of
<1> QED
  BY <1>1, FS_Subset

LEMMA RegistrationsTried ==
  ASSUME QueueInv, TryInv, NEW n
  PROVE  Cardinality(Successes("REGISTER", n))
           <= Cardinality(Each(Of("REGISTER", n), TriesOf))
<1> DEFINE ops == Of("REGISTER", n)
           times == [op \in ops |-> TriesOf(op)]
           J == Successes("REGISTER", n)
           of == [j \in J |-> slots[j][1]]
           place == [j \in J |-> slots[j][2] + 1]
<1>1. /\ \A j \in J :
            /\ slots[j][1] \in ops /\ slots[j][2] \in Nat
            /\ status[slots[j][1]] # "NEW"
            /\ slots[j][2] <= retryCount[slots[j][1]]
      /\ \A i, j \in J :
            slots[i][1] = slots[j][1] /\ slots[i][2] = slots[j][2] => i = j
  BY SuccessIsTry
<1>2. \A op \in ops : TriesOf(op) \in Nat /\ retryCount[op] \in Nat
  BY TriesCounted, OfFinite DEF QueueInv, QueueTypes
<1>3. IsFiniteSet(ops)
  BY OfFinite
<1> HIDE DEF ops, J
<1>4. times \in [ops -> Nat] /\ of \in [J -> ops] /\ place \in [J -> Nat]
  BY <1>1, <1>2
<1>5. \A j \in J : place[j] \in 1 .. times[of[j]]
  BY <1>1, <1>2 DEF TriesOf
<1>6. \A i, j \in J : of[i] = of[j] /\ place[i] = place[j] => i = j
  <2> SUFFICES ASSUME NEW i \in J, NEW j \in J, of[i] = of[j],
                      place[i] = place[j]
               PROVE  i = j
    OBVIOUS
  <2>1. slots[i][1] = slots[j][1] /\ slots[i][2] = slots[j][2]
    BY <1>1
  <2> QED
    BY <1>1, <2>1
<1>7. Each(ops, TriesOf) = UNION {{op} \X (1 .. times[op]) : op \in ops}
  <2>1. \A op \in ops : {op} \X (1 .. TriesOf(op)) = {op} \X (1 .. times[op])
    OBVIOUS
  <2> HIDE DEF times
  <2> QED
    BY <2>1 DEF Each
<1> HIDE DEF times, of, place
<1>8. Cardinality(J)
        <= Cardinality(UNION {{op} \X (1 .. times[op]) : op \in ops})
  BY <1>3, <1>4, <1>5, <1>6, EachCounted
<1> QED
  BY <1>7, <1>8 DEF ops, J

(* The contract holds a public fine for every registration that was        *)
(* completed and at most one for every try, however the rounds overlap and *)
(* whatever others register.                                               *)
THEOREM RegistrationsBalance == Spec => []RegistrationsAccounted
<1>1. QueueInv /\ TryInv /\ AccountsInv => RegistrationsAccounted
  <2> SUFFICES ASSUME QueueInv, TryInv, AccountsInv, NEW n \in Numbers
               PROVE  /\ CompletedOf("REGISTER", n)
                           <= Cardinality(PublicFines(n))
                      /\ Cardinality(PublicFines(n))
                           <= Cardinality(Each(Of("REGISTER", n), TriesOf))
    BY DEF RegistrationsAccounted
  <2>1. Cardinality(PublicFines(n)) = Cardinality(Successes("REGISTER", n))
    BY DEF AccountsInv, Balanced
  <2>2. CompletedOf("REGISTER", n) <= Cardinality(Successes("REGISTER", n))
    BY CompletedCounted DEF AccountsInv, TryInv, OnChain
  <2> QED
    BY <2>1, <2>2, RegistrationsTried
<1> QED
  BY <1>1, AccountsHold, PTL

-----------------------------------------------------------------------------
(* Hyperledger is written before an update is sent.                        *)

(* The tries of an operation that have come as far as the contract's call. *)
Reached(op) ==
  {k \in 0 .. retryCount[op] :
     \/ \E n \in DOMAIN slots : slots[n] = <<op, k>>
     \/ k = retryCount[op] /\ op \in WorkedOn}

LedgerCovers ==
  /\ ledger \in [Ops -> Nat]
  /\ \A op \in Ops : Kind[op] = "UPDATE_STATUS" =>
       Cardinality(Reached(op)) <= ledger[op]

LEMMA ReachedFinite ==
  ASSUME QueueInv, NEW op \in Ops
  PROVE  IsFiniteSet(Reached(op)) /\ Cardinality(Reached(op)) \in Nat
<1>1. retryCount[op] \in Nat
  BY DEF QueueInv, QueueTypes
<1>2. /\ IsFiniteSet(0 .. retryCount[op])
      /\ Reached(op) \in SUBSET (0 .. retryCount[op])
  BY <1>1, UpTo DEF Reached
<1> QED
  BY <1>2, FS_Subset, FS_CardinalityType

LEMMA ReachedStep ==
  ASSUME QueueInv, TryInv, [Next]_vars, NEW op \in Ops
  PROVE  \/ Reached(op)' \subseteq Reached(op)
         \/ /\ Reached(op)' \subseteq Reached(op) \cup {retryCount[op]}
            /\ op \notin WorkedOn /\ \E r \in Rounds : Tick(r) /\ Started(r, op)
<1>1. /\ slots \in Seq(Ops \X Nat) /\ retryCount[op] \in Nat
  BY DEF QueueInv, QueueTypes
<1>2. ASSUME NEW k \in Reached(op)'
      PROVE  \/ k \in Reached(op)
             \/ /\ k = retryCount[op] /\ op \notin WorkedOn
                /\ \E r \in Rounds : Tick(r) /\ Started(r, op)
  <2>1. \/ \E n \in DOMAIN slots' : slots'[n] = <<op, k>>
        \/ k = retryCount'[op] /\ op \in WorkedOn'
    BY DEF Reached
  <2>2. CASE \E n \in DOMAIN slots' : slots'[n] = <<op, k>>
    <3>1. PICK n \in DOMAIN slots' : slots'[n] = <<op, k>>
      BY <2>2
    <3>2. CASE n \in DOMAIN slots /\ slots'[n] = slots[n]
      <4>1. slots[n] = <<op, k>> /\ slots[n] \in Ops \X Nat
        BY <1>1, <3>1, <3>2
      <4>2. k <= retryCount[op] /\ k \in Nat
        BY <3>2, <4>1 DEF TryInv, SentGranted
      <4>3. k \in 0 .. retryCount[op]
        BY <1>1, <4>2
      <4> QED
        BY <3>2, <4>1, <4>3 DEF Reached
    <3>3. CASE \E o \in WorkedOn : slots'[n] = Try(o)
      <4>1. op \in WorkedOn /\ k = retryCount[op]
        BY <3>1, <3>3 DEF Try
      <4> QED
        BY <1>1, <4>1 DEF Reached
    <3> QED
      BY <3>2, <3>3, SentByRound
  <2>3. CASE k = retryCount'[op] /\ op \in WorkedOn'
    <3>1. CASE op \in WorkedOn /\ retryCount'[op] = retryCount[op]
      BY <1>1, <2>3, <3>1 DEF Reached
    <3>2. CASE op \notin WorkedOn /\ \E r \in Rounds : Tick(r) /\ Started(r, op)
      BY <2>3, <3>2 DEF Started
    <3> QED
      BY <2>3, <3>1, <3>2, WorkGoesOn
  <2> QED
    BY <2>1, <2>2, <2>3
<1> QED
  BY <1>2

LEMMA LedgerGrows ==
  ASSUME QueueInv, TryInv, [Next]_vars, ledger \in [Ops -> Nat]
  PROVE  /\ ledger' \in [Ops -> Nat]
         /\ \A op \in Ops : ledger[op] <= ledger'[op]
<1>1. ASSUME NEW op \in Ops, ledger' = Ledgered(op)
      PROVE  /\ ledger' \in [Ops -> Nat]
             /\ \A o \in Ops : ledger[o] <= ledger'[o]
  BY <1>1 DEF Ledgered
<1>2. CASE ledger' = ledger
  BY <1>2
<1>3. CASE \E r \in Rounds : Tick(r)
  <2>1. PICK op \in Ops : ledger' = IF Kind[op] = "UPDATE_STATUS"
                                    THEN Ledgered(op) ELSE ledger
    BY <1>3, TickStep
  <2> QED
    BY <1>1, <1>2, <2>1
<1> QED
  BY <1>2, <1>3
     DEF Next, vars, Crash, Enqueue, Proceed, CallFails, GetNonce, EstimateGas,
         Broadcast, Refused, Settle, Audit, MineTransaction, Transact

LEMMA StepLedgerCovers ==
  ASSUME QueueInv, QueueInv', TryInv, LedgerCovers, [Next]_vars
  PROVE  LedgerCovers'
<1>1. /\ ledger' \in [Ops -> Nat] /\ ledger \in [Ops -> Nat]
      /\ \A op \in Ops : ledger[op] <= ledger'[op]
  BY LedgerGrows DEF LedgerCovers
<1>2. ASSUME NEW op \in Ops, Kind[op] = "UPDATE_STATUS"
      PROVE  Cardinality(Reached(op)') <= ledger'[op]
  <2> DEFINE R == Reached(op)
             S == Reached(op)'
  <2>1. /\ IsFiniteSet(R) /\ Cardinality(R) \in Nat
        /\ Cardinality(R) <= ledger[op]
    BY <1>2, ReachedFinite DEF LedgerCovers
  <2>2. IsFiniteSet(S) /\ Cardinality(S) \in Nat
    <3>1. retryCount'[op] \in Nat
      BY DEF QueueInv, QueueTypes
    <3>2. /\ IsFiniteSet(0 .. retryCount'[op])
          /\ S \in SUBSET (0 .. retryCount'[op])
      BY <3>1, UpTo DEF Reached
    <3> QED
      BY <3>2, FS_Subset, FS_CardinalityType
  <2>3. CASE S \subseteq R
    <3> HIDE DEF R, S
    <3>1. Cardinality(S) <= Cardinality(R)
      BY <2>1, <2>3, FS_Subset
    <3>2. Cardinality(S) <= ledger'[op]
      BY <1>1, <2>1, <2>2, <3>1
    <3> QED
      BY <3>2 DEF S
  <2>4. ASSUME S \subseteq R \cup {retryCount[op]}, op \notin WorkedOn,
               NEW r \in Rounds, Tick(r), Started(r, op)
        PROVE  Cardinality(S) <= ledger'[op]
    <3>1. PICK o \in Ops : /\ Started(r, o) \/ Dismissed(o)
                           /\ o \notin WorkedOn
                           /\ ledger' = IF Kind[o] = "UPDATE_STATUS"
                                        THEN Ledgered(o) ELSE ledger
      BY <2>4, TickStep
    <3>2. o = op
      <4>1. round'[r].op = op /\ round \in [Rounds -> Rest]
        BY <2>4 DEF Started, QueueInv, QueueTypes
      <4>2. CASE Started(r, o)
        BY <4>1, <4>2 DEF Started
      <4>3. CASE Dismissed(o)
        <5>1. round[r].op = op /\ op # NoOp
          BY <4>1, <4>3, OperationsAssumption DEF Dismissed
        <5>2. op \in WorkedOn
          BY <5>1 DEF WorkedOn
        <5> QED
          BY <2>4, <5>2
      <4> QED
        BY <3>1, <4>2, <4>3
    <3>3. ledger'[op] = ledger[op] + 1
      <4>1. ledger' = Ledgered(op) /\ up = {"hyperledger", "ethereum"}
        BY <1>2, <2>4, <3>1, <3>2 DEF Started
      <4> QED
        BY <1>1, <4>1 DEF Ledgered
    <3> HIDE DEF R, S
    <3>4. PICK k : k = retryCount[op]
      OBVIOUS
    <3>5. /\ IsFiniteSet(R \cup {k})
          /\ Cardinality(R \cup {k})
               = IF k \in R THEN Cardinality(R) ELSE Cardinality(R) + 1
      BY <2>1, FS_AddElement
    <3>6. Cardinality(S) <= Cardinality(R \cup {k})
      BY <2>4, <3>4, <3>5, FS_Subset
    <3>7. CASE k \in R
      BY <1>1, <2>1, <2>2, <3>3, <3>5, <3>6, <3>7
    <3>8. CASE k \notin R
      BY <1>1, <2>1, <2>2, <3>3, <3>5, <3>6, <3>8
    <3> QED
      BY <3>7, <3>8
  <2>5. CASE \E r \in Rounds : Tick(r) /\ Started(r, op)
    BY <2>3, <2>4, <2>5, ReachedStep
  <2> QED
    BY <2>3, <2>5, ReachedStep
<1>3. \A op \in Ops : Kind[op] = "UPDATE_STATUS" =>
         Cardinality(Reached(op)') <= ledger'[op]
  BY <1>2
<1> QED
  BY <1>1, <1>3 DEF LedgerCovers

LEMMA Numbered ==
  ASSUME NEW S, IsFiniteSet(S), NEW m \in Nat, Cardinality(S) <= m
  PROVE  \E f \in [S -> 1 .. m] : \A x, y \in S : f[x] = f[y] => x = y
<1>1. Cardinality(S) \in Nat
  BY FS_CardinalityType
<1>2. PICK g \in Bijection(1 .. Cardinality(S), S) : TRUE
  BY FS_CardinalityType DEF ExistsBijection
<1>3. PICK f : f = Inverse(g, 1 .. Cardinality(S), S)
  OBVIOUS
<1>4. f \in Bijection(S, 1 .. Cardinality(S))
  BY <1>2, <1>3, Fun_BijInverse
<1>5. /\ f \in [S -> 1 .. Cardinality(S)]
      /\ \A x, y \in S : f[x] = f[y] => x = y
  <2>1. PICK T : T = 1 .. Cardinality(S)
    OBVIOUS
  <2>2. f \in Bijection(S, T)
    BY <1>4, <2>1
  <2>3. f \in [S -> T] /\ \A x, y \in S : f[x] = f[y] => x = y
    BY <2>2, Fun_BijectionProperties
  <2> QED
    BY <2>1, <2>3
<1>6. f \in [S -> 1 .. m]
  BY <1>1, <1>5
<1> QED
  BY <1>5, <1>6

LEMMA UpdatesCovered ==
  ASSUME QueueInv, TryInv, LedgerCovers, NEW n
  PROVE  Cardinality(Successes("UPDATE_STATUS", n))
           <= Cardinality(Each(Of("UPDATE_STATUS", n), LAMBDA op : ledger[op]))
<1> DEFINE ops == Of("UPDATE_STATUS", n)
           times == [op \in ops |-> ledger[op]]
           J == Successes("UPDATE_STATUS", n)
           Placing(op) == {f \in [Reached(op) -> 1 .. ledger[op]] :
                             \A x, y \in Reached(op) : f[x] = f[y] => x = y}
           placing == [op \in ops |-> CHOOSE f : f \in Placing(op)]
           of == [j \in J |-> slots[j][1]]
           place == [j \in J |-> placing[slots[j][1]][slots[j][2]]]
<1>1. /\ \A j \in J :
            /\ j \in DOMAIN slots
            /\ slots[j][1] \in ops /\ slots[j][2] \in Nat
            /\ slots[j][2] <= retryCount[slots[j][1]]
      /\ \A i, j \in J :
            slots[i][1] = slots[j][1] /\ slots[i][2] = slots[j][2] => i = j
  BY SuccessIsTry
<1>2. \A op \in ops : /\ op \in Ops /\ Kind[op] = "UPDATE_STATUS"
                      /\ ledger[op] \in Nat /\ retryCount[op] \in Nat
  BY DEF LedgerCovers, QueueInv, QueueTypes, Of
<1>3. ASSUME NEW op \in ops
      PROVE  placing[op] \in Placing(op)
  <2>1. \E f \in [Reached(op) -> 1 .. ledger[op]] :
           \A x, y \in Reached(op) : f[x] = f[y] => x = y
    BY <1>2, ReachedFinite, Numbered DEF LedgerCovers
  <2>2. \E f : f \in Placing(op)
    BY <2>1
  <2> QED
    BY <2>2
<1>4. ASSUME NEW j \in J
      PROVE  slots[j][2] \in Reached(slots[j][1])
  <2>1. slots[j] = <<slots[j][1], slots[j][2]>>
    BY <1>1 DEF QueueInv, QueueTypes
  <2>2. slots[j][2] \in 0 .. retryCount[slots[j][1]]
    BY <1>1, <1>2
  <2> QED
    BY <1>1, <2>1, <2>2 DEF Reached
<1>5. IsFiniteSet(ops)
  BY OfFinite
<1> HIDE DEF ops, J, placing
<1>6. \A j \in J : /\ place[j] = placing[slots[j][1]][slots[j][2]]
                   /\ place[j] \in 1 .. ledger[slots[j][1]]
                   /\ of[j] = slots[j][1]
  BY <1>1, <1>3, <1>4
<1>7. times \in [ops -> Nat] /\ of \in [J -> ops] /\ place \in [J -> Nat]
  <2>1. \A j \in J : place[j] \in Nat
    BY <1>1, <1>2, <1>6
  <2> QED
    BY <1>1, <1>2, <2>1
<1>8. \A j \in J : place[j] \in 1 .. times[of[j]]
  BY <1>1, <1>6
<1>9. \A i, j \in J : of[i] = of[j] /\ place[i] = place[j] => i = j
  <2> SUFFICES ASSUME NEW i \in J, NEW j \in J, of[i] = of[j],
                      place[i] = place[j]
               PROVE  i = j
    OBVIOUS
  <2>1. PICK op \in ops : op = slots[i][1] /\ op = slots[j][1]
    BY <1>1
  <2>2. /\ slots[i][2] \in Reached(op) /\ slots[j][2] \in Reached(op)
        /\ placing[op][slots[i][2]] = placing[op][slots[j][2]]
    BY <1>4, <1>6, <2>1
  <2>3. slots[i][2] = slots[j][2]
    BY <1>3, <2>2
  <2> QED
    BY <1>1, <2>1, <2>3
<1>10. Each(ops, LAMBDA op : ledger[op])
         = UNION {{op} \X (1 .. times[op]) : op \in ops}
  <2>1. \A op \in ops : {op} \X (1 .. ledger[op]) = {op} \X (1 .. times[op])
    OBVIOUS
  <2> HIDE DEF times
  <2> QED
    BY <2>1 DEF Each
<1> HIDE DEF times, of, place
<1>11. Cardinality(J)
         <= Cardinality(UNION {{op} \X (1 .. times[op]) : op \in ops})
  BY <1>5, <1>7, <1>8, <1>9, EachCounted
<1> QED
  BY <1>10, <1>11 DEF ops, J

LEMMA InitLedgerCovers == Init => LedgerCovers
<1> SUFFICES ASSUME Init PROVE LedgerCovers
  OBVIOUS
<1>1. ledger = [op \in Ops |-> 0] /\ WorkedOn = {} /\ slots = <<>>
  BY DEF Init, WorkedOn, Idle
<1>2. \A op : Reached(op) = {}
  BY <1>1 DEF Reached
<1> QED
  BY <1>1, <1>2, FS_EmptySet DEF LedgerCovers

LEMMA LedgerCovered == Spec => []LedgerCovers
BY InitLedgerCovers, StepLedgerCovers, TriesSound, PTL DEF Spec

(* Hyperledger is never behind: the contract holds no more updates of the  *)
(* synchronisation than Hyperledger was written, and at least one for      *)
(* every update that was completed.                                        *)
THEOREM UpdatesBalance == Spec => []UpdatesAccounted
<1>1. QueueInv /\ TryInv /\ AccountsInv /\ LedgerCovers => UpdatesAccounted
  <2> SUFFICES ASSUME QueueInv, TryInv, AccountsInv, LedgerCovers,
                      NEW n \in Numbers
               PROVE  /\ CompletedOf("UPDATE_STATUS", n)
                           <= Cardinality(PublicUpdates(n))
                      /\ Cardinality(PublicUpdates(n))
                           <= Cardinality(Each(Of("UPDATE_STATUS", n),
                                               LAMBDA op : ledger[op]))
    BY DEF UpdatesAccounted
  <2>1. Cardinality(PublicUpdates(n))
          = Cardinality(Successes("UPDATE_STATUS", n))
    BY DEF AccountsInv, Balanced
  <2>2. CompletedOf("UPDATE_STATUS", n)
          <= Cardinality(Successes("UPDATE_STATUS", n))
    BY CompletedCounted DEF AccountsInv, TryInv, OnChain
  <2> QED
    BY <2>1, <2>2, UpdatesCovered
<1> QED
  BY <1>1, AccountsHold, LedgerCovered, PTL

-----------------------------------------------------------------------------
(* What the comparison of the two chains may find.                         *)

(* Who writes what to the fines.                                           *)
Registered(sender, s) ==
  /\ Contract!registerFine(sender, s)
  /\ \/ sender = Deployer /\ s \in OtherFines
     \/ sender = Wallet /\ \E m \in Numbers : s = PublicFine(m)

Updated(sender, id, st) ==
  /\ Contract!updateFineStatus(sender, id, st)
  /\ \/ sender = Deployer
     \/ sender = Wallet /\ st = "PENDING"

LEMMA WhatIsWritten ==
  ASSUME QueueInv, TryInv, [Next]_vars
  PROVE  \/ \E sender \in Address, s \in Submitted : Registered(sender, s)
         \/ \E sender \in Address, id \in 1 .. MaxFines : \E st :
              Updated(sender, id, st)
         \/ UNCHANGED <<fineIds, fines, fineStatusHistory>>
<1>1. Deployer \in Address /\ Wallet \in Address
  BY AccountsAssumption
<1>2. CASE OthersDo
  <2>1. ASSUME NEW s \in OtherFines, Contract!registerFine(Deployer, s)
        PROVE  \E sender \in Address, t \in Submitted : Registered(sender, t)
    BY <1>1, <2>1 DEF Registered, Submitted
  <2>2. ASSUME NEW id \in Contract!FineIds, NEW st \in OtherStates,
               Contract!updateFineStatus(Deployer, id, st)
        PROVE  \E sender \in Address, i \in 1 .. MaxFines : \E t :
                 Updated(sender, i, t)
    BY <1>1, <2>2 DEF Updated, Contract!FineIds
  <2> QED
    BY <1>2, <2>1, <2>2 DEF OthersDo, Contract!registerVars
<1>3. ASSUME NEW op \in Ops, WalletDoes(op)
      PROVE  \/ \E sender \in Address, s \in Submitted : Registered(sender, s)
             \/ \E sender \in Address, id \in 1 .. MaxFines : \E st :
                  Updated(sender, id, st)
  <2>1. FineId[op] \in 1 .. MaxFines /\ FineId[op] \in Numbers
    BY OperationsAssumption DEF Numbers
  <2>2. CASE Contract!registerFine(Wallet, PublicFine(FineId[op]))
    <3>1. PICK s : s = PublicFine(FineId[op])
      OBVIOUS
    <3>2. s \in Submitted /\ Registered(Wallet, s)
      BY <2>1, <2>2, <3>1 DEF Submitted, Registered
    <3> QED
      BY <1>1, <3>2
  <2>3. CASE Contract!updateFineStatus(Wallet, FineId[op], "PENDING")
    BY <1>1, <2>1, <2>3 DEF Updated
  <2> QED
    BY <1>3, <2>2, <2>3 DEF WalletDoes
<1>4. CASE UNCHANGED contractVars
  BY <1>4 DEF contractVars
<1>5. CASE MineTransaction
  BY <1>3, <1>4, <1>5, MineOfContract
<1> QED
  BY <1>2, <1>4, <1>5, TransactOfContract, QueueOffChain

SameAsInternal(fine) ==
  /\ fine.plateNumber = InternalFine.plateNumber
  /\ fine.location = InternalFine.location
  /\ fine.infractionType = InternalFine.infractionType
  /\ fine.cost = InternalFine.cost

(* A fine that carries a number of Hyperledger is the fine it made up, and *)
(* one that the wallet was the last to write is pending.                   *)
Faithful(id) ==
  /\ \A m \in Numbers :
       fines[id].externalSystemId = IdText[m] => SameAsInternal(fines[id])
  /\ id <= fineIds =>
       LET h == fineStatusHistory[id] IN
       h[Len(h)].updatedBy = Wallet => fines[id].currentState = "PENDING"

LEMMA RegisteredFaithful ==
  ASSUME Contract!LedgerInv, \A id \in 1 .. MaxFines : Faithful(id),
         NEW sender \in Address, NEW s \in Submitted, Registered(sender, s),
         NEW id \in 1 .. MaxFines
  PROVE  Faithful(id)'
<1>1. Contract!registerFine(sender, s)
  BY DEF Registered
<1>2. CASE id = fineIds'
  <2>1. /\ fines'[id].externalSystemId = s.externalSystemId
        /\ fines'[id].plateNumber = s.plateNumber
        /\ fines'[id].location = s.location
        /\ fines'[id].infractionType = s.infractionType
        /\ fines'[id].cost = s.cost
        /\ fines'[id].currentState = "PENDING"
    BY <1>1, <1>2, Registers
  <2>2. ASSUME NEW m \in Numbers, s.externalSystemId = IdText[m]
        PROVE  SameAsInternal(s)
    <3>1. s \notin OtherFines
      BY <2>2, OthersAssumption
    <3>2. PICK n \in Numbers : s = PublicFine(n)
      BY <3>1 DEF Submitted
    <3> QED
      BY <3>2, PublicFineIs DEF SameAsInternal
  <2> QED
    BY <2>1, <2>2 DEF Faithful, SameAsInternal
<1>3. CASE id # fineIds'
  <2>1. /\ fines'[id] = fines[id]
        /\ fineStatusHistory'[id] = fineStatusHistory[id]
        /\ fineIds' = fineIds + 1 /\ fineIds \in Nat
    BY <1>1, <1>3, Registers, LedgerTypes
  <2>2. id <= fineIds' => id <= fineIds
    BY <1>3, <2>1
  <2> QED
    BY <2>1, <2>2 DEF Faithful
<1> QED
  BY <1>2, <1>3

LEMMA UpdatedFaithful ==
  ASSUME Contract!LedgerInv, \A id \in 1 .. MaxFines : Faithful(id),
         NEW sender \in Address, NEW at \in 1 .. MaxFines, NEW st,
         Updated(sender, at, st), NEW id \in 1 .. MaxFines
  PROVE  Faithful(id)'
<1>1. /\ fineIds \in Nat /\ fines \in [1 .. MaxFines -> Contract!Fine]
      /\ fineStatusHistory \in [1 .. MaxFines -> Seq(Contract!FineStatusUpdate)]
  BY LedgerTypes
<1>2. /\ fineIds' = fineIds /\ fines' = [fines EXCEPT ![at].currentState = st]
  BY Updates DEF Updated
<1>3. PICK u : /\ fineStatusHistory'
                    = [fineStatusHistory EXCEPT ![at] = Append(@, u)]
               /\ u.newState = st /\ u.updatedBy = sender
  BY Updates DEF Updated
<1>4. /\ fines'[id].externalSystemId = fines[id].externalSystemId
      /\ SameAsInternal(fines[id]) => SameAsInternal(fines'[id])
  BY <1>1, <1>2 DEF Contract!Fine, SameAsInternal
<1>5. CASE id = at
  <2>1. PICK h : h = fineStatusHistory[id]
    OBVIOUS
  <2>2. /\ fineStatusHistory'[id] = Append(h, u)
        /\ h \in Seq(Contract!FineStatusUpdate)
    BY <1>1, <1>3, <1>5, <2>1
  <2>3. Append(h, u)[Len(Append(h, u))] = u
    BY <2>2
  <2>4. sender = Wallet => st = "PENDING"
    BY AccountsAssumption DEF Updated
  <2>5. fines'[id].currentState = st
    BY <1>1, <1>2, <1>5 DEF Contract!Fine
  <2> QED
    BY <1>3, <1>4, <2>2, <2>3, <2>4, <2>5 DEF Faithful
<1>6. CASE id # at
  <2>1. /\ fines'[id] = fines[id]
        /\ fineStatusHistory'[id] = fineStatusHistory[id]
    BY <1>1, <1>2, <1>3, <1>6
  <2> QED
    BY <1>2, <2>1 DEF Faithful
<1> QED
  BY <1>5, <1>6

LEMMA FaithfulAlways ==
  Spec => [](Contract!LedgerInv /\ \A id \in 1 .. MaxFines : Faithful(id))
<1>1. Init => \A id \in 1 .. MaxFines : Faithful(id)
  <2> SUFFICES ASSUME Init, NEW id \in 1 .. MaxFines PROVE Faithful(id)
    OBVIOUS
  <2>1. fines[id].externalSystemId = Empty /\ fineIds = 0 /\ ~ (id <= 0)
    BY DEF Init, Chain!Init, Chain!FineIds, Chain!ZeroFine
  <2>2. \A m \in Numbers : IdText[m] # Empty
    BY OperationsAssumption
  <2> QED
    BY <2>1, <2>2 DEF Faithful
<1>2. /\ QueueInv /\ TryInv /\ Contract!LedgerInv
      /\ \A id \in 1 .. MaxFines : Faithful(id)
      /\ [Next]_vars
      => (\A id \in 1 .. MaxFines : Faithful(id))'
  <2> SUFFICES ASSUME QueueInv, TryInv, Contract!LedgerInv,
                      \A id \in 1 .. MaxFines : Faithful(id), [Next]_vars,
                      NEW id \in 1 .. MaxFines
               PROVE  Faithful(id)'
    OBVIOUS
  <2>1. CASE UNCHANGED <<fineIds, fines, fineStatusHistory>>
    BY <2>1 DEF Faithful
  <2> QED
    BY <2>1, WhatIsWritten, RegisteredFaithful, UpdatedFaithful
<1> QED
  BY <1>1, <1>2, TriesSound, LedgerHolds, PTL DEF Spec

(* Whichever fine the comparison is given, a mismatch in what it was       *)
(* registered with means that it is none of the synchronisation's, and one *)
(* in its state that it was not the wallet that wrote the fine last.       *)
THEOREM MismatchesBalance == Spec => []MismatchesExplained
<1>1. /\ Contract!LedgerInv /\ \A id \in 1 .. MaxFines : Faithful(id)
      => MismatchesExplained
  <2> SUFFICES ASSUME Contract!LedgerInv,
                      \A id \in 1 .. MaxFines : Faithful(id),
                      NEW n \in Numbers,
                      NEW field \in verifyDataConsistency(n).mismatchFields
               PROVE  IF field = "currentState"
                      THEN Last(fineStatusHistory[n]).updatedBy # Wallet
                      ELSE fines[n].externalSystemId
                             \notin {IdText[m] : m \in Numbers}
    BY DEF MismatchesExplained
  <2>1. n \in 1 .. MaxFines /\ Faithful(n)
    BY OperationsAssumption DEF Numbers
  <2>2. /\ getInternalFineDetails(n).plateNumber = InternalFine.plateNumber
        /\ getInternalFineDetails(n).location = InternalFine.location
        /\ getInternalFineDetails(n).infractionType
             = InternalFine.infractionType
        /\ getInternalFineDetails(n).cost = InternalFine.cost
        /\ getInternalFineDetails(n).currentState = "PENDING"
    BY InternalAssumption DEF getInternalFineDetails
  <2>3. Comparable(n)
    BY DEF verifyDataConsistency, ComparisonFails
  <2>4. /\ n <= fineIds
        /\ field \in {"plateNumber", "location", "infractionType", "cost",
                      "currentState"}
        /\ getInternalFineDetails(n)[field] # fines[n][field]
    BY <2>3 DEF verifyDataConsistency, Compared, Comparable
  <2>5. CASE field = "currentState"
    <3>1. fines[n].currentState # "PENDING"
      BY <2>2, <2>4, <2>5
    <3> QED
      BY <2>1, <2>4, <2>5, <3>1 DEF Faithful, Last
  <2>6. CASE field # "currentState"
    <3>1. ~ SameAsInternal(fines[n])
      BY <2>2, <2>4, <2>6 DEF SameAsInternal
    <3> QED
      BY <2>1, <2>6, <3>1 DEF Faithful
  <2> QED
    BY <2>5, <2>6
<1> QED
  BY <1>1, FaithfulAlways, PTL

-----------------------------------------------------------------------------
(* Types.                                                                  *)

ServiceTypes ==
  /\ setting \in Setting
  /\ fabricClient \in BOOLEAN
  /\ up \subseteq {"hyperledger", "ethereum"}
  /\ boot \in {"idle", "hyperledger", "ethereum", "sync", "node"}
  /\ starts \in 0 .. MaxStarts
  /\ isRunning \in BOOLEAN

LEMMA ServicesTyped ==
  ASSUME ServiceTypes, Services
  PROVE  ServiceTypes'
<1>1. MaxStarts \in Nat
  BY RoomAssumption
<1>2. CASE Boot
  BY <1>1, <1>2 DEF ServiceTypes, Boot
<1>3. CASE InitHyperledger
  BY <1>3 DEF ServiceTypes, InitHyperledger
<1>4. CASE InitEthereum
  BY <1>4 DEF ServiceTypes, InitEthereum
<1>5. CASE InitSync
  BY <1>5 DEF ServiceTypes, InitSync
<1>6. CASE StartSync
  BY <1>6 DEF ServiceTypes, StartSync
<1>7. CASE ShutDown
  BY <1>7 DEF ServiceTypes, ShutDown, stopSyncProcess, shutdownHyperledger
<1> QED
  BY <1>2, <1>3, <1>4, <1>5, <1>6, <1>7 DEF Services

LEMMA StepServicesTyped ==
  ASSUME ServiceTypes, [Next]_vars
  PROVE  ServiceTypes'
<1>1. CASE UNCHANGED serviceVars
  BY <1>1 DEF ServiceTypes, serviceVars
<1>2. CASE Crash
  <2>1. setting.fabric \in BOOLEAN
    BY DEF ServiceTypes, Setting
  <2> QED
    BY <1>2, <2>1 DEF ServiceTypes, Crash
<1> QED
  BY <1>1, <1>2, ServicesTyped
     DEF Next, vars, Enqueue, Tick, Proceed, CallFails, GetNonce, EstimateGas,
         Broadcast, Refused, Settle, Audit, MineTransaction, Transact

LEMMA ServicesTypedAlways == Spec => []ServiceTypes
<1>1. Init => ServiceTypes
  <2> SUFFICES ASSUME Init PROVE ServiceTypes
    OBVIOUS
  <2>1. setting \in Setting /\ fabricClient \in BOOLEAN
    BY DEF Init, Setting
  <2>2. starts \in 0 .. MaxStarts
    BY RoomAssumption DEF Init
  <2> QED
    BY <2>1, <2>2 DEF Init, ServiceTypes
<1> QED
  BY <1>1, StepServicesTyped, PTL DEF Spec

LEMMA ContractTypes == Contract!LedgerInv => Chain!TypeOK
<1>1. /\ Chain!FineStatusUpdate = Contract!FineStatusUpdate
      /\ Chain!Fine = Contract!Fine /\ Chain!FineIds = Contract!FineIds
  BY DEF Chain!FineStatusUpdate, Contract!FineStatusUpdate, Chain!Fine,
         Contract!Fine, Chain!FineIds, Contract!FineIds, FineState,
         Contract!FineState, Chain!FineState
<1> QED
  BY <1>1 DEF Contract!LedgerInv, Contract!TypeOK, Chain!TypeOK

(* Every variable has its type, whatever fails, stops or ends.             *)
THEOREM SyncTypes == Spec => []TypeOK
<1>1. QueueInv /\ TryInv /\ LedgerCovers /\ ServiceTypes /\ Chain!TypeOK
      => TypeOK
  <2> SUFFICES ASSUME QueueInv, TryInv, LedgerCovers, ServiceTypes, Chain!TypeOK
               PROVE  TypeOK
    OBVIOUS
  <2>1. /\ slots \in Seq(Ops \X Nat) /\ syncQueue \in Seq(Ops)
        /\ outcome \in Seq({"success", "reverted"})
        /\ Len(outcome) <= Len(slots)
        /\ status \in [Ops -> {"NEW", "PENDING", "COMPLETED", "FAILED", "LOST"}]
    BY DEF QueueInv, QueueTypes, Statuses, TryInv, OutcomeTypes
  <2>2. \A op \in Ops : retryCount[op] \in 0 .. MaxRetries[op]
    BY OperationsAssumption DEF QueueInv, QueueTypes
  <2>3. round \in [Rounds -> [op: Ops \cup {NoOp}, nonce: Nat,
                              at: {"idle", "nonce", "estimate", "broadcast",
                                   "wait", "audit"}]]
    BY DEF QueueInv, QueueTypes, Rest, Phases
  <2> QED
    BY <2>1, <2>2, <2>3 DEF TypeOK, LedgerCovers, ServiceTypes
<1> QED
  BY <1>1, ContractTypes, TriesSound, LedgerHolds, LedgerCovered,
     ServicesTypedAlways, PTL
=============================================================================
