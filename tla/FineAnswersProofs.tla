------------------------- MODULE FineAnswersProofs --------------------------
(***************************************************************************)
(* Proofs about what the backend tells its clients, for any number of      *)
(* requests, any bodies and any bounds: the answers, the receipts and the  *)
(* contract account for one another.  Every registration that a client is  *)
(* told of is on the chain and is its own; no request puts more than one   *)
(* fine there, or changes one more than once; and every change that was    *)
(* acknowledged has its entry in the history.                              *)
(***************************************************************************)
EXTENDS FineRequestsProofs, FiniteSetTheorems

-----------------------------------------------------------------------------
(* What is proved of the contract, in the words of this instance.          *)

LEMMA ContractFacts ==
  ASSUME Contract!LedgerInv
  PROVE  Chain!TypeOK /\ Chain!IdsAreDense /\ Chain!HistoryExplainsState
BY DEF Contract!LedgerInv, Contract!TypeOK, Contract!IdsAreDense,
       Contract!HistoryExplainsState, Contract!Fine, Contract!FineStatusUpdate,
       Contract!FineIds, Contract!ZeroFine, Contract!Exists, Contract!Accounts,
       Contract!FineState, Chain!TypeOK, Chain!IdsAreDense,
       Chain!HistoryExplainsState, Chain!Fine, Chain!FineStatusUpdate,
       Chain!FineIds, Chain!ZeroFine, Chain!Exists, Chain!Accounts,
       Chain!FineState

LEMMA ContractTypes ==
  ASSUME Contract!LedgerInv
  PROVE  /\ fineIds \in 0 .. MaxFines
         /\ fines \in [1 .. MaxFines -> Chain!Fine]
         /\ fineStatusHistory \in [1 .. MaxFines -> Seq(Chain!FineStatusUpdate)]
         /\ \A id \in 1 .. MaxFines : fines[id].id # 0 => id <= fineIds
         /\ \A id \in 1 .. fineIds :
              /\ id \in 1 .. MaxFines /\ fines[id].id = id
              /\ fineStatusHistory[id] # <<>>
              /\ fineStatusHistory[id][Len(fineStatusHistory[id])].newState
                   = fines[id].currentState
         /\ \A id \in 1 .. MaxFines :
              id > fineIds => fineStatusHistory[id] = <<>>
<1>1. Chain!TypeOK /\ Chain!IdsAreDense /\ Chain!HistoryExplainsState
  BY ContractFacts
<1>2. /\ fineIds \in 0 .. MaxFines
      /\ fines \in [1 .. MaxFines -> Chain!Fine]
      /\ fineStatusHistory \in [1 .. MaxFines -> Seq(Chain!FineStatusUpdate)]
  BY <1>1 DEF Chain!TypeOK, Chain!FineIds
<1>3. ASSUME NEW id \in 1 .. MaxFines
      PROVE  /\ fines[id].id # 0 => id <= fineIds
             /\ id > fineIds => fineStatusHistory[id] = <<>>
             /\ id <= fineIds => fines[id].id = id
  BY <1>1, <1>2 DEF Chain!IdsAreDense, Chain!FineIds, Chain!ZeroFine
<1>4. ASSUME NEW id \in 1 .. fineIds
      PROVE  /\ id \in 1 .. MaxFines /\ fines[id].id = id
             /\ fineStatusHistory[id] # <<>>
             /\ fineStatusHistory[id][Len(fineStatusHistory[id])].newState
                  = fines[id].currentState
  <2>1. id \in 1 .. MaxFines /\ id <= fineIds
    BY <1>2, RoomAssumption
  <2>2. fines[id].id = id
    BY <1>3, <2>1
  <2> QED
    BY <1>1, <2>1, <2>2
       DEF Chain!HistoryExplainsState, Chain!Exists, Chain!Accounts,
           Chain!FineIds
<1> QED
  BY <1>2, <1>3, <1>4

-----------------------------------------------------------------------------
(* Counting: a set that maps into another one to one is no larger.         *)

LEMMA NoMoreThan ==
  ASSUME NEW S, IsFiniteSet(S), NEW T, IsFiniteSet(T), NEW f \in [S -> T],
         \A x, y \in S : f[x] = f[y] => x = y
  PROVE  Cardinality(S) <= Cardinality(T)
<1>1. ~ (Cardinality(T) < Cardinality(S))
  BY FS_PigeonHole
<1>2. Cardinality(S) \in Nat /\ Cardinality(T) \in Nat
  BY FS_CardinalityType
<1> QED
  BY <1>1, <1>2

-----------------------------------------------------------------------------
(* Type correctness of the whole system.                                   *)

RequestData ==
  /\ receipt \in [Requests -> [status: {"none", "reverted", "success"},
                               fineId: 0 .. MaxFines]]
  /\ ipfs \subseteq {CidOf[f] : f \in DOMAIN CidOf}
  /\ \A r \in RegisterReqs : dto[r] \in Bodies \cup {NoBody}
  /\ \A u \in UpdateReqs : dto[u] \in Changes \cup {NoBody}
  /\ seen \in [Requests -> FineState \cup {NoState}]
  /\ nonce \in [Requests -> Nat]
  /\ answer \in [Requests -> 0 .. MaxFines]

LEMMA InitRequestData == Init => RequestData
<1> SUFFICES ASSUME Init PROVE RequestData
  OBVIOUS
<1>1. 0 \in 0 .. MaxFines
  BY RoomAssumption
<1>2. receipt \in [Requests -> [status: {"none", "reverted", "success"},
                                fineId: 0 .. MaxFines]]
  BY <1>1 DEF Init, NoReceipt
<1> QED
  BY <1>1, <1>2 DEF Init, RequestData, Requests

(* The number that a response carries is a number that a fine may have.    *)
LEMMA AnswerTyped ==
  ASSUME RequestInv, RequestData, NEW r \in Requests, Settle(r)
  PROVE  answer' \in [Requests -> 0 .. MaxFines]
<1>1. receipt[r].fineId \in 0 .. MaxFines /\ 0 \in 0 .. MaxFines
  BY RoomAssumption DEF RequestData
<1>2. r \notin RegisterReqs => dto[r].fineId \in 0 .. MaxFines
  <2> SUFFICES ASSUME r \in UpdateReqs PROVE dto[r].fineId \in 0 .. MaxFines
    BY DEF Requests
  <2>1. dto[r].fineId \in 1 .. MaxFines
    BY DEF Settle, At, RequestInv, UpdateSound, Committed, Sending
  <2> QED
    BY <2>1, RoomAssumption
<1>3. PICK id \in 0 .. MaxFines : answer' = [answer EXCEPT ![r] = id]
  BY <1>1, <1>2 DEF Settle, Respond, Fail, RegisteredId
<1> QED
  BY <1>3 DEF RequestData

LEMMA MiningTyped ==
  ASSUME RequestInv, RequestData, Contract!LedgerInv, MineTransaction
  PROVE  RequestData'
<1>1. PICK r \in Requests :
        \/ receipt' = [receipt EXCEPT ![r] = Reverted]
        \/ /\ Execute(r)
           /\ receipt' = [receipt EXCEPT ![r] =
                Success(IF r \in RegisterReqs THEN Chain!newFineId ELSE 0)]
  BY DEF MineTransaction, RequestInv, RequestTypeOK
<1>2. UNCHANGED <<ipfs, dto, seen, nonce, answer>>
  BY DEF MineTransaction, requestVars
<1>3. 0 \in 0 .. MaxFines
  BY RoomAssumption
<1>4. r \in RegisterReqs /\ Execute(r) => Chain!newFineId \in 0 .. MaxFines
  BY ContractTypes, RoomAssumption
     DEF Execute, Chain!registerFine, Chain!newFineId
<1>5. receipt' \in [Requests -> [status: {"none", "reverted", "success"},
                                 fineId: 0 .. MaxFines]]
  BY <1>1, <1>3, <1>4 DEF RequestData, Reverted, Success
<1> QED
  BY <1>2, <1>5 DEF RequestData

LEMMA StepRequestData ==
  ASSUME RequestInv, RequestData, Contract!LedgerInv, [Next]_vars
  PROVE  RequestData'
<1>1. 0 \in 0 .. MaxFines
  BY RoomAssumption
<1>2. ASSUME NEW r \in Requests, Fail(r)
      PROVE  answer' \in [Requests -> 0 .. MaxFines]
  BY <1>1, <1>2 DEF Fail, Respond, RequestData
<1>3. ASSUME NEW r \in RegisterReqs, AcceptRegister(r)
      PROVE  RequestData'
  <2>1. r \in Requests /\ r \notin UpdateReqs
    BY InputsAssumption DEF Requests
  <2>2. PICK b \in Bodies : dto' = [dto EXCEPT ![r] = b]
    BY <1>3 DEF AcceptRegister
  <2>3. /\ \A q \in RegisterReqs : dto'[q] \in Bodies \cup {NoBody}
        /\ \A u \in UpdateReqs : dto'[u] \in Changes \cup {NoBody}
    BY <2>1, <2>2 DEF RequestData, RequestInv, RequestTypeOK, Requests
  <2>4. answer' \in [Requests -> 0 .. MaxFines]
    BY <1>2, <1>3, <2>1 DEF AcceptRegister, Await, RequestData
  <2> QED
    BY <1>3, <2>3, <2>4 DEF RequestData, AcceptRegister, nodeVars
<1>4. ASSUME NEW u \in UpdateReqs, AcceptUpdate(u)
      PROVE  RequestData'
  <2>1. u \in Requests /\ u \notin RegisterReqs
    BY InputsAssumption DEF Requests
  <2>2. PICK c \in Changes : dto' = [dto EXCEPT ![u] = c]
    BY <1>4 DEF AcceptUpdate
  <2>3. /\ \A q \in RegisterReqs : dto'[q] \in Bodies \cup {NoBody}
        /\ \A v \in UpdateReqs : dto'[v] \in Changes \cup {NoBody}
    BY <2>1, <2>2 DEF RequestData, RequestInv, RequestTypeOK, Requests
  <2>4. answer' \in [Requests -> 0 .. MaxFines]
    BY <1>2, <1>4, <2>1 DEF AcceptUpdate, Await, RequestData
  <2> QED
    BY <1>4, <2>3, <2>4 DEF RequestData, AcceptUpdate, nodeVars
<1>5. ASSUME NEW r \in Requests, pc[r] = "upload",
             Upload(r) \/ UploadFails(r)
      PROVE  RequestData'
  <2>1. dto[r].file \in DOMAIN CidOf
    <3>1. Accepted(dto[r])
      BY <1>5 DEF RequestInv, RegisterSound, UpdateSound, Requests
    <3> QED
      BY <3>1, InputsAssumption DEF Accepted, Sendable, Complete, Body
  <2>2. ipfs' \subseteq {CidOf[f] : f \in DOMAIN CidOf}
    BY <1>5, <2>1 DEF Upload, UploadFails, RequestData
  <2>3. answer' \in [Requests -> 0 .. MaxFines]
    BY <1>2, <1>5 DEF Upload, UploadFails, Await, RequestData
  <2> QED
    BY <1>5, <2>2, <2>3 DEF RequestData, Upload, UploadFails, nodeVars
<1>6. ASSUME NEW u \in Requests, Read(u)
      PROVE  RequestData'
  <2>1. seen' \in [Requests -> FineState \cup {NoState}]
    <3>1. CASE UNCHANGED seen
      BY <3>1 DEF RequestData
    <3>2. CASE /\ \E now \in Clock(block) : Found(dto[u].fineId, now)
               /\ seen' = [seen EXCEPT ![u] = fines[dto[u].fineId].currentState]
      <4>1. fines[dto[u].fineId].currentState \in FineState
        BY <3>2, ContractTypes DEF Found, Chain!Fine, Chain!FineState, FineState
      <4> QED
        BY <3>2, <4>1 DEF RequestData
    <3> QED
      BY <1>6, <3>1, <3>2 DEF Read
  <2>2. answer' \in [Requests -> 0 .. MaxFines]
    BY <1>2, <1>6 DEF Read, Await, RequestData
  <2> QED
    BY <1>6, <2>1, <2>2 DEF RequestData, Read, nodeVars
<1>7. ASSUME NEW r \in Requests, GetNonce(r)
      PROVE  RequestData'
  <2>1. nonce' \in [Requests -> Nat]
    BY <1>7 DEF GetNonce, RequestData, RequestInv, RequestTypeOK
  <2> QED
    BY <1>7, <2>1 DEF RequestData, GetNonce, Await, nodeVars
<1>8. ASSUME NEW r \in Requests,
             EstimateGas(r) \/ Broadcast(r) \/ Refused(r) \/ CallFails(r)
      PROVE  RequestData'
  <2>1. answer' \in [Requests -> 0 .. MaxFines]
    BY <1>2, <1>8 DEF EstimateGas, Broadcast, Refused, CallFails, Await,
                      RequestData
  <2> QED
    BY <1>8, <2>1 DEF RequestData, EstimateGas, Broadcast, Refused, CallFails,
                      nodeVars
<1>9. ASSUME NEW r \in Requests, Settle(r)
      PROVE  RequestData'
  BY <1>9, AnswerTyped DEF RequestData, Settle, nodeVars
<1>10. CASE Crash \/ MineBlock \/ UNCHANGED vars
  BY <1>10 DEF RequestData, Crash, MineBlock, vars, nodeVars, requestVars
<1> QED
  BY <1>3, <1>4, <1>5, <1>6, <1>7, <1>8, <1>9, <1>10, MiningTyped
     DEF Next, Proceed, Upload, UploadFails, At, Requests

(* Every variable of the backend, the node and the contract keeps its type. *)
THEOREM TypesKept == Spec => []TypeOK
<1>1. RequestInv /\ RequestData /\ Contract!LedgerInv => TypeOK
  BY ContractFacts DEF RequestInv, RequestTypeOK, RequestData, TypeOK
<1> QED
  BY <1>1, InitRequestData, StepRequestData, RequestsSound, LedgerHolds, PTL
     DEF Spec

-----------------------------------------------------------------------------
(* The node's queue and the receipts.                                      *)

(* A transaction that is in the queue was sent by a request that waits for *)
(* it or was answered, and no request is there twice: a request that takes *)
(* a nonce from another throws that one's transaction out.                 *)
Unsent == {"idle", "upload", "read", "nonce", "estimate", "broadcast"}

SentOnce ==
  /\ \A r \in Requests : pc[r] \in Unsent => r \notin Sent
  /\ \A m, n \in 1 .. Len(slots) : slots[m] = slots[n] => m = n

Mined == {slots[n] : n \in 1 .. mined}

(* Exactly the requests whose transaction is mined have a receipt.         *)
ReceiptsMatch == \A r \in Requests : receipt[r].status # "none" <=> r \in Mined

Settled(r) == receipt[r].status = "success"

(* A success response was given for a success receipt, and no other.       *)
AnswersBacked ==
  \A r \in Requests : answer[r] # 0 =>
    /\ Settled(r)
    /\ answer[r] = IF r \in RegisterReqs THEN receipt[r].fineId
                                         ELSE dto[r].fineId

AnswerInv == SentOnce /\ ReceiptsMatch /\ AnswersBacked

LEMMA InitAnswerInv == Init => AnswerInv
BY DEF Init, AnswerInv, SentOnce, ReceiptsMatch, AnswersBacked, Sent, Mined,
       NoReceipt, Requests

LEMMA MinedSent == RequestInv => Mined \subseteq Sent
BY DEF RequestInv, RequestTypeOK, Mined, Sent

(* A request that has a receipt is past its first steps.                   *)
LEMMA SettledSent ==
  ASSUME RequestInv, AnswerInv, NEW r \in Requests, Settled(r)
  PROVE  r \in Sent /\ pc[r] \notin Unsent
BY MinedSent DEF AnswerInv, ReceiptsMatch, SentOnce, Settled

LEMMA BroadcastOnce ==
  ASSUME RequestInv, RequestData, SentOnce, ReceiptsMatch, NEW r \in Requests,
         Broadcast(r)
  PROVE  SentOnce' /\ ReceiptsMatch'
<1>1. /\ pc[r] = "broadcast" /\ Accepts(r) /\ UNCHANGED <<mined, receipt>>
      /\ r \notin Sent
  BY DEF Broadcast, At, SentOnce, Unsent
<1>2. /\ pc'[r] \in {"wait", "done"}
      /\ \A q \in Requests \ {r} : pc'[q] = pc[q]
  BY DEF Broadcast, Await, Fail, Respond, RequestInv, RequestTypeOK
<1>3. PICK k \in 1 .. Len(slots'):
        /\ mined < k /\ k <= Len(slots) + 1
        /\ slots'[k] = r
        /\ \A n \in 1 .. Len(slots') : n # k => /\ n \in 1 .. Len(slots)
                                               /\ slots'[n] = slots[n]
        /\ Len(slots) <= Len(slots')
  <2>1. CASE slots' = Append(slots, r)
    <3>1. /\ Len(slots') = Len(slots) + 1 /\ slots'[Len(slots) + 1] = r
          /\ \A n \in 1 .. Len(slots) : slots'[n] = slots[n]
          /\ Len(slots) \in Nat /\ mined <= Len(slots) /\ mined \in Nat
      BY <2>1 DEF RequestInv, RequestTypeOK
    <3> QED
      BY <3>1
  <2>2. CASE /\ mined <= nonce[r] /\ nonce[r] < Len(slots)
             /\ slots' = [slots EXCEPT ![nonce[r] + 1] = r]
             /\ nonce[r] \in Nat
    <3>1. /\ Len(slots') = Len(slots) /\ Len(slots) \in Nat /\ mined \in Nat
          /\ slots'[nonce[r] + 1] = r
          /\ \A n \in 1 .. Len(slots) : n # nonce[r] + 1 => slots'[n] = slots[n]
      BY <2>2 DEF RequestInv, RequestTypeOK
    <3> QED
      BY <2>2, <3>1
  <2>3. nonce[r] \in Nat
    BY DEF RequestData
  <2> QED
    BY <1>1, <2>1, <2>2, <2>3 DEF Accepts
<1>4. \A n \in 1 .. Len(slots) : slots[n] # r /\ slots[n] \in Requests
  BY <1>1 DEF Sent, RequestInv, RequestTypeOK
<1>5. \A m, n \in 1 .. Len(slots') : slots'[m] = slots'[n] => m = n
  BY <1>3, <1>4 DEF SentOnce
<1>6. \A q \in Requests : pc'[q] \in Unsent => q \notin Sent'
  BY <1>2, <1>3 DEF SentOnce, Sent, Unsent
<1>7. Mined' = Mined
  <2>1. \A n \in 1 .. mined : n # k /\ n \in 1 .. Len(slots')
    BY <1>3 DEF RequestInv, RequestTypeOK
  <2>2. \A n \in 1 .. mined : slots'[n] = slots[n]
    BY <1>3, <2>1
  <2> QED
    BY <1>1, <2>2 DEF Mined
<1> QED
  BY <1>1, <1>5, <1>6, <1>7 DEF SentOnce, ReceiptsMatch

(* Mining gives the next request in the queue its receipt, its first.      *)
LEMMA MiningOnce ==
  ASSUME RequestInv, RequestData, AnswerInv, MineTransaction
  PROVE  /\ AnswerInv'
         /\ slots[mined + 1] \in Sent /\ ~ Settled(slots[mined + 1])
         /\ \A q \in Requests : q # slots[mined + 1] => receipt'[q] = receipt[q]
<1> DEFINE r == slots[mined + 1]
<1>1. /\ mined \in Nat /\ mined + 1 \in 1 .. Len(slots) /\ mined' = mined + 1
      /\ UNCHANGED <<slots, pc, dto, answer>>
      /\ r \in Sent /\ r \in Requests
  BY DEF MineTransaction, requestVars, RequestInv, RequestTypeOK, Sent
<1>2. r \notin Mined
  BY <1>1 DEF Mined, AnswerInv, SentOnce
<1>3. receipt[r].status = "none"
  BY <1>1, <1>2 DEF AnswerInv, ReceiptsMatch
<1>4. /\ receipt'[r].status # "none"
      /\ \A q \in Requests : q # r => receipt'[q] = receipt[q]
  BY <1>1 DEF MineTransaction, RequestData, Success, Reverted
<1>5. Mined' = Mined \cup {r}
  BY <1>1 DEF Mined
<1>6. ReceiptsMatch'
  BY <1>4, <1>5, <1>1 DEF AnswerInv, ReceiptsMatch
<1>7. answer[r] = 0
  BY <1>1, <1>3 DEF AnswerInv, AnswersBacked, Settled
<1>8. AnswersBacked'
  BY <1>1, <1>4, <1>7 DEF AnswerInv, AnswersBacked, Settled
<1>9. SentOnce'
  BY <1>1 DEF AnswerInv, SentOnce, Sent
<1> QED
  BY <1>1, <1>3, <1>4, <1>6, <1>8, <1>9 DEF AnswerInv, Settled

(* Any other step leaves the receipts alone, forgets nothing that a sent   *)
(* request asked for, and answers at most one request, with what its       *)
(* receipt says.                                                           *)
LEMMA OtherSteps ==
  ASSUME RequestInv, RequestData, [Next]_vars, ~ MineTransaction
  PROVE  /\ UNCHANGED <<mined, receipt, fineIds, fines, fineStatusHistory>>
         /\ \A r \in Requests : pc[r] # "idle" => dto'[r] = dto[r]
         /\ \A r \in Requests : pc'[r] \in Unsent => pc[r] \in Unsent
         /\ \A r \in Requests : \/ answer'[r] = answer[r]
                                \/ answer'[r] = 0
                                \/ Settle(r)
         /\ \/ UNCHANGED slots
            \/ \E r \in Requests : Broadcast(r)
<1>1. ASSUME NEW r \in Requests, NEW p \in Phases \ {"idle"}, Await(r, p),
             pc[r] \in Unsent
      PROVE  /\ \A q \in Requests : pc'[q] \in Unsent => pc[q] \in Unsent
             /\ \A q \in Requests : answer'[q] = answer[q]
  BY <1>1 DEF Await, RequestInv, RequestTypeOK
<1>2. ASSUME NEW r \in Requests, NEW id, Respond(r, id)
      PROVE  /\ \A q \in Requests : pc'[q] \in Unsent => pc[q] \in Unsent
             /\ \A q \in Requests : q # r => answer'[q] = answer[q]
             /\ answer'[r] = id
  BY <1>2 DEF Respond, Unsent, RequestInv, RequestTypeOK, RequestData
<1>3. ASSUME NEW r \in Requests, NEW p \in Phases \ {"idle"},
             Await(r, p) \/ Fail(r), pc[r] \in Unsent
      PROVE  /\ \A q \in Requests : pc'[q] \in Unsent => pc[q] \in Unsent
             /\ \A q \in Requests : \/ answer'[q] = answer[q]
                                    \/ answer'[q] = 0
  BY <1>1, <1>2, <1>3 DEF Fail
<1>4. ASSUME NEW r \in RegisterReqs, AcceptRegister(r)
      PROVE  /\ \A q \in Requests : pc[q] # "idle" => dto'[q] = dto[q]
             /\ \A q \in Requests : pc'[q] \in Unsent => pc[q] \in Unsent
             /\ \A q \in Requests : answer'[q] = answer[q] \/ answer'[q] = 0
  <2>1. /\ r \in Requests /\ pc[r] = "idle" /\ pc[r] \in Unsent
        /\ Await(r, "upload") \/ Fail(r)
    BY <1>4 DEF AcceptRegister, At, Requests, Unsent
  <2>2. \A q \in Requests : pc[q] # "idle" => dto'[q] = dto[q]
    BY <1>4, <2>1 DEF AcceptRegister, RequestInv, RequestTypeOK
  <2> QED
    BY <1>3, <2>1, <2>2 DEF Phases
<1>5. ASSUME NEW u \in UpdateReqs, AcceptUpdate(u)
      PROVE  /\ \A q \in Requests : pc[q] # "idle" => dto'[q] = dto[q]
             /\ \A q \in Requests : pc'[q] \in Unsent => pc[q] \in Unsent
             /\ \A q \in Requests : answer'[q] = answer[q] \/ answer'[q] = 0
  <2>1. /\ u \in Requests /\ pc[u] = "idle" /\ pc[u] \in Unsent
        /\ Await(u, "read") \/ Fail(u)
    BY <1>5 DEF AcceptUpdate, At, Requests, Unsent
  <2>2. \A q \in Requests : pc[q] # "idle" => dto'[q] = dto[q]
    BY <1>5, <2>1 DEF AcceptUpdate, RequestInv, RequestTypeOK
  <2> QED
    BY <1>3, <2>1, <2>2 DEF Phases
<1>6. ASSUME NEW r \in Requests,
             Upload(r) \/ UploadFails(r) \/ Read(r) \/ GetNonce(r)
             \/ EstimateGas(r) \/ Broadcast(r) \/ Refused(r)
      PROVE  /\ \A q \in Requests : pc'[q] \in Unsent => pc[q] \in Unsent
             /\ \A q \in Requests : answer'[q] = answer[q] \/ answer'[q] = 0
  <2>1. pc[r] \in Unsent
    BY <1>6 DEF Upload, UploadFails, Read, GetNonce, EstimateGas, Broadcast,
                Refused, At, Unsent
  <2>2. \E p \in Phases \ {"idle"} : Await(r, p) \/ Fail(r)
    BY <1>6 DEF Upload, UploadFails, Read, GetNonce, EstimateGas, Broadcast,
                Refused, Phases
  <2> QED
    BY <1>3, <2>1, <2>2
<1>7. ASSUME NEW r \in Requests, Settle(r) \/ CallFails(r)
      PROVE  /\ \A q \in Requests : pc'[q] \in Unsent => pc[q] \in Unsent
             /\ \A q \in Requests : \/ answer'[q] = answer[q]
                                    \/ answer'[q] = 0
                                    \/ Settle(q)
  <2>1. \E id : Respond(r, id)
    BY <1>7 DEF Settle, CallFails, Fail
  <2>2. CallFails(r) => Respond(r, 0)
    BY DEF CallFails, Fail
  <2> QED
    BY <1>2, <1>7, <2>1, <2>2
<1>8. CASE Crash \/ MineBlock \/ UNCHANGED vars
  <2>1. /\ \A q \in Requests : pc'[q] \in Unsent => pc[q] \in Unsent
        /\ UNCHANGED <<mined, receipt, fineIds, fines, fineStatusHistory,
                       answer, dto, slots>>
    BY <1>8 DEF Crash, MineBlock, vars, requestVars, nodeVars, contractVars,
                Chain!MineBlock, Chain!registerVars, Unsent, InFlight,
                RequestInv, RequestTypeOK
  <2> QED
    BY <2>1
<1>9. ASSUME NEW r \in Requests, UploadFails(r) \/ Proceed(r) \/ CallFails(r)
      PROVE  /\ UNCHANGED <<mined, receipt, fineIds, fines, fineStatusHistory,
                            dto>>
             /\ UNCHANGED slots \/ Broadcast(r)
  BY <1>9 DEF UploadFails, Proceed, CallFails, Upload, Read, GetNonce,
              EstimateGas, Broadcast, Refused, Settle, contractVars, nodeVars
<1>10. ASSUME NEW r \in Requests,
              UploadFails(r) \/ Proceed(r) \/ CallFails(r)
       PROVE  /\ \A q \in Requests : pc'[q] \in Unsent => pc[q] \in Unsent
              /\ \A q \in Requests : \/ answer'[q] = answer[q]
                                     \/ answer'[q] = 0
                                     \/ Settle(q)
  BY <1>6, <1>7, <1>10 DEF Proceed
<1>11. ASSUME NEW r \in Requests, AcceptRegister(r) \/ AcceptUpdate(r)
       PROVE  UNCHANGED <<mined, receipt, fineIds, fines, fineStatusHistory,
                          slots>>
  BY <1>11 DEF AcceptRegister, AcceptUpdate, contractVars, nodeVars
<1>12. CASE \E r \in Requests : UploadFails(r) \/ Proceed(r) \/ CallFails(r)
  BY <1>9, <1>10, <1>12
<1>13. CASE \/ \E r \in RegisterReqs : AcceptRegister(r)
            \/ \E u \in UpdateReqs : AcceptUpdate(u)
  BY <1>4, <1>5, <1>11, <1>13 DEF Requests
<1> QED
  BY <1>8, <1>12, <1>13 DEF Next, Requests

LEMMA StepAnswerInv ==
  ASSUME RequestInv, RequestData, AnswerInv, [Next]_vars
  PROVE  AnswerInv'
<1> SUFFICES ASSUME ~ MineTransaction PROVE AnswerInv'
  BY MiningOnce
<1>1. SentOnce' /\ ReceiptsMatch'
  <2>1. CASE UNCHANGED slots
    BY <2>1, OtherSteps DEF AnswerInv, SentOnce, ReceiptsMatch, Sent, Mined
  <2>2. CASE \E r \in Requests : Broadcast(r)
    BY <2>2, BroadcastOnce DEF AnswerInv
  <2> QED
    BY <2>1, <2>2, OtherSteps
<1>2. AnswersBacked'
  <2> SUFFICES ASSUME NEW r \in Requests, answer'[r] # 0
               PROVE  /\ Settled(r)'
                      /\ answer'[r] = IF r \in RegisterReqs
                                      THEN receipt'[r].fineId
                                      ELSE dto'[r].fineId
    BY DEF AnswersBacked
  <2>1. UNCHANGED receipt /\ (pc[r] # "idle" => dto'[r] = dto[r])
    BY OtherSteps
  <2>2. CASE answer'[r] = answer[r]
    <3>1. Settled(r) /\ answer[r] = IF r \in RegisterReqs
                                    THEN receipt[r].fineId ELSE dto[r].fineId
      BY <2>2 DEF AnswerInv, AnswersBacked
    <3>2. pc[r] # "idle"
      BY <3>1, SettledSent DEF Unsent
    <3> QED
      BY <2>1, <2>2, <3>1, <3>2 DEF Settled
  <2>3. CASE Settle(r)
    <3>1. pc[r] # "idle" /\ (Fail(r) => answer'[r] = 0)
      BY <2>3 DEF Settle, At, Fail, Respond, RequestData
    <3>2. /\ Confirmed(r)
          /\ Respond(r, IF r \in RegisterReqs THEN RegisteredId(r)
                                              ELSE dto[r].fineId)
      BY <2>3, <3>1 DEF Settle
    <3> QED
      BY <2>1, <3>1, <3>2
         DEF Confirmed, Respond, RegisteredId, Settled, RequestData
  <2> QED
    BY <2>2, <2>3, OtherSteps
<1> QED
  BY <1>1, <1>2 DEF AnswerInv

-----------------------------------------------------------------------------
(* The fines on the chain and the registrations that were confirmed are    *)
(* one to one.  Neither direction is inductive without the other: a new    *)
(* fine is given to one request only because the number of fines bounds    *)
(* the numbers in the receipts.                                            *)

Describes(fine, id, b) ==
  Chain!Metadata(fine) =
    Chain!FineOf(id, SubmissionOf(b), Wallet, fine.timestamp)

FinesOwned ==
  /\ \A r \in RegisterReqs : Settled(r) =>
       LET id == receipt[r].fineId IN
         id \in 1 .. fineIds /\ Describes(fines[id], id, dto[r])
  /\ \A q, r \in RegisterReqs :
       Settled(q) /\ Settled(r) /\ receipt[q].fineId = receipt[r].fineId
         => q = r
  /\ \A id \in 1 .. fineIds : \E r \in RegisterReqs :
       Settled(r) /\ receipt[r].fineId = id

LEMMA InitFinesOwned == Init => FinesOwned
BY DEF Init, Chain!Init, FinesOwned, Settled, NoReceipt, Requests

(* The transaction that is mined and what it does, by its kind.            *)
LEMMA MinedTransaction ==
  ASSUME RequestInv, RequestData, AnswerInv, MineTransaction
  PROVE  \E r \in Requests :
           /\ r \in Sent /\ ~ Settled(r) /\ UNCHANGED <<dto, seen>>
           /\ \A q \in Requests : q # r => receipt'[q] = receipt[q]
           /\ \/ Executable(r) /\ Execute(r) /\ r \in RegisterReqs
                 /\ receipt'[r] = Success(Chain!newFineId)
              \/ Executable(r) /\ Execute(r) /\ r \in UpdateReqs \ RegisterReqs
                 /\ receipt'[r] = Success(0)
              \/ UNCHANGED <<fineIds, fines, fineStatusHistory>>
                 /\ receipt'[r] = Reverted
<1>1. PICK r \in Requests :
        /\ r = slots[mined + 1]
        /\ r \in Sent /\ ~ Settled(r)
        /\ \A q \in Requests : q # r => receipt'[q] = receipt[q]
  BY MiningOnce DEF MineTransaction, RequestInv, RequestTypeOK, Sent
<1>2. UNCHANGED <<dto, seen>>
  BY DEF MineTransaction, requestVars
<1>3. \/ /\ Executable(r) /\ Execute(r)
         /\ receipt' = [receipt EXCEPT ![r] =
              Success(IF r \in RegisterReqs THEN Chain!newFineId ELSE 0)]
      \/ /\ UNCHANGED contractVars
         /\ receipt' = [receipt EXCEPT ![r] = Reverted]
  BY <1>1 DEF MineTransaction
<1>4. \/ /\ Executable(r) /\ Execute(r)
         /\ receipt'[r] =
              Success(IF r \in RegisterReqs THEN Chain!newFineId ELSE 0)
      \/ /\ UNCHANGED <<fineIds, fines, fineStatusHistory>>
         /\ receipt'[r] = Reverted
  BY <1>3 DEF contractVars, RequestData
<1> QED
  BY <1>1, <1>2, <1>4 DEF Requests

(* A registration adds the next number, with what its request sent.        *)
LEMMA RegistrationAdds ==
  ASSUME Contract!LedgerInv, NEW r \in RegisterReqs, Execute(r)
  PROVE  /\ fineIds' = fineIds + 1 /\ fineIds \in Nat
         /\ Chain!newFineId = fineIds + 1
         /\ \A id \in 1 .. fineIds : fines'[id] = fines[id]
         /\ Describes(fines'[fineIds + 1], fineIds + 1, dto[r])
<1> DEFINE fine == Chain!FineOf(fineIds + 1,
                                SubmissionOf(dto[r]), Wallet, block)
<1>1. /\ fineIds' = fineIds + 1 /\ Chain!newFineId = fineIds + 1
      /\ fineIds + 1 <= MaxFines
      /\ fines' = [fines EXCEPT ![fineIds + 1] = fine]
  BY DEF Execute, Chain!registerFine, Chain!newFineId
<1>2. fineIds \in Nat /\ fineIds + 1 \in 1 .. MaxFines
  BY <1>1, ContractTypes, RoomAssumption
<1>3. /\ fines'[fineIds + 1] = fine
      /\ \A id \in 1 .. fineIds : fines'[id] = fines[id]
  <2> HIDE DEF fine
  <2> QED
    BY <1>1, <1>2, ContractTypes
<1>4. Chain!Metadata(fine) = fine /\ fine.timestamp = block
  BY DEF Chain!Metadata, Chain!FineOf
<1> QED
  BY <1>1, <1>2, <1>3, <1>4 DEF Describes

(* A change of state leaves all else that a fine holds as it was.          *)
LEMMA ChangeKeepsFacts ==
  ASSUME Contract!LedgerInv, NEW u \in Requests \ RegisterReqs, Execute(u)
  PROVE  /\ fineIds' = fineIds
         /\ \A id \in 1 .. fineIds :
              /\ Chain!Metadata(fines'[id]) = Chain!Metadata(fines[id])
              /\ fines'[id].timestamp = fines[id].timestamp
<1>1. /\ fineIds' = fineIds
      /\ fines' = [fines EXCEPT ![dto[u].fineId].currentState = dto[u].newState]
  BY DEF Execute, Chain!updateFineStatus
<1>2. ASSUME NEW id \in 1 .. fineIds
      PROVE  /\ Chain!Metadata(fines'[id]) = Chain!Metadata(fines[id])
             /\ fines'[id].timestamp = fines[id].timestamp
  <2>1. id \in 1 .. MaxFines /\ fines[id] \in Chain!Fine
    BY ContractTypes
  <2>2. \/ fines'[id] = fines[id]
        \/ fines'[id] = [fines[id] EXCEPT !.currentState = dto[u].newState]
    BY <1>1, <2>1, ContractTypes
  <2> QED
    BY <2>1, <2>2 DEF Chain!Metadata, Chain!Fine
<1> QED
  BY <1>1, <1>2

LEMMA StepFinesOwned ==
  ASSUME RequestInv, RequestData, AnswerInv, Contract!LedgerInv, FinesOwned,
         [Next]_vars
  PROVE  FinesOwned'
<1>1. CASE ~ MineTransaction
  <2>1. /\ UNCHANGED <<receipt, fineIds, fines>>
        /\ \A r \in RegisterReqs : Settled(r) => dto'[r] = dto[r]
    BY <1>1, OtherSteps, SettledSent DEF Unsent, Requests
  <2> QED
    BY <2>1 DEF FinesOwned, Settled
<1>2. CASE MineTransaction
  <2>1. PICK r \in Requests :
           /\ r \in Sent /\ ~ Settled(r) /\ UNCHANGED <<dto, seen>>
           /\ \A q \in Requests : q # r => receipt'[q] = receipt[q]
           /\ \/ Executable(r) /\ Execute(r) /\ r \in RegisterReqs
                 /\ receipt'[r] = Success(Chain!newFineId)
              \/ Executable(r) /\ Execute(r) /\ r \in UpdateReqs \ RegisterReqs
                 /\ receipt'[r] = Success(0)
              \/ UNCHANGED <<fineIds, fines, fineStatusHistory>>
                 /\ receipt'[r] = Reverted
    BY <1>2, MinedTransaction
  <2>2. \A q \in RegisterReqs : q # r => /\ Settled(q)' <=> Settled(q)
                                        /\ receipt'[q] = receipt[q]
    BY <2>1 DEF Settled, Requests
  <2>3. CASE r \in RegisterReqs /\ Execute(r)
             /\ receipt'[r] = Success(Chain!newFineId)
    <3>1. /\ fineIds' = fineIds + 1 /\ fineIds \in Nat
          /\ Settled(r)' /\ receipt'[r].fineId = fineIds + 1
          /\ \A id \in 1 .. fineIds : fines'[id] = fines[id]
      BY <2>3, RegistrationAdds DEF Settled, Success
    <3>2. Describes(fines'[fineIds + 1], fineIds + 1, dto'[r])
      BY <2>1, <2>3, RegistrationAdds
    <3>3. \A q \in RegisterReqs : q # r /\ Settled(q) =>
             /\ receipt[q].fineId \in 1 .. fineIds
             /\ Describes(fines'[receipt[q].fineId], receipt[q].fineId, dto'[q])
      BY <2>1, <3>1 DEF FinesOwned
    <3>4. \A q \in RegisterReqs : Settled(q)' =>
             /\ receipt'[q].fineId \in 1 .. fineIds'
             /\ Describes(fines'[receipt'[q].fineId], receipt'[q].fineId,
                          dto'[q])
      BY <2>2, <3>1, <3>2, <3>3
    <3>5. \A p, q \in RegisterReqs :
             Settled(p)' /\ Settled(q)'
               /\ receipt'[p].fineId = receipt'[q].fineId
             => p = q
      BY <2>2, <3>1 DEF FinesOwned
    <3>6. \A id \in 1 .. fineIds' : \E q \in RegisterReqs :
             Settled(q)' /\ receipt'[q].fineId = id
      <4> SUFFICES ASSUME NEW id \in 1 .. fineIds'
                   PROVE  \E q \in RegisterReqs :
                             Settled(q)' /\ receipt'[q].fineId = id
        OBVIOUS
      <4>1. CASE id = fineIds + 1
        BY <2>3, <3>1, <4>1
      <4>2. CASE id # fineIds + 1
        <5>1. PICK q \in RegisterReqs : Settled(q) /\ receipt[q].fineId = id
          BY <3>1, <4>2 DEF FinesOwned
        <5> QED
          BY <2>1, <2>2, <5>1
      <4> QED
        BY <4>1, <4>2
    <3> QED
      BY <3>4, <3>5, <3>6 DEF FinesOwned
  <2>4. CASE \/ r \in UpdateReqs \ RegisterReqs /\ Execute(r)
             \/ /\ UNCHANGED <<fineIds, fines, fineStatusHistory>>
                /\ receipt'[r] = Reverted
    <3>1. /\ fineIds' = fineIds
          /\ \A id \in 1 .. fineIds :
               /\ Chain!Metadata(fines'[id]) = Chain!Metadata(fines[id])
               /\ fines'[id].timestamp = fines[id].timestamp
      BY <2>4, ChangeKeepsFacts DEF Requests, Chain!Metadata
    <3>2. \A q \in RegisterReqs, id \in 1 .. fineIds :
             Describes(fines[id], id, dto[q])
               => Describes(fines'[id], id, dto'[q])
      BY <2>1, <3>1 DEF Describes
    <3>3. \A q \in RegisterReqs :
             (Settled(q)' <=> Settled(q))
             /\ (Settled(q) => receipt'[q] = receipt[q])
      BY <2>1, <2>2, <2>4 DEF Settled, Reverted
    <3> QED
      BY <3>1, <3>2, <3>3 DEF FinesOwned
  <2> QED
    BY <2>1, <2>3, <2>4
<1> QED
  BY <1>1, <1>2

(* A success response of POST names a fine that is on the chain, holds     *)
(* what its client sent, and is named to no other client.                  *)
LEMMA OwnedTruthful ==
  ASSUME AnswerInv, FinesOwned
  PROVE  RegistrationsTruthful
<1> SUFFICES ASSUME NEW r \in RegisterReqs, answer[r] # 0
             PROVE  /\ answer[r] \in 1 .. fineIds
                    /\ Describes(fines[answer[r]], answer[r], dto[r])
                    /\ \A q \in RegisterReqs \ {r} : answer[q] # answer[r]
  BY DEF RegistrationsTruthful, Succeeded, Describes
<1>1. \A q \in RegisterReqs : answer[q] # 0 =>
         Settled(q) /\ answer[q] = receipt[q].fineId
  BY DEF AnswerInv, AnswersBacked, Requests
<1> QED
  BY <1>1 DEF FinesOwned

(* The request that a fine is described by is the one it was registered    *)
(* for, up to what the call to the contract carries.                       *)
LEMMA OneDescription ==
  ASSUME NEW fine, NEW id, NEW b, NEW c,
         Describes(fine, id, b), Describes(fine, id, c)
  PROVE  SubmissionOf(b) = SubmissionOf(c)
<1> DEFINE s == SubmissionOf(b)
           t == SubmissionOf(c)
           time == fine.timestamp
<1>1. Chain!FineOf(id, s, Wallet, time) = Chain!FineOf(id, t, Wallet, time)
  BY DEF Describes
<1>2. /\ s.plateNumber = t.plateNumber /\ s.evidenceCID = t.evidenceCID
      /\ s.location = t.location /\ s.infractionType = t.infractionType
      /\ s.cost = t.cost /\ s.ownerIdentifier = t.ownerIdentifier
      /\ s.externalSystemId = t.externalSystemId
  <2> HIDE DEF s, t, time
  <2> QED
    BY <1>1 DEF Chain!FineOf
<1> QED
  BY <1>2 DEF SubmissionOf

LEMMA OwnedOnce ==
  ASSUME RequestInv, AnswerInv, Contract!LedgerInv, FinesOwned
  PROVE  AtMostOnePerRequest
<1> SUFFICES ASSUME NEW id \in 1 .. fineIds
             PROVE  \E r \in RegisterReqs :
                      LET s == SubmissionOf(dto[r])
                          Same(n) == Chain!Metadata(fines[n]) =
                            Chain!FineOf(n, s, Wallet, fines[n].timestamp)
                      IN /\ dto[r] \in Sendable /\ Same(id)
                         /\ Cardinality({n \in 1 .. fineIds : Same(n)})
                              <= Cardinality(Senders(s))
  BY DEF AtMostOnePerRequest
<1>1. PICK r \in RegisterReqs : Settled(r) /\ receipt[r].fineId = id
  BY DEF FinesOwned
<1>2. Describes(fines[id], id, dto[r])
  BY <1>1 DEF FinesOwned
<1>3. \A q \in RegisterReqs : Settled(q) => dto[q] \in Sendable
  BY SettledSent DEF RequestInv, RegisterSound, Committed, Vetted, Accepted,
                     Requests
<1>4. PICK s : s = SubmissionOf(dto[r])
  OBVIOUS
<1>5. PICK same : same = {n \in 1 .. fineIds : Describes(fines[n], n, dto[r])}
  OBVIOUS
<1>6. PICK who : who = [n \in same |->
         CHOOSE q \in RegisterReqs : Settled(q) /\ receipt[q].fineId = n]
  OBVIOUS
<1>7. ASSUME NEW n \in same
      PROVE  /\ who[n] \in Senders(s) /\ receipt[who[n]].fineId = n
  <2>1. /\ who[n] \in RegisterReqs /\ Settled(who[n])
        /\ receipt[who[n]].fineId = n
    BY <1>5, <1>6 DEF FinesOwned
  <2>2. Describes(fines[n], n, dto[who[n]])
    BY <2>1 DEF FinesOwned
  <2>3. SubmissionOf(dto[who[n]]) = s
    BY <1>4, <1>5, <2>2, OneDescription
  <2> QED
    BY <1>3, <2>1, <2>3 DEF Senders
<1>8. IsFiniteSet(same) /\ IsFiniteSet(Senders(s))
  <2>1. fineIds \in Int /\ same \subseteq 1 .. fineIds
    BY <1>5, ContractTypes
  <2>2. Senders(s) \subseteq Requests
    BY DEF Senders, Requests
  <2>3. IsFiniteSet(1 .. fineIds)
    BY <2>1, FS_Interval
  <2>4. IsFiniteSet(Requests)
    BY RoomAssumption
  <2>5. IsFiniteSet(same)
    BY <2>1, <2>3, FS_Subset
  <2>6. IsFiniteSet(Senders(s))
    BY <2>2, <2>4, FS_Subset
  <2> QED
    BY <2>5, <2>6
<1>9. /\ who \in [same -> Senders(s)]
      /\ \A m, n \in same : who[m] = who[n] => m = n
  <2>1. who \in [same -> Senders(s)]
    BY <1>6, <1>7
  <2> QED
    BY <1>7, <2>1
<1>10. Cardinality(same) <= Cardinality(Senders(s))
  BY <1>8, <1>9, NoMoreThan
<1> QED
  BY <1>1, <1>2, <1>3, <1>4, <1>5, <1>10 DEF Describes

LEMMA AnswersKept == Spec => [](RequestInv /\ RequestData /\ AnswerInv
                                /\ Contract!LedgerInv /\ FinesOwned)
BY InitRequestData, StepRequestData, InitAnswerInv, StepAnswerInv,
   InitFinesOwned, StepFinesOwned, RequestsSound, LedgerHolds, PTL DEF Spec

(* However the requests interleave, and whatever the nonces they lose, a   *)
(* client that is told of a registration is told the number of its own.    *)
THEOREM Truthful == Spec => []RegistrationsTruthful
BY AnswersKept, OwnedTruthful, PTL

(* However its calls fail, a POST registers at most one fine.              *)
THEOREM RegisteredOnce == Spec => []AtMostOnePerRequest
BY AnswersKept, OwnedOnce, PTL

-----------------------------------------------------------------------------
(* The changes of state and the updates that were confirmed are one to one *)
(* as well, by way of a book that the code does not keep: the entry of the *)
(* history that each update made.                                          *)

History(id) == fineStatusHistory[id]

(* What an update that is on its way read, it read in the life of its fine. *)
ReadEarlier(u) ==
  /\ dto[u].fineId \in 1 .. fineIds
  /\ CanTransitionTo(seen[u], dto[u].newState)
  /\ \E j \in 1 .. Len(History(dto[u].fineId)) :
       seen[u] = History(dto[u].fineId)[j].newState

ReadsInv ==
  \A u \in UpdateReqs : Committed(u) => ReadEarlier(u)

(* The entry that each confirmed update made, and that it made alone.      *)
Entered(at) ==
  \A u \in UpdateReqs : Settled(u) =>
    LET h == History(dto[u].fineId) IN
      at[u] \in 2 .. Len(h) /\ h[at[u]].newState = dto[u].newState

OneEach(at) ==
  \A u, v \in UpdateReqs :
    /\ Settled(u) /\ Settled(v)
    /\ dto[u].fineId = dto[v].fineId /\ at[u] = at[v]
    => u = v

Explained(at) ==
  \A id \in 1 .. fineIds : \A k \in 2 .. Len(History(id)) :
    \E u \in UpdateReqs :
      /\ Settled(u) /\ dto[u].fineId = id /\ at[u] = k
      /\ \E j \in 1 .. k - 1 : seen[u] = History(id)[j].newState

Booked(at) ==
  at \in [UpdateReqs -> Nat] /\ Entered(at) /\ OneEach(at) /\ Explained(at)

UpdatesBooked == \E at : Booked(at)

LEMMA InitUpdates == Init => ReadsInv /\ UpdatesBooked
<1> SUFFICES ASSUME Init PROVE ReadsInv /\ UpdatesBooked
  OBVIOUS
<1>1. ReadsInv
  BY DEF Init, ReadsInv, Committed, Sending, Sent, Requests
<1>2. \A u \in UpdateReqs : ~ Settled(u)
  BY DEF Init, Settled, NoReceipt, Requests
<1>3. fineIds = 0
  BY DEF Init, Chain!Init
<1>4. Booked([u \in UpdateReqs |-> 0])
  BY <1>2, <1>3 DEF Booked, Entered, OneEach, Explained
<1> QED
  BY <1>1, <1>4 DEF UpdatesBooked

(* A registration begins a history; the others stay as they are.           *)
LEMMA RegistrationBegins ==
  ASSUME Contract!LedgerInv, NEW r \in RegisterReqs, Execute(r)
  PROVE  /\ fineIds \in Nat /\ fineIds' = fineIds + 1
         /\ \A id \in 1 .. fineIds : History(id)' = History(id)
         /\ Len(fineStatusHistory'[fineIds + 1]) = 1
<1> DEFINE e == Chain!StatusUpdate("PENDING", "PENDING", Wallet)
<1>1. /\ fineIds' = fineIds + 1 /\ fineIds + 1 <= MaxFines
      /\ fineStatusHistory' =
           [fineStatusHistory EXCEPT ![fineIds + 1] = Append(@, e)]
  BY DEF Execute, Chain!registerFine, Chain!newFineId
<1>2. fineIds \in Nat /\ fineIds + 1 \in 1 .. MaxFines
  BY <1>1, ContractTypes, RoomAssumption
<1>3. fineStatusHistory[fineIds + 1] = <<>>
  BY <1>2, ContractTypes
<1> HIDE DEF e
<1>4. /\ fineStatusHistory'[fineIds + 1] = Append(<<>>, e)
      /\ \A id \in 1 .. fineIds : fineStatusHistory'[id] = fineStatusHistory[id]
  BY <1>1, <1>2, <1>3, ContractTypes
<1>5. Len(Append(<<>>, e)) = 1
  OBVIOUS
<1> QED
  BY <1>1, <1>2, <1>4, <1>5 DEF History

(* A change of state adds one entry to the history of its fine.            *)
LEMMA ChangeEnters ==
  ASSUME Contract!LedgerInv, NEW u \in Requests \ RegisterReqs, Execute(u),
         dto[u].fineId \in 1 .. fineIds
  PROVE  LET n == dto[u].fineId
             h == fineStatusHistory[n]
             g == fineStatusHistory'[n]
         IN /\ fineIds' = fineIds
            /\ \A id \in 1 .. fineIds :
                  id # n => fineStatusHistory'[id] = fineStatusHistory[id]
            /\ Len(h) \in Nat \ {0} /\ Len(g) = Len(h) + 1
            /\ \A k \in 1 .. Len(h) : g[k] = h[k]
            /\ g[Len(h) + 1].newState = dto[u].newState
<1>1. PICK n : n = dto[u].fineId
  OBVIOUS
<1>2. PICK e : e = Chain!StatusUpdate(fines[n].currentState, dto[u].newState,
                                      Wallet)
  OBVIOUS
<1>3. /\ fineIds' = fineIds
      /\ fineStatusHistory' = [fineStatusHistory EXCEPT ![n] = Append(@, e)]
  BY <1>1, <1>2 DEF Execute, Chain!updateFineStatus
<1>4. /\ n \in 1 .. MaxFines /\ fineStatusHistory[n] # <<>>
      /\ fineStatusHistory[n] \in Seq(Chain!FineStatusUpdate)
  BY <1>1, ContractTypes
<1>5. PICK h : h = fineStatusHistory[n]
  OBVIOUS
<1>6. /\ fineStatusHistory'[n] = Append(h, e)
      /\ \A id \in 1 .. fineIds :
            id # n => fineStatusHistory'[id] = fineStatusHistory[id]
  BY <1>3, <1>4, <1>5, ContractTypes
<1>7. /\ Len(h) \in Nat \ {0} /\ Len(Append(h, e)) = Len(h) + 1
      /\ \A k \in 1 .. Len(h) : Append(h, e)[k] = h[k]
      /\ Append(h, e)[Len(h) + 1] = e
  BY <1>4, <1>5
<1>8. e.newState = dto[u].newState
  BY <1>2 DEF Chain!StatusUpdate
<1> QED
  BY <1>1, <1>3, <1>5, <1>6, <1>7, <1>8

(* Numbers and histories only grow.                                        *)
LEMMA HistoriesGrow ==
  ASSUME RequestInv, RequestData, AnswerInv, Contract!LedgerInv, ReadsInv,
         [Next]_vars
  PROVE  \A id \in 1 .. fineIds :
           /\ id \in 1 .. fineIds'
           /\ Len(fineStatusHistory[id]) \in Nat
           /\ Len(fineStatusHistory'[id]) \in Nat
           /\ Len(fineStatusHistory[id]) <= Len(fineStatusHistory'[id])
           /\ \A k \in 1 .. Len(fineStatusHistory[id]) :
                fineStatusHistory'[id][k] = fineStatusHistory[id][k]
<1>1. \A id \in 1 .. fineIds : Len(fineStatusHistory[id]) \in Nat
  BY ContractTypes
<1>2. CASE UNCHANGED <<fineIds, fineStatusHistory>>
  BY <1>1, <1>2
<1>3. ASSUME NEW r \in RegisterReqs, Execute(r)
      PROVE  \A id \in 1 .. fineIds :
               id \in 1 .. fineIds'
                 /\ fineStatusHistory'[id] = fineStatusHistory[id]
  BY <1>3, RegistrationBegins DEF History
<1>4. ASSUME NEW u \in UpdateReqs \ RegisterReqs, Execute(u), u \in Sent
      PROVE  \A id \in 1 .. fineIds :
               /\ id \in 1 .. fineIds'
               /\ Len(fineStatusHistory'[id]) \in Nat
               /\ Len(fineStatusHistory[id]) <= Len(fineStatusHistory'[id])
               /\ \A k \in 1 .. Len(fineStatusHistory[id]) :
                    fineStatusHistory'[id][k] = fineStatusHistory[id][k]
  <2>1. dto[u].fineId \in 1 .. fineIds
    BY <1>4 DEF ReadsInv, ReadEarlier, Committed
  <2> SUFFICES ASSUME NEW id \in 1 .. fineIds
               PROVE  /\ id \in 1 .. fineIds'
                      /\ Len(fineStatusHistory'[id]) \in Nat
                      /\ Len(fineStatusHistory[id])
                           <= Len(fineStatusHistory'[id])
                      /\ \A k \in 1 .. Len(fineStatusHistory[id]) :
                           fineStatusHistory'[id][k] = fineStatusHistory[id][k]
    OBVIOUS
  <2>2. CASE id = dto[u].fineId
    BY <1>4, <2>1, <2>2, ChangeEnters DEF Requests
  <2>3. CASE id # dto[u].fineId
    BY <1>1, <1>4, <2>1, <2>3, ChangeEnters DEF Requests
  <2> QED
    BY <2>2, <2>3
<1>5. CASE MineTransaction
  <2>1. PICK r \in Requests :
           /\ r \in Sent
           /\ \/ Execute(r) /\ r \in RegisterReqs
              \/ Execute(r) /\ r \in UpdateReqs \ RegisterReqs
              \/ UNCHANGED <<fineIds, fines, fineStatusHistory>>
    BY <1>5, MinedTransaction
  <2>2. CASE Execute(r) /\ r \in RegisterReqs
    BY <1>1, <1>3, <2>2
  <2>3. CASE Execute(r) /\ r \in UpdateReqs \ RegisterReqs
    BY <1>1, <1>4, <2>1, <2>3
  <2> QED
    BY <1>2, <2>1, <2>2, <2>3
<1>6. CASE ~ MineTransaction
  BY <1>2, <1>6, OtherSteps
<1> QED
  BY <1>5, <1>6

(* An update gets on its way only by reading; after that, what it asks for *)
(* and what it has read stay.                                              *)
LEMMA CommitSteps ==
  ASSUME RequestInv, RequestData, [Next]_vars, NEW u \in UpdateReqs,
         Committed(u)'
  PROVE  \/ Committed(u) /\ dto'[u] = dto[u] /\ seen'[u] = seen[u]
         \/ Read(u) /\ Await(u, "nonce")
<1>1. u \in Requests /\ u \notin RegisterReqs
  BY InputsAssumption DEF Requests
<1>2. pc[u] \in {"idle", "read"} => u \notin Sent
  BY <1>1, NotSentYet
<1>3. ASSUME NEW r \in Requests, r # u,
             \/ AcceptRegister(r) \/ AcceptUpdate(r) \/ UploadFails(r)
             \/ Proceed(r) \/ CallFails(r)
      PROVE  Committed(u) /\ dto'[u] = dto[u] /\ seen'[u] = seen[u]
  <2>1. /\ pc'[u] = pc[u]
        /\ dto'[u] = dto[u] /\ seen'[u] = seen[u]
    BY <1>1, <1>3 DEF AcceptRegister, AcceptUpdate, UploadFails, Proceed,
       CallFails, Upload, Read, GetNonce, EstimateGas, Broadcast, Refused,
       Settle, Await, Fail, Respond, RequestInv, RequestTypeOK, RequestData
  <2>2. UNCHANGED slots \/ Accepts(r)
    BY <1>3 DEF AcceptRegister, AcceptUpdate, UploadFails, Proceed,
       CallFails, Upload, Read, GetNonce, EstimateGas, Broadcast, Refused,
       Settle, nodeVars
  <2>3. Sent' \subseteq Sent \cup {r}
    BY <2>2, AcceptsOne DEF Sent
  <2> QED
    BY <1>3, <2>1, <2>3 DEF Committed
<1>4. CASE AcceptUpdate(u) \/ Read(u) \/ (CallFails(u) /\ pc[u] = "read")
  <2>1. pc[u] \in {"idle", "read"} /\ u \notin Sent /\ Sent' = Sent
    BY <1>2, <1>4 DEF AcceptUpdate, Read, CallFails, At, nodeVars, Sent
  <2>2. CASE Await(u, "read") \/ Fail(u)
    <3>1. pc'[u] \notin Sending
      BY <1>1, <2>2 DEF Await, Fail, Respond, Sending, RequestInv, RequestTypeOK
    <3> QED
      BY <2>1, <3>1 DEF Committed
  <2> QED
    BY <1>4, <2>2 DEF AcceptUpdate, Read, CallFails
<1>5. CASE GetNonce(u) \/ EstimateGas(u) \/ Broadcast(u) \/ Refused(u)
           \/ Settle(u) \/ (CallFails(u) /\ pc[u] # "read")
  BY <1>5 DEF GetNonce, EstimateGas, Broadcast, Refused, Settle, CallFails,
              At, Committed, Sending
<1>6. ~ Upload(u)
  BY DEF Upload, At, RequestInv, UpdateSound
<1>7. CASE MineTransaction \/ MineBlock \/ Crash \/ UNCHANGED vars
  <2>1. /\ UNCHANGED <<slots, dto, seen>> /\ Sent' = Sent
        /\ pc'[u] = pc[u] \/ pc'[u] = "done"
    BY <1>1, <1>7 DEF MineTransaction, MineBlock, Crash, vars, requestVars,
                      nodeVars, Sent, RequestInv, RequestTypeOK
  <2> QED
    BY <2>1 DEF Committed, Sending
<1>8. CASE \E r \in RegisterReqs : AcceptRegister(r) \/ UploadFails(r)
  BY <1>1, <1>3, <1>8 DEF Requests
<1>9. CASE \E v \in UpdateReqs : AcceptUpdate(v)
  BY <1>3, <1>4, <1>9 DEF Requests
<1>10. CASE \E r \in Requests : Proceed(r) \/ CallFails(r)
  BY <1>3, <1>4, <1>5, <1>6, <1>10 DEF Proceed
<1> QED
  BY <1>7, <1>8, <1>9, <1>10 DEF Next

LEMMA StepReads ==
  ASSUME RequestInv, RequestData, AnswerInv, Contract!LedgerInv, ReadsInv,
         [Next]_vars
  PROVE  ReadsInv'
<1> SUFFICES ASSUME NEW u \in UpdateReqs, Committed(u)'
             PROVE  ReadEarlier(u)'
  BY DEF ReadsInv
<1>1. CASE Committed(u) /\ dto'[u] = dto[u] /\ seen'[u] = seen[u]
  <2>1. ReadEarlier(u)
    BY <1>1 DEF ReadsInv
  <2>2. PICK n : n = dto[u].fineId
    OBVIOUS
  <2>3. PICK j \in 1 .. Len(fineStatusHistory[n]) :
           seen[u] = fineStatusHistory[n][j].newState
    BY <2>1, <2>2 DEF ReadEarlier, History
  <2>4. /\ n \in 1 .. fineIds' /\ j \in 1 .. Len(fineStatusHistory'[n])
        /\ fineStatusHistory'[n][j] = fineStatusHistory[n][j]
        /\ n \in 1 .. fineIds
    <3>1. n \in 1 .. fineIds
      BY <2>1, <2>2 DEF ReadEarlier
    <3>2. /\ n \in 1 .. fineIds' /\ Len(fineStatusHistory[n]) \in Nat
          /\ Len(fineStatusHistory'[n]) \in Nat
          /\ Len(fineStatusHistory[n]) <= Len(fineStatusHistory'[n])
          /\ fineStatusHistory'[n][j] = fineStatusHistory[n][j]
      BY <3>1, HistoriesGrow
    <3> QED
      BY <3>1, <3>2
  <2> QED
    BY <1>1, <2>1, <2>2, <2>3, <2>4 DEF ReadEarlier, History
<1>2. CASE Read(u) /\ Await(u, "nonce")
  <2>1. PICK n : n = dto[u].fineId
    OBVIOUS
  <2>2. /\ u \in Requests
        /\ UNCHANGED <<dto, fineIds, fineStatusHistory>> /\ n \in 1 .. fineIds
        /\ seen' = [seen EXCEPT ![u] = fines[n].currentState]
        /\ CanTransitionTo(fines[n].currentState, dto[u].newState)
    BY <1>2, <2>1 DEF Read, Found, Allowed, contractVars, Await, Fail, Respond,
       Requests, RequestInv, RequestTypeOK
  <2>3. seen'[u] = fines[n].currentState
    BY <2>2 DEF RequestData
  <2>4. /\ fineStatusHistory[n] \in Seq(Chain!FineStatusUpdate)
        /\ fineStatusHistory[n] # <<>>
        /\ fineStatusHistory[n][Len(fineStatusHistory[n])].newState
             = fines[n].currentState
    BY <2>2, ContractTypes
  <2>5. Len(fineStatusHistory[n]) \in 1 .. Len(fineStatusHistory[n])
    BY <2>4
  <2> QED
    BY <2>1, <2>2, <2>3, <2>4, <2>5 DEF ReadEarlier, History
<1> QED
  BY <1>1, <1>2, CommitSteps

(* What a confirmed update asked for and read is not overwritten.          *)
LEMMA SettledKept ==
  ASSUME RequestInv, RequestData, AnswerInv, [Next]_vars,
         NEW u \in UpdateReqs, Settled(u)
  PROVE  dto'[u] = dto[u] /\ seen'[u] = seen[u]
<1>1. u \in Requests /\ pc[u] \notin Unsent
  BY SettledSent DEF Requests
<1>2. dto'[u] = dto[u]
  BY <1>1, OtherSteps DEF Unsent, MineTransaction, requestVars
<1>3. \/ UNCHANGED seen
      \/ \E r \in Requests : /\ pc[r] = "read"
                             /\ seen' = [seen EXCEPT ![r] =
                                          fines[dto[r].fineId].currentState]
  BY DEF Next, Proceed, AcceptRegister, UploadFails, AcceptUpdate, Upload, Read,
         GetNonce, EstimateGas, Broadcast, Refused, Settle, CallFails, Crash,
         MineTransaction, MineBlock, requestVars, vars, At
<1>4. seen'[u] = seen[u]
  BY <1>1, <1>3 DEF Unsent, RequestData
<1> QED
  BY <1>2, <1>4

LEMMA SettledNumbered ==
  ASSUME RequestInv, AnswerInv, ReadsInv, NEW u \in UpdateReqs, Settled(u)
  PROVE  dto[u].fineId \in 1 .. fineIds
BY SettledSent DEF ReadsInv, ReadEarlier, Committed, Requests

(* A step that confirms no update and adds no entry leaves the book right. *)
LEMMA BookKept ==
  ASSUME RequestInv, RequestData, AnswerInv, ReadsInv, [Next]_vars,
         UpdatesBooked,
         \A u \in UpdateReqs : Settled(u)' <=> Settled(u),
         \A id \in 1 .. fineIds :
           fineStatusHistory'[id] = fineStatusHistory[id],
         \A id \in 1 .. fineIds' :
            id \in 1 .. fineIds \/ Len(fineStatusHistory'[id]) = 1
  PROVE  UpdatesBooked'
<1>1. PICK at : Booked(at)
  BY DEF UpdatesBooked
<1>2. \A u \in UpdateReqs : Settled(u) =>
         /\ dto'[u] = dto[u] /\ seen'[u] = seen[u]
         /\ dto[u].fineId \in 1 .. fineIds
  BY SettledKept, SettledNumbered
<1>3. Entered(at)'
  <2> SUFFICES ASSUME NEW u \in UpdateReqs, Settled(u)'
               PROVE  LET f == fineStatusHistory'[dto'[u].fineId] IN
                        /\ at[u] \in 2 .. Len(f)
                        /\ f[at[u]].newState = dto'[u].newState
    BY DEF Entered, History
  <2>1. Settled(u)
    OBVIOUS
  <2>2. LET f == fineStatusHistory[dto[u].fineId] IN
          at[u] \in 2 .. Len(f) /\ f[at[u]].newState = dto[u].newState
    BY <1>1, <2>1 DEF Booked, Entered, History
  <2>3. /\ dto'[u] = dto[u]
        /\ fineStatusHistory'[dto[u].fineId] = fineStatusHistory[dto[u].fineId]
    BY <1>2, <2>1
  <2> QED
    BY <2>2, <2>3
<1>4. OneEach(at)'
  BY <1>1, <1>2 DEF Booked, OneEach
<1>5. Explained(at)'
  <2> SUFFICES ASSUME NEW id \in 1 .. fineIds',
                      NEW k \in 2 .. Len(fineStatusHistory'[id])
               PROVE  \E u \in UpdateReqs :
                        /\ Settled(u)' /\ dto'[u].fineId = id /\ at[u] = k
                        /\ \E j \in 1 .. k - 1 :
                             seen'[u] = fineStatusHistory'[id][j].newState
    BY DEF Explained, History
  <2>1. id \in 1 .. fineIds /\ fineStatusHistory'[id] = fineStatusHistory[id]
    <3>1. CASE id \in 1 .. fineIds
      BY <3>1
    <3>2. CASE Len(fineStatusHistory'[id]) = 1
      BY <3>2
    <3> QED
      BY <3>1, <3>2
  <2>2. PICK u \in UpdateReqs :
           /\ Settled(u) /\ dto[u].fineId = id /\ at[u] = k
           /\ \E j \in 1 .. k - 1 : seen[u] = fineStatusHistory[id][j].newState
    BY <1>1, <2>1 DEF Booked, Explained, History
  <2> QED
    BY <1>2, <2>1, <2>2
<1> QED
  BY <1>1, <1>3, <1>4, <1>5 DEF Booked, UpdatesBooked

(* A change is booked under the entry that it adds.                        *)
LEMMA ChangeBooked ==
  ASSUME RequestInv, RequestData, AnswerInv, Contract!LedgerInv, ReadsInv,
         [Next]_vars, UpdatesBooked,
         NEW r \in UpdateReqs \ RegisterReqs, Execute(r), r \in Sent,
         ~ Settled(r), Settled(r)', UNCHANGED <<dto, seen>>,
         \A q \in UpdateReqs : q # r => (Settled(q)' <=> Settled(q))
  PROVE  UpdatesBooked'
<1>1. PICK at : Booked(at)
  BY DEF UpdatesBooked
<1>2. PICK n, h, g : /\ n = dto[r].fineId
                     /\ h = fineStatusHistory[n] /\ g = fineStatusHistory'[n]
  OBVIOUS
<1>3. /\ n \in 1 .. fineIds /\ CanTransitionTo(seen[r], dto[r].newState)
      /\ \E j \in 1 .. Len(h) : seen[r] = h[j].newState
  BY <1>2 DEF ReadsInv, ReadEarlier, Committed, History
<1>4. /\ fineIds' = fineIds
      /\ \A id \in 1 .. fineIds :
            id # n => fineStatusHistory'[id] = fineStatusHistory[id]
      /\ Len(h) \in Nat \ {0} /\ Len(g) = Len(h) + 1
      /\ \A k \in 1 .. Len(h) : g[k] = h[k]
      /\ g[Len(h) + 1].newState = dto[r].newState
  BY <1>2, <1>3, ChangeEnters DEF Requests
<1>5. PICK new : new = [at EXCEPT ![r] = Len(h) + 1]
  OBVIOUS
<1>6. /\ new \in [UpdateReqs -> Nat] /\ new[r] = Len(h) + 1
      /\ \A u \in UpdateReqs : u # r => new[u] = at[u]
  BY <1>1, <1>4, <1>5 DEF Booked
<1>7. \A u \in UpdateReqs : Settled(u) => dto[u].fineId \in 1 .. fineIds
  BY SettledNumbered
<1>8. \A u \in UpdateReqs : Settled(u) =>
         LET f == fineStatusHistory[dto[u].fineId] IN
           at[u] \in 2 .. Len(f) /\ f[at[u]].newState = dto[u].newState
  BY <1>1 DEF Booked, Entered, History
<1>9. Entered(new)'
  <2> SUFFICES ASSUME NEW u \in UpdateReqs, Settled(u)'
               PROVE  LET f == fineStatusHistory'[dto'[u].fineId] IN
                        /\ new[u] \in 2 .. Len(f)
                        /\ f[new[u]].newState = dto'[u].newState
    BY DEF Entered, History
  <2>1. CASE u = r
    BY <1>2, <1>4, <1>6, <2>1
  <2>2. CASE u # r /\ dto[u].fineId = n
    <3>1. /\ at[u] \in 2 .. Len(h) /\ h[at[u]].newState = dto[u].newState
          /\ new[u] = at[u]
      BY <1>2, <1>6, <1>8, <2>2
    <3>2. at[u] \in 2 .. Len(g) /\ g[at[u]].newState = dto[u].newState
      BY <1>4, <3>1
    <3> QED
      BY <1>2, <2>2, <3>1, <3>2
  <2>3. CASE u # r /\ dto[u].fineId # n
    BY <1>4, <1>6, <1>7, <1>8, <2>3
  <2> QED
    BY <2>1, <2>2, <2>3
<1>10. OneEach(new)'
  <2> SUFFICES ASSUME NEW u \in UpdateReqs, NEW v \in UpdateReqs,
                      Settled(u)', Settled(v)',
                      dto[u].fineId = dto[v].fineId, new[u] = new[v]
               PROVE  u = v
    BY DEF OneEach
  <2>1. CASE u # r /\ v # r
    BY <1>1, <1>6, <2>1 DEF Booked, OneEach
  <2>2. ASSUME NEW q \in UpdateReqs, q # r, Settled(q), dto[q].fineId = n
        PROVE  new[q] # new[r]
    <3>1. new[q] \in 2 .. Len(h) /\ new[r] = Len(h) + 1
      BY <1>2, <1>6, <1>8, <2>2
    <3> QED
      BY <1>4, <3>1
  <2> QED
    BY <1>2, <2>1, <2>2
<1>11. Explained(new)'
  <2> SUFFICES ASSUME NEW id \in 1 .. fineIds',
                      NEW k \in 2 .. Len(fineStatusHistory'[id])
               PROVE  \E u \in UpdateReqs :
                        /\ Settled(u)' /\ dto'[u].fineId = id /\ new[u] = k
                        /\ \E j \in 1 .. k - 1 :
                             seen'[u] = fineStatusHistory'[id][j].newState
    BY DEF Explained, History
  <2>1. CASE id = n /\ k = Len(h) + 1
    <3>1. PICK j \in 1 .. Len(h) : seen[r] = h[j].newState
      BY <1>3
    <3>2. j \in 1 .. k - 1 /\ g[j] = h[j]
      BY <1>4, <2>1, <3>1
    <3> QED
      BY <1>2, <1>6, <2>1, <3>1, <3>2
  <2>2. CASE ~ (id = n /\ k = Len(h) + 1)
    <3>1. /\ id \in 1 .. fineIds /\ k \in 2 .. Len(fineStatusHistory[id])
          /\ \A j \in 1 .. k - 1 :
                fineStatusHistory'[id][j] = fineStatusHistory[id][j]
      <4>1. id \in 1 .. fineIds
        BY <1>4
      <4>2. CASE id = n
        <5>1. k \in 2 .. Len(h)
          BY <1>2, <1>4, <2>2, <4>2
        <5>2. \A j \in 1 .. k - 1 : j \in 1 .. Len(h)
          BY <1>4, <5>1
        <5> QED
          BY <1>2, <1>4, <4>1, <4>2, <5>1, <5>2
      <4>3. CASE id # n
        BY <1>4, <4>1, <4>3
      <4> QED
        BY <4>2, <4>3
    <3>2. PICK u \in UpdateReqs :
             /\ Settled(u) /\ dto[u].fineId = id /\ at[u] = k
             /\ \E j \in 1 .. k - 1 :
                  seen[u] = fineStatusHistory[id][j].newState
      BY <1>1, <3>1 DEF Booked, Explained, History
    <3>3. u # r
      BY <3>2
    <3> QED
      BY <1>6, <3>1, <3>2, <3>3
  <2> QED
    BY <2>1, <2>2
<1> QED
  BY <1>6, <1>9, <1>10, <1>11 DEF Booked, UpdatesBooked

LEMMA StepBooked ==
  ASSUME RequestInv, RequestData, AnswerInv, Contract!LedgerInv, ReadsInv,
         UpdatesBooked, [Next]_vars
  PROVE  UpdatesBooked'
<1>1. CASE ~ MineTransaction
  BY <1>1, OtherSteps, BookKept DEF Settled
<1>2. CASE MineTransaction
  <2>1. PICK r \in Requests :
           /\ r \in Sent /\ ~ Settled(r) /\ UNCHANGED <<dto, seen>>
           /\ \A q \in Requests : q # r => receipt'[q] = receipt[q]
           /\ \/ Executable(r) /\ Execute(r) /\ r \in RegisterReqs
                 /\ receipt'[r] = Success(Chain!newFineId)
              \/ Executable(r) /\ Execute(r) /\ r \in UpdateReqs \ RegisterReqs
                 /\ receipt'[r] = Success(0)
              \/ UNCHANGED <<fineIds, fines, fineStatusHistory>>
                 /\ receipt'[r] = Reverted
    BY <1>2, MinedTransaction
  <2>2. \A q \in UpdateReqs : q # r => (Settled(q)' <=> Settled(q))
    BY <2>1 DEF Settled, Requests
  <2>3. CASE r \in RegisterReqs /\ Execute(r)
    <3>1. \A q \in UpdateReqs : Settled(q)' <=> Settled(q)
      BY <2>2, <2>3, InputsAssumption
    <3>2. /\ fineIds \in Nat /\ fineIds' = fineIds + 1
          /\ \A id \in 1 .. fineIds :
                fineStatusHistory'[id] = fineStatusHistory[id]
          /\ Len(fineStatusHistory'[fineIds + 1]) = 1
      BY <2>3, RegistrationBegins DEF History
    <3>3. \A id \in 1 .. fineIds' :
             id \in 1 .. fineIds \/ Len(fineStatusHistory'[id]) = 1
      BY <3>2
    <3> QED
      BY <3>1, <3>2, <3>3, BookKept
  <2>4. CASE r \in UpdateReqs \ RegisterReqs /\ Execute(r)
             /\ receipt'[r] = Success(0)
    <3>1. Settled(r)'
      BY <2>4 DEF Settled, Success
    <3> QED
      BY <2>1, <2>2, <2>4, <3>1, ChangeBooked
  <2>5. CASE UNCHANGED <<fineIds, fines, fineStatusHistory>>
             /\ receipt'[r] = Reverted
    <3>1. \A q \in UpdateReqs : Settled(q)' <=> Settled(q)
      BY <2>1, <2>2, <2>5 DEF Settled, Reverted
    <3> QED
      BY <2>5, <3>1, BookKept
  <2> QED
    BY <2>1, <2>3, <2>4, <2>5
<1> QED
  BY <1>1, <1>2

LEMMA RequestsFinite ==
  /\ IsFiniteSet(Requests)
  /\ \A S : S \subseteq UpdateReqs => IsFiniteSet(S)
<1>1. \A S : S \subseteq UpdateReqs => S \in SUBSET Requests
  BY DEF Requests
<1> QED
  BY <1>1, FS_Subset, RoomAssumption

LEMMA EntriesFinite ==
  ASSUME Contract!LedgerInv, NEW id \in 1 .. MaxFines,
         NEW S \in SUBSET (2 .. Len(fineStatusHistory[id]))
  PROVE  IsFiniteSet(S)
<1>1. 2 \in Int /\ Len(fineStatusHistory[id]) \in Int
  BY ContractTypes
<1>2. IsFiniteSet(2 .. Len(fineStatusHistory[id]))
  BY <1>1, FS_Interval
<1> QED
  BY <1>2, FS_Subset

(* A confirmed update with these arguments is booked under an entry with   *)
(* this state, and no two under the same.                                  *)
LEMMA BookRecords ==
  ASSUME AnswerInv, Contract!LedgerInv, UpdatesBooked
  PROVE  UpdatesRecorded
<1> SUFFICES ASSUME NEW id \in 1 .. MaxFines, NEW st \in FineState
             PROVE  Cardinality({u \in UpdateReqs :
                       /\ Succeeded(u)
                       /\ dto[u] = [fineId |-> id, newState |-> st]})
                    <= Cardinality({k \in 2 .. Len(fineStatusHistory[id]) :
                                      fineStatusHistory[id][k].newState = st})
  BY DEF UpdatesRecorded, Chain!FineIds
<1>1. PICK at : Booked(at)
  BY DEF UpdatesBooked
<1>2. PICK told, entries :
        /\ told = {u \in UpdateReqs :
                     /\ Succeeded(u)
                     /\ dto[u] = [fineId |-> id, newState |-> st]}
        /\ entries = {k \in 2 .. Len(fineStatusHistory[id]) :
                        fineStatusHistory[id][k].newState = st}
  OBVIOUS
<1>3. IsFiniteSet(told) /\ IsFiniteSet(entries)
  BY <1>2, RequestsFinite, EntriesFinite
<1>4. \A u \in told : /\ u \in UpdateReqs /\ Settled(u)
                      /\ dto[u].fineId = id /\ dto[u].newState = st
  BY <1>2 DEF Succeeded, AnswerInv, AnswersBacked, Requests
<1>5. \A u \in told : at[u] \in entries
  BY <1>1, <1>2, <1>4 DEF Booked, Entered, History
<1>6. PICK f : f = [u \in told |-> at[u]]
  OBVIOUS
<1>7. f \in [told -> entries] /\ \A u, v \in told : f[u] = f[v] => u = v
  BY <1>1, <1>4, <1>5, <1>6 DEF Booked, OneEach
<1>8. Cardinality(told) <= Cardinality(entries)
  BY <1>3, <1>7, NoMoreThan
<1> QED
  BY <1>2, <1>8

(* The update that an entry is booked for asked for that change, and read  *)
(* earlier in the fine's life a state from which it is legal.              *)
LEMMA BookAnswersFor ==
  ASSUME RequestInv, AnswerInv, ReadsInv, NEW at, Booked(at),
         NEW id \in 1 .. fineIds, NEW k \in 2 .. Len(fineStatusHistory[id])
  PROVE  \E u \in Askers(id, fineStatusHistory[id][k].newState) :
           /\ at[u] = k
           /\ \E j \in 1 .. k - 1 : seen[u] = fineStatusHistory[id][j].newState
<1>1. PICK u \in UpdateReqs :
        /\ Settled(u) /\ dto[u].fineId = id /\ at[u] = k
        /\ \E j \in 1 .. k - 1 : seen[u] = fineStatusHistory[id][j].newState
  BY DEF Booked, Explained, History
<1>2. dto[u].newState = fineStatusHistory[id][k].newState
  BY <1>1 DEF Booked, Entered, History
<1>3. Committed(u)
  BY <1>1, SettledSent DEF Committed, Requests
<1>4. dto[u] \in Change
  BY <1>3, InputsAssumption DEF RequestInv, UpdateSound
<1>5. dto[u] = [fineId |-> id, newState |-> fineStatusHistory[id][k].newState]
  BY <1>1, <1>2, <1>4 DEF Change
<1>6. CanTransitionTo(seen[u], dto[u].newState)
  BY <1>3 DEF ReadsInv, ReadEarlier
<1> QED
  BY <1>1, <1>2, <1>5, <1>6 DEF Askers

LEMMA BookJustifies ==
  ASSUME RequestInv, AnswerInv, Contract!LedgerInv, ReadsInv, UpdatesBooked
  PROVE  ChangesJustified
<1>1. PICK at : Booked(at)
  BY DEF UpdatesBooked
<1>2. ASSUME NEW id \in 1 .. fineIds,
             NEW k \in 2 .. Len(fineStatusHistory[id])
      PROVE  \E u \in Askers(id, fineStatusHistory[id][k].newState) :
               \E j \in 1 .. k - 1 : seen[u] = fineStatusHistory[id][j].newState
  <2>1. PICK u \in Askers(id, fineStatusHistory[id][k].newState) :
          /\ at[u] = k
          /\ \E j \in 1 .. k - 1 : seen[u] = fineStatusHistory[id][j].newState
    BY <1>1, <1>2, BookAnswersFor
  <2> QED
    BY <2>1
<1>3. ASSUME NEW id \in 1 .. fineIds, NEW st \in FineState
      PROVE  Cardinality({k \in 2 .. Len(fineStatusHistory[id]) :
                            fineStatusHistory[id][k].newState = st})
             <= Cardinality(Askers(id, st))
  <2>1. PICK entries :
          entries = {k \in 2 .. Len(fineStatusHistory[id]) :
                       fineStatusHistory[id][k].newState = st}
    OBVIOUS
  <2>2. id \in 1 .. MaxFines
    BY ContractTypes
  <2>3. IsFiniteSet(entries)
    BY <2>1, <2>2, EntriesFinite
  <2>4. IsFiniteSet(Askers(id, st))
    BY RequestsFinite DEF Askers
  <2>5. PICK f : f = [k \in entries |-> CHOOSE u \in Askers(id, st) : at[u] = k]
    OBVIOUS
  <2>6. ASSUME NEW k \in entries
        PROVE  f[k] \in Askers(id, st) /\ at[f[k]] = k
    <3>1. \E u \in Askers(id, st) : at[u] = k
      BY <1>1, <2>1, BookAnswersFor
    <3> QED
      BY <2>5, <3>1
  <2>7. f \in [entries -> Askers(id, st)]
        /\ \A k, m \in entries : f[k] = f[m] => k = m
    BY <2>5, <2>6
  <2>8. Cardinality(entries) <= Cardinality(Askers(id, st))
    BY <2>3, <2>4, <2>7, NoMoreThan
  <2> QED
    BY <2>1, <2>8
<1> QED
  BY <1>2, <1>3 DEF ChangesJustified

LEMMA BooksKept == Spec => [](RequestInv /\ AnswerInv /\ Contract!LedgerInv
                              /\ ReadsInv /\ UpdatesBooked)
<1>1. Init => ReadsInv /\ UpdatesBooked
  BY InitUpdates
<1>2. RequestInv /\ RequestData /\ AnswerInv /\ Contract!LedgerInv
      /\ ReadsInv /\ UpdatesBooked /\ [Next]_vars
      => ReadsInv' /\ UpdatesBooked'
  BY StepReads, StepBooked
<1> QED
  BY <1>1, <1>2, AnswersKept, PTL DEF Spec

(* No update that was acknowledged is missing from the history.            *)
THEOREM NoUpdateLost == Spec => []UpdatesRecorded
BY BooksKept, BookRecords, PTL

(* Every change of state was asked for by a request that had read a state  *)
(* of this fine from which it is legal, and no request changed it twice.   *)
THEOREM ChangesAccounted == Spec => []ChangesJustified
BY BooksKept, BookJustifies, PTL
=============================================================================
