------------------------- MODULE FineRequestsProofs -------------------------
(***************************************************************************)
(* Proofs about FineRequests for any number of requests, any bodies and    *)
(* any bounds: the backend drives the contract only through its own steps, *)
(* so all that is proved of the contract holds in the composed system; and *)
(* no fine reaches the chain without its evidence in IPFS, or in a form    *)
(* that the domain would refuse to read back.                              *)
(***************************************************************************)
EXTENDS FineRequests, SequenceTheorems, TLAPS

Contract == INSTANCE FineManagementProofs
              WITH Submissions <- {SubmissionOf(b) : b \in Sendable}

-----------------------------------------------------------------------------
(* The assumptions of the contract's module hold for this instance of it.  *)

LEMMA SubmissionTypes ==
  {SubmissionOf(b) : b \in Sendable} \subseteq Contract!Submission
<1> SUFFICES ASSUME NEW b \in Sendable
             PROVE  SubmissionOf(b) \in Contract!Submission
  OBVIOUS
<1>1. b \in Bodies /\ b.file \in DOMAIN CidOf
  BY InputsAssumption DEF Sendable, Complete, Body
<1>2. CidOf[b.file] \in Text
  BY <1>1, TextsAssumption
<1>3. Normal[b.plateNumber] \in Text /\ Normal[b.infractionType] \in Text
  BY <1>1, TextsAssumption, InputsAssumption DEF Body
<1>4. Rounded(b.cost) \in Nat
  BY <1>1, InputsAssumption DEF Body, Rounded
<1> QED
  BY <1>1, <1>2, <1>3, <1>4, InputsAssumption
     DEF SubmissionOf, Contract!Submission, Body

LEMMA ContractAssumptions ==
  /\ Contract!AddressAssumption
  /\ Contract!TextAssumption
  /\ Contract!BoundsAssumption
BY AccountsAssumption, RoomAssumption, TextsAssumption, SubmissionTypes
   DEF Contract!AddressAssumption, Contract!BoundsAssumption,
       Contract!TextAssumption

(* The two instances of the contract are one specification.                *)
LEMMA SameContract == Chain!Spec => Contract!Spec
<1>1. Chain!Init => Contract!Init
  BY DEF Chain!Init, Contract!Init,
         Chain!FineIds, Contract!FineIds, Chain!ZeroFine,
         Contract!ZeroFine, Chain!registerVars, Contract!registerVars,
         Chain!vars, Contract!vars, Chain!onlyOperator,
         Contract!onlyOperator, Chain!onlyOwner, Contract!onlyOwner,
         Chain!Registrable, Contract!Registrable, Chain!newFineId,
         Contract!newFineId, Chain!FineOf, Contract!FineOf,
         Chain!StatusUpdate, Contract!StatusUpdate, Chain!registerFine,
         Contract!registerFine, Chain!Exists, Contract!Exists,
         Chain!Updatable, Contract!Updatable, Chain!updateFineStatus,
         Contract!updateFineStatus, Chain!addOperator,
         Contract!addOperator, Chain!removeOperator,
         Contract!removeOperator, Chain!transferOwnership,
         Contract!transferOwnership, Chain!renounceOwnership,
         Contract!renounceOwnership, Chain!MineBlock,
         Contract!MineBlock, Chain!FineState, Contract!FineState
<1>2. Chain!vars = Contract!vars /\ Chain!vars' = Contract!vars'
  BY DEF Chain!vars, Contract!vars, Chain!registerVars,
         Contract!registerVars
<1>3. Chain!Next => Contract!Next
  BY DEF Chain!Next, Contract!Next,
         Chain!FineIds, Contract!FineIds, Chain!ZeroFine,
         Contract!ZeroFine, Chain!registerVars, Contract!registerVars,
         Chain!vars, Contract!vars, Chain!onlyOperator,
         Contract!onlyOperator, Chain!onlyOwner, Contract!onlyOwner,
         Chain!Registrable, Contract!Registrable, Chain!newFineId,
         Contract!newFineId, Chain!FineOf, Contract!FineOf,
         Chain!StatusUpdate, Contract!StatusUpdate, Chain!registerFine,
         Contract!registerFine, Chain!Exists, Contract!Exists,
         Chain!Updatable, Contract!Updatable, Chain!updateFineStatus,
         Contract!updateFineStatus, Chain!addOperator,
         Contract!addOperator, Chain!removeOperator,
         Contract!removeOperator, Chain!transferOwnership,
         Contract!transferOwnership, Chain!renounceOwnership,
         Contract!renounceOwnership, Chain!MineBlock,
         Contract!MineBlock, Chain!FineState, Contract!FineState
<1>4. [Chain!Next]_Chain!vars => [Contract!Next]_Contract!vars
  BY <1>2, <1>3
<1> QED
  BY <1>1, <1>4, PTL DEF Chain!Spec, Contract!Spec

-----------------------------------------------------------------------------
(* What is true of every request on its way.                               *)

Sending == {"nonce", "estimate", "broadcast", "wait"}

Sent == {slots[i] : i \in 1 .. Len(slots)}

(* The request is about to send its transaction, or has sent it.           *)
Committed(r) == pc[r] \in Sending \/ r \in Sent

Accepted(b) ==
  /\ b \in Sendable
  /\ WellFormed(b.plateNumber, b.location, b.infractionType, Rounded(b.cost))

Vetted(b) ==
  /\ Accepted(b)
  /\ b.ownerIdentifier \notin Blanks /\ b.registeredBy \notin Blanks

RegisterSound(r) ==
  /\ pc[r] # "read"
  /\ pc[r] = "upload" => Accepted(dto[r])
  /\ Committed(r) => Vetted(dto[r]) /\ CidOf[dto[r].file] \in ipfs

UpdateSound(u) ==
  /\ pc[u] # "upload"
  /\ pc[u] = "read" => dto[u] \in Changes /\ dto[u].newState \in FineState
  /\ Committed(u) => /\ dto[u] \in Changes
                     /\ dto[u].newState \in FineState
                     /\ dto[u].fineId \in 1 .. MaxFines

RequestTypeOK ==
  /\ slots \in Seq(Requests)
  /\ mined \in 0 .. Len(slots)
  /\ pc \in [Requests -> Phases]
  /\ dto \in [Requests -> Bodies \cup Changes \cup {NoBody}]

RequestInv ==
  /\ RequestTypeOK
  /\ \A r \in Sent : pc[r] \in Sending \cup {"done"}
  /\ \A r \in RegisterReqs : RegisterSound(r)
  /\ \A u \in UpdateReqs : UpdateSound(u)

LEMMA InitRequestInv == Init => RequestInv
BY DEF Init, RequestInv, RequestTypeOK, RegisterSound, UpdateSound, Committed,
       Sent, Sending, Requests, Phases

(* A step that touches one request leaves the others as they were, so the  *)
(* invariant needs to be shown for that one.                               *)
LEMMA OneRequest ==
  ASSUME RequestInv, NEW r \in Requests, RequestTypeOK',
         Sent' \subseteq Sent \cup {r}, ipfs \subseteq ipfs',
         \A q \in Requests \ {r} : pc'[q] = pc[q] /\ dto'[q] = dto[q],
         r \in Sent' => pc'[r] \in Sending \cup {"done"},
         r \in RegisterReqs => RegisterSound(r)',
         r \in UpdateReqs => UpdateSound(r)'
  PROVE  RequestInv'
<1>1. \A q \in Sent' : pc'[q] \in Sending \cup {"done"}
  <2>1. Sent \subseteq Requests
    BY DEF RequestInv, RequestTypeOK, Sent
  <2> QED
    BY <2>1 DEF RequestInv, Sending
<1>2. ASSUME NEW q \in RegisterReqs, q # r
      PROVE  RegisterSound(q)'
  BY <1>2 DEF RequestInv, RegisterSound, Committed, Requests, Sending
<1>3. ASSUME NEW q \in UpdateReqs, q # r
      PROVE  UpdateSound(q)'
  BY <1>3 DEF RequestInv, UpdateSound, Committed, Requests, Sending
<1> QED
  BY <1>1, <1>2, <1>3 DEF RequestInv

(* Steps that leave the node and IPFS alone and answer the request.        *)
LEMMA Answered ==
  ASSUME RequestInv, NEW r \in Requests, NEW n,
         Respond(r, n), UNCHANGED <<slots, mined, dto>>, ipfs \subseteq ipfs'
  PROVE  RequestInv'
<1>1. /\ pc'[r] = "done" /\ RequestTypeOK' /\ Sent' = Sent
      /\ \A q \in Requests \ {r} : pc'[q] = pc[q] /\ dto'[q] = dto[q]
  BY DEF Respond, RequestInv, RequestTypeOK, Phases, Sent
<1>2. r \in RegisterReqs => RegisterSound(r)'
  BY <1>1 DEF RequestInv, RegisterSound, Committed, Sending
<1>3. r \in UpdateReqs => UpdateSound(r)'
  BY <1>1 DEF RequestInv, UpdateSound, Committed, Sending
<1> QED
  BY <1>1, <1>2, <1>3, OneRequest

(* Steps that move a request on and change nothing else that the invariant *)
(* speaks of.                                                              *)
LEMMA MovedOn ==
  ASSUME RequestInv, NEW r \in Requests, NEW p \in Sending,
         pc[r] \in Sending, Await(r, p), UNCHANGED <<slots, mined, dto, ipfs>>
  PROVE  RequestInv'
<1>1. /\ pc'[r] \in Sending /\ RequestTypeOK' /\ Sent' = Sent
      /\ \A q \in Requests \ {r} : pc'[q] = pc[q] /\ dto'[q] = dto[q]
  BY DEF Await, RequestInv, RequestTypeOK, Phases, Sent, Sending
<1>2. r \in RegisterReqs => RegisterSound(r)'
  BY <1>1 DEF RequestInv, RegisterSound, Committed, Sending
<1>3. r \in UpdateReqs => UpdateSound(r)'
  BY <1>1 DEF RequestInv, UpdateSound, Committed, Sending
<1> QED
  BY <1>1, <1>2, <1>3, OneRequest

(* A request that was not made, or waits for its first answers, has not    *)
(* sent anything.                                                          *)
LEMMA NotSentYet ==
  ASSUME RequestInv, NEW r \in Requests, pc[r] \in {"idle", "upload", "read"}
  PROVE  r \notin Sent
BY DEF RequestInv, Sending

LEMMA AcceptRegisterInv ==
  ASSUME RequestInv, NEW r \in RegisterReqs, AcceptRegister(r)
  PROVE  RequestInv'
<1>1. PICK b \in Bodies :
        /\ pc[r] = "idle" /\ dto' = [dto EXCEPT ![r] = b]
        /\ \/ Accepted(b) /\ Await(r, "upload")
           \/ Fail(r)
        /\ UNCHANGED <<slots, mined, ipfs>>
  BY DEF AcceptRegister, At, Accepted, Sendable, nodeVars
<1>2. r \in Requests /\ r \notin UpdateReqs /\ r \notin Sent /\ Sent' = Sent
  BY <1>1, NotSentYet, InputsAssumption DEF Requests, Sent
<1>3. /\ RequestTypeOK' /\ dto'[r] = b
      /\ \A q \in Requests \ {r} : pc'[q] = pc[q] /\ dto'[q] = dto[q]
      /\ pc'[r] \in {"upload", "done"} /\ (pc'[r] = "upload" => Accepted(b))
  BY <1>1, <1>2 DEF RequestInv, RequestTypeOK, Await, Fail, Respond, Phases
<1>4. RegisterSound(r)'
  BY <1>2, <1>3 DEF RegisterSound, Committed, Sending
<1> QED
  BY <1>1, <1>2, <1>3, <1>4, OneRequest

LEMMA AcceptUpdateInv ==
  ASSUME RequestInv, NEW u \in UpdateReqs, AcceptUpdate(u)
  PROVE  RequestInv'
<1>1. PICK c \in Changes :
        /\ pc[u] = "idle" /\ dto' = [dto EXCEPT ![u] = c]
        /\ \/ c.newState # NoState /\ Await(u, "read")
           \/ Fail(u)
        /\ UNCHANGED <<slots, mined, ipfs>>
  BY DEF AcceptUpdate, At, nodeVars
<1>2. u \in Requests /\ u \notin RegisterReqs /\ u \notin Sent /\ Sent' = Sent
  BY <1>1, NotSentYet, InputsAssumption DEF Requests, Sent
<1>3. c.newState # NoState => c.newState \in FineState
  BY InputsAssumption DEF Change
<1>4. /\ RequestTypeOK' /\ dto'[u] = c
      /\ \A q \in Requests \ {u} : pc'[q] = pc[q] /\ dto'[q] = dto[q]
      /\ pc'[u] \in {"read", "done"}
      /\ pc'[u] = "read" => c.newState # NoState
  BY <1>1, <1>2 DEF RequestInv, RequestTypeOK, Await, Fail, Respond, Phases
<1>5. UpdateSound(u)'
  BY <1>2, <1>3, <1>4 DEF UpdateSound, Committed, Sending
<1> QED
  BY <1>1, <1>2, <1>4, <1>5, OneRequest

LEMMA UploadInv ==
  ASSUME RequestInv, NEW r \in Requests, Upload(r)
  PROVE  RequestInv'
<1>1. CASE Fail(r)
  BY <1>1, Answered DEF Upload, Fail, nodeVars
<1>2. CASE /\ Await(r, "nonce")
           /\ dto[r].ownerIdentifier \notin Blanks
           /\ dto[r].registeredBy \notin Blanks
  <2>1. /\ pc[r] = "upload" /\ UNCHANGED <<slots, mined, dto>>
        /\ ipfs' = ipfs \cup {CidOf[dto[r].file]}
    BY DEF Upload, At, nodeVars
  <2>2. r \in RegisterReqs /\ r \notin UpdateReqs
    BY <2>1, InputsAssumption DEF Requests, RequestInv, UpdateSound
  <2>3. /\ RequestTypeOK' /\ Sent' = Sent
        /\ pc'[r] = "nonce" /\ dto'[r] = dto[r]
        /\ \A q \in Requests \ {r} : pc'[q] = pc[q] /\ dto'[q] = dto[q]
    BY <1>2, <2>1 DEF RequestInv, RequestTypeOK, Await, Phases, Sent
  <2>4. RegisterSound(r)'
    BY <1>2, <2>1, <2>2, <2>3 DEF RequestInv, RegisterSound, Vetted
  <2> QED
    BY <2>1, <2>2, <2>3, <2>4, OneRequest DEF Sending
<1> QED
  BY <1>1, <1>2 DEF Upload, BusinessRules

LEMMA ReadInv ==
  ASSUME RequestInv, NEW u \in Requests, Read(u)
  PROVE  RequestInv'
<1>1. CASE Fail(u)
  BY <1>1, Answered DEF Read, Fail, nodeVars
<1>2. CASE /\ Await(u, "nonce")
           /\ \E now \in Clock(block) : Found(dto[u].fineId, now)
  <2>1. pc[u] = "read" /\ UNCHANGED <<slots, mined, dto, ipfs>>
    BY DEF Read, At, nodeVars
  <2>2. u \in UpdateReqs /\ u \notin RegisterReqs
    BY <2>1, InputsAssumption DEF Requests, RequestInv, RegisterSound
  <2>3. /\ RequestTypeOK' /\ Sent' = Sent
        /\ pc'[u] = "nonce" /\ dto'[u] = dto[u]
        /\ \A q \in Requests \ {u} : pc'[q] = pc[q] /\ dto'[q] = dto[q]
    BY <1>2, <2>1 DEF RequestInv, RequestTypeOK, Await, Phases, Sent
  <2>4. dto[u] \in Changes /\ dto[u].newState \in FineState
    BY <2>1, <2>2 DEF RequestInv, UpdateSound
  <2>5. dto[u].fineId \in 1 .. MaxFines
    <3>1. dto[u].fineId \in 0 .. MaxFines
      BY <2>4, InputsAssumption DEF Change
    <3>2. dto[u].fineId # 0
      BY <1>2 DEF Found
    <3> QED
      BY <3>1, <3>2, RoomAssumption
  <2>6. UpdateSound(u)'
    BY <2>3, <2>4, <2>5 DEF UpdateSound
  <2> QED
    BY <2>1, <2>2, <2>3, <2>6, OneRequest DEF Sending
<1> QED
  BY <1>1, <1>2 DEF Read

(* The node gives a transaction one place in its queue.                    *)
LEMMA AcceptsOne ==
  ASSUME RequestInv, NEW r \in Requests, Accepts(r)
  PROVE  /\ slots' \in Seq(Requests) /\ Len(slots) <= Len(slots')
         /\ Sent' \subseteq Sent \cup {r}
<1>1. slots \in Seq(Requests)
  BY DEF RequestInv, RequestTypeOK
<1>2. CASE slots' = Append(slots, r)
  <2>1. /\ slots' \in Seq(Requests) /\ Len(slots') = Len(slots) + 1
        /\ \A i \in 1 .. Len(slots) : slots'[i] = slots[i]
        /\ slots'[Len(slots) + 1] = r
    BY <1>1, <1>2
  <2> QED
    BY <1>1, <2>1 DEF Sent
<1>3. CASE \E n : slots' = [slots EXCEPT ![n] = r]
  <2>1. /\ slots' \in Seq(Requests) /\ Len(slots') = Len(slots)
        /\ \A i \in 1 .. Len(slots) : slots'[i] = slots[i] \/ slots'[i] = r
    <3>1. PICK n, s, t : /\ s = slots /\ t = slots' /\ t = [s EXCEPT ![n] = r]
      BY <1>3
    <3>2. s \in Seq(Requests)
      BY <1>1, <3>1
    <3>3. /\ t \in Seq(Requests) /\ Len(t) = Len(s)
          /\ \A i \in 1 .. Len(s) : t[i] = s[i] \/ t[i] = r
      <4>1. CASE n \in 1 .. Len(s)
        BY <3>1, <3>2, <4>1, ExceptSeq
      <4>2. CASE n \notin 1 .. Len(s)
        <5>1. t = s
          BY <3>1, <3>2, <4>2
        <5> QED
          BY <3>2, <5>1
      <4> QED
        BY <4>1, <4>2
    <3> QED
      BY <3>1, <3>3
  <2> QED
    BY <1>1, <2>1 DEF Sent
<1> QED
  BY <1>2, <1>3 DEF Accepts

LEMMA BroadcastInv ==
  ASSUME RequestInv, NEW r \in Requests, Broadcast(r)
  PROVE  RequestInv'
<1>1. /\ pc[r] = "broadcast" /\ Accepts(r) /\ UNCHANGED <<mined, ipfs, dto>>
      /\ Await(r, "wait") \/ Fail(r)
  BY DEF Broadcast, At
<1>2. /\ slots' \in Seq(Requests) /\ mined' \in 0 .. Len(slots')
      /\ Sent' \subseteq Sent \cup {r}
  BY <1>1, AcceptsOne DEF RequestInv, RequestTypeOK
<1>3. /\ RequestTypeOK' /\ pc'[r] \in {"wait", "done"}
      /\ \A q \in Requests \ {r} : pc'[q] = pc[q] /\ dto'[q] = dto[q]
  BY <1>1, <1>2 DEF RequestInv, RequestTypeOK, Await, Fail, Respond, Phases
<1>4. r \in RegisterReqs => RegisterSound(r)'
  BY <1>1, <1>3 DEF RequestInv, RegisterSound, Committed, Sending
<1>5. r \in UpdateReqs => UpdateSound(r)'
  BY <1>1, <1>3 DEF RequestInv, UpdateSound, Committed, Sending
<1> QED
  BY <1>1, <1>2, <1>3, <1>4, <1>5, OneRequest DEF Sending

LEMMA CrashInv ==
  ASSUME RequestInv, Crash
  PROVE  RequestInv'
<1>1. /\ UNCHANGED <<slots, mined, dto, ipfs>> /\ Sent' = Sent
      /\ \A r \in Requests : pc'[r] = "done" \/ pc'[r] = pc[r]
      /\ RequestTypeOK'
  BY DEF Crash, nodeVars, RequestInv, RequestTypeOK, Phases, Sent
<1>2. \A r \in RegisterReqs : RegisterSound(r)'
  BY <1>1 DEF RequestInv, RegisterSound, Committed, Sending, Requests
<1>3. \A u \in UpdateReqs : UpdateSound(u)'
  BY <1>1 DEF RequestInv, UpdateSound, Committed, Sending, Requests
<1>4. \A r \in Sent' : pc'[r] \in Sending \cup {"done"}
  <2>1. Sent \subseteq Requests
    BY DEF RequestInv, RequestTypeOK, Sent
  <2> QED
    BY <1>1, <2>1 DEF RequestInv
<1> QED
  BY <1>1, <1>2, <1>3, <1>4 DEF RequestInv

LEMMA StepRequestInv ==
  ASSUME RequestInv, [Next]_vars
  PROVE  RequestInv'
<1>1. ASSUME NEW r \in RegisterReqs, UploadFails(r)
      PROVE  RequestInv'
  BY <1>1, Answered DEF UploadFails, Fail, nodeVars, Requests
<1>2. ASSUME NEW r \in Requests, GetNonce(r) \/ EstimateGas(r)
      PROVE  RequestInv'
  <2>1. CASE Fail(r)
    BY <1>2, <2>1, Answered DEF GetNonce, EstimateGas, Fail, nodeVars
  <2>2. CASE Await(r, "estimate") \/ Await(r, "broadcast")
    BY <1>2, <2>2, MovedOn DEF GetNonce, EstimateGas, nodeVars, At, Sending
  <2> QED
    BY <1>2, <2>1, <2>2 DEF GetNonce, EstimateGas
<1>3. ASSUME NEW r \in Requests, Refused(r) \/ Settle(r) \/ CallFails(r)
      PROVE  RequestInv'
  BY <1>3, Answered DEF Refused, Settle, CallFails, Fail, nodeVars
<1>4. CASE MineTransaction \/ MineBlock \/ UNCHANGED vars
  <2>1. /\ UNCHANGED <<slots, pc, dto, ipfs>>
        /\ \/ mined' = mined
           \/ mined < Len(slots) /\ mined' = mined + 1
    BY <1>4 DEF MineTransaction, MineBlock, vars, requestVars, nodeVars
  <2>2. RequestTypeOK' /\ Sent' = Sent
    BY <2>1 DEF RequestInv, RequestTypeOK, Sent
  <2>3. \A r \in RegisterReqs : RegisterSound(r)'
    BY <2>1, <2>2 DEF RequestInv, RegisterSound, Committed
  <2>4. \A u \in UpdateReqs : UpdateSound(u)'
    BY <2>1, <2>2 DEF RequestInv, UpdateSound, Committed
  <2> QED
    BY <2>1, <2>2, <2>3, <2>4 DEF RequestInv
<1> QED
  BY <1>1, <1>2, <1>3, <1>4, AcceptRegisterInv, AcceptUpdateInv, UploadInv,
     ReadInv, BroadcastInv, CrashInv
     DEF Next, Proceed

THEOREM RequestsSound == Spec => []RequestInv
BY InitRequestInv, StepRequestInv, PTL DEF Spec

-----------------------------------------------------------------------------
(* The backend drives the contract through its own steps only.             *)

LEMMA StepOfContract ==
  ASSUME RequestInv, [Next]_vars
  PROVE  [Chain!Next]_Chain!vars
<1>1. CASE UNCHANGED contractVars
  BY <1>1 DEF contractVars, Chain!vars, Chain!registerVars
<1>2. CASE MineTransaction
  <2> DEFINE r == slots[mined + 1]
  <2>1. r \in Sent /\ r \in Requests
    BY <1>2 DEF MineTransaction, RequestInv, RequestTypeOK, Sent
  <2>2. Execute(r) \/ UNCHANGED contractVars
    BY <1>2 DEF MineTransaction
  <2>3. ASSUME r \in RegisterReqs, Execute(r)
        PROVE  Chain!Next
    <3>1. SubmissionOf(dto[r]) \in {SubmissionOf(b) : b \in Sendable}
      BY <2>1, <2>3 DEF RequestInv, RegisterSound, Committed, Vetted, Accepted
    <3>2. Chain!registerFine(Wallet, SubmissionOf(dto[r]))
      BY <2>3 DEF Execute
    <3> QED
      BY <3>1, <3>2, AccountsAssumption DEF Chain!Next
  <2>4. ASSUME r \notin RegisterReqs, Execute(r)
        PROVE  Chain!Next
    <3>1. dto[r].fineId \in Chain!FineIds /\ dto[r].newState \in Chain!FineState
      BY <2>1, <2>4 DEF RequestInv, UpdateSound, Committed, Requests,
                        Chain!FineIds, Chain!FineState, FineState
    <3>2. Chain!updateFineStatus(Wallet, dto[r].fineId, dto[r].newState)
      BY <2>4 DEF Execute
    <3> QED
      BY <3>1, <3>2, AccountsAssumption DEF Chain!Next
  <2> QED
    BY <1>1, <2>2, <2>3, <2>4
<1>3. CASE MineBlock
  BY <1>3 DEF MineBlock, Chain!Next
<1>4. CASE UNCHANGED vars
  BY <1>1, <1>4 DEF vars
<1> QED
  BY <1>1, <1>2, <1>3, <1>4
     DEF Next, Proceed, AcceptRegister, UploadFails, AcceptUpdate, Upload, Read,
         GetNonce, EstimateGas, Broadcast, Refused, Settle, CallFails, Crash

(* Whatever the requests do and however they fail, the contract sees only  *)
(* calls that a contract can see: the composed system implements it.       *)
THEOREM ContractRefined == Spec => ContractSpec
<1>1. Init => Chain!Init
  BY DEF Init
<1> QED
  BY <1>1, RequestsSound, StepOfContract, PTL DEF Spec, ContractSpec, Chain!Spec

(* So what is proved of the contract alone holds while the backend runs:   *)
(* its storage is typed, its numbers are dense, histories account for      *)
(* states and indices are exact.                                           *)
THEOREM LedgerHolds == Spec => []Contract!LedgerInv
BY ContractRefined, SameContract, ContractAssumptions, Contract!LedgerCorrect,
   PTL DEF ContractSpec

(* And the backend as a whole keeps the promise of FineLedger: whatever    *)
(* the requests, the node and the crashes do, the register is a book that  *)
(* only grows.                                                             *)
THEOREM BackendKeepsLedger == Spec => Contract!ImplementsLedger
BY ContractRefined, SameContract, ContractAssumptions, Contract!Refinement,
   PTL DEF ContractSpec

-----------------------------------------------------------------------------
(* What reaches the chain has its evidence in IPFS and can be read back.   *)

(* A fine that the domain accepts at every time from its block's on, which *)
(* is not after the chain's.                                               *)
Lawful(fine, time) ==
  /\ WellFormed(fine.plateNumber, fine.location, fine.infractionType,
                fine.cost)
  /\ fine.evidenceCID \in Cids
  /\ fine.ownerIdentifier \notin Blanks /\ fine.registeredBy \notin Blanks
  /\ fine.cost > 0 /\ fine.timestamp <= time

Records ==
  EvidenceStored /\ \A id \in 1 .. fineIds : Lawful(fines[id], block)

LEMMA InitRecords == Init => Records
BY DEF Init, Chain!Init, Records, EvidenceStored

LEMMA TypesOfLedger ==
  ASSUME Contract!LedgerInv
  PROVE  /\ fineIds \in 0 .. MaxFines
         /\ fines \in [1 .. MaxFines -> Contract!Fine]
         /\ block \in Nat
BY RoomAssumption DEF Contract!LedgerInv, Contract!TypeOK, Contract!FineIds

(* A vetted request is registered as a fine that the domain accepts: the   *)
(* domain has checked all but the cost, which the contract wants positive. *)
LEMMA VettedLawful ==
  ASSUME NEW b, Vetted(b), Chain!Registrable(SubmissionOf(b)), NEW id,
         NEW time \in Nat
  PROVE  LET fine == Chain!FineOf(id, SubmissionOf(b), Wallet, time) IN
         Lawful(fine, time) /\ fine.evidenceCID = CidOf[b.file]
<1> DEFINE fine == Chain!FineOf(id, SubmissionOf(b), Wallet, time)
<1>1. /\ fine.plateNumber = Normal[b.plateNumber]
      /\ fine.location = b.location
      /\ fine.infractionType = Normal[b.infractionType]
      /\ fine.cost = Rounded(b.cost)
      /\ fine.evidenceCID = CidOf[b.file]
      /\ fine.ownerIdentifier = b.ownerIdentifier
      /\ fine.registeredBy = Wallet
      /\ fine.timestamp = time
  BY DEF Chain!FineOf, SubmissionOf
<1>2. /\ b \in Body /\ b.file \in DOMAIN CidOf
      /\ b.plateNumber \in Text /\ b.infractionType \in Text
  BY InputsAssumption DEF Vetted, Accepted, Sendable, Complete, Body
<1>3. Rounded(b.cost) > 0
  BY DEF Chain!Registrable, SubmissionOf
<1>4. WellFormed(fine.plateNumber, fine.location,
                 fine.infractionType, fine.cost)
  BY <1>1, <1>2, TextsAssumption
     DEF Vetted, Accepted, WellFormed, IsPlateNumber, IsLocation,
         IsInfractionType, IsCost
<1>5. fine.ownerIdentifier \notin Blanks /\ fine.registeredBy \notin Blanks
  BY <1>1, AccountsAssumption, TextsAssumption DEF Vetted
<1> HIDE DEF fine
<1>6. fine.evidenceCID \in Cids
  BY <1>1, <1>2, TextsAssumption
<1>7. Lawful(fine, time) /\ fine.evidenceCID = CidOf[b.file]
  BY <1>1, <1>3, <1>4, <1>5, <1>6 DEF Lawful
<1> QED
  BY <1>7 DEF fine

LEMMA RegisterRecords ==
  ASSUME RequestInv, Contract!LedgerInv, Records, UNCHANGED ipfs,
         NEW r \in RegisterReqs, r \in Sent, Execute(r)
  PROVE  Records'
<1> DEFINE s == SubmissionOf(dto[r])
           fine == Chain!FineOf(fineIds + 1, s, Wallet, block)
<1>1. Vetted(dto[r]) /\ CidOf[dto[r].file] \in ipfs
  BY DEF RequestInv, RegisterSound, Committed
<1>2. /\ Chain!Registrable(s) /\ fineIds' = fineIds + 1
      /\ fineIds + 1 <= MaxFines
      /\ fines' = [fines EXCEPT ![fineIds + 1] = fine]
      /\ block' = block
  BY DEF Execute, Chain!registerFine, Chain!newFineId
<1>3. Lawful(fine, block) /\ fine.evidenceCID \in ipfs
  BY <1>1, <1>2, VettedLawful, TypesOfLedger
<1> HIDE DEF fine, s
<1>4. /\ fines'[fineIds + 1] = fine
      /\ \A id \in 1 .. fineIds : fines'[id] = fines[id]
  BY <1>2, TypesOfLedger
<1> SUFFICES ASSUME NEW id \in 1 .. fineIds'
             PROVE  /\ fines'[id].evidenceCID \in ipfs'
                    /\ Lawful(fines'[id], block')
  BY DEF Records, EvidenceStored, Lawful
<1>5. CASE id = fineIds + 1
  BY <1>2, <1>3, <1>4, <1>5
<1>6. CASE id # fineIds + 1
  BY <1>2, <1>4, <1>6, TypesOfLedger DEF Records, EvidenceStored
<1> QED
  BY <1>5, <1>6

LEMMA UpdateRecords ==
  ASSUME RequestInv, Contract!LedgerInv, Records, UNCHANGED ipfs,
         NEW u \in Requests \ RegisterReqs, Execute(u)
  PROVE  Records'
<1> DEFINE n == dto[u].fineId
<1>1. /\ fineIds' = fineIds /\ block' = block
      /\ fines' = [fines EXCEPT ![n].currentState = dto[u].newState]
  BY DEF Execute, Chain!updateFineStatus
<1> SUFFICES ASSUME NEW id \in 1 .. fineIds
             PROVE  /\ fines'[id].evidenceCID \in ipfs'
                    /\ Lawful(fines'[id], block')
  BY <1>1 DEF Records, EvidenceStored, Lawful
<1>2. fines[id] \in Contract!Fine /\ id \in DOMAIN fines
  <2>1. id \in 1 .. MaxFines
    BY TypesOfLedger, RoomAssumption
  <2> QED
    BY <2>1, TypesOfLedger
<1>3. fines'[id] = [fines[id] EXCEPT !.currentState = dto[u].newState]
      \/ fines'[id] = fines[id]
  BY <1>1, <1>2
<1>4. /\ fines'[id].plateNumber = fines[id].plateNumber
      /\ fines'[id].location = fines[id].location
      /\ fines'[id].infractionType = fines[id].infractionType
      /\ fines'[id].cost = fines[id].cost
      /\ fines'[id].evidenceCID = fines[id].evidenceCID
      /\ fines'[id].ownerIdentifier = fines[id].ownerIdentifier
      /\ fines'[id].registeredBy = fines[id].registeredBy
      /\ fines'[id].timestamp = fines[id].timestamp
  BY <1>2, <1>3 DEF Contract!Fine
<1> QED
  BY <1>1, <1>4 DEF Records, EvidenceStored, Lawful

LEMMA StepRecords ==
  ASSUME RequestInv, Contract!LedgerInv, Records, [Next]_vars
  PROVE  Records'
<1>1. CASE UNCHANGED <<fines, fineIds, block>> /\ ipfs \subseteq ipfs'
  BY <1>1 DEF Records, EvidenceStored, Lawful
<1>2. CASE MineTransaction
  <2> DEFINE r == slots[mined + 1]
  <2>1. r \in Sent /\ r \in Requests /\ UNCHANGED ipfs
    BY <1>2 DEF MineTransaction, RequestInv, RequestTypeOK, Sent
  <2>2. Execute(r) \/ UNCHANGED <<fines, fineIds, block>>
    BY <1>2 DEF MineTransaction, contractVars
  <2> QED
    BY <1>1, <2>1, <2>2, RegisterRecords, UpdateRecords
<1>3. CASE MineBlock
  <2>1. /\ UNCHANGED <<fines, fineIds, ipfs>> /\ block' = block + 1
    BY <1>3 DEF MineBlock, Chain!MineBlock, Chain!registerVars
  <2> SUFFICES ASSUME NEW id \in 1 .. fineIds
               PROVE  fines[id].timestamp <= block + 1
    BY <2>1 DEF Records, EvidenceStored, Lawful
  <2>2. fines[id] \in Contract!Fine
    BY TypesOfLedger, RoomAssumption
  <2>3. fines[id].timestamp \in Nat /\ fines[id].timestamp <= block
    BY <2>2, RoomAssumption DEF Records, Lawful, Contract!Fine
  <2> QED
    BY <2>3, TypesOfLedger
<1>4. CASE UNCHANGED vars
  BY <1>1, <1>4 DEF vars, contractVars
<1> QED
  BY <1>1, <1>2, <1>3, <1>4
     DEF Next, Proceed, AcceptRegister, UploadFails, AcceptUpdate, Upload, Read,
         GetNonce, EstimateGas, Broadcast, Refused, Settle, CallFails, Crash,
         contractVars

(* However uploads, transactions and crashes interleave, every fine on the *)
(* chain has its evidence in IPFS.                                         *)
THEOREM EvidenceKept == Spec => []EvidenceStored
<1>1. Records => EvidenceStored
  BY DEF Records
<1> QED
  BY <1>1, InitRecords, StepRecords, RequestsSound, LedgerHolds, PTL DEF Spec

(* The domain and the contract together let no fine onto the chain that    *)
(* the domain would refuse to read back, except that the clock of the      *)
(* backend may be behind the block that registered it, until it has caught *)
(* up with the chain.                                                      *)
THEOREM ReadBack == Spec => []FinesReadable
<1>1. Records => FinesReadable
  BY DEF Records, Lawful, FinesReadable, Readable, BusinessRules, IsEvidenceCID
<1> QED
  BY <1>1, InitRecords, StepRecords, RequestsSound, LedgerHolds, PTL DEF Spec
=============================================================================
