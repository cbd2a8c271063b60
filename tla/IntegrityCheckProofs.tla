------------------------ MODULE IntegrityCheckProofs ------------------------
(***************************************************************************)
(* Proofs about IntegrityCheck for any number of checks and any bounds:    *)
(* an alarm is due to an update between the reads or to two updates of one *)
(* block, never to anything else.                                          *)
(***************************************************************************)
EXTENDS IntegrityCheck, TLAPS

Contract == INSTANCE FineManagementProofs

-----------------------------------------------------------------------------
(* The contract goes on as if nobody checked it.                           *)

LEMMA ContractAssumptions ==
  /\ Contract!AddressAssumption
  /\ Contract!TextAssumption
  /\ Contract!BoundsAssumption
BY ContractAssumption, SubmissionsAssumption, TextsAssumption
   DEF Contract!AddressAssumption, Contract!BoundsAssumption,
       Contract!TextAssumption, Contract!Submission, Chain!Submission

LEMMA InitOfContract == Init => Contract!Init
BY DEF Init, Chain!Init, Contract!Init, Chain!FineIds, Contract!FineIds,
       Chain!ZeroFine, Contract!ZeroFine

(* What a step of somebody else does, in terms of the contract.            *)
LEMMA TransactOfContract ==
  ASSUME Transact
  PROVE  \/ \E s \in Submissions : Contract!registerFine(Deployer, s)
         \/ \E id \in Contract!FineIds, st \in Contract!FineState :
               Contract!updateFineStatus(Deployer, id, st)
         \/ Contract!MineBlock
<1>1. ASSUME NEW s \in Submissions, Chain!registerFine(Deployer, s)
      PROVE  Contract!registerFine(Deployer, s)
  BY <1>1 DEF Chain!registerFine, Contract!registerFine, Chain!onlyOperator,
              Contract!onlyOperator, Chain!Registrable, Contract!Registrable,
              Chain!newFineId, Contract!newFineId, Chain!FineOf,
              Contract!FineOf, Chain!StatusUpdate, Contract!StatusUpdate
<1>2. ASSUME NEW id \in Chain!FineIds, NEW st \in FineState,
             Chain!updateFineStatus(Deployer, id, st)
      PROVE  /\ id \in Contract!FineIds /\ st \in Contract!FineState
             /\ Contract!updateFineStatus(Deployer, id, st)
  BY <1>2 DEF Chain!FineIds, Contract!FineIds, FineState, Contract!FineState,
              Chain!updateFineStatus, Contract!updateFineStatus,
              Chain!onlyOperator, Contract!onlyOperator, Chain!Updatable,
              Contract!Updatable, Chain!Exists, Contract!Exists,
              Chain!StatusUpdate, Contract!StatusUpdate
<1>3. Chain!MineBlock => Contract!MineBlock
  BY DEF Chain!MineBlock, Contract!MineBlock, Chain!registerVars,
         Contract!registerVars
<1> QED
  BY <1>1, <1>2, <1>3 DEF Transact

LEMMA StepOfContract ==
  ASSUME [Next]_vars
  PROVE  [Contract!Next]_Contract!vars
<1>1. CASE UNCHANGED contractVars
  BY <1>1 DEF contractVars, Contract!vars, Contract!registerVars
<1>2. CASE Transact
  BY <1>2, TransactOfContract, ContractAssumption DEF Contract!Next
<1>3. CASE UNCHANGED vars
  BY <1>1, <1>3 DEF vars
<1> QED
  BY <1>1, <1>2, <1>3
     DEF Next, Ask, Find, ReadFine, ReadRegistration, ReadTotal, ReadHistory,
         CallFails

(* So what is proved of the contract alone holds while it is checked.      *)
THEOREM LedgerHolds == Spec => []Contract!LedgerInv
<1>1. Spec => Contract!Spec
  BY InitOfContract, StepOfContract, PTL DEF Spec, Contract!Spec
<1> QED
  BY <1>1, ContractAssumptions, Contract!LedgerCorrect, PTL

-----------------------------------------------------------------------------
(* Histories only grow, in the order of time.                              *)

(* Every two entries are in order, not only neighbours: what the search    *)
(* for the latest entry needs.                                             *)
HistorySorted ==
  \A id \in 1 .. MaxFines : LET h == fineStatusHistory[id] IN
     \A j, k \in DOMAIN h :
        j < k => h[j].lastUpdatedTimestamp <= h[k].lastUpdatedTimestamp

HistoryTypes ==
  /\ fineIds \in 0 .. MaxFines
  /\ block \in Nat
  /\ fines \in [1 .. MaxFines -> Contract!Fine]
  /\ fineStatusHistory \in [1 .. MaxFines -> Seq(Contract!FineStatusUpdate)]

LEMMA LedgerHistories ==
  ASSUME Contract!LedgerInv
  PROVE  /\ HistoryTypes
         /\ \A id \in 1 .. fineIds :
               /\ fineStatusHistory[id] # <<>>
               /\ fineStatusHistory[id][Len(fineStatusHistory[id])].newState
                    = fines[id].currentState
         /\ \A id \in 1 .. MaxFines : \A k \in DOMAIN fineStatusHistory[id] :
               fineStatusHistory[id][k].lastUpdatedTimestamp <= block
<1>1. HistoryTypes
  BY ContractAssumption
     DEF HistoryTypes, Contract!LedgerInv, Contract!TypeOK, Contract!FineIds
<1>2. ASSUME NEW id \in 1 .. fineIds
      PROVE  Contract!Accounts(fineStatusHistory[id], fines[id].currentState)
  <2>1. id \in Contract!FineIds /\ fines[id].id # 0
    BY <1>1, <1>2, ContractAssumption
       DEF HistoryTypes, Contract!LedgerInv, Contract!IdsAreDense,
           Contract!FineIds
  <2> QED
    BY <2>1 DEF Contract!LedgerInv, Contract!HistoryExplainsState,
                Contract!Exists
<1>3. \A id \in 1 .. MaxFines : \A k \in DOMAIN fineStatusHistory[id] :
         fineStatusHistory[id][k].lastUpdatedTimestamp <= block
  BY DEF Contract!LedgerInv, Contract!HistoryInTimeOrder, Contract!FineIds
<1> QED
  BY <1>1, <1>2, <1>3 DEF Contract!Accounts

(* One history after a step: the same, or one entry longer with the time   *)
(* of the block being built.                                               *)
Grows(h, longer) ==
  \/ longer = h
  \/ \E u \in Contract!FineStatusUpdate :
        longer = Append(h, u) /\ u.lastUpdatedTimestamp = block

LEMMA HistoriesGrow ==
  ASSUME Contract!LedgerInv, Contract!TypeOK', Transact
  PROVE  /\ \A id \in 1 .. MaxFines :
               Grows(fineStatusHistory[id], fineStatusHistory'[id])
         /\ fineIds \in Nat /\ fineIds' \in Nat /\ fineIds <= fineIds'
<1>1. HistoryTypes /\ fineIds' \in Nat
  BY LedgerHistories, ContractAssumption DEF Contract!TypeOK
<1>2. ASSUME NEW s \in Submissions, Contract!registerFine(Deployer, s)
      PROVE  /\ \A id \in 1 .. MaxFines :
                   Grows(fineStatusHistory[id], fineStatusHistory'[id])
             /\ fineIds <= fineIds'
  <2> DEFINE u == Contract!StatusUpdate("PENDING", "PENDING", Deployer)
  <2>1. u \in Contract!FineStatusUpdate /\ u.lastUpdatedTimestamp = block
    BY <1>1, ContractAssumption
       DEF HistoryTypes, Contract!StatusUpdate, Contract!FineStatusUpdate,
           Contract!FineState
  <2>2. fineIds' = fineIds + 1
    BY <1>2 DEF Contract!registerFine, Contract!newFineId
  <2>3. \A id \in 1 .. MaxFines :
           fineStatusHistory'[id] = fineStatusHistory[id]
           \/ fineStatusHistory'[id] = Append(fineStatusHistory[id], u)
    BY <1>1, <1>2 DEF HistoryTypes, Contract!registerFine
  <2> QED
    BY <1>1, <2>1, <2>2, <2>3 DEF Grows, HistoryTypes
<1>3. ASSUME NEW n \in Contract!FineIds, NEW st \in Contract!FineState,
             Contract!updateFineStatus(Deployer, n, st)
      PROVE  /\ \A id \in 1 .. MaxFines :
                   Grows(fineStatusHistory[id], fineStatusHistory'[id])
             /\ fineIds <= fineIds'
  <2> DEFINE u == Contract!StatusUpdate(fines[n].currentState, st, Deployer)
  <2>1. u \in Contract!FineStatusUpdate /\ u.lastUpdatedTimestamp = block
    BY <1>1, <1>3, ContractAssumption
       DEF HistoryTypes, Contract!StatusUpdate, Contract!FineStatusUpdate,
           Contract!FineIds, Contract!Fine
  <2>2. fineIds' = fineIds
    BY <1>3 DEF Contract!updateFineStatus
  <2>3. \A id \in 1 .. MaxFines :
           fineStatusHistory'[id] = fineStatusHistory[id]
           \/ fineStatusHistory'[id] = Append(fineStatusHistory[id], u)
    BY <1>1, <1>3 DEF HistoryTypes, Contract!updateFineStatus
  <2> QED
    BY <1>1, <2>1, <2>2, <2>3 DEF Grows, HistoryTypes
<1>4. CASE Contract!MineBlock
  BY <1>1, <1>4 DEF Contract!MineBlock, Contract!registerVars, Grows,
                    HistoryTypes
<1> QED
  BY <1>1, <1>2, <1>3, <1>4, TransactOfContract DEF HistoryTypes

(* What a longer history keeps.                                            *)
LEMMA GrownKeeps ==
  ASSUME NEW h \in Seq(Contract!FineStatusUpdate), NEW longer, Grows(h, longer)
  PROVE  /\ longer \in Seq(Contract!FineStatusUpdate)
         /\ Len(h) <= Len(longer)
         /\ \A k \in 1 .. Len(h) : longer[k] = h[k]
         /\ \A k \in 1 .. Len(longer) :
               \/ k \in 1 .. Len(h)
               \/ k = Len(h) + 1 /\ longer[k].lastUpdatedTimestamp = block
BY DEF Grows

LEMMA StepSorted ==
  ASSUME Contract!LedgerInv, Contract!TypeOK', HistorySorted, Transact
  PROVE  HistorySorted'
<1> SUFFICES ASSUME NEW id \in 1 .. MaxFines,
                    NEW j \in DOMAIN fineStatusHistory'[id],
                    NEW k \in DOMAIN fineStatusHistory'[id], j < k
             PROVE  fineStatusHistory'[id][j].lastUpdatedTimestamp
                      <= fineStatusHistory'[id][k].lastUpdatedTimestamp
  BY DEF HistorySorted
<1> DEFINE h == fineStatusHistory[id]
           longer == fineStatusHistory'[id]
<1>1. h \in Seq(Contract!FineStatusUpdate)
      /\ \A i \in 1 .. Len(h) : h[i].lastUpdatedTimestamp <= block
  BY LedgerHistories DEF HistoryTypes
<1>2. Grows(h, longer)
  BY HistoriesGrow
<1>3. /\ longer \in Seq(Contract!FineStatusUpdate)
      /\ \A i \in 1 .. Len(h) : longer[i] = h[i]
      /\ \A i \in 1 .. Len(longer) :
            \/ i \in 1 .. Len(h)
            \/ i = Len(h) + 1 /\ longer[i].lastUpdatedTimestamp = block
  BY <1>1, <1>2, GrownKeeps
<1>4. j \in 1 .. Len(longer) /\ k \in 1 .. Len(longer)
  BY <1>3
<1>5. CASE k \in 1 .. Len(h)
  <2>1. j \in 1 .. Len(h)
    BY <1>1, <1>3, <1>4, <1>5
  <2> QED
    BY <1>1, <1>3, <1>5, <2>1 DEF HistorySorted
<1>6. CASE k \notin 1 .. Len(h)
  <2>1. longer[k].lastUpdatedTimestamp = block /\ j \in 1 .. Len(h)
    BY <1>1, <1>3, <1>4, <1>6
  <2> QED
    BY <1>1, <1>3, <2>1
<1> QED
  BY <1>5, <1>6

-----------------------------------------------------------------------------
(* What is true of every check on its way.                                 *)

StateRead == {"registration", "total", "history"}

(* The state that was read is the one which the history ended in at that   *)
(* moment, and whatever number of entries is read later is no smaller.     *)
Sound(c) ==
  LET id == got[c].fineId
      h  == fineStatusHistory[id]
  IN
  /\ pc[c] \in StateRead => id \in 1 .. fineIds
  /\ pc[c] \in StateRead => /\ got[c].since \in 1 .. Len(h)
                            /\ h[got[c].since].newState = got[c].currentState
  /\ pc[c] = "history" => /\ got[c].since <= got[c].totalUpdates
                          /\ got[c].totalUpdates <= Len(h)
  /\ pc[c] # "done" => report[c].verdict = "none"
  /\ Alarm(c) => /\ id \in 1 .. fineIds
                 /\ report[c].statusHistoryLength <= Len(h)
                 /\ UpdatedMeanwhile(c) \/ SharedBlock(c)

Read ==
  [fineId: Nat, currentState: FineState, since: Nat, timestamp: Nat,
   totalUpdates: Nat]

Response ==
  [verdict: {"none", "failed", "valid", "invalid"},
   registrationTimestamp: Nat, statusHistoryLength: Nat]

CheckTypes ==
  /\ pc \in [Checks -> Phases]
  /\ got \in [Checks -> Read]
  /\ report \in [Checks -> Response]

CheckInv == CheckTypes /\ HistorySorted /\ \A c \in Checks : Sound(c)

LEMMA InitCheckInv == Init => CheckInv
<1> SUFFICES ASSUME Init PROVE CheckInv
  OBVIOUS
<1>1. CheckTypes
  BY DEF Init, CheckTypes, Phases, Read, Response, NothingRead, Answer,
         FineState
<1>2. HistorySorted
  BY DEF Init, Chain!Init, Chain!FineIds, HistorySorted
<1>3. ASSUME NEW c \in Checks PROVE Sound(c)
  BY <1>3 DEF Init, Sound, StateRead, Alarm, Answer
<1> QED
  BY <1>1, <1>2, <1>3 DEF CheckInv

(* Others may do what they like: all that a check relies on stays.         *)
LEMMA TransactInv ==
  ASSUME Contract!LedgerInv, Contract!TypeOK', CheckInv, Transact
  PROVE  CheckInv'
<1>1. CheckTypes' /\ pc' = pc /\ got' = got /\ report' = report
  BY DEF CheckInv, CheckTypes, Transact, checkVars
<1>2. HistorySorted'
  BY StepSorted DEF CheckInv
<1>3. ASSUME NEW c \in Checks PROVE Sound(c)'
  <2> DEFINE id == got[c].fineId
             h == fineStatusHistory[id]
             longer == fineStatusHistory'[id]
             n == report[c].statusHistoryLength
  <2>1. fineIds \in Nat /\ fineIds' \in Nat /\ fineIds <= fineIds'
        /\ fineIds <= MaxFines
    BY HistoriesGrow, LedgerHistories DEF HistoryTypes
  <2>2. got[c] \in Read /\ report[c] \in Response
    BY <1>3 DEF CheckInv, CheckTypes
  <2>3. id \in Nat /\ got[c].since \in Nat /\ got[c].totalUpdates \in Nat
        /\ n \in Nat
    BY <2>2 DEF Read, Response
  <2>4. CASE id \in 1 .. fineIds
    <3>1. h \in Seq(Contract!FineStatusUpdate)
      BY <2>1, <2>4, LedgerHistories, ContractAssumption DEF HistoryTypes
    <3>2. Grows(h, longer)
      BY <2>1, <2>4, HistoriesGrow, ContractAssumption
    <3>3. /\ Len(h) <= Len(longer) /\ Len(h) \in Nat /\ Len(longer) \in Nat
          /\ \A k \in 1 .. Len(h) : longer[k] = h[k]
      BY <3>1, <3>2, GrownKeeps
    <3>4. id \in 1 .. fineIds'
      BY <2>1, <2>4
    <3>5. ASSUME Alarm(c), SharedBlock(c), n <= Len(h)
          PROVE  SharedBlock(c)'
      <4>1. n > 1 /\ h[n].lastUpdatedTimestamp = h[n - 1].lastUpdatedTimestamp
        BY <3>5 DEF SharedBlock
      <4>2. n \in 1 .. Len(h) /\ n - 1 \in 1 .. Len(h)
        BY <2>3, <3>3, <3>5, <4>1
      <4> QED
        BY <1>1, <3>3, <4>1, <4>2 DEF SharedBlock
    <3>6. Sound(c)
      BY <1>3 DEF CheckInv
    <3>7. Alarm(c)' <=> Alarm(c)
      BY <1>1 DEF Alarm
    <3>8. UpdatedMeanwhile(c)' <=> UpdatedMeanwhile(c)
      BY <1>1 DEF UpdatedMeanwhile
    <3>9. pc[c] \in StateRead =>
            /\ got[c].since \in 1 .. Len(longer)
            /\ longer[got[c].since].newState = got[c].currentState
      BY <2>3, <3>3, <3>6 DEF Sound
    <3>10. pc[c] = "history" => got[c].totalUpdates <= Len(longer)
      BY <2>3, <3>3, <3>6 DEF Sound
    <3>11. Alarm(c) => /\ n <= Len(longer)
                       /\ UpdatedMeanwhile(c)' \/ SharedBlock(c)'
      BY <2>3, <3>3, <3>5, <3>6, <3>8 DEF Sound
    <3> QED
      BY <1>1, <3>4, <3>6, <3>7, <3>9, <3>10, <3>11 DEF Sound
  <2>5. CASE id \notin 1 .. fineIds
    BY <1>1, <1>3, <2>5 DEF CheckInv, Sound, Alarm, StateRead
  <2> QED
    BY <2>4, <2>5
<1> QED
  BY <1>1, <1>2, <1>3 DEF CheckInv

(* The step of one check leaves the contract and the other checks alone.   *)
LEMMA OneCheck ==
  ASSUME CheckInv, UNCHANGED contractVars, NEW c \in Checks, CheckTypes',
         \A d \in Checks \ {c} :
            pc'[d] = pc[d] /\ got'[d] = got[d] /\ report'[d] = report[d],
         Sound(c)'
  PROVE  CheckInv'
<1>1. HistorySorted'
  BY DEF CheckInv, HistorySorted, contractVars
<1>2. ASSUME NEW d \in Checks \ {c} PROVE Sound(d)'
  BY <1>2 DEF CheckInv, contractVars, Sound, Alarm, UpdatedMeanwhile,
              SharedBlock
<1> QED
  BY <1>1, <1>2 DEF CheckInv

(* A check that answers anything but an alarm owes nothing any more.       *)
LEMMA RespondInv ==
  ASSUME CheckInv, UNCHANGED <<contractVars, got>>, NEW c \in Checks,
         NEW response \in Response, Respond(c, response),
         response.verdict # "invalid" \/ response.statusHistoryLength = 0
  PROVE  CheckInv'
<1>1. CheckTypes'
  BY DEF CheckInv, CheckTypes, Respond, Phases
<1>2. pc'[c] = "done" /\ report'[c] = response
  BY DEF CheckInv, CheckTypes, Respond
<1>3. Sound(c)'
  BY <1>2 DEF Sound, Alarm, StateRead
<1>4. \A d \in Checks \ {c} :
         pc'[d] = pc[d] /\ got'[d] = got[d] /\ report'[d] = report[d]
  BY DEF CheckInv, CheckTypes, Respond
<1> QED
  BY <1>1, <1>3, <1>4, OneCheck

-----------------------------------------------------------------------------
(* The comparison.                                                         *)

(* In a history in the order of time whose last entry is later than the    *)
(* one before it, the search for the latest entry finds the last.          *)
LEMMA LatestIsLast ==
  ASSUME NEW n \in Nat, n >= 1, NEW h, DOMAIN h = 1 .. n,
         \A k \in 1 .. n : h[k].lastUpdatedTimestamp \in Nat,
         \A i, j \in 1 .. n :
            i < j => h[i].lastUpdatedTimestamp <= h[j].lastUpdatedTimestamp,
         n > 1 => h[n].lastUpdatedTimestamp # h[n - 1].lastUpdatedTimestamp
  PROVE  LastStatus(h) = h[n]
<1> DEFINE t(k) == h[k].lastUpdatedTimestamp
           Latest(k) == \A j \in DOMAIN h : IF j < k THEN t(j) < t(k)
                                                     ELSE t(j) <= t(k)
<1>1. ASSUME NEW j \in 1 .. n, j < n PROVE t(j) < t(n)
  <2>1. n - 1 \in 1 .. n /\ n > 1 /\ n \in 1 .. n /\ n - 1 < n
    BY <1>1
  <2>2. t(n - 1) <= t(n) /\ t(n - 1) # t(n)
    BY <2>1
  <2>3. j = n - 1 \/ t(j) <= t(n - 1)
    BY <1>1, <2>1
  <2> QED
    BY <2>1, <2>2, <2>3
<1>2. n \in DOMAIN h /\ Latest(n)
  <2>1. ASSUME NEW j \in 1 .. n
        PROVE  IF j < n THEN t(j) < t(n) ELSE t(j) <= t(n)
    <3>1. CASE j < n
      BY <1>1, <3>1
    <3>2. CASE ~ (j < n)
      <4>1. j = n
        BY <3>2
      <4> QED
        BY <4>1
    <3> QED
      BY <3>1, <3>2
  <2> QED
    BY <2>1
<1>3. ASSUME NEW k \in DOMAIN h, Latest(k) PROVE k = n
  <2>1. k \in 1 .. n /\ n \in 1 .. n /\ ~ (n < k)
    OBVIOUS
  <2>2. t(n) <= t(k)
    BY <1>3, <2>1
  <2>3. ~ (t(k) < t(n))
    BY <2>1, <2>2
  <2> QED
    BY <1>1, <2>1, <2>3
<1>4. (CHOOSE k \in DOMAIN h : Latest(k)) = n
  BY <1>2, <1>3
<1> QED
  BY <1>4 DEF LastStatus

(* The first page, as long as the total that was read, is the beginning of *)
(* the history.                                                            *)
LEMMA WholeHistory ==
  ASSUME NEW id, NEW total \in Nat, total > 0,
         fineStatusHistory[id] \in Seq(Contract!FineStatusUpdate),
         total <= Len(fineStatusHistory[id])
  PROVE  Chain!getFineStatusHistory(id, 1, total)
           = [k \in 1 .. total |-> fineStatusHistory[id][k]]
<1>1. Chain!startIndex(1, total) = 0
  BY DEF Chain!startIndex
<1>2. Chain!endIndex(1, total, Len(fineStatusHistory[id])) = total
  BY <1>1 DEF Chain!endIndex, Chain!Least
<1> QED
  BY <1>1, <1>2 DEF Chain!getFineStatusHistory, Chain!Page

LEMMA ReadHistoryInv ==
  ASSUME Contract!LedgerInv, CheckInv, NEW c \in Checks, ReadHistory(c)
  PROVE  CheckInv'
<1> DEFINE read == got[c]
           id == read.fineId
           h == fineStatusHistory[id]
           n == read.totalUpdates
           first == [k \in 1 .. n |-> h[k]]
<1>1. /\ read \in Read
      /\ pc[c] = "history"
      /\ UNCHANGED <<contractVars, got>>
  BY DEF CheckInv, CheckTypes, ReadHistory, At
<1>2. /\ id \in 1 .. fineIds
      /\ read.since \in 1 .. Len(h) /\ read.since <= n /\ n <= Len(h)
      /\ h[read.since].newState = read.currentState
  BY <1>1 DEF CheckInv, Sound, StateRead
<1>3. h \in Seq(Contract!FineStatusUpdate) /\ id \in 1 .. MaxFines
  BY <1>2, LedgerHistories, ContractAssumption DEF HistoryTypes
<1>4. n \in Nat /\ n > 0 /\ read.since \in Nat /\ Len(h) \in Nat
  BY <1>1, <1>2, <1>3 DEF Read
<1>5. Chain!getFineStatusHistory(id, 1, n) = first
  BY <1>2, <1>3, <1>4, WholeHistory
<1> DEFINE response ==
             Answer(IF Consistent(read.currentState, first)
                    THEN "valid" ELSE "invalid", read.timestamp, n)
<1>6. Respond(c, response)
  BY <1>5 DEF ReadHistory
<1>7. response \in Response
  BY <1>1, <1>4 DEF Response, Answer, Read
<1>8. CASE Consistent(read.currentState, first)
  <2>1. response.verdict = "valid"
    BY <1>8 DEF Answer
  <2> QED
    BY <1>1, <1>6, <1>7, <2>1, RespondInv
<1>9. CASE ~ Consistent(read.currentState, first)
  <2>1. DOMAIN first = 1 .. n /\ first # <<>>
    <3>1. 1 \in DOMAIN first
      BY <1>4
    <3> QED
      BY <3>1
  <2>2. ASSUME NEW k \in 1 .. n
        PROVE  /\ k \in DOMAIN h /\ first[k] = h[k]
               /\ h[k].lastUpdatedTimestamp \in Nat
    <3>1. k \in 1 .. Len(h) /\ DOMAIN h = 1 .. Len(h) /\ first[k] = h[k]
      BY <1>2, <1>3, <1>4
    <3>2. h[k] \in Contract!FineStatusUpdate
      BY <1>3, <3>1
    <3> QED
      BY <3>1, <3>2 DEF Contract!FineStatusUpdate
  <2>3. \/ n > read.since
        \/ n > 1 /\ h[n].lastUpdatedTimestamp = h[n - 1].lastUpdatedTimestamp
    <3> SUFFICES ASSUME n = read.since,
                        n > 1 => h[n].lastUpdatedTimestamp
                                   # h[n - 1].lastUpdatedTimestamp
                 PROVE  FALSE
      BY <1>2, <1>4
    <3>1. \A i, j \in 1 .. n :
             i < j => first[i].lastUpdatedTimestamp
                        <= first[j].lastUpdatedTimestamp
      BY <1>3, <2>2 DEF CheckInv, HistorySorted
    <3>2. n > 1 => first[n].lastUpdatedTimestamp
                     # first[n - 1].lastUpdatedTimestamp
      BY <1>4
    <3>3. \A k \in 1 .. n : first[k].lastUpdatedTimestamp \in Nat
      BY <2>2
    <3>4. LastStatus(first) = first[n]
      <4>1. n \in Nat /\ n >= 1 /\ DOMAIN first = 1 .. n
        BY <1>4, <2>1
      <4> HIDE DEF first, n
      <4> QED
        BY <3>1, <3>2, <3>3, <4>1, LatestIsLast
    <3>5. first[n].newState = read.currentState
      BY <1>2, <1>4
    <3> QED
      BY <1>9, <2>1, <3>4, <3>5 DEF Consistent
  <2>4. CheckTypes'
    BY <1>1, <1>6, <1>7 DEF CheckInv, CheckTypes, Respond, Phases
  <2>5. pc'[c] = "done" /\ report'[c] = response
        /\ response.statusHistoryLength = n
    BY <1>6 DEF CheckInv, CheckTypes, Respond, Answer
  <2>6. UpdatedMeanwhile(c)' \/ SharedBlock(c)'
    BY <1>1, <2>3, <2>5
       DEF UpdatedMeanwhile, SharedBlock, contractVars
  <2>7. Sound(c)'
    BY <1>1, <1>2, <2>5, <2>6
       DEF Sound, StateRead, contractVars
  <2>8. \A d \in Checks \ {c} :
           pc'[d] = pc[d] /\ got'[d] = got[d] /\ report'[d] = report[d]
    BY <1>1, <1>6 DEF CheckInv, CheckTypes, Respond
  <2> QED
    BY <1>1, <2>4, <2>7, <2>8, OneCheck
<1> QED
  BY <1>8, <1>9

-----------------------------------------------------------------------------
(* The other calls.                                                        *)

(* A check that is not done has no report yet, so it has raised no alarm.  *)
LEMMA AwaitSilent ==
  ASSUME CheckInv, NEW c \in Checks, pc[c] # "done", UNCHANGED report
  PROVE  report'[c].verdict = "none" /\ ~ Alarm(c)'
BY DEF CheckInv, Sound, Alarm

LEMMA ReadsInv ==
  ASSUME Contract!LedgerInv, CheckInv, NEW c \in Checks,
         Ask(c) \/ Find(c) \/ ReadFine(c) \/ ReadRegistration(c) \/ ReadTotal(c)
  PROVE  CheckInv'
<1> DEFINE id == got[c].fineId
           h == fineStatusHistory[id]
<1>1. CheckTypes /\ Sound(c) /\ HistoryTypes /\ got[c] \in Read
  BY LedgerHistories DEF CheckInv, CheckTypes
<1>2. \A d \in Checks \ {c} :
         pc'[d] = pc[d] /\ got'[d] = got[d] /\ report'[d] = report[d]
  BY <1>1 DEF CheckTypes, Ask, Find, ReadFine, ReadRegistration, ReadTotal,
              Await, Respond
<1>3. CASE Ask(c)
  <2>1. CheckTypes' /\ pc'[c] \in {"find", "fine"}
    BY <1>1, <1>3, ContractAssumption
       DEF CheckTypes, Ask, Await, Phases, Read, FirstCalls,
           verifyBlockchainIntegrity, legacyVerifyBlockchainIntegrity,
           verifyFineIntegrity
  <2>2. report'[c].verdict = "none" /\ ~ Alarm(c)'
    BY <1>3, AwaitSilent DEF Ask, At, Await
  <2>3. Sound(c)'
    BY <2>1, <2>2 DEF Sound, StateRead
  <2> QED
    BY <1>2, <1>3, <2>1, <2>3, OneCheck DEF Ask
<1>4. CASE Find(c) /\ Respond(c, Failure)
  BY <1>4, RespondInv DEF Find, Failure, Answer, Response
<1>5. CASE Find(c) /\ Await(c, "fine")
  <2>1. CheckTypes' /\ pc'[c] = "fine" /\ UNCHANGED <<contractVars, got>>
    BY <1>1, <1>5 DEF CheckTypes, Find, Await, Phases
  <2>2. report'[c].verdict = "none" /\ ~ Alarm(c)'
    BY <1>5, AwaitSilent DEF Find, At, Await
  <2>3. Sound(c)'
    BY <2>1, <2>2 DEF Sound, StateRead
  <2> QED
    BY <1>2, <2>1, <2>3, OneCheck
<1>6. CASE ReadFine(c)
  <2>1. id \in 1 .. fineIds
    BY <1>6 DEF ReadFine, Chain!getAllFineCount
  <2>2. /\ id \in 1 .. MaxFines
        /\ h \in Seq(Contract!FineStatusUpdate) /\ h # <<>>
        /\ fines[id].currentState \in FineState
        /\ h[Len(h)].newState = fines[id].currentState
    <3>1. id \in 1 .. MaxFines
      BY <1>1, <2>1, ContractAssumption DEF HistoryTypes
    <3>2. fines[id] \in Contract!Fine
      BY <1>1, <3>1 DEF HistoryTypes
    <3>3. fines[id].currentState \in FineState
      BY <3>2 DEF Contract!Fine, FineState, Contract!FineState
    <3> QED
      BY <1>1, <2>1, <3>1, <3>3, LedgerHistories DEF HistoryTypes
  <2>3. Len(h) \in 1 .. Len(h) /\ Len(h) \in Nat
    BY <2>2
  <2>4. /\ UNCHANGED contractVars /\ pc'[c] = "registration"
        /\ got'[c] = [got[c] EXCEPT !.currentState = fines[id].currentState,
                                    !.since = Len(h)]
    BY <1>1, <1>6 DEF CheckTypes, ReadFine, Await
  <2>5. /\ got'[c] \in Read /\ got'[c].fineId = id
        /\ got'[c].since = Len(h)
        /\ got'[c].currentState = fines[id].currentState
    BY <1>1, <2>2, <2>3, <2>4 DEF Read
  <2>6. CheckTypes'
    BY <1>1, <1>6, <2>4, <2>5 DEF CheckTypes, ReadFine, Await, Phases
  <2>7. report'[c].verdict = "none" /\ ~ Alarm(c)'
    BY <1>6, AwaitSilent DEF ReadFine, At, Await
  <2>8. Sound(c)'
    BY <2>1, <2>2, <2>3, <2>4, <2>5, <2>7
       DEF Sound, StateRead, contractVars
  <2> QED
    BY <1>2, <2>4, <2>6, <2>8, OneCheck
<1>7. CASE ReadRegistration(c)
  <2> DEFINE time == Chain!getFineRegistrationDetails(id).timestamp
  <2>1. time \in Nat
    BY <1>1 DEF Chain!getFineRegistrationDetails, HistoryTypes
  <2>2. /\ UNCHANGED contractVars
        /\ pc[c] = "registration" /\ pc'[c] = "total"
        /\ got'[c] = [got[c] EXCEPT !.timestamp = time]
    BY <1>1, <1>7 DEF CheckTypes, ReadRegistration, At, Await
  <2>3. /\ got'[c] \in Read /\ got'[c].fineId = id
        /\ got'[c].since = got[c].since
        /\ got'[c].currentState = got[c].currentState
    BY <1>1, <2>1, <2>2 DEF Read
  <2>4. CheckTypes'
    BY <1>1, <1>7, <2>2, <2>3 DEF CheckTypes, ReadRegistration, Await, Phases
  <2>5. report'[c].verdict = "none" /\ ~ Alarm(c)'
    BY <1>7, AwaitSilent DEF ReadRegistration, At, Await
  <2>6. Sound(c)'
    BY <1>1, <2>2, <2>3, <2>5 DEF Sound, StateRead, contractVars
  <2> QED
    BY <1>2, <2>2, <2>4, <2>6, OneCheck
<1>8. CASE ReadTotal(c)
  <2>1. /\ UNCHANGED contractVars /\ pc[c] = "total" /\ pc'[c] = "history"
        /\ got'[c] = [got[c] EXCEPT !.totalUpdates = Len(h)]
    BY <1>1, <1>8 DEF CheckTypes, ReadTotal, At, Await
  <2>2. id \in 1 .. fineIds /\ got[c].since \in 1 .. Len(h)
        /\ h[got[c].since].newState = got[c].currentState
    BY <1>1, <2>1 DEF Sound, StateRead
  <2>3. h \in Seq(Contract!FineStatusUpdate) /\ Len(h) \in Nat
    BY <1>1, <2>2, ContractAssumption DEF HistoryTypes
  <2>4. /\ got'[c] \in Read /\ got'[c].fineId = id
        /\ got'[c].since = got[c].since
        /\ got'[c].currentState = got[c].currentState
        /\ got'[c].totalUpdates = Len(h)
    BY <1>1, <2>1, <2>3 DEF Read
  <2>5. CheckTypes'
    BY <1>1, <1>8, <2>1, <2>4 DEF CheckTypes, ReadTotal, Await, Phases
  <2>6. report'[c].verdict = "none" /\ ~ Alarm(c)'
    BY <1>8, AwaitSilent DEF ReadTotal, At, Await
  <2>7. Sound(c)'
    BY <2>1, <2>2, <2>3, <2>4, <2>6
       DEF Sound, StateRead, contractVars
  <2> QED
    BY <1>2, <2>1, <2>5, <2>7, OneCheck
<1> QED
  BY <1>3, <1>4, <1>5, <1>6, <1>7, <1>8 DEF Find

LEMMA CallFailsInv ==
  ASSUME CheckInv, NEW c \in Checks, CallFails(c)
  PROVE  CheckInv'
<1>1. PICK response \in {Failure, Answer("invalid", 0, 0)} :
        Respond(c, response)
  BY DEF CallFails
<1>2. /\ response \in Response
      /\ response.verdict # "invalid" \/ response.statusHistoryLength = 0
  BY <1>1 DEF Failure, Answer, Response
<1> QED
  BY <1>1, <1>2, RespondInv DEF CallFails

(* The inductive invariant of the checks.                                  *)
THEOREM ChecksSound == Spec => []CheckInv
<1>1. ASSUME Contract!LedgerInv, Contract!LedgerInv', CheckInv, [Next]_vars
      PROVE  CheckInv'
  <2>1. CASE Transact
    BY <1>1, <2>1, TransactInv DEF Contract!LedgerInv
  <2>2. CASE UNCHANGED vars
    BY <1>1, <2>2
       DEF vars, contractVars, checkVars, CheckInv, CheckTypes, HistorySorted,
           Sound, Alarm, UpdatedMeanwhile, SharedBlock
  <2> QED
    BY <1>1, <2>1, <2>2, ReadsInv, ReadHistoryInv, CallFailsInv DEF Next
<1> QED
  BY <1>1, InitCheckInv, LedgerHolds, PTL DEF Spec

(* Of a fine that is left alone while it is checked, and whose last two    *)
(* updates are in different blocks, no check reports an altered history,   *)
(* whatever other requests do.                                             *)
THEOREM AlarmsExplained == Spec => []AlarmExplained
<1>1. CheckInv => AlarmExplained
  BY DEF CheckInv, Sound, AlarmExplained
<1> QED
  BY <1>1, ChecksSound, PTL

-----------------------------------------------------------------------------
(* What a check has read and reports is within the bounds.                 *)

ReadInBounds ==
  [fineId: 0 .. MaxFines, currentState: FineState, since: 0 .. MaxUpdates,
   timestamp: 0 .. MaxBlock, totalUpdates: 0 .. MaxUpdates]

ResponseInBounds ==
  [verdict: {"none", "failed", "valid", "invalid"},
   registrationTimestamp: 0 .. MaxBlock, statusHistoryLength: 0 .. MaxUpdates]

InBounds ==
  /\ got \in [Checks -> ReadInBounds]
  /\ report \in [Checks -> ResponseInBounds]

(* No history is longer than MaxUpdates.                                   *)
LEMMA LedgerInBounds ==
  ASSUME Contract!LedgerInv, Contract!HistoriesFit, NEW id \in 1 .. fineIds
  PROVE  /\ id \in 1 .. MaxFines
         /\ Len(fineStatusHistory[id]) \in 0 .. MaxUpdates
         /\ fines[id].currentState \in FineState
         /\ block \in 0 .. MaxBlock
<1>1. HistoryTypes /\ block \in 0 .. MaxBlock
  BY LedgerHistories DEF Contract!LedgerInv, Contract!TypeOK
<1>2. id \in 1 .. MaxFines
  BY <1>1, ContractAssumption DEF HistoryTypes
<1>3. PICK h, fine : h = fineStatusHistory[id] /\ fine = fines[id]
  OBVIOUS
<1>4. h \in Seq(Contract!FineStatusUpdate) /\ fine \in Contract!Fine
  BY <1>1, <1>2, <1>3 DEF HistoryTypes
<1>5. Len(h) \in 0 .. MaxUpdates
  <2>1. Len(h) \in Nat
    BY <1>4
  <2>2. Len(h) <= 1 \/ Len(h) <= MaxUpdates
    BY <1>2, <1>3 DEF Contract!HistoriesFit, Contract!FineIds
  <2> QED
    BY <2>1, <2>2, ContractAssumption
<1>6. fine.currentState \in FineState
  BY <1>4 DEF Contract!Fine, Contract!FineState, FineState
<1> QED
  BY <1>1, <1>2, <1>3, <1>5, <1>6

LEMMA StepInBounds ==
  ASSUME Contract!LedgerInv, Contract!HistoriesFit, CheckInv, InBounds,
         [Next]_vars
  PROVE  InBounds'
<1>1. CASE UNCHANGED checkVars
  BY <1>1 DEF InBounds, checkVars
<1>2. ASSUME NEW c \in Checks, NEW read \in ReadInBounds,
             got' = [got EXCEPT ![c] = read], UNCHANGED report
      PROVE  InBounds'
  BY <1>2 DEF InBounds
<1>3. ASSUME NEW c \in Checks, NEW response \in ResponseInBounds,
             Respond(c, response), UNCHANGED got
      PROVE  InBounds'
  BY <1>3 DEF InBounds, Respond
<1>4. ASSUME NEW c \in Checks
      PROVE  /\ got[c] \in ReadInBounds
             /\ pc[c] \in StateRead => got[c].fineId \in 1 .. fineIds
  BY <1>4 DEF InBounds, CheckInv, Sound
<1>5. ASSUME NEW c \in Checks, Ask(c)
      PROVE  InBounds'
  <2>1. PICK id \in 0 .. MaxFines : got' = [got EXCEPT ![c].fineId = id]
    BY <1>5 DEF Ask
  <2>2. PICK read : read = [got[c] EXCEPT !.fineId = id]
    OBVIOUS
  <2>3. read \in ReadInBounds
    BY <1>4, <1>5, <2>2 DEF ReadInBounds
  <2>4. got' = [got EXCEPT ![c] = read]
    BY <2>1, <2>2 DEF InBounds
  <2> QED
    BY <1>2, <1>5, <2>3, <2>4 DEF Ask, Await
<1>6. ASSUME NEW c \in Checks, ReadFine(c)
      PROVE  InBounds'
  <2>1. PICK id : id = got[c].fineId /\ id \in 1 .. fineIds
    BY <1>6 DEF ReadFine, Chain!getAllFineCount
  <2>2. PICK read : read = [got[c] EXCEPT
                              !.currentState = fines[id].currentState,
                              !.since = Len(fineStatusHistory[id])]
    OBVIOUS
  <2>3. /\ Len(fineStatusHistory[id]) \in 0 .. MaxUpdates
        /\ fines[id].currentState \in FineState
    BY <2>1, LedgerInBounds
  <2>4. read \in ReadInBounds
    BY <1>4, <1>6, <2>2, <2>3 DEF ReadInBounds
  <2>5. got' = [got EXCEPT ![c] = read]
    BY <1>6, <2>1, <2>2 DEF InBounds, ReadFine
  <2> QED
    BY <1>2, <1>6, <2>4, <2>5 DEF ReadFine, Await
<1>7. ASSUME NEW c \in Checks, ReadRegistration(c)
      PROVE  InBounds'
  <2>1. PICK id, time : /\ id = got[c].fineId
                        /\ time = Chain!getFineRegistrationDetails(id).timestamp
    OBVIOUS
  <2>2. pc[c] = "registration" /\ id \in 1 .. fineIds
    BY <1>4, <1>7, <2>1 DEF ReadRegistration, At, StateRead
  <2>3. time = block
    BY <2>1 DEF Chain!getFineRegistrationDetails
  <2>4. time \in 0 .. MaxBlock
    BY <2>2, <2>3, LedgerInBounds
  <2>5. PICK read : read = [got[c] EXCEPT !.timestamp = time]
    OBVIOUS
  <2>6. read \in ReadInBounds
    BY <1>4, <1>7, <2>4, <2>5 DEF ReadInBounds
  <2>7. got' = [got EXCEPT ![c] = read]
    BY <1>7, <2>1, <2>5 DEF InBounds, ReadRegistration
  <2> QED
    BY <1>2, <1>7, <2>6, <2>7 DEF ReadRegistration, Await
<1>8. ASSUME NEW c \in Checks, ReadTotal(c)
      PROVE  InBounds'
  <2>1. PICK id, n : id = got[c].fineId /\ n = Len(fineStatusHistory[id])
    OBVIOUS
  <2>2. pc[c] = "total" /\ id \in 1 .. fineIds
    BY <1>4, <1>8, <2>1 DEF ReadTotal, At, StateRead
  <2>3. n \in 0 .. MaxUpdates
    BY <2>1, <2>2, LedgerInBounds
  <2>4. PICK read : read = [got[c] EXCEPT !.totalUpdates = n]
    OBVIOUS
  <2>5. read \in ReadInBounds
    BY <1>4, <1>8, <2>3, <2>4 DEF ReadInBounds
  <2>6. got' = [got EXCEPT ![c] = read]
    BY <1>8, <2>1, <2>4 DEF InBounds, ReadTotal
  <2> QED
    BY <1>2, <1>8, <2>5, <2>6 DEF ReadTotal, Await
<1>9. ASSUME NEW c \in Checks, ReadHistory(c)
      PROVE  InBounds'
  <2>1. PICK verdict \in {"valid", "invalid"} :
          Respond(c, Answer(verdict, got[c].timestamp, got[c].totalUpdates))
    BY <1>9 DEF ReadHistory
  <2>2. Answer(verdict, got[c].timestamp, got[c].totalUpdates)
          \in ResponseInBounds
    BY <1>4, <1>9 DEF Answer, ResponseInBounds, ReadInBounds
  <2> QED
    BY <1>3, <1>9, <2>1, <2>2 DEF ReadHistory
<1>10. Failure \in ResponseInBounds
       /\ Answer("invalid", 0, 0) \in ResponseInBounds
  BY ContractAssumption DEF Failure, Answer, ResponseInBounds
<1>11. ASSUME NEW c \in Checks, Find(c)
       PROVE  InBounds'
  BY <1>1, <1>3, <1>10, <1>11 DEF Find, Await, InBounds
<1>12. ASSUME NEW c \in Checks, CallFails(c)
       PROVE  InBounds'
  BY <1>3, <1>10, <1>12 DEF CallFails
<1>13. Transact => UNCHANGED checkVars
  BY DEF Transact
<1>14. UNCHANGED vars => UNCHANGED checkVars
  BY DEF vars
<1> QED
  BY <1>1, <1>5, <1>6, <1>7, <1>8, <1>9, <1>11, <1>12, <1>13, <1>14 DEF Next

(* The contract, the checks and their answers are of their types: what a   *)
(* check reads of a fine is within the contract's own bounds.              *)
THEOREM ChecksTyped == Spec => []TypeOK
<1>1. Spec => []Contract!HistoriesFit
  <2>1. Spec => Contract!Spec
    BY InitOfContract, StepOfContract, PTL DEF Spec, Contract!Spec
  <2> QED
    BY <2>1, ContractAssumptions, Contract!HistoriesBounded, PTL
<1>2. Init => InBounds
  BY ContractAssumption
     DEF Init, InBounds, ReadInBounds, ResponseInBounds, NothingRead, Answer,
         FineState
<1>3. Contract!LedgerInv /\ CheckInv /\ InBounds => TypeOK
  <2> SUFFICES ASSUME Contract!LedgerInv, CheckInv, InBounds PROVE TypeOK
    OBVIOUS
  <2>1. Contract!TypeOK
    BY DEF Contract!LedgerInv
  <2>2. Chain!TypeOK
    BY <2>1 DEF Contract!TypeOK, Chain!TypeOK, Contract!FineIds,
                Chain!FineIds, Contract!Fine, Chain!Fine,
                Contract!FineStatusUpdate, Chain!FineStatusUpdate,
                Contract!FineState, Chain!FineState
  <2> QED
    BY <2>2 DEF TypeOK, CheckInv, CheckTypes, InBounds, ReadInBounds,
                ResponseInBounds
<1>4. /\ Contract!LedgerInv /\ Contract!HistoriesFit /\ CheckInv
      /\ InBounds /\ [Next]_vars
      => InBounds'
  BY StepInBounds
<1>5. Spec => []InBounds
  BY <1>1, <1>2, <1>4, LedgerHolds, ChecksSound, PTL DEF Spec
<1> QED
  BY <1>3, <1>5, LedgerHolds, ChecksSound, PTL
=============================================================================
