------------------------ MODULE FineManagementProofs ------------------------
(***************************************************************************)
(* Theorems about the contract, for every set of accounts, strings and     *)
(* calls, and every bound.                                                 *)
(***************************************************************************)
EXTENDS FineManagement, WellFoundedInduction, TLAPS

-----------------------------------------------------------------------------
(* The values the actions write are of the declared types.                 *)

LEMMA SubmissionType ==
  ASSUME NEW s \in Submissions
  PROVE  s \in Submission
BY TextAssumption

LEMMA FineOfType ==
  ASSUME NEW id \in Nat, NEW s \in Submissions, NEW sender \in Address,
         NEW time \in Nat
  PROVE  FineOf(id, s, sender, time) \in Fine
BY SubmissionType DEF FineOf, Fine, Submission, FineState

LEMMA StatusUpdateType ==
  ASSUME TypeOK, NEW old \in FineState, NEW new \in FineState,
         NEW sender \in Address
  PROVE  StatusUpdate(old, new, sender) \in FineStatusUpdate
BY BoundsAssumption DEF TypeOK, StatusUpdate, FineStatusUpdate

-----------------------------------------------------------------------------
(* Type correctness.                                                       *)

LEMMA InitTypeOK == Init => TypeOK
<1> SUFFICES ASSUME Init PROVE TypeOK
  OBVIOUS
<1>1. ZeroFine \in Fine
  BY TextAssumption DEF ZeroFine, Fine, FineState
<1> QED
  BY <1>1, AddressAssumption, BoundsAssumption DEF Init, TypeOK

LEMMA RegisterTypeOK ==
  ASSUME TypeOK, NEW sender \in Address, NEW s \in Submissions,
         registerFine(sender, s)
  PROVE  TypeOK'
<1>1. newFineId \in FineIds /\ newFineId \in Nat
  BY BoundsAssumption DEF TypeOK, registerFine, newFineId, FineIds
<1>2. fines' \in [FineIds -> Fine]
  BY <1>1, FineOfType, BoundsAssumption DEF TypeOK, registerFine
<1>3. StatusUpdate("PENDING", "PENDING", sender) \in FineStatusUpdate
  BY StatusUpdateType DEF FineState
<1>4. fineStatusHistory' \in [FineIds -> Seq(FineStatusUpdate)]
  BY <1>1, <1>3 DEF TypeOK, registerFine
<1>5. s.plateNumber \in Text /\ s.ownerIdentifier \in Text
  BY SubmissionType DEF Submission
<1>6. /\ finesByPlate' \in [Text -> Seq(FineIds)]
      /\ finesByOwner' \in [Text -> Seq(FineIds)]
  BY <1>1, <1>5 DEF TypeOK, registerFine
<1>7. fineIds' \in 0 .. MaxFines
  BY <1>1, BoundsAssumption DEF registerFine, FineIds
<1> QED
  BY <1>2, <1>4, <1>6, <1>7 DEF TypeOK, registerFine

LEMMA UpdateTypeOK ==
  ASSUME TypeOK, NEW sender \in Address, NEW id \in FineIds,
         NEW st \in FineState, updateFineStatus(sender, id, st)
  PROVE  TypeOK'
<1>1. fines[id] \in Fine /\ fines[id].currentState \in FineState
  BY DEF TypeOK, Fine
<1>2. [fines[id] EXCEPT !.currentState = st] \in Fine
  BY <1>1 DEF Fine
<1>3. fines' \in [FineIds -> Fine]
  BY <1>2 DEF TypeOK, updateFineStatus
<1>4. StatusUpdate(fines[id].currentState, st, sender) \in FineStatusUpdate
  BY <1>1, StatusUpdateType
<1>5. fineStatusHistory' \in [FineIds -> Seq(FineStatusUpdate)]
  BY <1>4 DEF TypeOK, updateFineStatus
<1> QED
  BY <1>3, <1>5 DEF TypeOK, updateFineStatus

(* Every variable keeps its type.                                          *)
THEOREM TypeCorrect == Spec => []TypeOK
<1>1. TypeOK /\ [Next]_vars => TypeOK'
  <2> SUFFICES ASSUME TypeOK, [Next]_vars PROVE TypeOK'
    OBVIOUS
  <2>1. ASSUME NEW sender \in Address, NEW s \in Submissions,
               registerFine(sender, s)
        PROVE  TypeOK'
    BY <2>1, RegisterTypeOK
  <2>2. ASSUME NEW sender \in Address, NEW id \in FineIds,
               NEW st \in FineState, updateFineStatus(sender, id, st)
        PROVE  TypeOK'
    BY <2>2, UpdateTypeOK
  <2>3. ASSUME NEW sender \in Address, NEW a \in Address,
               addOperator(sender, a) \/ removeOperator(sender, a)
               \/ transferOwnership(sender, a)
        PROVE  TypeOK'
    BY <2>3 DEF TypeOK, addOperator, removeOperator, transferOwnership,
                registerVars
  <2>4. ASSUME NEW sender \in Address, renounceOwnership(sender)
        PROVE  TypeOK'
    BY <2>4 DEF TypeOK, renounceOwnership, registerVars
  <2>5. CASE MineBlock
    BY <2>5, BoundsAssumption DEF TypeOK, MineBlock, registerVars
  <2>6. CASE UNCHANGED vars
    BY <2>6 DEF TypeOK, vars, registerVars
  <2> QED
    BY <2>1, <2>2, <2>3, <2>4, <2>5, <2>6 DEF Next
<1> QED
  BY <1>1, InitTypeOK, PTL DEF Spec

-----------------------------------------------------------------------------
(* The inductive invariant.  None of its parts is inductive alone: that a  *)
(* new fine starts an empty history needs the numbers to be dense, and     *)
(* that an update continues a history needs the history to end in the      *)
(* state that the fine is in.                                              *)

LedgerInv == TypeOK /\ IdsAreDense /\ HistoryExplainsState
             /\ HistoryInTimeOrder /\ IndicesExact

(* Registration: what the new number finds in storage.                     *)
LEMMA NewFineIsFresh ==
  ASSUME TypeOK, IdsAreDense, NEW sender \in Address, NEW s \in Submissions,
         registerFine(sender, s)
  PROVE  /\ newFineId \in FineIds
         /\ newFineId = fineIds + 1
         /\ fines[newFineId] = ZeroFine
         /\ fineStatusHistory[newFineId] = <<>>
         /\ ~ Exists(newFineId)
<1>1. newFineId \in FineIds /\ newFineId = fineIds + 1
  BY BoundsAssumption DEF TypeOK, registerFine, newFineId, FineIds
<1>2. ~ (newFineId <= fineIds)
  BY <1>1 DEF TypeOK
<1> QED
  BY <1>1, <1>2 DEF IdsAreDense, Exists, ZeroFine

(* A fine exists exactly when its number was handed out.                   *)
LEMMA ExistsIffNumbered ==
  ASSUME TypeOK, IdsAreDense, NEW id \in FineIds
  PROVE  Exists(id) <=> id <= fineIds
BY DEF TypeOK, IdsAreDense, Exists, FineIds, ZeroFine

LEMMA InitLedgerInv == Init => LedgerInv
<1> SUFFICES ASSUME Init PROVE LedgerInv
  OBVIOUS
<1>1. TypeOK
  BY InitTypeOK
<1>2. \A id \in FineIds : ~ (id <= 0) /\ fines[id] = ZeroFine
                         /\ ~ Exists(id) /\ fineStatusHistory[id] = <<>>
  BY DEF Init, FineIds, Exists, ZeroFine
<1>3. IdsAreDense
  BY <1>2 DEF Init, IdsAreDense
<1>4. HistoryExplainsState /\ HistoryInTimeOrder
  BY <1>2 DEF HistoryExplainsState, HistoryInTimeOrder
<1>5. IndicesExact
  BY <1>2 DEF Init, IndicesExact, IsIndex
<1> QED
  BY <1>1, <1>3, <1>4, <1>5 DEF LedgerInv

-----------------------------------------------------------------------------
(* Histories.                                                              *)

(* One more entry that leaves the state a history ends in makes it account *)
(* for the state it enters.                                                *)
LEMMA AppendAccounts ==
  ASSUME NEW h \in Seq(FineStatusUpdate), NEW u \in FineStatusUpdate,
         Accounts(h, u.oldState), u.newState # u.oldState
  PROVE  Accounts(Append(h, u), u.newState)
<1> DEFINE g == Append(h, u)
<1>1. /\ g \in Seq(FineStatusUpdate) /\ Len(g) = Len(h) + 1
      /\ Len(h) \in Nat /\ Len(h) # 0
      /\ \A k \in 1 .. Len(h) : g[k] = h[k]
      /\ g[Len(g)] = u
  BY DEF Accounts
<1>2. ASSUME NEW k \in 2 .. Len(g)
      PROVE  g[k].oldState = g[k-1].newState /\ g[k].newState # g[k].oldState
  <2>1. CASE k = Len(g)
    <3>1. g[k] = u /\ g[k-1] = h[Len(h)]
      BY <1>1, <2>1
    <3> QED
      BY <3>1 DEF Accounts
  <2>2. CASE k # Len(g)
    <3>1. k \in 2 .. Len(h) /\ g[k] = h[k] /\ g[k-1] = h[k-1]
      BY <1>1, <2>2
    <3> QED
      BY <3>1 DEF Accounts
  <2> QED
    BY <2>1, <2>2
<1>3. g # <<>> /\ g[1] = h[1]
  BY <1>1
<1> QED
  BY <1>1, <1>2, <1>3 DEF Accounts
-----------------------------------------------------------------------------
(* registerFine preserves the invariant.                                   *)

LEMMA RegisterIds ==
  ASSUME LedgerInv, NEW sender \in Address, NEW s \in Submissions,
         registerFine(sender, s)
  PROVE  IdsAreDense'
<1> SUFFICES ASSUME NEW id \in FineIds
             PROVE  IF id <= fineIds'
                    THEN fines'[id].id = id
                    ELSE fines'[id] = ZeroFine /\ fineStatusHistory'[id] = <<>>
  BY DEF IdsAreDense
<1>1. newFineId \in FineIds /\ fineIds' = newFineId /\ newFineId = fineIds + 1
  BY NewFineIsFresh DEF LedgerInv, registerFine
<1>2. CASE id = newFineId
  <2>1. fines'[id] = FineOf(newFineId, s, sender, block)
    BY <1>2 DEF registerFine, LedgerInv, TypeOK
  <2> QED
    BY <1>1, <1>2, <2>1 DEF FineOf, FineIds
<1>3. CASE id # newFineId
  <2>1. fines'[id] = fines[id] /\ fineStatusHistory'[id] = fineStatusHistory[id]
    BY <1>3 DEF registerFine, LedgerInv, TypeOK
  <2>2. id <= fineIds' <=> id <= fineIds
    BY <1>1, <1>3 DEF FineIds, LedgerInv, TypeOK
  <2> QED
    BY <2>1, <2>2 DEF LedgerInv, IdsAreDense
<1> QED
  BY <1>2, <1>3

LEMMA RegisterHistory ==
  ASSUME LedgerInv, NEW sender \in Address, NEW s \in Submissions,
         registerFine(sender, s)
  PROVE  HistoryExplainsState' /\ HistoryInTimeOrder'
<1> DEFINE u == StatusUpdate("PENDING", "PENDING", sender)
<1>1. /\ newFineId \in FineIds /\ fineStatusHistory[newFineId] = <<>>
      /\ ~ Exists(newFineId)
  BY NewFineIsFresh DEF LedgerInv
<1>2. /\ fines'[newFineId] = FineOf(newFineId, s, sender, block)
      /\ fineStatusHistory'[newFineId] = <<u>>
  BY <1>1 DEF registerFine, LedgerInv, TypeOK
<1>3. ASSUME NEW id \in FineIds, id # newFineId
      PROVE  /\ fines'[id] = fines[id]
             /\ fineStatusHistory'[id] = fineStatusHistory[id]
             /\ Exists(id)' <=> Exists(id)
  BY <1>3 DEF registerFine, LedgerInv, TypeOK, Exists
<1>4. HistoryExplainsState'
  <2> SUFFICES ASSUME NEW id \in FineIds, Exists(id)'
               PROVE  Accounts(fineStatusHistory'[id], fines'[id].currentState)
    BY DEF HistoryExplainsState
  <2>1. CASE id = newFineId
    <3>1. fines'[id].currentState = "PENDING"
      BY <1>2, <2>1 DEF FineOf
    <3>2. u.oldState = "PENDING" /\ u.newState = "PENDING"
      BY DEF StatusUpdate
    <3>3. /\ Len(<<u>>) = 1 /\ <<u>> # <<>> /\ <<u>>[1] = u
          /\ 2 .. Len(<<u>>) = {}
      OBVIOUS
    <3> QED
      BY <1>2, <2>1, <3>1, <3>2, <3>3 DEF Accounts
  <2>2. CASE id # newFineId
    BY <1>3, <2>2 DEF LedgerInv, HistoryExplainsState
  <2> QED
    BY <2>1, <2>2
<1>5. HistoryInTimeOrder'
  <2> SUFFICES ASSUME NEW id \in FineIds
               PROVE  LET h == fineStatusHistory'[id] IN
                        /\ Exists(id)' =>
                             h[1].lastUpdatedTimestamp = fines'[id].timestamp
                        /\ \A k \in DOMAIN h :
                             /\ h[k].lastUpdatedTimestamp <= block'
                             /\ k > 1 => h[k-1].lastUpdatedTimestamp
                                           <= h[k].lastUpdatedTimestamp
    BY DEF HistoryInTimeOrder
  <2>0. block' = block /\ block \in Nat
    BY BoundsAssumption DEF registerFine, LedgerInv, TypeOK
  <2>1. CASE id = newFineId
    <3>1. u.lastUpdatedTimestamp = block /\ fines'[id].timestamp = block
      BY <1>2, <2>1 DEF StatusUpdate, FineOf
    <3>2. DOMAIN <<u>> = {1} /\ <<u>>[1] = u
      OBVIOUS
    <3> HIDE DEF u
    <3> QED
      BY <1>2, <2>0, <2>1, <3>1, <3>2
  <2>2. CASE id # newFineId
    BY <1>3, <2>0, <2>2 DEF LedgerInv, HistoryInTimeOrder
  <2> QED
    BY <2>1, <2>2
<1> QED
  BY <1>4, <1>5

(* Appending a larger number than any it holds keeps a list an index.      *)
LEMMA AppendIndex ==
  ASSUME NEW list \in Seq(FineIds), NEW n \in FineIds, NEW ids,
         IsIndex(list, ids), \A i \in ids : i < n
  PROVE  IsIndex(Append(list, n), ids \cup {n})
<1> DEFINE g == Append(list, n)
<1>1. /\ Len(list) \in Nat /\ Len(g) = Len(list) + 1
      /\ DOMAIN g = 1 .. Len(g) /\ DOMAIN list = 1 .. Len(list)
      /\ \A i \in 1 .. Len(list) : g[i] = list[i]
      /\ g[Len(g)] = n
  OBVIOUS
<1>2. \A i \in DOMAIN list : list[i] < n
  BY DEF IsIndex
<1>3. ASSUME NEW i \in DOMAIN g, NEW j \in DOMAIN g, i < j
      PROVE  g[i] < g[j]
  <2>1. i \in DOMAIN list
    BY <1>1, <1>3
  <2>2. CASE j = Len(g)
    BY <1>1, <1>2, <2>1, <2>2
  <2>3. CASE j # Len(g)
    <3>1. j \in DOMAIN list
      BY <1>1, <2>3
    <3> QED
      BY <1>1, <1>3, <2>1, <3>1 DEF IsIndex
  <2> QED
    BY <2>2, <2>3
<1>4. {g[i] : i \in DOMAIN g} = {list[i] : i \in DOMAIN list} \cup {n}
  <2>1. ASSUME NEW i \in DOMAIN g
        PROVE  g[i] \in {list[k] : k \in DOMAIN list} \cup {n}
    <3>1. CASE i = Len(g)
      BY <1>1, <3>1
    <3>2. CASE i # Len(g)
      BY <1>1, <3>2
    <3> QED
      BY <3>1, <3>2
  <2>2. ASSUME NEW k \in DOMAIN list
        PROVE  list[k] \in {g[i] : i \in DOMAIN g}
    BY <1>1
  <2>3. n \in {g[i] : i \in DOMAIN g}
    BY <1>1
  <2> QED
    BY <2>1, <2>2, <2>3
<1> QED
  BY <1>3, <1>4 DEF IsIndex

LEMMA RegisterIndices ==
  ASSUME LedgerInv, NEW sender \in Address, NEW s \in Submissions,
         registerFine(sender, s)
  PROVE  IndicesExact'
<1> DEFINE Of(t) == {id \in FineIds : Exists(id) /\ fines[id].plateNumber = t}
           By(t) == {id \in FineIds :
                     Exists(id) /\ fines[id].ownerIdentifier = t}
<1> SUFFICES ASSUME NEW t \in Text
             PROVE  /\ IsIndex(finesByPlate'[t], Of(t)')
                    /\ IsIndex(finesByOwner'[t], By(t)')
  BY DEF IndicesExact
<1>1. /\ newFineId \in FineIds /\ newFineId = fineIds + 1
      /\ ~ Exists(newFineId) /\ fineIds \in Nat
  BY NewFineIsFresh DEF LedgerInv, TypeOK
<1>2. /\ fines'[newFineId] = FineOf(newFineId, s, sender, block)
      /\ \A id \in FineIds \ {newFineId} : fines'[id] = fines[id]
  BY <1>1 DEF registerFine, LedgerInv, TypeOK
<1>3. /\ fines'[newFineId].id # 0
      /\ fines'[newFineId].plateNumber = s.plateNumber
      /\ fines'[newFineId].ownerIdentifier = s.ownerIdentifier
  BY <1>1, <1>2 DEF FineOf, FineIds
<1>4. \A id \in FineIds : Exists(id) => id < newFineId
  <2> SUFFICES ASSUME NEW id \in FineIds, Exists(id) PROVE id < newFineId
    OBVIOUS
  <2>1. id <= fineIds
    BY ExistsIffNumbered DEF LedgerInv
  <2> QED
    BY <1>1, <2>1 DEF FineIds
<1>5. s.plateNumber \in Text /\ s.ownerIdentifier \in Text
  BY SubmissionType DEF Submission
<1>6. /\ IsIndex(finesByPlate[t], Of(t)) /\ finesByPlate[t] \in Seq(FineIds)
      /\ IsIndex(finesByOwner[t], By(t)) /\ finesByOwner[t] \in Seq(FineIds)
  BY DEF LedgerInv, IndicesExact, TypeOK
<1>7. IsIndex(finesByPlate'[t], Of(t)')
  <2>1. CASE t = s.plateNumber
    <3>1. finesByPlate'[t] = Append(finesByPlate[t], newFineId)
      BY <1>5, <2>1 DEF registerFine, LedgerInv, TypeOK
    <3>2. Of(t)' = Of(t) \cup {newFineId}
      BY <1>1, <1>2, <1>3, <2>1 DEF Exists
    <3>3. \A id \in Of(t) : id < newFineId
      BY <1>4
    <3> HIDE DEF Of
    <3>4. IsIndex(Append(finesByPlate[t], newFineId), Of(t) \cup {newFineId})
      BY <1>1, <1>6, <3>3, AppendIndex
    <3> QED
      BY <3>1, <3>2, <3>4
  <2>2. CASE t # s.plateNumber
    <3>1. finesByPlate'[t] = finesByPlate[t]
      BY <1>5, <2>2 DEF registerFine, LedgerInv, TypeOK
    <3>2. Of(t)' = Of(t)
      BY <1>1, <1>2, <1>3, <2>2 DEF Exists
    <3> QED
      BY <1>6, <3>1, <3>2
  <2> QED
    BY <2>1, <2>2
<1>8. IsIndex(finesByOwner'[t], By(t)')
  <2>1. CASE t = s.ownerIdentifier
    <3>1. finesByOwner'[t] = Append(finesByOwner[t], newFineId)
      BY <1>5, <2>1 DEF registerFine, LedgerInv, TypeOK
    <3>2. By(t)' = By(t) \cup {newFineId}
      BY <1>1, <1>2, <1>3, <2>1 DEF Exists
    <3>3. \A id \in By(t) : id < newFineId
      BY <1>4
    <3> HIDE DEF By
    <3>4. IsIndex(Append(finesByOwner[t], newFineId), By(t) \cup {newFineId})
      BY <1>1, <1>6, <3>3, AppendIndex
    <3> QED
      BY <3>1, <3>2, <3>4
  <2>2. CASE t # s.ownerIdentifier
    <3>1. finesByOwner'[t] = finesByOwner[t]
      BY <1>5, <2>2 DEF registerFine, LedgerInv, TypeOK
    <3>2. By(t)' = By(t)
      BY <1>1, <1>2, <1>3, <2>2 DEF Exists
    <3> QED
      BY <1>6, <3>1, <3>2
  <2> QED
    BY <2>1, <2>2
<1> QED
  BY <1>7, <1>8
-----------------------------------------------------------------------------
(* updateFineStatus preserves the invariant.                               *)

LEMMA UpdateInv ==
  ASSUME LedgerInv, NEW sender \in Address, NEW id \in FineIds,
         NEW st \in FineState, updateFineStatus(sender, id, st)
  PROVE  /\ IdsAreDense' /\ HistoryExplainsState'
         /\ HistoryInTimeOrder' /\ IndicesExact'
<1> DEFINE u == StatusUpdate(fines[id].currentState, st, sender)
           h == fineStatusHistory[id]
<1>1. /\ fines[id] \in Fine /\ fines[id].currentState \in FineState
      /\ h \in Seq(FineStatusUpdate) /\ u \in FineStatusUpdate
      /\ Exists(id) /\ id <= fineIds
      /\ block \in Nat
  <2>1. fines[id] \in Fine /\ h \in Seq(FineStatusUpdate)
    BY DEF LedgerInv, TypeOK
  <2>2. fines[id].currentState \in FineState
    BY <2>1 DEF Fine
  <2>3. u \in FineStatusUpdate
    BY <2>2, StatusUpdateType DEF LedgerInv
  <2>4. Exists(id) /\ id <= fineIds
    BY ExistsIffNumbered DEF LedgerInv, updateFineStatus, Updatable
  <2>5. block \in Nat
    BY BoundsAssumption DEF LedgerInv, TypeOK
  <2> QED
    BY <2>1, <2>2, <2>3, <2>4, <2>5
<1>2. /\ fines' = [fines EXCEPT ![id] =
                     [fines[id] EXCEPT !.currentState = st]]
      /\ fineStatusHistory' = [fineStatusHistory EXCEPT ![id] = Append(h, u)]
      /\ fineIds' = fineIds /\ block' = block
      /\ finesByPlate' = finesByPlate /\ finesByOwner' = finesByOwner
  BY <1>1 DEF updateFineStatus, LedgerInv, TypeOK
<1>3. /\ fines'[id] = [fines[id] EXCEPT !.currentState = st]
      /\ fineStatusHistory'[id] = Append(h, u)
      /\ \A i \in FineIds \ {id} :
           /\ fines'[i] = fines[i]
           /\ fineStatusHistory'[i] = fineStatusHistory[i]
  BY <1>2 DEF LedgerInv, TypeOK
<1>4. /\ fines'[id].id = fines[id].id
      /\ fines'[id].timestamp = fines[id].timestamp
      /\ fines'[id].plateNumber = fines[id].plateNumber
      /\ fines'[id].ownerIdentifier = fines[id].ownerIdentifier
      /\ fines'[id].currentState = st
  BY <1>1, <1>3 DEF Fine
<1>5. \A i \in FineIds : Exists(i)' <=> Exists(i)
  BY <1>3, <1>4 DEF Exists
<1>6. IdsAreDense'
  <2> SUFFICES ASSUME NEW i \in FineIds
               PROVE  IF i <= fineIds'
                      THEN fines'[i].id = i
                      ELSE fines'[i] = ZeroFine /\ fineStatusHistory'[i] = <<>>
    BY DEF IdsAreDense
  <2>1. CASE i = id
    BY <1>1, <1>2, <1>4, <2>1 DEF LedgerInv, IdsAreDense
  <2>2. CASE i # id
    BY <1>2, <1>3, <2>2 DEF LedgerInv, IdsAreDense
  <2> QED
    BY <2>1, <2>2
<1>7. HistoryExplainsState'
  <2> SUFFICES ASSUME NEW i \in FineIds, Exists(i)'
               PROVE  Accounts(fineStatusHistory'[i], fines'[i].currentState)
    BY DEF HistoryExplainsState
  <2>1. CASE i = id
    <3>1. /\ Accounts(h, u.oldState) /\ u.newState = st
          /\ u.newState # u.oldState
      BY <1>1 DEF LedgerInv, HistoryExplainsState, StatusUpdate,
                  updateFineStatus, Updatable
    <3> HIDE DEF u, h
    <3>2. Accounts(Append(h, u), u.newState)
      BY <1>1, <3>1, AppendAccounts
    <3> QED
      BY <1>3, <1>4, <2>1, <3>1, <3>2
  <2>2. CASE i # id
    BY <1>3, <1>5, <2>2 DEF LedgerInv, HistoryExplainsState
  <2> QED
    BY <2>1, <2>2
<1>8. HistoryInTimeOrder'
  <2> SUFFICES ASSUME NEW i \in FineIds
               PROVE  LET g == fineStatusHistory'[i] IN
                        /\ Exists(i)' =>
                             g[1].lastUpdatedTimestamp = fines'[i].timestamp
                        /\ \A k \in DOMAIN g :
                             /\ g[k].lastUpdatedTimestamp <= block'
                             /\ k > 1 => g[k-1].lastUpdatedTimestamp
                                           <= g[k].lastUpdatedTimestamp
    BY DEF HistoryInTimeOrder
  <2>1. CASE i = id
    <3> DEFINE g == Append(h, u)
    <3>1. /\ h # <<>>
          /\ h[1].lastUpdatedTimestamp = fines[id].timestamp
          /\ \A k \in DOMAIN h :
               /\ h[k].lastUpdatedTimestamp <= block
               /\ k > 1 => h[k-1].lastUpdatedTimestamp
                             <= h[k].lastUpdatedTimestamp
          /\ u.lastUpdatedTimestamp = block
      BY <1>1 DEF LedgerInv, HistoryExplainsState, HistoryInTimeOrder,
                  Accounts, StatusUpdate
    <3> HIDE DEF u, h
    <3>2. /\ Len(h) \in Nat /\ Len(h) # 0 /\ Len(g) = Len(h) + 1
          /\ DOMAIN g = 1 .. Len(g) /\ DOMAIN h = 1 .. Len(h)
          /\ \A k \in 1 .. Len(h) : g[k] = h[k]
          /\ g[Len(g)] = u
      BY <1>1, <3>1
    <3>3. g[1].lastUpdatedTimestamp = fines'[i].timestamp
      BY <1>4, <2>1, <3>1, <3>2
    <3>4. ASSUME NEW k \in DOMAIN g
          PROVE  /\ g[k].lastUpdatedTimestamp <= block
                 /\ k > 1 => g[k-1].lastUpdatedTimestamp
                               <= g[k].lastUpdatedTimestamp
      <4>1. CASE k = Len(g)
        <5> HIDE DEF g
        <5>0. k - 1 = Len(h) /\ Len(h) \in 1 .. Len(h)
          BY <3>2, <4>1
        <5>1. g[k] = u /\ g[k-1] = h[Len(h)] /\ Len(h) \in DOMAIN h
          BY <3>2, <4>1, <5>0
        <5> QED
          BY <1>1, <3>1, <5>1
      <4>2. CASE k # Len(g)
        <5>1. k \in DOMAIN h /\ g[k] = h[k] /\ (k > 1 => g[k-1] = h[k-1])
          BY <3>2, <4>2
        <5> QED
          BY <3>1, <5>1
      <4> QED
        BY <4>1, <4>2
    <3> HIDE DEF g
    <3>5. fineStatusHistory'[i] = g
      BY <1>3, <2>1 DEF g
    <3> QED
      BY <1>2, <3>3, <3>4, <3>5
  <2>2. CASE i # id
    BY <1>2, <1>3, <1>5, <2>2 DEF LedgerInv, HistoryInTimeOrder
  <2> QED
    BY <2>1, <2>2
<1>9. IndicesExact'
  <2> SUFFICES ASSUME NEW t \in Text
      PROVE  /\ IsIndex(finesByPlate'[t],
                   {i \in FineIds : Exists(i)' /\ fines'[i].plateNumber = t})
             /\ IsIndex(finesByOwner'[t],
                   {i \in FineIds :
                    Exists(i)' /\ fines'[i].ownerIdentifier = t})
    BY DEF IndicesExact
  <2>1. \A i \in FineIds :
          /\ fines'[i].plateNumber = fines[i].plateNumber
          /\ fines'[i].ownerIdentifier = fines[i].ownerIdentifier
    BY <1>3, <1>4
  <2>2. /\ {i \in FineIds : Exists(i)' /\ fines'[i].plateNumber = t}
             = {i \in FineIds : Exists(i) /\ fines[i].plateNumber = t}
        /\ {i \in FineIds : Exists(i)' /\ fines'[i].ownerIdentifier = t}
             = {i \in FineIds : Exists(i) /\ fines[i].ownerIdentifier = t}
    BY <1>5, <2>1
  <2> QED
    BY <1>2, <2>2 DEF LedgerInv, IndicesExact
<1> QED
  BY <1>6, <1>7, <1>8, <1>9

-----------------------------------------------------------------------------
(* The remaining calls leave the register alone; a new block only moves    *)
(* the clock forward.                                                      *)

LEMMA QuietInv ==
  ASSUME LedgerInv, UNCHANGED registerVars,
         block' = block \/ block' = block + 1
  PROVE  /\ IdsAreDense' /\ HistoryExplainsState'
         /\ HistoryInTimeOrder' /\ IndicesExact'
<1>1. IdsAreDense' /\ HistoryExplainsState' /\ IndicesExact'
  BY DEF LedgerInv, registerVars, IdsAreDense, HistoryExplainsState,
         IndicesExact, Exists
<1>2. HistoryInTimeOrder'
  <2> SUFFICES ASSUME NEW id \in FineIds, NEW k \in DOMAIN fineStatusHistory[id]
               PROVE  fineStatusHistory[id][k].lastUpdatedTimestamp <= block'
    BY DEF LedgerInv, registerVars, HistoryInTimeOrder, Exists
  <2>1. fineStatusHistory[id][k] \in FineStatusUpdate
    BY DEF LedgerInv, TypeOK
  <2>2. /\ fineStatusHistory[id][k].lastUpdatedTimestamp <= block
        /\ fineStatusHistory[id][k].lastUpdatedTimestamp \in Nat
        /\ block \in Nat
    BY <2>1, BoundsAssumption
       DEF LedgerInv, TypeOK, HistoryInTimeOrder, FineStatusUpdate
  <2> QED
    BY <2>2
<1> QED
  BY <1>1, <1>2

(* The register's storage stays in step with itself: numbers, fines,       *)
(* histories and both indices agree in every reachable state.              *)
THEOREM LedgerCorrect == Spec => []LedgerInv
<1>1. LedgerInv /\ TypeOK' /\ [Next]_vars => LedgerInv'
  <2> SUFFICES ASSUME LedgerInv, TypeOK', [Next]_vars PROVE LedgerInv'
    OBVIOUS
  <2>1. ASSUME NEW sender \in Address, NEW s \in Submissions,
               registerFine(sender, s)
        PROVE  LedgerInv'
    BY <2>1, RegisterIds, RegisterHistory, RegisterIndices DEF LedgerInv
  <2>2. ASSUME NEW sender \in Address, NEW id \in FineIds,
               NEW st \in FineState, updateFineStatus(sender, id, st)
        PROVE  LedgerInv'
    BY <2>2, UpdateInv DEF LedgerInv
  <2>3. ASSUME NEW sender \in Address, NEW a \in Address,
               \/ addOperator(sender, a) \/ removeOperator(sender, a)
               \/ transferOwnership(sender, a)
        PROVE  LedgerInv'
    <3>1. UNCHANGED registerVars /\ block' = block
      BY <2>3 DEF addOperator, removeOperator, transferOwnership
    <3> QED
      BY <3>1, QuietInv DEF LedgerInv
  <2>4. ASSUME NEW sender \in Address, renounceOwnership(sender)
        PROVE  LedgerInv'
    <3>1. UNCHANGED registerVars /\ block' = block
      BY <2>4 DEF renounceOwnership
    <3> QED
      BY <3>1, QuietInv DEF LedgerInv
  <2>5. CASE MineBlock
    <3>1. UNCHANGED registerVars /\ block' = block + 1
      BY <2>5 DEF MineBlock
    <3> QED
      BY <3>1, QuietInv DEF LedgerInv
  <2>6. CASE UNCHANGED vars
    <3>1. UNCHANGED registerVars /\ block' = block
      BY <2>6 DEF vars
    <3> QED
      BY <3>1, QuietInv DEF LedgerInv
  <2> QED
    BY <2>1, <2>2, <2>3, <2>4, <2>5, <2>6 DEF Next
<1> QED
  BY <1>1, InitLedgerInv, TypeCorrect, PTL DEF Spec

(* Every history is within the bound on updates, except that the           *)
(* registration is always recorded.                                        *)
HistoriesFit ==
  \A id \in FineIds : \/ Len(fineStatusHistory[id]) <= 1
                      \/ Len(fineStatusHistory[id]) <= MaxUpdates

LEMMA OneEntryFits ==
  ASSUME HistoriesFit, TypeOK, NEW n \in FineIds, NEW u,
         Len(fineStatusHistory[n]) + 1 <= 1
           \/ Len(fineStatusHistory[n]) < MaxUpdates,
         fineStatusHistory' = [fineStatusHistory EXCEPT ![n] = Append(@, u)]
  PROVE  HistoriesFit'
<1> SUFFICES ASSUME NEW id \in FineIds
             PROVE  \/ Len(fineStatusHistory'[id]) <= 1
                    \/ Len(fineStatusHistory'[id]) <= MaxUpdates
  BY DEF HistoriesFit
<1>1. CASE id = n
  <2>1. PICK h : h = fineStatusHistory[n]
    OBVIOUS
  <2>2. h \in Seq(FineStatusUpdate) /\ fineStatusHistory'[id] = Append(h, u)
    BY <1>1, <2>1 DEF TypeOK
  <2>3. Len(Append(h, u)) = Len(h) + 1 /\ Len(h) \in Nat
    BY <2>2
  <2> QED
    BY <2>1, <2>2, <2>3, BoundsAssumption
<1>2. CASE id # n
  BY <1>2 DEF HistoriesFit, TypeOK
<1> QED
  BY <1>1, <1>2

(* No history outgrows the bound that the calls of a run are held to.      *)
THEOREM HistoriesBounded == Spec => []HistoriesFit
<1>1. Len(<< >>) = 0
  OBVIOUS
<1>2. Init => HistoriesFit
  BY <1>1 DEF Init, HistoriesFit
<1>3. LedgerInv /\ HistoriesFit /\ [Next]_vars => HistoriesFit'
  <2> SUFFICES ASSUME LedgerInv, HistoriesFit, [Next]_vars
               PROVE  HistoriesFit'
    OBVIOUS
  <2>1. ASSUME NEW sender \in Address, NEW s \in Submissions,
               registerFine(sender, s)
        PROVE  HistoriesFit'
    <3>1. PICK n, u : /\ n = newFineId
                      /\ u = StatusUpdate("PENDING", "PENDING", sender)
      OBVIOUS
    <3>2. n \in FineIds /\ fineStatusHistory[n] = <<>>
      BY <2>1, <3>1, NewFineIsFresh DEF LedgerInv
    <3>3. fineStatusHistory' = [fineStatusHistory EXCEPT ![n] = Append(@, u)]
      BY <2>1, <3>1 DEF registerFine
    <3>4. Len(fineStatusHistory[n]) + 1 <= 1
      BY <1>1, <3>2
    <3> QED
      BY <3>2, <3>3, <3>4, OneEntryFits DEF LedgerInv
  <2>2. ASSUME NEW sender \in Address, NEW id \in FineIds,
               NEW st \in FineState, updateFineStatus(sender, id, st)
        PROVE  HistoriesFit'
    <3>1. PICK u : u = StatusUpdate(fines[id].currentState, st, sender)
      OBVIOUS
    <3>2. /\ Len(fineStatusHistory[id]) < MaxUpdates
          /\ fineStatusHistory' =
               [fineStatusHistory EXCEPT ![id] = Append(@, u)]
      BY <2>2, <3>1 DEF updateFineStatus
    <3> QED
      BY <3>2, OneEntryFits DEF LedgerInv
  <2>3. ASSUME UNCHANGED fineStatusHistory
        PROVE  HistoriesFit'
    BY <2>3 DEF HistoriesFit
  <2> QED
    BY <2>1, <2>2, <2>3
       DEF Next, vars, registerVars, addOperator, removeOperator,
           transferOwnership, renounceOwnership, MineBlock
<1> QED
  BY <1>2, <1>3, LedgerCorrect, PTL DEF Spec

(* The number of a fine and the storage beyond the last one.               *)
COROLLARY NumbersDense == Spec => []IdsAreDense
BY LedgerCorrect, PTL DEF LedgerInv

(* What a history tells is what happened to the fine.                      *)
COROLLARY HistorySound == Spec => []HistoryExplainsState
BY LedgerCorrect, PTL DEF LedgerInv

(* Histories run forward in time.                                          *)
COROLLARY HistoryOrdered == Spec => []HistoryInTimeOrder
BY LedgerCorrect, PTL DEF LedgerInv

(* The lookups by plate and by owner miss no fine and invent none.         *)
COROLLARY IndicesSound == Spec => []IndicesExact
BY LedgerCorrect, PTL DEF LedgerInv

-----------------------------------------------------------------------------
(* What a step may never do.  The calls that are neither a registration    *)
(* nor an update leave the register alone.                                 *)

LEMMA OtherStepsQuiet ==
  ASSUME [Next]_vars,
         \A sender \in Address, s \in Submissions : ~ registerFine(sender, s),
         \A sender \in Address, id \in FineIds, st \in FineState :
           ~ updateFineStatus(sender, id, st)
  PROVE  UNCHANGED registerVars
BY DEF Next, vars, registerVars, addOperator, removeOperator,
       transferOwnership, renounceOwnership, MineBlock

(* IM-001: a registered fine keeps everything but its state.               *)
THEOREM MetadataPreserved == Spec => MetadataImmutable
<1>1. ASSUME LedgerInv, [Next]_vars, NEW id \in FineIds, Exists(id)
      PROVE  Metadata(fines'[id]) = Metadata(fines[id])
  <2>1. ASSUME NEW sender \in Address, NEW s \in Submissions,
               registerFine(sender, s)
        PROVE  fines'[id] = fines[id]
    <3>1. id # newFineId
      BY <1>1, <2>1, NewFineIsFresh DEF LedgerInv
    <3> QED
      BY <1>1, <2>1, <3>1 DEF registerFine, LedgerInv, TypeOK
  <2>2. ASSUME NEW sender \in Address, NEW i \in FineIds, NEW st \in FineState,
               updateFineStatus(sender, i, st)
        PROVE  Metadata(fines'[id]) = Metadata(fines[id])
    <3>1. CASE i = id
      <4>1. fines[id] \in Fine
        BY <1>1 DEF LedgerInv, TypeOK
      <4>2. fines'[id] = [fines[id] EXCEPT !.currentState = st]
        BY <1>1, <2>2, <3>1 DEF updateFineStatus, LedgerInv, TypeOK
      <4> QED
        BY <4>1, <4>2 DEF Metadata, Fine
    <3>2. CASE i # id
      <4>1. fines'[id] = fines[id]
        BY <1>1, <2>2, <3>2 DEF updateFineStatus, LedgerInv, TypeOK
      <4> QED
        BY <4>1
    <3> QED
      BY <3>1, <3>2
  <2>3. CASE UNCHANGED registerVars
    BY <2>3 DEF registerVars
  <2> QED
    BY <1>1, <2>1, <2>2, <2>3, OtherStepsQuiet
<1>2. LedgerInv /\ [Next]_vars
        => [\A id \in FineIds :
              Exists(id) => Metadata(fines'[id]) = Metadata(fines[id])]_vars
  BY <1>1
<1> QED
  BY <1>2, LedgerCorrect, PTL DEF Spec, MetadataImmutable

(* A fine never changes without an entry that tells the truth about the    *)
(* change and is signed by a sender who held the right at that moment.     *)
THEOREM ChangesSigned == Spec => EveryChangeIsSigned
<1> DEFINE Entry(id, sender) ==
             [lastUpdatedTimestamp |-> block,
              oldState |-> fines[id].currentState,
              newState |-> fines'[id].currentState,
              updatedBy |-> sender]
           Signed(id) ==
             fines'[id] # fines[id]
               \/ fineStatusHistory'[id] # fineStatusHistory[id]
             => \E sender \in Address :
                  /\ sender \in operators \/ sender = owner
                  /\ fineStatusHistory'[id] =
                       Append(fineStatusHistory[id], Entry(id, sender))
<1>1. ASSUME LedgerInv, [Next]_vars, NEW id \in FineIds
      PROVE  Signed(id)
  <2>1. ASSUME NEW sender \in Address, NEW s \in Submissions,
               registerFine(sender, s)
        PROVE  Signed(id)
    <3>1. CASE id = newFineId
      <4>1. /\ fines[id].currentState = "PENDING"
            /\ fines'[id].currentState = "PENDING"
        <5>1. fines[id] = ZeroFine
          BY <1>1, <2>1, <3>1, NewFineIsFresh DEF LedgerInv
        <5>2. fines'[id] = FineOf(newFineId, s, sender, block)
          BY <1>1, <2>1, <3>1 DEF registerFine, LedgerInv, TypeOK
        <5> QED
          BY <5>1, <5>2 DEF ZeroFine, FineOf
      <4>2. fineStatusHistory'[id] =
              Append(fineStatusHistory[id], Entry(id, sender))
        BY <1>1, <2>1, <3>1, <4>1
           DEF registerFine, LedgerInv, TypeOK, StatusUpdate
      <4> QED
        BY <2>1, <4>2 DEF registerFine, onlyOperator
    <3>2. CASE id # newFineId
      BY <1>1, <2>1, <3>2 DEF registerFine, LedgerInv, TypeOK
    <3> QED
      BY <3>1, <3>2
  <2>2. ASSUME NEW sender \in Address, NEW i \in FineIds, NEW st \in FineState,
               updateFineStatus(sender, i, st)
        PROVE  Signed(id)
    <3>1. CASE i = id
      <4>1. fines[id] \in Fine
        BY <1>1 DEF LedgerInv, TypeOK
      <4>2. fines'[id] = [fines[id] EXCEPT !.currentState = st]
        BY <1>1, <2>2, <3>1 DEF updateFineStatus, LedgerInv, TypeOK
      <4>3. fines'[id].currentState = st
        BY <4>1, <4>2 DEF Fine
      <4>4. fineStatusHistory'[id] =
              Append(fineStatusHistory[id], Entry(id, sender))
        BY <1>1, <2>2, <3>1, <4>3
           DEF updateFineStatus, LedgerInv, TypeOK, StatusUpdate
      <4> QED
        BY <2>2, <4>4 DEF updateFineStatus, onlyOperator
    <3>2. CASE i # id
      BY <1>1, <2>2, <3>2 DEF updateFineStatus, LedgerInv, TypeOK
    <3> QED
      BY <3>1, <3>2
  <2>3. CASE UNCHANGED registerVars
    BY <2>3 DEF registerVars
  <2> QED
    BY <1>1, <2>1, <2>2, <2>3, OtherStepsQuiet
<1>2. LedgerInv /\ [Next]_vars => [\A id \in FineIds : Signed(id)]_vars
  BY <1>1
<1> QED
  BY <1>2, LedgerCorrect, PTL DEF Spec, EveryChangeIsSigned

-----------------------------------------------------------------------------
(* The contract implements the abstract register.                          *)

LEMMA InitImplements == Init => Ledger!Init
BY DEF Init, Ledger!Init, bookOfFines

(* Append written as a function.                                           *)
LEMMA AppendGrows ==
  ASSUME NEW S, NEW q \in Seq(S), NEW x
  PROVE  Append(q, x) = [i \in 1 .. Len(q) + 1 |->
                           IF i = Len(q) + 1 THEN x ELSE q[i]]
<1> DEFINE T == S \cup {x}
<1>1. Len(q) \in Nat /\ q = [i \in 1 .. Len(q) |-> q[i]]
      /\ \A i \in 1 .. Len(q) : q[i] \in T
  OBVIOUS
<1> HIDE DEF T
<1>2. [i \in 1 .. Len(q) |-> q[i]] \in Seq(T)
  BY <1>1
<1>3. q \in Seq(T) /\ x \in T
  BY <1>1, <1>2 DEF T
<1> DEFINE a == Append(q, x)
<1>4. /\ a \in Seq(T) /\ Len(a) = Len(q) + 1
      /\ \A i \in 1 .. Len(q) + 1 : a[i] = IF i = Len(q) + 1 THEN x ELSE q[i]
  BY <1>1, <1>3
<1> HIDE DEF a
<1>5. a = [i \in 1 .. Len(q) + 1 |-> a[i]]
  BY <1>1, <1>4
<1>6. a = [i \in 1 .. Len(q) + 1 |-> IF i = Len(q) + 1 THEN x ELSE q[i]]
  BY <1>4, <1>5
<1> QED
  BY <1>6 DEF a

(* The entry of a fine that has just been registered.                      *)
LEMMA NewEntry ==
  ASSUME NEW fine, NEW u
  PROVE  EntryOf(fine, <<u>>) = [facts |-> Metadata(fine),
                                 log   |-> <<u.newState>>]
<1>1. Len(<<u>>) = 1 /\ <<u>>[1] = u
  OBVIOUS
<1>2. [k \in 1 .. Len(<<u>>) |-> <<u>>[k].newState] = <<u.newState>>
  BY <1>1
<1> QED
  BY <1>2 DEF EntryOf

(* An entry with one more state in its log.                                *)
Grown(entry, s) == [facts |-> entry.facts, log |-> Append(entry.log, s)]

(* A new entry at the end of the history is a new state at the end of the  *)
(* log.                                                                    *)
LEMMA GrownEntry ==
  ASSUME NEW h \in Seq(FineStatusUpdate), NEW u \in FineStatusUpdate,
         NEW fine, NEW other,
         Metadata(other) = Metadata(fine)
  PROVE  /\ EntryOf(other, Append(h, u)) = Grown(EntryOf(fine, h), u.newState)
         /\ \A k \in 1 .. Len(h) : EntryOf(fine, h).log[k] = h[k].newState
         /\ Len(EntryOf(fine, h).log) = Len(h)
<1> DEFINE log == [k \in 1 .. Len(h) |-> h[k].newState]
           grown == [k \in 1 .. Len(Append(h, u)) |-> Append(h, u)[k].newState]
<1>1. /\ Len(h) \in Nat /\ Len(Append(h, u)) = Len(h) + 1
      /\ \A k \in 1 .. Len(h) : Append(h, u)[k] = h[k]
      /\ Append(h, u)[Len(h) + 1] = u
  OBVIOUS
<1>2. Len(log) = Len(h) /\ DOMAIN log = 1 .. Len(h)
  BY <1>1
<1>3. grown = [k \in 1 .. Len(h) + 1 |->
                 IF k = Len(h) + 1 THEN u.newState ELSE h[k].newState]
  BY <1>1
<1>4. Append(log, u.newState) =
        [k \in 1 .. Len(h) + 1 |->
           IF k = Len(h) + 1 THEN u.newState ELSE h[k].newState]
  BY <1>1, <1>2
<1>5. grown = Append(log, u.newState)
  BY <1>3, <1>4
<1>6. /\ EntryOf(fine, h) = [facts |-> Metadata(fine), log |-> log]
      /\ EntryOf(other, Append(h, u))
           = [facts |-> Metadata(fine), log |-> grown]
  BY DEF EntryOf
<1>7. \A k \in 1 .. Len(h) : log[k] = h[k].newState
  OBVIOUS
<1> HIDE DEF log, grown
<1> QED
  BY <1>2, <1>5, <1>6, <1>7 DEF Grown

(* The entry of every fine there is.                                       *)
LEMMA BookEntries ==
  ASSUME LedgerInv
  PROVE  /\ fineIds \in Nat /\ 1 .. fineIds \subseteq FineIds
         /\ bookOfFines \in Seq({bookOfFines[id] : id \in 1 .. fineIds})
         /\ Len(bookOfFines) = fineIds
         /\ DOMAIN bookOfFines = 1 .. fineIds
<1>1. fineIds \in Nat /\ 1 .. fineIds \subseteq FineIds
  BY BoundsAssumption DEF LedgerInv, TypeOK, FineIds
<1> QED
  BY <1>1 DEF bookOfFines

(* A registration opens the next entry of the book.                        *)
LEMMA RegisterImplements ==
  ASSUME LedgerInv, NEW sender \in Address, NEW s \in Submissions,
         registerFine(sender, s)
  PROVE  Ledger!Next
<1> DEFINE fact == FineOf(newFineId, s, sender, block)
           u == StatusUpdate("PENDING", "PENDING", sender)
           new == [facts |-> fact, log |-> <<"PENDING">>]
<1>1. newFineId \in FineIds /\ fineStatusHistory[newFineId] = <<>>
  BY NewFineIsFresh DEF LedgerInv
<1>2. fineIds' = newFineId /\ newFineId = fineIds + 1
  BY DEF registerFine, newFineId
<1>3. fact \in RegisteredFines
  BY <1>1 DEF RegisteredFines, LedgerInv, TypeOK
<1>4. /\ fines'[newFineId] = fact
      /\ fineStatusHistory'[newFineId] = <<u>>
      /\ \A id \in FineIds \ {newFineId} :
           /\ fines'[id] = fines[id]
           /\ fineStatusHistory'[id] = fineStatusHistory[id]
  BY <1>1 DEF registerFine, LedgerInv, TypeOK
<1>5. EntryOf(fines'[newFineId], fineStatusHistory'[newFineId]) = new
  <2>1. Metadata(fact) = fact
    BY DEF Metadata, FineOf
  <2>2. u.newState = "PENDING"
    BY DEF StatusUpdate
  <2> HIDE DEF u, fact
  <2> QED
    BY <1>4, <2>1, <2>2, NewEntry
<1> HIDE DEF fact, u, new
<1>6. bookOfFines' = [id \in 1 .. fineIds + 1 |->
                        EntryOf(fines'[id], fineStatusHistory'[id])]
  BY <1>2 DEF bookOfFines
<1>7. \A id \in 1 .. fineIds :
        EntryOf(fines'[id], fineStatusHistory'[id]) = bookOfFines[id]
  <2> SUFFICES ASSUME NEW id \in 1 .. fineIds
               PROVE  EntryOf(fines'[id], fineStatusHistory'[id])
                        = bookOfFines[id]
    OBVIOUS
  <2>1. id \in FineIds \ {newFineId}
    BY <1>2, BookEntries
  <2> QED
    BY <1>4, <2>1 DEF bookOfFines
<1>8. bookOfFines' = Append(bookOfFines, new)
  <2>1. Append(bookOfFines, new) =
          [id \in 1 .. fineIds + 1 |->
             IF id = fineIds + 1 THEN new ELSE bookOfFines[id]]
    BY BookEntries, AppendGrows
  <2>2. \A id \in 1 .. fineIds + 1 :
          EntryOf(fines'[id], fineStatusHistory'[id]) =
            IF id = fineIds + 1 THEN new ELSE bookOfFines[id]
    BY <1>2, <1>5, <1>7, BookEntries
  <2> QED
    BY <1>6, <2>1, <2>2
<1> QED
  BY <1>3, <1>8 DEF Ledger!Next, Ledger!Open, new

(* An update appends one state to the log of one entry.                    *)
LEMMA UpdateImplements ==
  ASSUME LedgerInv, NEW sender \in Address, NEW id \in FineIds,
         NEW st \in FineState, updateFineStatus(sender, id, st)
  PROVE  Ledger!Next
<1> DEFINE h == fineStatusHistory[id]
           u == StatusUpdate(fines[id].currentState, st, sender)
<1>1. /\ Exists(id) /\ fines[id].currentState # st
      /\ fineIds' = fineIds
  BY DEF updateFineStatus, Updatable
<1>2. id \in 1 .. fineIds
  BY <1>1, ExistsIffNumbered, BookEntries DEF FineIds, LedgerInv
<1>3. fines[id] \in Fine /\ h \in Seq(FineStatusUpdate)
  BY DEF LedgerInv, TypeOK
<1>4. u \in FineStatusUpdate
  BY <1>3, StatusUpdateType DEF LedgerInv, Fine
<1>5. /\ fines'[id] = [fines[id] EXCEPT !.currentState = st]
      /\ fineStatusHistory'[id] = Append(h, u)
      /\ \A i \in FineIds \ {id} :
           /\ fines'[i] = fines[i]
           /\ fineStatusHistory'[i] = fineStatusHistory[i]
  BY DEF updateFineStatus, LedgerInv, TypeOK
<1>6. Metadata(fines'[id]) = Metadata(fines[id])
  BY <1>3, <1>5 DEF Metadata, Fine
<1>7. /\ h # <<>> /\ h[Len(h)].newState # st
      /\ u.newState = st
  BY <1>1 DEF StatusUpdate, LedgerInv, HistoryExplainsState, Accounts
<1>8. Len(h) \in 1 .. Len(h)
  BY <1>3, <1>7
<1> HIDE DEF h, u
<1>9. bookOfFines[id] = EntryOf(fines[id], h)
  BY <1>2 DEF bookOfFines, h
<1>10. /\ EntryOf(fines'[id], fineStatusHistory'[id]) =
             Grown(bookOfFines[id], st)
       /\ bookOfFines[id].log[Len(bookOfFines[id].log)] # st
  <2>1. /\ EntryOf(fines'[id], Append(h, u)) =
              Grown(EntryOf(fines[id], h), u.newState)
        /\ \A k \in 1 .. Len(h) : EntryOf(fines[id], h).log[k] = h[k].newState
        /\ Len(EntryOf(fines[id], h).log) = Len(h)
    <3>1. h \in Seq(FineStatusUpdate)
      BY <1>3
    <3> QED
      BY <1>4, <1>6, <3>1, GrownEntry
  <2>2. EntryOf(fines[id], h).log[Len(h)] # st
    BY <1>7, <1>8, <2>1
  <2> QED
    BY <1>5, <1>7, <1>9, <2>1, <2>2
<1>11. bookOfFines' = [i \in 1 .. fineIds |->
                         EntryOf(fines'[i], fineStatusHistory'[i])]
  BY <1>1 DEF bookOfFines
<1>12. \A i \in 1 .. fineIds :
         i # id => EntryOf(fines'[i], fineStatusHistory'[i]) = bookOfFines[i]
  <2> SUFFICES ASSUME NEW i \in 1 .. fineIds, i # id
               PROVE  EntryOf(fines'[i], fineStatusHistory'[i])
                        = bookOfFines[i]
    OBVIOUS
  <2>1. i \in FineIds \ {id}
    BY BookEntries
  <2> QED
    BY <1>5, <2>1 DEF bookOfFines
<1>13. /\ id \in DOMAIN bookOfFines
       /\ bookOfFines' = [bookOfFines EXCEPT ![id] =
                            Grown(bookOfFines[id], st)]
  BY <1>2, <1>10, <1>11, <1>12, BookEntries
<1> QED
  BY <1>10, <1>13 DEF Ledger!Next, Ledger!Move, Grown

(* Whatever the callers do, the contract behaves as the abstract register: *)
(* entries are opened in order, never altered and never lost, and their    *)
(* logs only grow.                                                         *)
THEOREM Refinement == Spec => ImplementsLedger
<1>1. LedgerInv /\ [Next]_vars => [Ledger!Next]_bookOfFines
  <2> SUFFICES ASSUME LedgerInv, [Next]_vars
               PROVE  Ledger!Next \/ UNCHANGED bookOfFines
    OBVIOUS
  <2>1. CASE UNCHANGED registerVars
    BY <2>1 DEF registerVars, bookOfFines
  <2> QED
    BY <2>1, OtherStepsQuiet, RegisterImplements, UpdateImplements
<1> QED
  BY <1>1, InitImplements, LedgerCorrect, PTL
     DEF Spec, ImplementsLedger, Ledger!Spec

-----------------------------------------------------------------------------
(* The pages of a list are the list.                                       *)

(* Every set of numbers that is not empty has a least element.  Induction  *)
(* below takes the least number of which a statement fails.                *)
LEMMA LeastElement ==
  ASSUME NEW T \in SUBSET Nat, T # {}
  PROVE  \E n \in T : \A m \in T : n <= m
<1> DEFINE Below == {ss \in Nat \X Nat : ss[1] < ss[2]}
<1>1. IsWellFoundedOn(Below, Nat)
  BY NatLessThanWellFounded DEF OpToRel
<1>2. PICK n \in T : \A m \in T : ~ <<m, n>> \in Below
  BY <1>1, WFMin
<1>3. \A m \in T : ~ m < n
  BY <1>2
<1> QED
  BY <1>2, <1>3

(* The first p pages, one after the other.                                 *)
FirstPages(f, total, p, size) == [i \in 1 .. Least(p * size, total) |-> f[i]]

LEMMA OnePage ==
  ASSUME NEW f, NEW total \in Nat, NEW size \in Nat \ {0}
  PROVE  Page(f, total, 1, size) = FirstPages(f, total, 1, size)
<1>1. startIndex(1, size) = 0 /\ 1 * size = size
  BY DEF startIndex
<1>2. endIndex(1, size, total) = Least(size, total)
  BY <1>1 DEF endIndex
<1>3. CASE total = 0
  <2>1. Page(f, total, 1, size) = <<>>
    BY <1>1, <1>3 DEF Page
  <2>2. Least(size, total) = 0
    BY <1>3 DEF Least
  <2>3. FirstPages(f, total, 1, size) = [i \in 1 .. 0 |-> f[i]]
    BY <1>1, <2>2 DEF FirstPages
  <2> QED
    BY <2>1, <2>3
<1>4. CASE total # 0
  <2>1. Least(size, total) \in Nat
    BY DEF Least
  <2>2. Page(f, total, 1, size)
          = [i \in 1 .. (Least(size, total) - 0) |-> f[0 + i]]
    <3>1. ~ 0 >= total
      BY <1>4
    <3> QED
      BY ONLY <1>1, <1>2, <3>1 DEF Page
  <2>3. Least(size, total) - 0 = Least(size, total)
    BY <2>1
  <2>4. FirstPages(f, total, 1, size)
          = [i \in 1 .. Least(size, total) |-> f[i]]
    BY <1>1 DEF FirstPages
  <2>5. \A i \in 1 .. Least(size, total) : 0 + i = i
    OBVIOUS
  <2>6. [i \in 1 .. Least(size, total) |-> f[0 + i]]
          = [i \in 1 .. Least(size, total) |-> f[i]]
    BY <2>5
  <2> QED
    BY <2>2, <2>3, <2>4, <2>6, Zenon
<1> QED
  BY <1>3, <1>4

LEMMA NextPage ==
  ASSUME NEW f, NEW total \in Nat, NEW size \in Nat \ {0},
         NEW p \in Nat \ {0, 1}
  PROVE  FirstPages(f, total, p, size)
           = FirstPages(f, total, p - 1, size) \o Page(f, total, p, size)
<1>1. PICK start \in Nat : start = (p - 1) * size /\ p * size = start + size
  OBVIOUS
<1>2. startIndex(p, size) = start
  BY <1>1 DEF startIndex
<1>3. PICK S : S = {f[i] : i \in 1 .. total}
  OBVIOUS
<1>4. \A i \in 1 .. total : f[i] \in S
  BY <1>3
<1>5. PICK a, b, e : /\ a = FirstPages(f, total, p - 1, size)
                     /\ b = Page(f, total, p, size)
                     /\ e = FirstPages(f, total, p, size)
  OBVIOUS
<1>6. CASE start >= total
  <2>1. Least(start, total) = total /\ Least(start + size, total) = total
    BY <1>1, <1>6 DEF Least
  <2>2. b = <<>> /\ a = e /\ a = [i \in 1 .. total |-> f[i]]
    BY <1>1, <1>2, <1>5, <1>6, <2>1 DEF Page, FirstPages
  <2>3. a \in Seq(S)
    BY <1>4, <2>2
  <2> QED
    BY <1>5, <2>2, <2>3
<1>7. CASE start < total
  <2>1. PICK n \in Nat : n = Least(start + size, total) - start
    BY <1>1, <1>7 DEF Least
  <2>2. start + n <= total /\ Least(start, total) = start
    BY <1>1, <1>7, <2>1 DEF Least
  <2>3. a = [i \in 1 .. start |-> f[i]]
    BY <1>1, <1>5, <2>2 DEF FirstPages
  <2>4. b = [i \in 1 .. n |-> f[start + i]]
    BY <1>1, <1>2, <1>5, <1>7, <2>1 DEF Page, endIndex
  <2>5. e = [i \in 1 .. start + n |-> f[i]]
    <3>1. Least(start + size, total) = start + n
      BY <1>1, <2>1 DEF Least
    <3> QED
      BY <1>1, <1>5, <3>1 DEF FirstPages
  <2>6. a \in Seq(S) /\ Len(a) = start
    BY <1>7, <1>4, <2>2, <2>3
  <2>7. b \in Seq(S) /\ Len(b) = n
    <3>1. \A i \in 1 .. n : start + i \in 1 .. total
      BY <2>2
    <3>2. b \in [1 .. n -> S]
      BY <1>4, <2>4, <3>1
    <3> QED
      BY <2>1, <3>2
  <2>8. /\ a \o b \in Seq(S) /\ Len(a \o b) = start + n
        /\ \A i \in 1 .. start + n :
             (a \o b)[i] = IF i <= start THEN a[i] ELSE b[i - start]
    BY <2>6, <2>7
  <2>9. e \in Seq(S) /\ Len(e) = start + n
    <3>1. \A i \in 1 .. start + n : i \in 1 .. total
      BY <2>2
    <3>2. e \in [1 .. start + n -> S] /\ start + n \in Nat
      BY <1>4, <2>5, <3>1
    <3> QED
      BY <3>2
  <2>10. ASSUME NEW i \in 1 .. start + n
         PROVE  e[i] = (a \o b)[i]
    <3>1. CASE i <= start
      BY <2>3, <2>5, <2>8, <3>1
    <3>2. CASE ~ i <= start
      <4>1. i - start \in 1 .. n /\ start + (i - start) = i
        BY <3>2
      <4> QED
        BY <2>4, <2>5, <2>8, <3>2, <4>1
    <3> QED
      BY <3>1, <3>2
  <2>11. e = a \o b
    <3>1. PICK c : c = a \o b
      OBVIOUS
    <3>2. e = [i \in 1 .. start + n |-> e[i]]
      BY ONLY <2>5
    <3>3. c \in Seq(S) /\ Len(c) = start + n
      BY <2>8, <3>1
    <3>4. c = [i \in 1 .. start + n |-> c[i]]
      BY ONLY <3>3
    <3>5. \A i \in 1 .. start + n : e[i] = c[i]
      BY <2>10, <3>1
    <3> QED
      BY ONLY <3>1, <3>2, <3>4, <3>5
  <2> QED
    BY <1>5, <2>11
<1> QED
  BY <1>1, <1>6, <1>7

(* The pages of a list, one after the other, and the list itself.          *)
Joined(f, total, size, pages) ==
  FlattenSeq([p \in 1 .. pages |-> Page(f, total, p, size)])

Listed(f, total) == [i \in 1 .. total |-> f[i]]

LEMMA PagesJoin ==
  ASSUME NEW f, NEW total \in Nat, NEW size \in Nat \ {0},
         NEW pages \in Nat \ {0}, total <= pages
  PROVE  Joined(f, total, size, pages) = Listed(f, total)
<1> DEFINE seqs == [p \in 1 .. pages |-> Page(f, total, p, size)]
           Step(h) == [i \in 1 .. Len(seqs) |->
                         IF i = 1 THEN seqs[i] ELSE h[i - 1] \o seqs[i]]
           flatten == CHOOSE h : h = Step(h)
           g == [p \in 1 .. pages |-> FirstPages(f, total, p, size)]
<1>1. Len(seqs) = pages
  OBVIOUS
<1>2. FlattenSeq(seqs) = flatten[Len(seqs)]
  BY <1>1 DEF FlattenSeq
<1> HIDE DEF seqs
<1>3. \A p \in 1 .. pages : seqs[p] = Page(f, total, p, size)
  BY DEF seqs
<1>4. \A p \in 1 .. pages : g[p] = FirstPages(f, total, p, size)
  OBVIOUS
<1>5. g = [p \in 1 .. pages |-> g[p]]
  OBVIOUS
<1> HIDE DEF g
<1>6. ASSUME NEW p \in 1 .. pages
      PROVE  g[p] = IF p = 1 THEN seqs[p] ELSE g[p - 1] \o seqs[p]
  <2>1. CASE p = 1
    BY <1>3, <1>4, <2>1, OnePage
  <2>2. CASE p # 1
    <3>1. p \in Nat \ {0, 1} /\ p - 1 \in 1 .. pages
      BY <2>2
    <3>2. FirstPages(f, total, p, size)
            = FirstPages(f, total, p - 1, size) \o Page(f, total, p, size)
      BY <3>1, NextPage
    <3> QED
      BY <1>3, <1>4, <2>2, <3>1, <3>2
  <2> QED
    BY <2>1, <2>2
<1>7. g = Step(g)
  <2>1. \A p \in 1 .. pages :
          g[p] = IF p = 1 THEN seqs[p] ELSE g[p - 1] \o seqs[p]
    BY <1>6
  <2>2. g = [i \in 1 .. pages |->
               IF i = 1 THEN seqs[i] ELSE g[i - 1] \o seqs[i]]
    <3>1. PICK k : k = [i \in 1 .. pages |->
                          IF i = 1 THEN seqs[i] ELSE g[i - 1] \o seqs[i]]
      OBVIOUS
    <3>2. k = [p \in 1 .. pages |-> k[p]]
      BY <3>1
    <3>3. \A p \in 1 .. pages : g[p] = k[p]
      BY <2>1, <3>1
    <3>4. g = k
      BY <1>5, <3>2, <3>3
    <3> QED
      BY <3>1, <3>4
  <2> QED
    BY <1>1, <2>2
<1>8. flatten = Step(flatten)
  <2> HIDE DEF Step
  <2>1. \E h : h = Step(h)
    BY <1>7
  <2> QED
    BY <2>1
<1> HIDE DEF flatten
<1>9. PICK joined : joined = flatten
  OBVIOUS
<1>10. joined = Step(joined)
  BY <1>8, <1>9, Zenon
<1>11. joined[pages] = g[pages]
  <2>1. PICK T : T = {p \in 1 .. pages : joined[p] # g[p]}
    OBVIOUS
  <2> SUFFICES ASSUME T # {} PROVE FALSE
    BY <2>1
  <2>2. T \in SUBSET Nat
    BY <2>1
  <2>3. PICK p \in T : \A q \in T : p <= q
    BY <2>2, LeastElement
  <2>4. joined[p] = IF p = 1 THEN seqs[p] ELSE joined[p - 1] \o seqs[p]
    BY <1>1, <1>10, <2>1, <2>3
  <2>5. p # 1 => joined[p - 1] = g[p - 1]
    BY <2>1, <2>3
  <2>6. joined[p] = g[p]
    BY <1>6, <2>1, <2>3, <2>4, <2>5
  <2> QED
    BY <2>1, <2>3, <2>6
<1>12. Least(pages * size, total) = total
  <2>1. pages * size >= pages
    OBVIOUS
  <2> QED
    BY <2>1 DEF Least
<1>13. g[pages] = [i \in 1 .. total |-> f[i]]
  BY <1>12, <1>4 DEF FirstPages
<1> QED
  BY <1>1, <1>2, <1>11, <1>13, <1>9 DEF seqs, Joined, Listed

(* The pages of the fines are the fines, and the pages of a history are    *)
(* the history, for every size: no entry is left out, shown twice or moved *)
(* by the arithmetic of getPaginatedFines and getFineStatusHistory.        *)
THEOREM PagesTiled == Spec => []PagesTile
<1>1. TypeOK /\ HistoriesFit => PagesTile
  <2> SUFFICES ASSUME TypeOK, HistoriesFit, NEW size \in 1 .. MaxFines
               PROVE  /\ FlattenSeq([p \in 1 .. MaxFines + 1 |->
                                       getPaginatedFines(p, size)])
                           = [id \in 1 .. fineIds |-> fines[id]]
                      /\ \A id \in FineIds :
                           FlattenSeq([p \in 1 .. MaxUpdates + 1 |->
                                         getFineStatusHistory(id, p, size)])
                             = fineStatusHistory[id]
    BY DEF PagesTile
  <2>1. size \in Nat \ {0}
    BY BoundsAssumption
  <2>2. FlattenSeq([p \in 1 .. MaxFines + 1 |-> getPaginatedFines(p, size)])
          = [id \in 1 .. fineIds |-> fines[id]]
    <3>1. /\ fineIds \in Nat /\ MaxFines + 1 \in Nat \ {0}
          /\ fineIds <= MaxFines + 1
      BY BoundsAssumption DEF TypeOK
    <3>2. Joined(fines, fineIds, size, MaxFines + 1)
            = Listed(fines, fineIds)
      BY <2>1, <3>1, PagesJoin
    <3> QED
      BY <3>2, Zenon DEF Joined, Listed, getPaginatedFines
  <2>3. ASSUME NEW id \in FineIds
        PROVE  FlattenSeq([p \in 1 .. MaxUpdates + 1 |->
                             getFineStatusHistory(id, p, size)])
                 = fineStatusHistory[id]
    <3>1. PICK h : h = fineStatusHistory[id]
      OBVIOUS
    <3>2. h \in Seq(FineStatusUpdate)
      BY <3>1 DEF TypeOK
    <3>3. Len(h) <= 1 \/ Len(h) <= MaxUpdates
      BY <3>1 DEF HistoriesFit
    <3>4. /\ Len(h) \in Nat /\ MaxUpdates + 1 \in Nat \ {0}
          /\ Len(h) <= MaxUpdates + 1
      BY <3>2, <3>3, BoundsAssumption
    <3>5. Joined(h, Len(h), size, MaxUpdates + 1) = Listed(h, Len(h))
      BY <2>1, <3>4, PagesJoin
    <3>6. h = Listed(h, Len(h))
      BY <3>2 DEF Listed
    <3>7. Joined(fineStatusHistory[id], Len(fineStatusHistory[id]), size,
                 MaxUpdates + 1)
            = fineStatusHistory[id]
      BY <3>1, <3>5, <3>6
    <3> QED
      BY <3>7, Zenon DEF Joined, getFineStatusHistory
  <2> QED
    BY <2>2, <2>3
<1> QED
  BY <1>1, TypeCorrect, HistoriesBounded, PTL
=============================================================================
