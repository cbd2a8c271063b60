--------------------------- MODULE FineReadsProofs ---------------------------
(***************************************************************************)
(* Proofs about FineReads for any number of clients, any lookups, files    *)
(* and limits: a fine that is registered is never said to be missing, a    *)
(* history that is shown is the beginning of the fine's own, and evidence  *)
(* is served whole or not at all, whatever happens between the calls.      *)
(***************************************************************************)
EXTENDS FineReads, TLAPS

Contract == INSTANCE FineManagementProofs

-----------------------------------------------------------------------------
(* The contract goes on as if nobody read it.                              *)

LEMMA ContractAssumptions ==
  /\ Contract!AddressAssumption
  /\ Contract!TextAssumption
  /\ Contract!BoundsAssumption
BY ListingAssumption, SubmissionsAssumption, TextsAssumption
   DEF Contract!AddressAssumption, Contract!BoundsAssumption,
       Contract!TextAssumption, Contract!Submission, Chain!Submission

LEMMA InitOfContract == ReadsInit => Contract!Init
BY DEF ReadsInit, Init, Chain!Init, Contract!Init, Chain!FineIds,
       Contract!FineIds, Chain!ZeroFine, Contract!ZeroFine

LEMMA TransactOfContract ==
  ASSUME Transact
  PROVE  \/ \E s \in Submissions : Contract!registerFine(Deployer, s)
         \/ \E id \in Contract!FineIds, st \in Contract!FineState :
               Contract!updateFineStatus(Deployer, id, st)
         \/ Contract!MineBlock
<1>1. ASSUME NEW s \in Submissions, Chain!registerFine(Deployer, s)
      PROVE  Contract!registerFine(Deployer, s)
  BY <1>1 DEF Chain!registerFine, Contract!registerFine, Chain!onlyOperator,
              Contract!onlyOperator, Chain!Registrable, Contract!Registrable,
              Chain!newFineId, Contract!newFineId, Chain!FineOf,
              Contract!FineOf, Chain!StatusUpdate, Contract!StatusUpdate
<1>2. ASSUME NEW id \in Chain!FineIds, NEW st \in NewStates,
             Chain!updateFineStatus(Deployer, id, st)
      PROVE  /\ id \in Contract!FineIds /\ st \in Contract!FineState
             /\ Contract!updateFineStatus(Deployer, id, st)
  BY <1>2, ListingAssumption
     DEF Chain!FineIds, Contract!FineIds, FineState, Contract!FineState,
         Chain!updateFineStatus, Contract!updateFineStatus,
         Chain!onlyOperator, Contract!onlyOperator, Chain!Updatable,
         Contract!Updatable, Chain!Exists, Contract!Exists,
         Chain!StatusUpdate, Contract!StatusUpdate
<1>3. Chain!MineBlock => Contract!MineBlock
  BY DEF Chain!MineBlock, Contract!MineBlock, Chain!registerVars,
         Contract!registerVars
<1> QED
  BY <1>1, <1>2, <1>3 DEF Transact

(* A client changes nothing but what it has read.                          *)
LEMMA ClientsOnlyRead ==
  ASSUME [ReadsNext]_readsVars, ~ Transact
  PROVE  UNCHANGED contractVars
<1>1. ASSUME NEW c \in Clients, Walk(c)
      PROVE  UNCHANGED contractVars
  BY <1>1 DEF Walk, Ask, AskRecent, ReadCount, ReadPage, ReadTotal, CallFails,
              AskNext
<1> QED
  BY <1>1 DEF ReadsNext, readsVars, vars

LEMMA StepOfContract ==
  ASSUME [ReadsNext]_readsVars
  PROVE  [Contract!Next]_Contract!vars
<1>1. CASE UNCHANGED contractVars
  BY <1>1 DEF contractVars, Contract!vars, Contract!registerVars
<1>2. CASE Transact
  BY <1>2, TransactOfContract, ListingAssumption DEF Contract!Next
<1> QED
  BY <1>1, <1>2, ClientsOnlyRead

(* So what is proved of the contract alone holds while it is read.         *)
THEOREM LedgerHolds == ReadsSpec => []Contract!LedgerInv
<1>1. ReadsSpec => Contract!Spec
  BY InitOfContract, StepOfContract, PTL DEF ReadsSpec, Contract!Spec
<1> QED
  BY <1>1, ContractAssumptions, Contract!LedgerCorrect, PTL

LEMMA LedgerTypes ==
  ASSUME Contract!LedgerInv
  PROVE  /\ fineIds \in 0 .. MaxFines
         /\ fineStatusHistory
              \in [1 .. MaxFines -> Seq(Contract!FineStatusUpdate)]
         /\ \A id \in 1 .. MaxFines :
              Len(fineStatusHistory[id]) > 0 => id <= fineIds
<1>1. /\ fineIds \in 0 .. MaxFines
      /\ fines \in [1 .. MaxFines -> Contract!Fine]
      /\ fineStatusHistory \in [1 .. MaxFines -> Seq(Contract!FineStatusUpdate)]
  BY DEF Contract!LedgerInv, Contract!TypeOK, Contract!FineIds
<1>2. \A id \in 1 .. MaxFines :
         ~ (id <= fineIds) => fineStatusHistory[id] = <<>>
  BY DEF Contract!LedgerInv, Contract!IdsAreDense, Contract!FineIds
<1> QED
  BY <1>1, <1>2

-----------------------------------------------------------------------------
(* Histories only grow.                                                    *)

Extends(longer, h) ==
  /\ Len(h) \in Nat /\ Len(longer) \in Nat /\ Len(h) <= Len(longer)
  /\ \A k \in 1 .. Len(h) : longer[k] = h[k]

LEMMA AppendExtends ==
  ASSUME NEW S, NEW h \in Seq(S), NEW e, NEW longer,
         longer = h \/ longer = Append(h, e)
  PROVE  Extends(longer, h)
<1>1. Extends(h, h)
  BY DEF Extends
<1>2. /\ Len(Append(h, e)) = Len(h) + 1 /\ Len(h) \in Nat
      /\ \A k \in 1 .. Len(h) : Append(h, e)[k] = h[k]
  OBVIOUS
<1> QED
  BY <1>1, <1>2 DEF Extends

LEMMA HistoriesGrow ==
  ASSUME Contract!LedgerInv, [ReadsNext]_readsVars
  PROVE  /\ fineIds' \in Nat /\ fineIds <= fineIds'
         /\ \A id \in 1 .. MaxFines :
              Extends(fineStatusHistory'[id], fineStatusHistory[id])
<1>1. /\ fineIds \in Nat
      /\ fineStatusHistory \in [1 .. MaxFines -> Seq(Contract!FineStatusUpdate)]
  BY LedgerTypes, ListingAssumption
<1>2. ASSUME fineIds' = fineIds \/ fineIds' = fineIds + 1, NEW e,
             \A id \in 1 .. MaxFines :
                \/ fineStatusHistory'[id] = fineStatusHistory[id]
                \/ fineStatusHistory'[id] = Append(fineStatusHistory[id], e)
      PROVE  /\ fineIds' \in Nat /\ fineIds <= fineIds'
             /\ \A id \in 1 .. MaxFines :
                  Extends(fineStatusHistory'[id], fineStatusHistory[id])
  <2>1. ASSUME NEW id \in 1 .. MaxFines
        PROVE  Extends(fineStatusHistory'[id], fineStatusHistory[id])
    BY <1>1, <1>2, AppendExtends
  <2> QED
    BY <1>1, <1>2, <2>1
<1>3. CASE UNCHANGED contractVars
  BY <1>2, <1>3 DEF contractVars
<1>4. ASSUME NEW s \in Submissions, Contract!registerFine(Deployer, s)
      PROVE  \E e : \A id \in 1 .. MaxFines :
                \/ fineStatusHistory'[id] = fineStatusHistory[id]
                \/ fineStatusHistory'[id] = Append(fineStatusHistory[id], e)
  <2>1. PICK e : e = Contract!StatusUpdate("PENDING", "PENDING", Deployer)
    OBVIOUS
  <2>2. fineStatusHistory' =
          [fineStatusHistory EXCEPT ![Contract!newFineId] = Append(@, e)]
    BY <1>4, <2>1 DEF Contract!registerFine
  <2> QED
    BY <1>1, <2>2
<1>5. ASSUME NEW n \in Contract!FineIds, NEW st \in Contract!FineState,
             Contract!updateFineStatus(Deployer, n, st)
      PROVE  \E e : \A id \in 1 .. MaxFines :
                \/ fineStatusHistory'[id] = fineStatusHistory[id]
                \/ fineStatusHistory'[id] = Append(fineStatusHistory[id], e)
  <2>1. PICK e : e = Contract!StatusUpdate(fines[n].currentState, st, Deployer)
    OBVIOUS
  <2>2. fineStatusHistory' = [fineStatusHistory EXCEPT ![n] = Append(@, e)]
    BY <1>5, <2>1 DEF Contract!updateFineStatus
  <2> QED
    BY <1>1, <2>2
<1>6. CASE Transact
  <2>1. CASE \E s \in Submissions : Contract!registerFine(Deployer, s)
    BY <1>2, <1>4, <2>1 DEF Contract!registerFine, Contract!newFineId
  <2>2. CASE \E id \in Contract!FineIds, st \in Contract!FineState :
               Contract!updateFineStatus(Deployer, id, st)
    BY <1>2, <1>5, <2>2 DEF Contract!updateFineStatus
  <2>3. CASE Contract!MineBlock
    BY <1>2, <2>3 DEF Contract!MineBlock, Contract!registerVars
  <2> QED
    BY <1>6, <2>1, <2>2, <2>3, TransactOfContract
<1> QED
  BY <1>3, <1>6, ClientsOnlyRead


-----------------------------------------------------------------------------
(* What the handlers answer with, as far as it matters here.               *)

LEMMA HandlersOf ==
  /\ \A k \in OneFine : /\ Handler[k].first = {"fines"}
                        /\ Handler[k].refused \subseteq {400, 500}
                        /\ Handler[k].failed \subseteq {400, 500, 503}
  /\ \A k \in Histories : /\ Handler[k].first = {"entries"}
                          /\ Handler[k].refused \subseteq {200, 400, 500}
                          /\ Handler[k].failed \subseteq {200, 400, 500, 503}
  /\ \A k \in Evidence : /\ Handler[k].first = {"connect", "pieces"}
                         /\ 200 \notin Handler[k].refused
                         /\ 200 \notin Handler[k].failed
                         /\ 200 \notin Handler[k].absent
<1>1. ASSUME NEW first, NEW refused, NEW absent, NEW failed
      PROVE  /\ Handles(first, refused, absent, failed).first = first
             /\ Handles(first, refused, absent, failed).refused = refused
             /\ Handles(first, refused, absent, failed).absent = absent
             /\ Handles(first, refused, absent, failed).failed = failed
  BY DEF Handles
<1>2. \A k \in OneFine : /\ Handler[k].first = {"fines"}
                         /\ Handler[k].refused \subseteq {400, 500}
                         /\ Handler[k].failed \subseteq {400, 500, 503}
  BY <1>1 DEF OneFine, Handler, getFine, legacyGetFine, getPublicFineDetails,
              handleBlockchainError
<1>3. \A k \in Histories : /\ Handler[k].first = {"entries"}
                           /\ Handler[k].refused \subseteq {200, 400, 500}
                           /\ Handler[k].failed \subseteq {200, 400, 500, 503}
  BY <1>1 DEF Histories, Handler, getStatusHistory, getPublicStatusHistory,
              legacyGetFineStatusHistory, handleBlockchainError
<1>4. \A k \in Evidence : /\ Handler[k].first = {"connect", "pieces"}
                          /\ 200 \notin Handler[k].refused
                          /\ 200 \notin Handler[k].failed
                          /\ 200 \notin Handler[k].absent
  BY <1>1 DEF Evidence, Handler, getFineEvidence, legacyGetFineEvidence
<1> QED
  BY <1>2, <1>3, <1>4

-----------------------------------------------------------------------------
(* What is true of every lookup on its way.                                *)

Maps(f) == f = [c \in Clients |-> f[c]]

LookupTypes ==
  /\ Maps(step) /\ Maps(code) /\ Maps(index) /\ Maps(entries)
  /\ lookup \in [Clients -> Lookup]
  /\ pieces \in [Clients -> Nat]
  /\ before \in [Clients -> [1 .. MaxFines -> Nat]]

(* The calls of a lookup are those of its kind, and until it is answered   *)
(* its client has been told nothing.                                       *)
OnCourse(c) ==
  /\ step[c] # "done" => code[c] = 0
  /\ step[c] = "idle" => entries[c] = <<>>
  /\ step[c] = "entries" /\ Kind(c) \in Histories => entries[c] = <<>>
  /\ Kind(c) \in OneFine => step[c] \in {"idle", "fines", "done"}
  /\ Kind(c) \in Histories => step[c] \in {"idle", "entries", "done"}
  /\ Kind(c) \in Evidence => step[c] \in {"idle", "connect", "pieces", "done"}
  /\ step[c] \in {"fines", "entries"} /\ Kind(c) \in OneFine \cup Histories
       => index[c] = <<lookup[c].id>>

(* A history is as long as it was when the client asked, or longer.        *)
AskedEarlier(c) ==
  \A id \in 1 .. MaxFines : before[c][id] <= Len(fineStatusHistory[id])

AbsentTruly(c) ==
  code[c] = 404 /\ Kind(c) \in OneFine \cup Histories =>
    lookup[c].id \notin KnownFines(c)

WholeFile(c) ==
  code[c] = 200 /\ Kind(c) \in Evidence =>
    pieces[c] = Files[lookup[c].text] /\ pieces[c] > 0

(* What was read of a history is how it begins, and all that there was of  *)
(* it when the client asked, or as much as fits.                           *)
Beginning(c) ==
  step[c] = "done" /\ Kind(c) \in Histories /\ entries[c] # <<>> =>
    LET h == fineStatusHistory[lookup[c].id]
        part == entries[c][1]
    IN /\ lookup[c].id \in 1 .. MaxFines
       /\ part \in Seq(Contract!FineStatusUpdate)
       /\ Len(part) <= Len(h)
       /\ \A k \in 1 .. Len(part) : part[k] = h[k]
       /\ Chain!Least(before[c][lookup[c].id], Limit(c)) <= Len(part)

LookupSound(c) ==
  /\ OnCourse(c) /\ AskedEarlier(c)
  /\ AbsentTruly(c) /\ WholeFile(c) /\ Beginning(c)

ReadsInv == LookupTypes /\ \A c \in Clients : LookupSound(c)

LEMMA InitReadsInv == ReadsInit => ReadsInv
<1> SUFFICES ASSUME ReadsInit PROVE ReadsInv
  OBVIOUS
<1>1. [kind |-> "fine", id |-> 0, text |-> Empty] \in Lookup
  BY ListingAssumption, TextsAssumption DEF Lookup, Handler
<1>2. LookupTypes
  BY <1>1 DEF ReadsInit, LookupTypes, Maps, Chain!FineIds
<1>3. \A c \in Clients : OnCourse(c)
  BY DEF ReadsInit, OnCourse, Kind
<1>4. \A c \in Clients : AskedEarlier(c)
  BY DEF ReadsInit, AskedEarlier, Init, Chain!Init, Chain!FineIds
<1>5. \A c \in Clients : AbsentTruly(c) /\ WholeFile(c) /\ Beginning(c)
  BY DEF ReadsInit, AbsentTruly, WholeFile, Beginning
<1> QED
  BY <1>2, <1>3, <1>4, <1>5 DEF ReadsInv, LookupSound

(* A step of one client leaves the others as they were.                    *)
LEMMA OneClient ==
  ASSUME ReadsInv, NEW c \in Clients, LookupTypes',
         UNCHANGED <<fineIds, fineStatusHistory>>,
         \A d \in Clients \ {c} :
            /\ step'[d] = step[d] /\ lookup'[d] = lookup[d]
            /\ index'[d] = index[d] /\ entries'[d] = entries[d]
            /\ pieces'[d] = pieces[d] /\ code'[d] = code[d]
            /\ before'[d] = before[d],
         LookupSound(c)'
  PROVE  ReadsInv'
<1>1. ASSUME NEW d \in Clients, d # c
      PROVE  LookupSound(d)'
  <2>1. LookupSound(d)
    BY DEF ReadsInv
  <2>2. /\ step'[d] = step[d] /\ lookup'[d] = lookup[d]
        /\ index'[d] = index[d] /\ entries'[d] = entries[d]
        /\ pieces'[d] = pieces[d] /\ code'[d] = code[d]
        /\ before'[d] = before[d]
    BY <1>1
  <2>3. OnCourse(d)'
    BY <2>1, <2>2 DEF LookupSound, OnCourse, Kind
  <2>4. AskedEarlier(d)'
    BY <2>1, <2>2 DEF LookupSound, AskedEarlier
  <2>5. AbsentTruly(d)' /\ WholeFile(d)'
    BY <2>1, <2>2 DEF LookupSound, AbsentTruly, WholeFile, Kind, KnownFines
  <2>6. Beginning(d)'
    BY <2>1, <2>2 DEF LookupSound, Beginning, Kind, Limit
  <2> QED
    BY <2>3, <2>4, <2>5, <2>6 DEF LookupSound
<1> QED
  BY <1>1 DEF ReadsInv

(* A transaction of somebody else makes histories longer, nothing more.    *)
LEMMA ContractStep ==
  ASSUME ReadsInv, Contract!LedgerInv, [ReadsNext]_readsVars,
         UNCHANGED lookupVars
  PROVE  ReadsInv'
<1>1. /\ UNCHANGED <<step, lookup, index, entries, pieces, code, before>>
      /\ LookupTypes'
  BY DEF lookupVars, ReadsInv, LookupTypes
<1>2. ASSUME NEW c \in Clients
      PROVE  LookupSound(c)'
  <2>1. LookupSound(c)
    BY DEF ReadsInv
  <2>2. OnCourse(c)' /\ AbsentTruly(c)' /\ WholeFile(c)'
    BY <1>1, <2>1 DEF LookupSound, OnCourse, AbsentTruly, WholeFile, Kind,
                      KnownFines
  <2>3. \A id \in 1 .. MaxFines :
           Extends(fineStatusHistory'[id], fineStatusHistory[id])
    BY HistoriesGrow
  <2>4. AskedEarlier(c)'
    <3> SUFFICES ASSUME NEW id \in 1 .. MaxFines
                 PROVE  before[c][id] <= Len(fineStatusHistory'[id])
      BY <1>1 DEF AskedEarlier
    <3>1. before[c][id] <= Len(fineStatusHistory[id]) /\ before[c][id] \in Nat
      BY <2>1 DEF LookupSound, AskedEarlier, ReadsInv, LookupTypes
    <3> QED
      BY <2>3, <3>1 DEF Extends
  <2>5. Beginning(c)'
    <3> SUFFICES ASSUME step[c] = "done", Kind(c) \in Histories,
                        entries[c] # <<>>
                 PROVE  Beginning(c)'
      BY <1>1 DEF Beginning, Kind
    <3>1. PICK id, part : id = lookup[c].id /\ part = entries[c][1]
      OBVIOUS
    <3>2. /\ id \in 1 .. MaxFines /\ part \in Seq(Contract!FineStatusUpdate)
          /\ Len(part) <= Len(fineStatusHistory[id])
          /\ \A k \in 1 .. Len(part) : part[k] = fineStatusHistory[id][k]
          /\ Chain!Least(before[c][id], Limit(c)) <= Len(part)
      BY <2>1, <3>1 DEF LookupSound, Beginning
    <3>3. /\ Len(part) <= Len(fineStatusHistory'[id])
          /\ \A k \in 1 .. Len(part) : part[k] = fineStatusHistory'[id][k]
      BY <2>3, <3>2 DEF Extends
    <3> QED
      BY <1>1, <3>1, <3>2, <3>3 DEF Beginning, Limit, Kind
  <2> QED
    BY <2>2, <2>4, <2>5 DEF LookupSound
<1> QED
  BY <1>1, <1>2 DEF ReadsInv


-----------------------------------------------------------------------------
(* The steps of one client.                                                *)

LEMMA GoesOn ==
  ASSUME LookupTypes, NEW c \in Clients, NEW next, Goes(c, next)
  PROVE  /\ step'[c] = next /\ code'[c] = code[c]
         /\ Maps(step)' /\ Maps(code)'
         /\ \A d \in Clients \ {c} : step'[d] = step[d] /\ code'[d] = code[d]
<1>1. step' = [step EXCEPT ![c] = next] /\ code' = code
  BY DEF Goes
<1> QED
  BY <1>1 DEF LookupTypes, Maps

LEMMA Replied ==
  ASSUME LookupTypes, NEW c \in Clients, NEW S, Reply(c, S)
  PROVE  /\ step'[c] = "done" /\ code'[c] \in S
         /\ Maps(step)' /\ Maps(code)'
         /\ \A d \in Clients \ {c} : step'[d] = step[d] /\ code'[d] = code[d]
<1>1. PICK status \in S : /\ step' = [step EXCEPT ![c] = "done"]
                          /\ code' = [code EXCEPT ![c] = status]
  BY DEF Reply
<1> QED
  BY <1>1 DEF LookupTypes, Maps

(* What the calls of the other kinds do has no part in the invariant.      *)
Elsewhere(c) == Kind(c) \notin OneFine \cup Histories \cup Evidence

LEMMA ElsewhereKept ==
  ASSUME ReadsInv, NEW c \in Clients, Elsewhere(c), step[c] # "done",
         UNCHANGED <<lookup, pieces, before, fineIds, fineStatusHistory>>,
         Maps(index)', Maps(entries)',
         \A d \in Clients \ {c} :
            index'[d] = index[d] /\ entries'[d] = entries[d],
         \/ \E next \in {"fines", "page", "entries"} : Goes(c, next)
         \/ \E S : Reply(c, S)
  PROVE  ReadsInv'
<1>1. LookupTypes /\ LookupSound(c)
  BY DEF ReadsInv
<1>2. /\ \/ step'[c] \in {"fines", "page", "entries"} /\ code'[c] = code[c]
         \/ step'[c] = "done"
      /\ Maps(step)' /\ Maps(code)'
      /\ \A d \in Clients \ {c} : step'[d] = step[d] /\ code'[d] = code[d]
  BY <1>1, GoesOn, Replied
<1>3. LookupTypes'
  BY <1>1, <1>2 DEF LookupTypes
<1>4. OnCourse(c)'
  BY <1>1, <1>2 DEF LookupSound, OnCourse, Elsewhere, Kind
<1>5. AskedEarlier(c)'
  BY <1>1 DEF LookupSound, AskedEarlier
<1>6. AbsentTruly(c)' /\ WholeFile(c)' /\ Beginning(c)'
  BY DEF AbsentTruly, WholeFile, Beginning, Elsewhere, Kind
<1>7. LookupSound(c)'
  BY <1>4, <1>5, <1>6 DEF LookupSound
<1> QED
  BY <1>2, <1>3, <1>7, OneClient

(* A client asks: it has been told nothing, and the histories are as long  *)
(* as they are.                                                            *)
LEMMA AskKeeps ==
  ASSUME ReadsInv, Contract!LedgerInv, NEW c \in Clients, AskLookup(c),
         UNCHANGED <<fineIds, fineStatusHistory>>
  PROVE  ReadsInv'
<1>1. PICK q \in Lookups :
        /\ step[c] = "idle"
        /\ lookup' = [lookup EXCEPT ![c] = q]
        /\ before' = [before EXCEPT ![c] =
                        [id \in Chain!FineIds |-> Len(fineStatusHistory[id])]]
        /\ index' = [index EXCEPT ![c] = Given(q)]
        /\ UNCHANGED <<entries, pieces>>
        /\ \/ Reply(c, Handler[q.kind].refused)
           \/ \E call \in Handler[q.kind].first : Goes(c, call)
  BY DEF AskLookup
<1>2. LookupTypes /\ LookupSound(c) /\ q \in Lookup
  BY ListingAssumption, LookupsAssumption DEF ReadsInv
<1>3. /\ \/ step'[c] = "done" /\ code'[c] \in Handler[q.kind].refused
         \/ step'[c] \in Handler[q.kind].first /\ code'[c] = code[c]
      /\ Maps(step)' /\ Maps(code)'
      /\ \A d \in Clients \ {c} : step'[d] = step[d] /\ code'[d] = code[d]
  BY <1>1, <1>2, GoesOn, Replied
<1>4. PICK lengths :
        lengths = [id \in 1 .. MaxFines |-> Len(fineStatusHistory[id])]
  OBVIOUS
<1>5. /\ lengths \in [1 .. MaxFines -> Nat]
      /\ before' = [before EXCEPT ![c] = lengths]
  BY <1>1, <1>4, LedgerTypes DEF Chain!FineIds
<1>6. /\ lookup'[c] = q /\ before'[c] = lengths /\ index'[c] = Given(q)
      /\ \A d \in Clients \ {c} : /\ lookup'[d] = lookup[d]
                                  /\ before'[d] = before[d]
                                  /\ index'[d] = index[d]
  BY <1>1, <1>2, <1>5 DEF LookupTypes, Maps
<1>7. LookupTypes'
  BY <1>1, <1>2, <1>3, <1>5 DEF LookupTypes, Maps
<1>8. code[c] = 0 /\ entries[c] = <<>>
  BY <1>1, <1>2 DEF LookupSound, OnCourse
<1>9. OnCourse(c)'
  <2>1. step'[c] # "done" => code'[c] = 0
    BY <1>3, <1>8
  <2>2. entries'[c] = <<>>
    BY <1>1, <1>8
  <2>3. q.kind \in OneFine => step'[c] \in {"fines", "done"}
    BY <1>3, HandlersOf
  <2>4. q.kind \in Histories => step'[c] \in {"entries", "done"}
    BY <1>3, HandlersOf
  <2>5. q.kind \in Evidence => step'[c] \in {"connect", "pieces", "done"}
    BY <1>3, HandlersOf
  <2>6. q.kind \in OneFine \cup Histories => index'[c] = <<q.id>>
    BY <1>6 DEF Given
  <2> QED
    BY <1>6, <2>1, <2>2, <2>3, <2>4, <2>5, <2>6 DEF OnCourse, Kind
<1>10. AskedEarlier(c)'
  <2> SUFFICES ASSUME NEW id \in 1 .. MaxFines
               PROVE  before'[c][id] <= Len(fineStatusHistory[id])
    BY DEF AskedEarlier
  <2>1. before'[c][id] = Len(fineStatusHistory[id]) /\ before'[c][id] \in Nat
    BY <1>4, <1>5, <1>6
  <2> QED
    BY <2>1
<1>11. AbsentTruly(c)'
  <2>1. q.kind \in OneFine => code'[c] # 404
    BY <1>3, <1>8, HandlersOf
  <2>2. q.kind \in Histories => code'[c] # 404
    BY <1>3, <1>8, HandlersOf
  <2> QED
    BY <1>6, <2>1, <2>2 DEF AbsentTruly, Kind
<1>12. WholeFile(c)'
  <2>1. q.kind \in Evidence => code'[c] # 200
    BY <1>3, <1>8, HandlersOf
  <2> QED
    BY <1>6, <2>1 DEF WholeFile, Kind
<1>13. Beginning(c)'
  BY <1>1, <1>8 DEF Beginning
<1>14. LookupSound(c)'
  BY <1>9, <1>10, <1>11, <1>12, <1>13 DEF LookupSound
<1>15. \A d \in Clients \ {c} :
         entries'[d] = entries[d] /\ pieces'[d] = pieces[d]
  BY <1>1
<1> QED
  BY <1>3, <1>6, <1>7, <1>14, <1>15, OneClient

LEMMA OtherReadsKeep ==
  ASSUME ReadsInv, NEW c \in Clients, UNCHANGED <<fineIds, fineStatusHistory>>,
         ReadIndex(c) \/ CountFines(c) \/ ReadAllFines(c) \/ ReadList(c)
  PROVE  ReadsInv'
<1>1. LookupTypes /\ OnCourse(c)
  BY DEF ReadsInv, LookupSound
<1>2. step[c] \in {"index", "count", "page", "list"}
  BY DEF ReadIndex, CountFines, ReadAllFines, ReadList
<1>3. Elsewhere(c) /\ step[c] # "done"
  BY <1>1, <1>2 DEF OnCourse, Elsewhere
<1>4. UNCHANGED <<lookup, entries, pieces, before>>
  BY DEF ReadIndex, CountFines, ReadAllFines, ReadList
<1>5. \/ index' = index
      \/ \E ids : index' = [index EXCEPT ![c] = ids]
  BY DEF ReadIndex, CountFines, ReadAllFines, ReadList
<1>6. Maps(index)' /\ \A d \in Clients \ {c} : index'[d] = index[d]
  BY <1>1, <1>5 DEF LookupTypes, Maps
<1>7. \/ \E next \in {"fines", "page", "entries"} : Goes(c, next)
      \/ \E S : Reply(c, S)
  BY DEF ReadIndex, CountFines, ReadAllFines, ReadList
<1>8. Maps(entries)' /\ \A d \in Clients \ {c} : entries'[d] = entries[d]
  BY <1>1, <1>4 DEF LookupTypes, Maps
<1> QED
  BY <1>3, <1>4, <1>6, <1>7, <1>8, ElsewhereKept

(* A step of a lookup that keeps what it is about.                         *)
LEMMA LookupStep ==
  ASSUME ReadsInv, NEW c \in Clients,
         UNCHANGED <<lookup, index, before, fineIds, fineStatusHistory>>,
         Maps(step)', Maps(code)', Maps(entries)',
         pieces' \in [Clients -> Nat],
         \A d \in Clients \ {c} :
            /\ step'[d] = step[d] /\ code'[d] = code[d]
            /\ entries'[d] = entries[d] /\ pieces'[d] = pieces[d],
         OnCourse(c)', AbsentTruly(c)', WholeFile(c)', Beginning(c)'
  PROVE  ReadsInv'
<1>1. LookupTypes /\ LookupSound(c)
  BY DEF ReadsInv
<1>2. LookupTypes'
  BY <1>1 DEF LookupTypes, Maps
<1>3. AskedEarlier(c)'
  BY <1>1 DEF LookupSound, AskedEarlier
<1>4. LookupSound(c)'
  BY <1>3 DEF LookupSound
<1> QED
  BY <1>2, <1>4, OneClient

(* A fine that the contract does not have is none that was registered when *)
(* the client asked.                                                       *)
LEMMA UnregisteredUnknown ==
  ASSUME ReadsInv, Contract!LedgerInv, NEW c \in Clients,
         ~ (lookup[c].id \in 1 .. fineIds)
  PROVE  lookup[c].id \notin KnownFines(c)
<1> SUFFICES ASSUME lookup[c].id \in KnownFines(c)
             PROVE  FALSE
  OBVIOUS
<1>1. PICK id : id = lookup[c].id
  OBVIOUS
<1>2. id \in 1 .. MaxFines /\ before[c][id] > 0
  BY <1>1 DEF KnownFines, Chain!FineIds
<1>3. before[c][id] <= Len(fineStatusHistory[id]) /\ before[c][id] \in Nat
  BY <1>2 DEF ReadsInv, LookupSound, AskedEarlier, LookupTypes
<1>4. Len(fineStatusHistory[id]) \in Nat
  BY <1>2, LedgerTypes
<1>5. id <= fineIds /\ fineIds \in Nat /\ id \in Nat
  BY <1>2, <1>3, <1>4, LedgerTypes
<1> QED
  BY <1>1, <1>2, <1>5

(* One fine is read: it is served, or something that is not its absence.   *)
LEMMA ReadFineKeeps ==
  ASSUME ReadsInv, NEW c \in Clients, NEW i \in DOMAIN index[c],
         UNCHANGED <<fineIds, fineStatusHistory>>, ReadFine(c, i)
  PROVE  ReadsInv'
<1>1. LookupTypes /\ OnCourse(c)
  BY DEF ReadsInv, LookupSound
<1>2. step[c] = "fines" /\ UNCHANGED <<lookup, index, entries, pieces, before>>
  BY DEF ReadFine
<1>3. \/ Goes(c, "fines") \/ Reply(c, {200})
      \/ Reply(c, Handler[Kind(c)].failed)
  BY DEF ReadFine, Respond
<1>4. Maps(index)' /\ Maps(entries)' /\ pieces' \in [Clients -> Nat]
  BY <1>1, <1>2 DEF LookupTypes, Maps
<1>5. CASE Elsewhere(c)
  BY <1>2, <1>3, <1>4, <1>5, ElsewhereKept
<1>6. CASE Kind(c) \in OneFine
  <2>1. /\ \/ step'[c] = "fines" /\ code'[c] = code[c]
           \/ step'[c] = "done"
                /\ code'[c] \in {200} \cup Handler[Kind(c)].failed
        /\ Maps(step)' /\ Maps(code)'
        /\ \A d \in Clients \ {c} : step'[d] = step[d] /\ code'[d] = code[d]
    BY <1>1, <1>3, GoesOn, Replied
  <2>2. code[c] = 0 /\ code'[c] # 404
    BY <1>1, <1>2, <1>6, <2>1, HandlersOf DEF OnCourse
  <2>3. Kind(c) \notin Histories \cup Evidence
    BY <1>6 DEF OneFine, Histories, Evidence
  <2>4. OnCourse(c)'
    BY <1>1, <1>2, <1>6, <2>1, <2>2, <2>3 DEF OnCourse, Kind
  <2>5. AbsentTruly(c)' /\ WholeFile(c)' /\ Beginning(c)'
    BY <1>2, <2>2, <2>3 DEF AbsentTruly, WholeFile, Beginning, Kind
  <2> QED
    BY <1>2, <1>4, <2>1, <2>4, <2>5, LookupStep
<1> QED
  BY <1>1, <1>2, <1>5, <1>6 DEF OnCourse, Elsewhere

(* The read fails: only for a fine that does not exist is that said.       *)
LEMMA ReadFailsKeeps ==
  ASSUME ReadsInv, Contract!LedgerInv, NEW c \in Clients,
         NEW i \in DOMAIN index[c],
         UNCHANGED <<fineIds, fineStatusHistory>>, ReadFails(c, i)
  PROVE  ReadsInv'
<1>1. LookupTypes /\ OnCourse(c)
  BY DEF ReadsInv, LookupSound
<1>2. step[c] = "fines" /\ UNCHANGED <<lookup, index, entries, pieces, before>>
  BY DEF ReadFails
<1>3. \/ Goes(c, "fines") \/ Reply(c, {200})
      \/ Reply(c, Handler[Kind(c)].failed)
      \/ ~ Registered(index[c][i]) /\ Reply(c, Handler[Kind(c)].absent)
  BY DEF ReadFails, Respond
<1>4. Maps(index)' /\ Maps(entries)' /\ pieces' \in [Clients -> Nat]
  BY <1>1, <1>2 DEF LookupTypes, Maps
<1>5. CASE Elsewhere(c)
  BY <1>2, <1>3, <1>4, <1>5, ElsewhereKept
<1>6. CASE Kind(c) \in OneFine
  <2>1. /\ \/ step'[c] = "fines" /\ code'[c] = code[c]
           \/ step'[c] = "done"
                /\ code'[c] \in {200} \cup Handler[Kind(c)].failed
           \/ step'[c] = "done" /\ ~ Registered(index[c][i])
        /\ Maps(step)' /\ Maps(code)'
        /\ \A d \in Clients \ {c} : step'[d] = step[d] /\ code'[d] = code[d]
    BY <1>1, <1>3, GoesOn, Replied
  <2>2. code[c] = 0
    BY <1>1, <1>2 DEF OnCourse
  <2>3. code'[c] = 404 => lookup[c].id \notin KnownFines(c)
    <3> SUFFICES ASSUME code'[c] = 404
                 PROVE  lookup[c].id \notin KnownFines(c)
      OBVIOUS
    <3>1. ~ Registered(index[c][i])
      BY <1>6, <2>1, <2>2, HandlersOf
    <3>2. index[c] = <<lookup[c].id>>
      BY <1>1, <1>2, <1>6 DEF OnCourse
    <3>3. index[c][i] = lookup[c].id
      BY <3>2
    <3>4. ~ (lookup[c].id \in 1 .. fineIds)
      BY <3>1, <3>3 DEF Registered, Chain!getAllFineCount
    <3> QED
      BY <3>4, UnregisteredUnknown
  <2>4. Kind(c) \notin Histories \cup Evidence
    BY <1>6 DEF OneFine, Histories, Evidence
  <2>5. OnCourse(c)'
    BY <1>1, <1>2, <1>6, <2>1, <2>2, <2>4 DEF OnCourse, Kind
  <2>6. AbsentTruly(c)' /\ WholeFile(c)' /\ Beginning(c)'
    BY <1>2, <2>3, <2>4 DEF AbsentTruly, WholeFile, Beginning, Kind, KnownFines
  <2> QED
    BY <1>2, <1>4, <2>1, <2>5, <2>6, LookupStep
<1> QED
  BY <1>1, <1>2, <1>5, <1>6 DEF OnCourse, Elsewhere

(* The first page of a history is how it begins, as far as it goes.        *)
LEMMA FirstPage ==
  ASSUME NEW S, NEW h \in Seq(S), NEW size \in Nat \ {0},
         NEW page, page = Chain!Page(h, Len(h), 1, size)
  PROVE  /\ page \in Seq(S)
         /\ Len(page) = Chain!Least(size, Len(h))
         /\ Len(page) <= Len(h)
         /\ \A k \in 1 .. Len(page) : page[k] = h[k]
<1>1. Chain!startIndex(1, size) = 0
  BY DEF Chain!startIndex
<1>2. Len(h) \in Nat
  OBVIOUS
<1>3. CASE Len(h) = 0
  <2>1. page = <<>>
    BY <1>1, <1>3 DEF Chain!Page
  <2>2. page \in Seq(S) /\ Len(page) = 0
    <3>1. << >> \in Seq(S)
      OBVIOUS
    <3>2. Len(<< >>) = 0
      OBVIOUS
    <3> QED
      BY <2>1, <3>1, <3>2, Zenon
  <2>3. Chain!Least(size, Len(h)) = 0
    BY <1>3 DEF Chain!Least
  <2> QED
    BY <1>3, <2>2, <2>3
<1>4. CASE Len(h) > 0
  <2>1. PICK n : n = Chain!Least(size, Len(h))
    OBVIOUS
  <2>2. n \in Nat /\ n <= Len(h)
    BY <1>2, <2>1 DEF Chain!Least
  <2>3. ~ (0 >= Len(h))
    BY <1>2, <1>4
  <2>4. Chain!endIndex(1, size, Len(h)) - Chain!startIndex(1, size) = n
    BY <1>1, <1>2, <2>1, <2>2 DEF Chain!endIndex, Chain!Least
  <2>5. page = [k \in 1 .. n |-> h[0 + k]]
    BY <1>1, <2>3, <2>4 DEF Chain!Page
  <2>6. page = [k \in 1 .. n |-> h[k]]
    BY <2>2, <2>5
  <2>7. \A k \in 1 .. n : h[k] \in S
    BY <2>2
  <2>8. page \in Seq(S) /\ Len(page) = n
    BY <2>2, <2>6, <2>7
  <2> QED
    BY <2>1, <2>2, <2>6, <2>8
<1> QED
  BY <1>2, <1>3, <1>4

LEMMA ReadHistoryKeeps ==
  ASSUME ReadsInv, Contract!LedgerInv, NEW c \in Clients,
         UNCHANGED <<fineIds, fineStatusHistory>>, ReadHistory(c)
  PROVE  ReadsInv'
<1>1. LookupTypes /\ OnCourse(c) /\ AskedEarlier(c)
  BY DEF ReadsInv, LookupSound
<1>2. step[c] = "entries" /\ UNCHANGED <<lookup, index, pieces, before>>
  BY DEF ReadHistory
<1>3. PICK part : entries' = [entries EXCEPT ![c] = Append(@, part)]
  BY DEF ReadHistory
<1>4. /\ Maps(entries)'
      /\ entries'[c] = Append(entries[c], part)
      /\ \A d \in Clients \ {c} : entries'[d] = entries[d]
  BY <1>1, <1>3 DEF LookupTypes, Maps
<1>5. Maps(index)' /\ pieces' \in [Clients -> Nat]
  BY <1>1, <1>2 DEF LookupTypes, Maps
<1>6. Goes(c, "entries") \/ Reply(c, {200})
  BY DEF ReadHistory
<1>7. CASE Elsewhere(c)
  BY <1>2, <1>4, <1>5, <1>6, <1>7, ElsewhereKept
<1>8. CASE Kind(c) \in Histories
  <2>1. entries[c] = <<>> /\ index[c] = <<lookup[c].id>> /\ code[c] = 0
    BY <1>1, <1>2, <1>8 DEF OnCourse
  <2>2. PICK id, size : id = lookup[c].id /\ size = Limit(c)
    OBVIOUS
  <2>3. /\ index[c][Len(entries[c]) + 1] = id
        /\ Len(entries[c]) + 1 = Len(index[c])
    BY <2>1, <2>2
  <2>4. /\ id \in 1 .. fineIds
        /\ entries' = [entries EXCEPT ![c] = Append(@, History(id, size))]
        /\ Reply(c, {200})
    BY <2>2, <2>3 DEF ReadHistory
  <2>5. PICK page, h : page = History(id, size) /\ h = fineStatusHistory[id]
    OBVIOUS
  <2>6. entries'[c] = <<page>>
    BY <1>1, <2>1, <2>4, <2>5 DEF LookupTypes, Maps
  <2>7. /\ step'[c] = "done" /\ code'[c] = 200
        /\ Maps(step)' /\ Maps(code)'
        /\ \A d \in Clients \ {c} : step'[d] = step[d] /\ code'[d] = code[d]
    BY <1>1, <2>4, Replied
  <2>8. id \in 1 .. MaxFines /\ h \in Seq(Contract!FineStatusUpdate)
    BY <2>4, <2>5, LedgerTypes, ListingAssumption
  <2>9. size \in Nat \ {0}
    BY <2>2, LookupsAssumption DEF Limit
  <2>10. page = Chain!Page(h, Len(h), 1, size)
    BY <2>5 DEF History, Chain!getFineStatusHistory
  <2>11. /\ page \in Seq(Contract!FineStatusUpdate)
         /\ Len(page) = Chain!Least(size, Len(h))
         /\ Len(page) <= Len(h)
         /\ \A k \in 1 .. Len(page) : page[k] = h[k]
    BY <2>8, <2>9, <2>10, FirstPage
  <2>12. before[c][id] <= Len(h) /\ before[c][id] \in Nat /\ Len(h) \in Nat
    <3>1. before[c][id] <= Len(h)
      BY <1>1, <2>5, <2>8 DEF AskedEarlier
    <3>2. before[c][id] \in Nat
      BY <1>1, <2>8 DEF LookupTypes
    <3>3. Len(h) \in Nat
      BY <2>8
    <3> QED
      BY <3>1, <3>2, <3>3
  <2>13. Chain!Least(before[c][id], size) <= Len(page)
    BY <2>9, <2>11, <2>12 DEF Chain!Least
  <2>14. Kind(c) \notin OneFine \cup Evidence
    BY <1>8 DEF OneFine, Histories, Evidence
  <2>15. OnCourse(c)'
    BY <1>2, <1>8, <2>7, <2>14 DEF OnCourse, Kind
  <2>16. AbsentTruly(c)' /\ WholeFile(c)'
    BY <1>2, <2>7, <2>14 DEF AbsentTruly, WholeFile, Kind
  <2>17. Beginning(c)'
    <3>1. lookup'[c].id = id /\ Limit(c)' = size /\ entries'[c][1] = page
      BY <1>2, <2>2, <2>6 DEF Limit, Kind
    <3>2. fineStatusHistory'[id] = h /\ before'[c][id] = before[c][id]
      BY <1>2, <2>5
    <3> QED
      BY <2>8, <2>11, <2>13, <3>1, <3>2 DEF Beginning
  <2> QED
    BY <1>2, <1>4, <1>5, <2>7, <2>15, <2>16, <2>17, LookupStep
<1> QED
  BY <1>1, <1>2, <1>7, <1>8 DEF OnCourse, Elsewhere

(* A call fails: what was read is dropped, and only the contract says that *)
(* a fine does not exist.                                                  *)
LEMMA LookupFailsKeeps ==
  ASSUME ReadsInv, Contract!LedgerInv, NEW c \in Clients,
         UNCHANGED <<fineIds, fineStatusHistory>>, LookupFails(c)
  PROVE  ReadsInv'
<1>1. LookupTypes /\ OnCourse(c)
  BY DEF ReadsInv, LookupSound
<1>2. /\ step[c] \in {"index", "count", "page", "entries", "list", "connect",
                      "pieces"}
      /\ UNCHANGED <<lookup, index, pieces, before>>
      /\ entries' = [entries EXCEPT ![c] = <<>>]
  BY DEF LookupFails
<1>3. PICK S : /\ Reply(c, S)
               /\ S = Handler[Kind(c)].failed
                        \cup IF NoSuchHistory(c) THEN Handler[Kind(c)].absent
                                                 ELSE {}
  BY DEF LookupFails
<1>4. /\ Maps(entries)' /\ entries'[c] = <<>>
      /\ \A d \in Clients \ {c} : entries'[d] = entries[d]
  BY <1>1, <1>2 DEF LookupTypes, Maps
<1>5. Maps(index)' /\ pieces' \in [Clients -> Nat]
  BY <1>1, <1>2 DEF LookupTypes, Maps
<1>6. /\ step'[c] = "done" /\ code'[c] \in S
      /\ Maps(step)' /\ Maps(code)'
      /\ \A d \in Clients \ {c} : step'[d] = step[d] /\ code'[d] = code[d]
  BY <1>1, <1>3, Replied
<1>7. CASE Elsewhere(c)
  BY <1>2, <1>3, <1>4, <1>5, <1>7, ElsewhereKept
<1>8. CASE Kind(c) \in Histories
  <2>1. step[c] = "entries" /\ index[c] = <<lookup[c].id>>
    BY <1>1, <1>2, <1>8 DEF OnCourse
  <2>2. code'[c] = 404 => lookup[c].id \notin KnownFines(c)
    <3> SUFFICES ASSUME code'[c] = 404
                 PROVE  lookup[c].id \notin KnownFines(c)
      OBVIOUS
    <3>1. NoSuchHistory(c)
      BY <1>3, <1>6, <1>8, HandlersOf
    <3>2. ~ (lookup[c].id \in 1 .. fineIds)
      BY <2>1, <3>1 DEF NoSuchHistory
    <3> QED
      BY <3>2, UnregisteredUnknown
  <2>3. Kind(c) \notin OneFine \cup Evidence
    BY <1>8 DEF OneFine, Histories, Evidence
  <2>4. OnCourse(c)'
    BY <1>2, <1>6, <1>8, <2>3 DEF OnCourse, Kind
  <2>5. AbsentTruly(c)' /\ WholeFile(c)' /\ Beginning(c)'
    BY <1>2, <1>4, <2>2, <2>3
       DEF AbsentTruly, WholeFile, Beginning, Kind, KnownFines
  <2> QED
    BY <1>2, <1>4, <1>5, <1>6, <2>4, <2>5, LookupStep
<1>9. CASE Kind(c) \in Evidence
  <2>1. ~ NoSuchHistory(c)
    BY <1>1, <1>9 DEF NoSuchHistory, OnCourse
  <2>2. code'[c] # 200
    BY <1>3, <1>6, <1>9, <2>1, HandlersOf
  <2>3. Kind(c) \notin OneFine \cup Histories
    BY <1>9 DEF OneFine, Histories, Evidence
  <2>4. OnCourse(c)'
    BY <1>2, <1>6, <1>9, <2>3 DEF OnCourse, Kind
  <2>5. AbsentTruly(c)' /\ WholeFile(c)' /\ Beginning(c)'
    BY <1>2, <2>2, <2>3 DEF AbsentTruly, WholeFile, Beginning, Kind
  <2> QED
    BY <1>2, <1>4, <1>5, <1>6, <2>4, <2>5, LookupStep
<1> QED
  BY <1>1, <1>2, <1>7, <1>8, <1>9 DEF OnCourse, Elsewhere

(* Evidence: the response begins when the last piece is there.             *)
LEMMA EvidenceKeeps ==
  ASSUME ReadsInv, NEW c \in Clients, UNCHANGED <<fineIds, fineStatusHistory>>,
         Connect(c) \/ ReceivePiece(c) \/ ServeEvidence(c)
  PROVE  ReadsInv'
<1>1. LookupTypes /\ OnCourse(c)
  BY DEF ReadsInv, LookupSound
<1>2. /\ step[c] \in {"connect", "pieces"}
      /\ UNCHANGED <<lookup, index, entries, before>>
  BY DEF Connect, ReceivePiece, ServeEvidence
<1>3. code[c] = 0 /\ Kind(c) \notin OneFine \cup Histories
  BY <1>1, <1>2 DEF OnCourse
<1>4. Maps(index)' /\ Maps(entries)'
  BY <1>1, <1>2 DEF LookupTypes, Maps
<1>5. /\ pieces' \in [Clients -> Nat]
      /\ \A d \in Clients \ {c} : pieces'[d] = pieces[d]
  <2>1. pieces' = pieces \/ pieces' = [pieces EXCEPT ![c] = @ + 1]
    BY DEF Connect, ReceivePiece, ServeEvidence
  <2> QED
    BY <1>1, <2>1 DEF LookupTypes
<1>6. Goes(c, "pieces") \/ UNCHANGED <<step, code>> \/ ServeEvidence(c)
  BY DEF Connect, ReceivePiece
<1>7. CASE Goes(c, "pieces") \/ UNCHANGED <<step, code>>
  <2>1. /\ step'[c] \in {"connect", "pieces"} /\ code'[c] = code[c]
        /\ Maps(step)' /\ Maps(code)'
        /\ \A d \in Clients \ {c} : step'[d] = step[d] /\ code'[d] = code[d]
    <3>1. CASE Goes(c, "pieces")
      BY <1>1, <3>1, GoesOn
    <3>2. CASE UNCHANGED <<step, code>>
      BY <1>1, <1>2, <3>2 DEF LookupTypes, Maps
    <3> QED
      BY <1>7, <3>1, <3>2
  <2>2. OnCourse(c)'
    BY <1>2, <1>3, <2>1 DEF OnCourse, Kind
  <2>3. AbsentTruly(c)' /\ WholeFile(c)' /\ Beginning(c)'
    BY <1>2, <1>3, <2>1 DEF AbsentTruly, WholeFile, Beginning, Kind
  <2> QED
    BY <1>2, <1>4, <1>5, <2>1, <2>2, <2>3, LookupStep
<1>8. CASE ServeEvidence(c)
  <2>1. PICK S : /\ Reply(c, S)
                 /\ S = IF pieces[c] = 0 THEN Handler[Kind(c)].absent ELSE {200}
    BY <1>8 DEF ServeEvidence
  <2>2. /\ step'[c] = "done" /\ code'[c] \in S
        /\ Maps(step)' /\ Maps(code)'
        /\ \A d \in Clients \ {c} : step'[d] = step[d] /\ code'[d] = code[d]
    BY <1>1, <2>1, Replied
  <2>3. /\ pieces[c] = Files[lookup[c].text] /\ pieces' = pieces
        /\ pieces[c] \in Nat
    BY <1>1, <1>8 DEF ServeEvidence, StreamEnded, LookupTypes
  <2>4. WholeFile(c)'
    <3>1. Kind(c) \in Evidence /\ code'[c] = 200 => pieces[c] > 0
      BY <2>1, <2>2, <2>3, HandlersOf
    <3> QED
      BY <1>2, <2>3, <3>1 DEF WholeFile, Kind
  <2>5. OnCourse(c)'
    BY <1>2, <1>3, <2>2 DEF OnCourse, Kind
  <2>6. AbsentTruly(c)' /\ Beginning(c)'
    BY <1>2, <1>3 DEF AbsentTruly, Beginning, Kind
  <2> QED
    BY <1>2, <1>4, <1>5, <2>2, <2>4, <2>5, <2>6, LookupStep
<1> QED
  BY <1>6, <1>7, <1>8

LEMMA StepReadsInv ==
  ASSUME ReadsInv, Contract!LedgerInv, [ReadsNext]_readsVars
  PROVE  ReadsInv'
<1>1. CASE UNCHANGED lookupVars
  BY <1>1, ContractStep
<1>2. ASSUME NEW c \in Clients, AskLookup(c) /\ UNCHANGED vars
      PROVE  ReadsInv'
  <2>1. UNCHANGED <<fineIds, fineStatusHistory>>
    BY <1>2 DEF vars, contractVars
  <2> QED
    BY <1>2, <2>1, AskKeeps
<1>3. ASSUME NEW c \in Clients, Proceed(c) /\ UNCHANGED vars
      PROVE  ReadsInv'
  <2>1. UNCHANGED <<fineIds, fineStatusHistory>>
    BY <1>3 DEF vars, contractVars
  <2> QED
    BY <1>3, <2>1, OtherReadsKeep, ReadFineKeeps, ReadFailsKeeps,
       ReadHistoryKeeps, LookupFailsKeeps, EvidenceKeeps DEF Proceed
<1>4. ASSUME NEW c \in Clients, CountFines(c) /\ UNCHANGED contractVars
      PROVE  ReadsInv'
  <2>1. UNCHANGED <<fineIds, fineStatusHistory>>
    BY <1>4 DEF contractVars
  <2> QED
    BY <1>4, <2>1, OtherReadsKeep
<1> QED
  BY <1>1, <1>2, <1>3, <1>4 DEF ReadsNext, readsVars

-----------------------------------------------------------------------------

THEOREM LookupsSound == ReadsSpec => []ReadsInv
<1> QED
  BY InitReadsInv, StepReadsInv, LedgerHolds, PTL DEF ReadsSpec

(* "Fine not found" is never the answer for a fine that was registered     *)
(* when the client asked, nor for its history: not for any failure of the  *)
(* node between the call for the count and the call for the fine.          *)
THEOREM NeverDenied == ReadsSpec => []AbsentMeansAbsent
<1>1. ReadsInv => AbsentMeansAbsent
  BY DEF ReadsInv, LookupSound, AbsentTruly, AbsentMeansAbsent
<1> QED
  BY <1>1, LookupsSound, PTL

(* A history that shows anything is how the fine's history begins, and     *)
(* leaves out only what is over the limit or came after the request.       *)
THEOREM HistoriesFaithful == ReadsSpec => []HistoryFaithful
<1>1. ASSUME ReadsInv, Contract!LedgerInv
      PROVE  HistoryFaithful
  <2> SUFFICES ASSUME NEW c \in Clients, Served(c, Histories), entries[c] # <<>>
               PROVE  LET h == fineStatusHistory[lookup[c].id]
                          part == entries[c][1]
                      IN /\ part = SubSeq(h, 1, Len(part))
                         /\ Len(part) >= Chain!Least(before[c][lookup[c].id],
                                                     Limit(c))
    BY DEF HistoryFaithful
  <2>1. PICK id, part, h : /\ id = lookup[c].id /\ part = entries[c][1]
                           /\ h = fineStatusHistory[id]
    OBVIOUS
  <2>2. /\ id \in 1 .. MaxFines
        /\ part \in Seq(Contract!FineStatusUpdate)
        /\ Len(part) <= Len(h)
        /\ \A k \in 1 .. Len(part) : part[k] = h[k]
        /\ Chain!Least(before[c][id], Limit(c)) <= Len(part)
    BY <1>1, <2>1 DEF ReadsInv, LookupSound, Beginning, Served
  <2>3. h \in Seq(Contract!FineStatusUpdate)
    BY <1>1, <2>1, <2>2, LedgerTypes
  <2>4. part = SubSeq(h, 1, Len(part))
    BY <2>2, <2>3
  <2>5. before[c][id] \in Nat /\ Limit(c) \in Nat /\ Len(part) \in Nat
    <3>1. before[c][id] \in Nat
      BY <1>1, <2>2 DEF ReadsInv, LookupTypes
    <3>2. Limit(c) \in Nat
      BY LookupsAssumption DEF Limit
    <3>3. Len(part) \in Nat
      BY <2>2
    <3> QED
      BY <3>1, <3>2, <3>3
  <2>6. Len(part) >= Chain!Least(before[c][id], Limit(c))
    BY <2>2, <2>5 DEF Chain!Least
  <2> QED
    BY <2>1, <2>4, <2>6
<1> QED
  BY <1>1, LookupsSound, LedgerHolds, PTL

(* No response with evidence is begun before its last piece has arrived,   *)
(* nor with an empty file, wherever IPFS stops answering.                  *)
THEOREM EvidenceServedWhole == ReadsSpec => []EvidenceWhole
<1>1. ReadsInv => EvidenceWhole
  BY DEF ReadsInv, LookupSound, WholeFile, EvidenceWhole, Served
<1> QED
  BY <1>1, LookupsSound, PTL
=============================================================================
