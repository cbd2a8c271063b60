------------------------------ MODULE FineReads ------------------------------
(***************************************************************************)
(* The other requests that read: one fine by its number, the fines of a    *)
(* plate, the history of a fine, the latest changes, the legacy list and   *)
(* the evidence in IPFS, each in the forms that the hexagonal controller,  *)
(* the legacy controller and the hybrid EthereumService give it.  What a   *)
(* request reads takes several calls to the contract or to IPFS, in        *)
(* parallel or one after the other, and any of them may fail; a client     *)
(* makes one such request, or walks the list.                              *)
(***************************************************************************)
EXTENDS FineListing, FiniteSets

CONSTANTS
  Lookups,       \* what may be asked for: a kind, a number and a text
  Files,         \* CID that IPFS holds -> the pieces of the file
  FullHistory,   \* the entries that the hexagonal history asks for
  PartHistory,   \* the entries that the legacy readers ask for
  LatestChanges  \* how many changes the legacy recent history shows

-----------------------------------------------------------------------------
(* The handlers: the first call of each, and the statuses of a request     *)
(* that is refused before anything is read, that asks for a number beyond  *)
(* the count, and of which any other call fails.                           *)

Handles(first, refused, absent, failed) ==
  [first |-> first, refused |-> refused, absent |-> absent, failed |-> failed]

(* The use cases wrap every text in their own, so none of the contract's   *)
(* failures is ever a 404.                                                 *)
getFine == Handles({"fines"}, {400}, {400}, {400})

legacyGetFine == Handles({"fines"}, {400}, {404}, {500})

(* "does not exist" is a 404; the word "network" in an error's text tells  *)
(* an unreachable network from the rest.                                   *)
handleBlockchainError(first) == Handles(first, {500}, {404}, {500, 503})

getPublicFineDetails == handleBlockchainError({"fines"})

getFinesByPlate == Handles({"index"}, {400}, {400}, {400})

legacyGetFinesByPlate == Handles({"index"}, {400}, {500}, {500})

citizenQuery == handleBlockchainError({"index"})

(* A history that cannot be read is served as an empty one.                *)
getStatusHistory == Handles({"entries"}, {200}, {200}, {200})

getPublicStatusHistory == handleBlockchainError({"entries"})

legacyGetFineStatusHistory == Handles({"entries"}, {400}, {500}, {500})

legacyGetRecentFinesHistory == Handles({"count"}, {}, {500}, {500})

legacyGetFines == Handles({"list"}, {400}, {500}, {500})

getPublicPaginatedFines == handleBlockchainError({"list"})

(* Whether IPFS is connected depends on the requests before.  It may say   *)
(* "not found" in its own words.                                           *)
getFineEvidence == Handles({"connect", "pieces"}, {400}, {400}, {400, 404})

legacyGetFineEvidence ==
  Handles({"connect", "pieces"}, {400}, {500}, {404, 500})

Handler ==
  [fine |-> getFine, legacyFine |-> legacyGetFine,
   publicFine |-> getPublicFineDetails,
   plate |-> getFinesByPlate, legacyPlate |-> legacyGetFinesByPlate,
   citizen |-> citizenQuery,
   history |-> getStatusHistory, legacyHistory |-> legacyGetFineStatusHistory,
   publicHistory |-> getPublicStatusHistory,
   activity |-> legacyGetRecentFinesHistory,
   legacyList |-> legacyGetFines, publicList |-> getPublicPaginatedFines,
   evidence |-> getFineEvidence, legacyEvidence |-> legacyGetFineEvidence]

OneFine   == {"fine", "legacyFine", "publicFine"}
ByPlate   == {"plate", "legacyPlate", "citizen"}
Histories == {"history", "legacyHistory", "publicHistory"}
Lists     == {"legacyList", "publicList"}
Evidence  == {"evidence", "legacyEvidence"}

(* A number that is not positive stands for every fineId that is not the   *)
(* number of a fine, and for a page that is not given.                     *)
Lookup == [kind: DOMAIN Handler, id: 0 .. MaxFines, text: Text]

ASSUME LookupsAssumption ==
  /\ Lookups \subseteq Lookup
  /\ DOMAIN Files \subseteq Cids /\ \A f \in DOMAIN Files : Files[f] \in Nat
  /\ FullHistory \in Nat \ {0} /\ PartHistory \in Nat \ {0}
  /\ LatestChanges \in Nat \ {0}

VARIABLES
  step,      \* client -> the calls that its lookup awaits
  lookup,    \* client -> what it asked for
  index,     \* client -> the numbers of the fines its lookup reads
  got,       \* client -> those fines, the zero struct where none is read
  missed,    \* client -> the positions of index whose read failed
  entries,   \* client -> the histories read so far
  pieces,    \* client -> how many pieces of the evidence it has received
  code,      \* client -> the status of the response, 0 before it is sent
  before     \* auxiliary: client -> lengths of the histories when it asked

lookupVars == <<step, lookup, index, got, missed, entries, pieces, code,
                before>>
readsVars == <<vars, lookupVars>>

LookupTypeOK ==
  /\ TypeOK
  /\ step \in [Clients -> {"idle", "index", "fines", "count", "page",
                           "entries", "list", "connect", "pieces", "done"}]
  /\ lookup \in [Clients -> Lookup]
  /\ index \in [Clients -> Seq(0 .. MaxFines)]
  /\ got \in [Clients -> Seq(Chain!Fine)]
  /\ missed \in [Clients -> SUBSET (1 .. MaxFines)]
  /\ entries \in [Clients -> Seq(Seq(Chain!FineStatusUpdate))]
  /\ pieces \in [Clients -> Nat]
  /\ code \in [Clients -> {0, 200, 400, 404, 500, 503}]
  /\ before \in [Clients -> [Chain!FineIds -> 0 .. MaxUpdates]]

Kind(c) == lookup[c].kind

Goes(c, next) ==
  /\ step' = [step EXCEPT ![c] = next]
  /\ UNCHANGED code

Reply(c, statuses) == \E status \in statuses :
  /\ step' = [step EXCEPT ![c] = "done"]
  /\ code' = [code EXCEPT ![c] = status]

-----------------------------------------------------------------------------

(* What is refused before anything is read.                                *)
Malformed(q) ==
  \/ q.kind \in OneFine \cup {"history"} /\ q.id = 0
  \/ q.kind = "plate" /\ ~IsPlateNumber(q.text)
  \/ q.kind \in Evidence /\ ~IsEvidenceCID(q.text)

(* The numbers that need no call to find.                                  *)
Given(q) == IF q.kind \in OneFine \cup Histories THEN <<q.id>> ELSE <<>>

AskLookup(c) == \E q \in Lookups :
  /\ step[c] = "idle"
  /\ lookup' = [lookup EXCEPT ![c] = q]
  /\ before' = [before EXCEPT
                  ![c] = [id \in Chain!FineIds |-> Len(fineStatusHistory[id])]]
  /\ index' = [index EXCEPT ![c] = Given(q)]
  /\ got' = [got EXCEPT ![c] = [i \in DOMAIN Given(q) |-> Chain!ZeroFine]]
  /\ IF Malformed(q)
     THEN Reply(c, Handler[q.kind].refused)
     ELSE \E call \in Handler[q.kind].first : Goes(c, call)
  /\ UNCHANGED <<missed, entries, pieces>>

-----------------------------------------------------------------------------
(* The fines of a plate, and one fine.                                     *)

(* Faulty: the plate is looked up as it was typed.                         *)
PlateAsTyped(q) == q.text

(* Only the hexagonal lookup brings the plate to the form it is stored in. *)
PlateOf(q) == IF q.kind = "plate" THEN Normal[q.text] ELSE q.text

ReadIndex(c) ==
  LET ids == finesByPlate[PlateOf(lookup[c])] IN
  /\ step[c] = "index"
  /\ index' = [index EXCEPT ![c] = ids]
  /\ got' = [got EXCEPT ![c] = [i \in DOMAIN ids |-> Chain!ZeroFine]]
  /\ IF ids = <<>> THEN Reply(c, {200}) ELSE Goes(c, "fines")
  /\ UNCHANGED <<lookup, missed, entries, pieces, before>>

Unread(c) == {i \in DOMAIN index[c] : got[c][i].id = 0} \ missed[c]

(* The fines that a request may read next: Promise.all starts every read   *)
(* at once, the citizen's query awaits one before it starts the next.      *)
Readings(c) ==
  IF Kind(c) = "citizen"
  THEN {i \in Unread(c) : \A j \in Unread(c) : i <= j}
  ELSE Unread(c)

(* Only the hexagonal requests make a fine of the domain of what they read *)
(* and show its cost with the late fee.  Both depend on the clock.         *)
Decodable(c, fine) ==
  Kind(c) \in {"fine", "plate"} =>
    \E now \in Clock(block) : Readable(fine, now)

Presentable(c, fs, now) ==
  Kind(c) \in {"fine", "plate"} => \A i \in DOMAIN fs : Showable(fs[i], now)

(* The response once all reads have returned.                              *)
Respond(c, fs, ms) == \E now \in Clock(block) :
  IF Kind(c) = "citizen" \/ (ms = {} /\ Presentable(c, fs, now))
  THEN Reply(c, {200})
  ELSE Reply(c, Handler[Kind(c)].failed)

(* Faulty: the results are collected in the order in which they arrive.    *)
PlaceAsTheyArrive(fs, i, fine) ==
  LET first == CHOOSE k \in DOMAIN fs :
                 fs[k].id = 0 /\ \A j \in DOMAIN fs : fs[j].id = 0 => k <= j
  IN [fs EXCEPT ![first] = fine]

Place(fs, i, fine) == [fs EXCEPT ![i] = fine]

(* Faulty: a fine has a number below the count.                            *)
RegisteredBelowCount(id) == id < fineIds

Registered(id) == id <= Chain!getAllFineCount

(* The count and the fine come from two calls; fines are never removed, so *)
(* they give what one call would.                                          *)
ReadFine(c, i) ==
  LET id == index[c][i]
      fs == Place(got[c], i, fines[id])
  IN
  /\ step[c] = "fines" /\ i \in Readings(c)
  /\ Registered(id)
  /\ Decodable(c, fines[id])
  /\ got' = [got EXCEPT ![c] = fs]
  /\ IF Unread(c) = {i} THEN Respond(c, fs, missed[c]) ELSE Goes(c, "fines")
  /\ UNCHANGED <<lookup, index, missed, entries, pieces, before>>

(* Faulty: the citizen's query stops at the first fine it cannot read.     *)
GivesUpAtFirst(c) == Kind(c) \in {"legacyPlate", "citizen"}

(* The legacy lookup is rejected with its first read; the others wait for  *)
(* all of them.                                                            *)
GivesUp(c) == Kind(c) = "legacyPlate"

(* A read fails: there is no such fine, the domain refuses it, or the node *)
(* does not answer.                                                        *)
ReadFails(c, i) ==
  LET ms == missed[c] \cup {i} IN
  /\ step[c] = "fines" /\ i \in Readings(c)
  /\ missed' = [missed EXCEPT ![c] = ms]
  /\ IF ~Registered(index[c][i])
     THEN Reply(c, Handler[Kind(c)].absent)
     ELSE IF GivesUp(c) \/ Unread(c) = {i}
          THEN Respond(c, got[c], ms)
          ELSE Goes(c, "fines")
  /\ UNCHANGED <<lookup, index, got, entries, pieces, before>>

-----------------------------------------------------------------------------
(* Histories, and the latest changes of all fines.                         *)

(* The legacy recent history asks for the number of fines and then for one *)
(* page of that size, which it does not clip again.                        *)
CountFines(c) ==
  /\ step[c] = "count"
  /\ count' = [count EXCEPT ![c] = Chain!getAllFineCount]
  /\ IF Chain!getAllFineCount = 0 THEN Reply(c, {200}) ELSE Goes(c, "page")
  /\ UNCHANGED <<pc, request, read, totalPages, shown, lookup, index, got,
                 missed, entries, pieces, before>>

ReadAllFines(c) ==
  LET page == Chain!getPaginatedFines(1, count[c]) IN
  /\ step[c] = "page"
  /\ got' = [got EXCEPT ![c] = page]
  /\ index' = [index EXCEPT ![c] = [i \in DOMAIN page |-> page[i].id]]
  /\ Goes(c, "entries")
  /\ UNCHANGED <<lookup, missed, entries, pieces, before>>

Limit(c) == IF Kind(c) = "history" THEN FullHistory ELSE PartHistory

(* Faulty: the second page of the history.                                 *)
SecondPage(id, size) == Chain!getFineStatusHistory(id, 2, size)

(* The first page, which holds the oldest entries.                         *)
History(id, size) == Chain!getFineStatusHistory(id, 1, size)

(* One history after the other.  The contract reverts for a number that is *)
(* not the number of a fine.                                               *)
ReadHistory(c) ==
  LET id == index[c][Len(entries[c]) + 1] IN
  /\ step[c] = "entries"
  /\ id \in 1 .. fineIds
  /\ entries' = [entries EXCEPT ![c] = Append(@, History(id, Limit(c)))]
  /\ IF Len(entries[c]) + 1 = Len(index[c])
     THEN Reply(c, {200})
     ELSE Goes(c, "entries")
  /\ UNCHANGED <<lookup, index, got, missed, pieces, before>>

(* The contract says that a fine whose history is asked for does not exist.*)
NoSuchHistory(c) == step[c] = "entries" /\ index[c][1] \notin 1 .. fineIds

(* A call to the node fails, or the contract reverts it.                   *)
LookupFails(c) ==
  /\ step[c] \in {"index", "count", "page", "entries", "list", "connect",
                  "pieces"}
  /\ Reply(c, Handler[Kind(c)].failed
                 \cup IF NoSuchHistory(c) THEN Handler[Kind(c)].absent ELSE {})
  /\ entries' = [entries EXCEPT ![c] = <<>>]
  /\ UNCHANGED <<lookup, index, got, missed, pieces, before>>

(* One page of the list, of the default size, which is not clipped.        *)
ReadList(c) ==
  LET number == IF lookup[c].id = 0 THEN 1 ELSE lookup[c].id
      page == Chain!getPaginatedFines(number, RecentSize)
  IN
  /\ step[c] = "list"
  /\ got' = [got EXCEPT ![c] = page]
  /\ index' = [index EXCEPT ![c] = [i \in DOMAIN page |-> page[i].id]]
  /\ Reply(c, {200})
  /\ UNCHANGED <<lookup, missed, entries, pieces, before>>

(* The changes of the fines, one after the other.  <<i, k>> is the k-th    *)
(* entry in the history of the i-th fine; after the last entry comes, once *)
(* more, the registration, which the contract records as the first one.    *)
AllChanges(c) ==
  UNION {{<<i, k>> : k \in 1 .. Len(entries[c][i]) + 1} :
         i \in DOMAIN entries[c]}

ChangeAt(c, p) ==
  LET fine == got[c][p[1]]
      history == entries[c][p[1]]
  IN IF p[2] \in DOMAIN history
     THEN [fineId |-> fine.id, status |-> history[p[2]].newState,
           timestamp |-> history[p[2]].lastUpdatedTimestamp]
     ELSE [fineId |-> fine.id, status |-> "PENDING",
           timestamp |-> fine.timestamp]

Before(p, q) == p[1] < q[1] \/ (p[1] = q[1] /\ p[2] < q[2])

(* Faulty: the oldest first.                                               *)
OldestFirst(c, p, q) ==
  \/ ChangeAt(c, p).timestamp < ChangeAt(c, q).timestamp
  \/ ChangeAt(c, p).timestamp = ChangeAt(c, q).timestamp /\ Before(p, q)

(* The sort is stable.                                                     *)
Precedes(c, p, q) ==
  \/ ChangeAt(c, p).timestamp > ChangeAt(c, q).timestamp
  \/ ChangeAt(c, p).timestamp = ChangeAt(c, q).timestamp /\ Before(p, q)

(* The changes that the response shows: the first ones of that order.      *)
AmongTheFirst(c, p) ==
  Cardinality({q \in AllChanges(c) : Precedes(c, q, p)}) < LatestChanges

Shown(c) ==
  {ChangeAt(c, p) : p \in {q \in AllChanges(c) : AmongTheFirst(c, q)}}

-----------------------------------------------------------------------------
(* Evidence.                                                               *)

(* The first request to IPFS asks for its version.                         *)
Connect(c) ==
  /\ step[c] = "connect"
  /\ Goes(c, "pieces")
  /\ UNCHANGED <<lookup, index, got, missed, entries, pieces, before>>

(* IPFS waits for a file that it does not hold.                            *)
ReceivePiece(c) ==
  /\ step[c] = "pieces" /\ lookup[c].text \in DOMAIN Files
  /\ pieces[c] < Files[lookup[c].text]
  /\ pieces' = [pieces EXCEPT ![c] = @ + 1]
  /\ UNCHANGED <<step, lookup, index, got, missed, entries, code, before>>

(* Faulty: the response begins with the first piece.                       *)
StreamBegun(file, n) == n = 1

StreamEnded(file, n) == n = Files[file]

(* An empty file is an error.                                              *)
ServeEvidence(c) ==
  /\ step[c] = "pieces" /\ lookup[c].text \in DOMAIN Files
  /\ StreamEnded(lookup[c].text, pieces[c])
  /\ Reply(c, IF pieces[c] = 0 THEN Handler[Kind(c)].absent ELSE {200})
  /\ UNCHANGED <<lookup, index, got, missed, entries, pieces, before>>

-----------------------------------------------------------------------------

ReadsInit ==
  /\ Init
  /\ step = [c \in Clients |-> "idle"]
  /\ lookup = [c \in Clients |-> [kind |-> "fine", id |-> 0, text |-> Empty]]
  /\ index = [c \in Clients |-> <<>>]
  /\ got = [c \in Clients |-> <<>>]
  /\ missed = [c \in Clients |-> {}]
  /\ entries = [c \in Clients |-> <<>>]
  /\ pieces = [c \in Clients |-> 0]
  /\ code = [c \in Clients |-> 0]
  /\ before = [c \in Clients |-> [id \in Chain!FineIds |-> 0]]

(* The calls of a lookup; only the legacy recent history keeps a count.    *)
Proceed(c) ==
  \/ ReadIndex(c)
  \/ \E i \in DOMAIN index[c] : ReadFine(c, i) \/ ReadFails(c, i)
  \/ ReadAllFines(c)
  \/ ReadHistory(c)
  \/ ReadList(c)
  \/ Connect(c)
  \/ ReceivePiece(c)
  \/ ServeEvidence(c)
  \/ LookupFails(c)

(* A client makes one lookup or walks the list.                            *)
ReadsNext ==
  \/ \E c \in Clients :
        \/ step[c] = "idle" /\ Walk(c) /\ UNCHANGED lookupVars
        \/ /\ At(c, "idle")
           /\ \/ AskLookup(c) /\ UNCHANGED vars
              \/ Proceed(c) /\ UNCHANGED vars
              \/ CountFines(c) /\ UNCHANGED contractVars
  \/ Transact /\ UNCHANGED lookupVars

ReadsSpec == ReadsInit /\ [][ReadsNext]_readsVars

-----------------------------------------------------------------------------
(* Safety.                                                                 *)

Served(c, kinds) == step[c] = "done" /\ code[c] = 200 /\ Kind(c) \in kinds

(* The numbers of the fines that a response shows.                         *)
FinesShown(c) == {got[c][i].id : i \in DOMAIN got[c]} \ {0}

(* The fines that were registered when the client asked.                   *)
KnownFines(c) == {id \in Chain!FineIds : before[c][id] > 0}

(* What a response shows of a fine is true: it is a fine of the plate that *)
(* was asked for, as it was registered and in a state that it was in while *)
(* the request ran, and the fines are in the order of their numbers,       *)
(* although parallel reads return in any order and updates fall between    *)
(* them.                                                                   *)
LookupsTruthful ==
  \A c \in Clients : Served(c, OneFine \cup ByPlate \cup Lists) =>
    /\ \A i, j \in DOMAIN got[c] :
          i < j /\ got[c][i].id # 0 /\ got[c][j].id # 0
            => got[c][i].id < got[c][j].id
    /\ \A i \in DOMAIN got[c] : LET fine == got[c][i] IN fine.id # 0 =>
         /\ Chain!Metadata(fine) = Chain!Metadata(fines[fine.id])
         /\ Kind(c) \in ByPlate => fine.plateNumber = PlateOf(lookup[c])
         /\ \E k \in DOMAIN fineStatusHistory[fine.id] :
              /\ k >= before[c][fine.id]
              /\ fine.currentState = fineStatusHistory[fine.id][k].newState

(* A response to a lookup by plate leaves out no fine of the plate that    *)
(* was registered when it was asked for.  The two controllers fail instead *)
(* when a read fails; the citizen's query leaves out exactly the fines     *)
(* whose own read failed.  The plate is the one asked for in upper case,   *)
(* which the citizen and the legacy client have to type themselves.        *)
LookupsComplete ==
  \A c \in Clients : Served(c, ByPlate) =>
    /\ {id \in KnownFines(c) : fines[id].plateNumber =
          IF Kind(c) = "plate" THEN Normal[lookup[c].text]
                               ELSE lookup[c].text}
         \subseteq FinesShown(c) \cup {index[c][i] : i \in missed[c]}
    /\ Kind(c) # "citizen" => missed[c] = {}

(* "Fine not found" is said of no fine that was registered when it was     *)
(* asked for, itself or its history, although the count and the fine come  *)
(* from different calls and every other failure is an error too.           *)
AbsentMeansAbsent ==
  \A c \in Clients : code[c] = 404 /\ Kind(c) \in OneFine \cup Histories =>
    lookup[c].id \notin KnownFines(c)

(* A history that shows anything is the beginning of the fine's history,   *)
(* up to the limit and at least to where it was when it was asked for.  An *)
(* empty one says nothing: the hexagonal controller serves it for every    *)
(* failure, and the contract's histories are never empty.                  *)
HistoryFaithful ==
  \A c \in Clients : Served(c, Histories) /\ entries[c] # <<>> =>
    LET h == fineStatusHistory[lookup[c].id]
        part == entries[c][1]
    IN /\ part = SubSeq(h, 1, Len(part))
       /\ Len(part) >= Chain!Least(before[c][lookup[c].id], Limit(c))

(* "Obtiene el histórico de las 10 multas más recientes": a change that    *)
(* was recorded before the request, among the first entries of its fine,   *)
(* is left out only for changes that are at least as new, although the     *)
(* histories are read one after the other while others go on updating.     *)
(* Only the first PartHistory entries of a fine, its oldest, are ever      *)
(* read: of a fine with more of them the latest are never shown, and the   *)
(* quoted sentence does not hold.                                          *)
LatestChangesShown ==
  \A c \in Clients : Served(c, {"activity"}) =>
    \A id \in KnownFines(c) :
      \A k \in 1 .. Chain!Least(before[c][id], PartHistory) :
        LET entry == fineStatusHistory[id][k] IN
        \/ \E change \in Shown(c) :
             /\ change.fineId = id /\ change.status = entry.newState
             /\ change.timestamp = entry.lastUpdatedTimestamp
        \/ \A change \in Shown(c) :
             change.timestamp >= entry.lastUpdatedTimestamp

(* A response with evidence carries the whole file and never an empty one, *)
(* although the file arrives in pieces and IPFS may fail between two of    *)
(* them: no response is begun before its last piece is there.              *)
EvidenceWhole ==
  \A c \in Clients : Served(c, Evidence) =>
    pieces[c] = Files[lookup[c].text] /\ pieces[c] > 0
=============================================================================
