----------------------------- MODULE FineListing -----------------------------
(***************************************************************************)
(* GET /api/fines, and GET /api/fines/recent-history, which serves the     *)
(* first page of the same list.  A client walks from page to page of the   *)
(* list while others register and update fines.  Each response takes three *)
(* calls to the contract: the number of fines, which clips the size of the *)
(* page; the page; and the number of fines again, for the number of pages. *)
(***************************************************************************)
EXTENDS Naturals, Sequences, SequencesExt, FineDomain

CONSTANTS
  Address, NoAddress, Deployer, Submissions,   \* as in FineManagement
  MaxFines, MaxUpdates, MaxBlock,
  Clients,       \* who walks the list
  NewStates,     \* the states that others update fines to
  MaxPageSize,   \* the largest page the API serves
  RecentSize,    \* the size of the page of the recent history
  DaysToPay      \* when a fine is overdue, in blocks

ASSUME ListingAssumption ==
  /\ Deployer \in Address /\ NoAddress \notin Address
  /\ MaxFines \in Nat /\ MaxBlock \in Nat
  /\ MaxUpdates \in Nat \ {0}   \* a registration is an entry too
  /\ NewStates \subseteq FineState
  /\ MaxPageSize \in Nat \ {0} /\ RecentSize \in 1 .. MaxPageSize
  /\ DaysToPay \in Nat

VARIABLES
  owner, operators, fineIds, fines, fineStatusHistory, finesByPlate,
  finesByOwner, block,   \* the contract
  pc,        \* client -> the call its request awaits, or how it was answered
  request,   \* client -> page and size asked for, and where the walk began
  count,     \* client -> the number of fines its request read first
  read,      \* client -> the page its request has read
  totalPages,   \* client -> pagination.totalPages of the last response
  shown      \* client -> the numbers of the fines it was shown so far

contractVars == <<owner, operators, fineIds, fines, fineStatusHistory,
                  finesByPlate, finesByOwner, block>>
requestVars == <<pc, request, count, read, totalPages, shown>>
vars == <<contractVars, requestVars>>

Chain == INSTANCE FineManagement

ASSUME SubmissionsAssumption == Submissions \subseteq Chain!Submission

(* How a request ends: with a page, a 400 for its parameters, a 400 for a  *)
(* fine that cannot be shown, a 400 because the node could not be reached, *)
(* or, whatever happened, with the recent history.                         *)
Answers == {"page", "rejected", "failed", "unreachable", "recent"}

Awaiting == {"count", "fines", "total"}

(* first is the page that the walk began with and known, auxiliary, the    *)
(* number of fines registered at that moment.                              *)
Asked(kind, page, size, first, known) ==
  [kind |-> kind, page |-> page, pageSize |-> size, first |-> first,
   known |-> known]

TypeOK ==
  /\ Chain!TypeOK
  /\ pc \in [Clients -> {"idle"} \cup Awaiting \cup Answers]
  /\ request \in [Clients -> [kind: {"list", "recent"},
                              page: 0 .. MaxFines + 1,
                              pageSize: 0 .. MaxPageSize + 1,
                              first: 0 .. MaxFines + 1, known: 0 .. MaxFines]]
  /\ count \in [Clients -> 0 .. MaxFines]
  /\ read \in [Clients -> Seq(Chain!Fine)]
  /\ totalPages \in [Clients -> 0 .. MaxFines]
  /\ shown \in [Clients -> Seq(1 .. MaxFines)]

-----------------------------------------------------------------------------
(* What the response shows of a fine when the clock shows now.             *)

IsOverdue(fine, now) ==
  now > fine.timestamp + DaysToPay /\ fine.currentState = "PENDING"

(* Ten percent more, rounded to the nearest peso like every cost.          *)
costWithLateFee(fine) == Rounded((22 * fine.cost) \div 10)

(* FineMapper.toDetailsDTO succeeds: the raised cost is a Cost again.      *)
Showable(fine, now) == IsOverdue(fine, now) => IsCost(costWithLateFee(fine))

(* Faulty: a last page that is not full is not counted, or always one      *)
(* page more is.                                                           *)
PagesForFull(total, size) == total \div size

PagesForAndOne(total, size) == (total \div size) + 1

PagesFor(total, size) == (total + size - 1) \div size

-----------------------------------------------------------------------------

At(c, phase) == pc[c] = phase

Goto(c, phase) == pc' = [pc EXCEPT ![c] = phase]

(* A failure is an answer of its own, except that the recent history then  *)
(* is an empty one.                                                        *)
GiveUp(c, answer) ==
  Goto(c, IF request[c].kind = "recent" THEN "recent" ELSE answer)

ValidPage(page, size) == page >= 1 /\ size \in 1 .. MaxPageSize

(* A client begins a walk at some page.                                    *)
Ask(c) == \E page \in 0 .. MaxFines, size \in 0 .. MaxPageSize + 1 :
  /\ At(c, "idle")
  /\ request' = [request EXCEPT
                   ![c] = Asked("list", page, size, page, fineIds)]
  /\ Goto(c, IF ValidPage(page, size) THEN "count" ELSE "rejected")
  /\ UNCHANGED <<contractVars, count, read, totalPages, shown>>

AskRecent(c) ==
  /\ At(c, "idle")
  /\ request' = [request EXCEPT
                   ![c] = Asked("recent", 1, RecentSize, 1, fineIds)]
  /\ Goto(c, "count")
  /\ UNCHANGED <<contractVars, count, read, totalPages, shown>>

(* Without any fines the page is not asked for.                            *)
ReadCount(c) ==
  /\ At(c, "count")
  /\ count' = [count EXCEPT ![c] = Chain!getAllFineCount]
  /\ IF Chain!getAllFineCount = 0
     THEN Goto(c, "total") /\ read' = [read EXCEPT ![c] = <<>>]
     ELSE Goto(c, "fines") /\ UNCHANGED read
  /\ UNCHANGED <<contractVars, request, totalPages, shown>>

(* Every fine of the page must pass the domain's checks, or the whole page *)
(* fails.                                                                  *)
ReadPage(c) ==
  LET adjustedPageSize == Chain!Least(request[c].pageSize, count[c])
      page == Chain!getPaginatedFines(request[c].page, adjustedPageSize)
  IN \E now \in Clock(block) :
  /\ At(c, "fines")
  /\ read' = [read EXCEPT ![c] = page]
  /\ IF \A i \in DOMAIN page : Readable(page[i], now)
     THEN Goto(c, "total")
     ELSE GiveUp(c, "failed")
  /\ UNCHANGED <<contractVars, request, count, totalPages, shown>>

ReadTotal(c) == \E now \in Clock(block) :
  /\ At(c, "total")
  /\ IF \A i \in DOMAIN read[c] : Showable(read[c][i], now)
     THEN /\ totalPages' =
               [totalPages EXCEPT
                  ![c] = PagesFor(Chain!getAllFineCount, request[c].pageSize)]
          /\ shown' =
               [shown EXCEPT
                  ![c] = @ \o [i \in DOMAIN read[c] |-> read[c][i].id]]
          /\ Goto(c, IF request[c].kind = "recent" THEN "recent" ELSE "page")
     ELSE GiveUp(c, "failed") /\ UNCHANGED <<totalPages, shown>>
  /\ UNCHANGED <<contractVars, request, count, read>>

(* A call to the node fails.                                               *)
CallFails(c) ==
  /\ pc[c] \in Awaiting
  /\ GiveUp(c, "unreachable")
  /\ UNCHANGED <<contractVars, request, count, read, totalPages, shown>>

LastPage(c) == request[c].page >= totalPages[c]

(* The client goes on while the last response promises another page.       *)
AskNext(c) ==
  /\ At(c, "page") /\ ~LastPage(c)
  /\ request' = [request EXCEPT ![c].page = @ + 1]
  /\ Goto(c, "count")
  /\ UNCHANGED <<contractVars, count, read, totalPages, shown>>

(* A transaction of anyone else, sent through this backend or not.  Rights *)
(* play no part in a listing: one account that holds them sends them all.  *)
(* Of the states a listing only tells PENDING from the others.             *)
Transact ==
  /\ \/ \E s \in Submissions : Chain!registerFine(Deployer, s)
     \/ \E id \in Chain!FineIds, st \in NewStates :
           Chain!updateFineStatus(Deployer, id, st)
     \/ Chain!MineBlock
  /\ UNCHANGED requestVars

Init ==
  /\ Chain!Init
  /\ pc = [c \in Clients |-> "idle"]
  /\ request = [c \in Clients |-> Asked("list", 0, 0, 0, 0)]
  /\ count = [c \in Clients |-> 0]
  /\ read = [c \in Clients |-> <<>>]
  /\ totalPages = [c \in Clients |-> 0]
  /\ shown = [c \in Clients |-> <<>>]

Walk(c) ==
  \/ Ask(c)
  \/ AskRecent(c)
  \/ ReadCount(c)
  \/ ReadPage(c)
  \/ ReadTotal(c)
  \/ CallFails(c)
  \/ AskNext(c)

Next ==
  \/ \E c \in Clients : Walk(c)
  \/ Transact

Spec == Init /\ [][Next]_vars

-----------------------------------------------------------------------------
(* Safety.                                                                 *)

(* A walk from the first page to the last shows every fine that was        *)
(* registered when it began, although fines are registered between its     *)
(* calls and the clipped size shifts a page; and it shows no fine twice.   *)
(* A walk from a later page shows those from there on.                     *)
WalkComplete ==
  \A c \in Clients :
     /\ \A i, j \in DOMAIN shown[c] : i < j => shown[c][i] < shown[c][j]
     /\ At(c, "page") /\ LastPage(c) =>
          LET from == (request[c].first - 1) * request[c].pageSize + 1
          IN (from .. request[c].known) \subseteq ToSet(shown[c])

(* "Obtiene todas las multas con paginación": where every fine is one that *)
(* the domain accepts at any reading of its clock, a page fails only for   *)
(* the node.  The late fee violates it: it takes an overdue fine past the  *)
(* maximum of a cost, and the page it is on is no longer served until the  *)
(* fine is paid.                                                           *)
PagesServed ==
  \A c \in Clients : At(c, "failed") =>
     \E id \in 1 .. fineIds, now \in Clock(block) : ~Readable(fines[id], now)

(* "Devuelve actividad reciente basada en las últimas multas registradas": *)
(* a recent history that shows anything shows the last fines that were     *)
(* registered when it was asked for, as many as fit.  The first page of    *)
(* the list violates it: it holds the oldest fines.                        *)
RecentShowsLatest ==
  \A c \in Clients : At(c, "recent") /\ shown[c] # <<>> =>
    LET known == request[c].known
    IN {id \in 1 .. known : id + RecentSize > known} \subseteq ToSet(shown[c])
=============================================================================
