-------------------------- MODULE FineLookupsProofs --------------------------
(***************************************************************************)
(* More proofs about FineReads, for any number of clients and fines, any   *)
(* lookups and any size of a page: a walk through the list shows every     *)
(* fine that was there when it began, and each one once; a lookup leaves   *)
(* out no fine of its plate and shows nothing that was not so; the latest  *)
(* changes are the latest.  All while others register and update fines     *)
(* between any two of the calls that a response is put together from.      *)
(***************************************************************************)
EXTENDS FineReadsProofs, FiniteSetTheorems, WellFoundedInduction

-----------------------------------------------------------------------------
(* Numbers.                                                                *)

(* A product grows with each factor, and by one size from page to page.    *)
LEMMA Products ==
  ASSUME NEW a \in Nat, NEW b \in Nat, NEW size \in Nat
  PROVE  /\ a * size \in Nat /\ b * size \in Nat
         /\ (a + 1) * size = a * size + size
         /\ a <= b => a * size <= b * size
         /\ a >= 1 => size <= a * size
<1>1. a * size \in Nat /\ b * size \in Nat
  OBVIOUS
<1>2. (a + 1) * size = a * size + size
  OBVIOUS
<1>3. a <= b => a * size <= b * size
  <2> SUFFICES ASSUME a <= b PROVE a * size <= b * size
    OBVIOUS
  <2>1. PICK d \in Nat : b = a + d
    <3>1. b - a \in Nat /\ b = a + (b - a)
      OBVIOUS
    <3> QED
      BY <3>1
  <2>2. b * size = a * size + d * size /\ d * size \in Nat
    BY <2>1
  <2> QED
    BY <1>1, <2>2
<1>4. a >= 1 => size <= a * size
  <2> SUFFICES ASSUME a >= 1 PROVE size <= a * size
    OBVIOUS
  <2>1. PICK d \in Nat : a = d + 1
    <3>1. a - 1 \in Nat /\ a = (a - 1) + 1
      OBVIOUS
    <3> QED
      BY <3>1
  <2>2. a * size = d * size + size /\ d * size \in Nat
    BY <2>1
  <2> QED
    BY <1>1, <2>2
<1> QED
  BY <1>1, <1>2, <1>3, <1>4

(* The number of pages is rounded up: they have room for all fines, and    *)
(* there is no more than one page for one fine.                            *)
LEMMA PagesHold ==
  ASSUME NEW total \in Nat, NEW size \in Nat \ {0}
  PROVE  /\ PagesFor(total, size) \in Nat
         /\ PagesFor(total, size) <= total
         /\ total <= PagesFor(total, size) * size
         /\ PagesFor(total, size) >= 2 => size < total
<1>1. PICK n : n = PagesFor(total, size)
  OBVIOUS
<1>2. PICK m \in Nat : m = total + size - 1
  OBVIOUS
<1>3. n = m \div size
  BY <1>1, <1>2 DEF PagesFor
<1>4. /\ n \in Nat
      /\ n * size <= m /\ m < n * size + size
  <2>1. m \in Int /\ size \in Int /\ size > 0
    OBVIOUS
  <2>2. n \in Int /\ size * n <= m /\ m < size * (n + 1)
    BY <1>3, <2>1
  <2>3. size * n = n * size /\ size * (n + 1) = n * size + size
    BY <2>2
  <2>4. n >= 0
    BY <1>2, <1>3
  <2> QED
    BY <2>2, <2>3, <2>4
<1>5. n * size \in Nat
  BY <1>4
<1>6. total <= n * size
  BY <1>2, <1>4, <1>5
<1>7. n >= 2 => size < total
  <2> SUFFICES ASSUME n >= 2 PROVE size < total
    OBVIOUS
  <2>1. 2 * size <= n * size
    BY <1>4, Products
  <2> QED
    BY <1>2, <1>4, <1>5, <2>1
<1>8. n <= total
  <2> SUFFICES ASSUME n > total PROVE FALSE
    BY <1>4
  <2>1. (total + 1) * size <= n * size
    BY <1>4, Products
  <2>2. (total + 1) * size = total * size + size /\ total * size \in Nat
    BY Products
  <2>3. total >= 1 => total <= total * size
    <3>1. size * total = total * size /\ (size >= 1 => total <= size * total)
      BY Products
    <3> QED
      BY <3>1
  <2> QED
    BY <1>2, <1>4, <1>5, <2>1, <2>2, <2>3
<1> QED
  BY <1>1, <1>4, <1>6, <1>7, <1>8

LEMMA ElementOf ==
  ASSUME NEW S, NEW q \in Seq(S), NEW i \in DOMAIN q
  PROVE  q[i] \in S
<1>1. DOMAIN q = 1 .. Len(q) /\ q \in [1 .. Len(q) -> S]
  OBVIOUS
<1> QED
  BY <1>1, Zenon

(* Any set of numbers has a least one.                                     *)
LEMMA LeastNumber ==
  ASSUME NEW T \in SUBSET Nat, T # {}
  PROVE  \E x \in T : \A y \in T : x <= y
<1>1. PICK R : R = {p \in Nat \X Nat : p[1] < p[2]}
  OBVIOUS
<1>2. IsWellFoundedOn(R, Nat)
  BY NatLessThanWellFounded, <1>1 DEF OpToRel
<1>3. PICK x \in T : \A y \in T : ~ (<<y, x>> \in R)
  BY <1>2, WFMin
<1> SUFFICES ASSUME NEW y \in T PROVE x <= y
  BY <1>3
<1>4. <<y, x>> \in Nat \X Nat /\ <<y, x>>[1] = y /\ <<y, x>>[2] = x
  OBVIOUS
<1>5. ~ (y < x)
  BY <1>1, <1>3, <1>4
<1> QED
  BY <1>5

(* A list of numbers up to some bound, each greater than the one before,   *)
(* is no longer than the bound.                                            *)
LEMMA AscendingIsShort ==
  ASSUME NEW bound \in Nat, NEW list \in Seq(1 .. bound),
         \A i, j \in DOMAIN list : i < j => list[i] < list[j]
  PROVE  Len(list) <= bound
<1>1. /\ Len(list) \in Nat /\ DOMAIN list = 1 .. Len(list)
      /\ \A i \in 1 .. Len(list) : list[i] \in 1 .. bound
  OBVIOUS
<1>2. \A i \in 1 .. Len(list) : list[i] >= i
  <2> SUFFICES ASSUME \E i \in 1 .. Len(list) : ~ (list[i] >= i)
               PROVE  FALSE
    OBVIOUS
  <2>1. PICK T : T = {i \in 1 .. Len(list) : ~ (list[i] >= i)}
    OBVIOUS
  <2>2. T \in SUBSET Nat /\ T # {}
    BY <1>1, <2>1
  <2>3. PICK i \in T : \A j \in T : i <= j
    BY <2>2, LeastNumber
  <2>4. i \in 1 .. Len(list) /\ list[i] < i
    BY <1>1, <2>1
  <2>5. i > 1
    BY <1>1, <2>4
  <2>6. i - 1 \in 1 .. Len(list) /\ ~ (i <= i - 1)
    BY <1>1, <2>4, <2>5
  <2>7. list[i - 1] >= i - 1
    BY <2>1, <2>3, <2>6
  <2>8. list[i - 1] < list[i]
    <3>1. PICK j \in 1 .. Len(list) : j = i - 1
      BY <2>6
    <3>2. j < i /\ j \in DOMAIN list /\ i \in DOMAIN list
      BY <1>1, <2>4, <3>1
    <3> QED
      BY <3>1, <3>2
  <2> QED
    BY <1>1, <2>4, <2>6, <2>7, <2>8
<1>3. CASE Len(list) = 0
  BY <1>3
<1>4. CASE Len(list) > 0
  <2>1. Len(list) \in 1 .. Len(list)
    BY <1>1, <1>4
  <2> QED
    BY <1>1, <1>2, <2>1
<1> QED
  BY <1>1, <1>3, <1>4

-----------------------------------------------------------------------------
(* The contract, as it is read and as it goes on.                          *)

(* Of the contract, all that is used below.                                *)
LEMMA LedgerHas ==
  ASSUME Contract!LedgerInv
  PROVE  /\ fineIds \in Nat /\ fineIds <= MaxFines
         /\ fines \in [1 .. MaxFines -> Chain!Fine]
         /\ fineStatusHistory
              \in [1 .. MaxFines -> Seq(Chain!FineStatusUpdate)]
         /\ finesByPlate \in [Text -> Seq(1 .. MaxFines)]
         /\ block \in Nat
         /\ \A id \in 1 .. MaxFines :
              IF id <= fineIds THEN fines[id].id = id
              ELSE fines[id].id = 0 /\ fineStatusHistory[id] = <<>>
<1>1. /\ fineIds \in 0 .. MaxFines
      /\ fines \in [1 .. MaxFines -> Contract!Fine]
      /\ fineStatusHistory \in [1 .. MaxFines -> Seq(Contract!FineStatusUpdate)]
      /\ finesByPlate \in [Text -> Seq(1 .. MaxFines)]
      /\ block \in 0 .. MaxBlock
  BY DEF Contract!LedgerInv, Contract!TypeOK, Contract!FineIds
<1>2. /\ Contract!Fine = Chain!Fine
      /\ Contract!FineStatusUpdate = Chain!FineStatusUpdate
  BY DEF Contract!Fine, Chain!Fine, Contract!FineStatusUpdate,
         Chain!FineStatusUpdate, Contract!FineState, Chain!FineState
<1>3. \A id \in 1 .. MaxFines :
         IF id <= fineIds THEN fines[id].id = id
         ELSE fines[id].id = 0 /\ fineStatusHistory[id] = <<>>
  <2>1. Contract!ZeroFine.id = 0
    BY DEF Contract!ZeroFine
  <2> QED
    BY <2>1 DEF Contract!LedgerInv, Contract!IdsAreDense, Contract!FineIds
<1> QED
  BY <1>1, <1>2, <1>3, ListingAssumption

(* A page of fines: consecutive ones, up to its size or to the last fine.  *)
IsPage(page, start, size) ==
  /\ page \in Seq(Chain!Fine) /\ start \in Nat
  /\ Len(page) <= size
  /\ Len(page) = size \/ fineIds <= start + Len(page)
  /\ \A i \in 1 .. Len(page) : /\ start + i \in 1 .. fineIds
                               /\ start + i \in 1 .. MaxFines
                               /\ page[i] = fines[start + i]
                               /\ page[i].id = start + i

LEMMA PageOfFines ==
  ASSUME Contract!LedgerInv, NEW p \in Nat \ {0}, NEW size \in Nat \ {0}
  PROVE  IsPage(Chain!getPaginatedFines(p, size), (p - 1) * size, size)
<1> DEFINE start == (p - 1) * size
           page == Chain!getPaginatedFines(p, size)
<1> SUFFICES IsPage(page, start, size)
  OBVIOUS
<1> HIDE DEF page, start
<1>1. start \in Nat
  <2>1. p - 1 \in Nat
    OBVIOUS
  <2> QED
    BY <2>1, Products DEF start
<1>2. Chain!startIndex(p, size) = start
  BY DEF Chain!startIndex, start
<1>3. fineIds \in Nat /\ fines \in [1 .. MaxFines -> Chain!Fine]
  BY LedgerHas
<1>4. CASE start >= fineIds
  <2>1. page = <<>>
    BY <1>2, <1>4 DEF Chain!getPaginatedFines, Chain!Page, page
  <2>2. <<>> \in Seq(Chain!Fine) /\ Len(<<>>) = 0
    OBVIOUS
  <2>3. page \in Seq(Chain!Fine) /\ Len(page) = 0
    BY <2>1, <2>2, Zenon
  <2> QED
    BY <1>1, <1>3, <1>4, <2>3 DEF IsPage
<1>5. CASE ~ (start >= fineIds)
  <2>1. PICK n : n = Chain!Least(start + size, fineIds) - start
    OBVIOUS
  <2>2. /\ n \in Nat /\ n <= size /\ start + n <= fineIds
        /\ n = size \/ fineIds <= start + n
    BY <1>1, <1>3, <1>5, <2>1 DEF Chain!Least
  <2>3. Chain!endIndex(p, size, fineIds) - Chain!startIndex(p, size) = n
    BY <1>2, <2>1 DEF Chain!endIndex
  <2>4. page = [i \in 1 .. n |-> fines[start + i]]
    BY <1>2, <1>5, <2>3 DEF Chain!getPaginatedFines, Chain!Page, page
  <2>5. \A i \in 1 .. n : /\ start + i \in 1 .. fineIds
                          /\ start + i \in 1 .. MaxFines
    <3>1. fineIds <= MaxFines /\ MaxFines \in Nat
      BY LedgerHas, ListingAssumption
    <3> QED
      BY <1>1, <1>3, <2>2, <3>1
  <2>6. page \in Seq(Chain!Fine) /\ Len(page) = n
    <3>1. \A i \in 1 .. n : fines[start + i] \in Chain!Fine
      BY <1>3, <2>5
    <3> QED
      BY <2>2, <2>4, <3>1
  <2>7. \A i \in 1 .. n : page[i] = fines[start + i]
    BY <2>4
  <2>8. \A i \in 1 .. n : fines[start + i].id = start + i
    BY <1>3, <2>5, LedgerHas
  <2> QED
    BY <1>1, <2>2, <2>5, <2>6, <2>7, <2>8 DEF IsPage
<1> QED
  BY <1>4, <1>5

(* What is written of a fine when it is registered is there for good.      *)
LEMMA FinesStay ==
  ASSUME Contract!LedgerInv, [ReadsNext]_readsVars
  PROVE  \A id \in 1 .. fineIds :
           Chain!Metadata(fines'[id]) = Chain!Metadata(fines[id])
<1>1. /\ fineIds \in Nat /\ fineIds <= MaxFines
      /\ fines \in [1 .. MaxFines -> Chain!Fine]
  BY LedgerHas
<1> SUFFICES ASSUME NEW id \in 1 .. fineIds
             PROVE  Chain!Metadata(fines'[id]) = Chain!Metadata(fines[id])
  OBVIOUS
<1>2. id \in 1 .. MaxFines
  BY <1>1, ListingAssumption
<1>3. CASE fines' = fines
  BY <1>3
<1>4. ASSUME NEW s \in Submissions, Contract!registerFine(Deployer, s)
      PROVE  fines'[id] = fines[id]
  <2>1. id # Contract!newFineId
    BY <1>1 DEF Contract!newFineId
  <2> QED
    BY <1>1, <1>2, <1>4, <2>1 DEF Contract!registerFine
<1>5. ASSUME NEW n \in Contract!FineIds, NEW st \in Contract!FineState,
             Contract!updateFineStatus(Deployer, n, st)
      PROVE  Chain!Metadata(fines'[id]) = Chain!Metadata(fines[id])
  <2>1. fines' = [fines EXCEPT ![n].currentState = st]
    BY <1>5 DEF Contract!updateFineStatus
  <2>2. \/ fines'[id] = fines[id]
        \/ fines'[id] = [fines[id] EXCEPT !.currentState = st]
    BY <1>1, <1>2, <2>1
  <2>3. fines[id] \in Chain!Fine
    BY <1>1, <1>2
  <2> QED
    BY <2>2, <2>3 DEF Chain!Metadata, Chain!Fine
<1>6. CASE Transact
  <2>1. Contract!MineBlock => fines' = fines
    BY DEF Contract!MineBlock, Contract!registerVars
  <2> QED
    BY <1>3, <1>4, <1>5, <1>6, <2>1, TransactOfContract
<1>7. CASE ~ Transact
  BY <1>3, <1>7, ClientsOnlyRead DEF contractVars
<1> QED
  BY <1>6, <1>7

LEMMA MetadataTells ==
  ASSUME NEW f \in Chain!Fine, NEW g \in Chain!Fine,
         Chain!Metadata(f) = Chain!Metadata(g)
  PROVE  f.plateNumber = g.plateNumber /\ f.timestamp = g.timestamp
<1>1. \A x \in Chain!Fine : /\ Chain!Metadata(x).plateNumber = x.plateNumber
                            /\ Chain!Metadata(x).timestamp = x.timestamp
  BY DEF Chain!Metadata, Chain!Fine
<1> QED
  BY <1>1

-----------------------------------------------------------------------------
(* The walk through the list.                                              *)

WalkTypes ==
  /\ pc \in [Clients -> {"idle"} \cup Awaiting \cup Answers]
  /\ request \in [Clients -> [kind: {"list", "recent"},
                              page: 0 .. MaxFines + 1,
                              pageSize: 0 .. MaxPageSize + 1,
                              first: 0 .. MaxFines + 1, known: 0 .. MaxFines]]
  /\ count \in [Clients -> 0 .. MaxFines]
  /\ read \in [Clients -> Seq(Chain!Fine)]
  /\ totalPages \in [Clients -> 0 .. MaxFines]
  /\ shown \in [Clients -> Seq(1 .. MaxFines)]

(* The last fine of the page asked for and of the one before, if every     *)
(* page were full, and the last fine before the walk.                      *)
EndOfPage(c)  == request[c].page * request[c].pageSize
EndBefore(c)  == (request[c].page - 1) * request[c].pageSize
StartOfWalk(c) == (request[c].first - 1) * request[c].pageSize

(* A walk owes its client the fines that were there when it began, from    *)
(* its first page on.                                                      *)
Owed(c) == {x \in Nat : StartOfWalk(c) < x /\ x <= request[c].known}

ShownUpTo(c, last) ==
  /\ \A i \in DOMAIN shown[c] : shown[c][i] <= last
  /\ \A x \in Owed(c) : x <= last => \E i \in DOMAIN shown[c] : shown[c][i] = x

AskedWell(c) ==
  pc[c] \in Awaiting \cup {"page"} =>
    /\ ValidPage(request[c].page, request[c].pageSize)
    /\ 1 <= request[c].first /\ request[c].first <= request[c].page
    /\ request[c].known <= fineIds

(* Before a page is shown.  From the second one on there is more than one  *)
(* page of fines, so the size of the page is not clipped.                  *)
PageAwaited(c) ==
  pc[c] \in Awaiting =>
    /\ request[c].page = request[c].first => shown[c] = <<>>
    /\ request[c].page > request[c].first => request[c].pageSize < fineIds
    /\ ShownUpTo(c, EndBefore(c))

(* The number of fines was read after the walk began.                      *)
CountRead(c) ==
  pc[c] = "fines" =>
    /\ 0 < count[c] /\ request[c].known <= count[c] /\ count[c] <= fineIds
    /\ request[c].page > request[c].first => request[c].pageSize <= count[c]

(* A page that was read holds what the walk owes of it.  The first one may *)
(* be clipped and so begin too early, and then the walk owes nothing.      *)
Carries(c, page) ==
  /\ \A i, j \in DOMAIN page : i < j => page[i].id < page[j].id
  /\ \A i \in DOMAIN page :
       /\ page[i].id \in 1 .. MaxFines
       /\ page[i].id <= EndOfPage(c)
       /\ request[c].page > request[c].first => EndBefore(c) < page[i].id
  /\ \A x \in Owed(c) :
       EndBefore(c) < x /\ x <= EndOfPage(c)
         => \E i \in DOMAIN page : page[i].id = x

PageRead(c) == pc[c] = "total" => Carries(c, read[c])

PageShown(c) ==
  pc[c] = "page" =>
    /\ ShownUpTo(c, EndOfPage(c))
    /\ request[c].known <= totalPages[c] * request[c].pageSize
    /\ totalPages[c] >= 2 => request[c].pageSize < fineIds

InOrder(c) ==
  /\ pc[c] = "idle" => shown[c] = <<>>
  /\ \A i, j \in DOMAIN shown[c] : i < j => shown[c][i] < shown[c][j]

WalkSound(c) ==
  /\ AskedWell(c) /\ PageAwaited(c) /\ CountRead(c) /\ PageRead(c)
  /\ PageShown(c) /\ InOrder(c)

WalkInv == WalkTypes /\ \A c \in Clients : WalkSound(c)

LEMMA InitWalkInv == ReadsInit => WalkInv
<1> SUFFICES ASSUME ReadsInit PROVE WalkInv
  OBVIOUS
<1>1. WalkTypes
  <2>1. Asked("list", 0, 0, 0, 0) \in
           [kind: {"list", "recent"}, page: 0 .. MaxFines + 1,
            pageSize: 0 .. MaxPageSize + 1, first: 0 .. MaxFines + 1,
            known: 0 .. MaxFines]
    BY ListingAssumption DEF Asked
  <2>2. 0 \in 0 .. MaxFines
    BY ListingAssumption
  <2> QED
    BY <2>1, <2>2 DEF ReadsInit, Init, WalkTypes
<1>2. ASSUME NEW c \in Clients
      PROVE  WalkSound(c)
  <2>1. pc[c] = "idle" /\ shown[c] = <<>>
    BY DEF ReadsInit, Init
  <2>2. DOMAIN << >> = {}
    OBVIOUS
  <2> QED
    BY <2>1, <2>2 DEF WalkSound, AskedWell, PageAwaited, CountRead, PageRead,
                      PageShown, InOrder, Awaiting
<1> QED
  BY <1>1, <1>2 DEF WalkInv

LEMMA RequestTypes ==
  ASSUME WalkTypes, NEW c \in Clients
  PROVE  /\ request[c].page \in Nat /\ request[c].page <= MaxFines + 1
         /\ request[c].first \in Nat /\ request[c].known \in Nat
         /\ request[c].known <= MaxFines
         /\ request[c].pageSize \in Nat
         /\ count[c] \in Nat /\ totalPages[c] \in Nat
         /\ totalPages[c] <= MaxFines
<1>1. /\ request[c].page \in 0 .. MaxFines + 1
      /\ request[c].pageSize \in 0 .. MaxPageSize + 1
      /\ request[c].first \in 0 .. MaxFines + 1
      /\ request[c].known \in 0 .. MaxFines
  BY DEF WalkTypes
<1>2. count[c] \in 0 .. MaxFines /\ totalPages[c] \in 0 .. MaxFines
  BY DEF WalkTypes
<1>3. MaxFines \in Nat /\ MaxPageSize \in Nat
  BY ListingAssumption
<1> QED
  BY <1>1, <1>2, <1>3

(* Fines that are registered do not disturb a walk that does not move.     *)
LEMMA WalkKept ==
  ASSUME NEW d \in Clients, WalkTypes, WalkSound(d),
         fineIds \in Nat, fineIds' \in Nat, fineIds <= fineIds',
         pc'[d] = pc[d], request'[d] = request[d], read'[d] = read[d],
         totalPages'[d] = totalPages[d], shown'[d] = shown[d],
         pc[d] = "fines" => count'[d] = count[d]
  PROVE  WalkSound(d)'
<1>1. /\ request[d].known \in Nat /\ count[d] \in Nat
      /\ request[d].pageSize \in Nat
  BY RequestTypes
<1>2. /\ EndOfPage(d)' = EndOfPage(d) /\ EndBefore(d)' = EndBefore(d)
      /\ StartOfWalk(d)' = StartOfWalk(d) /\ Owed(d)' = Owed(d)
  BY DEF EndOfPage, EndBefore, StartOfWalk, Owed
<1>3. AskedWell(d)' /\ CountRead(d)'
  BY <1>1 DEF WalkSound, AskedWell, CountRead
<1>4. PageAwaited(d)'
  BY <1>1, <1>2 DEF WalkSound, PageAwaited, ShownUpTo
<1>5. PageRead(d)'
  BY <1>2 DEF WalkSound, PageRead, Carries
<1>6. PageShown(d)'
  BY <1>1, <1>2 DEF WalkSound, PageShown, ShownUpTo
<1>7. InOrder(d)'
  BY DEF WalkSound, InOrder
<1> QED
  BY <1>3, <1>4, <1>5, <1>6, <1>7 DEF WalkSound

Stays(d) ==
  /\ pc'[d] = pc[d] /\ request'[d] = request[d] /\ count'[d] = count[d]
  /\ read'[d] = read[d] /\ totalPages'[d] = totalPages[d]
  /\ shown'[d] = shown[d]

(* What each step of a walk has to keep.                                   *)
LEMMA OneWalk ==
  ASSUME WalkInv, Contract!LedgerInv, NEW c \in Clients, UNCHANGED fineIds,
         WalkTypes', WalkSound(c)', \A d \in Clients \ {c} : Stays(d)
  PROVE  WalkInv'
<1>1. ASSUME NEW d \in Clients, d # c
      PROVE  WalkSound(d)'
  <2>1. fineIds \in Nat /\ fineIds' \in Nat /\ fineIds <= fineIds'
    BY LedgerHas
  <2>2. WalkTypes /\ WalkSound(d)
    BY DEF WalkInv
  <2> QED
    BY <1>1, <2>1, <2>2, WalkKept DEF Stays
<1> QED
  BY <1>1 DEF WalkInv

LEMMA Went ==
  ASSUME WalkTypes, NEW c \in Clients,
         NEW phase \in {"idle"} \cup Awaiting \cup Answers, Goto(c, phase)
  PROVE  /\ pc' \in [Clients -> {"idle"} \cup Awaiting \cup Answers]
         /\ pc'[c] = phase
         /\ \A d \in Clients \ {c} : pc'[d] = pc[d]
BY DEF WalkTypes, Goto

(* A walk begins: nothing was shown and nothing is owed up to its start.   *)
LEMMA AskWalks ==
  ASSUME WalkInv, Contract!LedgerInv, NEW c \in Clients, UNCHANGED fineIds,
         Ask(c) \/ AskRecent(c)
  PROVE  WalkInv'
<1>1. PICK kind \in {"list", "recent"}, page \in 0 .. MaxFines + 1,
           size \in 0 .. MaxPageSize + 1 :
        /\ request' = [request EXCEPT
                         ![c] = Asked(kind, page, size, page, fineIds)]
        /\ \/ ValidPage(page, size) /\ Goto(c, "count")
           \/ Goto(c, "rejected")
  <2>1. CASE Ask(c)
    <3>1. PICK page \in 0 .. MaxFines, size \in 0 .. MaxPageSize + 1 :
            /\ request' = [request EXCEPT
                             ![c] = Asked("list", page, size, page, fineIds)]
            /\ Goto(c, IF ValidPage(page, size) THEN "count" ELSE "rejected")
      BY <2>1 DEF Ask
    <3>2. page \in 0 .. MaxFines + 1
      BY ListingAssumption
    <3>3. \/ ValidPage(page, size) /\ Goto(c, "count")
          \/ Goto(c, "rejected")
      BY <3>1
    <3> QED
      BY <3>1, <3>2, <3>3
  <2>2. CASE AskRecent(c)
    <3>1. ValidPage(1, RecentSize) /\ 1 \in 0 .. MaxFines + 1
      BY ListingAssumption DEF ValidPage
    <3>2. RecentSize \in 0 .. MaxPageSize + 1
      BY ListingAssumption
    <3> QED
      BY <2>2, <3>1, <3>2 DEF AskRecent
  <2> QED
    BY <2>1, <2>2
<1>2. pc[c] = "idle" /\ UNCHANGED <<count, read, totalPages, shown>>
  BY DEF Ask, AskRecent, At
<1>3. WalkTypes /\ WalkSound(c)
  BY DEF WalkInv
<1>4. shown[c] = <<>>
  BY <1>2, <1>3 DEF WalkSound, InOrder
<1>5. PICK q : q = Asked(kind, page, size, page, fineIds)
  OBVIOUS
<1>6. /\ q.page = page /\ q.pageSize = size /\ q.first = page
      /\ q.known = fineIds
      /\ q \in [kind: {"list", "recent"}, page: 0 .. MaxFines + 1,
                pageSize: 0 .. MaxPageSize + 1, first: 0 .. MaxFines + 1,
                known: 0 .. MaxFines]
  <2>1. fineIds \in 0 .. MaxFines
    BY LedgerHas, ListingAssumption
  <2> QED
    BY <1>5, <2>1 DEF Asked
<1>7. request' = [request EXCEPT ![c] = q]
  BY <1>1, <1>5
<1>8. /\ request'[c] = q /\ \A d \in Clients \ {c} : request'[d] = request[d]
      /\ request' \in [Clients -> [kind: {"list", "recent"},
                              page: 0 .. MaxFines + 1,
                              pageSize: 0 .. MaxPageSize + 1,
                              first: 0 .. MaxFines + 1, known: 0 .. MaxFines]]
  BY <1>3, <1>6, <1>7 DEF WalkTypes
<1>9. /\ pc' \in [Clients -> {"idle"} \cup Awaiting \cup Answers]
      /\ \/ ValidPage(page, size) /\ pc'[c] = "count"
         \/ pc'[c] = "rejected"
      /\ \A d \in Clients \ {c} : pc'[d] = pc[d]
  BY <1>1, <1>3, Went DEF Awaiting, Answers
<1>10. WalkTypes'
  BY <1>2, <1>3, <1>8, <1>9 DEF WalkTypes
<1>11. WalkSound(c)'
  <2>1. DOMAIN shown'[c] = {}
    <3>1. DOMAIN << >> = {}
      OBVIOUS
    <3> QED
      BY <1>2, <1>4, <3>1
  <2>2. InOrder(c)'
    BY <1>9, <2>1 DEF InOrder
  <2>3. CASE pc'[c] = "rejected"
    BY <2>2, <2>3 DEF WalkSound, AskedWell, PageAwaited, CountRead, PageRead,
                      PageShown, Awaiting
  <2>4. CASE pc'[c] = "count" /\ ValidPage(page, size)
    <3>1. AskedWell(c)'
      <4>1. 1 <= page /\ page <= page /\ fineIds <= fineIds
        BY <2>4, LedgerHas DEF ValidPage
      <4> QED
        BY <1>6, <1>8, <2>4, <4>1 DEF AskedWell
    <3>2. PageAwaited(c)'
      <4>1. ~ (page > page)
        OBVIOUS
      <4>2. EndBefore(c)' = StartOfWalk(c)'
        BY <1>6, <1>8 DEF EndBefore, StartOfWalk
      <4>3. \A x \in Owed(c)' : ~ (x <= EndBefore(c)')
        <5>1. page - 1 \in Nat /\ size \in Nat
          BY <2>4, ListingAssumption DEF ValidPage
        <5>2. StartOfWalk(c)' = (page - 1) * size
          BY <1>6, <1>8 DEF StartOfWalk
        <5>3. StartOfWalk(c)' \in Nat
          BY <5>1, <5>2, Products
        <5> QED
          BY <4>2, <5>3 DEF Owed
      <4> QED
        BY <1>2, <1>4, <1>6, <1>8, <2>1, <4>1, <4>3 DEF PageAwaited, ShownUpTo
    <3>3. CountRead(c)' /\ PageRead(c)' /\ PageShown(c)'
      BY <2>4 DEF CountRead, PageRead, PageShown
    <3> QED
      BY <2>2, <3>1, <3>2, <3>3 DEF WalkSound
  <2> QED
    BY <1>9, <2>3, <2>4
<1>12. \A d \in Clients \ {c} : Stays(d)
  BY <1>2, <1>8, <1>9 DEF Stays
<1> QED
  BY <1>10, <1>11, <1>12, OneWalk

(* A request of a walk that is under way, and what it owes.                *)
LEMMA UnderWay ==
  ASSUME WalkInv, Contract!LedgerInv, NEW c \in Clients,
         pc[c] \in Awaiting \cup {"page"}
  PROVE  /\ request[c].page \in Nat \ {0} /\ request[c].page <= MaxFines + 1
         /\ request[c].pageSize \in Nat \ {0}
         /\ request[c].first \in Nat \ {0}
         /\ request[c].first <= request[c].page
         /\ request[c].known \in Nat /\ request[c].known <= fineIds
         /\ StartOfWalk(c) \in Nat /\ EndBefore(c) \in Nat
         /\ EndOfPage(c) = EndBefore(c) + request[c].pageSize
         /\ request[c].page = request[c].first => EndBefore(c) = StartOfWalk(c)
         /\ request[c].first >= 2 => request[c].pageSize <= StartOfWalk(c)
<1>1. /\ request[c].page \in Nat /\ request[c].page <= MaxFines + 1
      /\ request[c].first \in Nat /\ request[c].known \in Nat
      /\ request[c].pageSize \in Nat
  BY RequestTypes DEF WalkInv
<1>2. /\ request[c].page >= 1 /\ request[c].pageSize >= 1
      /\ 1 <= request[c].first /\ request[c].first <= request[c].page
      /\ request[c].known <= fineIds
  <2>1. request[c].pageSize \in 1 .. MaxPageSize
    BY DEF WalkInv, WalkSound, AskedWell, ValidPage
  <2>2. request[c].pageSize >= 1
    BY <2>1, ListingAssumption
  <2> QED
    BY <2>2 DEF WalkInv, WalkSound, AskedWell, ValidPage
<1>3. PICK a, b, size \in Nat : /\ a = request[c].page - 1
                                /\ b = request[c].first - 1
                                /\ size = request[c].pageSize
  <2>1. request[c].page - 1 \in Nat /\ request[c].first - 1 \in Nat
    BY <1>1, <1>2
  <2> QED
    BY <1>1, <2>1
<1>4. request[c].page = a + 1 /\ request[c].first = b + 1
  BY <1>1, <1>3
<1>5. /\ EndBefore(c) = a * size /\ EndOfPage(c) = (a + 1) * size
      /\ StartOfWalk(c) = b * size
  BY <1>3, <1>4 DEF EndBefore, EndOfPage, StartOfWalk
<1>6. /\ a * size \in Nat /\ b * size \in Nat
      /\ (a + 1) * size = a * size + size
      /\ b >= 1 => size <= b * size
  BY Products
<1>7. request[c].first >= 2 => b >= 1
  BY <1>4
<1>8. request[c].page = request[c].first => a = b
  BY <1>3
<1> QED
  BY <1>1, <1>2, <1>3, <1>5, <1>6, <1>7, <1>8

LEMMA CountWalks ==
  ASSUME WalkInv, Contract!LedgerInv, NEW c \in Clients, UNCHANGED fineIds,
         ReadCount(c)
  PROVE  WalkInv'
<1>1. WalkTypes /\ WalkSound(c) /\ pc[c] = "count"
  BY DEF WalkInv, ReadCount, At
<1>2. UNCHANGED <<request, totalPages, shown>>
  BY DEF ReadCount
<1>3. fineIds \in 0 .. MaxFines /\ fineIds \in Nat
  BY LedgerHas, ListingAssumption
<1>4. /\ count' \in [Clients -> 0 .. MaxFines] /\ count'[c] = fineIds
      /\ \A d \in Clients \ {c} : count'[d] = count[d]
  <2>1. count' = [count EXCEPT ![c] = fineIds]
    BY DEF ReadCount, Chain!getAllFineCount
  <2> QED
    BY <1>1, <1>3, <2>1 DEF WalkTypes
<1>5. /\ \/ fineIds = 0 /\ Goto(c, "total") /\ read'[c] = <<>>
         \/ fineIds # 0 /\ Goto(c, "fines")
      /\ read' \in [Clients -> Seq(Chain!Fine)]
      /\ \A d \in Clients \ {c} : read'[d] = read[d]
  <2>1. << >> \in Seq(Chain!Fine)
    OBVIOUS
  <2>2. CASE fineIds = 0
    <3>1. read' = [read EXCEPT ![c] = <<>>] /\ Goto(c, "total")
      BY <2>2 DEF ReadCount, Chain!getAllFineCount
    <3> QED
      BY <1>1, <2>1, <2>2, <3>1 DEF WalkTypes
  <2>3. CASE fineIds # 0
    <3>1. read' = read /\ Goto(c, "fines")
      BY <2>3 DEF ReadCount, Chain!getAllFineCount
    <3> QED
      BY <1>1, <2>3, <3>1 DEF WalkTypes
  <2> QED
    BY <2>2, <2>3
<1>6. /\ pc' \in [Clients -> {"idle"} \cup Awaiting \cup Answers]
      /\ \/ fineIds = 0 /\ pc'[c] = "total" /\ read'[c] = <<>>
         \/ fineIds # 0 /\ pc'[c] = "fines"
      /\ \A d \in Clients \ {c} : pc'[d] = pc[d]
  BY <1>1, <1>5, Went DEF Awaiting
<1>7. WalkTypes'
  BY <1>1, <1>2, <1>4, <1>5, <1>6 DEF WalkTypes
<1>8. WalkSound(c)'
  <2>1. pc[c] \in Awaiting /\ pc'[c] \in Awaiting /\ pc'[c] # "idle"
    BY <1>1, <1>6 DEF Awaiting
  <2>2. /\ EndBefore(c)' = EndBefore(c) /\ EndOfPage(c)' = EndOfPage(c)
        /\ Owed(c)' = Owed(c)
    BY <1>2 DEF EndBefore, EndOfPage, Owed, StartOfWalk
  <2>3. AskedWell(c)' /\ PageAwaited(c)' /\ InOrder(c)'
    BY <1>1, <1>2, <2>1, <2>2 DEF WalkSound, AskedWell, PageAwaited, InOrder,
                                  ShownUpTo
  <2>4. PageShown(c)'
    BY <1>6 DEF PageShown
  <2>5. /\ request[c].known \in Nat /\ request[c].known <= fineIds
        /\ request[c].pageSize \in Nat
        /\ request[c].page > request[c].first => request[c].pageSize < fineIds
    BY <1>1, <2>1, UnderWay DEF WalkSound, PageAwaited
  <2>6. CountRead(c)'
    BY <1>2, <1>3, <1>4, <1>6, <2>5 DEF CountRead
  <2>7. PageRead(c)'
    <3> SUFFICES ASSUME pc'[c] = "total" PROVE PageRead(c)'
      BY DEF PageRead
    <3>1. DOMAIN read'[c] = {} /\ fineIds = 0
      <4>1. DOMAIN << >> = {}
        OBVIOUS
      <4> QED
        BY <1>6, <4>1
    <3>2. Owed(c) = {}
      <4>1. StartOfWalk(c) \in Nat
        BY <2>1, UnderWay
      <4> QED
        BY <2>5, <3>1, <4>1 DEF Owed
    <3> QED
      BY <1>6, <2>2, <3>1, <3>2 DEF PageRead, Carries
  <2> QED
    BY <2>3, <2>4, <2>6, <2>7 DEF WalkSound
<1>9. \A d \in Clients \ {c} : Stays(d)
  BY <1>2, <1>4, <1>5, <1>6 DEF Stays
<1> QED
  BY <1>7, <1>8, <1>9, OneWalk

(* A request of a walk ends without a page.                                *)
LEMMA WalkEnds ==
  ASSUME WalkInv, Contract!LedgerInv, NEW c \in Clients, UNCHANGED fineIds,
         pc[c] \in Awaiting,
         NEW answer \in Answers \ {"page"}, Goto(c, answer),
         UNCHANGED <<request, count, totalPages>>,
         read' \in [Clients -> Seq(Chain!Fine)],
         shown' \in [Clients -> Seq(1 .. MaxFines)],
         \A i, j \in DOMAIN shown'[c] : i < j => shown'[c][i] < shown'[c][j],
         \A d \in Clients \ {c} : read'[d] = read[d] /\ shown'[d] = shown[d]
  PROVE  WalkInv'
<1>1. WalkTypes
  BY DEF WalkInv
<1>2. /\ pc' \in [Clients -> {"idle"} \cup Awaiting \cup Answers]
      /\ pc'[c] = answer
      /\ \A d \in Clients \ {c} : pc'[d] = pc[d]
  BY <1>1, Went
<1>3. WalkTypes'
  BY <1>1, <1>2 DEF WalkTypes
<1>4. WalkSound(c)'
  BY <1>2 DEF WalkSound, AskedWell, PageAwaited, CountRead, PageRead,
              PageShown, InOrder, Awaiting, Answers
<1>5. \A d \in Clients \ {c} : Stays(d)
  BY <1>2 DEF Stays
<1> QED
  BY <1>3, <1>4, <1>5, OneWalk

LEMMA GaveUp ==
  ASSUME NEW c \in Clients, NEW answer \in Answers \ {"page"},
         GiveUp(c, answer)
  PROVE  \E ending \in Answers \ {"page"} : Goto(c, ending)
<1>1. "recent" \in Answers \ {"page"}
  BY DEF Answers
<1>2. CASE request[c].kind = "recent"
  BY <1>1, <1>2 DEF GiveUp
<1>3. CASE request[c].kind # "recent"
  BY <1>3 DEF GiveUp
<1> QED
  BY <1>2, <1>3

LEMMA FailsWalks ==
  ASSUME WalkInv, Contract!LedgerInv, NEW c \in Clients, UNCHANGED fineIds,
         CallFails(c)
  PROVE  WalkInv'
<1>1. /\ pc[c] \in Awaiting /\ GiveUp(c, "unreachable")
      /\ UNCHANGED <<request, count, read, totalPages, shown>>
  BY DEF CallFails
<1>2. "unreachable" \in Answers \ {"page"}
  BY DEF Answers
<1>3. PICK ending \in Answers \ {"page"} : Goto(c, ending)
  BY <1>1, <1>2, GaveUp
<1>4. /\ read' \in [Clients -> Seq(Chain!Fine)]
      /\ shown' \in [Clients -> Seq(1 .. MaxFines)]
      /\ \A i, j \in DOMAIN shown'[c] : i < j => shown'[c][i] < shown'[c][j]
      /\ \A d \in Clients \ {c} : read'[d] = read[d] /\ shown'[d] = shown[d]
  BY <1>1 DEF WalkInv, WalkTypes, WalkSound, InOrder
<1> QED
  BY <1>1, <1>3, <1>4, WalkEnds

(* What a page owes is on the page, whatever the size was clipped to.      *)
LEMMA PageOwed ==
  ASSUME WalkInv, Contract!LedgerInv, NEW c \in Clients,
         pc[c] = "fines",
         NEW page,
         page = Chain!getPaginatedFines(request[c].page,
                  Chain!Least(request[c].pageSize, count[c]))
  PROVE  page \in Seq(Chain!Fine) /\ Carries(c, page)
<1>1. PICK p, size, n, known, first :
        /\ p = request[c].page /\ size = request[c].pageSize
        /\ n = count[c] /\ known = request[c].known
        /\ first = request[c].first
  OBVIOUS
<1>2. /\ p \in Nat \ {0} /\ size \in Nat \ {0} /\ first \in Nat \ {0}
      /\ first <= p /\ known \in Nat /\ known <= fineIds
      /\ StartOfWalk(c) \in Nat /\ EndBefore(c) \in Nat
      /\ EndOfPage(c) = EndBefore(c) + size
      /\ p = first => EndBefore(c) = StartOfWalk(c)
      /\ first >= 2 => size <= StartOfWalk(c)
  BY <1>1, UnderWay DEF Awaiting
<1>3. /\ n \in Nat /\ 0 < n /\ known <= n /\ n <= fineIds
      /\ p > first => size <= n
  BY <1>1, RequestTypes DEF WalkInv, WalkSound, CountRead
<1>4. PICK clipped : clipped = Chain!Least(size, n)
  OBVIOUS
<1>5. /\ clipped \in Nat \ {0} /\ clipped <= size /\ clipped <= n
      /\ clipped = size \/ (clipped = n /\ n < size)
  BY <1>2, <1>3, <1>4 DEF Chain!Least
<1>6. PICK a \in Nat : p = a + 1 /\ a = p - 1
  <2>1. p - 1 \in Nat /\ p = (p - 1) + 1
    BY <1>2
  <2> QED
    BY <2>1
<1>7. PICK start : start = a * clipped
  OBVIOUS
<1>8. PICK len : len = Len(page)
  OBVIOUS
<1>9. /\ page \in Seq(Chain!Fine) /\ start \in Nat
      /\ len <= clipped
      /\ len = clipped \/ fineIds <= start + len
      /\ \A i \in 1 .. len : /\ start + i \in 1 .. fineIds
                             /\ start + i \in 1 .. MaxFines
                             /\ page[i] = fines[start + i]
                             /\ page[i].id = start + i
  <2>1. start = (p - 1) * clipped
    BY <1>6, <1>7
  <2>2. page = Chain!getPaginatedFines(p, clipped)
    BY <1>1, <1>4
  <2>3. IsPage(page, start, clipped)
    BY <1>2, <1>5, <2>1, <2>2, PageOfFines
  <2> QED
    BY <1>8, <2>3 DEF IsPage
<1>10. DOMAIN page = 1 .. len /\ len \in Nat
  BY <1>8, <1>9
<1>11. EndBefore(c) = a * size /\ start <= EndBefore(c)
  <2>1. EndBefore(c) = a * size
    BY <1>1, <1>6 DEF EndBefore
  <2>2. clipped * a <= size * a
    BY <1>2, <1>5, Products
  <2>3. clipped * a = a * clipped /\ size * a = a * size
    BY <1>2, <1>5
  <2> QED
    BY <1>7, <2>1, <2>2, <2>3
<1>12. \A i, j \in DOMAIN page : i < j => page[i].id < page[j].id
  <2> SUFFICES ASSUME NEW i \in 1 .. len, NEW j \in 1 .. len, i < j
               PROVE  page[i].id < page[j].id
    BY <1>10
  <2>1. page[i].id = start + i /\ page[j].id = start + j
    BY <1>9
  <2> QED
    BY <1>9, <1>10, <2>1
<1>13. ASSUME NEW i \in DOMAIN page
       PROVE  /\ page[i].id \in 1 .. MaxFines
              /\ page[i].id <= EndOfPage(c)
              /\ p > first => EndBefore(c) < page[i].id
  <2>1. i \in 1 .. len /\ page[i].id = start + i /\ start + i \in 1 .. MaxFines
    BY <1>9, <1>10
  <2>2. start + i <= EndBefore(c) + size
    BY <1>2, <1>5, <1>9, <1>10, <1>11, <2>1
  <2>3. p > first => EndBefore(c) < start + i
    <3>1. p > first => clipped = size
      BY <1>2, <1>3, <1>5
    <3>2. clipped = size => start = EndBefore(c)
      BY <1>7, <1>11
    <3> QED
      BY <1>2, <1>10, <2>1, <3>1, <3>2
  <2> QED
    BY <1>2, <2>1, <2>2, <2>3
<1>14. ASSUME NEW x \in Owed(c), EndBefore(c) < x, x <= EndOfPage(c)
       PROVE  \E i \in DOMAIN page : page[i].id = x
  <2>1. x \in Nat /\ StartOfWalk(c) < x /\ x <= known
    BY <1>1 DEF Owed
  <2>2. start < x /\ x <= start + len
    <3>1. CASE clipped = size
      <4>1. start = EndBefore(c)
        BY <1>7, <1>11, <3>1
      <4> QED
        BY <1>2, <1>3, <1>9, <1>10, <1>14, <2>1, <3>1, <4>1, LedgerHas
    <3>2. CASE clipped = n /\ n < size
      <4>1. ~ (first >= 2)
        BY <1>2, <1>3, <2>1, <3>2
      <4>2. ~ (p > first)
        BY <1>2, <1>3, <3>2
      <4>3. a = 0
        BY <1>2, <1>6, <4>1, <4>2
      <4>4. start = 0
        BY <1>5, <1>7, <4>3
      <4> QED
        BY <1>2, <1>3, <1>9, <1>10, <2>1, <3>2, <4>4, LedgerHas
    <3> QED
      BY <1>5, <3>1, <3>2
  <2>3. PICK i \in 1 .. len : x = start + i
    <3>1. x - start \in 1 .. len /\ x = start + (x - start)
      BY <1>9, <1>10, <2>1, <2>2
    <3> QED
      BY <3>1
  <2> QED
    BY <1>9, <1>10, <2>3
<1> QED
  BY <1>1, <1>9, <1>12, <1>13, <1>14 DEF Carries

LEMMA PageWalks ==
  ASSUME WalkInv, Contract!LedgerInv, NEW c \in Clients, UNCHANGED fineIds,
         ReadPage(c)
  PROVE  WalkInv'
<1>1. PICK page : page = Chain!getPaginatedFines(request[c].page,
                           Chain!Least(request[c].pageSize, count[c]))
  OBVIOUS
<1>2. /\ pc[c] = "fines" /\ read' = [read EXCEPT ![c] = page]
      /\ Goto(c, "total") \/ GiveUp(c, "failed")
      /\ UNCHANGED <<request, count, totalPages, shown>>
  BY <1>1 DEF ReadPage, At
<1>3. page \in Seq(Chain!Fine) /\ Carries(c, page)
  BY <1>1, <1>2, PageOwed
<1>4. WalkTypes /\ WalkSound(c) /\ pc[c] \in Awaiting
  BY <1>2 DEF WalkInv, Awaiting
<1>5. /\ read' \in [Clients -> Seq(Chain!Fine)] /\ read'[c] = page
      /\ \A d \in Clients \ {c} : read'[d] = read[d]
  BY <1>2, <1>3, <1>4 DEF WalkTypes
<1>6. CASE GiveUp(c, "failed")
  <2>1. "failed" \in Answers \ {"page"}
    BY DEF Answers
  <2>2. PICK ending \in Answers \ {"page"} : Goto(c, ending)
    BY <1>6, <2>1, GaveUp
  <2>3. /\ shown' \in [Clients -> Seq(1 .. MaxFines)]
        /\ \A i, j \in DOMAIN shown'[c] : i < j => shown'[c][i] < shown'[c][j]
    BY <1>2, <1>4 DEF WalkTypes, WalkSound, InOrder
  <2> QED
    BY <1>2, <1>4, <1>5, <2>2, <2>3, WalkEnds
<1>7. CASE Goto(c, "total")
  <2>1. /\ pc' \in [Clients -> {"idle"} \cup Awaiting \cup Answers]
        /\ pc'[c] = "total"
        /\ \A d \in Clients \ {c} : pc'[d] = pc[d]
    BY <1>4, <1>7, Went DEF Awaiting
  <2>2. WalkTypes'
    BY <1>2, <1>4, <1>5, <2>1 DEF WalkTypes
  <2>3. /\ EndBefore(c)' = EndBefore(c) /\ EndOfPage(c)' = EndOfPage(c)
        /\ Owed(c)' = Owed(c)
    BY <1>2 DEF EndBefore, EndOfPage, Owed, StartOfWalk
  <2>4. AskedWell(c)' /\ PageAwaited(c)' /\ InOrder(c)'
    BY <1>2, <1>4, <2>1, <2>3 DEF WalkSound, AskedWell, PageAwaited, InOrder,
                                  ShownUpTo, Awaiting
  <2>5. PageRead(c)'
    BY <1>2, <1>3, <1>5, <2>3 DEF PageRead, Carries
  <2>6. CountRead(c)' /\ PageShown(c)'
    BY <2>1 DEF CountRead, PageShown
  <2>7. WalkSound(c)'
    BY <2>4, <2>5, <2>6 DEF WalkSound
  <2>8. \A d \in Clients \ {c} : Stays(d)
    BY <1>2, <1>5, <2>1 DEF Stays
  <2> QED
    BY <2>2, <2>7, <2>8, OneWalk
<1> QED
  BY <1>2, <1>6, <1>7

(* A page is added to what was shown: it begins where that ended.          *)
LEMMA TotalWalks ==
  ASSUME WalkInv, Contract!LedgerInv, NEW c \in Clients, UNCHANGED fineIds,
         ReadTotal(c)
  PROVE  WalkInv'
<1>1. /\ pc[c] = "total" /\ pc[c] \in Awaiting
      /\ UNCHANGED <<request, count, read>>
  BY DEF ReadTotal, At, Awaiting
<1>2. WalkTypes /\ WalkSound(c)
  BY DEF WalkInv
<1>3. PICK old, more : /\ old = shown[c]
                       /\ more = [i \in DOMAIN read[c] |-> read[c][i].id]
  OBVIOUS
<1>4. PICK all : all = old \o more
  OBVIOUS
<1>5. /\ read[c] \in Seq(Chain!Fine)
      /\ \A i \in DOMAIN read[c] : read[c][i].id \in 1 .. MaxFines
      /\ \A i, j \in DOMAIN read[c] : i < j => read[c][i].id < read[c][j].id
  BY <1>1, <1>2 DEF WalkTypes, WalkSound, PageRead, Carries
<1>6. /\ more \in Seq(1 .. MaxFines) /\ DOMAIN more = DOMAIN read[c]
      /\ \A i \in DOMAIN read[c] : more[i] = read[c][i].id
  <2>1. DOMAIN read[c] = 1 .. Len(read[c]) /\ Len(read[c]) \in Nat
    BY <1>5
  <2> QED
    BY <1>3, <1>5, <2>1
<1>7. old \in Seq(1 .. MaxFines)
  BY <1>2, <1>3 DEF WalkTypes
<1>8. /\ \A i \in DOMAIN old : old[i] \in Nat
      /\ \A i \in DOMAIN more : more[i] \in Nat
  <2>1. ASSUME NEW q \in Seq(1 .. MaxFines), NEW k \in DOMAIN q
        PROVE  q[k] \in Nat
    <3>1. q[k] \in 1 .. MaxFines
      BY ElementOf
    <3> QED
      BY <3>1, ListingAssumption
  <2> QED
    BY <1>6, <1>7, <2>1
<1>9. /\ all \in Seq(1 .. MaxFines)
      /\ Len(old) \in Nat /\ Len(more) \in Nat
      /\ Len(all) = Len(old) + Len(more)
      /\ DOMAIN old = 1 .. Len(old) /\ DOMAIN more = 1 .. Len(more)
      /\ DOMAIN all = 1 .. Len(old) + Len(more)
      /\ \A i \in DOMAIN old : all[i] = old[i]
      /\ \A i \in DOMAIN more : all[Len(old) + i] = more[i]
  BY <1>4, <1>6, <1>7
<1>10. \A i \in DOMAIN all : \/ i \in DOMAIN old
                             \/ \E j \in DOMAIN more : i = Len(old) + j
  <2> SUFFICES ASSUME NEW i \in DOMAIN all, ~ (i \in DOMAIN old)
               PROVE  \E j \in DOMAIN more : i = Len(old) + j
    OBVIOUS
  <2>1. i - Len(old) \in DOMAIN more /\ i = Len(old) + (i - Len(old))
    BY <1>9
  <2> QED
    BY <2>1
<1>11. PICK p, size, first : /\ p = request[c].page
                             /\ size = request[c].pageSize
                             /\ first = request[c].first
  OBVIOUS
<1>12. /\ p \in Nat \ {0} /\ first \in Nat \ {0} /\ first <= p
       /\ size \in Nat \ {0} /\ request[c].known \in Nat
       /\ request[c].known <= fineIds /\ fineIds \in Nat
       /\ EndBefore(c) \in Nat /\ EndOfPage(c) = EndBefore(c) + size
  BY <1>1, <1>11, UnderWay, LedgerHas
<1>13. /\ p = first => old = <<>>
       /\ \A i \in DOMAIN old : old[i] <= EndBefore(c)
       /\ \A x \in Owed(c) :
            x <= EndBefore(c) => \E i \in DOMAIN old : old[i] = x
       /\ \A i, j \in DOMAIN old : i < j => old[i] < old[j]
  BY <1>1, <1>2, <1>3, <1>11 DEF WalkSound, PageAwaited, ShownUpTo, InOrder
<1>14. /\ \A i \in DOMAIN more : /\ more[i] <= EndOfPage(c)
                                 /\ p > first => EndBefore(c) < more[i]
       /\ \A x \in Owed(c) : EndBefore(c) < x /\ x <= EndOfPage(c)
                               => \E i \in DOMAIN more : more[i] = x
  BY <1>1, <1>2, <1>6, <1>11 DEF WalkSound, PageRead, Carries
<1>15. ASSUME NEW i \in DOMAIN all, NEW j \in DOMAIN all, i < j
       PROVE  all[i] < all[j]
  <2>1. CASE i \in DOMAIN old /\ j \in DOMAIN old
    BY <1>9, <1>13, <1>15, <2>1
  <2>2. CASE i \in DOMAIN old /\ ~ (j \in DOMAIN old)
    <3>1. PICK k \in DOMAIN more : j = Len(old) + k
      BY <1>10, <2>2
    <3>2. all[i] = old[i] /\ all[j] = more[k]
      BY <1>9, <2>2, <3>1
    <3>3. old # <<>>
      BY <1>9, <2>2
    <3>4. p > first
      BY <1>12, <1>13, <3>3
    <3>5. old[i] <= EndBefore(c) /\ EndBefore(c) < more[k]
      BY <1>13, <1>14, <2>2, <3>4
    <3>6. old[i] \in Nat /\ more[k] \in Nat
      BY <1>8, <2>2
    <3> QED
      BY <1>12, <3>2, <3>5, <3>6
  <2>3. CASE ~ (i \in DOMAIN old)
    <3>1. PICK k \in DOMAIN more : i = Len(old) + k
      BY <1>10, <2>3
    <3>2. ~ (j \in DOMAIN old)
      BY <1>9, <1>15, <2>3, <3>1
    <3>3. PICK l \in DOMAIN more : j = Len(old) + l
      BY <1>10, <3>2
    <3>4. k < l
      BY <1>9, <1>15, <3>1, <3>3
    <3>5. more[k] < more[l]
      BY <1>5, <1>6, <3>4
    <3> QED
      BY <1>9, <3>1, <3>3, <3>5
  <2> QED
    BY <2>1, <2>2, <2>3
<1>16. \A i \in DOMAIN all : all[i] <= EndOfPage(c)
  <2> SUFFICES ASSUME NEW i \in DOMAIN all
               PROVE  all[i] <= EndOfPage(c)
    OBVIOUS
  <2>1. CASE i \in DOMAIN old
    <3>1. all[i] = old[i] /\ old[i] <= EndBefore(c) /\ old[i] \in Nat
      BY <1>9, <1>13, <1>8, <2>1
    <3> QED
      BY <1>12, <3>1
  <2>2. CASE \E j \in DOMAIN more : i = Len(old) + j
    BY <1>9, <1>14, <2>2
  <2> QED
    BY <1>10, <2>1, <2>2
<1>17. ASSUME NEW x \in Owed(c), x <= EndOfPage(c)
       PROVE  \E i \in DOMAIN all : all[i] = x
  <2>1. x \in Nat
    BY DEF Owed
  <2>2. CASE x <= EndBefore(c)
    <3>1. PICK i \in DOMAIN old : old[i] = x
      BY <1>13, <2>2
    <3>2. i \in DOMAIN all /\ all[i] = x
      BY <1>9, <3>1
    <3> QED
      BY <3>2
  <2>3. CASE EndBefore(c) < x
    <3>1. PICK i \in DOMAIN more : more[i] = x
      BY <1>14, <1>17, <2>3
    <3>2. Len(old) + i \in DOMAIN all /\ all[Len(old) + i] = x
      BY <1>9, <3>1
    <3> QED
      BY <3>2
  <2> QED
    BY <1>12, <2>1, <2>2, <2>3
<1>18. PICK total : total = PagesFor(fineIds, size)
  OBVIOUS
<1>19. /\ total \in Nat /\ total <= fineIds /\ fineIds <= total * size
       /\ total >= 2 => size < fineIds
  BY <1>12, <1>18, PagesHold
<1>20. CASE /\ totalPages' = [totalPages EXCEPT ![c] = PagesFor(fineIds,
                                                         request[c].pageSize)]
            /\ shown' = [shown EXCEPT ![c] = @ \o
                           [i \in DOMAIN read[c] |-> read[c][i].id]]
            /\ Goto(c, "recent") \/ Goto(c, "page")
  <2>1. /\ totalPages' = [totalPages EXCEPT ![c] = total]
        /\ shown' = [shown EXCEPT ![c] = all]
        /\ Goto(c, "recent") \/ Goto(c, "page")
    BY <1>3, <1>4, <1>11, <1>18, <1>20
  <2>2. /\ shown' \in [Clients -> Seq(1 .. MaxFines)] /\ shown'[c] = all
        /\ \A d \in Clients \ {c} : shown'[d] = shown[d]
    BY <1>2, <1>9, <2>1 DEF WalkTypes
  <2>3. total \in 0 .. MaxFines
    <3>1. fineIds <= MaxFines /\ MaxFines \in Nat
      BY LedgerHas, ListingAssumption
    <3> QED
      BY <1>12, <1>19, <3>1
  <2>4. /\ totalPages' \in [Clients -> 0 .. MaxFines] /\ totalPages'[c] = total
        /\ \A d \in Clients \ {c} : totalPages'[d] = totalPages[d]
    BY <1>2, <2>1, <2>3 DEF WalkTypes
  <2>5. /\ pc' \in [Clients -> {"idle"} \cup Awaiting \cup Answers]
        /\ pc'[c] \in {"recent", "page"}
        /\ \A d \in Clients \ {c} : pc'[d] = pc[d]
    BY <1>2, <2>1, Went DEF Answers
  <2>6. WalkTypes'
    BY <1>1, <1>2, <2>2, <2>4, <2>5 DEF WalkTypes
  <2>7. /\ EndOfPage(c)' = EndOfPage(c) /\ Owed(c)' = Owed(c)
    BY <1>1 DEF EndOfPage, Owed, StartOfWalk
  <2>8. AskedWell(c)'
    BY <1>1, <1>2 DEF WalkSound, AskedWell
  <2>9. InOrder(c)'
    BY <1>15, <2>2, <2>5 DEF InOrder
  <2>10. PageShown(c)'
    <3>1. ShownUpTo(c, EndOfPage(c))'
      BY <1>16, <1>17, <2>2, <2>7 DEF ShownUpTo
    <3>2. request[c].known <= total * size
      <4>1. total * size \in Nat
        BY <1>12, <1>19, Products
      <4> QED
        BY <1>12, <1>19, <4>1
    <3> QED
      BY <1>1, <1>11, <1>19, <2>4, <3>1, <3>2 DEF PageShown
  <2>11. PageAwaited(c)' /\ CountRead(c)' /\ PageRead(c)'
    BY <2>5 DEF PageAwaited, CountRead, PageRead, Awaiting
  <2>12. WalkSound(c)'
    BY <2>8, <2>9, <2>10, <2>11 DEF WalkSound
  <2>13. \A d \in Clients \ {c} : Stays(d)
    BY <1>1, <2>2, <2>4, <2>5 DEF Stays
  <2> QED
    BY <2>6, <2>12, <2>13, OneWalk
<1>21. CASE GiveUp(c, "failed") /\ UNCHANGED <<totalPages, shown>>
  <2>1. GiveUp(c, "failed") /\ UNCHANGED <<totalPages, shown>>
    BY <1>21
  <2>2. "failed" \in Answers \ {"page"}
    BY DEF Answers
  <2>3. PICK ending \in Answers \ {"page"} : Goto(c, ending)
    BY <2>1, <2>2, GaveUp
  <2>4. /\ read' \in [Clients -> Seq(Chain!Fine)]
        /\ shown' \in [Clients -> Seq(1 .. MaxFines)]
        /\ \A i, j \in DOMAIN shown'[c] : i < j => shown'[c][i] < shown'[c][j]
        /\ \A d \in Clients \ {c} : read'[d] = read[d] /\ shown'[d] = shown[d]
    BY <1>1, <1>2, <2>1 DEF WalkTypes, WalkSound, InOrder
  <2> QED
    BY <1>1, <2>1, <2>3, <2>4, WalkEnds
<1> QED
  BY <1>20, <1>21 DEF ReadTotal, Chain!getAllFineCount

LEMMA NextWalks ==
  ASSUME WalkInv, Contract!LedgerInv, NEW c \in Clients, UNCHANGED fineIds,
         AskNext(c)
  PROVE  WalkInv'
<1>1. /\ pc[c] = "page" /\ request[c].page < totalPages[c]
      /\ request' = [request EXCEPT ![c].page = @ + 1]
      /\ Goto(c, "count")
      /\ UNCHANGED <<count, read, totalPages, shown>>
  <2>1. pc[c] = "page" /\ ~ (request[c].page >= totalPages[c])
    BY DEF AskNext, At, LastPage
  <2>2. request[c].page \in Nat /\ totalPages[c] \in Nat
    BY RequestTypes DEF WalkInv
  <2> QED
    BY <2>1, <2>2 DEF AskNext
<1>2. WalkTypes /\ WalkSound(c)
  BY DEF WalkInv
<1>3. PICK p, size, first : /\ p = request[c].page
                            /\ size = request[c].pageSize
                            /\ first = request[c].first
  OBVIOUS
<1>4. /\ p \in Nat \ {0} /\ first \in Nat \ {0} /\ first <= p
      /\ size \in Nat \ {0} /\ request[c].known <= fineIds
      /\ totalPages[c] \in Nat /\ totalPages[c] <= MaxFines
  BY <1>1, <1>2, <1>3, UnderWay, RequestTypes
<1>5. p + 1 \in 0 .. MaxFines + 1 /\ totalPages[c] >= 2
  <2>1. MaxFines \in Nat /\ p < totalPages[c]
    BY <1>1, <1>3, ListingAssumption
  <2> QED
    BY <1>4, <2>1
<1>6. PICK q : q = [request[c] EXCEPT !.page = p + 1]
  OBVIOUS
<1>7. /\ q.page = p + 1 /\ q.pageSize = size /\ q.first = first
      /\ q.known = request[c].known
      /\ q \in [kind: {"list", "recent"}, page: 0 .. MaxFines + 1,
                pageSize: 0 .. MaxPageSize + 1, first: 0 .. MaxFines + 1,
                known: 0 .. MaxFines]
  <2>1. request[c] \in [kind: {"list", "recent"}, page: 0 .. MaxFines + 1,
                        pageSize: 0 .. MaxPageSize + 1,
                        first: 0 .. MaxFines + 1, known: 0 .. MaxFines]
    BY <1>2 DEF WalkTypes
  <2> QED
    BY <1>3, <1>5, <1>6, <2>1
<1>8. /\ request'[c] = q /\ \A d \in Clients \ {c} : request'[d] = request[d]
      /\ request' \in [Clients -> [kind: {"list", "recent"},
                              page: 0 .. MaxFines + 1,
                              pageSize: 0 .. MaxPageSize + 1,
                              first: 0 .. MaxFines + 1, known: 0 .. MaxFines]]
  <2>1. request' = [request EXCEPT ![c] = q]
    BY <1>1, <1>2, <1>3, <1>6 DEF WalkTypes
  <2> QED
    BY <1>2, <1>7, <2>1 DEF WalkTypes
<1>9. /\ pc' \in [Clients -> {"idle"} \cup Awaiting \cup Answers]
      /\ pc'[c] = "count"
      /\ \A d \in Clients \ {c} : pc'[d] = pc[d]
  BY <1>1, <1>2, Went DEF Awaiting
<1>10. WalkTypes'
  BY <1>1, <1>2, <1>8, <1>9 DEF WalkTypes
<1>11. /\ EndBefore(c)' = EndOfPage(c) /\ Owed(c)' = Owed(c)
  <2>1. (p + 1) - 1 = p
    BY <1>4
  <2> QED
    BY <1>3, <1>7, <1>8, <2>1 DEF EndBefore, EndOfPage, Owed, StartOfWalk
<1>12. AskedWell(c)'
  <2>1. ValidPage(p, size)
    BY <1>1, <1>2, <1>3 DEF WalkSound, AskedWell
  <2>2. ValidPage(p + 1, size)
    BY <1>4, <2>1 DEF ValidPage
  <2>3. 1 <= first /\ first <= p + 1
    BY <1>4
  <2> QED
    BY <1>4, <1>7, <1>8, <2>2, <2>3 DEF AskedWell
<1>13. PageAwaited(c)'
  <2>1. p + 1 # first
    BY <1>4
  <2>2. size < fineIds /\ ShownUpTo(c, EndOfPage(c))
    BY <1>1, <1>2, <1>3, <1>5 DEF WalkSound, PageShown
  <2>3. ShownUpTo(c, EndBefore(c))'
    BY <1>1, <1>11, <2>2 DEF ShownUpTo
  <2> QED
    BY <1>7, <1>8, <2>1, <2>2, <2>3 DEF PageAwaited
<1>14. InOrder(c)'
  BY <1>1, <1>2, <1>9 DEF WalkSound, InOrder
<1>15. CountRead(c)' /\ PageRead(c)' /\ PageShown(c)'
  BY <1>9 DEF CountRead, PageRead, PageShown
<1>16. WalkSound(c)'
  BY <1>12, <1>13, <1>14, <1>15 DEF WalkSound
<1>17. \A d \in Clients \ {c} : Stays(d)
  BY <1>1, <1>8, <1>9 DEF Stays
<1> QED
  BY <1>10, <1>16, <1>17, OneWalk

(* A lookup moves no walk; the latest changes only use the same count.     *)
LEMMA LookupWalks ==
  ASSUME WalkInv, Contract!LedgerInv, NEW c \in Clients, UNCHANGED fineIds,
         At(c, "idle"), CountFines(c)
  PROVE  WalkInv'
<1>1. /\ count' = [count EXCEPT ![c] = fineIds]
      /\ UNCHANGED <<pc, request, read, totalPages, shown>>
      /\ pc[c] = "idle"
  BY DEF CountFines, Chain!getAllFineCount, At
<1>2. fineIds \in 0 .. MaxFines /\ fineIds \in Nat /\ fineIds <= fineIds
  BY LedgerHas, ListingAssumption
<1>3. WalkTypes /\ WalkSound(c)
  BY DEF WalkInv
<1>4. WalkTypes' /\ \A d \in Clients \ {c} : count'[d] = count[d]
  BY <1>1, <1>2, <1>3 DEF WalkTypes
<1>5. WalkSound(c)'
  BY <1>1, <1>2, <1>3, WalkKept
<1>6. \A d \in Clients \ {c} : Stays(d)
  BY <1>1, <1>4 DEF Stays
<1> QED
  BY <1>4, <1>5, <1>6, OneWalk

LEMMA StepWalkInv ==
  ASSUME WalkInv, Contract!LedgerInv, [ReadsNext]_readsVars
  PROVE  WalkInv'
<1>1. CASE UNCHANGED requestVars
  <2>1. UNCHANGED <<pc, request, count, read, totalPages, shown>>
    BY <1>1 DEF requestVars
  <2>2. fineIds \in Nat /\ fineIds' \in Nat /\ fineIds <= fineIds'
    BY HistoriesGrow, LedgerHas
  <2>3. WalkTypes'
    BY <2>1 DEF WalkInv, WalkTypes
  <2>4. ASSUME NEW d \in Clients
        PROVE  WalkSound(d)'
    <3>1. WalkTypes /\ WalkSound(d)
      BY DEF WalkInv
    <3> QED
      BY <2>1, <2>2, <3>1, WalkKept
  <2> QED
    BY <2>3, <2>4 DEF WalkInv
<1>2. ASSUME NEW c \in Clients, Walk(c)
      PROVE  WalkInv'
  <2>1. UNCHANGED fineIds
    BY <1>2 DEF Walk, Ask, AskRecent, ReadCount, ReadPage, ReadTotal,
                CallFails, AskNext, contractVars
  <2> QED
    BY <1>2, <2>1, AskWalks, CountWalks, PageWalks, TotalWalks, FailsWalks,
       NextWalks DEF Walk
<1>3. ASSUME NEW c \in Clients, At(c, "idle"),
             CountFines(c) /\ UNCHANGED contractVars
      PROVE  WalkInv'
  <2>1. UNCHANGED fineIds
    BY <1>3 DEF contractVars
  <2> QED
    BY <1>3, <2>1, LookupWalks
<1>4. UNCHANGED vars => UNCHANGED requestVars
  BY DEF vars
<1>5. Transact => UNCHANGED requestVars
  BY DEF Transact
<1> QED
  BY <1>1, <1>2, <1>3, <1>4, <1>5 DEF ReadsNext, readsVars

-----------------------------------------------------------------------------

THEOREM WalksSound == ReadsSpec => []WalkInv
<1> QED
  BY InitWalkInv, StepWalkInv, LedgerHolds, PTL DEF ReadsSpec

(* The state of the contract and of every walk is of its type, whatever    *)
(* the lookups do.                                                         *)
THEOREM ListingTypes == ReadsSpec => []TypeOK
<1>1. Contract!LedgerInv /\ WalkInv => TypeOK
  <2> SUFFICES ASSUME Contract!LedgerInv, WalkInv PROVE TypeOK
    OBVIOUS
  <2>1. Contract!TypeOK
    BY DEF Contract!LedgerInv
  <2>2. Chain!TypeOK
    BY <2>1 DEF Contract!TypeOK, Chain!TypeOK, Contract!FineIds,
                Chain!FineIds, Contract!Fine, Chain!Fine,
                Contract!FineStatusUpdate, Chain!FineStatusUpdate,
                Contract!FineState, Chain!FineState
  <2> QED
    BY <2>2 DEF TypeOK, WalkInv, WalkTypes
<1> QED
  BY <1>1, WalksSound, LedgerHolds, PTL

(* A walk from the first page to the last shows every fine that was there  *)
(* when it began, and none twice: however many are registered between its  *)
(* calls, and although the size of a page is clipped to the number of      *)
(* fines there were some calls ago.                                        *)
THEOREM WalksComplete == ReadsSpec => []WalkComplete
<1>1. ASSUME WalkInv, Contract!LedgerInv, NEW c \in Clients
      PROVE  /\ \A i, j \in DOMAIN shown[c] : i < j => shown[c][i] < shown[c][j]
             /\ At(c, "page") /\ LastPage(c) =>
                  LET from == (request[c].first - 1) * request[c].pageSize + 1
                  IN (from .. request[c].known) \subseteq ToSet(shown[c])
  <2>1. WalkSound(c)
    BY <1>1 DEF WalkInv
  <2>2. \A i, j \in DOMAIN shown[c] : i < j => shown[c][i] < shown[c][j]
    BY <2>1 DEF WalkSound, InOrder
  <2>3. ASSUME pc[c] = "page", request[c].page >= totalPages[c],
               NEW x \in StartOfWalk(c) + 1 .. request[c].known
        PROVE  x \in ToSet(shown[c])
    <3>1. /\ request[c].page \in Nat /\ request[c].pageSize \in Nat
          /\ request[c].known \in Nat /\ totalPages[c] \in Nat
      BY <1>1, RequestTypes DEF WalkInv
    <3>2. StartOfWalk(c) \in Nat
      BY <1>1, <2>3, UnderWay
    <3>3. x \in Owed(c)
      BY <3>1, <3>2 DEF Owed
    <3>4. /\ totalPages[c] * request[c].pageSize <= EndOfPage(c)
          /\ totalPages[c] * request[c].pageSize \in Nat
          /\ EndOfPage(c) \in Nat
      BY <2>3, <3>1, Products DEF EndOfPage
    <3>5. request[c].known <= totalPages[c] * request[c].pageSize
      BY <2>1, <2>3 DEF WalkSound, PageShown
    <3>6. x <= EndOfPage(c)
      BY <3>1, <3>2, <3>4, <3>5
    <3>7. \E i \in DOMAIN shown[c] : shown[c][i] = x
      BY <2>1, <2>3, <3>3, <3>6 DEF WalkSound, PageShown, ShownUpTo
    <3> QED
      BY <3>7 DEF ToSet
  <2> QED
    BY <2>2, <2>3 DEF At, LastPage, StartOfWalk
<1>2. Contract!LedgerInv /\ WalkInv => WalkComplete
  BY <1>1 DEF WalkComplete
<1> QED
  BY <1>2, WalksSound, LedgerHolds, PTL

-----------------------------------------------------------------------------
(* No history is longer than its bound.                                    *)

HistoriesFit ==
  \A id \in 1 .. MaxFines : Len(fineStatusHistory[id]) <= MaxUpdates

LEMMA HistoriesBounded == ReadsSpec => []HistoriesFit
<1>1. ReadsSpec => Contract!Spec
  BY InitOfContract, StepOfContract, PTL DEF ReadsSpec, Contract!Spec
<1>2. ReadsSpec => []Contract!HistoriesFit
  BY <1>1, ContractAssumptions, Contract!HistoriesBounded, PTL
<1>3. Contract!HistoriesFit /\ Contract!LedgerInv => HistoriesFit
  <2> SUFFICES ASSUME Contract!HistoriesFit, Contract!LedgerInv,
                      NEW id \in 1 .. MaxFines
               PROVE  Len(fineStatusHistory[id]) <= MaxUpdates
    BY DEF HistoriesFit
  <2>1. Len(fineStatusHistory[id]) \in Nat
    BY LedgerTypes
  <2> QED
    BY <2>1, ListingAssumption DEF Contract!HistoriesFit, Contract!FineIds
<1> QED
  BY <1>2, <1>3, LedgerHolds, PTL

-----------------------------------------------------------------------------
(* The handlers of all kinds.                                              *)

Calls == {"index", "fines", "count", "entries", "list", "connect", "pieces"}

Statuses == {200, 400, 404, 500, 503}

LEMMA AllHandlers ==
  /\ \A k \in DOMAIN Handler : /\ Handler[k].first \subseteq Calls
                               /\ Handler[k].refused \subseteq Statuses
                               /\ Handler[k].absent \subseteq Statuses
                               /\ Handler[k].failed \subseteq Statuses
  /\ DOMAIN Handler = OneFine \cup ByPlate \cup Lists \cup {"activity"}
                        \cup Histories \cup Evidence
  /\ \A k \in ByPlate : Handler[k].first = {"index"}
  /\ \A k \in Lists : Handler[k].first = {"list"}
  /\ Handler["activity"].first = {"count"}
  /\ \A k \in OneFine \cup ByPlate \cup Lists \cup {"activity"} :
       /\ 200 \notin Handler[k].refused
       /\ 200 \notin Handler[k].absent
       /\ 200 \notin Handler[k].failed
<1>1. ASSUME NEW first, NEW refused, NEW absent, NEW failed
      PROVE  /\ Handles(first, refused, absent, failed).first = first
             /\ Handles(first, refused, absent, failed).refused = refused
             /\ Handles(first, refused, absent, failed).absent = absent
             /\ Handles(first, refused, absent, failed).failed = failed
  BY DEF Handles
<1>2. ASSUME NEW k \in ByPlate
      PROVE  /\ Handler[k].first = {"index"}
             /\ Handler[k].refused \subseteq {400, 500}
             /\ Handler[k].absent \subseteq {400, 404, 500}
             /\ Handler[k].failed \subseteq {400, 500, 503}
  BY <1>1 DEF ByPlate, Handler, getFinesByPlate, legacyGetFinesByPlate,
              citizenQuery, handleBlockchainError
<1>3. ASSUME NEW k \in Lists
      PROVE  /\ Handler[k].first = {"list"}
             /\ Handler[k].refused \subseteq {400, 500}
             /\ Handler[k].absent \subseteq {400, 404, 500}
             /\ Handler[k].failed \subseteq {400, 500, 503}
  BY <1>1 DEF Lists, Handler, legacyGetFines, getPublicPaginatedFines,
              handleBlockchainError
<1>4. /\ Handler["activity"].first = {"count"}
      /\ Handler["activity"].refused = {}
      /\ Handler["activity"].absent = {500}
      /\ Handler["activity"].failed = {500}
  BY <1>1 DEF Handler, legacyGetRecentFinesHistory
<1>5. ASSUME NEW k \in OneFine
      PROVE  /\ Handler[k].first = {"fines"}
             /\ Handler[k].refused \subseteq {400, 500}
             /\ Handler[k].absent \subseteq {400, 404, 500}
             /\ Handler[k].failed \subseteq {400, 500, 503}
  BY <1>1 DEF OneFine, Handler, getFine, legacyGetFine, getPublicFineDetails,
              handleBlockchainError
<1>6. ASSUME NEW k \in Histories
      PROVE  /\ Handler[k].first = {"entries"}
             /\ Handler[k].refused \subseteq Statuses
             /\ Handler[k].absent \subseteq Statuses
             /\ Handler[k].failed \subseteq Statuses
  BY <1>1 DEF Histories, Handler, getStatusHistory, getPublicStatusHistory,
              legacyGetFineStatusHistory, handleBlockchainError, Statuses
<1>7. ASSUME NEW k \in Evidence
      PROVE  /\ Handler[k].first = {"connect", "pieces"}
             /\ Handler[k].refused \subseteq Statuses
             /\ Handler[k].absent \subseteq Statuses
             /\ Handler[k].failed \subseteq Statuses
  BY <1>1 DEF Evidence, Handler, getFineEvidence, legacyGetFineEvidence,
              Statuses
<1>8. DOMAIN Handler = OneFine \cup ByPlate \cup Lists \cup {"activity"}
                         \cup Histories \cup Evidence
  BY DEF Handler, OneFine, ByPlate, Lists, Histories, Evidence
<1>9. \A k \in OneFine \cup ByPlate \cup Lists \cup {"activity"} :
        /\ 200 \notin Handler[k].refused
        /\ 200 \notin Handler[k].absent
        /\ 200 \notin Handler[k].failed
  BY <1>2, <1>3, <1>4, <1>5
<1>10. ASSUME NEW k \in DOMAIN Handler
       PROVE  /\ Handler[k].first \subseteq Calls
              /\ Handler[k].refused \subseteq Statuses
              /\ Handler[k].absent \subseteq Statuses
              /\ Handler[k].failed \subseteq Statuses
  BY <1>2, <1>3, <1>4, <1>5, <1>6, <1>7, <1>8 DEF Calls, Statuses
<1> QED
  BY <1>2, <1>3, <1>4, <1>8, <1>9, <1>10

-----------------------------------------------------------------------------
(* What a lookup has read.                                                 *)

Steps == {"idle", "index", "fines", "count", "page", "entries", "list",
          "connect", "pieces", "done"}

Typed(c) ==
  /\ step[c] \in Steps /\ code[c] \in {0} \cup Statuses
  /\ index[c] \in Seq(0 .. MaxFines) /\ got[c] \in Seq(Chain!Fine)
  /\ missed[c] \in SUBSET (1 .. MaxFines)
  /\ entries[c] \in Seq(Seq(Chain!FineStatusUpdate))
  /\ before[c] \in [1 .. MaxFines -> 0 .. MaxUpdates]

(* Each call is made for its own kinds, and what was not read is empty.    *)
InPhase(c) ==
  /\ step[c] = "index" => Kind(c) \in ByPlate
  /\ step[c] = "fines" => Kind(c) \in OneFine \cup ByPlate
  /\ step[c] \in {"count", "page"} => Kind(c) = "activity"
  /\ step[c] = "entries" => Kind(c) \in Histories \cup {"activity"}
  /\ step[c] = "list" => Kind(c) \in Lists
  /\ step[c] \in {"connect", "pieces"} => Kind(c) \in Evidence
  /\ step[c] \notin {"fines", "done"} => missed[c] = {}
  /\ step[c] \notin {"entries", "done"} => entries[c] = <<>>
  /\ step[c] \in {"idle", "count"} => index[c] = <<>> /\ got[c] = <<>>

(* Parallel reads fill the places that the index has prepared.             *)
PlacesReady(c) ==
  /\ step[c] = "fines" =>
       /\ Len(index[c]) <= MaxFines /\ Len(got[c]) = Len(index[c])
       /\ \A i \in DOMAIN index[c] : index[c][i] \in 1 .. MaxFines
  /\ \A i, j \in DOMAIN index[c] : i < j => index[c][i] < index[c][j]

(* A fine that was read is the one that was asked for, as it was when it   *)
(* was registered, in a state that it was in since the client asked.       *)
AsItWas(c, id, fine) ==
  /\ id \in 1 .. fineIds /\ fine.id = id
  /\ Chain!Metadata(fine) = Chain!Metadata(fines[id])
  /\ \E k \in DOMAIN fineStatusHistory[id] :
       /\ before[c][id] <= k
       /\ fine.currentState = fineStatusHistory[id][k].newState

ReadTruly(c) ==
  \A i \in DOMAIN got[c] : got[c][i].id # 0 =>
    i \in DOMAIN index[c] /\ AsItWas(c, index[c][i], got[c][i])

(* The index of a plate holds fines of that plate, and all that the client *)
(* can know of.                                                            *)
OfPlate(c) ==
  Kind(c) \in ByPlate =>
    /\ \A i \in DOMAIN index[c] :
         /\ index[c][i] \in 1 .. fineIds
         /\ fines[index[c][i]].plateNumber = PlateOf(lookup[c])
    /\ step[c] = "fines" \/ code[c] = 200 =>
         \A id \in KnownFines(c) :
           fines[id].plateNumber = PlateOf(lookup[c])
             => \E i \in DOMAIN index[c] : index[c][i] = id

(* Of what the index names, an answer shows all or says that it does not.  *)
AllShown(c) ==
  Kind(c) \in ByPlate /\ code[c] = 200 =>
    /\ Len(got[c]) = Len(index[c])
    /\ \A i \in DOMAIN index[c] : got[c][i].id # 0 \/ i \in missed[c]
    /\ Kind(c) # "citizen" => missed[c] = {}

(* The latest changes: all fines that the client can know of are read, and *)
(* the beginning of each history.                                          *)
Part(c, i) ==
  /\ i \in 1 .. fineIds
  /\ Len(entries[c][i]) <= Len(fineStatusHistory[i])
  /\ \A k \in 1 .. Len(entries[c][i]) :
       entries[c][i][k] = fineStatusHistory[i][k]
  /\ Len(entries[c][i]) <= PartHistory
  /\ Chain!Least(before[c][i], PartHistory) <= Len(entries[c][i])

AllFinesRead(c) ==
  /\ Len(index[c]) = Len(got[c]) /\ Len(entries[c]) <= Len(got[c])
  /\ \A i \in 1 .. Len(got[c]) : index[c][i] = i /\ got[c][i].id = i
  /\ \A id \in KnownFines(c) : id <= Len(got[c])
  /\ \A i \in 1 .. Len(entries[c]) : Part(c, i)

Counted(c) ==
  Kind(c) = "activity" /\ step[c] = "page" =>
    /\ count[c] \in 1 .. fineIds
    /\ \A id \in KnownFines(c) : id <= count[c]

Latest(c) ==
  /\ Kind(c) = "activity" /\ step[c] = "entries" =>
       AllFinesRead(c) /\ Len(entries[c]) < Len(got[c])
  /\ Kind(c) = "activity" /\ code[c] = 200 =>
       AllFinesRead(c) /\ Len(entries[c]) = Len(got[c])

LookSound(c) ==
  /\ Typed(c) /\ InPhase(c) /\ PlacesReady(c) /\ ReadTruly(c)
  /\ OfPlate(c) /\ AllShown(c) /\ Counted(c) /\ Latest(c)

LookInv == Maps(got) /\ Maps(missed) /\ \A c \in Clients : LookSound(c)

LEMMA InitLookInv == ReadsInit => LookInv
<1> SUFFICES ASSUME ReadsInit PROVE LookInv
  OBVIOUS
<1>1. Maps(got) /\ Maps(missed)
  BY DEF ReadsInit, Maps
<1>2. ASSUME NEW c \in Clients
      PROVE  LookSound(c)
  <2>1. /\ step[c] = "idle" /\ Kind(c) = "fine" /\ index[c] = <<>>
        /\ got[c] = <<>> /\ missed[c] = {} /\ entries[c] = <<>> /\ code[c] = 0
        /\ before[c] = [id \in 1 .. MaxFines |-> 0]
    BY DEF ReadsInit, Kind, Chain!FineIds
  <2>2. Typed(c)
    <3>1. before[c] \in [1 .. MaxFines -> 0 .. MaxUpdates]
      BY <2>1, ListingAssumption
    <3>2. /\ << >> \in Seq(0 .. MaxFines) /\ << >> \in Seq(Chain!Fine)
          /\ << >> \in Seq(Seq(Chain!FineStatusUpdate))
      OBVIOUS
    <3> QED
      BY <2>1, <3>1, <3>2 DEF Typed, Steps
  <2>3. DOMAIN << >> = {}
    OBVIOUS
  <2>4. InPhase(c)
    BY <2>1 DEF InPhase
  <2>5. PlacesReady(c) /\ ReadTruly(c)
    BY <2>1, <2>3 DEF PlacesReady, ReadTruly
  <2>6. OfPlate(c) /\ AllShown(c) /\ Counted(c) /\ Latest(c)
    BY <2>1 DEF OfPlate, AllShown, Counted, Latest, ByPlate
  <2> QED
    BY <2>2, <2>4, <2>5, <2>6 DEF LookSound
<1> QED
  BY <1>1, <1>2 DEF LookInv

(* What was registered when the client asked is registered.                *)
LEMMA KnownIsRegistered ==
  ASSUME ReadsInv, Contract!LedgerInv, NEW c \in Clients,
         NEW id \in KnownFines(c)
  PROVE  id \in 1 .. fineIds /\ id \in 1 .. MaxFines
<1>1. id \in 1 .. MaxFines /\ before[c][id] > 0
  BY DEF KnownFines, Chain!FineIds
<1>2. before[c][id] <= Len(fineStatusHistory[id]) /\ before[c][id] \in Nat
  BY <1>1 DEF ReadsInv, LookupSound, AskedEarlier, LookupTypes
<1>3. Len(fineStatusHistory[id]) \in Nat
  BY <1>1, LedgerTypes
<1>4. id <= fineIds /\ fineIds \in Nat /\ id \in Nat
  BY <1>1, <1>2, <1>3, LedgerTypes
<1> QED
  BY <1>1, <1>4

(* A fine that is read now is as it was.                                   *)
LEMMA ReadNow ==
  ASSUME ReadsInv, Contract!LedgerInv, NEW c \in Clients,
         NEW id \in 1 .. fineIds
  PROVE  id \in 1 .. MaxFines /\ AsItWas(c, id, fines[id])
<1>1. fineIds \in Nat /\ fineIds <= MaxFines
  BY LedgerHas
<1>2. id \in 1 .. MaxFines /\ id <= fineIds /\ id # 0
  BY <1>1, ListingAssumption
<1>3. fines[id].id = id
  BY <1>2, LedgerHas
<1>4. PICK h : h = fineStatusHistory[id]
  OBVIOUS
<1>5. Contract!Accounts(h, fines[id].currentState)
  BY <1>2, <1>3, <1>4 DEF Contract!LedgerInv, Contract!HistoryExplainsState,
                          Contract!Exists, Contract!FineIds
<1>6. h \in Seq(Contract!FineStatusUpdate)
  BY <1>2, <1>4, LedgerTypes
<1>7. h # <<>> /\ h[Len(h)].newState = fines[id].currentState
  BY <1>5 DEF Contract!Accounts
<1>8. Len(h) \in DOMAIN h
  BY <1>6, <1>7
<1>9. before[c][id] <= Len(h)
  BY <1>2, <1>4 DEF ReadsInv, LookupSound, AskedEarlier
<1> QED
  BY <1>2, <1>3, <1>4, <1>7, <1>8, <1>9 DEF AsItWas

(* A lookup that makes no step.                                            *)
LookStays(d) ==
  /\ step'[d] = step[d] /\ code'[d] = code[d] /\ lookup'[d] = lookup[d]
  /\ index'[d] = index[d] /\ got'[d] = got[d] /\ missed'[d] = missed[d]
  /\ entries'[d] = entries[d] /\ before'[d] = before[d]
  /\ step[d] = "page" => count'[d] = count[d]

(* The contract keeps its types.                                           *)
LEMMA TypesStay ==
  ASSUME Contract!LedgerInv'
  PROVE  /\ fineIds' \in Nat /\ fineIds' <= MaxFines
         /\ fines' \in [1 .. MaxFines -> Chain!Fine]
         /\ fineStatusHistory'
              \in [1 .. MaxFines -> Seq(Chain!FineStatusUpdate)]
<1>1. /\ fineIds' \in 0 .. MaxFines
      /\ fines' \in [1 .. MaxFines -> Contract!Fine]
      /\ fineStatusHistory' \in
           [1 .. MaxFines -> Seq(Contract!FineStatusUpdate)]
  BY DEF Contract!LedgerInv, Contract!TypeOK, Contract!FineIds
<1>2. /\ Contract!Fine = Chain!Fine
      /\ Contract!FineStatusUpdate = Chain!FineStatusUpdate
  BY DEF Contract!Fine, Chain!Fine, Contract!FineStatusUpdate,
         Chain!FineStatusUpdate, Contract!FineState, Chain!FineState
<1> QED
  BY <1>1, <1>2, ListingAssumption

(* What the contract does in between takes nothing from what was read.     *)
LEMMA AsItWasKept ==
  ASSUME Contract!LedgerInv, Contract!LedgerInv', [ReadsNext]_readsVars,
         NEW c \in Clients, before'[c] = before[c], NEW id, NEW fine,
         AsItWas(c, id, fine)
  PROVE  AsItWas(c, id, fine)'
<1>1. /\ id \in 1 .. fineIds /\ fine.id = id
      /\ Chain!Metadata(fine) = Chain!Metadata(fines[id])
  BY DEF AsItWas
<1>2. PICK k \in DOMAIN fineStatusHistory[id] :
        /\ before[c][id] <= k
        /\ fine.currentState = fineStatusHistory[id][k].newState
  BY DEF AsItWas
<1>3. fineIds \in Nat /\ fineIds <= MaxFines /\ id \in 1 .. MaxFines
  BY <1>1, LedgerHas, ListingAssumption
<1>4. fineIds' \in Nat /\ fineIds <= fineIds'
  BY HistoriesGrow
<1>5. id \in 1 .. fineIds'
  BY <1>1, <1>3, <1>4
<1>6. Chain!Metadata(fine) = Chain!Metadata(fines'[id])
  BY <1>1, FinesStay
<1>7. PICK h, longer : /\ h = fineStatusHistory[id]
                       /\ longer = fineStatusHistory'[id]
  OBVIOUS
<1>8. Extends(longer, h)
  BY <1>3, <1>7, HistoriesGrow
<1>9. h \in Seq(Chain!FineStatusUpdate)
  BY <1>3, <1>7, LedgerHas
<1>10. k \in 1 .. Len(h)
  BY <1>2, <1>7, <1>9
<1>11. longer \in Seq(Chain!FineStatusUpdate)
          => k \in DOMAIN longer /\ longer[k] = h[k]
  BY <1>8, <1>10 DEF Extends
<1>12. longer \in Seq(Chain!FineStatusUpdate)
  BY <1>3, <1>7, TypesStay
<1> QED
  BY <1>1, <1>2, <1>5, <1>6, <1>7, <1>11, <1>12 DEF AsItWas

LEMMA PlateKept ==
  ASSUME Contract!LedgerInv, Contract!LedgerInv', [ReadsNext]_readsVars,
         NEW id \in 1 .. fineIds
  PROVE  fines'[id].plateNumber = fines[id].plateNumber
<1>1. id \in 1 .. MaxFines
  BY LedgerHas, ListingAssumption
<1>2. fines[id] \in Chain!Fine /\ fines'[id] \in Chain!Fine
  BY <1>1, LedgerHas, TypesStay
<1>3. Chain!Metadata(fines'[id]) = Chain!Metadata(fines[id])
  BY FinesStay
<1> QED
  BY <1>2, <1>3, MetadataTells

LEMMA PartKept ==
  ASSUME Contract!LedgerInv, Contract!LedgerInv', [ReadsNext]_readsVars,
         NEW c \in Clients, Typed(c), before'[c] = before[c],
         NEW i \in DOMAIN entries[c], entries'[c][i] = entries[c][i],
         Part(c, i)
  PROVE  Part(c, i)'
<1>1. PICK part, h, longer : /\ part = entries[c][i]
                             /\ h = fineStatusHistory[i]
                             /\ longer = fineStatusHistory'[i]
  OBVIOUS
<1>2. fineIds \in Nat /\ i \in 1 .. MaxFines /\ i \in 1 .. fineIds
  BY LedgerHas, ListingAssumption DEF Part
<1>3. Extends(longer, h) /\ fineIds' \in Nat /\ fineIds <= fineIds'
  BY <1>1, <1>2, HistoriesGrow
<1>4. part \in Seq(Chain!FineStatusUpdate)
  BY <1>1, ElementOf DEF Typed
<1>5. /\ Len(part) \in Nat /\ Len(part) <= Len(h)
      /\ \A k \in 1 .. Len(part) : part[k] = h[k]
  BY <1>1, <1>4 DEF Part
<1>6. Len(part) <= Len(longer) /\ \A k \in 1 .. Len(part) : part[k] = longer[k]
  BY <1>3, <1>5 DEF Extends
<1>7. i \in 1 .. fineIds'
  BY <1>2, <1>3
<1>8. /\ Len(part) <= PartHistory
      /\ Chain!Least(before[c][i], PartHistory) <= Len(part)
  BY <1>1 DEF Part
<1> QED
  BY <1>1, <1>6, <1>7, <1>8 DEF Part

LEMMA LookKept ==
  ASSUME ReadsInv, Contract!LedgerInv, Contract!LedgerInv',
         [ReadsNext]_readsVars, NEW d \in Clients, LookSound(d), LookStays(d)
  PROVE  LookSound(d)'
<1>1. Typed(d)' /\ InPhase(d)' /\ PlacesReady(d)' /\ AllShown(d)'
  BY DEF LookSound, LookStays, Typed, InPhase, PlacesReady, AllShown, Kind
<1>2. KnownFines(d)' = KnownFines(d) /\ Kind(d)' = Kind(d)
  BY DEF KnownFines, LookStays, Kind
<1>3. fineIds \in Nat /\ fineIds' \in Nat /\ fineIds <= fineIds'
  BY HistoriesGrow, LedgerHas
<1>4. ReadTruly(d)'
  <2> SUFFICES ASSUME NEW i \in DOMAIN got[d], got[d][i].id # 0
               PROVE  /\ i \in DOMAIN index[d]
                      /\ AsItWas(d, index[d][i], got[d][i])'
    BY DEF LookStays, ReadTruly, AsItWas
  <2>1. i \in DOMAIN index[d] /\ AsItWas(d, index[d][i], got[d][i])
    BY DEF LookSound, ReadTruly
  <2>2. PICK id, fine : id = index[d][i] /\ fine = got[d][i]
    OBVIOUS
  <2>3. AsItWas(d, id, fine)'
    BY <2>1, <2>2, AsItWasKept DEF LookStays
  <2>4. index'[d][i] = id /\ got'[d][i] = fine
    BY <2>2 DEF LookStays
  <2> QED
    BY <2>1, <2>3, <2>4 DEF AsItWas
<1>5. OfPlate(d)'
  <2> SUFFICES ASSUME Kind(d) \in ByPlate PROVE OfPlate(d)'
    BY <1>2 DEF OfPlate
  <2>1. PICK plate : plate = PlateOf(lookup[d])
    OBVIOUS
  <2>2. PlateOf(lookup'[d]) = plate
    BY <2>1 DEF LookStays
  <2>3. ASSUME NEW i \in DOMAIN index[d]
        PROVE  /\ index[d][i] \in 1 .. fineIds'
               /\ fines'[index[d][i]].plateNumber = plate
    <3>1. /\ index[d][i] \in 1 .. fineIds
          /\ fines[index[d][i]].plateNumber = plate
      BY <2>1 DEF LookSound, OfPlate
    <3> QED
      BY <1>3, <3>1, PlateKept
  <2>4. ASSUME step[d] = "fines" \/ code[d] = 200, NEW id \in KnownFines(d),
               fines'[id].plateNumber = plate
        PROVE  \E i \in DOMAIN index[d] : index[d][i] = id
    <3>1. id \in 1 .. fineIds
      BY KnownIsRegistered
    <3>2. fines[id].plateNumber = plate
      BY <2>4, <3>1, PlateKept
    <3> QED
      BY <2>1, <2>4, <3>2 DEF LookSound, OfPlate
  <2>5. index'[d] = index[d] /\ step'[d] = step[d] /\ code'[d] = code[d]
    BY DEF LookStays
  <2> QED
    BY <1>2, <2>2, <2>3, <2>4, <2>5 DEF OfPlate
<1>6. Counted(d)'
  <2> SUFFICES ASSUME Kind(d) = "activity", step[d] = "page"
               PROVE  Counted(d)'
    BY <1>2 DEF Counted, LookStays
  <2>1. /\ count[d] \in 1 .. fineIds /\ count'[d] = count[d]
        /\ \A id \in KnownFines(d) : id <= count[d]
    BY DEF LookSound, Counted, LookStays
  <2>2. count[d] \in 1 .. fineIds'
    BY <1>3, <2>1
  <2> QED
    BY <1>2, <2>1, <2>2 DEF Counted
<1>7. AllFinesRead(d) => AllFinesRead(d)'
  <2> SUFFICES ASSUME AllFinesRead(d) PROVE AllFinesRead(d)'
    OBVIOUS
  <2>1. /\ index'[d] = index[d] /\ got'[d] = got[d] /\ entries'[d] = entries[d]
        /\ before'[d] = before[d]
    BY DEF LookStays
  <2>2. ASSUME NEW i \in 1 .. Len(entries[d])
        PROVE  Part(d, i)'
    <3>1. Typed(d) /\ Part(d, i)
      BY DEF LookSound, AllFinesRead
    <3>2. i \in DOMAIN entries[d]
      BY <3>1 DEF Typed
    <3> QED
      BY <2>1, <3>1, <3>2, PartKept
  <2> QED
    BY <1>2, <2>1, <2>2 DEF AllFinesRead
<1>8. Latest(d)'
  BY <1>2, <1>7 DEF LookSound, Latest, LookStays
<1> QED
  BY <1>1, <1>4, <1>5, <1>6, <1>8 DEF LookSound

-----------------------------------------------------------------------------
(* The steps of one lookup.                                                *)

LEMMA OneLookup ==
  ASSUME ReadsInv, Contract!LedgerInv, Contract!LedgerInv',
         [ReadsNext]_readsVars, LookInv, NEW c \in Clients,
         Maps(got)', Maps(missed)', LookSound(c)',
         \A d \in Clients \ {c} : LookStays(d)
  PROVE  LookInv'
<1>1. ASSUME NEW d \in Clients, d # c
      PROVE  LookSound(d)'
  <2>1. LookSound(d) /\ LookStays(d)
    BY <1>1 DEF LookInv
  <2> QED
    BY <2>1, LookKept
<1> QED
  BY <1>1 DEF LookInv

(* One client's entry of a function is written.                            *)
LEMMA Written ==
  ASSUME NEW f, NEW g, NEW c \in Clients, NEW x,
         Maps(f), g = [f EXCEPT ![c] = x]
  PROVE  Maps(g) /\ g[c] = x /\ \A d \in Clients \ {c} : g[d] = f[d]
BY DEF Maps

(* What every step of a lookup that has begun leaves alone.                *)
StepOf(c) ==
  /\ UNCHANGED <<fineIds, fines, fineStatusHistory, lookup, before>>
  /\ \A d \in Clients \ {c} :
       /\ step'[d] = step[d] /\ code'[d] = code[d]
       /\ index'[d] = index[d] /\ got'[d] = got[d] /\ missed'[d] = missed[d]
       /\ entries'[d] = entries[d] /\ count'[d] = count[d]
  /\ Maps(got)' /\ Maps(missed)'

LEMMA OwnStep ==
  ASSUME ReadsInv, Contract!LedgerInv, Contract!LedgerInv',
         [ReadsNext]_readsVars, LookInv, NEW c \in Clients,
         StepOf(c), LookSound(c)'
  PROVE  LookInv'
BY OneLookup DEF StepOf, LookStays

LEMMA ZeroFineIsFine ==
  /\ Chain!ZeroFine \in Chain!Fine
  /\ Chain!ZeroFine.id = 0
<1>1. Empty \in Text
  BY TextsAssumption
<1> QED
  BY <1>1 DEF Chain!ZeroFine, Chain!Fine, Chain!FineState

LEMMA AskLooks ==
  ASSUME ReadsInv, Contract!LedgerInv, Contract!LedgerInv', HistoriesFit,
         [ReadsNext]_readsVars, LookInv, NEW c \in Clients,
         AskLookup(c), UNCHANGED <<count, fineIds, fines, fineStatusHistory>>
  PROVE  LookInv'
<1>1. PICK q \in Lookups :
        /\ step[c] = "idle"
        /\ lookup' = [lookup EXCEPT ![c] = q]
        /\ before' = [before EXCEPT ![c] =
                        [id \in Chain!FineIds |-> Len(fineStatusHistory[id])]]
        /\ index' = [index EXCEPT ![c] = Given(q)]
        /\ got' = [got EXCEPT ![c] =
                     [i \in DOMAIN Given(q) |-> Chain!ZeroFine]]
        /\ IF Malformed(q)
           THEN Reply(c, Handler[q.kind].refused)
           ELSE \E call \in Handler[q.kind].first : Goes(c, call)
  BY DEF AskLookup
<1>2. UNCHANGED <<missed, entries>>
  BY DEF AskLookup
<1>3. LookupTypes /\ LookSound(c) /\ OnCourse(c)
  BY DEF ReadsInv, LookupSound, LookInv
<1>4. q \in Lookup /\ q.kind \in DOMAIN Handler /\ q.id \in 0 .. MaxFines
  BY LookupsAssumption DEF Lookup
<1>5. /\ \/ Malformed(q) /\ step'[c] = "done"
            /\ code'[c] \in Handler[q.kind].refused
         \/ ~ Malformed(q) /\ step'[c] \in Handler[q.kind].first
            /\ code'[c] = code[c]
      /\ \A d \in Clients \ {c} : step'[d] = step[d] /\ code'[d] = code[d]
  BY <1>1, <1>3, GoesOn, Replied
<1>6. PICK zeros, lengths :
        /\ zeros = [i \in DOMAIN Given(q) |-> Chain!ZeroFine]
        /\ lengths = [id \in 1 .. MaxFines |-> Len(fineStatusHistory[id])]
  OBVIOUS
<1>7. /\ index'[c] = Given(q)
      /\ \A d \in Clients \ {c} : index'[d] = index[d]
  <2>1. PICK ids : ids = Given(q)
    OBVIOUS
  <2>2. Maps(index) /\ index' = [index EXCEPT ![c] = ids]
    BY <1>1, <1>3, <2>1 DEF LookupTypes
  <2> QED
    BY <2>1, <2>2 DEF Maps
<1>8. /\ Maps(got)' /\ got'[c] = zeros
      /\ \A d \in Clients \ {c} : got'[d] = got[d]
  <2>1. Maps(got) /\ got' = [got EXCEPT ![c] = zeros]
    BY <1>1, <1>6 DEF LookInv
  <2> QED
    BY <2>1 DEF Maps
<1>9. /\ lookup'[c] = q /\ before'[c] = lengths
      /\ \A d \in Clients \ {c} :
           lookup'[d] = lookup[d] /\ before'[d] = before[d]
  <2>1. before' = [before EXCEPT ![c] = lengths]
    BY <1>1, <1>6 DEF Chain!FineIds
  <2> QED
    BY <1>1, <1>3, <2>1 DEF LookupTypes
<1>10. missed'[c] = {} /\ entries'[c] = <<>> /\ code[c] = 0
  BY <1>1, <1>2, <1>3 DEF LookSound, InPhase, OnCourse
<1>11. /\ q.kind \in OneFine \cup Histories => Given(q) = <<q.id>>
       /\ q.kind \notin OneFine \cup Histories => Given(q) = <<>>
  BY DEF Given
<1>12. /\ Given(q) \in Seq(0 .. MaxFines) /\ Len(Given(q)) <= 1
       /\ zeros \in Seq(Chain!Fine) /\ Len(zeros) = Len(Given(q))
       /\ \A i \in DOMAIN zeros : zeros[i].id = 0
       /\ Given(q) = <<>> => zeros = <<>>
  <2>1. CASE q.kind \in OneFine \cup Histories
    <3>1. /\ <<q.id>> \in Seq(0 .. MaxFines) /\ Len(<<q.id>>) = 1
          /\ DOMAIN <<q.id>> = 1 .. 1
      BY <1>4
    <3>2. Given(q) = <<q.id>>
      BY <1>11, <2>1
    <3>3. zeros = [i \in 1 .. 1 |-> Chain!ZeroFine]
      BY <1>6, <3>1, <3>2
    <3>4. zeros \in Seq(Chain!Fine) /\ Len(zeros) = 1
      BY <3>3, ZeroFineIsFine
    <3>5. \A i \in DOMAIN zeros : zeros[i].id = 0
      BY <3>3, ZeroFineIsFine
    <3>6. Given(q) # <<>>
      BY <3>1, <3>2
    <3> QED
      BY <3>1, <3>2, <3>4, <3>5, <3>6
  <2>2. CASE q.kind \notin OneFine \cup Histories
    <3>1. /\ << >> \in Seq(0 .. MaxFines) /\ << >> \in Seq(Chain!Fine)
          /\ Len(<< >>) = 0 /\ DOMAIN << >> = {}
      OBVIOUS
    <3>2. Given(q) = <<>>
      BY <1>11, <2>2
    <3>3. zeros = [i \in {} |-> Chain!ZeroFine]
      BY <1>6, <3>1, <3>2
    <3>4. zeros = <<>>
      BY <3>3
    <3> QED
      BY <3>1, <3>2, <3>4
  <2> QED
    BY <2>1, <2>2
<1>13. step'[c] # "done" => q.kind \in DOMAIN Handler /\ code'[c] = 0
                            /\ step'[c] \in Handler[q.kind].first
                            /\ ~ Malformed(q)
  BY <1>4, <1>5, <1>10, AllHandlers DEF Calls
<1>14. /\ step'[c] \in Calls \cup {"done"}
       /\ step'[c] = "index" => q.kind \in ByPlate
       /\ step'[c] = "fines" => q.kind \in OneFine
       /\ step'[c] = "count" => q.kind = "activity"
       /\ step'[c] = "entries" => q.kind \in Histories
       /\ step'[c] = "list" => q.kind \in Lists
       /\ step'[c] \in {"connect", "pieces"} => q.kind \in Evidence
  <2>1. CASE step'[c] = "done"
    BY <2>1
  <2>2. CASE step'[c] # "done"
    <3>1. step'[c] \in Calls
      BY <1>13, <2>2, AllHandlers
    <3>2. q.kind \in OneFine => step'[c] = "fines"
      BY <1>13, <2>2, HandlersOf
    <3>3. q.kind \in ByPlate => step'[c] = "index"
      BY <1>13, <2>2, AllHandlers
    <3>4. q.kind \in Lists => step'[c] = "list"
      BY <1>13, <2>2, AllHandlers
    <3>5. q.kind = "activity" => step'[c] = "count"
      BY <1>13, <2>2, AllHandlers
    <3>6. q.kind \in Histories => step'[c] = "entries"
      BY <1>13, <2>2, HandlersOf
    <3>7. q.kind \in Evidence => step'[c] \in {"connect", "pieces"}
      BY <1>13, <2>2, HandlersOf
    <3>8. q.kind \in OneFine \cup ByPlate \cup Lists \cup {"activity"}
                       \cup Histories \cup Evidence
      BY <1>4, AllHandlers
    <3> QED
      BY <3>1, <3>2, <3>3, <3>4, <3>5, <3>6, <3>7, <3>8
  <2> QED
    BY <2>1, <2>2
<1>15. code'[c] \in {0} \cup Statuses
  BY <1>4, <1>5, <1>10, AllHandlers
<1>16. q.kind \in ByPlate \cup {"activity"} => code'[c] # 200
  BY <1>5, <1>10, AllHandlers
<1>17. Kind(c)' = q.kind
  BY <1>9 DEF Kind
<1>18. Typed(c)'
  <2>1. lengths \in [1 .. MaxFines -> 0 .. MaxUpdates]
    <3>1. \A id \in 1 .. MaxFines :
            Len(fineStatusHistory[id]) \in 0 .. MaxUpdates
      <4> SUFFICES ASSUME NEW id \in 1 .. MaxFines
                   PROVE  Len(fineStatusHistory[id]) \in 0 .. MaxUpdates
        OBVIOUS
      <4>1. fineStatusHistory[id] \in Seq(Chain!FineStatusUpdate)
        BY LedgerHas
      <4>2. Len(fineStatusHistory[id]) \in Nat
        BY <4>1
      <4> QED
        BY <4>2, ListingAssumption DEF HistoriesFit
    <3> QED
      BY <1>6, <3>1
  <2>2. << >> \in Seq(Seq(Chain!FineStatusUpdate))
    OBVIOUS
  <2> QED
    BY <1>7, <1>8, <1>9, <1>10, <1>12, <1>14, <1>15, <2>1, <2>2
       DEF Typed, Steps, Calls
<1>19. InPhase(c)'
  <2>1. step'[c] \in {"idle", "count"} => Given(q) = <<>> /\ zeros = <<>>
    BY <1>11, <1>12, <1>14 DEF Calls, OneFine, Histories
  <2> QED
    BY <1>7, <1>8, <1>10, <1>14, <1>17, <2>1 DEF InPhase, Calls
<1>20. PlacesReady(c)'
  <2>1. \A i, j \in DOMAIN Given(q) : ~ (i < j)
    <3>1. DOMAIN Given(q) = 1 .. Len(Given(q)) /\ Len(Given(q)) \in Nat
      BY <1>12
    <3> QED
      BY <1>12, <3>1
  <2>2. ASSUME step'[c] = "fines"
        PROVE  /\ Len(Given(q)) <= MaxFines
               /\ \A i \in DOMAIN Given(q) : Given(q)[i] \in 1 .. MaxFines
    <3>1. q.kind \in OneFine /\ ~ Malformed(q)
      BY <1>13, <1>14, <2>2
    <3>2. q.id \in 1 .. MaxFines /\ MaxFines \in Nat
      BY <1>4, <3>1, ListingAssumption DEF Malformed
    <3>3. Given(q) = <<q.id>> /\ DOMAIN <<q.id>> = {1} /\ <<q.id>>[1] = q.id
      BY <1>11, <3>1
    <3>4. Len(Given(q)) \in Nat
      BY <1>12
    <3> QED
      BY <1>12, <3>2, <3>3, <3>4
  <2> QED
    BY <1>7, <1>8, <1>12, <2>1, <2>2 DEF PlacesReady
<1>21. ReadTruly(c)'
  BY <1>8, <1>12 DEF ReadTruly
<1>22. OfPlate(c)' /\ AllShown(c)' /\ Latest(c)'
  <2>1. q.kind \in ByPlate => DOMAIN Given(q) = {}
    <3>1. DOMAIN << >> = {}
      OBVIOUS
    <3> QED
      BY <1>11, <3>1 DEF ByPlate, OneFine, Histories
  <2>2. q.kind \in ByPlate => step'[c] # "fines"
    BY <1>14 DEF ByPlate, OneFine
  <2>3. q.kind = "activity" => step'[c] # "entries"
    BY <1>14 DEF Histories
  <2> QED
    BY <1>7, <1>16, <1>17, <2>1, <2>2, <2>3 DEF OfPlate, AllShown, Latest
<1>23. Counted(c)'
  BY <1>14 DEF Counted, Calls
<1>24. LookSound(c)'
  BY <1>18, <1>19, <1>20, <1>21, <1>22, <1>23 DEF LookSound
<1>25. Maps(missed)'
  BY <1>2 DEF LookInv, Maps
<1>26. \A d \in Clients \ {c} : LookStays(d)
  BY <1>2, <1>5, <1>7, <1>8, <1>9 DEF LookStays
<1> QED
  BY <1>8, <1>24, <1>25, <1>26, OneLookup

(* A step of a lookup leaves what it depends on besides.                   *)
LEMMA SameContract ==
  ASSUME NEW c \in Clients,
         UNCHANGED <<fineIds, fines, fineStatusHistory, lookup, before>>
  PROVE  /\ Kind(c)' = Kind(c) /\ KnownFines(c)' = KnownFines(c)
         /\ \A id, fine : AsItWas(c, id, fine) => AsItWas(c, id, fine)'
         /\ \A id : id \in KnownFines(c) => fines'[id] = fines[id]
BY DEF Kind, KnownFines, AsItWas

(* What was read before and is left alone.                                 *)
LEMMA ReadTrulyKept ==
  ASSUME NEW c \in Clients, ReadTruly(c),
         UNCHANGED <<fineIds, fines, fineStatusHistory, lookup, before>>,
         index'[c] = index[c], got'[c] = got[c]
  PROVE  ReadTruly(c)'
<1> SUFFICES ASSUME NEW i \in DOMAIN got[c], got[c][i].id # 0
             PROVE  /\ i \in DOMAIN index[c]
                    /\ AsItWas(c, index[c][i], got[c][i])'
  BY DEF ReadTruly, AsItWas
<1>1. i \in DOMAIN index[c] /\ AsItWas(c, index[c][i], got[c][i])
  BY DEF ReadTruly
<1> QED
  BY <1>1 DEF AsItWas

(* The contract's index of a plate.                                        *)
IndexOf(ids, t) ==
  /\ ids \in Seq(1 .. MaxFines) /\ Len(ids) <= MaxFines
  /\ \A i, j \in DOMAIN ids : i < j => ids[i] < ids[j]
  /\ \A i \in DOMAIN ids : /\ ids[i] \in 1 .. fineIds
                           /\ ids[i] \in 1 .. MaxFines
                           /\ fines[ids[i]].plateNumber = t
  /\ \A id \in 1 .. fineIds :
       fines[id].plateNumber = t => \E i \in DOMAIN ids : ids[i] = id

LEMMA PlateIndex ==
  ASSUME Contract!LedgerInv, NEW t \in Text
  PROVE  IndexOf(finesByPlate[t], t)
<1>0. PICK ids : ids = finesByPlate[t]
  OBVIOUS
<1>1. /\ fineIds \in Nat /\ fineIds <= MaxFines
      /\ ids \in Seq(1 .. MaxFines)
  BY <1>0, LedgerHas
<1>2. \A id \in 1 .. MaxFines : Contract!Exists(id) <=> id <= fineIds
  BY LedgerHas DEF Contract!Exists
<1>3. PICK S : S = {id \in 1 .. MaxFines :
                      id <= fineIds /\ fines[id].plateNumber = t}
  OBVIOUS
<1>4. /\ \A i, j \in DOMAIN ids : i < j => ids[i] < ids[j]
      /\ {ids[i] : i \in DOMAIN ids} = S
  BY <1>0, <1>2, <1>3 DEF Contract!LedgerInv, Contract!IndicesExact,
                          Contract!IsIndex, Contract!FineIds
<1>5. Len(ids) <= MaxFines
  BY <1>1, <1>4, AscendingIsShort, ListingAssumption
<1>6. ASSUME NEW i \in DOMAIN ids
      PROVE  /\ ids[i] \in 1 .. fineIds /\ ids[i] \in 1 .. MaxFines
             /\ fines[ids[i]].plateNumber = t
  <2>1. ids[i] \in S
    BY <1>4
  <2> QED
    BY <1>1, <1>3, <2>1
<1>7. ASSUME NEW id \in 1 .. fineIds, fines[id].plateNumber = t
      PROVE  \E i \in DOMAIN ids : ids[i] = id
  <2>1. id \in S
    BY <1>1, <1>3, <1>7, ListingAssumption
  <2> QED
    BY <1>4, <2>1
<1> QED
  BY <1>0, <1>1, <1>4, <1>5, <1>6, <1>7 DEF IndexOf

(* As many fines that are not read yet as there are places.                *)
LEMMA Zeros ==
  ASSUME NEW S, NEW ids \in Seq(S), NEW zeros,
         zeros = [i \in DOMAIN ids |-> Chain!ZeroFine]
  PROVE  /\ zeros \in Seq(Chain!Fine) /\ Len(zeros) = Len(ids)
         /\ \A i \in DOMAIN zeros : zeros[i].id = 0
<1>1. zeros = [i \in 1 .. Len(ids) |-> Chain!ZeroFine] /\ Len(ids) \in Nat
  OBVIOUS
<1> QED
  BY <1>1, ZeroFineIsFine

LEMMA PlateIsText ==
  ASSUME NEW q \in Lookup
  PROVE  PlateOf(q) \in Text
<1>1. q.text \in Text
  BY DEF Lookup
<1> QED
  BY <1>1, TextsAssumption DEF PlateOf

(* The fines of a plate: the index as it is now.                           *)
LEMMA IndexLooks ==
  ASSUME ReadsInv, Contract!LedgerInv, Contract!LedgerInv',
         [ReadsNext]_readsVars, LookInv, NEW c \in Clients,
         ReadIndex(c), UNCHANGED <<count, fineIds, fines, fineStatusHistory>>
  PROVE  LookInv'
<1>1. PICK plate, ids, zeros :
        /\ plate = PlateOf(lookup[c]) /\ ids = finesByPlate[plate]
        /\ zeros = [i \in DOMAIN ids |-> Chain!ZeroFine]
  OBVIOUS
<1>2. /\ step[c] = "index"
      /\ index' = [index EXCEPT ![c] = ids]
      /\ got' = [got EXCEPT ![c] = zeros]
      /\ IF ids = <<>> THEN Reply(c, {200}) ELSE Goes(c, "fines")
      /\ UNCHANGED <<lookup, missed, entries, before>>
  BY <1>1 DEF ReadIndex
<1>3. LookupTypes /\ LookSound(c) /\ OnCourse(c) /\ lookup[c] \in Lookup
  BY DEF ReadsInv, LookupSound, LookInv, LookupTypes
<1>4. /\ \/ ids = <<>> /\ step'[c] = "done" /\ code'[c] = 200
         \/ ids # <<>> /\ step'[c] = "fines" /\ code'[c] = code[c]
      /\ \A d \in Clients \ {c} : step'[d] = step[d] /\ code'[d] = code[d]
  <2>1. CASE ids = <<>>
    BY <1>2, <1>3, <2>1, Replied
  <2>2. CASE ids # <<>>
    BY <1>2, <1>3, <2>2, GoesOn
  <2> QED
    BY <2>1, <2>2
<1>5. /\ Maps(got)' /\ got'[c] = zeros /\ index'[c] = ids
      /\ \A d \in Clients \ {c} : got'[d] = got[d] /\ index'[d] = index[d]
  BY <1>2, <1>3 DEF LookInv, LookupTypes, Maps
<1>6. plate \in Text
  BY <1>1, <1>3, PlateIsText
<1>7. IndexOf(ids, plate)
  BY <1>1, <1>6, PlateIndex
<1>8. /\ zeros \in Seq(Chain!Fine) /\ Len(zeros) = Len(ids)
      /\ \A i \in DOMAIN zeros : zeros[i].id = 0
  BY <1>1, <1>7, Zeros DEF IndexOf
<1>9. /\ Kind(c) \in ByPlate /\ missed[c] = {} /\ entries[c] = <<>>
      /\ code[c] = 0
  BY <1>2, <1>3 DEF LookSound, InPhase, OnCourse
<1>10. Kind(c)' = Kind(c) /\ KnownFines(c)' = KnownFines(c)
  BY <1>2, SameContract
<1>11. Typed(c)'
  <2>1. ids \in Seq(0 .. MaxFines)
    BY <1>7, ListingAssumption DEF IndexOf
  <2> QED
    BY <1>2, <1>3, <1>4, <1>5, <1>8, <1>9, <2>1
       DEF LookSound, Typed, Steps, Statuses
<1>12. InPhase(c)'
  BY <1>2, <1>4, <1>9, <1>10 DEF InPhase
<1>13. PlacesReady(c)'
  BY <1>5, <1>7, <1>8 DEF PlacesReady, IndexOf
<1>14. ReadTruly(c)'
  BY <1>5, <1>8 DEF ReadTruly
<1>15. OfPlate(c)'
  <2>1. PlateOf(lookup'[c]) = plate
    BY <1>1, <1>2
  <2>2. \A id \in KnownFines(c) :
          fines[id].plateNumber = plate => \E i \in DOMAIN ids : ids[i] = id
    BY <1>7, KnownIsRegistered DEF IndexOf
  <2> QED
    BY <1>2, <1>5, <1>7, <1>10, <2>1, <2>2 DEF OfPlate, IndexOf
<1>16. AllShown(c)'
  <2>1. DOMAIN << >> = {}
    OBVIOUS
  <2>2. code'[c] = 200 => ids = <<>>
    BY <1>4, <1>9
  <2>3. code'[c] = 200 => DOMAIN index'[c] = {}
    BY <1>5, <2>1, <2>2, Zenon
  <2>4. Len(got'[c]) = Len(index'[c]) /\ missed'[c] = {}
    BY <1>2, <1>5, <1>8, <1>9
  <2> QED
    BY <2>3, <2>4 DEF AllShown
<1>17. Counted(c)' /\ Latest(c)'
  BY <1>9, <1>10 DEF Counted, Latest, ByPlate
<1>18. LookSound(c)'
  BY <1>11, <1>12, <1>13, <1>14, <1>15, <1>16, <1>17 DEF LookSound
<1>19. StepOf(c)
  BY <1>2, <1>4, <1>5 DEF StepOf, LookInv, Maps
<1> QED
  BY <1>18, <1>19, OwnStep

(* One read of several has returned or failed.  The lookup is answered     *)
(* with 200 only by the last one, and by the citizen's query or where none *)
(* has failed.                                                             *)
LEMMA OneMoreRead ==
  ASSUME ReadsInv, Contract!LedgerInv, Contract!LedgerInv',
         [ReadsNext]_readsVars, LookInv, NEW c \in Clients,
         step[c] = "fines", StepOf(c), UNCHANGED <<index, entries>>,
         NEW i \in DOMAIN index[c], NEW fs \in Seq(Chain!Fine), NEW ms,
         got'[c] = fs, missed'[c] = ms, Len(fs) = Len(got[c]),
         \A j \in DOMAIN got[c] : j # i => fs[j] = got[c][j],
         missed[c] \subseteq ms, ms \subseteq missed[c] \cup {i},
         fs[i].id # 0 => AsItWas(c, index[c][i], fs[i]),
         i \notin ms => fs[i].id # 0,
         step'[c] \in {"fines", "done"}, code'[c] \in {0} \cup Statuses,
         code'[c] = 200 => Unread(c) = {i},
         code'[c] = 200 /\ Kind(c) # "citizen" => ms = {}
  PROVE  LookInv'
<1>1. LookSound(c) /\ Typed(c)
  BY DEF LookInv, LookSound
<1>2. UNCHANGED <<lookup, before, fineIds, fines, fineStatusHistory>>
  BY DEF StepOf
<1>3. /\ Kind(c) \in OneFine \cup ByPlate /\ entries[c] = <<>>
      /\ Len(index[c]) <= MaxFines /\ Len(got[c]) = Len(index[c])
      /\ \A j \in DOMAIN index[c] : index[c][j] \in 1 .. MaxFines
      /\ \A j, k \in DOMAIN index[c] : j < k => index[c][j] < index[c][k]
  BY <1>1 DEF LookSound, InPhase, PlacesReady
<1>4. Kind(c)' = Kind(c) /\ KnownFines(c)' = KnownFines(c)
  BY <1>2, SameContract
<1>5. /\ DOMAIN index[c] = 1 .. Len(index[c]) /\ Len(index[c]) \in Nat
      /\ DOMAIN got[c] = 1 .. Len(got[c])
      /\ DOMAIN fs = 1 .. Len(fs)
  BY <1>1 DEF Typed
<1>6. Typed(c)'
  <2>1. i \in 1 .. MaxFines
    BY <1>3, <1>5, ListingAssumption
  <2>2. ms \in SUBSET (1 .. MaxFines)
    BY <1>1, <2>1 DEF Typed
  <2> QED
    BY <1>1, <1>2, <2>2 DEF Typed, Steps
<1>7. InPhase(c)'
  BY <1>3, <1>4 DEF InPhase
<1>8. PlacesReady(c)'
  BY <1>3 DEF PlacesReady
<1>9. ReadTruly(c)'
  <2> SUFFICES ASSUME NEW j \in DOMAIN fs, fs[j].id # 0
               PROVE  j \in DOMAIN index[c] /\ AsItWas(c, index[c][j], fs[j])'
    BY DEF ReadTruly, AsItWas
  <2>1. j \in DOMAIN index[c] /\ j \in DOMAIN got[c]
    BY <1>3, <1>5
  <2>2. AsItWas(c, index[c][j], fs[j])
    BY <1>1, <2>1 DEF LookSound, ReadTruly
  <2> QED
    BY <1>2, <2>1, <2>2 DEF AsItWas
<1>10. OfPlate(c)'
  <2> SUFFICES ASSUME Kind(c) \in ByPlate PROVE OfPlate(c)'
    BY <1>4 DEF OfPlate
  <2>1. /\ \A j \in DOMAIN index[c] :
             /\ index[c][j] \in 1 .. fineIds
             /\ fines[index[c][j]].plateNumber = PlateOf(lookup[c])
        /\ \A id \in KnownFines(c) :
             fines[id].plateNumber = PlateOf(lookup[c])
               => \E j \in DOMAIN index[c] : index[c][j] = id
    BY <1>1 DEF LookSound, OfPlate
  <2> QED
    BY <1>2, <1>4, <2>1 DEF OfPlate
<1>11. AllShown(c)'
  <2> SUFFICES ASSUME Kind(c) \in ByPlate, code'[c] = 200
               PROVE  /\ Len(fs) = Len(index[c])
                      /\ \A j \in DOMAIN index[c] : fs[j].id # 0 \/ j \in ms
                      /\ Kind(c) # "citizen" => ms = {}
    BY <1>4 DEF AllShown
  <2>1. ASSUME NEW j \in DOMAIN index[c]
        PROVE  fs[j].id # 0 \/ j \in ms
    <3>1. CASE j = i
      BY <3>1
    <3>2. CASE j # i
      <4>1. j \notin Unread(c)
        BY <3>2
      <4>2. got[c][j].id # 0 \/ j \in missed[c]
        BY <4>1 DEF Unread
      <4>3. fs[j] = got[c][j]
        BY <1>3, <1>5, <3>2
      <4> QED
        BY <4>2, <4>3
    <3> QED
      BY <3>1, <3>2
  <2> QED
    BY <1>3, <2>1
<1>12. Counted(c)' /\ Latest(c)'
  BY <1>3, <1>4 DEF Counted, Latest, ByPlate, OneFine
<1>13. LookSound(c)'
  BY <1>6, <1>7, <1>8, <1>9, <1>10, <1>11, <1>12 DEF LookSound
<1> QED
  BY <1>13, OwnStep

(* How a lookup of fines goes on.                                          *)
LEMMA Responded ==
  ASSUME LookupTypes, NEW c \in Clients, NEW fs, NEW ms,
         Kind(c) \in OneFine \cup ByPlate, Respond(c, fs, ms)
  PROVE  /\ step'[c] = "done" /\ code'[c] \in Statuses
         /\ code'[c] = 200 /\ Kind(c) # "citizen" => ms = {}
         /\ Maps(step)' /\ Maps(code)'
         /\ \A d \in Clients \ {c} : step'[d] = step[d] /\ code'[d] = code[d]
<1>1. /\ Handler[Kind(c)].failed \subseteq Statuses
      /\ 200 \notin Handler[Kind(c)].failed
  <2>1. Kind(c) \in DOMAIN Handler
    BY AllHandlers
  <2> QED
    BY <2>1, AllHandlers
<1>2. CASE (Kind(c) = "citizen" \/ ms = {}) /\ Reply(c, {200})
  <2>1. Reply(c, {200})
    BY <1>2
  <2> QED
    BY <1>2, <2>1, Replied DEF Statuses
<1>3. CASE Reply(c, Handler[Kind(c)].failed)
  BY <1>1, <1>3, Replied
<1> QED
  BY <1>2, <1>3 DEF Respond

LEMMA FineLooks ==
  ASSUME ReadsInv, Contract!LedgerInv, Contract!LedgerInv',
         [ReadsNext]_readsVars, LookInv, NEW c \in Clients,
         NEW i \in DOMAIN index[c], ReadFine(c, i),
         UNCHANGED <<count, fineIds, fines, fineStatusHistory>>
  PROVE  LookInv'
<1>1. PICK id, fine, fs :
        /\ id = index[c][i] /\ fine = fines[id]
        /\ fs = [got[c] EXCEPT ![i] = fine]
  OBVIOUS
<1>2. /\ step[c] = "fines" /\ i \in Readings(c) /\ Registered(id)
      /\ got' = [got EXCEPT ![c] = fs]
      /\ IF Unread(c) = {i} THEN Respond(c, fs, missed[c])
         ELSE Goes(c, "fines")
      /\ UNCHANGED <<lookup, index, missed, entries, before>>
  BY <1>1 DEF ReadFine, Place
<1>3. LookupTypes /\ LookSound(c) /\ OnCourse(c) /\ Typed(c)
  BY DEF ReadsInv, LookupSound, LookInv, LookSound
<1>4. /\ Kind(c) \in OneFine \cup ByPlate
      /\ Len(got[c]) = Len(index[c]) /\ id \in 1 .. MaxFines
  BY <1>1, <1>2, <1>3 DEF LookSound, InPhase, PlacesReady
<1>5. id \in 1 .. fineIds
  <2>1. id <= fineIds /\ fineIds \in Nat
    BY <1>2, LedgerHas DEF Registered, Chain!getAllFineCount
  <2> QED
    BY <1>4, <2>1, ListingAssumption
<1>6. AsItWas(c, id, fine) /\ fine \in Chain!Fine /\ fine.id # 0
  <2>1. AsItWas(c, id, fine)
    BY <1>1, <1>5, ReadNow
  <2>2. fine \in Chain!Fine
    BY <1>1, <1>4, LedgerHas
  <2>3. id # 0
    BY <1>4
  <2> QED
    BY <2>1, <2>2, <2>3 DEF AsItWas
<1>7. /\ got[c] \in Seq(Chain!Fine) /\ i \in DOMAIN got[c]
      /\ i \in DOMAIN index[c]
  BY <1>3, <1>4 DEF Typed
<1>8. /\ fs \in Seq(Chain!Fine) /\ Len(fs) = Len(got[c]) /\ fs[i] = fine
      /\ \A j \in DOMAIN got[c] : j # i => fs[j] = got[c][j]
  BY <1>1, <1>6, <1>7
<1>9. /\ step'[c] \in {"fines", "done"} /\ code'[c] \in {0} \cup Statuses
      /\ code'[c] = 200 => Unread(c) = {i}
      /\ code'[c] = 200 /\ Kind(c) # "citizen" => missed[c] = {}
      /\ \A d \in Clients \ {c} : step'[d] = step[d] /\ code'[d] = code[d]
  <2>1. CASE Unread(c) = {i}
    BY <1>2, <1>3, <1>4, <2>1, Responded
  <2>2. CASE Unread(c) # {i}
    <3>1. code[c] = 0
      BY <1>2, <1>3 DEF OnCourse
    <3> QED
      BY <1>2, <1>3, <2>2, <3>1, GoesOn
  <2> QED
    BY <2>1, <2>2
<1>10. /\ Maps(got)' /\ Maps(missed)' /\ got'[c] = fs
       /\ \A d \in Clients \ {c} : got'[d] = got[d]
  BY <1>2 DEF LookInv, Maps
<1>11. StepOf(c)
  BY <1>2, <1>9, <1>10 DEF StepOf
<1>12. /\ missed'[c] = missed[c] /\ fs[i].id # 0
       /\ AsItWas(c, index[c][i], fs[i])
  BY <1>1, <1>2, <1>6, <1>8
<1>13. missed[c] \subseteq missed[c] /\ missed[c] \subseteq missed[c] \cup {i}
  OBVIOUS
<1> QED
  BY <1>2, <1>8, <1>9, <1>10, <1>11, <1>12, <1>13, OneMoreRead

LEMMA FineFails ==
  ASSUME ReadsInv, Contract!LedgerInv, Contract!LedgerInv',
         [ReadsNext]_readsVars, LookInv, NEW c \in Clients,
         NEW i \in DOMAIN index[c], ReadFails(c, i),
         UNCHANGED <<count, fineIds, fines, fineStatusHistory>>
  PROVE  LookInv'
<1>1. PICK ms, fs : ms = missed[c] \cup {i} /\ fs = got[c]
  OBVIOUS
<1>2. /\ step[c] = "fines" /\ i \in Readings(c)
      /\ missed' = [missed EXCEPT ![c] = ms]
      /\ IF ~ Registered(index[c][i])
         THEN Reply(c, Handler[Kind(c)].absent)
         ELSE IF GivesUp(c) \/ Unread(c) = {i}
              THEN Respond(c, fs, ms)
              ELSE Goes(c, "fines")
      /\ UNCHANGED <<lookup, index, got, entries, before>>
  BY <1>1 DEF ReadFails
<1>3. LookupTypes /\ LookSound(c) /\ OnCourse(c) /\ Typed(c)
  BY DEF ReadsInv, LookupSound, LookInv, LookSound
<1>4. /\ Kind(c) \in OneFine \cup ByPlate /\ code[c] = 0
      /\ Len(got[c]) = Len(index[c])
  BY <1>2, <1>3 DEF LookSound, InPhase, PlacesReady, OnCourse
<1>5. i \in Unread(c) /\ got[c][i].id = 0
  BY <1>2 DEF Readings, Unread
<1>6. ms # {} /\ missed[c] \subseteq ms /\ i \in ms
  BY <1>1
<1>7. /\ step'[c] \in {"fines", "done"} /\ code'[c] \in {0} \cup Statuses
      /\ code'[c] = 200 => Unread(c) = {i}
      /\ code'[c] = 200 /\ Kind(c) # "citizen" => ms = {}
      /\ \A d \in Clients \ {c} : step'[d] = step[d] /\ code'[d] = code[d]
  <2>1. CASE ~ Registered(index[c][i])
    <3>1. /\ Handler[Kind(c)].absent \subseteq Statuses
          /\ 200 \notin Handler[Kind(c)].absent
      BY <1>4, AllHandlers
    <3> QED
      BY <1>2, <1>3, <2>1, <3>1, Replied
  <2>2. CASE Registered(index[c][i]) /\ (GivesUp(c) \/ Unread(c) = {i})
    <3>1. Respond(c, fs, ms)
      BY <1>2, <2>2
    <3>2. /\ step'[c] = "done" /\ code'[c] \in Statuses
          /\ code'[c] = 200 /\ Kind(c) # "citizen" => ms = {}
          /\ \A d \in Clients \ {c} :
               step'[d] = step[d] /\ code'[d] = code[d]
      BY <1>3, <1>4, <3>1, Responded
    <3>3. code'[c] = 200 => Kind(c) = "citizen"
      BY <1>6, <3>2
    <3> QED
      BY <2>2, <3>2, <3>3 DEF GivesUp
  <2>3. CASE Registered(index[c][i]) /\ ~ (GivesUp(c) \/ Unread(c) = {i})
    BY <1>2, <1>3, <1>4, <2>3, GoesOn
  <2> QED
    BY <2>1, <2>2, <2>3
<1>8. /\ Maps(got)' /\ Maps(missed)' /\ missed'[c] = ms
      /\ \A d \in Clients \ {c} : missed'[d] = missed[d]
  BY <1>2 DEF LookInv, Maps
<1>9. StepOf(c)
  BY <1>2, <1>7, <1>8 DEF StepOf
<1>10. fs \in Seq(Chain!Fine) /\ i \in DOMAIN fs /\ fs[i].id = 0
  BY <1>1, <1>3, <1>4, <1>5 DEF Typed
<1>11. got'[c] = fs /\ \A j \in DOMAIN got[c] : j # i => fs[j] = got[c][j]
  BY <1>1, <1>2
<1>12. Len(fs) = Len(got[c]) /\ ms \subseteq missed[c] \cup {i}
  BY <1>1
<1> QED
  BY <1>2, <1>6, <1>7, <1>8, <1>9, <1>10, <1>11, <1>12, OneMoreRead

(* The latest changes: the number of fines, and the fines.                 *)
LEMMA CountLooks ==
  ASSUME ReadsInv, Contract!LedgerInv, Contract!LedgerInv',
         [ReadsNext]_readsVars, LookInv, NEW c \in Clients,
         count \in [Clients -> 0 .. MaxFines],
         CountFines(c), UNCHANGED contractVars
  PROVE  LookInv'
<1>1. /\ step[c] = "count" /\ count' = [count EXCEPT ![c] = fineIds]
      /\ IF fineIds = 0 THEN Reply(c, {200}) ELSE Goes(c, "page")
      /\ UNCHANGED <<lookup, index, got, missed, entries, before>>
      /\ UNCHANGED <<fineIds, fines, fineStatusHistory>>
  BY DEF CountFines, Chain!getAllFineCount, contractVars
<1>2. LookupTypes /\ LookSound(c) /\ OnCourse(c) /\ Typed(c)
  BY DEF ReadsInv, LookupSound, LookInv, LookSound
<1>3. /\ Kind(c) = "activity" /\ code[c] = 0 /\ missed[c] = {}
      /\ index[c] = <<>> /\ got[c] = <<>> /\ entries[c] = <<>>
  BY <1>1, <1>2 DEF LookSound, InPhase, OnCourse
<1>4. /\ \/ fineIds = 0 /\ step'[c] = "done" /\ code'[c] = 200
         \/ fineIds # 0 /\ step'[c] = "page" /\ code'[c] = 0
      /\ \A d \in Clients \ {c} : step'[d] = step[d] /\ code'[d] = code[d]
  <2>1. CASE fineIds = 0
    BY <1>1, <1>2, <2>1, Replied
  <2>2. CASE fineIds # 0
    BY <1>1, <1>2, <1>3, <2>2, GoesOn
  <2> QED
    BY <2>1, <2>2
<1>5. count'[c] = fineIds /\ \A d \in Clients \ {c} : count'[d] = count[d]
  BY <1>1
<1>6. Kind(c)' = "activity" /\ KnownFines(c)' = KnownFines(c)
  BY <1>1, <1>3, SameContract
<1>7. fineIds \in Nat /\ \A id \in KnownFines(c) : id \in 1 .. fineIds
  BY KnownIsRegistered, LedgerHas
<1>8. Typed(c)'
  BY <1>1, <1>2, <1>4 DEF Typed, Steps, Statuses
<1>9. InPhase(c)'
  BY <1>1, <1>3, <1>4, <1>6 DEF InPhase
<1>10. DOMAIN << >> = {} /\ Len(<< >>) = 0
  OBVIOUS
<1>11. PlacesReady(c)' /\ ReadTruly(c)'
  <2>1. DOMAIN index'[c] = {} /\ DOMAIN got'[c] = {}
    BY <1>1, <1>3, <1>10, Zenon
  <2> QED
    BY <1>4, <2>1 DEF PlacesReady, ReadTruly
<1>12. OfPlate(c)' /\ AllShown(c)'
  BY <1>6 DEF OfPlate, AllShown, ByPlate
<1>13. Counted(c)'
  <2> SUFFICES ASSUME step'[c] = "page"
               PROVE  /\ count'[c] \in 1 .. fineIds
                      /\ \A id \in KnownFines(c) : id <= count'[c]
    BY <1>1, <1>6 DEF Counted
  <2> QED
    BY <1>4, <1>5, <1>7
<1>14. Latest(c)'
  <2>1. step'[c] # "entries"
    BY <1>4
  <2> SUFFICES ASSUME code'[c] = 200
               PROVE  AllFinesRead(c)' /\ Len(entries'[c]) = Len(got'[c])
    BY <1>6, <2>1 DEF Latest
  <2>2. fineIds = 0
    BY <1>4
  <2>3. Len(index'[c]) = 0 /\ Len(got'[c]) = 0 /\ Len(entries'[c]) = 0
    BY <1>1, <1>3, <1>10, Zenon
  <2>4. \A id \in KnownFines(c) : FALSE
    BY <1>7, <2>2
  <2> QED
    BY <1>6, <2>3, <2>4 DEF AllFinesRead
<1>15. LookSound(c)'
  BY <1>8, <1>9, <1>11, <1>12, <1>13, <1>14 DEF LookSound
<1>16. StepOf(c)
  BY <1>1, <1>4, <1>5 DEF StepOf, LookInv, Maps
<1> QED
  BY <1>15, <1>16, OwnStep

(* A page of fines, as a lookup reads it.                                  *)
LEMMA PageIsRead ==
  ASSUME ReadsInv, Contract!LedgerInv, NEW c \in Clients,
         NEW start, NEW size, NEW page, IsPage(page, start, size),
         NEW ids, ids = [i \in DOMAIN page |-> page[i].id]
  PROVE  /\ ids \in Seq(0 .. MaxFines) /\ Len(ids) = Len(page)
         /\ \A i, j \in DOMAIN ids : i < j => ids[i] < ids[j]
         /\ \A i \in DOMAIN page :
              i \in DOMAIN ids /\ AsItWas(c, ids[i], page[i])
<1>1. /\ page \in Seq(Chain!Fine) /\ Len(page) \in Nat
      /\ DOMAIN page = 1 .. Len(page) /\ start \in Nat
  BY DEF IsPage
<1>2. ids = [i \in 1 .. Len(page) |-> page[i].id]
  BY <1>1
<1>3. \A i \in 1 .. Len(page) : /\ ids[i] = start + i
                                /\ ids[i] \in 1 .. fineIds
                                /\ ids[i] \in 1 .. MaxFines
                                /\ page[i] = fines[ids[i]]
  BY <1>2 DEF IsPage
<1>4. ids \in Seq(0 .. MaxFines) /\ Len(ids) = Len(page)
  <2>1. \A i \in 1 .. Len(page) : page[i].id \in 0 .. MaxFines
    BY <1>2, <1>3, ListingAssumption
  <2> QED
    BY <1>1, <1>2, <2>1
<1>5. DOMAIN ids = 1 .. Len(page)
  BY <1>2
<1>6. \A i, j \in DOMAIN ids : i < j => ids[i] < ids[j]
  BY <1>1, <1>3, <1>5
<1>7. ASSUME NEW i \in DOMAIN page
      PROVE  AsItWas(c, ids[i], page[i])
  <2>1. PICK id : id = ids[i]
    OBVIOUS
  <2>2. id \in 1 .. fineIds /\ page[i] = fines[id]
    BY <1>1, <1>3, <1>7, <2>1
  <2>3. AsItWas(c, id, fines[id])
    BY <2>2, ReadNow
  <2> QED
    BY <2>1, <2>2, <2>3
<1> QED
  BY <1>1, <1>4, <1>5, <1>6, <1>7

LEMMA AllFinesLook ==
  ASSUME ReadsInv, Contract!LedgerInv, Contract!LedgerInv',
         [ReadsNext]_readsVars, LookInv, NEW c \in Clients,
         ReadAllFines(c),
         UNCHANGED <<count, fineIds, fines, fineStatusHistory>>
  PROVE  LookInv'
<1>1. PICK n, page, ids : /\ n = count[c]
                          /\ page = Chain!getPaginatedFines(1, n)
                          /\ ids = [i \in DOMAIN page |-> page[i].id]
  OBVIOUS
<1>2. /\ step[c] = "page" /\ Goes(c, "entries")
      /\ got' = [got EXCEPT ![c] = page]
      /\ index' = [index EXCEPT ![c] = ids]
      /\ UNCHANGED <<lookup, missed, entries, before>>
  BY <1>1 DEF ReadAllFines
<1>3. LookupTypes /\ LookSound(c) /\ OnCourse(c) /\ Typed(c)
  BY DEF ReadsInv, LookupSound, LookInv, LookSound
<1>4. /\ Kind(c) = "activity" /\ code[c] = 0 /\ missed[c] = {}
      /\ entries[c] = <<>>
      /\ n \in 1 .. fineIds /\ \A id \in KnownFines(c) : id <= n
  BY <1>1, <1>2, <1>3 DEF LookSound, InPhase, OnCourse, Counted
<1>5. /\ step'[c] = "entries" /\ code'[c] = 0
      /\ \A d \in Clients \ {c} : step'[d] = step[d] /\ code'[d] = code[d]
  BY <1>2, <1>3, <1>4, GoesOn
<1>6. /\ Maps(got)' /\ got'[c] = page /\ index'[c] = ids
      /\ \A d \in Clients \ {c} : got'[d] = got[d] /\ index'[d] = index[d]
  BY <1>2, <1>3 DEF LookInv, LookupTypes, Maps
<1>7. fineIds \in Nat /\ n \in Nat \ {0} /\ n <= fineIds
  BY <1>4, LedgerHas
<1>8. IsPage(page, 0, n)
  <2>1. IsPage(page, (1 - 1) * n, n)
    BY <1>1, <1>7, PageOfFines
  <2>2. (1 - 1) * n = 0
    BY <1>7
  <2> QED
    BY <2>1, <2>2
<1>9. /\ page \in Seq(Chain!Fine) /\ Len(page) = n
      /\ \A i \in 1 .. n : page[i].id = i
  <2>1. /\ page \in Seq(Chain!Fine) /\ Len(page) \in Nat /\ Len(page) <= n
        /\ Len(page) = n \/ fineIds <= 0 + Len(page)
    BY <1>8 DEF IsPage
  <2>2. Len(page) = n
    BY <1>7, <2>1
  <2> QED
    BY <1>7, <1>8, <2>1, <2>2 DEF IsPage
<1>10. /\ ids \in Seq(0 .. MaxFines) /\ Len(ids) = Len(page)
       /\ \A i, j \in DOMAIN ids : i < j => ids[i] < ids[j]
       /\ \A i \in DOMAIN page :
            i \in DOMAIN ids /\ AsItWas(c, ids[i], page[i])
  BY <1>1, <1>8, PageIsRead
<1>11. \A i \in 1 .. n : ids[i] = i /\ page[i].id = i
  <2>1. DOMAIN page = 1 .. n
    BY <1>9
  <2> QED
    BY <1>1, <1>9, <2>1
<1>12. Kind(c)' = "activity" /\ KnownFines(c)' = KnownFines(c)
  BY <1>2, <1>4, SameContract
<1>13. Typed(c)'
  BY <1>2, <1>3, <1>5, <1>6, <1>9, <1>10 DEF Typed, Steps
<1>14. InPhase(c)'
  BY <1>2, <1>4, <1>5, <1>12 DEF InPhase
<1>15. PlacesReady(c)'
  BY <1>5, <1>6, <1>10 DEF PlacesReady
<1>16. ReadTruly(c)'
  <2> SUFFICES ASSUME NEW i \in DOMAIN page
               PROVE  i \in DOMAIN ids /\ AsItWas(c, ids[i], page[i])'
    BY <1>6 DEF ReadTruly, AsItWas
  <2>1. i \in DOMAIN ids /\ AsItWas(c, ids[i], page[i])
    BY <1>10
  <2> QED
    BY <1>2, <2>1 DEF AsItWas
<1>17. OfPlate(c)' /\ AllShown(c)'
  BY <1>12 DEF OfPlate, AllShown, ByPlate
<1>18. Counted(c)'
  BY <1>5 DEF Counted
<1>19. Latest(c)'
  <2>1. entries'[c] = <<>> /\ Len(<< >>) = 0 /\ Len(entries'[c]) = 0
    BY <1>2, <1>4
  <2>2. \A i \in 1 .. Len(entries'[c]) : FALSE
    BY <2>1
  <2>3. AllFinesRead(c)'
    BY <1>4, <1>6, <1>7, <1>9, <1>10, <1>11, <1>12, <2>1, <2>2
       DEF AllFinesRead
  <2> QED
    BY <1>5, <1>6, <1>7, <1>9, <2>1, <2>3 DEF Latest
<1>20. LookSound(c)'
  BY <1>13, <1>14, <1>15, <1>16, <1>17, <1>18, <1>19 DEF LookSound
<1>21. StepOf(c)
  BY <1>2, <1>5, <1>6 DEF StepOf, LookInv, Maps
<1> QED
  BY <1>20, <1>21, OwnStep

(* One page of the list.                                                   *)
LEMMA ListLooks ==
  ASSUME ReadsInv, Contract!LedgerInv, Contract!LedgerInv',
         [ReadsNext]_readsVars, LookInv, NEW c \in Clients,
         ReadList(c), UNCHANGED <<count, fineIds, fines, fineStatusHistory>>
  PROVE  LookInv'
<1>1. PICK n, page, ids :
        /\ n = IF lookup[c].id = 0 THEN 1 ELSE lookup[c].id
        /\ page = Chain!getPaginatedFines(n, RecentSize)
        /\ ids = [i \in DOMAIN page |-> page[i].id]
  OBVIOUS
<1>2. /\ step[c] = "list" /\ Reply(c, {200})
      /\ got' = [got EXCEPT ![c] = page]
      /\ index' = [index EXCEPT ![c] = ids]
      /\ UNCHANGED <<lookup, missed, entries, before>>
  BY <1>1 DEF ReadList
<1>3. LookupTypes /\ LookSound(c) /\ Typed(c) /\ lookup[c] \in Lookup
  BY DEF ReadsInv, LookInv, LookSound, LookupTypes
<1>4. Kind(c) \in Lists /\ missed[c] = {} /\ entries[c] = <<>>
  BY <1>2, <1>3 DEF LookSound, InPhase
<1>5. /\ step'[c] = "done" /\ code'[c] = 200
      /\ \A d \in Clients \ {c} : step'[d] = step[d] /\ code'[d] = code[d]
  BY <1>2, <1>3, Replied
<1>6. /\ Maps(got)' /\ got'[c] = page /\ index'[c] = ids
      /\ \A d \in Clients \ {c} : got'[d] = got[d] /\ index'[d] = index[d]
  BY <1>2, <1>3 DEF LookInv, LookupTypes, Maps
<1>7. n \in Nat \ {0} /\ RecentSize \in Nat \ {0}
  <2>1. lookup[c].id \in Nat
    BY <1>3, ListingAssumption DEF Lookup
  <2> QED
    BY <1>1, <2>1, ListingAssumption
<1>8. PICK start : IsPage(page, start, RecentSize)
  BY <1>1, <1>7, PageOfFines
<1>9. /\ ids \in Seq(0 .. MaxFines) /\ Len(ids) = Len(page)
      /\ \A i, j \in DOMAIN ids : i < j => ids[i] < ids[j]
      /\ \A i \in DOMAIN page :
           i \in DOMAIN ids /\ AsItWas(c, ids[i], page[i])
  BY <1>1, <1>8, PageIsRead
<1>10. page \in Seq(Chain!Fine)
  BY <1>8 DEF IsPage
<1>11. Kind(c)' = Kind(c)
  BY <1>2, SameContract
<1>12. Typed(c)'
  BY <1>2, <1>3, <1>5, <1>6, <1>9, <1>10 DEF Typed, Steps, Statuses
<1>13. InPhase(c)'
  BY <1>5 DEF InPhase
<1>14. PlacesReady(c)'
  BY <1>5, <1>6, <1>9 DEF PlacesReady
<1>15. ReadTruly(c)'
  <2> SUFFICES ASSUME NEW i \in DOMAIN page
               PROVE  i \in DOMAIN ids /\ AsItWas(c, ids[i], page[i])'
    BY <1>6 DEF ReadTruly, AsItWas
  <2>1. i \in DOMAIN ids /\ AsItWas(c, ids[i], page[i])
    BY <1>9
  <2> QED
    BY <1>2, <2>1 DEF AsItWas
<1>16. OfPlate(c)' /\ AllShown(c)' /\ Counted(c)' /\ Latest(c)'
  BY <1>4, <1>11 DEF OfPlate, AllShown, Counted, Latest, ByPlate, Lists
<1>17. LookSound(c)'
  BY <1>12, <1>13, <1>14, <1>15, <1>16 DEF LookSound
<1>18. StepOf(c)
  BY <1>2, <1>5, <1>6 DEF StepOf, LookInv, Maps
<1> QED
  BY <1>17, <1>18, OwnStep

(* Histories, one after the other.                                         *)
LEMMA HistoryTaken ==
  ASSUME ReadsInv, Contract!LedgerInv, NEW c \in Clients,
         NEW id \in 1 .. fineIds, NEW size \in Nat \ {0},
         NEW part, part = History(id, size)
  PROVE  /\ part \in Seq(Chain!FineStatusUpdate)
         /\ Len(part) <= Len(fineStatusHistory[id])
         /\ \A k \in 1 .. Len(part) : part[k] = fineStatusHistory[id][k]
         /\ Len(part) <= size
         /\ Chain!Least(before[c][id], size) <= Len(part)
<1>1. PICK h : h = fineStatusHistory[id]
  OBVIOUS
<1>2. id \in 1 .. MaxFines /\ h \in Seq(Chain!FineStatusUpdate)
  BY <1>1, LedgerHas, ListingAssumption
<1>3. part = Chain!Page(h, Len(h), 1, size)
  BY <1>1 DEF History, Chain!getFineStatusHistory
<1>4. /\ part \in Seq(Chain!FineStatusUpdate)
      /\ Len(part) = Chain!Least(size, Len(h)) /\ Len(part) <= Len(h)
      /\ \A k \in 1 .. Len(part) : part[k] = h[k]
  BY <1>2, <1>3, FirstPage
<1>5. /\ before[c][id] <= Len(h) /\ before[c][id] \in Nat
      /\ Len(h) \in Nat
  <2>1. before[c][id] <= Len(h)
    BY <1>1, <1>2 DEF ReadsInv, LookupSound, AskedEarlier
  <2>2. before[c][id] \in Nat
    BY <1>2 DEF ReadsInv, LookupTypes
  <2>3. Len(h) \in Nat
    BY <1>2
  <2> QED
    BY <2>1, <2>2, <2>3
<1>6. Len(part) <= size /\ Chain!Least(before[c][id], size) <= Len(part)
  BY <1>4, <1>5 DEF Chain!Least
<1> QED
  BY <1>1, <1>4, <1>6

LEMMA HistoryLooks ==
  ASSUME ReadsInv, Contract!LedgerInv, Contract!LedgerInv',
         [ReadsNext]_readsVars, LookInv, NEW c \in Clients,
         ReadHistory(c), UNCHANGED <<count, fineIds, fines, fineStatusHistory>>
  PROVE  LookInv'
<1>1. PICK sofar, m, id, size, part :
        /\ sofar = entries[c] /\ m = Len(sofar)
        /\ id = index[c][m + 1] /\ size = Limit(c)
        /\ part = History(id, size)
  OBVIOUS
<1>2. /\ step[c] = "entries" /\ id \in 1 .. fineIds
      /\ entries' = [entries EXCEPT ![c] = Append(sofar, part)]
      /\ IF m + 1 = Len(index[c]) THEN Reply(c, {200})
         ELSE Goes(c, "entries")
      /\ UNCHANGED <<lookup, index, got, missed, before>>
  BY <1>1 DEF ReadHistory
<1>3. LookupTypes /\ LookSound(c) /\ OnCourse(c) /\ Typed(c)
  BY DEF ReadsInv, LookupSound, LookInv, LookSound
<1>4. /\ Kind(c) \in Histories \cup {"activity"} /\ code[c] = 0
      /\ missed[c] = {}
  BY <1>2, <1>3 DEF LookSound, InPhase, OnCourse
<1>5. /\ \/ m + 1 = Len(index[c]) /\ step'[c] = "done" /\ code'[c] = 200
         \/ m + 1 # Len(index[c]) /\ step'[c] = "entries" /\ code'[c] = 0
      /\ \A d \in Clients \ {c} : step'[d] = step[d] /\ code'[d] = code[d]
  <2>1. CASE m + 1 = Len(index[c])
    BY <1>2, <1>3, <2>1, Replied
  <2>2. CASE m + 1 # Len(index[c])
    BY <1>2, <1>3, <1>4, <2>2, GoesOn
  <2> QED
    BY <2>1, <2>2
<1>6. /\ entries'[c] = Append(sofar, part)
      /\ \A d \in Clients \ {c} : entries'[d] = entries[d]
  BY <1>2, <1>3 DEF LookupTypes, Maps
<1>7. size \in Nat \ {0}
  BY <1>1, LookupsAssumption DEF Limit
<1>8. /\ part \in Seq(Chain!FineStatusUpdate)
      /\ Len(part) <= Len(fineStatusHistory[id])
      /\ \A k \in 1 .. Len(part) : part[k] = fineStatusHistory[id][k]
      /\ Len(part) <= size
      /\ Chain!Least(before[c][id], size) <= Len(part)
  BY <1>1, <1>2, <1>7, HistoryTaken
<1>9. /\ sofar \in Seq(Seq(Chain!FineStatusUpdate)) /\ m \in Nat
  BY <1>1, <1>3 DEF Typed
<1>10. PICK longer : longer = Append(sofar, part)
  OBVIOUS
<1>11. /\ longer \in Seq(Seq(Chain!FineStatusUpdate)) /\ Len(longer) = m + 1
       /\ longer[m + 1] = part /\ \A i \in 1 .. m : longer[i] = sofar[i]
  BY <1>1, <1>8, <1>9, <1>10
<1>12. Kind(c)' = Kind(c) /\ KnownFines(c)' = KnownFines(c)
  BY <1>2, SameContract
<1>13. Typed(c)'
  BY <1>2, <1>3, <1>5, <1>6, <1>10, <1>11 DEF Typed, Steps, Statuses
<1>14. InPhase(c)'
  BY <1>2, <1>4, <1>5, <1>12 DEF InPhase
<1>15. PlacesReady(c)' /\ ReadTruly(c)'
  <2>1. ReadTruly(c)'
    BY <1>2, <1>3, ReadTrulyKept DEF LookSound
  <2> QED
    BY <1>2, <1>3, <1>5, <2>1 DEF LookSound, PlacesReady
<1>16. OfPlate(c)' /\ AllShown(c)' /\ Counted(c)'
  BY <1>4, <1>5, <1>12
     DEF OfPlate, AllShown, Counted, ByPlate, Histories
<1>17. Latest(c)'
  <2> SUFFICES ASSUME Kind(c) = "activity"
               PROVE  Latest(c)'
    BY <1>12 DEF Latest
  <2>1. AllFinesRead(c) /\ m < Len(got[c])
    BY <1>1, <1>2, <1>3 DEF LookSound, Latest
  <2>2. /\ Len(index[c]) = Len(got[c]) /\ Len(got[c]) \in Nat
        /\ \A i \in 1 .. Len(got[c]) : index[c][i] = i /\ got[c][i].id = i
        /\ \A i \in KnownFines(c) : i <= Len(got[c])
        /\ \A i \in 1 .. m : Part(c, i)
    BY <1>1, <1>3, <2>1 DEF AllFinesRead, Typed
  <2>3. m + 1 \in 1 .. Len(got[c]) /\ id = m + 1 /\ size = PartHistory
    <3>1. m + 1 \in 1 .. Len(got[c])
      BY <1>9, <2>1, <2>2
    <3>2. id = m + 1
      BY <1>1, <2>2, <3>1
    <3>3. size = PartHistory
      BY <1>1 DEF Limit
    <3> QED
      BY <3>1, <3>2, <3>3
  <2>4. ASSUME NEW i \in 1 .. m + 1
        PROVE  Part(c, i)'
    <3>1. CASE i = m + 1
      <4>1. entries'[c][i] = part /\ i = id
        BY <1>6, <1>10, <1>11, <2>3, <3>1
      <4> QED
        BY <1>2, <1>8, <2>3, <4>1 DEF Part
    <3>2. CASE i # m + 1
      <4>1. i \in 1 .. m
        BY <1>9, <3>2
      <4>2. entries'[c][i] = entries[c][i]
        BY <1>1, <1>6, <1>10, <1>11, <4>1
      <4>3. Part(c, i)
        BY <2>2, <4>1
      <4> QED
        BY <1>2, <4>2, <4>3 DEF Part
    <3> QED
      BY <3>1, <3>2
  <2>5. Len(entries'[c]) = m + 1
    BY <1>6, <1>10, <1>11
  <2>6. AllFinesRead(c)'
    BY <1>2, <1>9, <1>12, <2>1, <2>2, <2>3, <2>4, <2>5 DEF AllFinesRead
  <2>7. step'[c] = "entries" => m + 1 < Len(got[c])
    BY <1>5, <1>9, <2>2, <2>3
  <2>8. code'[c] = 200 => m + 1 = Len(got[c])
    BY <1>5, <2>2
  <2> QED
    BY <1>2, <2>5, <2>6, <2>7, <2>8 DEF Latest
<1>18. LookSound(c)'
  BY <1>13, <1>14, <1>15, <1>16, <1>17 DEF LookSound
<1>19. StepOf(c)
  BY <1>2, <1>5, <1>6 DEF StepOf, LookInv, Maps
<1> QED
  BY <1>18, <1>19, OwnStep

(* A call fails, or evidence is on its way: nothing more is read.          *)
LEMMA NoMoreRead ==
  ASSUME ReadsInv, Contract!LedgerInv, Contract!LedgerInv',
         [ReadsNext]_readsVars, LookInv, NEW c \in Clients,
         UNCHANGED <<count, fineIds, fines, fineStatusHistory>>,
         LookupFails(c) \/ Connect(c) \/ ReceivePiece(c) \/ ServeEvidence(c)
  PROVE  LookInv'
<1>1. /\ UNCHANGED <<lookup, index, got, missed, before>>
      /\ step[c] \in {"index", "count", "page", "entries", "list", "connect",
                      "pieces"}
  BY DEF LookupFails, Connect, ReceivePiece, ServeEvidence
<1>2. LookupTypes /\ LookSound(c) /\ OnCourse(c) /\ Typed(c)
  BY DEF ReadsInv, LookupSound, LookInv, LookSound
<1>3. PICK kind : kind = Kind(c)
  OBVIOUS
<1>4. /\ kind \in DOMAIN Handler /\ code[c] = 0 /\ missed[c] = {}
      /\ kind \notin OneFine
  <2>1. kind \in ByPlate \cup Lists \cup {"activity"} \cup Histories
                   \cup Evidence
    BY <1>1, <1>2, <1>3 DEF LookSound, InPhase
  <2>2. kind \notin OneFine
    BY <2>1 DEF ByPlate, Lists, Histories, Evidence, OneFine
  <2> QED
    BY <1>1, <1>2, <2>1, <2>2, AllHandlers DEF LookSound, InPhase, OnCourse
<1>5. /\ Maps(entries)' /\ entries'[c] \in {<<>>, entries[c]}
      /\ \A d \in Clients \ {c} : entries'[d] = entries[d]
  <2>1. entries' = entries \/ entries' = [entries EXCEPT ![c] = <<>>]
    BY DEF LookupFails, Connect, ReceivePiece, ServeEvidence
  <2> QED
    BY <1>2, <2>1 DEF LookupTypes, Maps
<1>6. /\ step'[c] \in {"done", "pieces"}
      /\ step'[c] = "pieces" => kind \in Evidence
      /\ step'[c] = "pieces" => entries'[c] = entries[c]
      /\ code'[c] \in {0} \cup Statuses
      /\ code'[c] = 200 => kind \in Histories \cup Evidence
      /\ \A d \in Clients \ {c} : step'[d] = step[d] /\ code'[d] = code[d]
  <2>1. CASE LookupFails(c)
    <3>1. PICK S : /\ Reply(c, S)
                   /\ S = Handler[kind].failed
                        \cup IF NoSuchHistory(c) THEN Handler[kind].absent
                             ELSE {}
      BY <1>3, <2>1 DEF LookupFails
    <3>2. S \subseteq Statuses
      BY <1>4, <3>1, AllHandlers
    <3>3. kind \notin Histories \cup Evidence => 200 \notin S
      BY <1>4, <3>1, AllHandlers
    <3> QED
      BY <1>2, <3>1, <3>2, <3>3, Replied
  <2>2. CASE Connect(c)
    <3>1. kind \in Evidence /\ Goes(c, "pieces") /\ entries' = entries
      BY <1>2, <1>3, <2>2 DEF Connect, LookSound, InPhase
    <3> QED
      BY <1>2, <1>4, <3>1, GoesOn
  <2>3. CASE ReceivePiece(c)
    BY <1>2, <1>3, <1>4, <2>3 DEF ReceivePiece, LookSound, InPhase
  <2>4. CASE ServeEvidence(c)
    <3>1. PICK S : /\ Reply(c, S) /\ kind \in Evidence
                   /\ S = IF pieces[c] = 0 THEN Handler[kind].absent
                          ELSE {200}
      BY <1>2, <1>3, <2>4 DEF ServeEvidence, LookSound, InPhase
    <3>2. S \subseteq Statuses
      BY <1>4, <3>1, AllHandlers DEF Statuses
    <3> QED
      BY <1>2, <3>1, <3>2, Replied
  <2> QED
    BY <2>1, <2>2, <2>3, <2>4
<1>7. Kind(c)' = kind /\ KnownFines(c)' = KnownFines(c)
  BY <1>1, <1>3, SameContract
<1>8. Typed(c)'
  <2>1. << >> \in Seq(Seq(Chain!FineStatusUpdate))
    OBVIOUS
  <2> QED
    BY <1>1, <1>2, <1>5, <1>6, <2>1 DEF Typed, Steps
<1>9. InPhase(c)'
  <2>1. entries[c] = <<>> \/ step[c] = "entries"
    BY <1>1, <1>2 DEF LookSound, InPhase
  <2>2. step[c] = "entries" => kind \notin Evidence
    BY <1>2, <1>3 DEF LookSound, InPhase, Histories, Evidence
  <2> QED
    BY <1>1, <1>4, <1>5, <1>6, <1>7, <2>1, <2>2 DEF InPhase
<1>10. PlacesReady(c)'
  BY <1>1, <1>2, <1>6 DEF LookSound, PlacesReady
<1>11. ReadTruly(c)'
  BY <1>1, <1>2, ReadTrulyKept DEF LookSound
<1>12. OfPlate(c)'
  <2> SUFFICES ASSUME kind \in ByPlate PROVE OfPlate(c)'
    BY <1>7 DEF OfPlate
  <2>1. step'[c] # "fines" /\ code'[c] # 200
    BY <1>6 DEF ByPlate, Histories, Evidence
  <2>2. \A j \in DOMAIN index[c] :
          /\ index[c][j] \in 1 .. fineIds
          /\ fines[index[c][j]].plateNumber = PlateOf(lookup[c])
    BY <1>2, <1>3 DEF LookSound, OfPlate
  <2> QED
    BY <1>1, <1>7, <2>1, <2>2 DEF OfPlate
<1>13. AllShown(c)' /\ Counted(c)' /\ Latest(c)'
  BY <1>6, <1>7
     DEF AllShown, Counted, Latest, ByPlate, Histories, Evidence
<1>14. LookSound(c)'
  BY <1>8, <1>9, <1>10, <1>11, <1>12, <1>13 DEF LookSound
<1>15. StepOf(c)
  BY <1>1, <1>5, <1>6 DEF StepOf, LookInv, Maps
<1> QED
  BY <1>14, <1>15, OwnStep

(* Whatever else happens: a step of a walk, a transaction.                 *)
LEMMA LookupsStay ==
  ASSUME ReadsInv, Contract!LedgerInv, Contract!LedgerInv',
         [ReadsNext]_readsVars, LookInv, UNCHANGED lookupVars,
         \A d \in Clients : step[d] = "page" => count'[d] = count[d]
  PROVE  LookInv'
<1>1. UNCHANGED <<step, lookup, index, got, missed, entries, code, before>>
  BY DEF lookupVars
<1>2. ASSUME NEW d \in Clients
      PROVE  LookSound(d)'
  <2>1. LookStays(d) /\ LookSound(d)
    BY <1>1 DEF LookStays, LookInv
  <2> QED
    BY <2>1, LookKept
<1>3. Maps(got)' /\ Maps(missed)'
  BY <1>1 DEF LookInv, Maps
<1> QED
  BY <1>2, <1>3 DEF LookInv

LEMMA StepLookInv ==
  ASSUME ReadsInv, Contract!LedgerInv, Contract!LedgerInv', HistoriesFit,
         count \in [Clients -> 0 .. MaxFines],
         [ReadsNext]_readsVars, LookInv
  PROVE  LookInv'
<1>1. ASSUME NEW c \in Clients, step[c] = "idle", Walk(c),
             UNCHANGED lookupVars
      PROVE  LookInv'
  <2>1. count' = count \/ \E n : count' = [count EXCEPT ![c] = n]
    BY <1>1 DEF Walk, Ask, AskRecent, ReadCount, ReadPage, ReadTotal,
                CallFails, AskNext
  <2>2. \A d \in Clients : step[d] = "page" => count'[d] = count[d]
    BY <1>1, <2>1
  <2> QED
    BY <1>1, <2>2, LookupsStay
<1>2. ASSUME UNCHANGED lookupVars, UNCHANGED requestVars
      PROVE  LookInv'
  <2>1. \A d \in Clients : step[d] = "page" => count'[d] = count[d]
    BY <1>2 DEF requestVars
  <2> QED
    BY <1>2, <2>1, LookupsStay
<1>3. ASSUME NEW c \in Clients, CountFines(c), UNCHANGED contractVars
      PROVE  LookInv'
  BY <1>3, CountLooks
<1>4. ASSUME NEW c \in Clients, AskLookup(c) \/ Proceed(c), UNCHANGED vars
      PROVE  LookInv'
  <2>1. UNCHANGED <<count, fineIds, fines, fineStatusHistory>>
    BY <1>4 DEF vars, contractVars, requestVars
  <2>2. ASSUME AskLookup(c)
        PROVE  LookInv'
    BY <2>1, <2>2, AskLooks
  <2>3. ASSUME ReadIndex(c)
        PROVE  LookInv'
    BY <2>1, <2>3, IndexLooks
  <2>4. ASSUME NEW i \in DOMAIN index[c], ReadFine(c, i)
        PROVE  LookInv'
    BY <2>1, <2>4, FineLooks
  <2>5. ASSUME NEW i \in DOMAIN index[c], ReadFails(c, i)
        PROVE  LookInv'
    BY <2>1, <2>5, FineFails
  <2>6. ASSUME ReadAllFines(c)
        PROVE  LookInv'
    BY <2>1, <2>6, AllFinesLook
  <2>7. ASSUME ReadHistory(c)
        PROVE  LookInv'
    BY <2>1, <2>7, HistoryLooks
  <2>8. ASSUME ReadList(c)
        PROVE  LookInv'
    BY <2>1, <2>8, ListLooks
  <2>9. ASSUME LookupFails(c) \/ Connect(c) \/ ReceivePiece(c)
                 \/ ServeEvidence(c)
        PROVE  LookInv'
    BY <2>1, <2>9, NoMoreRead
  <2> QED
    BY <1>4, <2>2, <2>3, <2>4, <2>5, <2>6, <2>7, <2>8, <2>9 DEF Proceed
<1>5. UNCHANGED vars => UNCHANGED requestVars
  BY DEF vars
<1>6. Transact => UNCHANGED requestVars
  BY DEF Transact
<1> QED
  BY <1>1, <1>2, <1>3, <1>4, <1>5, <1>6 DEF ReadsNext, readsVars

-----------------------------------------------------------------------------

(* What a lookup holds at any moment is what it should, whatever the       *)
(* others do.                                                              *)
THEOREM LookupsHold == ReadsSpec => []LookInv
<1>1. WalkInv => count \in [Clients -> 0 .. MaxFines]
  BY DEF WalkInv, WalkTypes
<1>2. /\ LookInv /\ ReadsInv /\ HistoriesFit /\ WalkInv
      /\ Contract!LedgerInv /\ Contract!LedgerInv' /\ [ReadsNext]_readsVars
      => LookInv'
  BY <1>1, StepLookInv
<1> QED
  BY <1>2, InitLookInv, LookupsSound, HistoriesBounded, WalksSound,
     LedgerHolds, PTL DEF ReadsSpec

(* All that a lookup keeps is of its type.                                 *)
THEOREM LookupTypesHold == ReadsSpec => []LookupTypeOK
<1>1. TypeOK /\ ReadsInv /\ LookInv => LookupTypeOK
  <2> SUFFICES ASSUME TypeOK, ReadsInv, LookInv PROVE LookupTypeOK
    OBVIOUS
  <2>1. \A c \in Clients : Typed(c)
    BY DEF LookInv, LookSound
  <2>2. LookupTypes /\ Maps(got) /\ Maps(missed)
    BY DEF ReadsInv, LookInv
  <2>3. step \in [Clients -> Steps] /\ code \in [Clients -> {0} \cup Statuses]
    BY <2>1, <2>2 DEF LookupTypes, Maps, Typed
  <2>4. /\ index \in [Clients -> Seq(0 .. MaxFines)]
        /\ got \in [Clients -> Seq(Chain!Fine)]
        /\ missed \in [Clients -> SUBSET (1 .. MaxFines)]
        /\ entries \in [Clients -> Seq(Seq(Chain!FineStatusUpdate))]
    BY <2>1, <2>2 DEF LookupTypes, Maps, Typed
  <2>5. before \in [Clients -> [1 .. MaxFines -> 0 .. MaxUpdates]]
    BY <2>1, <2>2 DEF LookupTypes, Typed
  <2> QED
    BY <2>2, <2>3, <2>4, <2>5
       DEF LookupTypeOK, LookupTypes, Steps, Statuses, Chain!FineIds
<1> QED
  BY <1>1, ListingTypes, LookupsSound, LookupsHold, PTL

(* What is served of a fine is true, although parallel reads return in any *)
(* order and updates fall between them.                                    *)
THEOREM LookupsAreTruthful == ReadsSpec => []LookupsTruthful
<1>1. ASSUME LookInv, Contract!LedgerInv, NEW c \in Clients
      PROVE  /\ \A i, j \in DOMAIN got[c] :
                   i < j /\ got[c][i].id # 0 /\ got[c][j].id # 0
                     => got[c][i].id < got[c][j].id
             /\ \A i \in DOMAIN got[c] :
                  LET fine == got[c][i] IN fine.id # 0 =>
                  /\ Chain!Metadata(fine) = Chain!Metadata(fines[fine.id])
                  /\ Kind(c) \in ByPlate =>
                       fine.plateNumber = PlateOf(lookup[c])
                  /\ \E k \in DOMAIN fineStatusHistory[fine.id] :
                       /\ k >= before[c][fine.id]
                       /\ fine.currentState
                            = fineStatusHistory[fine.id][k].newState
  <2>1. /\ Typed(c) /\ PlacesReady(c) /\ ReadTruly(c) /\ OfPlate(c)
    BY <1>1 DEF LookInv, LookSound
  <2>2. ASSUME NEW i \in DOMAIN got[c], got[c][i].id # 0
        PROVE  i \in DOMAIN index[c] /\ AsItWas(c, index[c][i], got[c][i])
    BY <2>1, <2>2 DEF ReadTruly
  <2>3. ASSUME NEW i \in DOMAIN got[c], NEW j \in DOMAIN got[c], i < j,
               got[c][i].id # 0, got[c][j].id # 0
        PROVE  got[c][i].id < got[c][j].id
    <3>1. /\ i \in DOMAIN index[c] /\ got[c][i].id = index[c][i]
          /\ j \in DOMAIN index[c] /\ got[c][j].id = index[c][j]
      BY <2>2, <2>3 DEF AsItWas
    <3> QED
      BY <2>1, <2>3, <3>1 DEF PlacesReady
  <2>4. ASSUME NEW i \in DOMAIN got[c], NEW fine, fine = got[c][i],
               fine.id # 0
        PROVE  /\ Chain!Metadata(fine) = Chain!Metadata(fines[fine.id])
               /\ Kind(c) \in ByPlate =>
                    fine.plateNumber = PlateOf(lookup[c])
               /\ \E k \in DOMAIN fineStatusHistory[fine.id] :
                    /\ k >= before[c][fine.id]
                    /\ fine.currentState
                         = fineStatusHistory[fine.id][k].newState
    <3>1. PICK id : id = fine.id
      OBVIOUS
    <3>2. i \in DOMAIN index[c] /\ index[c][i] = id /\ AsItWas(c, id, fine)
      BY <2>2, <2>4, <3>1 DEF AsItWas
    <3>3. /\ id \in 1 .. fineIds
          /\ Chain!Metadata(fine) = Chain!Metadata(fines[id])
      BY <3>2 DEF AsItWas
    <3>4. PICK k \in DOMAIN fineStatusHistory[id] :
            /\ before[c][id] <= k
            /\ fine.currentState = fineStatusHistory[id][k].newState
      BY <3>2 DEF AsItWas
    <3>5. k >= before[c][id]
      BY <3>4
    <3>6. ASSUME Kind(c) \in ByPlate
          PROVE  fine.plateNumber = PlateOf(lookup[c])
      <4>1. fines[id].plateNumber = PlateOf(lookup[c])
        BY <2>1, <3>2, <3>6 DEF OfPlate
      <4>2. fine \in Chain!Fine
        BY <2>1, <2>4, ElementOf DEF Typed
      <4>3. id \in 1 .. MaxFines /\ fines[id] \in Chain!Fine
        BY <1>1, <3>3, LedgerHas, ListingAssumption
      <4> QED
        BY <3>3, <4>1, <4>2, <4>3, MetadataTells
    <3> QED
      BY <3>1, <3>3, <3>4, <3>5, <3>6
  <2> QED
    BY <2>3, <2>4
<1>2. LookInv /\ Contract!LedgerInv => LookupsTruthful
  BY <1>1 DEF LookupsTruthful
<1> QED
  BY <1>2, LookupsHold, LedgerHolds, PTL

(* A lookup by plate leaves out no fine of the plate that was registered   *)
(* when it was asked for, except that the citizen's query leaves out those *)
(* whose own read failed.                                                  *)
THEOREM LookupsAreComplete == ReadsSpec => []LookupsComplete
<1>1. ASSUME LookInv, NEW c \in Clients, Served(c, ByPlate)
      PROVE  /\ {id \in KnownFines(c) : fines[id].plateNumber =
                   IF Kind(c) = "plate" THEN Normal[lookup[c].text]
                                        ELSE lookup[c].text}
                  \subseteq FinesShown(c) \cup {index[c][i] : i \in missed[c]}
             /\ Kind(c) # "citizen" => missed[c] = {}
  <2>1. /\ Typed(c) /\ ReadTruly(c) /\ OfPlate(c) /\ AllShown(c)
        /\ Kind(c) \in ByPlate /\ code[c] = 200
    BY <1>1 DEF LookInv, LookSound, Served
  <2>2. PlateOf(lookup[c]) = IF Kind(c) = "plate" THEN Normal[lookup[c].text]
                                                 ELSE lookup[c].text
    BY DEF PlateOf, Kind
  <2>3. ASSUME NEW id \in KnownFines(c),
               fines[id].plateNumber = PlateOf(lookup[c])
        PROVE  id \in FinesShown(c) \cup {index[c][i] : i \in missed[c]}
    <3>1. PICK i \in DOMAIN index[c] : index[c][i] = id
      BY <2>1, <2>3 DEF OfPlate
    <3>2. got[c][i].id # 0 \/ i \in missed[c]
      BY <2>1 DEF AllShown
    <3>3. i \in DOMAIN got[c]
      BY <2>1 DEF AllShown, Typed
    <3>4. got[c][i].id # 0 => got[c][i].id = id
      BY <2>1, <3>1, <3>3 DEF ReadTruly, AsItWas
    <3> QED
      BY <3>1, <3>2, <3>3, <3>4 DEF FinesShown
  <2> QED
    BY <2>1, <2>2, <2>3 DEF AllShown
<1>2. LookInv => LookupsComplete
  BY <1>1 DEF LookupsComplete
<1> QED
  BY <1>2, LookupsHold, PTL

(* The latest changes, of which there are finitely many, in an order that  *)
(* goes by their times.                                                    *)
LEMMA FinitelyManyChanges ==
  ASSUME NEW c \in Clients, Typed(c), AllFinesRead(c), fineIds \in Nat
  PROVE  IsFiniteSet(AllChanges(c))
<1>1. PICK n, last : n = Len(entries[c]) /\ last = PartHistory + 1
  OBVIOUS
<1>2. n \in Nat /\ last \in Nat /\ DOMAIN entries[c] = 1 .. n
  BY <1>1, LookupsAssumption DEF Typed
<1>3. IsFiniteSet((1 .. n) \X (1 .. last))
  <2>1. 1 \in Int /\ n \in Int /\ last \in Int
    BY <1>2
  <2>2. IsFiniteSet(1 .. n) /\ IsFiniteSet(1 .. last)
    BY <2>1, FS_Interval
  <2>3. PICK S, T : S = 1 .. n /\ T = 1 .. last
    OBVIOUS
  <2>4. IsFiniteSet(S) /\ IsFiniteSet(T)
    BY <2>2, <2>3
  <2>5. IsFiniteSet(S \X T)
    BY <2>4, FS_Product, Zenon
  <2> QED
    BY <2>3, <2>5
<1>4. AllChanges(c) \subseteq (1 .. n) \X (1 .. last)
  <2> SUFFICES ASSUME NEW i \in 1 .. n, NEW k \in 1 .. Len(entries[c][i]) + 1
               PROVE  <<i, k>> \in (1 .. n) \X (1 .. last)
    BY <1>2 DEF AllChanges
  <2>1. entries[c][i] \in Seq(Chain!FineStatusUpdate)
    BY <1>2, ElementOf DEF Typed
  <2>2. Len(entries[c][i]) \in Nat
    BY <2>1
  <2>3. Len(entries[c][i]) <= PartHistory
    BY <1>1 DEF AllFinesRead, Part
  <2>4. k \in 1 .. last
    BY <1>1, <1>2, <2>2, <2>3, LookupsAssumption
  <2> QED
    BY <2>4
<1> QED
  BY <1>3, <1>4, FS_Subset

LEMMA ChangesHaveTimes ==
  ASSUME NEW c \in Clients, Typed(c), Len(entries[c]) = Len(got[c]),
         NEW q \in AllChanges(c)
  PROVE  ChangeAt(c, q).timestamp \in Nat
<1>1. PICK i \in DOMAIN entries[c] :
        \E k \in 1 .. Len(entries[c][i]) + 1 : q = <<i, k>>
  BY DEF AllChanges
<1>2. PICK k \in 1 .. Len(entries[c][i]) + 1 : q = <<i, k>>
  BY <1>1
<1>3. PICK history, fine : history = entries[c][i] /\ fine = got[c][i]
  OBVIOUS
<1>4. history \in Seq(Chain!FineStatusUpdate)
  BY <1>3, ElementOf DEF Typed
<1>5. i \in DOMAIN got[c]
  BY DEF Typed
<1>6. fine \in Chain!Fine
  BY <1>3, <1>5, ElementOf DEF Typed
<1>7. q[1] = i /\ q[2] = k
  BY <1>2
<1>8. CASE k \in DOMAIN history
  <2>1. history[k] \in Chain!FineStatusUpdate
    BY <1>4, <1>8, ElementOf
  <2>2. history[k].lastUpdatedTimestamp \in Nat
    BY <2>1 DEF Chain!FineStatusUpdate
  <2> QED
    BY <1>3, <1>7, <1>8, <2>2 DEF ChangeAt
<1>9. CASE k \notin DOMAIN history
  <2>1. fine.timestamp \in Nat
    BY <1>6 DEF Chain!Fine
  <2> QED
    BY <1>3, <1>7, <1>9, <2>1 DEF ChangeAt
<1> QED
  BY <1>8, <1>9

LEMMA OlderAreAfter ==
  ASSUME NEW c \in Clients, Typed(c), Len(entries[c]) = Len(got[c]),
         IsFiniteSet(AllChanges(c)),
         NEW p \in AllChanges(c), NEW q \in AllChanges(c),
         AmongTheFirst(c, q),
         ChangeAt(c, q).timestamp < ChangeAt(c, p).timestamp
  PROVE  AmongTheFirst(c, p)
<1>1. PICK P, Q : /\ P = {r \in AllChanges(c) : Precedes(c, r, p)}
                  /\ Q = {r \in AllChanges(c) : Precedes(c, r, q)}
  OBVIOUS
<1>2. P \subseteq Q
  <2> SUFFICES ASSUME NEW r \in AllChanges(c), Precedes(c, r, p)
               PROVE  Precedes(c, r, q)
    BY <1>1
  <2>1. PICK tr, tp, tq : /\ tr = ChangeAt(c, r).timestamp
                          /\ tp = ChangeAt(c, p).timestamp
                          /\ tq = ChangeAt(c, q).timestamp
    OBVIOUS
  <2>2. tr \in Nat /\ tp \in Nat /\ tq \in Nat
    BY <2>1, ChangesHaveTimes
  <2>3. tr >= tp /\ tq < tp
    BY <2>1, <2>2 DEF Precedes
  <2>4. tr > tq
    BY <2>2, <2>3
  <2> QED
    BY <2>1, <2>4 DEF Precedes
<1>3. IsFiniteSet(Q)
  <2>1. Q \subseteq AllChanges(c)
    BY <1>1
  <2> QED
    BY <2>1, FS_Subset
<1>4. IsFiniteSet(P) /\ Cardinality(P) <= Cardinality(Q)
  BY <1>2, <1>3, FS_Subset
<1>5. Cardinality(P) \in Nat /\ Cardinality(Q) \in Nat
  BY <1>3, <1>4, FS_CardinalityType
<1>6. Cardinality(Q) < LatestChanges
  BY <1>1 DEF AmongTheFirst
<1>7. Cardinality(P) < LatestChanges
  BY <1>4, <1>5, <1>6, LookupsAssumption
<1> QED
  BY <1>1, <1>7 DEF AmongTheFirst

(* A change that was recorded before the request, among the first entries  *)
(* of its fine, is left out only for changes that are at least as new,     *)
(* although the histories are read one after the other while others go on  *)
(* updating.                                                               *)
THEOREM LatestAreShown == ReadsSpec => []LatestChangesShown
<1>1. ASSUME LookInv, ReadsInv, Contract!LedgerInv, NEW c \in Clients,
             Served(c, {"activity"}), NEW id \in KnownFines(c),
             NEW k \in 1 .. Chain!Least(before[c][id], PartHistory),
             NEW entry, entry = fineStatusHistory[id][k]
      PROVE  \/ \E change \in Shown(c) :
                  /\ change.fineId = id /\ change.status = entry.newState
                  /\ change.timestamp = entry.lastUpdatedTimestamp
             \/ \A change \in Shown(c) :
                  change.timestamp >= entry.lastUpdatedTimestamp
  <2>1. /\ Typed(c) /\ AllFinesRead(c) /\ Len(entries[c]) = Len(got[c])
    BY <1>1 DEF LookInv, LookSound, Latest, Served
  <2>2. fineIds \in Nat /\ IsFiniteSet(AllChanges(c))
    BY <1>1, <2>1, LedgerHas, FinitelyManyChanges
  <2>3. PICK part : part = entries[c][id]
    OBVIOUS
  <2>4. id \in 1 .. fineIds /\ id \in 1 .. MaxFines
    BY <1>1, KnownIsRegistered
  <2>5. id \in 1 .. Len(got[c]) /\ id \in DOMAIN entries[c]
    <3>1. id <= Len(got[c]) /\ Len(got[c]) \in Nat
      BY <1>1, <2>1 DEF AllFinesRead, Typed
    <3>2. id \in 1 .. Len(got[c])
      BY <2>2, <2>4, <3>1
    <3> QED
      BY <2>1, <3>2 DEF Typed
  <2>6. got[c][id].id = id /\ Part(c, id)
    BY <2>1, <2>5 DEF AllFinesRead
  <2>7. part \in Seq(Chain!FineStatusUpdate)
    BY <2>1, <2>3, <2>5, ElementOf DEF Typed
  <2>8. /\ Chain!Least(before[c][id], PartHistory) <= Len(part)
        /\ \A n \in 1 .. Len(part) : part[n] = fineStatusHistory[id][n]
    BY <2>3, <2>6 DEF Part
  <2>9. k \in 1 .. Len(part) /\ k \in Nat
    <3>1. before[c][id] \in Nat /\ PartHistory \in Nat
      BY <1>1, <2>4, LookupsAssumption DEF ReadsInv, LookupTypes
    <3>2. Chain!Least(before[c][id], PartHistory) \in Nat /\ Len(part) \in Nat
      BY <2>7, <3>1 DEF Chain!Least
    <3> QED
      BY <1>1, <2>8, <3>2
  <2>10. k \in DOMAIN part /\ part[k] = entry
         /\ k \in 1 .. Len(part) + 1
    BY <1>1, <2>7, <2>8, <2>9
  <2>11. PICK p : p = <<id, k>>
    OBVIOUS
  <2>12. p \in AllChanges(c)
    BY <2>3, <2>5, <2>10, <2>11 DEF AllChanges
  <2>13. /\ ChangeAt(c, p).fineId = id
         /\ ChangeAt(c, p).status = entry.newState
         /\ ChangeAt(c, p).timestamp = entry.lastUpdatedTimestamp
    BY <2>3, <2>6, <2>10, <2>11 DEF ChangeAt
  <2>14. CASE AmongTheFirst(c, p)
    <3>1. ChangeAt(c, p) \in Shown(c)
      BY <2>12, <2>14 DEF Shown
    <3> QED
      BY <2>13, <3>1
  <2>15. CASE ~ AmongTheFirst(c, p)
    <3>1. ASSUME NEW q \in AllChanges(c), AmongTheFirst(c, q)
          PROVE  ChangeAt(c, q).timestamp >= entry.lastUpdatedTimestamp
      <4>1. ~ (ChangeAt(c, q).timestamp < ChangeAt(c, p).timestamp)
        BY <2>1, <2>2, <2>12, <2>15, <3>1, OlderAreAfter
      <4>2. /\ ChangeAt(c, q).timestamp \in Nat
            /\ ChangeAt(c, p).timestamp \in Nat
        BY <2>1, <2>12, ChangesHaveTimes
      <4> QED
        BY <2>13, <4>1, <4>2
    <3> QED
      BY <3>1 DEF Shown
  <2> QED
    BY <2>14, <2>15
<1>2. LookInv /\ ReadsInv /\ Contract!LedgerInv => LatestChangesShown
  BY <1>1 DEF LatestChangesShown
<1> QED
  BY <1>2, LookupsHold, LookupsSound, LedgerHolds, PTL
=============================================================================
