# Formal models of backend-multas

TLA+ models of the traffic-fine register in `src/`: an Ethereum smart contract,
the Node.js backend that registers and updates fines through it, and the
requests that read them back.  The models are checked with TLC on small
instances; the most important properties are proved with TLAPS for every
instance.  `PROJECT.json` relates every definition to the lines it models.

## 1. The system

`src/src/app.ts:23` mounts one set of routes, those of the hexagonal
application under `src/src/contexts/fines`.  A request passes the controller,
a use case, the Ethereum adapter and the older `BlockchainRepository`
(`src/src/fine/repositories`), which calls the contract through ethers v6.
Evidence goes to IPFS.  Besides, the repository holds a hybrid layer, services
for Hyperledger, for Ethereum and for the synchronisation of the two, and an
older set of controllers and services over the same repository.  No mounted
route reaches either; they are modelled as their callers would use them.

| Component | State it keeps | Operations | Talks to |
|---|---|---|---|
| Contract `FineManagement.sol` | owner, operators, counter, fines, histories, two indices | `registerFine`, `updateFineStatus`, `addOperator`, `removeOperator`, `transferOwnership`, `renounceOwnership`, views | called by transactions of any account |
| Life cycle `FineState` | none | transition table | used by the update use case |
| Domain `Fine` and value objects | none (immutable) | create, validate, late fee | built on the way in and on the way out of the contract |
| Register and update requests | the locals of each request between its awaits | `POST /api/fines`, `PUT /api/fines/:id/status` | IPFS, one wallet, one node, the contract |
| Integrity check | the locals of each request | `GET /api/fines/:id/verify` and `/integrity` (one handler) | five views of the contract |
| Listing | the locals of each request; a client's walk | `GET /api/fines` | two views, three calls |
| Other reads | the locals of each request | one fine, by plate, history, evidence, recent history; the hexagonal, the legacy and the hybrid form of each | several views of the contract; IPFS |
| Ethereum node (external) | the wallet's transactions by nonce, receipts | estimate, accept, replace, mine | the contract |
| IPFS (external) | stored files | add, cat | - |
| Synchronisation `SyncService` | in-memory queue of operations, a timer, the rounds in flight | enqueue, process, retry, compare | Hyperledger and Ethereum services |
| `HyperledgerService`, `EthereumService` | whether they are initialised; the Fabric client | register, update, read | a simulated ledger; the repository |
| Service factory | the services | initialise in order, shut down | all services |
| Legacy services and controllers | none | reads, writes, SIMIT and Apitude | repository, IPFS, outside services |

What is hard here:

* Requests interleave at every await.  An update is validated against a state
  that was read several awaits before its transaction is executed.
* All transactions come from one wallet: two requests may read the same nonce,
  and then one is refused or replaces the other while its client waits.
* Any call may fail or lose its answer after it took effect; the process exits
  on an unhandled rejection (`server.ts:12`) while its transactions go on.
* Evidence is uploaded, then the entity is validated, then the transaction is
  sent; each step may fail after the one before.
* The contract validates less than the domain (owner, formats), and the domain
  less than the contract (a cost of 0), so each can refuse what the other took.
* Reads that belong together (state and history, count and page and total, the
  fines of a plate) are separate calls, some of them in parallel; one may fail
  while the others succeed.
* The timer of the synchronisation starts a round whether or not the one before
  has ended; a failed operation is queued again although part of it was done;
  the queue is in memory only.
* Several transactions share a block and therefore a timestamp.
* The time of a block and the backend's clock are two clocks, and the domain
  refuses what is in the future of its own.

What makes each component correct:

* Contract: numbers are dense; histories account for states and are in the
  order of time; indices are exact; nothing but the state of a fine changes,
  and only by somebody with the right.
* Requests: what a client is told is true; every acknowledged update is in the
  history; no fine without its evidence, none that the domain refuses for good
  when it is read back; every request is answered.
* Integrity check: no alarm without a reason.
* Listing: a walk over the pages misses nothing and repeats nothing.
* Other reads: what is shown is true and in order; a response without an error
  leaves nothing out; "not found" is said of nothing that exists; evidence is
  whole.
* Synchronisation: no operation is lost in memory or doubled in the queue, its
  effects on both chains lie between what was reported and what was tried, and
  the queue drains.

## 2. The modules

| Module | Models | Kind |
|---|---|---|
| `FineStates` | enum and transition table | definitions |
| `FineDomain` | what the value objects and the entity accept; `toDomain` | definitions |
| `FineLedger` | what a register of fines promises: a book that only grows | abstract specification |
| `FineManagement` | the contract | specification; implements `FineLedger` |
| `FineRequests` | POST and PUT over wallet, node and IPFS | composes `FineManagement` |
| `IntegrityCheck` | the integrity check while others write | composes `FineManagement` |
| `FineListing` | walks over the list, and the recent history, while others write | composes `FineManagement` |
| `FineReads` | the other reads: lookups, histories, latest changes, evidence | extends `FineListing` |
| `SyncDelivery` | what the synchronisation promises of one operation | abstract specification |
| `HybridSync` | queue, rounds, services and wallet of the synchronisation | composes `FineManagement`; implements `SyncDelivery` |
| `MC*` | the small instances that the `.cfg` files name | model checking |
| `FineManagementProofs`, `FineRequestsProofs`, `FineAnswersProofs`, `IntegrityCheckProofs`, `FineReadsProofs`, `FineLookupsProofs`, `HybridSyncProofs`, `HybridAccountsProofs` | theorems | proofs |

### FineManagement

One variable per storage variable of the contract, and `block`, the height of
the block being built.  Timestamps strictly increase with the height, so the
height stands for `block.timestamp` and `block.number`.  A transaction is
atomic and a failed `require` reverts it: the requires are the guards.
`operators` is the set of addresses mapped to true.  Reasons and events are
left out, except the number in `FineRegistered`, which the backend reads.
Strings are members of `Text`.  The views are operators; `getPaginatedFines`
and `getFineStatusHistory` share `Page`.  `transferOwnership` and
`renounceOwnership` are OpenZeppelin's and marked external.

### FineRequests

One process per request.  `pc` names the call that a request awaits, and each
action is the code between two awaits: `AcceptRegister`, `Upload`,
`UploadFails`; `AcceptUpdate`, `Read`; and, for both, `GetNonce`,
`EstimateGas`, `Broadcast` or `Refused`, `Settle`.  `CallFails` ends a request
at any await, whatever became of the call; `Crash` ends all requests in flight
and leaves what they sent with the node.  Requests that have not been made yet
then arrive at the restarted process.

The node is external and appears as ethers and the backend rely on it: `slots`
is the wallet's transactions by nonce, `mined` how many of them are executed,
`receipt` what `wait()` finds.  A transaction takes the next nonce or replaces
a pending one; `wait()` notices that it was replaced.  A transaction that would
revert by the time it is mined gets a receipt with status 0, which makes
`wait()` throw.  The provider's short cache of equal calls gives answers that
an earlier call would have given, which the interleaving includes.
Reorganisations of the chain and a node that forgets accepted transactions are
not modelled.

### FineDomain

A format (plate, CID, infraction) is the set of strings that satisfy it.
Upper-casing and the underscores of an infraction are the function `Normal`, so
a lower-case plate is stored in upper case.  A cost is counted in halves of a
peso, which is what `Math.round` distinguishes.

The entity refuses a timestamp in the future (`Fine.ts:42`).  The timestamp of
a fine is its block's, the future is that of the backend's clock, and nothing
ties the two together: the node of `docker-compose.yml` mines a block for every
transaction, each with a later time than the one before, so a burst of them
carries the chain ahead of the clock.  `Clock` lets the backend read, at every
use, any time up to the chain's, an earlier one than at its last use included.
A fresh fine is then refused when it is read back, with the page or the plate
it is on, until the clock has caught up.  A clock ahead of the chain is a block
mined without a transaction.  Fines are created with the time of the same
clock, which is never in its own future.

### IntegrityCheck

`Ask`, `Find`, `ReadFine`, `ReadRegistration`, `ReadTotal`, `ReadHistory`: the
calls of `VerifyIntegrityUseCase` and `verifyBlockchainIntegrity`, in order.
`Transact` is a transaction of anyone else between them.  `LastStatus` is the
head of the code's stable sort by descending time.  The auxiliary field `since`
remembers how long the history was when the state was read.  The legacy
controller and `EthereumService` ask the repository at once, without the fine
as a domain entity: `FirstCalls`.

### FineListing

`ReadCount`, `ReadPage`, `ReadTotal` are the three calls of one request; the
client (external) goes on with `AskNext` while `totalPages` promises another
page.  `Showable` is the late fee of `toDetailsDTO`.  Of the states that others
update a fine to, the listing only tells PENDING from the rest, so `NewStates`
need not hold them all.  `AskRecent` is `getRecentHistory`, which serves page 1
of the same list and turns every failure into an empty history.

### FineReads

A lookup is a kind, a number and a text. `Handler` gives, for each of fourteen
handlers, the call it begins with and the statuses it answers with when it
refuses a request, finds no fine, or a call fails. `step` names what a lookup
awaits: the index of a plate, fines, a count, a page, histories, or pieces of a
file. Count and fine are one step: fines are never removed, so what the code
reads a call later is no less. `ReadFine` and `ReadFails` take any fine that is
still unread, because `Promise.all` starts all reads at once; `citizenQuery`
awaits one after the other and goes on after a failure. `got` is placed by
position whatever order the answers have. Histories are read one after the
other by the legacy recent history, while others go on writing. `ReceivePiece`
is one chunk of `ipfs.cat`; IPFS waits for a file it does not hold, so such a
request ends only by a failure. An empty file is accepted by the upload but can
never be read back. The auxiliary `before` remembers the lengths of all
histories when the request arrived: what the response may not contradict.

### HybridSync

`Boot`, `InitHyperledger`, `InitEthereum`, `InitSync` and `StartSync` are
`initializeServices`, call by call; `ShutDown` may fall between any two of
them.  `setting` is what the configuration enables and what callers will hand
over.  `Tick` is one firing of the timer up to the first real await: the
operation leaves the queue, and the Hyperledger part, which the code simulates,
is done.  Then a round goes through `GetNonce`, `EstimateGas`, `Broadcast` or
`Refused`, `Settle` and `Audit`, like a request of `FineRequests`; at every one
`CallFails`.  `Fail` and `Finish` are the `catch` and the end of
`processSyncQueue`: retry, give up, or complete.  `Crash` ends the process:
queue and rounds are gone and the operations become LOST, a status of the model
alone.  A transaction is identified by the operation and the count of its
retries, so a retry is not taken for the try before it.  `Transact` is what
others do on the chain, their rights included.

Four things of the code are taken as they are. Both hashes, that of a fine of
Hyperledger (`hyperledger.service.ts:337`) and that of a public fine
(`ethereum.service.ts:276`), call `require`, and the package is made of ES
modules (`package.json:6`), in which plain `node`, as the Dockerfile starts it,
has no `require`. There `syncFineToPublic` fails at `sync.service.ts:87`,
before the contract is called, and `verifyDataConsistency` ends in an error;
runtimes that provide `require` exist, so `setting.require` says whether this
is one, and the runs take both. Nothing in this commit assigns `fabricClient`,
so `isConnected` is always false and the synchronisation never starts; the
model lets a Fabric client exist (`setting.fabric`), which is the only way the
queue is ever worked on. The service factory is wired to stubs with the same
interface; the model is of the services themselves. And `processSyncQueue`
passes every update on as one to PENDING, under the number that Hyperledger
knows the fine by, although the contract numbers fines anew.

### SyncDelivery

What a caller may rely on: an operation is tried at most `Limit` times, each
try takes effect at most once, perhaps long after it was given up; `completed`
means that a try took effect, `failed` that none is left; a process that ends
forgets.  `HybridSync` maps `status`, `retryCount` and the successful
transactions to it (`fateOf`, `TriesOf`, `effectsOf`).

## 3. What is checked

| Run | Module, cfg | Shows |
|---|---|---|
| `contract` | `MCFineManagement`, `FineManagement.cfg` | `TypeOK`, `IdsAreDense`, `HistoryExplainsState`, `HistoryInTimeOrder`, `IndicesExact`, `PagesTile`, `MetadataImmutable`, and `ImplementsLedger`: the contract implements `FineLedger` |
| `rights` | same module, `FineManagementRights.cfg` | `EveryChangeIsSigned` under changes of owner and operators |
| `register` | `MCFineRequests`, `FineRequestsRegister.cfg` | `RegistrationsTruthful`, `AtMostOnePerRequest`, `EvidenceStored`, `FinesReadable`, `TypeOK`; `EveryRequestAnswered` under fairness |
| `update` | same module, `FineRequestsUpdate.cfg` | `UpdatesRecorded`, `ChangesJustified` |
| `race` | same module, `FineRequestsRace.cfg` | `LegalTransitions` is violated |
| `verify` | `MCIntegrityCheck`, `IntegrityCheck.cfg` | `AlarmExplained`, `TypeOK` |
| `tie` | same module, `IntegrityCheckTie.cfg` | `NoFalseAlarm` is violated |
| `registration` | same module, `IntegrityCheckRegistration.cfg` | `RegistrationRepeatable` is violated |
| `latefee` | `MCFineListing`, `FineListingLateFee.cfg` | `PagesServed` is violated |
| `recent` | same module, `FineListingRecent.cfg` | `RecentShowsLatest` is violated |
| `reads` | `MCFineReads`, `FineReads.cfg` | `WalkComplete`, `LookupsTruthful`, `LookupsComplete`, `AbsentMeansAbsent`, `HistoryFaithful`, `LatestChangesShown`, `EvidenceWhole`, `LookupTypeOK` |
| `sync` | `MCHybridSync`, `HybridSync.cfg` | `OperationsAccounted`, `RegistrationsAccounted`, `UpdatesAccounted`, `MismatchesExplained`, `TypeOK`; `ImplementsDelivery`: the queue implements `SyncDelivery`; `EveryOperationEnds` under fairness |

Every property is also checked to be breakable: for each there is a variant of
one definition, marked "Faulty" in the modules and named in `PROJECT.json`,
that makes TLC find it violated.

### What the violated properties show

* `race` - `UpdateFineStatusUseCase.ts:35` validates the transition against the
  state it read; nothing validates it again when the transaction is executed.
  Two PUT requests that read PENDING both succeed, and the fine goes from
  APPEALED to PAID, which the table forbids.  `ChangesJustified` states what
  does hold: every change was legal from some state the fine had been in.
* `tie` - `blockchain.repository.ts:315` takes the first entry of a stable sort
  by time; of two updates in one block it takes the older, and reports an
  intact fine as altered.  `AlarmExplained` states that this and an update
  between the reads are the only reasons for an alarm.
* `registration` - `getFineRegistrationDetails` returns the block and the time
  of the call, not of the registration.
* `latefee` - an overdue fine of more than 10/11 of the maximum cost makes
  `calculateCostWithLateFee` throw, and its page of the list fails until it is
  paid.
* `recent` - `getRecentHistory` shows the first page of the list, and the
  contract pages from the oldest fine upwards; once there are more fines than
  fit in it, the latest is not shown.

### What else the models show

* `RegistrationsAccounted` bounds from both sides, because the code does no
  better: a registration whose answer was lost is retried and registered once
  more; nothing looks for the fine it may have made.
* `UpdatesAccounted`: Hyperledger is written before the contract, so a retry
  may write it twice where the contract has one update.
* `MismatchesExplained`: `verifyDataConsistency`, where it does not fail,
  compares two digests over different keys, so it never calls a fine valid.
  What it lists as mismatching has one of two reasons.  The contract numbers
  fines anew, so under a number of Hyperledger it may find the fine of another
  client, and then the plate, the place or the cost differ though nothing was
  altered; or the state differs because somebody else changed it last.  The
  two can be told apart only by `externalSystemId`, which the code does not
  compare.
* `FinesReadable`: what the backend registers passes every check of the domain
  on the way back except the one on time, and that one exactly while the clock
  is behind the fine's block.  `PagesServed` and `LookupsComplete` count such a
  refusal as what it is, an error.
* `LatestChangesShown` is about the entries that `fine.service.ts:120` reads,
  the first page of each history, which holds the oldest.  Of a fine with more
  than ten entries the later ones are never looked at, so for it the "10 más
  recientes" of the code's comment are not the latest.
* `HistoryFaithful` says nothing of an empty history, because the hexagonal
  controller serves one for every failure; `AlarmExplained` says nothing of a
  check one of whose calls failed, which answers "not valid" with an empty
  history.
* `LookupsComplete` exempts the citizen's query, which leaves out a fine whose
  own read failed (`ethereum.service.ts:158`) and answers with the rest.

### Bounds, and why they are enough

* `contract`: one account, two fines, histories of three entries, two blocks,
  five argument tuples (two plates, one without an owner, two that a `require`
  rejects).  Two fines are enough to share or not to share an index and to be
  confused; three entries hold a registration and two chained updates, in one
  block or in two; pages of one and two over two fines include a full, a
  partial and an empty one, the pages past the last fine among them.
* `rights`: two accounts and one fine: an operator removed, an owner replaced
  by the other account, an owner without operator rights, and nobody.
* `register`: two POST and one PUT, five bodies (one good, four that each a
  different layer rejects: controller, value object, entity, contract), one
  file that both share, so that evidence of one may be taken for that of the
  other.  Two requests are what a nonce collision takes, and with the PUT there
  are a replaced transaction and a reverted one.
* `update`: one POST and three PUT over appeal states: an appeal, its
  resolution and a competitor, enough for a request to read one state, be
  overtaken twice and still be executed.
* `verify`: one check over one fine with up to four history entries in three
  blocks: updates before, between and after the reads, in shared and separate
  blocks.  Checks only read, so more of them add nothing but what
  `registration` uses two for.
* `latefee`, `recent`: one client and one or two fines, the largest page 2, the
  recent history 1; costs scale the maximum down to 10, the term of payment to
  0 blocks.
* `reads`: one client, which walks the list or makes one of twenty lookups, at
  least one for every handler and for every way to be refused; three fines of
  two plates and two kinds (one that the domain cannot read, one whose late fee
  exceeds the maximum once it is overdue), histories of two entries, so that
  one and two entries are a full and a partial page; a page is clipped to a
  count of one while two more fines arrive.  Clients only read, so a second one
  adds nothing.  Files of three pieces and of none.
* `sync`: two rounds, two calls of `initializeServices`, and either a
  registration with one retry together with an update of the same fine, or an
  appeal together with a cancellation.  Two rounds are what it takes to overlap
  and to compete for a nonce; with the retry there are three tries in flight on
  one fine.  Somebody else registers one fine, in another place, and updates it
  once, so that the comparison may be given the wrong fine, or the right one in
  another state; with and without `require` in the runtime.  Rights of
  the wallet are withdrawn only while a transaction of it waits, which is when
  it matters.

`MaxFines`, `MaxUpdates` and `MaxBlock` stop the counters; where requests are
bounded (`RoomAssumption`) the first two are large enough never to be reached.
In `sync` the bound on blocks is 0, since no property there is about time.  All
runs switch the deadlock check off: the environment may stop sending requests,
and the bounded instance ends where its counters do.

### Fairness

`register` assumes weak fairness of every request's next step (`Proceed`: the
awaited call returns) and of `MineTransaction` (the node mines what it has
accepted).  The first is the event loop together with a node and an IPFS that
answer; the code sets no timeout of its own on `wait()`, so without it a
request may wait for ever.

`sync` assumes less, one weak fairness of the timer, the answers and the mining
together: as long as one of them can happen, one of them does.  That is enough
because each try is finite and nothing else feeds the queue for ever.

Nothing is owed to failures, to crashes, to clients, to the services or to the
clock.

## 4. What is proved

Every invariant and every action property that a run finds to hold is a theorem
of its specification, and so are both refinements.  The theorems hold for every
value of the constants that satisfies the assumptions named in the modules:

* accounts: the deployer is one of them, `address(0)` is not
  (`AddressAssumption`, `AccountsAssumption`);
* inputs come from the given sets of requests, lookups and operations and have
  the fields of their types (`TextAssumption`, `InputsAssumption`,
  `SubmissionsAssumption`, `LookupsAssumption`, `OperationsAssumption`,
  `InternalAssumption`, `FinesAssumption`); only the operations are finitely
  many, as the tries of each are counted;
* bounds are natural numbers, and one on histories at least 1 where a read is
  bounded by it, since a registration makes an entry
  (`BoundsAssumption`, `ContractAssumption`, `ListingAssumption`); where
  requests or operations are bounded in number, the contract has room for what
  they can do (`RoomAssumption`);
* others who write to the contract of the synchronisation set states other than
  PENDING, and do not use the numbers of Hyperledger (`OthersAssumption`): what
  they would otherwise write could not be told from the synchronisation's.

The arguments, module by module:

* `FineManagementProofs` - `TypeCorrect`, `NumbersDense`, `HistorySound`,
  `HistoryOrdered`, `IndicesSound`, `MetadataPreserved`, `ChangesSigned` and
  `Refinement`.  The invariants are not inductive one by one: that a new fine
  starts an empty history needs the numbers to be dense, that an update chains
  its entry needs the history to end in the current state.  `LedgerInv`, their
  conjunction, is inductive (`LedgerCorrect`); the action properties and the
  step simulation of the refinement (`bookOfFines`) follow from it.
  `HistoriesBounded` keeps the lengths of histories within their bound.
  `PagesTiled` is the lemma `PagesJoin` about the arithmetic of `Page`: the
  first `p` pages joined are the first `p * size` entries, clipped to the
  total.  `FlattenSeq` joins by recursion on the number of pages; its value is
  found by showing that these beginnings satisfy its equation, and that a least
  number of pages for which another solution differed from them
  (`LeastElement`) would have a predecessor for which it did too.
* `FineRequestsProofs` - `ContractRefined`: the composed system, seen from the
  contract, behaves as the contract alone; so `LedgerHolds` carries `LedgerInv`
  over without proving it again, and `BackendKeepsLedger` the refinement: the
  backend as a whole implements `FineLedger`.  `RequestInv` (`RequestsSound`)
  says what each phase of a request guarantees: whoever is about to send, or
  has sent, was accepted by the domain and has its evidence in IPFS, and stays
  in a phase from which it cannot start again.  From it, `EvidenceKept` and
  `ReadBack`: what the domain accepted was vetted by every check but that on
  the block's time (`Lawful`), which the clock alone decides.
* `FineAnswersProofs` - goes on from there to what clients are told.
  `TypesKept` is the type of all variables.  `AnswersKept` adds three things a
  type cannot say: a transaction is in the wallet's queue at most once and only
  after its request has sent it (`SentOnce`), exactly those that are mined have
  a receipt (`ReceiptsMatch`), and whoever is told of a success has a success
  receipt with that number (`AnswersBacked`).  `FinesOwned` relates the
  successful receipts of registrations and the fines one to one: `Truthful` and
  `RegisteredOnce` follow.  For updates the relation is not a formula over the
  state - who made which entry is recorded nowhere - so `UpdatesBooked` says
  that some one-to-one book exists that gives every executed update its entry,
  and a step extends the book.  `NoUpdateLost` and `ChangesAccounted` count
  with it: the book is the injection that their cardinalities need.
* `IntegrityCheckProofs` - `LedgerHolds` again for this composition;
  `ChecksSound`: the state that was read is the state of entry `since` of the
  history, and what is compared is a prefix of it.  Histories are ordered
  pairwise there, since the order of neighbours alone would need an induction.
  From it, `AlarmsExplained`: an alarm has one of the two known reasons.
  `ChecksTyped` puts what is read, and so what is answered, within the bounds
  of the contract (`InBounds`), which it has from `HistoriesBounded`.
* `FineReadsProofs` - `LedgerHolds` once more, for any number of readers.
  `ReadsInv` (`LookupsSound`) confines a lookup to the calls of its kind
  (`OnCourse`), keeps what is known from when it asked behind what the contract
  holds now (`AskedEarlier`), and says what has been read so far: a beginning
  of a history, the pieces of a file.  It survives the transactions of others
  because histories only grow (`HistoriesGrow`).  `NeverDenied`,
  `HistoriesFaithful` and `EvidenceServedWhole` follow.
* `FineLookupsProofs` - what lists and lookups show.  `WalkInv` (`WalksSound`)
  says of a walk over the list that it has shown, in order, what it owes its
  client up to the end of the last page (`ShownUpTo`), that the announced pages
  hold every fine that was known when it began, and that from the second page
  on there are more fines than fit on one, so the size is not clipped and the
  pages do not overlap.  The first page may be clipped, and then start too
  early; it owes nothing beyond what it shows.  `WalksComplete` follows.
  `LookInv` (`LookupsHold`) relates what a lookup has read, call by call, to
  what the contract holds now and held when the client asked: every fine read
  is the one its place was prepared for, as registered, in a state it has been
  in since (`ReadTruly`); the index of a plate is ordered and holds the known
  fines of the plate (`PlacesReady`, `OfPlate`); what it names is shown or
  missed (`AllShown`); the latest changes come from beginnings of the histories
  of all known fines (`Counted`, `Latest`).  `LookupTypesHold`,
  `LookupsAreTruthful` and `LookupsAreComplete` follow.  `LatestAreShown` counts:
  a change has as many places before it as there are changes that precede it,
  and the predecessors of one left out include those of every one shown that
  was older, so none is.
* `HybridSyncProofs` - `QueueInv` (`QueueSound`): a round holds an operation
  exactly while it awaits something, an operation is PENDING exactly while it
  is in the queue or in a round, in one place only, and FAILED only without
  retries left.  `OperationsKept` follows.  `TryInv` (`TriesSound`) adds what
  the refinement needs: every try that is in the wallet's transactions was
  granted and is there once, an operation that is yet to be tried has no
  transaction under its present count, and an audit follows only a transaction
  that succeeded.  From the two, `DeliveryImplemented`: every step of
  `HybridSync` is a step of `SyncDelivery` or leaves it alone.  That a try takes
  effect at most once is a counting argument: the successful transactions of an
  operation inject, by their count of retries, into the tries granted so far
  (`EffectedBounded`).

* `HybridAccountsProofs` - both chains.  `LedgerHolds` carries `LedgerInv`
  over, and `SyncKeepsLedger` the refinement, as before.  `AccountsInv` adds to
  `QueueInv` and `TryInv` that only registrations and updates are sent
  (`KindsOnChain`), that what is reported as completed has a successful
  transaction (`CompletedEffected`), and that the contract holds, for every
  number of Hyperledger, exactly as many fines, and as many updates to PENDING,
  as transactions about it succeeded (`Balanced`).  Each transaction adds one
  to both sides or none.  The tries of each operation bound the transactions
  from above, as in `EffectedBounded`, and the completed operations from below:
  `RegistrationsBalance`.  `LedgerCovers` says that Hyperledger was written for
  each try that has come as far as the contract's call; `UpdatesBalance` joins
  the two.  `Faithful` - a fine that carries a number of Hyperledger, be it the
  number it is compared under or another, has the plate, place, infraction and
  cost that Hyperledger made up, and a fine that the wallet wrote last is
  PENDING - gives `MismatchesBalance`, for whatever fine the comparison finds.
  `SyncTypes` adds the types of the services.

Only model-checked:

* liveness (`EveryRequestAnswered`, `EveryOperationEnds`): fairness and ENABLED
  are out of the prover's reach;
* the five properties that a run finds violated, which no theorem could state.

## 5. What is not modelled

* The writes of the legacy controller: they reach the repository that
  `FineRequests` models, without the domain's checks; nothing mounts them.
* SIMIT and Apitude: stateless HTTP calls, made by the legacy controller only.
* What of `HyperledgerService` only returns made-up values
  (`registerInternalFine`, `processAppeal`, `getUserPermissions`,
  `getAuditTrail`), and `getSyncStats`, `healthCheck`, `resetInstances`: they
  change nothing that is used.
* The entity's own operations (`updateStatus`, `appeal`, `cancel`): no use case
  calls them.  `linkFineToSIMIT`: no mounted route reaches it, and the contract
  has no such function.
* Validation middleware, `hybrid-validations`, swagger, wiring, error wrapping:
  they narrow inputs or format outputs and keep no state.
* Compiled artifacts and caches.
* Repeated POST requests of one client: the code makes no claim of
  idempotence; a client that repeats a request whose answer was lost registers
  the fine twice.
* Evidence left in IPFS when a later step fails: nothing removes it and nothing
  depends on it.
* Reorganisations of the chain, and a node that forgets what it accepted.
