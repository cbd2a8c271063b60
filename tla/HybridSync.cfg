\* The synchronisation: two overlapping rounds, two starts of the services.
CONSTANTS
  wallet = wallet
  clerk = clerk
  zero = zero
  plate = plate
  street = street
  speeding = speeding
  one = one
  other = other
  cid = cid
  register = register
  update = update
  appeal = appeal
  cancel = cancel
  NoOp = NoOp
  Empty = Empty
  Address <- MCAddress
  NoAddress = zero
  Deployer = clerk
  Wallet = wallet
  Text <- MCText
  Ops <- MCOps
  Mixes <- MCMixes
  Kind <- MCKind
  FineId <- MCFineId
  MaxRetries <- MCMaxRetries
  IdText <- MCIdText
  InternalFine <- MCInternalFine
  OtherFines <- MCOtherFines
  OtherStates <- PaidOnly
  FinesOfOthers = 1
  EntriesOfOthers = 2
  MaxRounds = 2
  MaxStarts = 2
  MaxFines = 6
  MaxUpdates = 7
  MaxBlock = 0

SPECIFICATION FairSpec
CHECK_DEADLOCK FALSE

INVARIANTS
  TypeOK
  OperationsAccounted
  RegistrationsAccounted
  UpdatesAccounted
  MismatchesExplained

PROPERTIES
  ImplementsDelivery
  EveryOperationEnds
