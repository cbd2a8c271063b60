\* The contract alone: one account, two fines, three entries per history.
CONSTANTS
  deployer = deployer
  agent = agent
  zero = zero
  plateA = plateA
  plateB = plateB
  cid = cid
  street = street
  speeding = speeding
  driver = driver
  Empty = Empty
  Address <- OneAddress
  NoAddress = zero
  Deployer = deployer
  Text <- MCText
  Submissions <- MCSubmissions
  MaxFines = 2
  MaxUpdates = 3
  MaxBlock = 1

SPECIFICATION Spec
CHECK_DEADLOCK FALSE

INVARIANTS
  TypeOK
  IdsAreDense
  HistoryExplainsState
  HistoryInTimeOrder
  IndicesExact
  PagesTile

PROPERTIES
  MetadataImmutable
  ImplementsLedger
