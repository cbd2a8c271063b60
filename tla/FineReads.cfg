\* The requests that read, while fines are registered and updated.
CONSTANTS
  wallet = wallet
  zero = zero
  plate = plate
  lowerPlate = lowerPlate
  otherPlate = otherPlate
  street = street
  speeding = speeding
  driver = driver
  cid = cid
  otherCid = otherCid
  photo = photo
  Empty = Empty
  Address <- OneAddress
  NoAddress = zero
  Deployer = wallet
  Text <- MCText
  CidOf <- MCCidOf
  Blanks <- MCBlanks
  Plates <- MCPlates
  Places <- MCPlaces
  Infractions <- MCInfractions
  Cids <- MCCids
  Normal <- MCNormal
  MaxCost = 10
  Submissions <- MCSubmissions
  Clients = {c}
  NewStates <- PaidOnly
  Lookups <- MCLookups
  Files <- MCFiles
  MaxPageSize = 2
  RecentSize = 1
  FullHistory = 1
  PartHistory = 2
  LatestChanges = 2
  DaysToPay = 0
  MaxFines = 3
  MaxUpdates = 2
  MaxBlock = 1

SPECIFICATION ReadsSpec
CHECK_DEADLOCK FALSE

INVARIANTS
  LookupTypeOK
  WalkComplete
  LookupsTruthful
  LookupsComplete
  AbsentMeansAbsent
  HistoryFaithful
  LatestChangesShown
  EvidenceWhole
