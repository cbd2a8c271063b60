\* The backend: two registrations and one update.
CONSTANTS
  wallet = wallet
  zero = zero
  plate = plate
  lowerPlate = lowerPlate
  street = street
  speeding = speeding
  driver = driver
  blank = blank
  cid = cid
  photo = photo
  Empty = Empty
  NoBody = NoBody
  NoFile = NoFile
  Address <- OneAddress
  NoAddress = zero
  Deployer = wallet
  Wallet = wallet
  Text <- MCText
  CidOf <- MCCidOf
  Blanks <- MCBlanks
  Plates <- MCPlates
  Places <- MCPlaces
  Infractions <- MCInfractions
  Cids <- MCCids
  Normal <- MCNormal
  MaxCost = 2
  RegisterReqs = {r1, r2}
  UpdateReqs = {u1}
  Bodies <- MCBodies
  Changes <- MCChanges
  MaxFines = 2
  MaxUpdates = 2
  MaxBlock = 1

SPECIFICATION FairSpec
CHECK_DEADLOCK FALSE

INVARIANTS
  TypeOK
  RegistrationsTruthful
  AtMostOnePerRequest
  EvidenceStored
  FinesReadable

PROPERTIES
  EveryRequestAnswered
