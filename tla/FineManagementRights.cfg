\* The contract alone: rights: two accounts, one fine.
CONSTANTS
  deployer = deployer
  agent = agent
  zero = zero
  plateA = plateA
  plateB = plateB
  cid = cid
  street = street
  speeding = speeding
  driver = driver
  Empty = Empty
  Address <- TwoAddresses
  NoAddress = zero
  Deployer = deployer
  Text <- MCText
  Submissions <- OneSubmission
  MaxFines = 1
  MaxUpdates = 3
  MaxBlock = 1

SPECIFICATION Spec
CHECK_DEADLOCK FALSE

PROPERTIES
  EveryChangeIsSigned
