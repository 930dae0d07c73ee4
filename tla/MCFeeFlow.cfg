SPECIFICATION FairSpec
CONSTANTS
  alice = alice
  bob = bob
  module = module
  none = none
  Addresses = {alice, bob, module}
  Blocked = {module}
  NoAddress = none
  BasisPointDenominator = 10000
  MaxFounderFeeBasisPoints = 100
  GasFees = {199}
  ServiceFees = {250}
  FounderParams <- MCParams
  HeightCap = 4
  HeightCycle = 2
  MaxFeeTxs = 3
  MaxChanges = 2
  MaxRestarts = 1
  ZeroHeightExport = FALSE
INVARIANTS
  BooksBalance
  ShareIsBounded
  RevenueHasItsOwner
PROPERTIES
  RevenueIsPaid
