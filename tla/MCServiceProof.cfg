SPECIFICATION FairSpec
CONSTANTS
  Operators = {"a", "b"}
  Assigners = {"g"}
  Clients = {"a", "c", "d", "w"}
  Blobs = {"x", "y"}
  BlobSize <- TwoBlobs
  Rewards = {"w", "mod"}
  BlockedRewards = {"mod"}
  Receipts <- MCReceipts
  InitialReserve = 1000
  BasisPointsMax = 10000
  CreditScale = 2
  Gibibyte = 3
  ChallengeFailureScore = 25
  InvalidEvidenceScore = 50
  Instances <- MCInstances
INVARIANTS
  ServiceBooks
  NothingPaidTwice
  JailIsServed
PROPERTIES
  BondOutlastsEvidence
  ChallengesAreResolved
