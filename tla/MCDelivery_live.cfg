SPECIFICATION FairSpec
CONSTANTS
  Stores = {"s1"}
  Envelopes = {1, 2, 3}
  Kind <- MCKind
  Needs <- MCNeeds
  EnvelopeTtl = 1
  MaxEnvelopes = 3
  PageLimit = 1
  SeenCap = 3
  FailedAttemptsCap = 2
  MaxTime = 0
  MaxPuts = 3
  MaxFaults = 2
  MaxCrashes = 0
PROPERTIES
  MailboxDrains
