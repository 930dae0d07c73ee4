SPECIFICATION Spec
CONSTANTS
  Stores = {s1, s2}
  s1 = s1
  s2 = s2
  Envelopes = {1, 2, 3}
  Kind <- MCKind
  Needs <- MCNeeds
  EnvelopeTtl = 1
  MaxEnvelopes = 2
  PageLimit = 1
  SeenCap = 3
  FailedAttemptsCap = 2
  MaxTime = 1
  MaxPuts = 3
  MaxFaults = 1
  MaxCrashes = 1
SYMMETRY StoreSymmetry
INVARIANTS
  StoreBooks
  
