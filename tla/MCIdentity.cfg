SPECIFICATION Spec
CONSTANTS
  Addresses = {alice, bob}
  Guardians = {g1, g2}
  RootKeys = {k1, k2}
  DeviceIds = {phone, laptop}
  DeviceKeys = {d1, d2}
  None = None
  Configs <- MCConfigs
  MaxDevicesPerIdentity = 2
  MaxGuardians = 2
  MinRecoveryDelayBlocks = 1
  MaxCertificateAgeBlocks = 1
  MaxInt64 = 100
  MaxHeight = 3
  MaxTxs = 6
SYMMETRY Interchangeable
INVARIANTS
  AuthorityAgrees
PROPERTIES
  RevokedForGood
  CancelBuysDelay
CHECK_DEADLOCK FALSE
