SPECIFICATION Spec
CONSTANTS
  A = A
  B = B
  D = D
  n1 = n1
  n2 = n2
  n3 = n3
  u1 = u1
  u2 = u2
  h1 = h1
  h2 = h2
  h3 = h3
  Nobody = Nobody
  Nodes = {n1, n2, n3}
  Clients = {u1, u2}
  BlobIds = {A, B, D}
  ChunksOf <- MCChunksOf
  SizeOf <- MCSizeOf
  Quota = 4
  UploaderShare = 3
  TTL = 0
  Target = 3
  MaxPushes = 1
  RateBurst = 2
  RateRefill = 1
  MaxHeightSkew = 1
  NoNode = NoNode
  Tasks <- MCTasks
  AccountOf <- MCAccountOf
  PollAttempts = 1
  MaxTx = 5
  Batch = 1
  PendingCap = 1
  Challenges = {1, 2, 3}
  BlobOf <- MCBlobOf
  HeldBlobs = {"blob"}
  Operator = "me"

  
  
PROPERTIES
  RepairReachesTarget
  ChainWorkEnds
CHECK_DEADLOCK FALSE
