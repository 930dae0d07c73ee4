SPECIFICATION Spec
CONSTANTS
  c1 = c1
  c2 = c2
  r = r
  alice = alice
  bob = bob
  n1 = n1
  n2 = n2
  rust = rust
  Nil = Nil
  PageCap = 3
  ScanCap = 4
  AnyBurst = 2
  PostBurst = 2
  Clients = {c1, c2, r}
  AuthorOf <- MCAuthorOf
  Nodes = {n1, n2}
  MaxTime = 3
  MaxFaults = 1
  Retention = 1
  MaxEvents = 5
  Devices = {1, 2}
  Ids = {1, 2, 3, 4, 5}
  Shares = {1, 2}
  MaxEntries = 5
  MaxVersions = 3
  MaxTombstones = 2
  MaxObjects = 6
INVARIANTS  NothingIsSkipped 
PROPERTY RevokedStaysRevoked
CHECK_DEADLOCK FALSE
