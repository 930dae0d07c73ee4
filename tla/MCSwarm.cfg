SPECIFICATION Spec
CONSTANTS
  good = good
  fork = fork
  Peers = {good, fork}
  Genuine = {good}
  Requests = {1}
  MaxPerPeer = 2
  MaxPerSubnet = 2
  MaxInbound = 1
  MaxOutbound = 1
  MinPeers = 2
  Burst = 1
  QueueCap = 2
  BanTicks = 2
  DecayPercent = 100
  BanThreshold <- MCBanThreshold
INVARIANT PeersAgree
PROPERTY SwarmRecovers
CHECK_DEADLOCK FALSE
