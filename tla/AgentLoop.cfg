SPECIFICATION FairSpec
CONSTANTS
  a = a
  b = b
  n = n
  l = l
  p = p
  q = q
  None = None
  Empty = Empty
  Torn = Torn
  Agent <- Agents
  Name = {n}
  Key = {l}
  Configurations <- Some
  JoinCode <- Codes
  LocalPeers <- Monitored
  LocalMonitor = {b}
  MayLose <- Losers
  Peer = {p, q}
  MaxIdentities = 2
  MaxChanges = 3
  MaxFaults = 1
INVARIANTS
  TypeOK
  IdentityIsDurable
  JoinedWasApproved
  WatchedWasBound
PROPERTIES
  DeletedStaysOut
  ApprovedIsServed
  ListIsWatched
