\* Two nodes, a fair network, four faults of any kind.
SPECIFICATION FairSpec
CONSTANTS
  alice = alice
  bob = bob
  carol = carol
  d1 = d1
  a1 = a1
  a2 = a2
  Data = {d1}
  AckIds = {a1, a2}
  Nodes = {alice, carol}
  Lanes = {1}
  MayExpire = {}
  Faults = {"drop", "answer", "vector", "registry", "stop", "crash"}
  MaxFaults = 4
  MaxCopies = 2
  Capacity = 3
  AckOf <- MCAckOf
  Source <- MCSource
  Destination <- MCDestination
  Peers <- Mesh
INVARIANTS
  TypeOK
  AckMeansDelivered
  OneAckPerData
PROPERTIES
  HeldUntilDelivered
  EventuallyDelivered
CHECK_DEADLOCK FALSE
