\* The destination may die between two of its storage calls.
SPECIFICATION FairSpec
CONSTANTS
  alice = alice
  bob = bob
  carol = carol
  d1 = d1
  a1 = a1
  a2 = a2
  Data = {d1}
  AckIds = {a1}
  Nodes = {alice, carol}
  Lanes = {1}
  MayExpire = {}
  Faults = {"crash"}
  MaxFaults = 1
  MaxCopies = 1
  Capacity = 3
  AckOf <- MCAckOf
  Source <- MCSource
  Destination <- MCDestination
  Peers <- Mesh
PROPERTIES
  AckReturns
CHECK_DEADLOCK FALSE
