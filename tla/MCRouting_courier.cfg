\* A fair network in which one send or its answer is lost.
SPECIFICATION FairSpec
CONSTANTS
  alice = alice
  bob = bob
  carol = carol
  d1 = d1
  a1 = a1
  a2 = a2
  Data = {d1}
  AckIds = {a1}
  Nodes = {alice, bob, carol}
  Lanes = {1}
  MayExpire = {}
  Faults = {"answer", "drop"}
  MaxFaults = 1
  MaxCopies = 1
  Capacity = 3
  AckOf <- MCAckOf
  Source <- MCSource
  Destination <- MCDestination
  Peers <- Line
PROPERTIES
  ImplementsCourier
  GlobalDelete
CHECK_DEADLOCK FALSE
