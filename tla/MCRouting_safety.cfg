\* Three nodes in a line, an answer that may be lost, expiry at any point.
\* The other kinds of faults are in MCRouting_faults.cfg.
SPECIFICATION Spec
CONSTANTS
  alice = alice
  bob = bob
  carol = carol
  d1 = d1
  a1 = a1
  a2 = a2
  Data = {d1}
  AckIds = {a1, a2}
  Nodes = {alice, bob, carol}
  Lanes = {1}
  MayExpire = {d1}
  Faults = {"answer"}
  MaxFaults = 1
  MaxCopies = 1
  Capacity = 3
  AckOf <- MCAckOf
  Source <- MCSource
  Destination <- MCDestination
  Peers <- Line
INVARIANTS
  AckMeansDelivered
  NoDataBesideAck
  OneAckPerData
PROPERTIES
  HeldUntilDelivered
SYMMETRY AckSymmetry
CHECK_DEADLOCK FALSE
