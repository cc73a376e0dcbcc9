\* Everybody sends to everybody, half a second a tick; the clock runs until an
\* ACK made at once is expired.
SPECIFICATION Spec
CONSTANTS
  alice = alice
  bob = bob
  carol = carol
  Nodes = {alice, bob, carol}
  Source = alice
  Destination = carol
  Links <- Mesh
  Births = {1}
  Ttls = {0}
  Half = 8
  Ticks = 2
  MaxTime = 3
PROPERTIES
  AckDiesOut
CHECK_DEADLOCK FALSE
