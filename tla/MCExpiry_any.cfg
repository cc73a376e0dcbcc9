\* A line, half a second a tick, DATA created in the second half of a second; a
\* ttl of 15 is negative as a signed number of four bits; the clock runs until
\* every copy of the DATA is expired.
SPECIFICATION Spec
CONSTANTS
  alice = alice
  bob = bob
  carol = carol
  Nodes = {alice, bob, carol}
  Source = alice
  Destination = carol
  Links <- Line
  Births = {1}
  Ttls = {1, 15}
  Half = 8
  Ticks = 2
  MaxTime = 5
INVARIANTS
  TypeOK
PROPERTIES
  
  NeverEarly
  DataDiesOut
CHECK_DEADLOCK FALSE
