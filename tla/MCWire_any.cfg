\* Two connections to a relay of one DATA and its ACK, and to the registry.
\* Bundles, vectors and answers of the registry arrive in any pieces; the
\* look-up's buffer holds an answer of one peer.
SPECIFICATION Spec
CONSTANTS
  c1 = c1
  c2 = c2
  b1 = b1
  a1 = a1
  n1 = n1
  Conns = {c1, c2}
  Data = {b1}
  AckOf <- MCAckOf
  Here = {}
  Elsewhere = {n1}
  Split = {"bundle", "vector", "peers"}
  Buffer = 2
  Room = 2
  MaxTries = 2
  MaxEvents = 1
INVARIANTS
  TypeOK
  SentIsReceived
  NothingMadeUp
  AllOrNobody
PROPERTIES
  VectorIsCurrent
  CallsEnd
  ThreadsEnd
