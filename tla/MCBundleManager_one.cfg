\* One thread at a time on the file.
SPECIFICATION Spec
CONSTANTS
  n1 = n1
  n2 = n2
  n3 = n3
  t1 = t1
  d1 = d1
  d2 = d2
  a1 = a1
  a2 = a2
  b1 = b1
  Data = {d1, d2}
  AckIds = {a1, a2, b1}
  Nodes = {n1, n2, n3}
  Threads = {t1}
  Capacity = 3
  IoFaults = {}
  AckOf <- MCAckOf
  Home <- MCHome
INVARIANTS
  TypeOK
  AckBarsData
  OneAckRecord
  AckMeansStored
PROPERTIES
  DeliveredIsFinal
