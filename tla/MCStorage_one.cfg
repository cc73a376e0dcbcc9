\* One thread on the directory: the file behaves as an atomic store.
SPECIFICATION Spec
CONSTANTS
  n1 = n1
  t1 = t1
  t2 = t2
  d1 = d1
  d2 = d2
  a1 = a1
  a2 = a2
  Data = {d1, d2}
  AckIds = {a1, a2}
  Nodes = {n1}
  Threads = {t1}
  Capacity = 3
  IoFaults = {"write"}
  AckOf <- MCAckOf
  Home <- MCHome
INVARIANTS
  TypeOK
  FilesWellFormed
PROPERTIES
  ImplementsAtomicStore
  LeavesOnlyOnPurpose
  NoResurrection
