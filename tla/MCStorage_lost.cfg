\* Two threads: a call writes back a list that lacks a saved bundle.
SPECIFICATION Spec
CONSTANTS
  n1 = n1
  t1 = t1
  t2 = t2
  d1 = d1
  d2 = d2
  a1 = a1
  a2 = a2
  Data = {d1}
  AckIds = {a1}
  Nodes = {n1}
  Threads = {t1, t2}
  Capacity = 2
  IoFaults = {}
  AckOf <- MCAckOf
  Home <- MCHome
PROPERTIES
  LeavesOnlyOnPurpose
