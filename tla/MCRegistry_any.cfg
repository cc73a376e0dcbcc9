\* Any order of commands, ends, server threads and one outage.
SPECIFICATION Spec
CONSTANTS
  n1 = n1
  n2 = n2
  s1 = s1
  s2 = s2
  s3 = s3
  Nodes = {n1, n2}
  Conns = {s1, s2, s3}
  Hasty = {n1}
  MaxOutages = 1
INVARIANTS
  TypeOK
  ListedIsServed
  PatientIsListed
PROPERTIES
  GoneIsNoticed
