\* Two nodes in one process, one registry, and another process that may hold
\* bob's port.
SPECIFICATION Spec
CONSTANTS
  alice = alice
  bob = bob
  s1 = s1
  default = default
  None = None
  Nodes = {alice, bob}
  Demo <- MCDemo
  Servers = {s1}
  Default = default
  Rivals = {bob}
INVARIANTS
  TypeOK
  StartedListens
  ThreadsAskRegistered
PROPERTIES
  RetryResumes
