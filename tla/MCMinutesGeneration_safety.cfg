SPECIFICATION Spec
CONSTANTS
  Clients = {c1, c2}
  Servers = {s1, s2}
  Deployments <- External
  Runs = {r1, r2}
  Concurrency = 2
  Attempts = 2
  MaxStalled = 1
  MaxVersion = 2
SYMMETRY RunSymmetry
INVARIANTS
  TypeOK
  OneRunPerJob
  BoundedExecutions
  NoStaleDraft
PROPERTIES
  SettledIsFinal
