SPECIFICATION Spec
CONSTANTS
  Clients = {c1}
  Servers = {s1}
  Deployments <- Local
  Runs = {r1, r2}
  Concurrency = 2
  Attempts = 3
  MaxStalled = 1
  MaxVersion = 2
INVARIANTS
  OnlyRequestedRevision
