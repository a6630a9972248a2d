\* Two users audit two files, one audit each.
CONSTANTS
  u1 = u1  u2 = u2  f1 = f1  f2 = f2
  Users = {u1, u2}
  Files = {f1, f2}
  Blocks <- TwoFiles
  Audited <- Apart
  Faults = {}
  MaxAudits = 1
  MaxFaults = 0
  MaxKinds = 0
SPECIFICATION FairSpec
INVARIANTS ListsSettled
PROPERTIES AuditLoggedUnlessEarly
