\* One user audits a file twice within the time to live of the shared set.
CONSTANTS
  u1 = u1  u2 = u2  f1 = f1  f2 = f2
  Users = {u1}
  Files = {f1}
  Blocks <- OneOfTwo
  Audited <- Alone
  Faults = {}
  MaxAudits = 2
  MaxFaults = 0
  MaxKinds = 0
SPECIFICATION FairSpec
PROPERTIES AuditLoggedUnlessEarly
