\* One client whose upload is interrupted once and repeated; no deletes.
CONSTANTS
  c1 = c1  c2 = c2  f1 = f1  f2 = f2  a = a  b = b  d = d
  Clients = {c1}
  Files = {f1}
  Tags = {a, b}
  Content <- OneFile
  Wanted <- Only
  Deleters = {}
  UniqueFlag = TRUE
  NullFileid = TRUE
  CascadeDetails = TRUE
  Faults = {"abort"}
  MaxJobs = 2
  MaxFaults = 1
SPECIFICATION Spec
INVARIANTS OwnedComplete
