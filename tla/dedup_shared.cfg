\* Two clients upload the same file, with every kind of fault; no deletes.
CONSTANTS
  c1 = c1  c2 = c2  f1 = f1  f2 = f2  a = a  b = b  d = d
  Clients = {c1, c2}
  Files = {f1}
  Tags = {a, b}
  Content <- OneFile
  Wanted <- Same
  Deleters = {}
  UniqueFlag = FALSE
  NullFileid = TRUE
  CascadeDetails = TRUE
  Faults = {"rsync", "ledger", "crash", "abort"}
  MaxJobs = 2
  MaxFaults = 1
SPECIFICATION Spec
INVARIANTS TypeOK DetailsPresent DetailsReadable RowsInPlace
