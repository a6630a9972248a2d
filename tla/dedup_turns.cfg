\* Two clients that take turns, one with both files on its disk; deletes, no faults.
CONSTANTS
  c1 = c1  c2 = c2  f1 = f1  f2 = f2  a = a  b = b  d = d
  Clients = {c1, c2}
  Files = {f1, f2}
  Tags = {a, b, d}
  Content <- SharedBlock
  Wanted <- Mixed
  Deleters = {c1, c2}
  UniqueFlag = TRUE
  NullFileid = TRUE
  CascadeDetails = TRUE
  Faults = {}
  MaxJobs = 4
  MaxFaults = 0
SPECIFICATION Spec
ACTION_CONSTRAINT InTurns
INVARIANTS OwnedComplete DownloadWhole RestConsistent CustodyAgrees Answered
PROPERTIES UnlinkOnlyUnowned OnChain
