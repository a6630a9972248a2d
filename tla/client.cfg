\* Two threads, two files, one stored; two uploads or downloads, one fault.
CONSTANTS
  f1 = f1  f2 = f2  u1 = u1  u2 = u2  Nobody = Nobody
  Threads = {u1, u2}
  Files = {f1, f2}
  Blocks <- TwoAndOne
  Stored = {f1}
  MaxStamp = 4
  MaxJobs = 2
  Faults = {"tick", "late", "close", "silent", "local"}
  MaxFaults = 1
SPECIFICATION FairSpec
INVARIANTS RecordedWhole WholeCopies
PROPERTIES OnCalls RequestsEnd
CHECK_DEADLOCK FALSE
