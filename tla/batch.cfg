\* Two users ask for a batch each, with two threads in each pool; a transaction may fail
\* or a block be damaged.
CONSTANTS
  u1 = u1  u2 = u2  f1 = f1  f2 = f2  f3 = f3
  Users = {u1, u2}
  Files = {f1, f2, f3}
  Blocks <- Sizes
  Home <- Homes
  Batches <- TwoEach
  Refused <- Foreign
  PoolThreads = 2
  HttpThreads = 3
  Faults = {"ledger", "damage"}
  Fragile = {f2}
  MaxBatches = 1
  MaxFaults = 1
SPECIFICATION Spec
INVARIANTS TypeOK ChallengeAligned ListsWhole CallsGoOn VerdictExact
PROPERTIES LoggedWhole
