\* One user audits a file twice, with two kinds of faults: handlers stop anywhere, a restart lets
\* both audits run at once, the set expires under them, blocks are damaged, the user clicks twice.
CONSTANTS
  u1 = u1  u2 = u2  f1 = f1  f2 = f2
  Users = {u1}
  Files = {f1}
  Blocks <- OneOfTwo
  Audited <- Alone
  Faults = {"fail", "restart", "damage", "expiry", "double"}
  MaxAudits = 2
  MaxFaults = 1
  MaxKinds = 2
SPECIFICATION Spec
INVARIANTS TypeOK MarksProven VerdictSound
PROPERTIES OnChain
