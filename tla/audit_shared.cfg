\* Two users audit the same file of two blocks, once each; one block may be damaged.
CONSTANTS
  u1 = u1  u2 = u2  f1 = f1  f2 = f2
  Users = {u1, u2}
  Files = {f1}
  Blocks <- OneOfTwo
  Audited <- Same
  Faults = {"damage"}
  MaxAudits = 1
  MaxFaults = 1
  MaxKinds = 1
SPECIFICATION Spec
INVARIANTS NoFalseAccusation LogTriples MarksTimed
PROPERTIES CheckedAgain
