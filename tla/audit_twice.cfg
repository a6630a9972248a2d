\* Two users audit the same file, once each, and nothing fails.
CONSTANTS
  u1 = u1  u2 = u2  f1 = f1  f2 = f2
  Users = {u1, u2}
  Files = {f1}
  Blocks <- OneOfTwo
  Audited <- Same
  Faults = {}
  MaxAudits = 1
  MaxFaults = 0
  MaxKinds = 0
SPECIFICATION Spec
PROPERTIES CheckedOnce
