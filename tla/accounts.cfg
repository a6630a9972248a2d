\* Two clients, three threads, one name and two passwords to contend for.
CONSTANTS
  c1 = c1  c2 = c2  a1 = a1  a2 = a2  b1 = b1
  Clients = {c1, c2}
  Threads = {a1, a2, b1}
  ClientOf <- TwoAndOne
  Names = {"n"}
  Passwords = {"p", "q"}
  UniqueName = FALSE
  MaxJobs = 4
SPECIFICATION FairSpec
INVARIANTS NameOnce ActsAsSelf
PROPERTIES LoginWorks
CHECK_DEADLOCK FALSE
