SPECIFICATION FairSpec
CONSTANTS
  Procs = {p1}
  Serials = {s1, s2, s3}
  Life = 3
  StartAges = {0, 2}
  None = None
  MaxFaults = 1
INVARIANTS IdentityWhole MintsOneIdentity
PROPERTIES WorkingIdentityKept ComesBack
