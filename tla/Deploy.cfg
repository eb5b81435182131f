SPECIFICATION FairDeploySpec
CONSTANTS
  Certs = {c1, c2, c3, c4}
  NoCert = NoCert
  MaxDeployFaults = 2
INVARIANT StaleServiceReported
PROPERTIES ReachesService QuietWhenCurrent
