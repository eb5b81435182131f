SPECIFICATION FairSpec
CONSTANTS
  Ids = {t1}
  Handlers = {h1, h2}
  CAs = {ca, oldca}
  BrokerCA = ca
  Lifetimes = {0, 2}
  DefaultLifetime = 1
  ClockSkew = 1
  Retention = 1
  None = None
  MaxIssueTime = 0
  MaxTime = 4
  MaxFaults = 1
INVARIANTS SingleUse RedeemedInTime ClaimsHeld
PROPERTIES OnlyStaleRemoved ImplementsOneTimeToken RecordsDrain
