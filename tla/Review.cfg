SPECIFICATION FairSpec
CONSTANTS
  Half = 16
  Day = 4
  Unlimited = Unlimited
  Refused = Refused
  Written <- MCWritten
  DefaultLife = 9
  SilentAfter = 3
  WarnBefore = 3
  CheckEvery = 1
  None = None
INVARIANTS LockoutAnnounced NoFalseAlarm SignedAsWritten
PROPERTIES LockoutNoticed
