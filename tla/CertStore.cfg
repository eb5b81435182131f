SPECIFICATION FairSpec
CONSTANTS
  Writers = {w1}
  Readers = {r1}
  Serials = {s1, s2, s3}
  Life = 3
  Advice = {"ahead", "unavailable"}
  None = None
  MaxFaults = 1
PROPERTIES ImplementsCertificateSlot OneAccount OrderedOnlyWhenNeeded ExpiredIsReplaced
