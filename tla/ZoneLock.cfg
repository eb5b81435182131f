SPECIFICATION FairSpec
CONSTANTS
  o1 = o1
  o2 = o2
  o3 = o3
  o4 = o4
  serve = serve
  renew = renew
  Orders = {o1, o2, o3, o4}
  Processes = {serve, renew}
  ProcessOf <- Running
  Domains <- Requested
  None = None
INVARIANT RecordsSerialised
PROPERTY OrdersEnd
