SPECIFICATION FairSpec
CONSTANTS
  web = web
  Web = Web
  db = db
  h1 = h1
  h2 = h2
  x = x
  y = y
  Names = {web, Web, db}
  Lower <- InLowerCase
  Hosts = {h1, h2}
  Tokens = {t1}
  Certs = {x, y}
  Domains = {"x", "X", "y", "z", "."}
  Blank = Blank
  Normalise <- Spellings
  Configs <- Edits
  Unlimited = Unlimited
  DefaultLife = 2
  CALife = 3
  None = None
INVARIANTS Provenance RevokedGetsNothing DeliveredAsPermitted IssuedAsConfigured OutlivedByCA
PROPERTY AlwaysAWayBack
