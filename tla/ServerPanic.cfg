SPECIFICATION FairSpec
CONSTANTS
  u1 = u1
  u2 = u2
  good = good
  broken = broken
  list = list
  plain = plain
  dashes = dashes
  None = None
  URI <- OneURI
  Content = {good, dashes}
  Version <- TwoVersions
  FilePatterns <- NoPatterns
  Unparsable = {}
  Activating = {good, dashes}
  SimpleFails = {}
  ASTFails = {}
  ChanCap = 1
  Misaligned = {dashes}
  Handshake = TRUE
  MaxSessions <- Once
PROPERTY EventuallyDiagnosed
CHECK_DEADLOCK FALSE
