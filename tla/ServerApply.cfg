SPECIFICATION Spec
CONSTANTS
  u1 = u1
  u2 = u2
  good = good
  broken = broken
  list = list
  plain = plain
  dashes = dashes
  None = None
  URI <- OneURI
  Content = {good, broken}
  Version <- TwoVersions
  FilePatterns <- NoPatterns
  Unparsable = {}
  Activating = {good, broken}
  SimpleFails = {}
  ASTFails = {broken}
  ChanCap = 1
  Misaligned = {}
  Handshake = TRUE
  MaxSessions <- Once
INVARIANT AppliesThisFile
CHECK_DEADLOCK FALSE
