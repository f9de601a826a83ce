SPECIFICATION Spec
CONSTANTS
  u1 = u1
  u2 = u2
  good = good
  broken = broken
  list = list
  plain = plain
  dashes = dashes
  None = None
  URI <- OneURI
  Content = {broken, plain}
  Version <- TwoVersions
  FilePatterns <- NoPatterns
  Unparsable = {}
  Activating = {broken}
  SimpleFails = {}
  ASTFails = {broken}
  ChanCap = 1
  Misaligned = {}
  Handshake = TRUE
  MaxSessions <- Once
INVARIANT ErrorsAreCleared
CHECK_DEADLOCK FALSE
