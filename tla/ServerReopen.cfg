SPECIFICATION Spec
CONSTANTS
  u1 = u1
  u2 = u2
  good = good
  broken = broken
  list = list
  plain = plain
  dashes = dashes
  None = None
  URI <- OneURI
  Content = {good, plain}
  Version <- TwoVersions
  FilePatterns <- OnePattern
  Unparsable = {}
  Activating = {}
  SimpleFails = {}
  ASTFails = {}
  ChanCap = 1
  Misaligned = {}
  Handshake = TRUE
  MaxSessions <- Twice
PROPERTY NoDiagnosticsForOldVersion
CHECK_DEADLOCK FALSE
