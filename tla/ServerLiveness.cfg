SPECIFICATION FairSpec
CONSTANTS
  u1 = u1
  u2 = u2
  good = good
  broken = broken
  list = list
  plain = plain
  dashes = dashes
  None = None
  URI <- TwoURIs
  Content = {good, plain}
  Version <- TwoVersions
  FilePatterns <- NoPatterns
  Unparsable = {}
  Activating = {good}
  SimpleFails = {}
  ASTFails = {}
  ChanCap = 1
  Misaligned = {}
  Handshake = TRUE
  MaxSessions <- OnlyFirstTwice
INVARIANT QuietMeansDiagnosed
PROPERTY SendCompletes
PROPERTY EventuallyDiagnosed
CHECK_DEADLOCK FALSE
