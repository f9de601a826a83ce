SPECIFICATION Spec
CONSTANTS
  u1 = u1
  u2 = u2
  good = good
  broken = broken
  list = list
  plain = plain
  dashes = dashes
  None = None
  URI <- OneURI
  Content <- TextKinds
  Version <- ThreeVersions
  FilePatterns <- NoPatterns
  Unparsable = {}
  Activating = {good, broken, list}
  SimpleFails = {list}
  ASTFails = {broken}
  ChanCap = 2
  Misaligned = {}
  Handshake = FALSE
  MaxSessions <- Twice
INVARIANT TypeOK
INVARIANT FilesCoherent
INVARIANT EventsNotAhead
PROPERTY CheckedTextIsCurrent
PROPERTY PublicationsMoveForward
CHECK_DEADLOCK FALSE
