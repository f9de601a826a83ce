SPECIFICATION Spec
CONSTANTS
  u1 = u1
  u2 = u2
  u3 = u3
  good = good
  broken = broken
  handler = handler
  loop = loop
  None = None
  URI <- Documents
  Content <- Texts
  Version <- TwoVersions
  FilePatterns <- OnePattern
  Unparsable <- NoFileURI
  Activating = {}
  SimpleFails = {}
  ASTFails = {broken}
  Writers = {handler}
  Readers = {loop}
INVARIANT TypeOK
PROPERTY KeepsPromise
