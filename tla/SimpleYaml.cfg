SPECIFICATION Spec
CONSTANTS
  Columns <- ThreeColumns
  MaxLines = 5
  MaxOddLines = 3
  MaxTreeLines = 4
  MaxCursorLine = 4
INVARIANT TypeOK
INVARIANT EveryLineFound
INVARIANT ObjectsMatch
INVARIANT PathsLeadThere
INVARIANT RootKeysAreOwn
INVARIANT ErrorsPointThere
INVARIANT InvalidObjectsShown
INVARIANT ReferencesPointThere
INVARIANT PropertiesRecognised
INVARIANT KeysOfThatMapping
INVARIANT SnippetsAreObjects
CHECK_DEADLOCK FALSE
