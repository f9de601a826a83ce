--------------------------- MODULE MCLanguageServer ---------------------------
(* Small instances of LanguageServer for TLC.                              *)
EXTENDS LanguageServer

CONSTANTS u1, u2,             \* documents
          good,               \* a text with sound objects
          broken, list,       \* texts yamlast.Parse, ParseSimpleObjectFile reject
          plain,              \* a text that does not activate the server
          dashes              \* a text with a "--- " separator only the YAML parser sees

OneURI == {u1}
TwoURIs == {u1, u2}
NoPatterns == {}
\* The editor's files match a pattern, the other document's do not.
OnePattern == {{u1}}
TextKinds == {good, broken, list, plain}
TwoVersions == 1..2
ThreeVersions == 1..3
\* How often each document is opened.
Once == [u \in URI |-> 1]
Twice == [u \in URI |-> 2]
OnlyFirstTwice == [u \in URI |-> IF u = u1 THEN 2 ELSE 1]
=============================================================================
