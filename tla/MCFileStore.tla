------------------------------ MODULE MCFileStore ------------------------------
(* FileStore for TLC: the message reader writes, the diagnostics loop reads. *)
EXTENDS FileStore

CONSTANTS u1, u2, u3, good, broken, handler, loop

Documents == {u1, u2, u3}
Texts == {good, broken}
\* u1 matches, u2 does not, u3 is no file URI.
OnePattern == {{u1}}
NoFileURI == {u3}
TwoVersions == 0..1
=============================================================================
