-------------------------------- MODULE Files --------------------------------
(***************************************************************************)
(* The virtual files of the language server (internal/files): what a File  *)
(* record holds and what the editor's next text makes of it.               *)
(*                                                                         *)
(* A text is an element of Content; what the parsers make of it is given   *)
(* by the sets below.  The two parse results of a file are modelled by     *)
(* their provenance, the text they were built from, so a result that       *)
(* outlives its text is visible: None stands for Go's nil.                 *)
(***************************************************************************)
EXTENDS Integers

CONSTANTS
  URI,           \* the documents the editor works on
  Content,       \* the texts a document can have
  Version,       \* the version numbers the editor may report
  None,          \* no file, no text, nothing published
  FilePatterns,  \* the --file-patterns option, each pattern as the URIs it matches
  Unparsable,    \* the URIs url.Parse or filePathFromURI rejects
  Activating,    \* the texts with the activation comment or "apiVersion: n9/"
  SimpleFails,   \* the texts ParseSimpleObjectFile returns an error for
  ASTFails       \* the texts yamlast.Parse returns an error for

ASSUME FilesAssumption ==
  /\ Version \subseteq Int
  /\ None \notin Content
  /\ FilePatterns \subseteq SUBSET URI
  /\ Unparsable \subseteq URI
  /\ Activating \subseteq Content
  /\ SimpleFails \subseteq Content
  /\ ASTFails \subseteq Content

Provenance == Content \union {None}

\* type File struct; -1 is the version OpenFile starts from.
File == [version : Version \union {-1}, content : Provenance, skip : BOOLEAN,
         objects : Provenance, simpleAST : Provenance, err : {"none", "simple", "ast"}]

NewFile == [version |-> -1, content |-> None, skip |-> FALSE,
            objects |-> None, simpleAST |-> None, err |-> "none"]

-----------------------------------------------------------------------------
\* Without patterns the text decides, with patterns only the URI does.
SkipVerdict(u, c) ==
  IF FilePatterns = {}
    THEN IF c \in Activating THEN "parse" ELSE "skip"
    ELSE IF u \in Unparsable THEN "error"
         ELSE IF u \in UNION FilePatterns THEN "parse" ELSE "skip"

ParseErr(c) ==
  IF c \in SimpleFails THEN "simple" ELSE IF c \in ASTFails THEN "ast" ELSE "none"

\* Mutant: takes any other version, an older one too.
ShouldUpdateMutant(f, v) == v # f.version

ShouldUpdate(f, v) == v > f.version

\* Mutant: the error of yamlast.Parse is not stored.
UpdateMutant(f, v, c) ==
  IF ~ShouldUpdate(f, v) THEN f
  ELSE [version |-> v, content |-> c, skip |-> FALSE,
        objects |-> IF ParseErr(c) = "none" THEN c ELSE f.objects,
        simpleAST |-> IF ParseErr(c) = "simple" THEN None ELSE c,
        err |-> IF ParseErr(c) = "simple" THEN "simple" ELSE "none"]

\* File.Update.  A parse error returns before Objects is rebuilt: the previous
\* text's Objects stay.
Update(f, v, c) ==
  IF ~ShouldUpdate(f, v) THEN f
  ELSE [version |-> v, content |-> c, skip |-> FALSE,
        objects |-> IF ParseErr(c) = "none" THEN c ELSE f.objects,
        simpleAST |-> IF ParseErr(c) = "simple" THEN None ELSE c,
        err |-> ParseErr(c)]

\* Mutant: forgets the version.
UpdateSkippedMutant(f, v, c) ==
  IF ~ShouldUpdate(f, v) THEN f
  ELSE [f EXCEPT !.content = c, !.skip = TRUE]

\* File.UpdateSkipped.  No parsing: Objects, SimpleAST and Err stay.
UpdateSkipped(f, v, c) ==
  IF ~ShouldUpdate(f, v) THEN f
  ELSE [f EXCEPT !.version = v, !.content = c, !.skip = TRUE]

\* FS.updateFile, for a URI and a text shouldSkipFile has no error for.
UpdateFile(f, u, v, c) ==
  IF SkipVerdict(u, c) = "skip" THEN UpdateSkipped(f, v, c) ELSE Update(f, v, c)
=============================================================================
