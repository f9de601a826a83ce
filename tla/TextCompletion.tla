----------------------------- MODULE TextCompletion -----------------------------
(***************************************************************************)
(* What completion, hover and the deprecation check take a line for: the   *)
(* generalized path under which the documentation of its property is       *)
(* looked up, the mapping whose keys are proposed at the cursor, and the   *)
(* shape of the snippet that is offered there.                             *)
(*                                                                         *)
(* The cursor is on a line behind the text read so far, which is not yet   *)
(* YAML: it is empty, or what was typed of it has no colon, or it has one. *)
(***************************************************************************)
EXTENDS SimpleYaml

CONSTANT MaxCursorLine    \* bound: lines of a text before the cursor

ASSUME CursorAssumption == MaxCursorLine \in Nat

\* "[*]" of a generalized path.
Wildcard == Index(None)

\* Mutant: the index of the object in its list is kept.
GeneralizePathMutant(path) == [i \in DOMAIN path |-> IF IsIndex(path[i]) THEN Wildcard ELSE path[i]]

\* generalizePath: the index of the object in its list is removed, any other is "[*]".
GeneralizePath(path) ==
  LET root == IF IsListPath(path) THEN <<path[1]>> \o SubSeq(path, 3, Len(path)) ELSE path
  IN [i \in DOMAIN root |-> IF IsIndex(root[i]) THEN Wildcard ELSE root[i]]

-----------------------------------------------------------------------------
(* Properties of the object: checkDeprecated, and the documentation that    *)
(* hover shows.                                                             *)

\* checkDeprecated: the lines flagged if this property is deprecated.
Flagged(node, property) ==
  {node.offset + i : i \in {j \in DOMAIN node.lines :
    "mapping" \in node.lines[j].type /\ GeneralizePath(node.lines[j].path) = property}}

-----------------------------------------------------------------------------
(* Completion of keys.                                                      *)

\* A line at the cursor: empty, the beginning of a key, a whole key, or any of them behind "- ".
AtCursor == [column : Columns, shape : {"empty", "text", "key", "value", "item"}]

IsElement(raw) == raw.shape \in {"value", "item"}
Typed(raw) == [raw EXCEPT !.shape = IF IsElement(raw) THEN "item" ELSE "key"]

\* GetKeyPos, of a key one character long; <<0, 0>> for a line that has none.
KeyPos(line) ==
  IF line.type \intersect {"mapping", "undefined"} = {} THEN <<0, 0>>
  ELSE <<line.indent, line.indent + 1>>

\* Handler.Handle: whether keys and snippets are proposed with the cursor at this character.
KeysProposed(line, character) ==
  \/ line.type = {"list"}
  \/ line.type = {"empty"}
  \/ character \in KeyPos(line)[1]..KeyPos(line)[2]

\* Handler.Handle: whether values are.
ValuesProposed(line, character) == character > KeyPos(line)[2]

\* Mutant: the children of the key that is being changed are proposed.
KeysParentMutant(line) == GeneralizePath(line.path)

\* KeysCompletionProvider.Complete: the property whose children are proposed; the last key of
\* the path is cut off if the line has one already.
KeysParent(line) ==
  LET path == GeneralizePath(line.path) IN
  IF "mapping" \in line.type /\ LastKey(path) # 0 THEN Upto(path, LastKey(path)) ELSE path

-----------------------------------------------------------------------------
(* Snippets.                                                                *)

\* findLine: the last line before the cursor that is no comment and not empty, in the object
\* that the line before the cursor belongs to.
PreviousLine ==
  LET before == Last(Nodes).lines
      filtered == {i \in DOMAIN before : before[i].type \intersect {"comment", "empty"} = {}}
  IN IF Number = 1 \/ filtered = {} THEN <<>> ELSE <<before[CHOOSE i \in filtered : \A j \in filtered : j <= i]>>

\* Mutant: what is before the cursor is not looked at.
SnippetMutant(line) ==
  CASE GeneralizePath(line.path) # Root -> "none"
    [] GeneralizePath(line.path) = Root /\ IsListPath(line.path) -> "rest of element"
    [] OTHER -> "document"

\* SnippetsProvider.Complete: what is inserted at the cursor, if anything: the lines of an
\* object as an element that was begun, as an element, as the document that was begun, or
\* behind a separator.
Snippet(line) ==
  LET previous == PreviousLine IN
  CASE GeneralizePath(line.path) # Root -> "none"
    [] GeneralizePath(line.path) = Root /\ IsListPath(line.path) -> "rest of element"
    [] GeneralizePath(line.path) = Root /\ ~IsListPath(line.path)
         /\ previous # <<>> /\ "list" \in previous[1].type -> "element"
    [] GeneralizePath(line.path) = Root /\ ~IsListPath(line.path)
         /\ previous # <<>> /\ previous[1].type \intersect {"list", "separator"} = {} -> "new document"
    [] OTHER -> "document"

\* Whether a YAML text has one object more with the snippet than without.
AddsObject(raw, snippet) ==
  CASE snippet = "new document" -> raw.column = 0
    [] snippet = "rest of element" /\ IsElement(raw) -> RefOf(Typed(raw)) # <<>> /\ BeginsObject(Typed(raw))
    [] snippet = "element" /\ ~IsElement(raw) ->
         LET element == [raw EXCEPT !.shape = "item"] IN RefOf(element) # <<>> /\ BeginsObject(element)
    [] snippet = "document" /\ ~IsElement(raw) -> RefOf(Typed(raw)) # <<>> /\ BeginsObject(Typed(raw))
    [] OTHER -> FALSE

-----------------------------------------------------------------------------
(* Properties.                                                              *)

\* The property that YAML has on a line, whatever object and elements it is in.
PropertyOf(ref) ==
  LET own == IF Len(ref) > 1 /\ IsIndex(ref[2]) THEN SubSeq(ref, 3, Len(ref)) ELSE Tail(ref)
  IN Root \o [i \in DOMAIN own |-> IF IsIndex(own[i]) THEN Wildcard ELSE own[i]]

\* A property is recognised at its line and at no other: if it is deprecated that line is
\* flagged, whatever object of whatever list it is in.
PropertiesRecognised ==
  Usual /\ yaml.body /\ Number <= MaxCursorLine + 1 =>
    LET node == Last(Nodes) IN \A i \in DOMAIN node.lines :
      LET line == node.lines[i] IN
      line.ref # <<>> /\ IsKey(Last(line.ref)) => Flagged(node, PropertyOf(line.ref)) = {line.number}

\* Wherever YAML would take a key, empty line or begun, the keys proposed are those of the
\* mapping it would be in, and nothing is proposed as its value.
KeysOfThatMapping ==
  Usual /\ Number <= MaxCursorLine + 1 => \A raw \in AtCursor :
    LET line == Parsed(raw, <<>>)
        ref == RefOf(Typed(raw))
    IN ref # <<>> =>
         /\ KeysParent(line) = PropertyOf(Front(ref))
         /\ raw.shape # "empty" => KeysProposed(line, line.indent + 1)
         /\ raw.shape \in {"key", "item", "text"} => ~ValuesProposed(line, line.indent + 1)

\* A snippet offered in a YAML text, on a new line or in an element that was begun, is an
\* object of its own when accepted.  The elements of a list within an object are left out:
\* behind one the snippet is an element in the middle of a mapping (see the README).
SnippetsAreObjects ==
  Usual /\ Number <= MaxCursorLine + 1 =>
    \A raw \in {r \in AtCursor : r.column = 0 /\ r.shape \in {"empty", "text", "value"}} :
      LET snippet == Snippet(Parsed(raw, <<>>))
          nested == snippet = "element" /\ Head(yaml.stack).kind = "map"
      IN snippet # "none" /\ ~nested /\ ~IsContent(raw) => AddsObject(raw, snippet)
=============================================================================
