------------------------------ MODULE SimpleYaml ------------------------------
(***************************************************************************)
(* The line parser of package yamlastsimple and the splitting of its       *)
(* documents into objects (files.ParseSimpleObjectFile), next to the       *)
(* structure YAML gives the same text.                                     *)
(*                                                                         *)
(* Both read a text line by line, so a state is a text and what each made  *)
(* of it: the parser in "docs" and "lines", YAML in "yaml" and in the      *)
(* field "ref" of each line.                                               *)
(***************************************************************************)
EXTENDS Integers, Sequences, SequencesExt

CONSTANTS
  Columns,      \* where a line can begin
  MaxLines,     \* bound: lines of a text
  MaxOddLines   \* bound: lines of a text that is not YAML, or not plain YAML

ASSUME YamlAssumption == Columns \subseteq Nat /\ MaxLines \in Nat /\ MaxOddLines \in Nat

\* A line of the text: its column and its shape.  "key" is "k:", "leaf" is "k: v", "scalar"
\* is "k: |", "item", "itemLeaf" and "itemScalar" the same after "- ", "value" is "- v",
\* "text" has no colon, "separator" is exactly "---" and "dashes" is "--- # comment".
Mapping == {"key", "leaf", "scalar"}
Item == {"item", "itemLeaf", "itemScalar"}
Raw ==
  [column : Columns, shape : Mapping \union Item \union {"value", "text", "empty", "comment"}]
  \union [column : {0}, shape : {"separator", "dashes"}]

\* A path is a sequence of steps.  The key of a line is its number: no two are the same.
Root == <<<<"$", 0>>>>
Key(n) == <<"key", n>>
Index(n) == <<"index", n>>
IsKey(step) == step[1] = "key"
IsIndex(step) == step[1] = "index"

VARIABLES
  docs,         \* the documents that are complete, each with its offset
  lines,        \* the lines of the document being parsed
  scalar,       \* blockScalarIndent, or None outside of a block scalar
  yaml          \* YAML's view of the text

vars == <<docs, lines, scalar, yaml>>

None == -1

Offset == IF docs = <<>> THEN 0 ELSE Last(docs).offset + Len(Last(docs).lines)
Number == Offset + Len(lines) + 1

-----------------------------------------------------------------------------
(* parseDocumentLines: the type, indent and key of one line.                *)

InScalar(raw) == scalar # None /\ raw.column >= scalar

\* LineTypeList may go with LineTypeMapping; everything else is a type of its own.
TypeOf(raw) ==
  CASE raw.shape = "separator" -> {"separator"}
    [] raw.shape # "separator" /\ InScalar(raw) -> {"blockScalar"}
    [] raw.shape \in Mapping /\ ~InScalar(raw) -> {"mapping"}
    [] raw.shape \in Item /\ ~InScalar(raw) -> {"list", "mapping"}
    [] raw.shape \in {"value", "dashes"} /\ ~InScalar(raw) -> {"list"}
    [] raw.shape = "text" /\ ~InScalar(raw) -> {"undefined"}
    [] OTHER -> {raw.shape}

IndentOf(raw) == IF "list" \in TypeOf(raw) THEN raw.column + 2 ELSE raw.column

KeyOf(raw) == IF "mapping" \in TypeOf(raw) THEN <<Key(Number)>> ELSE <<>>

\* Something follows the colon of a mapping line.
HasMapValue(raw) ==
  "mapping" \in TypeOf(raw) /\ raw.shape \in {"leaf", "scalar", "itemLeaf", "itemScalar"}

\* Only a mapping line opens a block scalar, not one of a list element.
ScalarAfter(raw) ==
  CASE raw.shape = "separator" -> None
    [] raw.shape # "separator" /\ InScalar(raw) -> scalar
    [] raw.shape = "scalar" /\ ~InScalar(raw) -> raw.column + 2
    [] OTHER -> None

-----------------------------------------------------------------------------
(* postProcessPaths: the path of one line from those before it.             *)

IsEntry(line) == line.type \intersect {"mapping", "list"} # {}

\* Mutant: a comment or an empty line counts too.
PreviousMutant(indent) ==
  LET candidates == {i \in 1..Len(lines) : lines[i].indent <= indent}
  IN IF candidates = {} THEN 0 ELSE CHOOSE i \in candidates : \A j \in candidates : j <= i

\* findPreviousLine: the last mapping or list line that is not deeper, 0 if there is none.
Previous(indent) ==
  LET candidates == {i \in 1..Len(lines) : IsEntry(lines[i]) /\ lines[i].indent <= indent}
  IN IF candidates = {} THEN 0 ELSE CHOOSE i \in candidates : \A j \in candidates : j <= i

\* The position of the last "[" and of the last "." of a path, 0 if there is none: a key
\* has a dot before it unless the path begins with it.
LastIndex(path) == SelectLastInSeq(path, IsIndex)
LastKey(path) == LET n == SelectLastInSeq(path, IsKey) IN IF n = 1 THEN 0 ELSE n

Upto(path, n) == SubSeq(path, 1, n - 1)

\* Mutant: every element of a list is taken for its first.
ListPathMutant(prev, indent, key) ==
  LET line == lines[prev] IN
  CASE prev = 0 -> <<Root \o <<Index(0)>> \o key, 0>>
    [] prev # 0 /\ line.indent < indent -> <<line.path \o <<Index(0)>> \o key, 0>>
    [] prev # 0 /\ line.indent = indent /\ LastIndex(line.path) # 0 ->
         <<Upto(line.path, LastIndex(line.path)) \o <<Index(line.listIndex)>> \o key, line.listIndex>>
    [] OTHER -> <<key, 0>>

\* Path and list index of a list line: the first element below its parent, or the one
\* after its sibling.
ListPath(prev, indent, key) ==
  LET line == lines[prev] IN
  CASE prev = 0 -> <<Root \o <<Index(0)>> \o key, 0>>
    [] prev # 0 /\ line.indent < indent -> <<line.path \o <<Index(0)>> \o key, 0>>
    [] prev # 0 /\ line.indent = indent /\ LastIndex(line.path) # 0 ->
         <<Upto(line.path, LastIndex(line.path)) \o <<Index(line.listIndex + 1)>> \o key,
           line.listIndex + 1>>
    [] OTHER -> <<key, 0>>

\* Mutant: a sibling forgets the list index.
OtherPathMutant(prev, indent, key) ==
  LET line == lines[prev] IN
  CASE prev = 0 -> <<Root \o key, 0>>
    [] prev # 0 /\ line.indent < indent -> <<line.path \o key, 0>>
    [] prev # 0 /\ line.indent = indent /\ LastKey(line.path) # 0 ->
         <<Upto(line.path, LastKey(line.path)) \o key, 0>>
    [] OTHER -> <<key, 0>>

\* Of any other line: a child of the line before, or a sibling, which keeps the index.
OtherPath(prev, indent, key) ==
  LET line == lines[prev] IN
  CASE prev = 0 -> <<Root \o key, 0>>
    [] prev # 0 /\ line.indent < indent -> <<line.path \o key, 0>>
    [] prev # 0 /\ line.indent = indent /\ LastKey(line.path) # 0 ->
         <<Upto(line.path, LastKey(line.path)) \o key, line.listIndex>>
    [] OTHER -> <<key, 0>>

PathOf(raw) ==
  LET indent == IndentOf(raw) IN
  CASE TypeOf(raw) \in {{"separator"}, {"comment"}} -> <<<<>>, 0>>
    [] "list" \in TypeOf(raw) -> ListPath(Previous(indent), indent, KeyOf(raw))
    [] OTHER -> OtherPath(Previous(indent), indent, KeyOf(raw))

Parsed(raw, ref) ==
  LET path == PathOf(raw) IN
  [number |-> Number, type |-> TypeOf(raw), indent |-> IndentOf(raw),
   hasValue |-> HasMapValue(raw), path |-> path[1], listIndex |-> path[2], ref |-> ref]

-----------------------------------------------------------------------------
(* What YAML makes of the text: a stack of the mappings and lists a line is *)
(* in, the last key if it still has no value, the block scalar, the lines   *)
(* objects begin at, whether the text is YAML, and whether it is plain: no  *)
(* empty document, no comment behind "---", and no block scalar that is an  *)
(* element of a list or has an empty line.                                  *)

NoKey == [column |-> None, path |-> <<>>]

Fresh == [stack |-> <<>>, open |-> NoKey, scalar |-> None, body |-> FALSE,
          objects |-> <<>>, valid |-> TRUE, plain |-> TRUE]

Frame(kind, column, path, count) == [kind |-> kind, column |-> column, path |-> path, count |-> count]

IsContent(raw) == yaml.scalar # None /\ (raw.column >= yaml.scalar \/ raw.shape = "empty")

\* The frames, from the outermost on, that a key, or an element, at a column leaves open.
KeyFrames(column) ==
  SubSeq(yaml.stack, 1, Max({n \in 0..Len(yaml.stack) : \A m \in 1..n :
    yaml.stack[m].column <= column /\ (yaml.stack[m].column < column \/ yaml.stack[m].kind = "map")}))
ItemFrames(column) ==
  SubSeq(yaml.stack, 1, Max({n \in 0..Len(yaml.stack) : \A m \in 1..n : yaml.stack[m].column <= column}))

TopIs(frames, kind, column) == frames # <<>> /\ Last(frames).kind = kind /\ Last(frames).column = column

\* The stack with the mapping that a key at this column belongs to on top, <<>> if none.
MapStack(column) ==
  LET kept == KeyFrames(column) IN
  CASE TopIs(kept, "map", column) -> kept
    [] ~TopIs(kept, "map", column) /\ kept = yaml.stack /\ yaml.open.column \in 0..(column - 1) ->
         Append(kept, Frame("map", column, yaml.open.path, 0))
    [] ~yaml.body /\ column = 0 -> <<Frame("map", 0, Root, 0)>>
    [] OTHER -> <<>>

\* The stack with the list that an element at this column belongs to on top.
ListStack(column) ==
  LET kept == ItemFrames(column) IN
  CASE TopIs(kept, "list", column) ->
         Append(Front(kept), Frame("list", column, Last(kept).path, Last(kept).count + 1))
    [] ~TopIs(kept, "list", column) /\ kept = yaml.stack /\ yaml.open.column \in 0..column ->
         Append(kept, Frame("list", column, yaml.open.path, 1))
    [] ~yaml.body /\ column = 0 -> <<Frame("list", 0, Root, 1)>>
    [] OTHER -> <<>>

Element(stack) == Append(Last(stack).path, Index(Last(stack).count - 1))

\* The path YAML gives the line, <<>> if it has none or cannot stand there.
RefOf(raw) ==
  LET map == MapStack(raw.column)
      list == ListStack(raw.column)
  IN
  CASE IsContent(raw) -> <<>>
    [] ~IsContent(raw) /\ raw.shape \in Mapping /\ map # <<>> -> Append(Last(map).path, Key(Number))
    [] ~IsContent(raw) /\ raw.shape \in Item /\ list # <<>> -> Append(Element(list), Key(Number))
    [] ~IsContent(raw) /\ raw.shape = "value" /\ list # <<>> -> Element(list)
    [] OTHER -> <<>>

StackAfter(raw) ==
  CASE raw.shape \in Mapping -> MapStack(raw.column)
    [] raw.shape = "value" -> ListStack(raw.column)
    [] OTHER -> Append(ListStack(raw.column),
                       Frame("map", raw.column + 2, Element(ListStack(raw.column)), 0))

KeyColumn(raw) == IF raw.shape \in Mapping THEN raw.column ELSE raw.column + 2

\* An object is a document that is not a list, or an element of one that is.
BeginsObject(raw) ==
  IF raw.shape \in Mapping THEN ~yaml.body
  ELSE Len(ListStack(raw.column)) = 1

YamlAfter(raw) ==
  LET ref == RefOf(raw) IN
  CASE raw.shape \in {"separator", "dashes"} ->
         [Fresh EXCEPT !.objects = yaml.objects, !.valid = yaml.valid,
                       !.plain = yaml.plain /\ yaml.body /\ raw.shape = "separator"]
    [] raw.shape \in {"empty", "comment"} /\ ~IsContent(raw) ->
         IF raw.shape = "comment" THEN [yaml EXCEPT !.scalar = None] ELSE yaml
    [] raw.shape \notin {"separator", "dashes"} /\ IsContent(raw) ->
         [yaml EXCEPT !.plain = @ /\ raw.column >= yaml.scalar]
    [] ref # <<>> ->
         [stack |-> StackAfter(raw),
          open |-> IF raw.shape \in {"key", "item"}
                   THEN [column |-> KeyColumn(raw), path |-> ref] ELSE NoKey,
          scalar |-> IF raw.shape \in {"scalar", "itemScalar"} THEN KeyColumn(raw) + 2 ELSE None,
          body |-> TRUE,
          objects |-> IF BeginsObject(raw) THEN Append(yaml.objects, Number) ELSE yaml.objects,
          valid |-> yaml.valid,
          plain |-> yaml.plain /\ raw.shape # "itemScalar"]
    [] OTHER -> [yaml EXCEPT !.valid = FALSE]

-----------------------------------------------------------------------------

Init ==
  /\ docs = <<>>
  /\ lines = <<>>
  /\ scalar = None
  /\ yaml = Fresh

\* Mutant: a separator belongs to no document.
ReadSeparatorMutant(raw) ==
  /\ raw.shape = "separator"
  /\ docs' = Append(docs, [offset |-> Offset, lines |-> lines])
  /\ lines' = <<>>

\* A separator is the last line of its document.
ReadSeparator(raw) ==
  /\ raw.shape = "separator"
  /\ docs' = Append(docs, [offset |-> Offset, lines |-> Append(lines, Parsed(raw, <<>>))])
  /\ lines' = <<>>

ReadOther(raw) ==
  /\ raw.shape # "separator"
  /\ lines' = Append(lines, Parsed(raw, RefOf(raw)))
  /\ UNCHANGED docs

ReadLine(raw) ==
  /\ yaml' = YamlAfter(raw)
  /\ (yaml'.valid /\ yaml'.plain) \/ Number <= MaxOddLines
  /\ scalar' = ScalarAfter(raw)
  /\ ReadSeparator(raw) \/ ReadOther(raw)

Next == Number <= MaxLines /\ \E raw \in Raw : ReadLine(raw)

Spec == Init /\ [][Next]_vars

-----------------------------------------------------------------------------
(* ParseSimpleObjectFile: the objects of the text read so far.              *)

Documents == IF lines = <<>> THEN docs ELSE Append(docs, [offset |-> Offset, lines |-> lines])

IsListPath(path) == Len(path) > 1 /\ path[1] = Root[1] /\ IsIndex(path[2])

\* docIsList
DocIsList(doc) ==
  \E i \in DOMAIN doc.lines : "list" \in doc.lines[i].type /\ IsListPath(doc.lines[i].path)

\* len(line.Path) < 4: a line that stays in the current object.
IsShort(path) == Len(path) <= 1 /\ path \in {<<>>, Root}

\* What is before the first "]", and the lines that have one.
Prefix(path) == SubSeq(path, 1, SelectInSeq(path, IsIndex))
Long(doc) == {i \in DOMAIN doc.lines : ~IsShort(doc.lines[i].path)}

SplitFails(doc) == DocIsList(doc) /\ \E i \in Long(doc) : Prefix(doc.lines[i].path) = <<>>

\* Mutant: a comment or an empty line begins the next object.
CutsMutant(doc) ==
  {i \in DOMAIN doc.lines : i + 1 \in Long(doc) /\ \E j \in Long(doc) :
    /\ j <= i
    /\ \A k \in Long(doc) : k <= j \/ k > i
    /\ Prefix(doc.lines[i + 1].path) # Prefix(doc.lines[j].path)}

\* splitListDocument: the lines an object of a list begins at, its first aside.
Cuts(doc) ==
  LET long == Long(doc) IN
  {i \in long : \E j \in long :
    /\ j < i
    /\ \A k \in long : k <= j \/ k >= i
    /\ Prefix(doc.lines[i].path) # Prefix(doc.lines[j].path)}

\* The last line of an object from the line it begins at, and those all of them begin at.
EndOf(doc, begins, i) == Max({j \in i..Len(doc.lines) : \A k \in (i + 1)..j : k \notin begins})

\* Mutant: the offset of an object does not count the lines before it in its list.
ObjectAtMutant(doc, begins, i) ==
  [offset |-> doc.offset, lines |-> SubSeq(doc.lines, i, EndOf(doc, begins, i)),
   index |-> Cardinality({j \in begins : j < i})]

ObjectAt(doc, begins, i) ==
  [offset |-> doc.offset + i - 1, lines |-> SubSeq(doc.lines, i, EndOf(doc, begins, i)),
   index |-> Cardinality({j \in begins : j < i})]

Split(doc) ==
  LET begins == {1} \union Cuts(doc) IN
  FlattenSeq([i \in DOMAIN doc.lines |->
               IF i \in begins THEN <<ObjectAt(doc, begins, i)>> ELSE <<>>])

\* A simple object node; index is None if it is not a list element.
NodesOf(doc) ==
  IF DocIsList(doc) THEN Split(doc) ELSE <<[offset |-> doc.offset, lines |-> doc.lines, index |-> None]>>

Fails == LET all == Documents IN \E n \in DOMAIN all : SplitFails(all[n])

Nodes == LET all == Documents IN FlattenSeq([n \in DOMAIN all |-> NodesOf(all[n])])

\* parseSimpleObjectNode: the lines that a top-level property such as kind is read from.
RootKeys(node) ==
  {i \in DOMAIN node.lines :
    LET path == node.lines[i].path IN
    /\ Len(path) > 1 /\ IsKey(Last(path))
    /\ \A k \in 2..(Len(path) - 1) : IsIndex(path[k])}

\* Handler.Handle of completion and hover: the line at a position is searched in the first
\* object whose range, by its offset, has it.
FindLine(nodes, number) ==
  LET at == {n \in DOMAIN nodes : number - nodes[n].offset \in 1..Len(nodes[n].lines)}
      n == CHOOSE n \in at : \A m \in at : n <= m
  IN IF at = {} THEN None ELSE nodes[n].lines[number - nodes[n].offset].number

\* SimpleObjectNode.FindLineByPath: a list element's index is put before the path.
FindLineByPath(node, path) ==
  LET full == IF node.index = None THEN path ELSE <<path[1], Index(node.index)>> \o Tail(path)
      at == {i \in DOMAIN node.lines : node.lines[i].path = full}
  IN IF at = {} THEN None ELSE node.lines[CHOOSE i \in at : \A j \in at : i <= j].number

-----------------------------------------------------------------------------
(* Properties.                                                              *)

\* The type invariant.
TypeOK ==
  /\ \A n \in DOMAIN Documents : Documents[n].lines # <<>>
  /\ \A i \in DOMAIN lines :
       /\ lines[i].indent \in Nat /\ lines[i].listIndex \in Nat
       /\ lines[i].type \subseteq {"mapping", "list", "empty", "comment", "undefined", "blockScalar"}
  /\ scalar \in Nat \union {None}
  /\ yaml.valid \in BOOLEAN /\ yaml.plain \in BOOLEAN

\* Wherever the cursor is, in whatever text, the line found there by the offsets of the
\* objects is that line: splitting a list neither loses a line nor shifts one.
EveryLineFound ==
  ~Fails => LET nodes == Nodes IN \A number \in 1..(Number - 1) : FindLine(nodes, number) = number

Usual == yaml.valid /\ yaml.plain

\* In a plain YAML text the nth simple object is the nth object: diagnostics use the index of one for the other.
ObjectsMatch ==
  Usual /\ yaml.body =>
    /\ ~Fails
    /\ LET nodes == Nodes IN
       /\ Len(nodes) = Len(yaml.objects)
       /\ \A n \in DOMAIN nodes : \E i \in DOMAIN nodes[n].lines :
            nodes[n].lines[i].number = yaml.objects[n]

\* A path within an object, without the index of the object in its list, leads to the line
\* that YAML has there: the project of a reference, the kind of a metric source.
PathsLeadThere ==
  Usual /\ ~Fails =>
    LET nodes == Nodes IN
    \A n \in DOMAIN nodes : \A i \in DOMAIN nodes[n].lines :
      LET ref == nodes[n].lines[i].ref
          path == IF IsListPath(ref) THEN <<ref[1]>> \o SubSeq(ref, 3, Len(ref)) ELSE ref
      IN ref # <<>> /\ IsKey(Last(ref)) => FindLineByPath(nodes[n], path) = nodes[n].lines[i].number

\* The kind and version given to an object are those of its own top-level properties, however
\* deep a property of that name is in it, or in a block scalar of it that a final | or >
\* opens (isBlockScalar does not know |-, |+ or >-, and no line here has them).  A line that
\* is not a property can still take them away: see the README.
RootKeysAreOwn ==
  Usual /\ ~Fails =>
    LET nodes == Nodes IN
    \A n \in DOMAIN nodes : LET own == RootKeys(nodes[n]) IN \A i \in DOMAIN nodes[n].lines :
      LET ref == nodes[n].lines[i].ref IN
      i \in own /\ "mapping" \in nodes[n].lines[i].type <=>
        ref # <<>> /\ IsKey(Last(ref)) /\ Len(ref) = IF IsListPath(ref) THEN 3 ELSE 2
=============================================================================
