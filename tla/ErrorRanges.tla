------------------------------ MODULE ErrorRanges ------------------------------
(***************************************************************************)
(* Where in a text the errors of an object are shown: the search of a      *)
(* property's path in the YAML tree (package yamlpath), the range of the   *)
(* node it ends at, and the diagnostics made of them (validateObject,      *)
(* objectValidationErrorToDiagnostics and getRangeForNodePath of           *)
(* diagnostics/provider.go).                                               *)
(*                                                                         *)
(* The tree is what SimpleYaml says that YAML makes of the text; a node is *)
(* the path of a line in its object, or what is before its last steps.     *)
(***************************************************************************)
EXTENDS SimpleYaml, FiniteSetsExt

CONSTANT MaxTreeLines     \* bound: lines of a text whose objects are validated

ASSUME TreeAssumption == MaxTreeLines \in Nat

\* The path of a line in its object, which may be an element of a list.
Within(line) ==
  IF IsListPath(line.ref) THEN SubSeq(line.ref, 3, Len(line.ref)) ELSE Tail(line.ref)

\* The lines of the object being read that hold a key or a plain element of it.
ObjectLines == {lines[i] : i \in {j \in DOMAIN lines :
  lines[j].ref # <<>> /\ lines[j].number >= Last(yaml.objects)}}

First(path, n) == SubSeq(path, 1, n)

\* The object's tree: the type of each node and the line of its token, which for a mapping
\* and a list is that of their first line.
Tree ==
  LET all == ObjectLines
      At(path) == {line \in all : IsPrefix(path, Within(line))}
      Steps(path) == {Within(line)[Len(path) + 1] : line \in {l \in At(path) : Within(l) # path}}
      Plain(line) == line.hasValue \/ "mapping" \notin line.type
      Type(path) ==
        CASE \E step \in Steps(path) : IsKey(step) -> "mapping"
          [] Steps(path) # {} /\ \A step \in Steps(path) : ~IsKey(step) -> "sequence"
          [] Steps(path) = {} /\ \E line \in At(path) : Plain(line) -> "scalar"
          [] OTHER -> "null"
      paths == UNION {{First(Within(line), n) : n \in 0..Len(Within(line))} : line \in all}
  IN [path \in paths |->
       [type |-> Type(path), line |-> Min({line.number : line \in At(path)})]]

-----------------------------------------------------------------------------
(* The search for a node.                                                   *)

\* pathNode.filter: the node at a path, nil if a mapping on the way lacks the next key, an
\* error if there is no mapping, or no such element of a list, to go on from.
Filter(tree, path) ==
  LET missing == {n \in DOMAIN path : First(path, n) \notin DOMAIN tree}
      first == Min(missing)
  IN CASE missing = {} -> "node"
       [] missing # {} /\ IsKey(path[first]) /\ tree[First(path, first - 1)].type = "mapping" -> "nil"
       [] OTHER -> "error"

\* Mutant: one removal takes two steps away.
FilterNodeMutant(tree, path) ==
  LET tried == {n \in 0..Len(path) : (Len(path) - n) % 2 = 0} \union {0}
      n == Max({m \in tried : Filter(tree, First(path, m)) # "nil"})
  IN [found |-> Filter(tree, First(path, n)) = "node", path |-> First(path, n)]

\* FilterNode: removeChild takes the last step of the path away until there is no nil.
FilterNode(tree, path) ==
  LET n == Max({m \in 0..Len(path) : Filter(tree, First(path, m)) # "nil"})
  IN [found |-> Filter(tree, First(path, n)) = "node", path |-> First(path, n)]

-----------------------------------------------------------------------------
(* Diagnostics, by the line they are sent with.                             *)

\* getRangeFromNode: a list is shown where it begins, anything else at its key, or at the
\* value beside it.
NodeLine(tree, path) ==
  IF tree[path].type = "sequence" THEN tree[Append(path, Index(0))].line ELSE tree[path].line

\* NewRange: an editor counts lines from 0.
NewLineRange(number) == IF number # 0 THEN number - 1 ELSE 0

\* objectValidationErrorToDiagnostics: an error is dropped if the search fails.
ErrorDiagnostics(tree, errors) ==
  {[error |-> e, line |-> NewLineRange(NodeLine(tree, FilterNode(tree, e).path))] :
    e \in {f \in errors : FilterNode(tree, f).found}}

\* Mutant: what could not be placed is left out.
ValidateObjectMutant(tree, errors) == ErrorDiagnostics(tree, errors)

\* validateObject, of an object whose validation found errors at these paths: if no error can
\* be placed, all of them together are shown where the object starts.
ValidateObject(tree, errors) ==
  LET placed == ErrorDiagnostics(tree, errors) IN
  IF placed # {} THEN placed
  ELSE {[error |-> <<>>, line |-> NewLineRange(tree[<<>>].line)]}

\* Mutant: a path that cannot be followed is shown where the file starts.
GetRangeForNodePathMutant(tree, path) ==
  LET filtered == FilterNode(tree, path) IN
  NewLineRange(IF filtered.found THEN NodeLine(tree, filtered.path) ELSE 0)

\* getRangeForNodePath, of a reference to something that does not exist: where the search
\* ends, or where the object starts if it fails.
GetRangeForNodePath(tree, path) ==
  LET filtered == FilterNode(tree, path) IN
  NewLineRange(IF filtered.found THEN NodeLine(tree, filtered.path) ELSE tree[<<>>].line)

-----------------------------------------------------------------------------

\* The object being read was decoded, else it is not validated: its root is a mapping.  (The
\* objects before it were read last in a shorter text.)
Decoded ==
  /\ yaml.valid /\ yaml.plain /\ Number <= MaxTreeLines + 1
  /\ lines # <<>> /\ Last(lines).ref # <<>>
  /\ Tree[<<>>].type = "mapping"

\* A key the object does not have.
Missing == Key(0)

\* Validation reports a property the object has, or one that a mapping, or a key without a
\* value, lacks, and properties of that.
ErrorPaths(tree) ==
  LET open == {path \in DOMAIN tree : tree[path].type \in {"mapping", "null"}}
  IN DOMAIN tree \union {Append(path, Missing) : path \in open}
                 \union {path \o <<Missing, Missing>> : path \in open}

\* The lines of a simple object.
LinesOf(node) == (node.offset + 1)..(node.offset + Len(node.lines))

\* An error is shown at its property or, if the object does not have it, at the closest one
\* around it that it has, unless that is a key without a value: on a line that leads there, or
\* is the first below.
ErrorsPointThere ==
  Decoded => LET tree == Tree IN
    \A error \in ErrorPaths(tree) :
      LET closest == First(error, Max({n \in 0..Len(error) : First(error, n) \in DOMAIN tree}))
      IN closest = error \/ tree[closest].type # "null" =>
           \E d \in ErrorDiagnostics(tree, {error}) : \E line \in ObjectLines :
             /\ line.number = d.line + 1
             /\ IsPrefix(closest, Within(line))
             /\ \A other \in ObjectLines :
                  IsStrictPrefix(closest, Within(other)) => other.number >= line.number

\* An object that is not valid never looks valid, and none of what is shown of it is in the
\* lines that the other parser gives to another object.
InvalidObjectsShown ==
  Decoded => LET tree == Tree  own == LinesOf(Last(Nodes)) IN
    \A errors \in {{error} : error \in ErrorPaths(tree)} \union {ErrorPaths(tree)} :
      /\ ValidateObject(tree, errors) # {}
      /\ \A d \in ValidateObject(tree, errors) : d.line + 1 \in own

\* A broken reference is never lost: it is shown at the line of its value and, if the text
\* does not say what is referred to (a default, or a key without a value), within the lines
\* that the other parser gives to the object.
ReferencesPointThere ==
  Decoded => LET tree == Tree  own == LinesOf(Last(Nodes)) IN
    \A path \in ErrorPaths(tree) :
      LET shown == GetRangeForNodePath(tree, path) + 1 IN
      /\ shown \in own
      /\ path \in DOMAIN tree /\ tree[path].type = "scalar" =>
           \E line \in ObjectLines : line.number = shown /\ Within(line) = path
=============================================================================
