---------------------------- MODULE YamlPathProofs ----------------------------
(***************************************************************************)
(* Theorems of SimpleYaml, TextCompletion and ErrorRanges, for text of any *)
(* length: the path of a line is a place in its object, the text at the    *)
(* cursor is read where it is going to be, a snippet is an object, and     *)
(* what is wrong with a property is shown at its line.                     *)
(*                                                                         *)
(* A document is one object or a list of objects (Rooted): in a list, the  *)
(* lines of an element have its index, and no other lines do.  Of these    *)
(* lines, the first of each element, or of the mapping, is where YAML      *)
(* begins an object (ObjectsBegun).  That holds for files as people write  *)
(* them, which start an object at the first column (Usual); the properties *)
(* say so too.                                                             *)
(*                                                                         *)
(* Each list of an object has its elements from the first one on           *)
(* (FromFirst), which is where the tree of the YAML parser shows it.       *)
(***************************************************************************)
EXTENDS SimpleYamlProofs, TextCompletion, ErrorRanges

-----------------------------------------------------------------------------
(* A path has the keys of lines up to its own, and no other.                *)

\* Every key of the path is that of a line up to this.
Early(path, number) ==
  IsSequence(path) /\ \A m \in Nat : Key(m) \in ToSet(path) => m \in 1..number

Known ==
  /\ \A i \in DOMAIN lines : Early(lines[i].path, lines[i].number)
  /\ \A n \in DOMAIN docs : \A i \in DOMAIN docs[n].lines :
       Early(docs[n].lines[i].path, docs[n].lines[i].number)

\* The last "[" and the last "." are in the path; a key at the beginning has no dot.
LEMMA LastInPath ==
  ASSUME NEW path, IsSequence(path)
  PROVE  /\ LastIndex(path) \in 0..Len(path)
         /\ LastKey(path) \in 0..Len(path) /\ LastKey(path) # 1
         /\ LastKey(path) # 0 => IsKey(path[LastKey(path)])
<1> DEFINE I == {i \in 1..Len(path) : IsIndex(path[i])}
           K == {i \in 1..Len(path) : IsKey(path[i])}
<1>1. Len(path) \in Nat
  BY SequenceFacts
<1>2. I \subseteq 0..Len(path) /\ K \subseteq 0..Len(path)
  BY <1>1
<1>3. LastIndex(path) = IF I # {} THEN Max(I) ELSE 0
  BY DEF LastIndex, SelectLastInSeq
<1>4. SelectLastInSeq(path, IsKey) = IF K # {} THEN Max(K) ELSE 0
  BY DEF SelectLastInSeq
<1>5. I # {} => Max(I) \in I
  <2> HIDE DEF I
  <2>1. QED
    BY <1>1, <1>2, MaxOf
<1>6. K # {} => Max(K) \in K
  <2> HIDE DEF K
  <2>1. QED
    BY <1>1, <1>2, MaxOf
<1>7. LastIndex(path) \in 0..Len(path)
  BY <1>1, <1>2, <1>3, <1>5
<1>8. LastKey(path) = 0 \/ (LastKey(path) \in K /\ LastKey(path) # 1)
  <2> HIDE DEF K
  <2>1. QED
    BY <1>4, <1>6 DEF LastKey
<1>9. QED
  BY <1>1, <1>7, <1>8

\* Upto cuts a path in front of one of its elements.
LEMMA UptoIs ==
  ASSUME NEW path, IsSequence(path), NEW n \in 1..Len(path)
  PROVE  /\ IsSequence(Upto(path, n)) /\ Len(Upto(path, n)) = n - 1
         /\ \A i \in 1..(n - 1) : Upto(path, n)[i] = path[i]
         /\ ToSet(Upto(path, n)) \subseteq ToSet(path)
<1> DEFINE s == Upto(path, n)
<1>1. Len(path) \in Nat /\ n - 1 \in 0..Len(path) /\ DOMAIN path = 1..Len(path)
  BY SequenceFacts
<1>2. Outer(s, path) /\ Len(s) = n - 1 /\ DOMAIN s = 1..(n - 1)
  BY <1>1, SubSeqOuter DEF Upto
<1> HIDE DEF s
<1>3. IsSequence(s) /\ \A i \in 1..(n - 1) : s[i] = path[i] /\ i \in DOMAIN path
  BY <1>2 DEF Outer
<1>4. ToSet(s) \subseteq ToSet(path)
  BY <1>2, <1>3 DEF ToSet
<1>5. QED
  BY <1>2, <1>3, <1>4 DEF s

\* Two early paths in a row are an early path.
LEMMA EarlyConcat ==
  ASSUME NEW s, NEW t, NEW number, Early(s, number), Early(t, number)
  PROVE  Early(s \o t, number)
<1>1. IsSequence(s \o t) /\ ToSet(s \o t) = ToSet(s) \union ToSet(t)
  BY ConcatElements DEF Early
<1>2. QED
  BY <1>1 DEF Early

\* What paths are put together from.
LEMMA EarlyParts ==
  ASSUME NEW number \in Nat \ {0}
  PROVE  /\ Early(<<>>, number) /\ Early(Root, number) /\ Early(<<Key(number)>>, number)
         /\ \A n : Early(<<Index(n)>>, number)
<1>1. \A x : IsSequence(<<x>>) /\ ToSet(<<x>>) = {x}
  BY OneElement
<1>2. \A m \in Nat : Key(m) = Key(number) => m \in 1..number
  BY DEF Key
<1>3. \A m, n : Key(m) # Index(n) /\ Key(m) # Root[1]
  BY StepKinds
<1>4. Early(<<>>, number)
  BY NoElement DEF Early
<1>5. Early(Root, number)
  <2>1. Root = <<Root[1]>>
    BY DEF Root
  <2>2. QED
    BY <1>1, <1>3, <2>1 DEF Early
<1>6. Early(<<Key(number)>>, number)
  BY <1>1, <1>2 DEF Early
<1>7. \A n : Early(<<Index(n)>>, number)
  BY <1>1, <1>3 DEF Early
<1>8. QED
  BY <1>4, <1>5, <1>6, <1>7

\* A part of an early path is early.
LEMMA EarlyUpto ==
  ASSUME NEW path, NEW number, Early(path, number), NEW n \in 1..Len(path)
  PROVE  Early(Upto(path, n), number)
BY UptoIs DEF Early

\* The path of a new line has the keys of lines before it, and its own.
LEMMA PathEarly ==
  ASSUME ParserOK, Known, NEW raw \in Raw
  PROVE  Early(PathOf(raw)[1], Number)
<1> DEFINE indent == IndentOf(raw)
           prev == Previous(indent)
           old == lines[prev].path
           index == lines[prev].listIndex
           key == KeyOf(raw)
<1>1. Number \in Nat \ {0}
  BY OffsetIs
<1>2. Early(key, Number)
  BY <1>1, EarlyParts DEF KeyOf
<1>3. indent \in Nat
  BY PathIndex DEF ParserOK
<1>4. prev # 0 => Early(old, Number)
  <2> SUFFICES ASSUME prev # 0 PROVE Early(old, Number)
    OBVIOUS
  <2>1. prev \in DOMAIN lines
    <3>1. prev \in 0..Len(lines)
      BY <1>3, PreviousFound DEF ParserOK
    <3>2. Len(lines) \in Nat /\ DOMAIN lines = 1..Len(lines)
      BY SequenceFacts DEF ParserOK
    <3> HIDE DEF prev
    <3>3. QED
      BY <3>1, <3>2
  <2> HIDE DEF prev
  <2>2. lines[prev].number = Offset + prev /\ prev \in 1..Len(lines) /\ Len(lines) \in Nat
    BY <2>1, SequenceFacts DEF ParserOK, Numbered
  <2>3. lines[prev].number <= Number /\ lines[prev].number \in Nat
    BY <2>2, OffsetIs
  <2>4. Early(old, lines[prev].number)
    BY <2>1 DEF Known
  <2>5. QED
    BY <1>1, <2>3, <2>4 DEF Early
<1>a. prev # 0 /\ lines[prev].indent < indent => lines[prev].indent # indent
  <2>1. Len(lines) \in Nat /\ DOMAIN lines = 1..Len(lines) /\ prev \in 0..Len(lines)
    BY <1>3, SequenceFacts, PreviousFound DEF ParserOK
  <2> HIDE DEF prev, indent
  <2>2. prev # 0 => lines[prev].indent \in Nat
    BY <2>1 DEF ParserOK, LineOK
  <2>3. QED
    BY <1>3, <2>2
<1> HIDE DEF key, indent, prev, old
<1>5. \A n : Early(<<Index(n)>>, Number) /\ Early(Root, Number) /\ Early(<<>>, Number)
  BY <1>1, EarlyParts
<1>6. /\ prev # 0 /\ LastIndex(old) # 0 => Early(Upto(old, LastIndex(old)), Number)
      /\ prev # 0 /\ LastKey(old) # 0 => Early(Upto(old, LastKey(old)), Number)
  <2> SUFFICES ASSUME Early(old, Number)
               PROVE  /\ LastIndex(old) # 0 => Early(Upto(old, LastIndex(old)), Number)
                      /\ LastKey(old) # 0 => Early(Upto(old, LastKey(old)), Number)
    BY <1>4
  <2>1. Len(old) \in Nat /\ LastIndex(old) \in 0..Len(old) /\ LastKey(old) \in 0..Len(old)
    BY SequenceFacts, LastInPath DEF Early
  <2>2. /\ LastIndex(old) # 0 => LastIndex(old) \in 1..Len(old)
        /\ LastKey(old) # 0 => LastKey(old) \in 1..Len(old)
    BY <2>1
  <2>3. QED
    BY <2>2, EarlyUpto
<1>7. Early(ListPath(prev, indent, key)[1], Number)
  <2>1. CASE prev = 0
    <3>1. ListPath(prev, indent, key)[1] = Root \o <<Index(0)>> \o key
      BY <2>1 DEF ListPath
    <3>2. QED
      BY <1>2, <1>5, <3>1, EarlyConcat
  <2>2. CASE prev # 0
    <3>1. CASE lines[prev].indent < indent
      <4>1. ListPath(prev, indent, key)[1] = old \o <<Index(0)>> \o key
        BY <1>a, <2>2, <3>1, ChildPath DEF old
      <4>2. QED
        BY <1>2, <1>4, <1>5, <2>2, <4>1, EarlyConcat
    <3>2. CASE ~(lines[prev].indent < indent) /\ lines[prev].indent = indent /\ LastIndex(old) # 0
      <4>1. ListPath(prev, indent, key)[1] = Upto(old, LastIndex(old)) \o <<Index(index + 1)>> \o key
        BY <2>2, <3>2 DEF ListPath, old
      <4>2. QED
        BY <1>2, <1>5, <1>6, <2>2, <3>2, <4>1, EarlyConcat
    <3>3. CASE ~(lines[prev].indent < indent) /\ ~(lines[prev].indent = indent /\ LastIndex(old) # 0)
      <4>1. ListPath(prev, indent, key)[1] = key
        BY <2>2, <3>3 DEF ListPath, old
      <4>2. QED
        BY <1>2, <4>1
    <3>4. QED
      BY <3>1, <3>2, <3>3
  <2>3. QED
    BY <2>1, <2>2
<1>8. Early(OtherPath(prev, indent, key)[1], Number)
  <2>1. CASE prev = 0
    <3>1. OtherPath(prev, indent, key)[1] = Root \o key
      BY <2>1 DEF OtherPath
    <3>2. QED
      BY <1>2, <1>5, <3>1, EarlyConcat
  <2>2. CASE prev # 0
    <3>1. CASE lines[prev].indent < indent
      <4>1. OtherPath(prev, indent, key)[1] = old \o key
        BY <1>a, <2>2, <3>1, ChildPath DEF old
      <4>2. QED
        BY <1>2, <1>4, <2>2, <4>1, EarlyConcat
    <3>2. CASE ~(lines[prev].indent < indent) /\ lines[prev].indent = indent /\ LastKey(old) # 0
      <4>1. OtherPath(prev, indent, key)[1] = Upto(old, LastKey(old)) \o key
        BY <2>2, <3>2 DEF OtherPath, old
      <4>2. QED
        BY <1>2, <1>6, <2>2, <3>2, <4>1, EarlyConcat
    <3>3. CASE ~(lines[prev].indent < indent) /\ ~(lines[prev].indent = indent /\ LastKey(old) # 0)
      <4>1. OtherPath(prev, indent, key)[1] = key
        BY <2>2, <3>3 DEF OtherPath, old
      <4>2. QED
        BY <1>2, <4>1
    <3>4. QED
      BY <3>1, <3>2, <3>3
  <2>3. QED
    BY <2>1, <2>2
<1>9. PathOf(raw)[1] \in {<<>>, ListPath(prev, indent, key)[1], OtherPath(prev, indent, key)[1]}
  BY DEF PathOf, indent, prev, key
<1>10. QED
  BY <1>5, <1>7, <1>8, <1>9

\* A line with an early path is added to the lines.
LEMMA KnownAppend ==
  ASSUME NEW some, IsSequence(some), \A i \in DOMAIN some : Early(some[i].path, some[i].number),
         NEW line, Early(line.path, line.number), NEW more, Adds(more, some, line)
  PROVE  \A i \in DOMAIN more : Early(more[i].path, more[i].number)
<1>1. /\ DOMAIN some = 1..Len(some) /\ Len(some) \in Nat /\ DOMAIN more = 1..(Len(some) + 1)
      /\ \A i \in DOMAIN some : more[i] = some[i]
      /\ more[Len(some) + 1] = line
  BY SequenceFacts, AppendFacts DEF Adds
<1>2. \A i \in DOMAIN more : i \in DOMAIN some \/ i = Len(some) + 1
  BY <1>1
<1>3. QED
  BY <1>1, <1>2

\* What a line does to the documents: it is added to the last, or ends it.
LEMMA LineRead ==
  ASSUME ParserOK, NEW raw \in Raw, ReadLine(raw)
  PROVE  LET line == Parsed(raw, IF raw.shape = "separator" THEN <<>> ELSE RefOf(raw)) IN
         \/ raw.shape # "separator" /\ docs' = docs /\ Adds(lines', lines, line)
         \/ /\ raw.shape = "separator" /\ lines' = <<>>
            /\ \E doc : /\ docs' = Append(docs, doc) /\ Adds(doc.lines, lines, line)
                        /\ doc.offset = Offset
<1> DEFINE line == Parsed(raw, IF raw.shape = "separator" THEN <<>> ELSE RefOf(raw))
<1>1. CASE ReadSeparator(raw)
  <2> DEFINE doc == [offset |-> Offset, lines |-> Append(lines, Parsed(raw, <<>>))]
  <2>1. docs' = Append(docs, doc) /\ lines' = <<>> /\ raw.shape = "separator"
    BY <1>1 DEF ReadSeparator
  <2>2. Adds(doc.lines, lines, line) /\ doc.offset = Offset
    BY <2>1 DEF Adds
  <2> HIDE DEF doc, line
  <2>3. QED
    BY <2>1, <2>2 DEF line
<1>2. CASE ReadOther(raw)
  BY <1>2 DEF ReadOther, Adds
<1>3. QED
  BY <1>1, <1>2 DEF ReadLine

\* Every step keeps the paths early.
LEMMA KnownStep ==
  ASSUME ParserOK, Known, [Next]_vars
  PROVE  Known'
<1>1. CASE UNCHANGED vars
  BY <1>1 DEF vars, Known
<1>2. ASSUME NEW raw \in Raw, ReadLine(raw)
      PROVE  Known'
  <2> DEFINE line == Parsed(raw, IF raw.shape = "separator" THEN <<>> ELSE RefOf(raw))
  <2>1. Early(line.path, line.number)
    BY PathEarly DEF Parsed
  <2>2. \/ docs' = docs /\ Adds(lines', lines, line)
        \/ lines' = <<>> /\ \E doc : docs' = Append(docs, doc) /\ Adds(doc.lines, lines, line)
    BY <1>2, LineRead
  <2> HIDE DEF line
  <2>3. IsSequence(lines) /\ IsSequence(docs)
    BY DEF ParserOK, Consecutive
  <2>4. CASE docs' = docs /\ Adds(lines', lines, line)
    BY <2>1, <2>3, <2>4, KnownAppend DEF Known
  <2>5. ASSUME lines' = <<>>, NEW doc, docs' = Append(docs, doc), Adds(doc.lines, lines, line)
        PROVE  Known'
    <3>1. \A i \in DOMAIN doc.lines : Early(doc.lines[i].path, doc.lines[i].number)
      BY <2>1, <2>3, <2>5, KnownAppend DEF Known
    <3>2. /\ DOMAIN docs = 1..Len(docs) /\ Len(docs) \in Nat /\ DOMAIN docs' = 1..(Len(docs) + 1)
          /\ \A n \in DOMAIN docs : docs'[n] = docs[n]
          /\ docs'[Len(docs) + 1] = doc
      BY <2>3, <2>5, SequenceFacts, AppendFacts
    <3>3. \A n \in DOMAIN docs' : n \in DOMAIN docs \/ n = Len(docs) + 1
      BY <3>2
    <3>4. DOMAIN lines' = {}
      BY <2>5, NoElement
    <3>5. QED
      BY <3>1, <3>2, <3>3, <3>4 DEF Known
  <2>6. QED
    BY <2>2, <2>4, <2>5
<1>3. QED
  BY <1>1, <1>2 DEF Next

-----------------------------------------------------------------------------
(* A document is a mapping or a list: its lines are all in elements of that *)
(* list, in their order, or none is.                                        *)

\* The path goes through the frame of the document: by the element a list is at, or by a key.
InRoot(path, f) ==
  Len(path) >= 2 /\ IF f.kind = "list" THEN path[2] = Index(f.count - 1) ELSE IsKey(path[2])

RootedIn(stack) ==
  /\ stack # <<>> /\ stack[1].path = Root /\ stack[1].column = 0
  /\ \A a \in DOMAIN stack : a # 1 => InRoot(stack[a].path, stack[1])

IsLong(line) == ~IsShort(line.path)
ElementOf(line) == line.path[2][2]

InElement(line, n) == IsListPath(line.path) /\ line.path[2] = Index(n)

\* The line is in the element that the long line before it is in, or in the next; the first
\* long line is in the first.
FollowsOn(some, i) ==
  \/ ElementOf(some[i]) = 0 /\ \A j \in 1..(i - 1) : ~IsLong(some[j])
  \/ \E j \in 1..(i - 1) :
       /\ IsLong(some[j]) /\ \A k \in (j + 1)..(i - 1) : ~IsLong(some[k])
       /\ ElementOf(some[i]) \in {ElementOf(some[j]), ElementOf(some[j]) + 1}

InOrder(some) ==
  \A i \in DOMAIN some : IsLong(some[i]) =>
    FollowsOn(some, i) /\ \E n \in Nat : InElement(some[i], n)

LastElement(some, n) ==
  \A i \in DOMAIN some :
    IsLong(some[i]) /\ (\A k \in (i + 1)..Len(some) : ~IsLong(some[k])) => ElementOf(some[i]) = n

MappingLines(some) == \A i \in DOMAIN some : IsEntry(some[i]) => ~IsListPath(some[i].path)

ListLines(some) ==
  /\ InOrder(some)
  /\ \E i \in DOMAIN some : "list" \in some[i].type /\ IsListPath(some[i].path)
  /\ \A i \in DOMAIN some : IsEntry(some[i]) => IsListPath(some[i].path) /\ some[i].indent >= 2

\* A line that has a key in its path has its own.
OwnKey(line) == IsEntry(line) /\ IsKey(Last(line.path)) => Last(line.path) = Key(line.number)

OwnKeys(some) == \A i \in DOMAIN some : OwnKey(some[i])

Rooted ==
  /\ \A n \in DOMAIN docs :
       (MappingLines(docs[n].lines) \/ ListLines(docs[n].lines)) /\ OwnKeys(docs[n].lines)
  /\ OwnKeys(lines)
  /\ ~yaml.body => \A i \in DOMAIN lines : ~IsLong(lines[i])
  /\ yaml.body =>
       /\ RootedIn(yaml.stack)
       /\ yaml.open.column # None => InRoot(yaml.open.path, yaml.stack[1])
       /\ yaml.stack[1].kind = "map" => MappingLines(lines)
       /\ yaml.stack[1].kind = "list" =>
            /\ ListLines(lines) /\ LastElement(lines, yaml.stack[1].count - 1)
            /\ \A d \in Nat : d >= 2 =>
                 Nearest(lines, d) # 0 /\ InRoot(lines[Nearest(lines, d)].path, yaml.stack[1])

\* The path of a line in a list is not that of its document.
LEMMA ListPathLong ==
  ASSUME NEW line, IsListPath(line.path)
  PROVE  IsLong(line)
<1>1. Len(line.path) > 1 /\ Len(<<>>) = 0 /\ Len(Root) = 1
  BY EmptySeq, RootOK, OneElement DEF IsListPath, Root
<1>2. QED
  BY <1>1 DEF IsLong, IsShort

\* The element of a line is the number of its index.
LEMMA ElementIs ==
  ASSUME NEW line, NEW n, InElement(line, n)
  PROVE  ElementOf(line) = n /\ IsLong(line)
<1>1. ElementOf(line) = n
  BY DEF InElement, ElementOf, Index
<1>3. IsLong(line)
  BY ListPathLong DEF InElement
<1>4. QED
  BY <1>1, <1>3

\* The empty path and the root are in no element.
LEMMA ShortPaths == IsShort(<<>>) /\ IsShort(Root)
<1>1. Len(<<>>) = 0 /\ Len(Root) = 1
  BY EmptySeq, OneElement DEF Root
<1>2. QED
  BY <1>1 DEF IsShort

\* A path in a frame stays in it when it is continued.
LEMMA RootAppend ==
  ASSUME NEW path, PathOK(path), NEW f, InRoot(path, f), NEW step
  PROVE  InRoot(Append(path, step), f)
<1>1. /\ Len(path) \in Nat /\ DOMAIN path = 1..Len(path) /\ Len(Append(path, step)) = Len(path) + 1
      /\ \A i \in DOMAIN path : Append(path, step)[i] = path[i]
  BY SequenceFacts, AppendFacts DEF PathOK
<1> DEFINE q == Append(path, step)
<1>2. Len(q) >= 2 /\ q[2] = path[2]
  <2>1. Len(path) >= 2
    BY DEF InRoot
  <2>2. 2 \in DOMAIN path
    BY <1>1, <2>1
  <2>3. QED
    BY <1>1, <2>1, <2>2
<1> HIDE DEF q
<1>3. InRoot(q, f)
  BY <1>2 DEF InRoot
<1>4. QED
  BY <1>3 DEF q

\* The second step of a path that continues the root.
LEMMA RootSecond ==
  ASSUME NEW step
  PROVE  Len(Append(Root, step)) = 2 /\ Append(Root, step)[2] = step
<1>1. IsSequence(Root) /\ Len(Root) = 1
  BY RootOK, OneElement DEF PathOK, Root
<1>2. Len(Append(Root, step)) = Len(Root) + 1 /\ Append(Root, step)[Len(Root) + 1] = step
  BY <1>1, AppendFacts
<1>3. QED
  BY <1>1, <1>2

\* A line more in a list.
LEMMA ListGrows ==
  ASSUME NEW some, IsSequence(some), NEW line, NEW more, Adds(more, some, line),
         NEW n \in Nat, NEW m \in Nat, InOrder(some), LastElement(some, n),
         IsLong(line) => /\ InElement(line, m) /\ m \in {n, n + 1}
                         /\ (\A i \in DOMAIN some : ~IsLong(some[i])) => m = 0,
         ~IsLong(line) => m = n
  PROVE  InOrder(more) /\ LastElement(more, m)
<1> DEFINE new == Len(some) + 1
<1>1. /\ DOMAIN some = 1..Len(some) /\ Len(some) \in Nat /\ DOMAIN more = 1..new
      /\ Len(more) = new
      /\ \A i \in DOMAIN some : more[i] = some[i]
      /\ more[new] = line
  BY SequenceFacts, AppendFacts DEF Adds
<1> HIDE DEF new
<1>a. new = Len(some) + 1
  BY DEF new
<1>2. \A i \in DOMAIN more : i \in DOMAIN some \/ i = new
  BY <1>1, <1>a
<1>3. ASSUME NEW i \in DOMAIN some, FollowsOn(some, i)
      PROVE  FollowsOn(more, i)
  <2>1. \A j \in 1..(i - 1) : j \in DOMAIN some /\ more[j] = some[j]
    BY <1>1
  <2>2. \A j \in 1..(i - 1) : \A k \in (j + 1)..(i - 1) : k \in DOMAIN some /\ more[k] = some[k]
    BY <1>1
  <2>3. more[i] = some[i]
    BY <1>1
  <2>4. QED
    BY <1>3, <2>1, <2>2, <2>3 DEF FollowsOn
<1>4. ASSUME IsLong(line)
      PROVE  FollowsOn(more, new)
  <2>1. ElementOf(line) = m
    BY <1>4, ElementIs
  <2>2. 1..(new - 1) = DOMAIN some
    BY <1>1, <1>a
  <2>3. CASE \A i \in DOMAIN some : ~IsLong(some[i])
    <3>1. ElementOf(more[new]) = 0 /\ \A j \in 1..(new - 1) : ~IsLong(more[j])
      BY <1>1, <1>4, <2>1, <2>2, <2>3
    <3>2. QED
      BY <3>1 DEF FollowsOn
  <2>4. CASE \E i \in DOMAIN some : IsLong(some[i])
    <3> DEFINE T == {i \in DOMAIN some : IsLong(some[i])}
    <3>1. T \subseteq 0..Len(some) /\ T # {}
      BY <1>1, <2>4
    <3>2. PICK j \in T : \A i \in T : i <= j
      <4> HIDE DEF T
      <4>1. QED
        BY <1>1, <3>1, GreatestNumber
    <3>3. j \in 1..(new - 1) /\ j \in DOMAIN some /\ j \in Nat
      BY <1>1, <2>2
    <3>4. \A k \in (j + 1)..(new - 1) : ~IsLong(some[k]) /\ more[k] = some[k]
      <4>1. \A k \in (j + 1)..(new - 1) : k \in DOMAIN some /\ ~(k <= j)
        BY <1>1, <1>a, <3>3
      <4>2. QED
        BY <1>1, <3>2, <4>1
    <3>5. \A k \in (j + 1)..Len(some) : ~IsLong(some[k])
      BY <1>1, <1>a, <3>4
    <3>6. ElementOf(some[j]) = n
      BY <3>3, <3>5 DEF LastElement
    <3>7. more[j] = some[j] /\ IsLong(more[j]) /\ ElementOf(more[j]) = n
      BY <1>1, <3>3, <3>6
    <3>8. ElementOf(more[new]) \in {ElementOf(more[j]), ElementOf(more[j]) + 1}
      BY <1>1, <1>4, <2>1, <3>7
    <3>9. QED
      BY <3>3, <3>4, <3>7, <3>8 DEF FollowsOn
  <2>5. QED
    BY <2>3, <2>4
<1>5. InOrder(more)
  <2> SUFFICES ASSUME NEW i \in DOMAIN more, IsLong(more[i])
               PROVE  FollowsOn(more, i) /\ \E k \in Nat : InElement(more[i], k)
    BY DEF InOrder
  <2>1. CASE i \in DOMAIN some
    <3>1. more[i] = some[i]
      BY <1>1, <2>1
    <3>2. QED
      BY <1>3, <2>1, <3>1 DEF InOrder
  <2>2. CASE i = new
    <3>1. IsLong(line) /\ InElement(more[i], m)
      BY <1>1, <2>2
    <3>2. QED
      BY <1>4, <2>2, <3>1
  <2>3. QED
    BY <1>2, <2>1, <2>2
<1>6. LastElement(more, m)
  <2> SUFFICES ASSUME NEW i \in DOMAIN more, IsLong(more[i]), \A k \in (i + 1)..Len(more) : ~IsLong(more[k])
               PROVE  ElementOf(more[i]) = m
    BY DEF LastElement
  <2>1. CASE i = new
    BY <1>1, <2>1, ElementIs
  <2>2. CASE i \in DOMAIN some
    <3>1. new \in (i + 1)..Len(more)
      BY <1>1, <1>a, <2>2
    <3>2. ~IsLong(line) /\ m = n
      BY <1>1, <3>1
    <3>3. \A k \in (i + 1)..Len(some) : k \in (i + 1)..Len(more) /\ more[k] = some[k]
      BY <1>1, <1>a, <2>2
    <3>4. more[i] = some[i]
      BY <1>1, <2>2
    <3>5. QED
      BY <2>2, <3>2, <3>3, <3>4 DEF LastElement
  <2>3. QED
    BY <1>2, <2>1, <2>2
<1>7. QED
  BY <1>5, <1>6

\* The outermost frame stays where it is.
LEMMA RootedOuter ==
  ASSUME NEW stack, RootedIn(stack), NEW kept, Outer(kept, stack), kept # <<>>
  PROVE  RootedIn(kept) /\ kept[1] = stack[1]
<1>1. 1 \in DOMAIN kept
  <2>1. Len(kept) \in Nat /\ Len(kept) # 0 /\ DOMAIN kept = 1..Len(kept)
    BY SequenceFacts DEF Outer
  <2>2. QED
    BY <2>1
<1>2. QED
  BY <1>1 DEF RootedIn, Outer

\* A frame is pushed on the stack in the first one.
LEMMA RootedAppend ==
  ASSUME NEW stack, IsSequence(stack), RootedIn(stack), NEW f, InRoot(f.path, stack[1])
  PROVE  RootedIn(Append(stack, f)) /\ Append(stack, f)[1] = stack[1]
<1> DEFINE more == Append(stack, f)
<1>1. /\ DOMAIN stack = 1..Len(stack) /\ Len(stack) \in Nat /\ DOMAIN more = 1..(Len(stack) + 1)
      /\ \A a \in DOMAIN stack : more[a] = stack[a]
      /\ more[Len(stack) + 1] = f /\ more # <<>>
  BY SequenceFacts, AppendFacts
<1>2. 1 \in DOMAIN stack
  <2>1. Len(stack) # 0
    BY SequenceFacts DEF RootedIn
  <2>2. QED
    BY <1>1, <2>1
<1> HIDE DEF more
<1>3. \A a \in DOMAIN more : a \in DOMAIN stack \/ more[a] = f
  BY <1>1
<1>4. more[1] = stack[1]
  BY <1>1, <1>2
<1>5. RootedIn(more)
  BY <1>1, <1>3, <1>4 DEF RootedIn
<1>6. QED
  BY <1>4, <1>5 DEF more

\* The stack of one frame at the root.
LEMMA RootedOne ==
  ASSUME NEW f, f.path = Root, f.column = 0
  PROVE  RootedIn(<<f>>) /\ <<f>>[1] = f
<1> DEFINE stack == <<f>>
<1>1. IsSequence(stack) /\ Len(stack) = 1 /\ stack[1] = f
  BY OneElement
<1>2. DOMAIN stack = 1..1 /\ stack # <<>>
  BY <1>1, SequenceFacts
<1> HIDE DEF stack
<1>3. RootedIn(stack)
  BY <1>1, <1>2 DEF RootedIn
<1>4. QED
  BY <1>1, <1>3 DEF stack

\* The path of a step below the innermost frame.
LEMMA RootedStep ==
  ASSUME NEW stack, StackOK(stack), RootedIn(stack), NEW step,
         \/ Last(stack).kind = "map" /\ IsKey(step)
         \/ Last(stack).kind = "list" /\ step = Index(Last(stack).count - 1)
  PROVE  InRoot(Append(Last(stack).path, step), stack[1])
<1> DEFINE top == Last(stack)
<1>1. /\ top = stack[Len(stack)] /\ Len(stack) \in DOMAIN stack /\ PathOK(top.path)
  BY TopFrame DEF RootedIn, FrameOK
<1>2. CASE Len(stack) = 1
  <2>1. top = stack[1] /\ top.path = Root
    BY <1>1, <1>2 DEF RootedIn
  <2>2. Len(Append(Root, step)) = 2 /\ Append(Root, step)[2] = step
    BY RootSecond
  <2> HIDE DEF top
  <2>3. InRoot(Append(Root, step), stack[1])
    BY <2>1, <2>2 DEF InRoot, top
  <2>4. QED
    BY <2>1, <2>3 DEF top
<1>3. CASE Len(stack) # 1
  <2>1. InRoot(top.path, stack[1])
    BY <1>1, <1>3 DEF RootedIn
  <2>2. QED
    BY <1>1, <2>1, RootAppend
<1>4. QED
  BY <1>2, <1>3

\* What a key does to the outermost frame: it begins it, or leaves it as it is.
LEMMA MapStackRooted ==
  ASSUME Together, Rooted, NEW column \in Nat, MapStack(column) # <<>>
  PROVE  /\ RootedIn(MapStack(column))
         /\ IF yaml.body THEN MapStack(column)[1] = yaml.stack[1]
            ELSE MapStack(column)[1].kind = "map"
<1> DEFINE stack == MapStack(column)
<1>1. ~yaml.body => yaml.open.column = None /\ yaml.stack = <<>>
  BY DEF Together, BodyOK
<1>2. IsSequence(yaml.stack)
  BY DEF Together, StackOK
<1>3. CASE TopIs(KeyFrames(column), "map", column) /\ stack = KeyFrames(column)
  <2>1. yaml.body
    BY <1>3, NoFrames
  <2>2. Outer(KeyFrames(column), yaml.stack) /\ KeyFrames(column) # <<>>
    BY <1>2, <1>3, KeyFramesAre DEF TopIs
  <2>3. QED
    BY <1>3, <2>1, <2>2, RootedOuter DEF Rooted
<1>4. CASE /\ yaml.open.column \in 0..(column - 1)
           /\ stack = Append(yaml.stack, Frame("map", column, yaml.open.path, 0))
  <2> DEFINE f == Frame("map", column, yaml.open.path, 0)
  <2>1. yaml.open.column # None
    BY <1>4 DEF None
  <2>2. yaml.body /\ InRoot(yaml.open.path, yaml.stack[1]) /\ RootedIn(yaml.stack)
    BY <1>1, <2>1 DEF Rooted
  <2>3. f.path = yaml.open.path
    BY FrameFields
  <2> HIDE DEF f
  <2>4. RootedIn(Append(yaml.stack, f)) /\ Append(yaml.stack, f)[1] = yaml.stack[1]
    BY <1>2, <2>2, <2>3, RootedAppend
  <2>5. stack = Append(yaml.stack, f)
    BY <1>4 DEF f
  <2> HIDE DEF stack
  <2>6. RootedIn(stack) /\ stack[1] = yaml.stack[1]
    BY <2>4, <2>5, Zenon
  <2>7. QED
    BY <2>2, <2>6 DEF stack
<1>5. CASE ~yaml.body /\ column = 0 /\ stack = <<Frame("map", 0, Root, 0)>>
  <2> DEFINE f == Frame("map", 0, Root, 0)
  <2>1. f.kind = "map" /\ f.column = 0 /\ f.path = Root
    BY FrameFields
  <2> HIDE DEF f
  <2>2. RootedIn(<<f>>) /\ <<f>>[1] = f
    BY <2>1, RootedOne
  <2>3. stack = <<f>>
    BY <1>5 DEF f
  <2> HIDE DEF stack
  <2>4. RootedIn(stack) /\ stack[1].kind = "map"
    BY <2>1, <2>2, <2>3
  <2>5. QED
    BY <1>5, <2>4 DEF stack
<1>6. QED
  BY <1>3, <1>4, <1>5, MapStackCases

\* What an element does to it: it begins it, leaves it, or is its own next element.
LEMMA ListStackRooted ==
  ASSUME Together, Rooted, NEW column \in Nat, ListStack(column) # <<>>
  PROVE  LET stack == ListStack(column) IN
         /\ RootedIn(stack)
         /\ IF yaml.body
            THEN \/ stack[1] = yaml.stack[1]
                 \/ /\ column = 0 /\ yaml.stack[1].kind = "list" /\ stack[1].kind = "list"
                    /\ stack[1].count = yaml.stack[1].count + 1
            ELSE column = 0 /\ stack[1].kind = "list" /\ stack[1].count = 1
<1> DEFINE stack == ListStack(column)
           kept == ItemFrames(column)
<1>1. ~yaml.body => yaml.open.column = None /\ yaml.stack = <<>>
  BY DEF Together, BodyOK
<1>2. StackOK(yaml.stack) /\ IsSequence(yaml.stack)
  BY DEF Together, StackOK
<1>3. CASE /\ TopIs(kept, "list", column)
           /\ stack = Append(Front(kept), Frame("list", column, Last(kept).path, Last(kept).count + 1))
  <2> DEFINE g == Last(kept)
             f == Frame("list", column, g.path, g.count + 1)
             outer == Front(kept)
  <2>1. yaml.body /\ kept # <<>> /\ g.kind = "list" /\ g.column = column
    BY <1>3, NoFrames DEF TopIs
  <2>2. Outer(kept, yaml.stack) /\ StackOK(kept) /\ IsSequence(kept)
    BY <1>2, ItemFramesAre, StackOuter DEF StackOK
  <2>3. RootedIn(kept) /\ kept[1] = yaml.stack[1]
    BY <2>1, <2>2, RootedOuter DEF Rooted
  <2>4. f.kind = "list" /\ f.column = column /\ f.path = g.path /\ f.count = g.count + 1
    BY FrameFields
  <2>5. stack = Append(outer, f)
    BY <1>3
  <2>6. Len(kept) \in DOMAIN kept /\ g = kept[Len(kept)] /\ Len(kept) \in Nat /\ DOMAIN kept = 1..Len(kept)
    BY <2>1, <2>2, TopFrame, SequenceFacts
  <2>7. Len(kept) - 1 \in 0..Len(kept)
    BY <2>6
  <2>8. Outer(outer, kept) /\ DOMAIN outer = 1..(Len(kept) - 1)
    BY <2>2, <2>7, SubSeqOuter DEF Front
  <2> HIDE DEF stack, kept, outer, f, g
  <2>9. CASE Len(kept) = 1
    <3>1. outer = <<>>
      <4>1. DOMAIN outer = {} /\ DOMAIN outer = 1..Len(outer) /\ Len(outer) \in Nat
        BY <2>8, <2>9, SequenceFacts DEF Outer
      <4>2. Len(outer) = 0
        BY <4>1
      <4>3. QED
        BY <4>2, <2>8, SequenceFacts DEF Outer
    <3>2. stack = <<f>>
      BY <2>5, <3>1
    <3>3. g = yaml.stack[1] /\ g.path = Root /\ column = 0
      BY <2>1, <2>3, <2>6, <2>9 DEF RootedIn
    <3>4. RootedIn(<<f>>) /\ <<f>>[1] = f
      BY <2>4, <3>3, RootedOne
    <3>5. RootedIn(stack) /\ stack[1] = f
      BY <3>2, <3>4
    <3>6. QED
      BY <2>1, <2>4, <3>3, <3>5 DEF stack
  <2>10. CASE Len(kept) # 1
    <3>1. outer # <<>>
      <4>1. 1 \in DOMAIN outer
        BY <2>6, <2>8, <2>10
      <4>2. QED
        BY <4>1, NoElement, SequenceFacts, EmptySeq
    <3>2. RootedIn(outer) /\ outer[1] = kept[1]
      BY <2>3, <2>8, <3>1, RootedOuter
    <3>3. InRoot(f.path, outer[1])
      BY <2>3, <2>4, <2>6, <2>10, <3>2 DEF RootedIn
    <3>4. RootedIn(Append(outer, f)) /\ Append(outer, f)[1] = outer[1]
      BY <2>8, <3>2, <3>3, RootedAppend DEF Outer
    <3>5. RootedIn(stack) /\ stack[1] = yaml.stack[1]
      BY <2>3, <2>5, <3>2, <3>4, Zenon
    <3>6. QED
      BY <2>1, <3>5 DEF stack
  <2>11. QED
    BY <2>9, <2>10
<1>4. CASE /\ yaml.open.column \in 0..column
           /\ stack = Append(yaml.stack, Frame("list", column, yaml.open.path, 1))
  <2> DEFINE f == Frame("list", column, yaml.open.path, 1)
  <2>1. yaml.open.column # None
    BY <1>4 DEF None
  <2>2. yaml.body /\ InRoot(yaml.open.path, yaml.stack[1]) /\ RootedIn(yaml.stack)
    BY <1>1, <2>1 DEF Rooted
  <2>3. f.path = yaml.open.path
    BY FrameFields
  <2> HIDE DEF f
  <2>4. RootedIn(Append(yaml.stack, f)) /\ Append(yaml.stack, f)[1] = yaml.stack[1]
    BY <1>2, <2>2, <2>3, RootedAppend
  <2>5. stack = Append(yaml.stack, f)
    BY <1>4 DEF f
  <2> HIDE DEF stack
  <2>6. RootedIn(stack) /\ stack[1] = yaml.stack[1]
    BY <2>4, <2>5, Zenon
  <2>7. QED
    BY <2>2, <2>6 DEF stack
<1>5. CASE ~yaml.body /\ column = 0 /\ stack = <<Frame("list", 0, Root, 1)>>
  <2> DEFINE f == Frame("list", 0, Root, 1)
  <2>1. f.kind = "list" /\ f.column = 0 /\ f.path = Root /\ f.count = 1
    BY FrameFields
  <2> HIDE DEF f
  <2>2. RootedIn(<<f>>) /\ <<f>>[1] = f
    BY <2>1, RootedOne
  <2>3. stack = <<f>>
    BY <1>5 DEF f
  <2> HIDE DEF stack
  <2>4. RootedIn(stack) /\ stack[1].kind = "list" /\ stack[1].count = 1
    BY <2>1, <2>2, <2>3
  <2>5. QED
    BY <1>5, <2>4 DEF stack
<1>6. QED
  BY <1>3, <1>4, <1>5, ListStackCases

\* A line with a path goes through the outermost frame there is after it.
LEMMA EntryRooted ==
  ASSUME Together, ParserOK, Rooted, NEW raw \in Raw, RefOf(raw) # <<>>
  PROVE  LET line == Parsed(raw, RefOf(raw))
             stack == StackAfter(raw)
         IN /\ RootedIn(stack) /\ InRoot(line.path, stack[1])
            /\ stack[1].kind = "list" => line.indent >= 2
            /\ IF yaml.body
               THEN \/ stack[1] = yaml.stack[1]
                    \/ /\ yaml.stack[1].kind = "list" /\ stack[1].kind = "list" /\ line.indent = 2
                       /\ stack[1].count = yaml.stack[1].count + 1
               ELSE stack[1].kind = "list" =>
                      "list" \in line.type /\ line.indent = 2 /\ stack[1].count = 1
<1> DEFINE line == Parsed(raw, RefOf(raw))
           stack == StackAfter(raw)
           column == raw.column
           Root1 == yaml.stack[1]
<1>1. /\ ~IsContent(raw)
      /\ \/ raw.shape \in Mapping /\ MapStack(column) # <<>>
         \/ raw.shape \in Item \union {"value"} /\ ListStack(column) # <<>>
  BY DEF RefOf
<1>2. column \in Nat /\ raw.column \in Nat
  BY RawColumn
<1>3. CASE raw.shape \in Mapping /\ MapStack(column) # <<>>
  <2>1. stack = MapStack(column)
    BY <1>3 DEF StackAfter, Mapping
  <2>2. /\ line.indent = column /\ Renewed(stack, line)
        /\ Last(stack).kind = "map" /\ Last(stack).column = column
        /\ line.path = Append(Last(stack).path, Key(Number))
    BY <1>1, <1>3, <2>1, KeyLine
  <2>3. RootedIn(stack) /\ IF yaml.body THEN stack[1] = Root1 ELSE stack[1].kind = "map"
    BY <1>2, <1>3, <2>1, MapStackRooted
  <2> HIDE DEF line, stack, column
  <2>4. StackOK(stack) /\ stack # <<>>
    BY <2>2 DEF Renewed
  <2>5. InRoot(line.path, stack[1])
    <3>1. IsKey(Key(Number)) /\ Last(stack).kind = "map"
      BY <2>2, StepKinds
    <3> DEFINE key == Key(Number)
    <3> HIDE DEF key
    <3>2. IsKey(key)
      BY <3>1 DEF key
    <3>3. InRoot(Append(Last(stack).path, key), stack[1])
      BY <2>3, <2>4, <3>1, <3>2, RootedStep
    <3>4. QED
      BY <2>2, <3>3, Zenon DEF key
  <2>6. stack[1].kind = "list" => line.indent >= 2
    <3>1. 1 \in DOMAIN stack
      <4>1. Len(stack) \in Nat /\ Len(stack) # 0 /\ DOMAIN stack = 1..Len(stack)
        BY <2>4, SequenceFacts DEF StackOK
      <4>2. QED
        BY <4>1
    <3>2. stack[1] = Last(stack) \/ Nested(stack[1], Last(stack))
      BY <2>4, <3>1, TopFrame
    <3>3. QED
      BY <1>2, <2>2, <2>3, <3>2 DEF Nested, RootedIn
  <2>7. QED
    BY <2>3, <2>5, <2>6 DEF line, stack
<1>4. CASE raw.shape \in Item \union {"value"} /\ ListStack(column) # <<>>
  <2> DEFINE below == ListStack(column)
             top == Last(below)
             element == CountedPath(top)
             f == Frame("map", column + 2, Element(below), 0)
  <2>1. /\ line.indent = column + 2
        /\ Renewed(below, line) /\ FrameOK(top) /\ top.kind = "list"
        /\ PathOK(element) /\ element = Element(below)
        /\ "list" \in line.type
        /\ IF raw.shape \in Item THEN line.path = Append(element, Key(Number)) ELSE line.path = element
    BY <1>1, <1>4, ItemLine
  <2>2. /\ RootedIn(below)
        /\ IF yaml.body
           THEN \/ below[1] = Root1
                \/ /\ column = 0 /\ Root1.kind = "list" /\ below[1].kind = "list"
                   /\ below[1].count = Root1.count + 1
           ELSE column = 0 /\ below[1].kind = "list" /\ below[1].count = 1
    BY <1>2, <1>4, ListStackRooted
  <2>3. stack = IF raw.shape \in Item THEN Append(below, f) ELSE below
    BY <1>4 DEF StackAfter, Mapping, Item
  <2>4. f.path = Element(below)
    BY FrameFields
  <2> HIDE DEF line, stack, below, f, column, Root1
  <2>5. StackOK(below) /\ IsSequence(below)
    BY <2>1 DEF Renewed, StackOK
  <2>6. InRoot(element, below[1])
    <3>1. InRoot(Append(top.path, Index(top.count - 1)), below[1])
      BY <2>1, <2>2, <2>5, RootedStep
    <3>2. QED
      BY <3>1 DEF CountedPath
  <2> HIDE DEF element, top
  <2>7. line.indent >= 2 /\ (column = 0 => line.indent = 2)
    <3>1. column \in Nat
      BY <1>2
    <3>2. QED
      BY <2>1, <3>1
  <2>8. CASE raw.shape \in Item
    <3>1. RootedIn(Append(below, f)) /\ Append(below, f)[1] = below[1]
      BY <2>1, <2>2, <2>4, <2>5, <2>6, RootedAppend
    <3>2. stack = Append(below, f)
      BY <2>3, <2>8
    <3>3. RootedIn(stack) /\ stack[1] = below[1]
      BY <3>1, <3>2, Zenon
    <3>4. InRoot(Append(element, Key(Number)), below[1])
      BY <2>1, <2>6, RootAppend
    <3>5. InRoot(line.path, stack[1])
      BY <2>1, <2>8, <3>3, <3>4, Zenon
    <3>6. QED
      BY <2>1, <2>2, <2>7, <3>3, <3>5 DEF line, stack, Root1
  <2>9. CASE raw.shape \notin Item
    <3>1. stack = below /\ line.path = element
      BY <2>1, <2>3, <2>9
    <3>2. QED
      BY <2>1, <2>2, <2>6, <2>7, <3>1 DEF line, stack, Root1
  <2>10. QED
    BY <2>8, <2>9
<1>5. QED
  BY <1>1, <1>3, <1>4

\* The key of a line is its own.
LEMMA EntryKey ==
  ASSUME Together, ParserOK, NEW raw \in Raw, RefOf(raw) # <<>>
  PROVE  LET line == Parsed(raw, RefOf(raw)) IN
         IsKey(Last(line.path)) => Last(line.path) = Key(line.number)
<1> DEFINE line == Parsed(raw, RefOf(raw))
           column == raw.column
<1>1. /\ ~IsContent(raw)
      /\ \/ raw.shape \in Mapping /\ MapStack(column) # <<>>
         \/ raw.shape \in Item \union {"value"} /\ ListStack(column) # <<>>
  BY DEF RefOf
<1>2. line.number = Number
  BY DEF Parsed
<1>3. CASE raw.shape \in Mapping /\ MapStack(column) # <<>>
  <2>1. /\ Renewed(MapStack(column), line)
        /\ line.path = Append(Last(MapStack(column)).path, Key(Number))
    BY <1>1, <1>3, KeyLine
  <2> HIDE DEF line, column
  <2>2. IsSequence(Last(MapStack(column)).path)
    BY <2>1, TopFrame DEF Renewed, FrameOK, PathOK
  <2>3. Last(line.path) = Key(Number)
    BY <2>1, <2>2, LastOfAppend
  <2>4. QED
    BY <1>2, <2>3 DEF line
<1>4. CASE raw.shape \in Item \union {"value"} /\ ListStack(column) # <<>>
  <2> DEFINE top == Last(ListStack(column))
             element == CountedPath(top)
  <2>1. /\ PathOK(element) /\ FrameOK(top)
        /\ IF raw.shape \in Item THEN line.path = Append(element, Key(Number)) ELSE line.path = element
    BY <1>1, <1>4, ItemLine
  <2> HIDE DEF line
  <2>2. element = Append(top.path, Index(top.count - 1)) /\ IsSequence(top.path)
    BY <2>1 DEF CountedPath, FrameOK, PathOK
  <2> HIDE DEF element, top
  <2>3. Last(element) = Index(top.count - 1)
    BY <2>2, LastOfAppend
  <2>4. Last(Append(element, Key(Number))) = Key(Number)
    BY <2>1, LastOfAppend DEF PathOK
  <2>5. Last(line.path) = Key(Number) \/ ~IsKey(Last(line.path))
    BY <2>1, <2>3, <2>4, StepKinds
  <2>6. QED
    BY <1>2, <2>5 DEF line
<1>5. QED
  BY <1>1, <1>3, <1>4

\* The path of a line that is no entry: none, or in the element the list is at.
AsidePath(path) ==
  \/ IsShort(path)
  \/ yaml.body /\ (yaml.stack[1].kind = "list" => path[1] = Root[1] /\ InRoot(path, yaml.stack[1]))

\* A line without an entry has the path of the line before it.
LEMMA AsideParsed ==
  ASSUME Together, ParserOK, Rooted, NEW raw \in Raw,
         TypeOf(raw) \in {{"separator"}, {"comment"}, {"empty"}, {"blockScalar"}}
  PROVE  AsidePath(PathOf(raw)[1])
<1> DEFINE indent == IndentOf(raw)
           prev == Nearest(lines, indent)
           old == lines[prev].path
           path == PathOf(raw)[1]
<1>1. CASE TypeOf(raw) \in {{"separator"}, {"comment"}}
  <2>1. path = <<>>
    BY <1>1 DEF PathOf
  <2>2. QED
    BY <2>1, ShortPaths DEF AsidePath
<1>2. CASE TypeOf(raw) \notin {{"separator"}, {"comment"}}
  <2>1. "list" \notin TypeOf(raw) /\ "mapping" \notin TypeOf(raw)
    OBVIOUS
  <2> DEFINE key == KeyOf(raw)
  <2>2. \A s : IsSequence(s) => s \o key = s
    <3>1. key = <<>>
      BY <2>1 DEF KeyOf
    <3>2. QED
      BY <3>1, ConcatNone
  <2>3. path = OtherPath(prev, indent, key)[1]
    BY <1>2, <2>1, PreviousNearest DEF PathOf
  <2>a. key = <<>>
    BY <2>1 DEF KeyOf
  <2> HIDE DEF key
  <2>4. indent \in Nat /\ IsSequence(lines)
    BY PathIndex DEF ParserOK
  <2> HIDE DEF path, indent
  <2>5. CASE prev = 0
    <3>1. path = Root \o key
      BY <2>3, <2>5, FirstPath
    <3>2. path = Root
      BY <2>2, <3>1, RootOK DEF PathOK
    <3>3. QED
      BY <3>2, ShortPaths DEF AsidePath, path
  <2>6. CASE prev # 0
    <3>1. prev \in DOMAIN lines /\ IsEntry(lines[prev]) /\ lines[prev].indent <= indent
      BY <2>4, <2>6, NearestFound, SequenceFacts DEF Reaches
    <3>2. yaml.body /\ lines[prev].indent \in Nat /\ PathOK(old)
      BY <3>1 DEF Together, BodyOK, ParserOK, LineOK, LineAgrees
    <3>3. yaml.stack[1].kind = "list" => InRoot(old, yaml.stack[1])
      <4>1. yaml.stack[1].kind = "list" => lines[prev].indent >= 2
        BY <3>1, <3>2 DEF Rooted, ListLines
      <4>2. yaml.stack[1].kind = "list" => indent >= 2
        BY <2>4, <3>1, <3>2, <4>1
      <4>3. QED
        BY <2>4, <3>2, <4>2 DEF Rooted
    <3>4. IsSequence(old) /\ Len(old) \in Nat /\ old[1] = Root[1]
      BY <3>2, SequenceFacts DEF PathOK
    <3>5. AsidePath(old)
      BY <3>2, <3>3, <3>4 DEF AsidePath
    <3> HIDE DEF prev
    <3>6. CASE lines[prev].indent < indent
      <4>1. lines[prev].indent # indent
        BY <2>4, <3>2, <3>6
      <4>2. path = old \o key
        BY <2>3, <2>6, <3>6, <4>1, ChildPath
      <4>3. path = old
        BY <2>2, <3>4, <4>2
      <4>4. QED
        BY <3>5, <4>3 DEF path
    <3>7. CASE ~(lines[prev].indent < indent) /\ lines[prev].indent = indent /\ LastKey(old) # 0
      <4> DEFINE n == LastKey(old)
                 upto == Upto(old, n)
      <4>a. OtherPath(prev, indent, key) = <<upto \o key, lines[prev].listIndex>>
        BY <2>6, <3>7, SiblingKeyPath
      <4>1. path = upto \o key
        <5> HIDE DEF upto, n
        <5>1. QED
          BY <2>3, <4>a
      <4>2. n \in 0..Len(old) /\ n # 1 /\ n # 0 /\ IsKey(old[n])
        BY <3>4, <3>7, LastInPath
      <4> HIDE DEF n
      <4>3. n \in 1..Len(old)
        BY <3>4, <4>2
      <4>4. IsSequence(upto) /\ Len(upto) = n - 1 /\ \A i \in 1..(n - 1) : upto[i] = old[i]
        BY <3>4, <4>3, UptoIs
      <4> HIDE DEF upto
      <4>5. path = upto
        BY <2>2, <4>1, <4>4
      <4>6. upto[1] = Root[1]
        BY <3>4, <4>2, <4>3, <4>4
      <4>7. ASSUME yaml.stack[1].kind = "list"
            PROVE  InRoot(upto, yaml.stack[1])
        <5>1. old[2] = Index(yaml.stack[1].count - 1)
          BY <3>3, <4>7 DEF InRoot
        <5>2. n # 2
          BY <4>2, <5>1, StepKinds
        <5>3. Len(upto) >= 2 /\ upto[2] = old[2]
          BY <3>4, <4>2, <4>3, <4>4, <5>2
        <5>4. QED
          BY <4>7, <5>1, <5>3 DEF InRoot
      <4>8. QED
        BY <3>2, <4>5, <4>6, <4>7 DEF AsidePath, path
    <3>8. CASE ~(lines[prev].indent < indent) /\ ~(lines[prev].indent = indent /\ LastKey(old) # 0)
      <4>1. path = <<>>
        BY <2>3, <2>6, <2>a, <3>8 DEF OtherPath
      <4>2. QED
        BY <4>1, ShortPaths DEF AsidePath, path
    <3>9. QED
      BY <3>6, <3>7, <3>8
  <2>7. QED
    BY <2>5, <2>6
<1>3. QED
  BY <1>1, <1>2

\* A document with one line more.
LEMMA AppendLines ==
  ASSUME NEW some, IsSequence(some), NEW line, NEW more, Adds(more, some, line)
  PROVE  /\ \A i \in DOMAIN some : i \in DOMAIN more /\ more[i] = some[i]
         /\ Len(some) + 1 \in DOMAIN more /\ more[Len(some) + 1] = line
         /\ \A i \in DOMAIN more : i \in DOMAIN some \/ i = Len(some) + 1
<1>1. /\ DOMAIN some = 1..Len(some) /\ Len(some) \in Nat /\ DOMAIN more = 1..(Len(some) + 1)
      /\ \A i \in DOMAIN some : more[i] = some[i]
      /\ more[Len(some) + 1] = line
  BY SequenceFacts, AppendFacts DEF Adds
<1>2. QED
  BY <1>1

\* What is in an element of the list is in it by its path.
LEMMA InRootElement ==
  ASSUME NEW line, NEW f, f.kind = "list", line.path[1] = Root[1], InRoot(line.path, f)
  PROVE  InElement(line, f.count - 1)
<1>1. IsIndex(line.path[2]) /\ line.path[2] = Index(f.count - 1)
  BY StepKinds DEF InRoot
<1>2. Len(line.path) > 1
  <2>1. Len(line.path) >= 2
    BY DEF InRoot
  <2>2. QED
    BY <2>1
<1>3. QED
  BY <1>1, <1>2 DEF InElement, IsListPath

\* The first frame of a stack is a mapping, or a list with a current element.
LEMMA RootFrame ==
  ASSUME NEW stack, StackOK(stack), stack # <<>>
  PROVE  /\ 1 \in DOMAIN stack /\ FrameOK(stack[1])
         /\ stack[1].kind = "map" \/ (stack[1].kind = "list" /\ stack[1].count - 1 \in Nat)
<1>1. 1 \in DOMAIN stack
  <2>1. Len(stack) \in Nat /\ Len(stack) # 0 /\ DOMAIN stack = 1..Len(stack)
    BY SequenceFacts DEF StackOK
  <2>2. QED
    BY <2>1
<1>2. FrameOK(stack[1])
  BY <1>1 DEF StackOK
<1>3. QED
  BY <1>1, <1>2 DEF FrameOK

\* A line that is no entry changes nothing of this.
LEMMA AsideLines ==
  ASSUME Together, ParserOK, Rooted, NEW line, ~IsEntry(line), AsidePath(line.path),
         NEW more, Adds(more, lines, line)
  PROVE  /\ OwnKeys(more)
         /\ ~yaml.body => MappingLines(more) /\ \A i \in DOMAIN more : ~IsLong(more[i])
         /\ yaml.body /\ yaml.stack[1].kind = "map" => MappingLines(more)
         /\ yaml.body /\ yaml.stack[1].kind = "list" =>
              ListLines(more) /\ LastElement(more, yaml.stack[1].count - 1)
<1>1. /\ \A i \in DOMAIN lines : i \in DOMAIN more /\ more[i] = lines[i]
      /\ \A i \in DOMAIN more : i \in DOMAIN lines \/ i = Len(lines) + 1
      /\ more[Len(lines) + 1] = line
  BY AppendLines DEF ParserOK
<1>2. OwnKeys(more)
  BY <1>1 DEF Rooted, OwnKeys, OwnKey
<1>3. ASSUME ~yaml.body
      PROVE  MappingLines(more) /\ \A i \in DOMAIN more : ~IsLong(more[i])
  <2>1. ~IsLong(line)
    BY <1>3 DEF AsidePath, IsLong
  <2>2. \A i \in DOMAIN lines : ~IsEntry(lines[i]) /\ ~IsLong(lines[i])
    BY <1>3 DEF Together, BodyOK, Rooted
  <2>3. QED
    BY <1>1, <2>1, <2>2 DEF MappingLines
<1>4. ASSUME yaml.body, yaml.stack[1].kind = "map"
      PROVE  MappingLines(more)
  BY <1>1, <1>4 DEF Rooted, MappingLines
<1>5. ASSUME yaml.body, yaml.stack[1].kind = "list"
      PROVE  ListLines(more) /\ LastElement(more, yaml.stack[1].count - 1)
  <2> DEFINE n == yaml.stack[1].count - 1
  <2>1. n \in Nat
    BY <1>5, RootFrame DEF Together, Rooted, RootedIn
  <2>2. ListLines(lines) /\ LastElement(lines, n)
    BY <1>5 DEF Rooted
  <2>3. ASSUME IsLong(line)
        PROVE  InElement(line, n)
    <3>1. line.path[1] = Root[1] /\ InRoot(line.path, yaml.stack[1])
      BY <1>5, <2>3 DEF AsidePath, IsLong
    <3>2. QED
      BY <1>5, <3>1, InRootElement
  <2>4. \E i \in DOMAIN lines : IsLong(lines[i])
    <3>1. PICK i \in DOMAIN lines : IsListPath(lines[i].path)
      BY <2>2 DEF ListLines
    <3>2. QED
      BY <3>1, ListPathLong
  <2> HIDE DEF n
  <2>5. InOrder(more) /\ LastElement(more, n)
    BY <2>1, <2>2, <2>3, <2>4, ListGrows DEF ListLines, ParserOK
  <2>6. /\ \E i \in DOMAIN more : "list" \in more[i].type /\ IsListPath(more[i].path)
        /\ \A i \in DOMAIN more : IsEntry(more[i]) => IsListPath(more[i].path) /\ more[i].indent >= 2
    BY <1>1, <2>2 DEF ListLines
  <2>7. QED
    BY <2>5, <2>6 DEF ListLines, n
<1>6. QED
  BY <1>2, <1>3, <1>4, <1>5

\* A line with a path keeps it, whatever it does to the stack.
LEMMA EntryLines ==
  ASSUME Together, ParserOK, Rooted, NEW raw \in Raw, RefOf(raw) # <<>>,
         Adds(lines', lines, Parsed(raw, RefOf(raw))), yaml'.stack = StackAfter(raw)
  PROVE  LET root == yaml'.stack[1] IN
         /\ RootedIn(yaml'.stack) /\ OwnKeys(lines')
         /\ InRoot(RefOf(raw), root)
         /\ root.kind = "map" => MappingLines(lines')
         /\ root.kind = "list" =>
              /\ ListLines(lines') /\ LastElement(lines', root.count - 1)
              /\ \A d \in Nat : d >= 2 =>
                   Nearest(lines', d) # 0 /\ InRoot(lines'[Nearest(lines', d)].path, root)
<1> DEFINE line == Parsed(raw, RefOf(raw))
           stack == yaml'.stack
           root == stack[1]
           old == yaml.stack[1]
<1>1. /\ IsEntry(line) /\ line.indent \in Nat /\ LineAgrees(line) /\ line.path = RefOf(raw)
      /\ Renewed(stack, line)
  BY EntryLine
<1>2. /\ RootedIn(stack) /\ InRoot(line.path, root)
      /\ root.kind = "list" => line.indent >= 2
      /\ IF yaml.body
         THEN \/ root = old
              \/ /\ old.kind = "list" /\ root.kind = "list" /\ line.indent = 2
                 /\ root.count = old.count + 1
         ELSE root.kind = "list" => "list" \in line.type /\ line.indent = 2 /\ root.count = 1
  BY EntryRooted
<1>3. IsKey(Last(line.path)) => Last(line.path) = Key(line.number)
  BY EntryKey
<1>4. Adds(lines', lines, line) /\ IsSequence(lines)
  BY DEF ParserOK
<1> HIDE DEF line
<1>5. /\ \A i \in DOMAIN lines : i \in DOMAIN lines' /\ lines'[i] = lines[i]
      /\ \A i \in DOMAIN lines' : i \in DOMAIN lines \/ i = Len(lines) + 1
      /\ Len(lines) + 1 \in DOMAIN lines' /\ lines'[Len(lines) + 1] = line
  BY <1>4, AppendLines
<1>6. OwnKeys(lines')
  BY <1>3, <1>5 DEF Rooted, OwnKeys, OwnKey
<1>7. PathOK(line.path) /\ line.path[1] = Root[1]
  BY <1>1 DEF LineAgrees, PathOK
<1>8. ~yaml.body => \A i \in DOMAIN lines : ~IsEntry(lines[i]) /\ ~IsLong(lines[i])
  BY DEF Together, BodyOK, Rooted
<1>9. yaml.body => RootedIn(yaml.stack) /\ StackOK(yaml.stack)
  BY DEF Together, Rooted
<1>10. ASSUME root.kind = "map"
       PROVE  MappingLines(lines')
  <2>1. ~IsListPath(line.path)
    BY <1>2, <1>10, StepKinds DEF InRoot, IsListPath, IsIndex, IsKey
  <2>2. MappingLines(lines)
    <3>1. CASE ~yaml.body
      BY <1>8, <3>1 DEF MappingLines
    <3>2. CASE yaml.body
      <4>1. root = old
        BY <1>2, <1>10, <3>2
      <4>2. QED
        BY <1>10, <3>2, <4>1 DEF Rooted
    <3>3. QED
      BY <3>1, <3>2
  <2>3. QED
    BY <1>5, <2>1, <2>2 DEF MappingLines
<1>11. ASSUME root.kind = "list"
       PROVE  /\ ListLines(lines') /\ LastElement(lines', root.count - 1)
              /\ \A d \in Nat : d >= 2 =>
                   Nearest(lines', d) # 0 /\ InRoot(lines'[Nearest(lines', d)].path, root)
  <2> DEFINE m == root.count - 1
             n == IF yaml.body THEN old.count - 1 ELSE 0
  <2>1. m \in Nat /\ root.count \in Nat
    BY <1>1, <1>2, <1>11, RootFrame DEF RootedIn, Renewed, FrameOK
  <2>2. InElement(line, m)
    BY <1>2, <1>7, <1>11, InRootElement
  <2>3. IsListPath(line.path) /\ line.indent >= 2
    BY <1>2, <1>11, <2>2 DEF InElement
  <2>4. yaml.body => old.kind = "list" /\ ListLines(lines) /\ LastElement(lines, old.count - 1)
    <3>1. yaml.body => old.kind = "list"
      BY <1>2, <1>11
    <3>2. QED
      BY <3>1 DEF Rooted
  <2>5. n \in Nat /\ m \in {n, n + 1} /\ (yaml.body \/ m = 0)
    <3>1. CASE yaml.body
      <4>1. old.count - 1 \in Nat /\ old.count \in Nat
        BY <1>9, <2>4, <3>1, RootFrame DEF RootedIn, FrameOK
      <4>2. root.count = old.count \/ root.count = old.count + 1
        BY <1>2, <3>1
      <4>3. QED
        BY <2>1, <3>1, <4>1, <4>2
    <3>2. CASE ~yaml.body
      <4>1. root.count = 1
        BY <1>2, <1>11, <3>2
      <4>2. QED
        BY <3>2, <4>1
    <3>3. QED
      BY <3>1, <3>2
  <2>6. InOrder(lines) /\ LastElement(lines, n)
    <3>1. CASE yaml.body
      BY <2>4, <3>1 DEF ListLines
    <3>2. CASE ~yaml.body
      BY <1>8, <3>2 DEF InOrder, LastElement
    <3>3. QED
      BY <3>1, <3>2
  <2>7. (\A i \in DOMAIN lines : ~IsLong(lines[i])) => m = 0
    <3>1. CASE yaml.body
      <4>1. PICK i \in DOMAIN lines : IsListPath(lines[i].path)
        BY <2>4, <3>1 DEF ListLines
      <4>2. QED
        BY <4>1, ListPathLong
    <3>2. QED
      BY <2>5, <3>1
  <2>8. IsLong(line)
    BY <2>2, ElementIs
  <2> HIDE DEF m, n
  <2>9. InOrder(lines') /\ LastElement(lines', m)
    BY <1>4, <2>1, <2>2, <2>5, <2>6, <2>7, <2>8, ListGrows
  <2>10. \E i \in DOMAIN lines' : "list" \in lines'[i].type /\ IsListPath(lines'[i].path)
    <3>1. CASE yaml.body
      BY <1>5, <2>4, <3>1 DEF ListLines
    <3>2. CASE ~yaml.body
      BY <1>2, <1>5, <1>11, <2>3, <3>2
    <3>3. QED
      BY <3>1, <3>2
  <2>11. \A i \in DOMAIN lines' : IsEntry(lines'[i]) => IsListPath(lines'[i].path) /\ lines'[i].indent >= 2
    <3>1. CASE yaml.body
      BY <1>5, <2>3, <2>4, <3>1 DEF ListLines
    <3>2. CASE ~yaml.body
      BY <1>5, <1>8, <2>3, <3>2
    <3>3. QED
      BY <3>1, <3>2
  <2>12. ASSUME NEW d \in Nat, d >= 2
         PROVE  Nearest(lines', d) # 0 /\ InRoot(lines'[Nearest(lines', d)].path, root)
    <3>1. CASE Reaches(line, d)
      BY <1>2, <1>4, <3>1, NearestStep
    <3>2. CASE ~Reaches(line, d)
      <4>1. line.indent # 2
        BY <1>1, <2>12, <3>2 DEF Reaches
      <4>2. yaml.body /\ root = old
        BY <1>2, <1>11, <4>1
      <4>3. Nearest(lines, d) # 0 /\ InRoot(lines[Nearest(lines, d)].path, root)
        BY <2>4, <2>12, <4>2 DEF Rooted
      <4>4. QED
        BY <1>4, <3>2, <4>3, NearestStep
    <3>3. QED
      BY <3>1, <3>2
  <2>13. QED
    BY <2>9, <2>10, <2>11, <2>12 DEF ListLines, m
<1>12. QED
  BY <1>1, <1>2, <1>6, <1>10, <1>11

\* Every step keeps the lines of an object together.
LEMMA RootedNext ==
  ASSUME ParserOK, YamlOK, Usual => Together /\ Rooted, [Next]_vars
  PROVE  (Usual => Rooted)'
<1>1. CASE UNCHANGED vars
  BY <1>1 DEF vars, Usual, Rooted
<1>2. ASSUME NEW raw \in Raw, ReadLine(raw), Usual'
      PROVE  Rooted'
  <2> DEFINE line == Parsed(raw, IF raw.shape = "separator" THEN <<>> ELSE RefOf(raw))
  <2>1. yaml' = YamlAfter(raw)
    BY <1>2 DEF ReadLine
  <2>2. Together /\ Rooted /\ Usual
    BY <1>2, <2>1, YamlCases
  <2>3. raw.column \in Nat /\ scalar = yaml.scalar
    BY <2>2, RawColumn DEF Together
  <2>4. line.path = PathOf(raw)[1] /\ line.type = TypeOf(raw)
    BY DEF Parsed
  <2>5. \/ raw.shape # "separator" /\ docs' = docs /\ Adds(lines', lines, line)
        \/ /\ raw.shape = "separator" /\ lines' = <<>>
           /\ \E doc : docs' = Append(docs, doc) /\ Adds(doc.lines, lines, line)
    BY <1>2, LineRead
  <2>6. ASSUME TypeOf(raw) \in {{"separator"}, {"comment"}, {"empty"}, {"blockScalar"}},
               NEW more, Adds(more, lines, line)
        PROVE  /\ OwnKeys(more)
               /\ ~yaml.body => MappingLines(more) /\ \A i \in DOMAIN more : ~IsLong(more[i])
               /\ yaml.body /\ yaml.stack[1].kind = "map" => MappingLines(more)
               /\ yaml.body /\ yaml.stack[1].kind = "list" =>
                    ListLines(more) /\ LastElement(more, yaml.stack[1].count - 1)
    <3>1. ~IsEntry(line)
      BY <2>4, <2>6 DEF IsEntry
    <3>2. AsidePath(line.path)
      BY <2>2, <2>4, <2>6, AsideParsed
    <3> HIDE DEF line
    <3>3. QED
      BY <2>2, <2>6, <3>1, <3>2, AsideLines
  <2>7. CASE raw.shape = "separator" /\ ~yaml'.body
    <3>1. TypeOf(raw) = {"separator"}
      BY <2>7 DEF TypeOf, Mapping, Item
    <3>2. PICK doc : docs' = Append(docs, doc) /\ Adds(doc.lines, lines, line)
      BY <2>5, <2>7
    <3>3. lines' = <<>>
      BY <2>5, <2>7
    <3> HIDE DEF line
    <3>4. yaml.body => yaml.stack[1].kind \in {"map", "list"}
      BY <2>2, RootFrame DEF Together, Rooted, RootedIn
    <3>5. (MappingLines(doc.lines) \/ ListLines(doc.lines)) /\ OwnKeys(doc.lines)
      BY <2>6, <3>1, <3>2, <3>4
    <3>6. /\ \A n \in DOMAIN docs : docs'[n] = docs[n]
          /\ docs'[Len(docs) + 1] = doc
          /\ \A n \in DOMAIN docs' : n \in DOMAIN docs \/ n = Len(docs) + 1
      <4>1. Adds(docs', docs, doc) /\ IsSequence(docs)
        BY <3>2 DEF Adds, ParserOK, Consecutive
      <4>2. QED
        BY <4>1, AppendLines
    <3>7. \A n \in DOMAIN docs' :
            (MappingLines(docs'[n].lines) \/ ListLines(docs'[n].lines)) /\ OwnKeys(docs'[n].lines)
      BY <2>2, <3>5, <3>6 DEF Rooted
    <3>8. DOMAIN lines' = {}
      BY <3>3
    <3>9. QED
      BY <2>7, <3>7, <3>8 DEF Rooted, OwnKeys
  <2>8. CASE /\ raw.shape # "separator"
             /\ TypeOf(raw) \in {{"comment"}, {"empty"}, {"blockScalar"}}
             /\ yaml'.stack = yaml.stack /\ yaml'.open = yaml.open /\ yaml'.body = yaml.body
    <3>1. docs' = docs /\ Adds(lines', lines, line)
      BY <2>5, <2>8
    <3>2. ~IsEntry(line)
      BY <2>4, <2>8 DEF IsEntry
    <3>3. /\ OwnKeys(lines')
          /\ ~yaml.body => MappingLines(lines') /\ \A i \in DOMAIN lines' : ~IsLong(lines'[i])
          /\ yaml.body /\ yaml.stack[1].kind = "map" => MappingLines(lines')
          /\ yaml.body /\ yaml.stack[1].kind = "list" =>
               ListLines(lines') /\ LastElement(lines', yaml.stack[1].count - 1)
      BY <2>6, <2>8, <3>1
    <3> HIDE DEF line
    <3>4. ASSUME yaml.body, yaml.stack[1].kind = "list", NEW d \in Nat, d >= 2
          PROVE  Nearest(lines', d) # 0 /\ InRoot(lines'[Nearest(lines', d)].path, yaml.stack[1])
      <4>1. Nearest(lines, d) # 0 /\ InRoot(lines[Nearest(lines, d)].path, yaml.stack[1])
        BY <2>2, <3>4 DEF Rooted
      <4>2. ~Reaches(line, d) /\ IsSequence(lines)
        BY <3>2 DEF Reaches, ParserOK
      <4>3. QED
        BY <3>1, <4>1, <4>2, NearestStep
    <3>5. QED
      BY <2>2, <2>8, <3>1, <3>3, <3>4 DEF Rooted
  <2>9. CASE /\ raw.shape # "separator" /\ RefOf(raw) # <<>>
             /\ yaml'.stack = StackAfter(raw) /\ yaml'.body
             /\ yaml'.open = (IF raw.shape \in {"key", "item"}
                              THEN [column |-> KeyColumn(raw), path |-> RefOf(raw)] ELSE NoKey)
    <3>1. docs' = docs /\ Adds(lines', lines, Parsed(raw, RefOf(raw)))
      BY <2>5, <2>9
    <3> HIDE DEF line
    <3>2. LET root == yaml'.stack[1] IN
          /\ RootedIn(yaml'.stack) /\ OwnKeys(lines')
          /\ InRoot(RefOf(raw), root)
          /\ root.kind = "map" => MappingLines(lines')
          /\ root.kind = "list" =>
               /\ ListLines(lines') /\ LastElement(lines', root.count - 1)
               /\ \A d \in Nat : d >= 2 =>
                    Nearest(lines', d) # 0 /\ InRoot(lines'[Nearest(lines', d)].path, root)
      BY <2>2, <2>9, <3>1, EntryLines
    <3>3. yaml'.open.column # None => InRoot(yaml'.open.path, yaml'.stack[1])
      BY <2>9, <3>2 DEF NoKey
    <3>4. QED
      BY <2>2, <2>9, <3>1, <3>2, <3>3 DEF Rooted
  <2>10. CASE raw.shape \in {"empty", "comment"} /\ ~IsContent(raw)
    <3>1. TypeOf(raw) = {raw.shape}
      <4>1. ~InScalar(raw)
        BY <2>3, <2>10 DEF InScalar, IsContent
      <4>2. QED
        BY <2>10, <4>1 DEF TypeOf, Mapping, Item
    <3>2. TypeOf(raw) \in {{"comment"}, {"empty"}, {"blockScalar"}}
      BY <2>10, <3>1
    <3>3. raw.shape # "separator" /\ raw.shape \notin {"separator", "dashes"}
      BY <2>10
    <3>4. RefOf(raw) = <<>>
      BY <2>10 DEF RefOf, Mapping, Item
    <3>5. yaml'.stack = yaml.stack /\ yaml'.open = yaml.open /\ yaml'.body = yaml.body
      BY <1>2, <2>1, <2>10, <3>3, <3>4, YamlCases
    <3>6. QED
      BY <2>8, <3>2, <3>3, <3>5
  <2>11. CASE raw.shape \notin {"separator", "dashes"} /\ IsContent(raw) /\ raw.column >= yaml.scalar
    <3>1. TypeOf(raw) = {"blockScalar"} /\ RefOf(raw) = <<>>
      <4>1. InScalar(raw)
        BY <2>3, <2>11 DEF InScalar, IsContent
      <4>2. QED
        BY <2>11, <4>1 DEF TypeOf, RefOf
    <3>2. yaml'.stack = yaml.stack /\ yaml'.open = yaml.open /\ yaml'.body = yaml.body
      BY <1>2, <2>1, <2>11, <3>1, YamlCases
    <3>3. QED
      BY <2>8, <2>11, <3>1, <3>2
  <2>12. QED
    BY <1>2, <2>1, <2>7, <2>9, <2>10, <2>11, YamlCases
<1>3. QED
  BY <1>1, <1>2 DEF Next, Usual

\* The invariants of the paths hold in every state.
LEMMA RootedInvariant == Spec => [](IInv /\ Known /\ (Usual => Together /\ Rooted))
<1>1. Init => IInv /\ Known /\ (Usual => Together /\ Rooted)
  <2> SUFFICES ASSUME Init PROVE IInv /\ Known /\ Together /\ Rooted
    OBVIOUS
  <2>1. IsSequence(<<>>) /\ DOMAIN <<>> = {}
    BY NoElement
  <2>2. IInv
    BY <2>1 DEF Init, IInv, ParserOK, YamlOK, Consecutive, Numbered, Fresh, None
  <2>3. Together
    BY <2>1 DEF Init, Fresh, NoKey, Together, StackOK, StackShown, OpenOK, BodyOK
  <2>4. Known /\ Rooted
    BY <2>1 DEF Init, Fresh, Known, Rooted, OwnKeys
  <2>5. QED
    BY <2>2, <2>3, <2>4
<1>2. IInv /\ Known /\ (Usual => Together /\ Rooted) /\ [Next]_vars
        => (IInv /\ Known /\ (Usual => Together /\ Rooted))'
  <2> SUFFICES ASSUME IInv, Known, Usual => Together /\ Rooted, [Next]_vars
               PROVE  IInv' /\ Known' /\ (Usual => Together)' /\ (Usual => Rooted)'
    OBVIOUS
  <2>1. IInv'
    BY ParserStep, YamlStep DEF IInv
  <2>2. Known' /\ (Usual => Together)' /\ (Usual => Rooted)'
    BY KnownStep, TogetherStep, RootedNext DEF IInv
  <2>3. QED
    BY <2>1, <2>2
<1>3. QED
  BY <1>1, <1>2, PTL DEF Spec

-----------------------------------------------------------------------------
(* The index of an object is that of the element its lines are in.          *)

\* The prefix of a line of an element is the root with its index.
LEMMA PrefixIs ==
  ASSUME NEW line, NEW n, InElement(line, n), IsSequence(line.path)
  PROVE  Prefix(line.path) = <<Root[1], Index(n)>>
<1> DEFINE path == line.path
           I == {i \in 1..Len(path) : IsIndex(path[i])}
           s == SubSeq(path, 1, 2)
           t == <<Root[1], Index(n)>>
<1>1. Len(path) \in Nat /\ Len(path) > 1 /\ path[1] = Root[1] /\ path[2] = Index(n)
  BY SequenceFacts DEF InElement, IsListPath
<1> HIDE DEF path
<1>2. 2 \in I /\ \A i \in I : 2 <= i
  <2>1. \A i \in 1..Len(path) : i # 1 => 2 <= i
    BY <1>1
  <2>2. ~IsIndex(path[1]) /\ IsIndex(path[2])
    BY <1>1, StepKinds, Zenon
  <2>3. QED
    BY <1>1, <2>1, <2>2
<1>3. SelectInSeq(path, IsIndex) = 2
  <2>1. SelectInSeq(path, IsIndex) = Min(I)
    BY <1>2 DEF SelectInSeq
  <2>2. Min(I) \in I /\ \A i \in I : Min(I) <= i
    <3> HIDE DEF I
    <3>1. QED
      BY <1>2, Zenon DEF Min
  <2>3. I \subseteq Nat
    BY <1>1
  <2> HIDE DEF I
  <2>4. Min(I) = 2
    <3>1. Min(I) <= 2 /\ 2 <= Min(I) /\ Min(I) \in Nat
      BY <1>2, <2>2, <2>3
    <3>2. QED
      BY <3>1
  <2>5. QED
    BY <2>1, <2>4
<1>4. IsSequence(s) /\ Len(s) = 2 /\ s[1] = Root[1] /\ s[2] = Index(n)
  <2>1. Outer(s, path) /\ Len(s) = 2 /\ DOMAIN s = 1..2
    BY <1>1, SubSeqOuter DEF path
  <2> HIDE DEF s
  <2>2. QED
    BY <1>1, <2>1 DEF Outer
<1>5. IsSequence(t) /\ Len(t) = 2 /\ t[1] = Root[1] /\ t[2] = Index(n)
  BY TwoElements
<1> HIDE DEF s, t
<1>6. s = t
  <2> DEFINE S == ToSet(s) \union ToSet(t)
  <2>1. s \in Seq(S) /\ t \in Seq(S)
    BY <1>4, <1>5, SequenceOfMore
  <2>2. \A i \in 1..Len(s) : s[i] = t[i]
    BY <1>4, <1>5
  <2> HIDE DEF S
  <2>3. QED
    BY <1>4, <1>5, <2>1, <2>2, SeqEqual
<1>7. Prefix(path) = s
  BY <1>3, Zenon DEF Prefix, s
<1>8. QED
  BY <1>6, <1>7 DEF path, t

\* Lines of different elements have different prefixes.
LEMMA PrefixesDiffer ==
  ASSUME NEW line, NEW other, NEW n, NEW m, InElement(line, n), InElement(other, m),
         IsSequence(line.path), IsSequence(other.path)
  PROVE  Prefix(line.path) # Prefix(other.path) <=> n # m
<1> DEFINE p == <<Root[1], Index(n)>>
           q == <<Root[1], Index(m)>>
<1>1. Prefix(line.path) = p /\ Prefix(other.path) = q
  BY PrefixIs
<1>2. p[2] = Index(n) /\ q[2] = Index(m)
  OBVIOUS
<1>3. Index(n)[2] = n /\ Index(m)[2] = m
  BY DEF Index
<1>4. n = m => p = q
  OBVIOUS
<1> HIDE DEF p, q
<1>5. p = q => n = m
  BY <1>2, <1>3
<1>6. QED
  BY <1>1, <1>4, <1>5

\* Lines of a list, each of them with a path.
ListDocument(doc) ==
  /\ DocumentOK(doc) /\ InOrder(doc.lines)
  /\ \A i \in DOMAIN doc.lines : IsSequence(doc.lines[i].path)

CutsUpto(doc, i) == {c \in Cuts(doc) : c <= i}

\* The lines of a list that are in an element.
LEMMA LongLines ==
  ASSUME NEW doc, DocumentOK(doc)
  PROVE  /\ DOMAIN doc.lines = 1..Len(doc.lines) /\ Len(doc.lines) \in Nat
         /\ \A i : i \in Long(doc) <=> i \in DOMAIN doc.lines /\ IsLong(doc.lines[i])
         /\ Long(doc) \subseteq 1..Len(doc.lines)
         /\ Cuts(doc) \subseteq Long(doc)
         /\ \A c \in Cuts(doc) : \E j \in Long(doc) : j < c
<1>1. DOMAIN doc.lines = 1..Len(doc.lines) /\ Len(doc.lines) \in Nat
  BY SequenceFacts DEF DocumentOK
<1>2. \A i : i \in Long(doc) <=> i \in DOMAIN doc.lines /\ IsLong(doc.lines[i])
  BY DEF Long, IsLong
<1>3. Cuts(doc) \subseteq Long(doc) /\ \A c \in Cuts(doc) : \E j \in Long(doc) : j < c
  BY DEF Cuts
<1>4. QED
  BY <1>1, <1>2, <1>3

\* A line begins an object if it is in another element than the long line before it.
LEMMA CutAt ==
  ASSUME NEW doc, ListDocument(doc), NEW i \in Long(doc), NEW j \in Long(doc), j < i,
         \A k \in Long(doc) : k <= j \/ k >= i
  PROVE  i \in Cuts(doc) <=> ElementOf(doc.lines[i]) # ElementOf(doc.lines[j])
<1>1. /\ Long(doc) \subseteq 1..Len(doc.lines)
      /\ \A k \in Long(doc) : k \in DOMAIN doc.lines /\ IsLong(doc.lines[k])
      /\ Len(doc.lines) \in Nat
  BY LongLines DEF ListDocument
<1>2. \A k \in Long(doc) : InElement(doc.lines[k], ElementOf(doc.lines[k])) /\ IsSequence(doc.lines[k].path)
  <2> SUFFICES ASSUME NEW k \in Long(doc)
               PROVE  InElement(doc.lines[k], ElementOf(doc.lines[k])) /\ IsSequence(doc.lines[k].path)
    OBVIOUS
  <2>1. PICK n \in Nat : InElement(doc.lines[k], n)
    BY <1>1 DEF ListDocument, InOrder
  <2>2. ElementOf(doc.lines[k]) = n
    BY <2>1, ElementIs
  <2>3. QED
    BY <1>1, <2>1, <2>2 DEF ListDocument
<1>3. Prefix(doc.lines[i].path) # Prefix(doc.lines[j].path)
        <=> ElementOf(doc.lines[i]) # ElementOf(doc.lines[j])
  <2>1. /\ InElement(doc.lines[i], ElementOf(doc.lines[i])) /\ IsSequence(doc.lines[i].path)
        /\ InElement(doc.lines[j], ElementOf(doc.lines[j])) /\ IsSequence(doc.lines[j].path)
    BY <1>2
  <2>2. QED
    BY <2>1, PrefixesDiffer
<1>4. ASSUME NEW l \in Long(doc), l < i, \A k \in Long(doc) : k <= l \/ k >= i
      PROVE  l = j
  <2>1. l <= j \/ l >= i
    OBVIOUS
  <2>2. j <= l \/ j >= i
    BY <1>4
  <2>3. i \in Nat /\ j \in Nat /\ l \in Nat
    BY <1>1
  <2>4. QED
    BY <1>4, <2>1, <2>2, <2>3
<1>5. i \in Cuts(doc) <=> Prefix(doc.lines[i].path) # Prefix(doc.lines[j].path)
  <2>1. i \in Cuts(doc) <=> \E l \in Long(doc) :
          /\ l < i
          /\ \A k \in Long(doc) : k <= l \/ k >= i
          /\ Prefix(doc.lines[i].path) # Prefix(doc.lines[l].path)
    BY DEF Cuts
  <2>2. QED
    BY <1>4, <2>1
<1>6. QED
  BY <1>3, <1>5

\* A document is cut into finitely many objects.
LEMMA CutsFinite ==
  ASSUME NEW doc, DocumentOK(doc), NEW T, T \subseteq Cuts(doc)
  PROVE  IsFiniteSet(T) /\ Cardinality(T) \in Nat
<1>1. T \subseteq 1..Len(doc.lines) /\ Len(doc.lines) \in Nat
  BY LongLines
<1>2. IsFiniteSet(1..Len(doc.lines))
  BY <1>1, FS_Interval
<1>3. IsFiniteSet(T)
  BY <1>1, <1>2, FS_Subset
<1>4. QED
  BY <1>3, FS_CardinalityType

\* A line is in the element whose number is that of the objects begun before it.
LEMMA ElementCount ==
  ASSUME NEW doc, ListDocument(doc), NEW p \in Long(doc)
  PROVE  ElementOf(doc.lines[p]) = Cardinality(CutsUpto(doc, p))
<1> DEFINE Right(i) == ElementOf(doc.lines[i]) = Cardinality(CutsUpto(doc, i))
           Bad == {i \in Long(doc) : ~Right(i)}
<1>1. /\ Long(doc) \subseteq 1..Len(doc.lines) /\ Len(doc.lines) \in Nat
      /\ \A k : k \in Long(doc) <=> k \in DOMAIN doc.lines /\ IsLong(doc.lines[k])
      /\ Cuts(doc) \subseteq Long(doc) /\ \A c \in Cuts(doc) : \E j \in Long(doc) : j < c
      /\ DOMAIN doc.lines = 1..Len(doc.lines)
  BY LongLines DEF ListDocument
<1>2. SUFFICES ASSUME Bad # {} PROVE FALSE
  OBVIOUS
<1>3. Bad \in SUBSET Nat
  BY <1>1
<1>4. PICK i \in Bad : \A m \in Bad : i <= m
  <2> HIDE DEF Bad
  <2>1. QED
    BY <1>2, <1>3, LeastNumber
<1>5. i \in Long(doc) /\ ~Right(i) /\ i \in Nat /\ i \in DOMAIN doc.lines /\ IsLong(doc.lines[i])
  BY <1>1, <1>4
<1>6. \A j \in Long(doc) : j < i => Right(j)
  <2>1. \A j \in Long(doc) : j < i => ~(i <= j)
    BY <1>1, <1>5
  <2>2. QED
    BY <1>4, <2>1
<1> HIDE DEF Bad
<1>7. FollowsOn(doc.lines, i)
  BY <1>5 DEF ListDocument, InOrder
<1>8. CASE ElementOf(doc.lines[i]) = 0 /\ \A j \in 1..(i - 1) : ~IsLong(doc.lines[j])
  <2>1. ASSUME NEW c \in CutsUpto(doc, i) PROVE FALSE
    <3>1. PICK j \in Long(doc) : j < c
      BY <1>1 DEF CutsUpto
    <3>2. c <= i /\ c \in Nat /\ j \in Nat /\ j >= 1
      BY <1>1 DEF CutsUpto
    <3>3. j \in 1..(i - 1)
      BY <1>5, <3>1, <3>2
    <3>4. QED
      BY <1>1, <1>8, <3>3
  <2>2. CutsUpto(doc, i) = {}
    BY <2>1
  <2>3. QED
    BY <1>5, <1>8, <2>2, FS_EmptySet
<1>9. CASE \E j \in 1..(i - 1) :
             /\ IsLong(doc.lines[j]) /\ \A k \in (j + 1)..(i - 1) : ~IsLong(doc.lines[k])
             /\ ElementOf(doc.lines[i]) \in {ElementOf(doc.lines[j]), ElementOf(doc.lines[j]) + 1}
  <2>1. PICK j \in 1..(i - 1) :
             /\ IsLong(doc.lines[j]) /\ \A k \in (j + 1)..(i - 1) : ~IsLong(doc.lines[k])
             /\ ElementOf(doc.lines[i]) \in {ElementOf(doc.lines[j]), ElementOf(doc.lines[j]) + 1}
    BY <1>9
  <2>2. j \in Long(doc) /\ j < i /\ j \in Nat
    <3>1. i \in 1..Len(doc.lines)
      BY <1>1, <1>5
    <3>2. j \in 1..Len(doc.lines)
      BY <1>1, <3>1
    <3>3. QED
      BY <1>1, <1>5, <2>1, <3>2
  <2>3. \A k \in Long(doc) : k <= j \/ k >= i
    <3>1. \A k \in Long(doc) : k \in Nat /\ k \notin (j + 1)..(i - 1)
      BY <1>1, <2>1
    <3>2. QED
      BY <1>5, <2>2, <3>1
  <2>4. i \in Cuts(doc) <=> ElementOf(doc.lines[i]) # ElementOf(doc.lines[j])
    BY <1>5, <2>2, <2>3, CutAt
  <2> DEFINE S == CutsUpto(doc, j)
  <2>5. CutsUpto(doc, i) = IF i \in Cuts(doc) THEN S \union {i} ELSE S
    <3>1. \A c \in Cuts(doc) : c <= i <=> c <= j \/ c = i
      <4>1. \A c \in Cuts(doc) : c \in Nat /\ (c <= j \/ c >= i)
        BY <1>1, <2>3
      <4>2. QED
        BY <1>5, <2>2, <4>1
    <3>2. QED
      BY <3>1 DEF CutsUpto
  <2>6. i \notin S
    BY <1>5, <2>2 DEF CutsUpto
  <2>7. IsFiniteSet(S) /\ Cardinality(S) \in Nat
    <3>1. S \subseteq Cuts(doc)
      BY DEF CutsUpto
    <3> HIDE DEF S
    <3>2. QED
      BY <3>1, CutsFinite DEF ListDocument
  <2>8. Cardinality(S) = ElementOf(doc.lines[j])
    BY <1>6, <2>2
  <2> HIDE DEF S
  <2>9. Cardinality(S \union {i}) = Cardinality(S) + 1
    BY <2>6, <2>7, FS_AddElement
  <2>10. Cardinality(CutsUpto(doc, i)) = ElementOf(doc.lines[i])
    <3>1. CASE i \in Cuts(doc)
      BY <2>1, <2>4, <2>5, <2>8, <2>9, <3>1
    <3>2. CASE i \notin Cuts(doc)
      BY <2>1, <2>4, <2>5, <2>8, <3>2
    <3>3. QED
      BY <3>1, <3>2
  <2>11. QED
    BY <1>5, <2>10
<1>10. QED
  BY <1>7, <1>8, <1>9 DEF FollowsOn

\* A line of an object is one of its document, with no cut between.
LEMMA ObjectParts ==
  ASSUME NEW doc, DocumentOK(doc), NEW begins, NEW i \in DOMAIN doc.lines,
         NEW j \in DOMAIN ObjectAt(doc, begins, i).lines
  PROVE  \E p \in DOMAIN doc.lines :
           /\ i <= p /\ ObjectAt(doc, begins, i).lines[j] = doc.lines[p]
           /\ \A k \in begins : k \in Nat => k <= i \/ k > p
<1> DEFINE T == {l \in i..Len(doc.lines) : \A k \in (i + 1)..l : k \notin begins}
           end == EndOf(doc, begins, i)
           object == ObjectAt(doc, begins, i)
           p == i + j - 1
<1>1. /\ DOMAIN doc.lines = 1..Len(doc.lines) /\ Len(doc.lines) \in Nat
      /\ i \in 1..Len(doc.lines)
  BY SequenceFacts DEF DocumentOK
<1>2. T \subseteq 0..Len(doc.lines) /\ i \in T
  BY <1>1
<1>3. end = Max(T)
  BY DEF EndOf
<1>4. end \in T
  <2> HIDE DEF T, end
  <2>1. QED
    BY <1>1, <1>2, <1>3, MaxOf
<1>5. end \in i..Len(doc.lines) /\ \A k \in (i + 1)..end : k \notin begins
  BY <1>4
<1> HIDE DEF T, end
<1>6. object.lines = SubSeq(doc.lines, i, end)
  BY DEF ObjectAt, end
<1>7. /\ SubSeq(doc.lines, i, end) \in Seq(ToSet(doc.lines))
      /\ Len(SubSeq(doc.lines, i, end)) = end - i + 1
      /\ \A l \in 1..(end - i + 1) : SubSeq(doc.lines, i, end)[l] = doc.lines[i + l - 1]
  <2>1. \A l \in i..end : doc.lines[l] \in ToSet(doc.lines)
    BY <1>1, <1>5 DEF ToSet
  <2>2. i \in Int /\ end \in Int /\ i <= end
    BY <1>1, <1>5
  <2>3. QED
    BY <2>1, <2>2, SubSeqProperties
<1>8. DOMAIN object.lines = 1..(end - i + 1)
  BY <1>6, <1>7, SequenceOfAny, SequenceFacts
<1>9. j \in 1..(end - i + 1) /\ object.lines[j] = doc.lines[p]
  BY <1>6, <1>7, <1>8
<1>10. p \in DOMAIN doc.lines /\ i <= p /\ p <= end /\ p \in Nat
  BY <1>1, <1>5, <1>9
<1> HIDE DEF object, p
<1>11. ASSUME NEW k \in begins, k \in Nat
       PROVE  k <= i \/ k > p
  <2>1. k \notin (i + 1)..end
    BY <1>5
  <2>2. QED
    BY <1>1, <1>5, <1>10, <1>11, <2>1
<1>12. QED
  BY <1>9, <1>10, <1>11 DEF object

\* The lines of an object with a path are in the element that is its index.
LEMMA ObjectIndex ==
  ASSUME NEW doc, ListDocument(doc), NEW i \in DOMAIN doc.lines, i \in {1} \union Cuts(doc),
         NEW object, object = ObjectAt(doc, {1} \union Cuts(doc), i),
         NEW j \in DOMAIN object.lines, IsLong(object.lines[j])
  PROVE  ElementOf(object.lines[j]) = object.index /\ object.index \in Nat
<1> DEFINE begins == {1} \union Cuts(doc)
           before == {k \in begins : k < i}
<1>1. /\ Long(doc) \subseteq 1..Len(doc.lines) /\ Len(doc.lines) \in Nat
      /\ \A k : k \in Long(doc) <=> k \in DOMAIN doc.lines /\ IsLong(doc.lines[k])
      /\ Cuts(doc) \subseteq Long(doc) /\ \A c \in Cuts(doc) : \E k \in Long(doc) : k < c
      /\ DOMAIN doc.lines = 1..Len(doc.lines)
  BY LongLines DEF ListDocument
<1>2. PICK p \in DOMAIN doc.lines :
        /\ i <= p /\ object.lines[j] = doc.lines[p]
        /\ \A k \in begins : k \in Nat => k <= i \/ k > p
  BY ObjectParts DEF ListDocument
<1>3. p \in Long(doc)
  BY <1>1, <1>2
<1>4. ElementOf(object.lines[j]) = Cardinality(CutsUpto(doc, p))
  BY <1>2, <1>3, ElementCount
<1>5. i \in Nat /\ p \in Nat /\ i >= 1
  BY <1>1
<1>6. \A c \in Cuts(doc) : c \in Nat /\ c # 1 /\ c >= 1
  BY <1>1
<1>7. \A c \in Cuts(doc) : c <= p <=> c <= i
  BY <1>2, <1>5, <1>6
<1>8. CutsUpto(doc, p) = CutsUpto(doc, i)
  BY <1>7 DEF CutsUpto
<1>9. object.index = Cardinality(before)
  BY DEF ObjectAt
<1>10. Cardinality(CutsUpto(doc, i)) = Cardinality(before) /\ Cardinality(before) \in Nat
  <2>1. CASE i = 1
    <3>1. CutsUpto(doc, i) = {} /\ before = {}
      BY <1>6, <2>1 DEF CutsUpto
    <3> HIDE DEF before
    <3>2. QED
      BY <3>1, FS_EmptySet
  <2>2. CASE i # 1
    <3> DEFINE S == {c \in Cuts(doc) : c < i}
    <3>1. CutsUpto(doc, i) = S \union {i} /\ before = S \union {1}
      <4>1. i \in Cuts(doc) /\ 1 < i
        BY <1>5, <2>2
      <4>2. \A c \in Cuts(doc) : c <= i <=> c < i \/ c = i
        BY <1>5, <1>6
      <4>3. CutsUpto(doc, i) = S \union {i}
        BY <1>5, <4>1, <4>2 DEF CutsUpto
      <4>4. before = S \union {1}
        BY <4>1
      <4>5. QED
        BY <4>3, <4>4
    <3>2. i \notin S /\ 1 \notin S
      BY <1>5, <1>6
    <3>3. IsFiniteSet(S) /\ Cardinality(S) \in Nat
      <4>1. S \subseteq Cuts(doc)
        OBVIOUS
      <4> HIDE DEF S
      <4>2. QED
        BY <4>1, CutsFinite DEF ListDocument
    <3> HIDE DEF S, before
    <3>4. Cardinality(S \union {i}) = Cardinality(S) + 1 /\ Cardinality(S \union {1}) = Cardinality(S) + 1
      BY <3>2, <3>3, FS_AddElement
    <3>5. QED
      BY <3>1, <3>3, <3>4
  <2>3. QED
    BY <2>1, <2>2
<1>11. QED
  BY <1>4, <1>8, <1>9, <1>10

\* The index that FindLineByPath puts before a path is the one that is missing in it.
LEMMA FullPath ==
  ASSUME NEW ref, IsSequence(ref), Len(ref) >= 2
  PROVE  LET short == <<ref[1]>> \o SubSeq(ref, 3, Len(ref))
         IN <<short[1], ref[2]>> \o Tail(short) = ref
<1> DEFINE S == ToSet(ref)
           len == Len(ref)
           one == <<ref[1]>>
           sub == SubSeq(ref, 3, len)
           short == one \o sub
           two == <<short[1], ref[2]>>
           full == two \o Tail(short)
<1>1. ref \in Seq(S) /\ len \in Nat /\ len >= 2 /\ \A k \in 1..len : ref[k] \in S
  BY SequenceFacts DEF IsSequence, ToSet
<1> HIDE DEF S, len
<1>2. one \in Seq(S) /\ Len(one) = 1 /\ one[1] = ref[1]
  <2>1. ref[1] \in S
    BY <1>1
  <2>2. QED
    BY <2>1
<1>3. sub \in Seq(S) /\ Len(sub) = len - 2 /\ \A k \in 1..(len - 2) : sub[k] = ref[k + 2]
  <2>1. /\ sub \in Seq(S) /\ Len(sub) = IF 3 <= len THEN len - 3 + 1 ELSE 0
        /\ \A k \in 1..(len - 3 + 1) : sub[k] = ref[3 + k - 1]
    BY <1>1, SubSeqProperties
  <2> HIDE DEF sub
  <2>2. \A k \in 1..(len - 2) : k \in 1..(len - 3 + 1) /\ 3 + k - 1 = k + 2
    BY <1>1
  <2>3. (IF 3 <= len THEN len - 3 + 1 ELSE 0) = len - 2
    BY <1>1
  <2>4. QED
    BY <2>1, <2>2, <2>3
<1> HIDE DEF one, sub
<1>4. /\ short \in Seq(S) /\ Len(short) = len - 1 /\ short[1] = ref[1]
      /\ \A k \in 1..(len - 2) : short[k + 1] = ref[k + 2]
  <2>1. /\ short \in Seq(S) /\ Len(short) = Len(one) + Len(sub)
        /\ \A k \in 1..(Len(one) + Len(sub)) : short[k] = IF k <= Len(one) THEN one[k] ELSE sub[k - Len(one)]
    BY <1>2, <1>3, ConcatProperties
  <2> HIDE DEF short
  <2>2. Len(one) + Len(sub) = len - 1 /\ 1 \in 1..(len - 1)
    BY <1>1, <1>2, <1>3
  <2>3. \A k \in 1..(len - 1) : short[k] = IF k <= 1 THEN one[k] ELSE sub[k - 1]
    BY <1>2, <2>1, <2>2
  <2>4. ASSUME NEW k \in 1..(len - 2)
        PROVE  short[k + 1] = ref[k + 2]
    <3>1. k + 1 \in 1..(len - 1) /\ ~(k + 1 <= 1) /\ (k + 1) - 1 = k
      BY <1>1
    <3>2. short[k + 1] = sub[k]
      BY <2>3, <3>1
    <3>3. QED
      BY <1>3, <3>2
  <2>5. QED
    BY <1>2, <2>1, <2>2, <2>3, <2>4
<1> HIDE DEF short
<1>5. Tail(short) \in Seq(S) /\ Len(Tail(short)) = len - 2 /\ \A k \in 1..(len - 2) : Tail(short)[k] = ref[k + 2]
  <2>1. short # <<>>
    BY <1>1, <1>4, EmptySeq
  <2>2. Tail(short) \in Seq(S) /\ Len(Tail(short)) = Len(short) - 1 /\ \A k \in 1..Len(Tail(short)) : Tail(short)[k] = short[k + 1]
    BY <1>4, <2>1, HeadTailProperties
  <2>3. Len(short) - 1 = len - 2
    BY <1>1, <1>4
  <2>4. QED
    BY <1>4, <2>2, <2>3
<1>6. two \in Seq(S) /\ Len(two) = 2 /\ two[1] = ref[1] /\ two[2] = ref[2]
  <2>1. short[1] \in S /\ ref[2] \in S /\ short[1] = ref[1]
    BY <1>1, <1>4
  <2>2. QED
    BY <2>1
<1> HIDE DEF two
<1> DEFINE tail == Tail(short)
<1>7. tail \in Seq(S) /\ Len(tail) = len - 2 /\ \A k \in 1..(len - 2) : tail[k] = ref[k + 2]
  BY <1>5
<1> HIDE DEF tail
<1>8. two \o tail = ref
  <2> DEFINE whole == two \o tail
  <2>0. two \in Seq(S) /\ tail \in Seq(S)
    BY <1>6, <1>7
  <2> HIDE DEF full
  <2>1. /\ whole \in Seq(S) /\ Len(whole) = Len(two) + Len(tail)
        /\ \A k \in 1..(Len(two) + Len(tail)) : whole[k] = IF k <= Len(two) THEN two[k] ELSE tail[k - Len(two)]
    BY <2>0, ConcatProperties
  <2> HIDE DEF whole
  <2>2. Len(two) + Len(tail) = len
    BY <1>1, <1>6, <1>7
  <2>3. ASSUME NEW k \in 1..len
        PROVE  whole[k] = ref[k]
    <3>1. whole[k] = IF k <= 2 THEN two[k] ELSE tail[k - 2]
      BY <1>6, <2>1, <2>2
    <3>2. CASE k <= 2
      <4>1. k = 1 \/ k = 2
        BY <1>1, <3>2
      <4>2. QED
        BY <1>6, <3>1, <3>2, <4>1
    <3>3. CASE ~(k <= 2)
      <4>1. k - 2 \in 1..(len - 2) /\ (k - 2) + 2 = k
        BY <1>1, <3>3
      <4>2. tail[k - 2] = ref[(k - 2) + 2]
        BY <1>7, <4>1
      <4>3. QED
        BY <3>1, <3>3, <4>1, <4>2
    <3>4. QED
      BY <3>2, <3>3
  <2>4. whole = ref
    BY <1>1, <2>1, <2>2, <2>3, SeqEqual DEF len
  <2>5. QED
    BY <2>4 DEF whole
<1>9. QED
  BY <1>8, Zenon DEF full, two, tail, short, one, sub, len

-----------------------------------------------------------------------------
(* Paths lead to the lines that have them.                                  *)

\* What is known of the lines of a document.
DocumentRooted(doc) ==
  /\ MappingLines(doc.lines) \/ ListLines(doc.lines)
  /\ OwnKeys(doc.lines)
  /\ \A i \in DOMAIN doc.lines :
       LineAgrees(doc.lines[i]) /\ Early(doc.lines[i].path, doc.lines[i].number)

\* Each document of a file is rooted.
LEMMA DocumentsRooted ==
  ASSUME ParserOK, Known, Together, Rooted, NEW n \in DOMAIN Documents
  PROVE  DocumentOK(Documents[n]) /\ DocumentRooted(Documents[n])
<1>1. DocumentOK(Documents[n])
  BY DocumentsConsecutive DEF Consecutive
<1>2. \A m \in DOMAIN docs : DocumentRooted(docs[m])
  BY DEF DocumentRooted, Rooted, Known, Together
<1>3. CASE lines = <<>>
  BY <1>1, <1>2, <1>3 DEF Documents
<1>4. CASE lines # <<>>
  <2> DEFINE doc == [offset |-> Offset, lines |-> lines]
  <2>1. Documents = Append(docs, doc)
    BY <1>4 DEF Documents
  <2>2. doc.lines = lines
    OBVIOUS
  <2> HIDE DEF doc
  <2>3. /\ DOMAIN docs = 1..Len(docs) /\ Len(docs) \in Nat /\ DOMAIN Documents = 1..(Len(docs) + 1)
        /\ \A m \in DOMAIN docs : Documents[m] = docs[m]
        /\ Documents[Len(docs) + 1] = doc
    BY <2>1, SequenceFacts, AppendFacts DEF ParserOK, Consecutive
  <2>4. n \in DOMAIN docs \/ n = Len(docs) + 1
    BY <2>3
  <2>5. MappingLines(lines) \/ ListLines(lines)
    <3>1. CASE ~yaml.body
      BY <3>1 DEF Together, BodyOK, MappingLines
    <3>2. CASE yaml.body
      <4>1. yaml.stack # <<>> /\ IsSequence(yaml.stack)
        BY <3>2 DEF Rooted, RootedIn, Together, StackOK
      <4>2. 1 \in DOMAIN yaml.stack
        <5>1. Len(yaml.stack) \in Nat /\ Len(yaml.stack) # 0 /\ DOMAIN yaml.stack = 1..Len(yaml.stack)
          BY <4>1, SequenceFacts
        <5>2. QED
          BY <5>1
      <4>3. yaml.stack[1].kind \in {"map", "list"}
        BY <4>2 DEF Together, StackOK, FrameOK
      <4>4. QED
        BY <3>2, <4>3 DEF Rooted
    <3>3. QED
      BY <3>1, <3>2
  <2>6. DocumentRooted(doc)
    BY <2>2, <2>5 DEF DocumentRooted, Rooted, Known, Together
  <2>7. QED
    BY <1>1, <1>2, <2>3, <2>4, <2>6
<1>5. QED
  BY <1>3, <1>4

\* A document is taken for a list if YAML has it for one.
LEMMA ListsAreLists ==
  ASSUME NEW doc, DocumentOK(doc), DocumentRooted(doc)
  PROVE  IF DocIsList(doc) THEN ListDocument(doc) /\ ListLines(doc.lines) ELSE MappingLines(doc.lines)
<1>1. MappingLines(doc.lines) => ~DocIsList(doc)
  <2>1. \A i \in DOMAIN doc.lines : "list" \in doc.lines[i].type => IsEntry(doc.lines[i])
    BY DEF IsEntry
  <2>2. QED
    BY <2>1 DEF MappingLines, DocIsList
<1>2. ListLines(doc.lines) => DocIsList(doc)
  BY DEF ListLines, DocIsList
<1>3. \A i \in DOMAIN doc.lines : IsSequence(doc.lines[i].path)
  BY DEF DocumentRooted, Early
<1>4. QED
  BY <1>1, <1>2, <1>3 DEF DocumentRooted, ListDocument, ListLines

\* The path of a line of an object, if YAML has one for it.
PlainPath(ref) == IF IsListPath(ref) THEN <<ref[1]>> \o SubSeq(ref, 3, Len(ref)) ELSE ref

WithIndex(node, path) ==
  IF node.index = None THEN path ELSE <<path[1], Index(node.index)>> \o Tail(path)

\* The path of a line within its object, after the index of that object, is the line's path.
LEMMA IndexRestored ==
  ASSUME NEW doc, DocumentOK(doc), DocumentRooted(doc),
         NEW node \in ToSet(NodesOf(doc)), NEW i \in DOMAIN node.lines,
         node.lines[i].ref # <<>>
  PROVE  WithIndex(node, PlainPath(node.lines[i].ref)) = node.lines[i].path
<1> DEFINE line == node.lines[i]
<1>1. line \in ToSet(node.lines) /\ ToSet(node.lines) \subseteq ToSet(doc.lines)
  BY ObjectsOfDocument DEF ToSet
<1>2. PICK j \in DOMAIN doc.lines : line = doc.lines[j]
  BY <1>1 DEF ToSet
<1>3. LineAgrees(line) /\ line.ref # <<>>
  BY <1>2 DEF DocumentRooted
<1> DEFINE ref == line.ref
<1>4. IsEntry(line) /\ line.path = ref /\ IsSequence(ref)
  BY <1>3 DEF LineAgrees, PathOK
<1>5. CASE ~DocIsList(doc)
  <2>1. MappingLines(doc.lines)
    BY <1>5, ListsAreLists
  <2>2. ~IsListPath(ref)
    BY <1>2, <1>4, <2>1 DEF MappingLines
  <2>3. NodesOf(doc) = <<[offset |-> doc.offset, lines |-> doc.lines, index |-> None]>>
    BY <1>5 DEF NodesOf
  <2>4. ToSet(NodesOf(doc)) = {[offset |-> doc.offset, lines |-> doc.lines, index |-> None]}
    BY <2>3, OneElement
  <2>5. node.index = None
    BY <2>4
  <2>6. QED
    BY <1>4, <2>2, <2>5 DEF PlainPath, WithIndex
<1>6. CASE DocIsList(doc)
  <2>1. ListDocument(doc) /\ ListLines(doc.lines)
    BY <1>6, ListsAreLists
  <2>2. IsListPath(ref)
    BY <1>2, <1>4, <2>1 DEF ListLines
  <2>3. IsLong(line)
    BY <1>4, <2>2, ListPathLong
  <2>4. PICK m \in Nat : InElement(line, m)
    BY <1>2, <2>1, <2>3 DEF ListDocument, InOrder
  <2>5. ElementOf(line) = m
    BY <2>4, ElementIs
  <2>6. PICK b \in DOMAIN doc.lines \intersect ({1} \union Cuts(doc)) : node = ObjectAt(doc, {1} \union Cuts(doc), b)
    <3>1. ToSet(NodesOf(doc)) =
            {ObjectAt(doc, {1} \union Cuts(doc), b) : b \in DOMAIN doc.lines \intersect ({1} \union Cuts(doc))}
      BY <1>6, SplitElements DEF NodesOf
    <3>2. QED
      BY <3>1
  <2>7. node.index = m
    BY <2>1, <2>3, <2>5, <2>6, ObjectIndex
  <2>8. ref[2] = Index(node.index) /\ node.index # None
    <3>1. m # None
      BY DEF None
    <3>2. QED
      BY <1>4, <2>4, <2>7, <3>1 DEF InElement
  <2> DEFINE short == <<ref[1]>> \o SubSeq(ref, 3, Len(ref))
  <2>9. <<short[1], ref[2]>> \o Tail(short) = ref
    <3>1. Len(ref) >= 2
      BY <1>4, <2>2, SequenceFacts DEF IsListPath
    <3> HIDE DEF ref
    <3>2. QED
      BY <1>4, <3>1, FullPath
  <2> HIDE DEF line
  <2>10. PlainPath(ref) = short
    BY <2>2 DEF PlainPath
  <2> HIDE DEF short, ref
  <2>11. WithIndex(node, short) = <<short[1], Index(node.index)>> \o Tail(short)
    BY <2>8, Zenon DEF WithIndex
  <2>12. WithIndex(node, PlainPath(ref)) = ref
    BY <2>8, <2>9, <2>10, <2>11, Zenon
  <2>13. QED
    BY <1>4, <2>12 DEF line, ref
<1>7. QED
  BY <1>5, <1>6

\* A line with its own key is the first that has its path.
LEMMA FirstWithPath ==
  ASSUME NEW node, DocumentOK(node),
         \A j \in DOMAIN node.lines : Early(node.lines[j].path, node.lines[j].number),
         NEW i \in DOMAIN node.lines, NEW path, path = node.lines[i].path, path # <<>>,
         Last(path) = Key(node.lines[i].number)
  PROVE  LET at == {j \in DOMAIN node.lines : node.lines[j].path = path}
         IN at # {} /\ (CHOOSE k \in at : \A j \in at : k <= j) = i
<1> DEFINE at == {j \in DOMAIN node.lines : node.lines[j].path = path}
<1>1. /\ DOMAIN node.lines = 1..Len(node.lines) /\ Len(node.lines) \in Nat /\ node.offset \in Nat
      /\ \A j \in DOMAIN node.lines : node.lines[j].number = node.offset + j
  BY SequenceFacts DEF DocumentOK, Numbered
<1>2. IsSequence(path)
  BY DEF Early
<1>3. Key(node.lines[i].number) \in ToSet(path)
  <2>1. Len(path) \in DOMAIN path /\ Last(path) = path[Len(path)]
    <3>1. Len(path) \in Nat /\ Len(path) # 0 /\ DOMAIN path = 1..Len(path)
      BY <1>2, SequenceFacts
    <3>2. QED
      BY <3>1 DEF Last
  <2>2. QED
    BY <2>1 DEF ToSet
<1>4. node.lines[i].number \in Nat
  BY <1>1
<1>5. ASSUME NEW j \in at
      PROVE  i <= j
  <2>1. Early(path, node.lines[j].number)
    OBVIOUS
  <2>2. node.lines[i].number <= node.lines[j].number
    BY <1>3, <1>4, <2>1 DEF Early
  <2>3. QED
    BY <1>1, <2>2
<1>6. i \in at /\ at \subseteq Nat
  BY <1>1
<1> HIDE DEF at
<1>7. \A k \in at : (\A j \in at : k <= j) => k = i
  <2>1. ASSUME NEW k \in at, \A j \in at : k <= j
        PROVE  k = i
    <3>1. k <= i /\ i <= k /\ k \in Nat /\ i \in Nat
      BY <1>5, <1>6, <2>1
    <3>2. QED
      BY <3>1
  <2>2. QED
    BY <2>1
<1>8. (CHOOSE k \in at : \A j \in at : k <= j) = i
  BY <1>5, <1>6, <1>7
<1>9. QED
  BY <1>6, <1>8 DEF at

\* A path within an object leads to the line that YAML has there.
THEOREM PathsAlwaysLeadThere == Spec => []PathsLeadThere
<1>1. IInv /\ Known /\ (Usual => Together /\ Rooted) => PathsLeadThere
  <2> SUFFICES ASSUME ParserOK, Known, Together, Rooted,
                      NEW n \in DOMAIN Nodes, NEW i \in DOMAIN Nodes[n].lines,
                      Nodes[n].lines[i].ref # <<>>, IsKey(Last(Nodes[n].lines[i].ref))
               PROVE  FindLineByPath(Nodes[n], PlainPath(Nodes[n].lines[i].ref)) = Nodes[n].lines[i].number
    BY Zenon DEF IInv, PathsLeadThere, PlainPath
  <2> DEFINE node == Nodes[n]
             line == node.lines[i]
             path == PlainPath(line.ref)
             at == {j \in DOMAIN node.lines : node.lines[j].path = line.path}
  <2>1. node \in ToSet(Nodes)
    BY DEF ToSet
  <2>2. PICK m \in DOMAIN Documents : node \in ToSet(NodesOf(Documents[m]))
    BY <2>1, NodesAre
  <2> DEFINE doc == Documents[m]
  <2>3. DocumentOK(doc) /\ DocumentRooted(doc)
    BY DocumentsRooted
  <2> HIDE DEF node, doc
  <2>4. /\ DocumentOK(node) /\ ToSet(node.lines) \subseteq ToSet(doc.lines)
        /\ WithIndex(node, path) = line.path
    <3>1. i \in DOMAIN node.lines /\ node.lines[i].ref # <<>> /\ node \in ToSet(NodesOf(doc))
      BY <2>2 DEF node, doc
    <3>2. QED
      BY <2>3, <3>1, ObjectsOfDocument, IndexRestored
  <2>5. \A j \in DOMAIN node.lines : \E k \in DOMAIN doc.lines : node.lines[j] = doc.lines[k]
    BY <2>4 DEF ToSet
  <2>6. /\ \A j \in DOMAIN node.lines : Early(node.lines[j].path, node.lines[j].number)
        /\ LineAgrees(line) /\ OwnKey(line) /\ i \in DOMAIN node.lines
        /\ line.ref # <<>> /\ IsKey(Last(line.ref))
    <3>1. i \in DOMAIN node.lines /\ line.ref # <<>> /\ IsKey(Last(line.ref))
      BY DEF node
    <3>2. QED
      BY <2>3, <2>5, <3>1 DEF DocumentRooted, OwnKeys
  <2>7. line.path # <<>> /\ Last(line.path) = Key(line.number)
    BY <2>6 DEF LineAgrees, OwnKey
  <2>8. at # {} /\ (CHOOSE k \in at : \A j \in at : k <= j) = i
    <3> DEFINE full == line.path
    <3>1. full = node.lines[i].path /\ full # <<>> /\ Last(full) = Key(node.lines[i].number)
      BY <2>7
    <3> HIDE DEF full
    <3>2. LET found == {j \in DOMAIN node.lines : node.lines[j].path = full}
          IN found # {} /\ (CHOOSE k \in found : \A j \in found : k <= j) = i
      BY <2>4, <2>6, <3>1, FirstWithPath
    <3>3. QED
      BY <3>1, <3>2, Zenon
  <2> HIDE DEF path
  <2>9. FindLineByPath(node, path) =
          LET found == {j \in DOMAIN node.lines : node.lines[j].path = WithIndex(node, path)}
          IN IF found = {} THEN None ELSE node.lines[CHOOSE k \in found : \A j \in found : k <= j].number
    BY Zenon DEF FindLineByPath, WithIndex
  <2>10. FindLineByPath(node, path) = line.number
    BY <2>4, <2>8, <2>9, Zenon
  <2>11. QED
    BY <2>10 DEF path, node
<1>2. QED
  BY <1>1, RootedInvariant, PTL

-----------------------------------------------------------------------------
(* Generalized paths.                                                       *)

\* Each index is "[*]".
Generalized(s) == [i \in DOMAIN s |-> IF IsIndex(s[i]) THEN Wildcard ELSE s[i]]

\* A generalized path, element by element.
LEMMA GeneralizedIs ==
  ASSUME NEW s, IsSequence(s)
  PROVE  /\ IsSequence(Generalized(s)) /\ Len(Generalized(s)) = Len(s)
         /\ \A i \in 1..Len(s) : Generalized(s)[i] = IF IsIndex(s[i]) THEN Wildcard ELSE s[i]
<1> DEFINE f == Generalized(s)
<1>1. Len(s) \in Nat /\ DOMAIN s = 1..Len(s)
  BY SequenceFacts
<1>2. f = [i \in 1..Len(s) |-> f[i]] /\ \A i \in 1..Len(s) : f[i] = IF IsIndex(s[i]) THEN Wildcard ELSE s[i]
  BY <1>1 DEF Generalized
<1> HIDE DEF f
<1>3. IsSequence(f) /\ Len(f) = Len(s)
  BY <1>1, <1>2, SequenceByIndex
<1>4. QED
  BY <1>2, <1>3 DEF f

\* Two sequences with the same elements.
LEMMA SameElements ==
  ASSUME NEW s, IsSequence(s), NEW t, IsSequence(t), Len(s) = Len(t),
         \A i \in 1..Len(s) : s[i] = t[i]
  PROVE  s = t
<1> DEFINE S == ToSet(s) \union ToSet(t)
<1>1. s \in Seq(S) /\ t \in Seq(S)
  BY SequenceOfMore
<1> HIDE DEF S
<1>2. QED
  BY <1>1, SeqEqual

\* One step before others.
LEMMA ConsFacts ==
  ASSUME NEW x, NEW s, IsSequence(s)
  PROVE  /\ IsSequence(<<x>> \o s) /\ Len(<<x>> \o s) = Len(s) + 1 /\ (<<x>> \o s)[1] = x
         /\ \A i \in 1..Len(s) : (<<x>> \o s)[i + 1] = s[i]
<1> DEFINE one == <<x>>
           S == ToSet(s) \union {x}
           t == one \o s
<1>1. s \in Seq(S) /\ one \in Seq(S) /\ Len(one) = 1 /\ one[1] = x /\ Len(s) \in Nat
  <2>1. x \in S /\ s \in Seq(S)
    BY SequenceOfMore
  <2> HIDE DEF S
  <2>2. QED
    BY <2>1, SequenceFacts
<1> HIDE DEF S, one
<1>2. /\ t \in Seq(S) /\ Len(t) = Len(one) + Len(s)
      /\ \A k \in 1..(Len(one) + Len(s)) : t[k] = IF k <= Len(one) THEN one[k] ELSE s[k - Len(one)]
  BY <1>1, ConcatProperties
<1> HIDE DEF t
<1>3. Len(t) = Len(s) + 1 /\ \A k \in 1..(Len(s) + 1) : t[k] = IF k <= 1 THEN one[k] ELSE s[k - 1]
  BY <1>1, <1>2
<1>4. t[1] = x
  BY <1>1, <1>3
<1>5. ASSUME NEW i \in 1..Len(s)
      PROVE  t[i + 1] = s[i]
  <2>1. i + 1 \in 1..(Len(s) + 1) /\ ~(i + 1 <= 1) /\ (i + 1) - 1 = i
    BY <1>1
  <2>2. QED
    BY <1>3, <2>1
<1>6. IsSequence(t)
  BY <1>2, SequenceOfAny
<1>7. QED
  BY <1>3, <1>4, <1>5, <1>6 DEF t, one

\* Generalizing goes through an element put in front.
LEMMA GeneralizedCons ==
  ASSUME NEW x, ~IsIndex(x), NEW s, IsSequence(s)
  PROVE  Generalized(<<x>> \o s) = <<x>> \o Generalized(s)
<1> DEFINE g == Generalized(s)
           left == <<x>> \o s
           right == <<x>> \o g
<1>1. /\ Len(s) \in Nat /\ IsSequence(g) /\ Len(g) = Len(s)
      /\ \A i \in 1..Len(s) : g[i] = IF IsIndex(s[i]) THEN Wildcard ELSE s[i]
  BY GeneralizedIs, SequenceFacts
<1> HIDE DEF g
<1>2. /\ IsSequence(left) /\ Len(left) = Len(s) + 1 /\ left[1] = x
      /\ \A i \in 1..Len(s) : left[i + 1] = s[i]
  BY ConsFacts
<1>3. /\ IsSequence(right) /\ Len(right) = Len(s) + 1 /\ right[1] = x
      /\ \A i \in 1..Len(s) : right[i + 1] = g[i]
  BY <1>1, ConsFacts
<1> HIDE DEF left, right
<1>4. /\ IsSequence(Generalized(left)) /\ Len(Generalized(left)) = Len(s) + 1
      /\ \A i \in 1..(Len(s) + 1) : Generalized(left)[i] = IF IsIndex(left[i]) THEN Wildcard ELSE left[i]
  BY <1>2, GeneralizedIs
<1>5. ASSUME NEW i \in 1..(Len(s) + 1)
      PROVE  Generalized(left)[i] = right[i]
  <2>1. CASE i = 1
    BY <1>2, <1>3, <1>4, <2>1
  <2>2. CASE i # 1
    <3> DEFINE k == i - 1
    <3>1. k \in 1..Len(s) /\ i = k + 1
      BY <1>1, <2>2
    <3> HIDE DEF k
    <3>2. left[i] = s[k] /\ right[i] = g[k] /\ g[k] = IF IsIndex(s[k]) THEN Wildcard ELSE s[k]
      BY <1>1, <1>2, <1>3, <3>1
    <3>3. QED
      BY <1>4, <3>2
  <2>3. QED
    BY <2>1, <2>2
<1>6. Generalized(left) = right
  BY <1>3, <1>4, <1>5, SameElements
<1>7. QED
  BY <1>6 DEF left, right, g

\* What is below the root of the object.
OwnSteps(ref) == IF IsListPath(ref) THEN SubSeq(ref, 3, Len(ref)) ELSE Tail(ref)

\* The steps of a path in its object, element by element.
LEMMA OwnStepsAre ==
  ASSUME NEW ref, PathOK(ref)
  PROVE  /\ IsSequence(OwnSteps(ref)) /\ PlainPath(ref) = <<Root[1]>> \o OwnSteps(ref)
         /\ Len(OwnSteps(ref)) = IF IsListPath(ref) THEN Len(ref) - 2 ELSE Len(ref) - 1
         /\ \A i \in 1..Len(OwnSteps(ref)) : OwnSteps(ref)[i] = ref[i + IF IsListPath(ref) THEN 2 ELSE 1]
<1> DEFINE len == Len(ref)
           S == ToSet(ref)
<1>1. /\ IsSequence(ref) /\ len \in Nat /\ len >= 1 /\ ref[1] = Root[1] /\ ref \in Seq(S)
      /\ \A i \in 1..len : ref[i] \in S
  BY SequenceFacts DEF PathOK, IsSequence, ToSet
<1> HIDE DEF len, S
<1>2. CASE IsListPath(ref)
  <2> DEFINE own == SubSeq(ref, 3, len)
  <2>1. OwnSteps(ref) = own /\ PlainPath(ref) = <<Root[1]>> \o own
    BY <1>1, <1>2 DEF OwnSteps, PlainPath, len
  <2>2. len >= 2
    BY <1>1, <1>2 DEF IsListPath, len
  <2>3. /\ own \in Seq(S) /\ Len(own) = IF 3 <= len THEN len - 3 + 1 ELSE 0
        /\ \A k \in 1..(len - 3 + 1) : own[k] = ref[3 + k - 1]
    BY <1>1, SubSeqProperties
  <2> HIDE DEF own
  <2>4. (IF 3 <= len THEN len - 3 + 1 ELSE 0) = len - 2
    BY <1>1, <2>2
  <2>5. \A k \in 1..(len - 2) : k \in 1..(len - 3 + 1) /\ 3 + k - 1 = k + 2
    BY <1>1
  <2>6. IsSequence(own) /\ Len(own) = len - 2 /\ \A k \in 1..(len - 2) : own[k] = ref[k + 2]
    BY <2>3, <2>4, <2>5, SequenceOfAny
  <2>7. QED
    BY <1>2, <2>1, <2>6 DEF len
<1>3. CASE ~IsListPath(ref)
  <2> DEFINE own == Tail(ref)
  <2>1. OwnSteps(ref) = own /\ PlainPath(ref) = ref
    BY <1>3 DEF OwnSteps, PlainPath
  <2>2. /\ own \in Seq(S) /\ Len(own) = len - 1
        /\ \A k \in 1..Len(own) : own[k] = ref[k + 1]
    <3>1. ref # <<>>
      BY <1>1, SequenceFacts DEF len
    <3>2. QED
      BY <1>1, <3>1, HeadTailProperties DEF len
  <2> HIDE DEF own
  <2>3. IsSequence(own)
    BY <2>2, SequenceOfAny
  <2> DEFINE whole == <<Root[1]>> \o own
  <2>4. /\ IsSequence(whole) /\ Len(whole) = len /\ whole[1] = ref[1]
        /\ \A k \in 1..(len - 1) : whole[k + 1] = ref[k + 1]
    <3>1. /\ IsSequence(whole) /\ Len(whole) = Len(own) + 1 /\ whole[1] = Root[1]
          /\ \A k \in 1..Len(own) : whole[k + 1] = own[k]
      BY <2>3, ConsFacts
    <3> HIDE DEF whole
    <3>2. Len(own) = len - 1 /\ len - 1 + 1 = len
      BY <1>1, <2>2
    <3>3. Len(whole) = len /\ whole[1] = ref[1]
      BY <1>1, <3>1, <3>2
    <3>4. \A k \in 1..(len - 1) : whole[k + 1] = ref[k + 1]
      BY <2>2, <3>1, <3>2
    <3>5. QED
      BY <3>1, <3>3, <3>4
  <2> HIDE DEF whole
  <2>5. \A i \in 1..Len(ref) : ref[i] = whole[i]
    <3> SUFFICES ASSUME NEW i \in 1..len PROVE ref[i] = whole[i]
      BY DEF len
    <3>1. CASE i = 1
      BY <2>4, <3>1
    <3>2. CASE i # 1
      <4> DEFINE k == i - 1
      <4>1. k \in 1..(len - 1) /\ i = k + 1
        BY <1>1, <3>2
      <4> HIDE DEF k
      <4>2. QED
        BY <2>4, <4>1
    <3>3. QED
      BY <3>1, <3>2
  <2>6. ref = whole
    BY <1>1, <2>4, <2>5, SameElements DEF len
  <2>7. QED
    BY <1>3, <2>1, <2>2, <2>3, <2>6 DEF len, whole
<1>4. QED
  BY <1>2, <1>3

\* The generalized path of a line is the property that YAML has there.
LEMMA GeneralizedProperty ==
  ASSUME NEW ref, PathOK(ref)
  PROVE  /\ GeneralizePath(ref) = Generalized(PlainPath(ref))
         /\ GeneralizePath(ref) = PropertyOf(ref)
<1>1. IsSequence(OwnSteps(ref)) /\ PlainPath(ref) = <<Root[1]>> \o OwnSteps(ref)
  BY OwnStepsAre
<1>2. GeneralizePath(ref) = Generalized(PlainPath(ref))
  BY Zenon DEF GeneralizePath, Generalized, PlainPath
<1>3. Generalized(PlainPath(ref)) = <<Root[1]>> \o Generalized(OwnSteps(ref))
  BY <1>1, GeneralizedCons, StepKinds
<1>4. PropertyOf(ref) = Root \o Generalized(OwnSteps(ref))
  <2>1. IsListPath(ref) <=> Len(ref) > 1 /\ IsIndex(ref[2])
    BY DEF IsListPath, PathOK
  <2>2. OwnSteps(ref) = IF Len(ref) > 1 /\ IsIndex(ref[2]) THEN SubSeq(ref, 3, Len(ref)) ELSE Tail(ref)
    BY <2>1 DEF OwnSteps
  <2>3. QED
    BY <2>2, Zenon DEF PropertyOf, Generalized
<1>5. <<Root[1]>> = Root
  BY DEF Root
<1>6. QED
  BY <1>2, <1>3, <1>4, <1>5

\* A key more.
LEMMA GeneralizedKey ==
  ASSUME NEW path, PathOK(path), NEW n \in Nat
  PROVE  LET g == GeneralizePath(path)
         IN /\ GeneralizePath(Append(path, Key(n))) = Append(g, Key(n))
            /\ IsSequence(g) /\ Len(g) >= 1
<1> DEFINE ref == Append(path, Key(n))
           own == OwnSteps(path)
           more == OwnSteps(ref)
           g == Generalized(own)
           first == Root[1]
<1>1. /\ PathOK(ref) /\ Len(ref) = Len(path) + 1 /\ Len(path) \in Nat /\ Len(path) >= 1
      /\ ref[Len(path) + 1] = Key(n) /\ \A i \in 1..Len(path) : ref[i] = path[i]
  BY AppendStep, AppendFacts, SequenceFacts DEF PathOK
<1> HIDE DEF ref
<1>2. IsListPath(ref) <=> IsListPath(path)
  <2>1. CASE Len(path) = 1
    BY <1>1, <2>1, StepKinds DEF IsListPath
  <2>2. CASE Len(path) # 1
    <3>1. \A len \in Nat : len >= 1 /\ len # 1 => 1 \in 1..len /\ 2 \in 1..len /\ len > 1 /\ len + 1 > 1
      OBVIOUS
    <3>2. 1 \in 1..Len(path) /\ 2 \in 1..Len(path) /\ Len(path) > 1 /\ Len(ref) > 1
      BY <1>1, <2>2, <3>1
    <3>3. QED
      BY <1>1, <3>2 DEF IsListPath
  <2>3. QED
    BY <2>1, <2>2
<1> DEFINE d == IF IsListPath(path) THEN 2 ELSE 1
<1>3. d \in {1, 2} /\ Len(path) >= d
  <2>1. IsListPath(path) => Len(path) >= 2
    BY <1>1 DEF IsListPath
  <2>2. QED
    BY <1>1, <2>1
<1>4. /\ IsSequence(own) /\ Len(own) = Len(path) - d /\ PlainPath(path) = <<first>> \o own
      /\ \A i \in 1..Len(own) : own[i] = path[i + d]
  BY OwnStepsAre
<1>5. /\ IsSequence(more) /\ Len(more) = Len(ref) - d /\ PlainPath(ref) = <<first>> \o more
      /\ \A i \in 1..Len(more) : more[i] = ref[i + d]
  BY <1>1, <1>2, OwnStepsAre
<1> HIDE DEF own, more, d, first
<1>6. /\ Len(own) \in Nat /\ Len(more) = Len(own) + 1 /\ more[Len(own) + 1] = Key(n)
      /\ \A i \in 1..Len(own) : more[i] = own[i]
  <2>1. Len(own) \in Nat /\ Len(more) = Len(own) + 1 /\ Len(own) + 1 \in 1..Len(more) /\ (Len(own) + 1) + d = Len(path) + 1
    BY <1>1, <1>3, <1>4, <1>5
  <2>2. more[Len(own) + 1] = Key(n)
    BY <1>1, <1>5, <2>1
  <2>3. \A i \in 1..Len(own) : i \in 1..Len(more) /\ i + d \in 1..Len(path)
    BY <1>1, <1>3, <1>4, <2>1
  <2>4. \A i \in 1..Len(own) : more[i] = own[i]
    BY <1>1, <1>4, <1>5, <2>3
  <2>5. QED
    BY <2>1, <2>2, <2>4
<1>7. /\ IsSequence(g) /\ Len(g) = Len(own)
      /\ \A i \in 1..Len(own) : g[i] = IF IsIndex(own[i]) THEN Wildcard ELSE own[i]
  BY <1>4, GeneralizedIs
<1>8. /\ IsSequence(Generalized(more)) /\ Len(Generalized(more)) = Len(own) + 1
      /\ \A i \in 1..(Len(own) + 1) : Generalized(more)[i] = IF IsIndex(more[i]) THEN Wildcard ELSE more[i]
  BY <1>5, <1>6, GeneralizedIs
<1> HIDE DEF g
<1> DEFINE G == <<first>> \o g
           H == <<first>> \o Generalized(more)
<1>9. ~IsIndex(first)
  BY StepKinds DEF first
<1>10. GeneralizePath(path) = G /\ GeneralizePath(ref) = H
  <2>1. Generalized(PlainPath(path)) = G
    BY <1>4, <1>9, GeneralizedCons DEF g
  <2>2. Generalized(PlainPath(ref)) = H
    BY <1>5, <1>9, GeneralizedCons
  <2>3. QED
    BY <1>1, <2>1, <2>2, GeneralizedProperty
<1>11. /\ IsSequence(G) /\ Len(G) = Len(own) + 1 /\ G[1] = first
       /\ \A i \in 1..Len(own) : G[i + 1] = g[i]
  BY <1>7, ConsFacts
<1>12. /\ IsSequence(H) /\ Len(H) = Len(own) + 2 /\ H[1] = first
       /\ \A i \in 1..(Len(own) + 1) : H[i + 1] = Generalized(more)[i]
  <2>1. /\ IsSequence(H) /\ Len(H) = Len(Generalized(more)) + 1 /\ H[1] = first
        /\ \A i \in 1..Len(Generalized(more)) : H[i + 1] = Generalized(more)[i]
    BY <1>8, ConsFacts
  <2> HIDE DEF H
  <2>2. QED
    BY <1>6, <1>8, <2>1
<1> HIDE DEF G, H
<1>13. /\ IsSequence(Append(G, Key(n))) /\ Len(Append(G, Key(n))) = Len(own) + 2
       /\ \A i \in 1..(Len(own) + 1) : Append(G, Key(n))[i] = G[i]
       /\ Append(G, Key(n))[Len(own) + 2] = Key(n)
  <2>1. DOMAIN G = 1..(Len(own) + 1) /\ Len(G) + 1 = Len(own) + 2
    BY <1>6, <1>11, SequenceFacts
  <2>2. QED
    BY <1>11, <2>1, AppendFacts
<1>14. ASSUME NEW i \in 1..(Len(own) + 2)
       PROVE  H[i] = Append(G, Key(n))[i]
  <2>1. CASE i = 1
    BY <1>6, <1>11, <1>12, <1>13, <2>1
  <2>2. CASE i = Len(own) + 2
    <3>1. Len(own) + 1 \in 1..(Len(own) + 1) /\ i = (Len(own) + 1) + 1
      BY <1>6, <2>2
    <3>2. H[i] = Generalized(more)[Len(own) + 1]
      BY <1>12, <3>1
    <3>3. Generalized(more)[Len(own) + 1] = Key(n)
      BY <1>6, <1>8, <3>1, StepKinds
    <3>4. QED
      BY <1>13, <2>2, <3>2, <3>3
  <2>3. CASE i # 1 /\ i # Len(own) + 2
    <3> DEFINE k == i - 1
    <3>1. k \in 1..Len(own) /\ k \in 1..(Len(own) + 1) /\ i = k + 1 /\ i \in 1..(Len(own) + 1)
      BY <1>6, <2>3
    <3> HIDE DEF k
    <3>2. H[i] = Generalized(more)[k] /\ Append(G, Key(n))[i] = g[k]
      BY <1>11, <1>12, <1>13, <3>1
    <3>3. Generalized(more)[k] = g[k]
      BY <1>6, <1>7, <1>8, <3>1
    <3>4. QED
      BY <3>2, <3>3
  <2>4. QED
    BY <2>1, <2>2, <2>3
<1>15. H = Append(G, Key(n))
  BY <1>12, <1>13, <1>14, SameElements
<1>16. QED
  BY <1>6, <1>10, <1>11, <1>15 DEF ref

\* The key at the end of a path stays there.
LEMMA GeneralizedLast ==
  ASSUME NEW ref, PathOK(ref), IsKey(Last(ref))
  PROVE  Last(GeneralizePath(ref)) = Last(ref)
<1> DEFINE len == Len(ref)
           own == OwnSteps(ref)
           d == IF IsListPath(ref) THEN 2 ELSE 1
           g == Generalized(own)
           G == <<Root[1]>> \o g
<1>1. /\ len \in Nat /\ len >= 1 /\ ref[1] = Root[1] /\ Last(ref) = ref[len]
      /\ IsListPath(ref) => len > 1 /\ IsIndex(ref[2])
  BY SequenceFacts DEF PathOK, Last, IsListPath
<1>2. /\ IsSequence(own) /\ Len(own) = len - d /\ PlainPath(ref) = <<Root[1]>> \o own
      /\ \A i \in 1..Len(own) : own[i] = ref[i + d]
  BY OwnStepsAre
<1>3. d \in {1, 2} /\ len > d
  <2>1. \A step : IsKey(step) => ~IsIndex(step)
    BY DEF IsKey, IsIndex
  <2> HIDE DEF len
  <2>2. len # 1
    BY <1>1, StepKinds
  <2>3. IsListPath(ref) => len # 2
    BY <1>1, <2>1
  <2>4. QED
    BY <1>1, <2>2, <2>3
<1> HIDE DEF own, d, len
<1> DEFINE m == len - d
<1>4. m \in Nat /\ m \in 1..Len(own) /\ m + d = len /\ Len(own) = m
  BY <1>1, <1>2, <1>3
<1> HIDE DEF m
<1>5. own[m] = Last(ref) /\ ~IsIndex(own[m])
  <2>1. own[m] = Last(ref)
    BY <1>1, <1>2, <1>4
  <2>2. QED
    BY <2>1 DEF IsKey, IsIndex
<1>6. IsSequence(g) /\ Len(g) = m /\ g[m] = own[m]
  BY <1>2, <1>4, <1>5, GeneralizedIs
<1>7. GeneralizePath(ref) = G
  <2>1. GeneralizePath(ref) = Generalized(PlainPath(ref))
    BY GeneralizedProperty
  <2>2. Generalized(<<Root[1]>> \o own) = <<Root[1]>> \o Generalized(own)
    BY <1>2, GeneralizedCons, StepKinds
  <2>3. QED
    BY <1>2, <2>1, <2>2
<1> HIDE DEF g
<1>8. IsSequence(G) /\ Len(G) = m + 1 /\ G[m + 1] = g[m]
  <2>1. m \in 1..Len(g)
    BY <1>4, <1>6
  <2>2. QED
    BY <1>6, <2>1, ConsFacts
<1> HIDE DEF G
<1>9. Last(G) = Last(ref)
  BY <1>5, <1>6, <1>8 DEF Last
<1>10. QED
  BY <1>7, <1>9

\* There is an object at the end of a text.
LEMMA LastNode ==
  ASSUME ParserOK, Together, Rooted, yaml.body
  PROVE  Last(Nodes) \in ToSet(Nodes)
<1>1. lines # <<>> /\ IsSequence(lines) /\ Offset \in Nat
  <2>1. yaml.stack # <<>> /\ IsSequence(yaml.stack)
    BY DEF Rooted, RootedIn, Together, StackOK
  <2>2. 1 \in DOMAIN yaml.stack
    <3>1. Len(yaml.stack) \in Nat /\ Len(yaml.stack) # 0 /\ DOMAIN yaml.stack = 1..Len(yaml.stack)
      BY <2>1, SequenceFacts
    <3>2. QED
      BY <3>1
  <2>3. Nearest(lines, Under(yaml.stack[1])) # 0 /\ IsSequence(lines)
    BY <2>2 DEF Together, StackShown, ParserOK
  <2>4. Nearest(lines, Under(yaml.stack[1])) \in 1..Len(lines)
    <3> DEFINE d == Under(yaml.stack[1])
    <3> HIDE DEF d
    <3>1. Nearest(lines, d) # 0 => Nearest(lines, d) \in 1..Len(lines)
      BY <2>3, NearestFound
    <3>2. QED
      BY <2>3, <3>1 DEF d
  <2>5. 1..Len(<<>>) = {}
    BY EmptySeq
  <2>6. QED
    BY <2>3, <2>4, <2>5, OffsetIs
<1> DEFINE doc == [offset |-> Offset, lines |-> lines]
           m == Len(docs) + 1
<1>2. m \in DOMAIN Documents /\ Documents[m] = doc
  <2>1. Documents = Append(docs, doc)
    BY <1>1 DEF Documents
  <2> HIDE DEF doc
  <2>2. Len(docs) \in Nat /\ DOMAIN Documents = 1..m /\ Documents[m] = doc
    BY <2>1, SequenceFacts, AppendFacts DEF ParserOK, Consecutive
  <2>3. QED
    BY <2>2
<1>3. DocumentOK(doc) /\ Holds(doc, Offset + 1) /\ Offset + 1 \in Nat
  <2>1. DocumentOK(doc)
    BY <1>1 DEF ParserOK, DocumentOK
  <2>2. Len(lines) \in Nat /\ Len(lines) # 0
    BY <1>1, SequenceFacts
  <2>3. Offset + 1 - Offset \in 1..Len(lines)
    BY <1>1, <2>2
  <2>4. QED
    BY <1>1, <2>1, <2>3 DEF Holds
<1> HIDE DEF doc, m
<1>4. \E node : node \in ToSet(NodesOf(doc))
  BY <1>3, ObjectsOfDocument
<1>5. IsSequence(Nodes) /\ ToSet(Nodes) # {}
  BY <1>2, <1>4, NodesAre
<1>6. Nodes # <<>>
  BY <1>5, NoElement
<1>7. Len(Nodes) \in DOMAIN Nodes /\ Last(Nodes) = Nodes[Len(Nodes)]
  <2>1. Len(Nodes) \in Nat /\ Len(Nodes) # 0 /\ DOMAIN Nodes = 1..Len(Nodes)
    BY <1>5, <1>6, SequenceFacts
  <2>2. QED
    BY <2>1 DEF Last
<1>8. QED
  BY <1>7 DEF ToSet

\* No other line of an object has the property of a line.
LEMMA OnlyFlagged ==
  ASSUME NEW node, DocumentOK(node),
         \A j \in DOMAIN node.lines : LineAgrees(node.lines[j]) /\ OwnKey(node.lines[j]),
         NEW i \in DOMAIN node.lines,
         node.lines[i].ref # <<>>, IsKey(Last(node.lines[i].ref))
  PROVE  Flagged(node, PropertyOf(node.lines[i].ref)) = {node.lines[i].number}
<1> DEFINE Has(j) == "mapping" \in node.lines[j].type
                       /\ GeneralizePath(node.lines[j].path) = PropertyOf(node.lines[i].ref)
<1>1. \A j \in DOMAIN node.lines : node.lines[j].number = node.offset + j /\ j \in Nat /\ node.offset \in Nat
  BY SequenceFacts DEF DocumentOK, Numbered
<1>2. /\ node.lines[i].ref = node.lines[i].path /\ PathOK(node.lines[i].path)
      /\ "mapping" \in node.lines[i].type /\ Last(node.lines[i].path) = Key(node.lines[i].number)
  BY DEF LineAgrees, OwnKey
<1>3. PropertyOf(node.lines[i].ref) = GeneralizePath(node.lines[i].path)
  BY <1>2, GeneralizedProperty
<1>4. Has(i)
  BY <1>2, <1>3
<1>5. ASSUME NEW j \in DOMAIN node.lines, Has(j)
      PROVE  j = i
  <2>1. IsEntry(node.lines[j])
    BY <1>5 DEF IsEntry
  <2>2. /\ PathOK(node.lines[j].path) /\ IsKey(Last(node.lines[j].path))
        /\ Last(node.lines[j].path) = Key(node.lines[j].number)
    BY <1>5, <2>1 DEF LineAgrees, OwnKey
  <2>3. /\ Last(GeneralizePath(node.lines[j].path)) = Key(node.lines[j].number)
        /\ Last(GeneralizePath(node.lines[i].path)) = Key(node.lines[i].number)
    <3>1. IsKey(Last(node.lines[i].path))
      BY <1>2
    <3>2. QED
      BY <1>2, <2>2, <3>1, GeneralizedLast
  <2>4. Key(node.lines[j].number) = Key(node.lines[i].number)
    BY <1>3, <1>5, <2>3
  <2>5. Key(node.lines[j].number)[2] = node.lines[j].number /\ Key(node.lines[i].number)[2] = node.lines[i].number
    BY DEF Key
  <2>6. node.lines[j].number = node.lines[i].number
    BY <2>4, <2>5
  <2>7. QED
    BY <1>1, <2>6
<1>6. {j \in DOMAIN node.lines : Has(j)} = {i}
  <2> HIDE DEF Has
  <2>1. QED
    BY <1>4, <1>5
<1>7. Flagged(node, PropertyOf(node.lines[i].ref)) = {node.offset + k : k \in {j \in DOMAIN node.lines : Has(j)}}
  BY Zenon DEF Flagged
<1>8. QED
  BY <1>1, <1>6, <1>7

\* A deprecated property is flagged at its line and at no other.
THEOREM PropertiesAlwaysRecognised == Spec => []PropertiesRecognised
<1>1. IInv /\ Known /\ (Usual => Together /\ Rooted) => PropertiesRecognised
  <2> SUFFICES ASSUME ParserOK, Known, Together, Rooted, yaml.body,
                      NEW i \in DOMAIN Last(Nodes).lines,
                      Last(Nodes).lines[i].ref # <<>>, IsKey(Last(Last(Nodes).lines[i].ref))
               PROVE  Flagged(Last(Nodes), PropertyOf(Last(Nodes).lines[i].ref)) = {Last(Nodes).lines[i].number}
    BY Zenon DEF IInv, PropertiesRecognised
  <2> DEFINE node == Last(Nodes)
  <2>1. node \in ToSet(Nodes)
    BY LastNode
  <2>2. PICK m \in DOMAIN Documents : node \in ToSet(NodesOf(Documents[m]))
    BY <2>1, NodesAre
  <2> DEFINE doc == Documents[m]
  <2>3. DocumentOK(doc) /\ DocumentRooted(doc)
    BY DocumentsRooted
  <2> HIDE DEF node, doc
  <2>4. DocumentOK(node) /\ ToSet(node.lines) \subseteq ToSet(doc.lines)
    BY <2>2, <2>3, ObjectsOfDocument DEF doc
  <2>5. \A j \in DOMAIN node.lines : LineAgrees(node.lines[j]) /\ OwnKey(node.lines[j])
    <3>1. \A j \in DOMAIN node.lines : \E k \in DOMAIN doc.lines : node.lines[j] = doc.lines[k]
      BY <2>4 DEF ToSet
    <3>2. QED
      BY <2>3, <3>1 DEF DocumentRooted, OwnKeys
  <2>6. i \in DOMAIN node.lines /\ node.lines[i].ref # <<>> /\ IsKey(Last(node.lines[i].ref))
    BY DEF node
  <2>7. Flagged(node, PropertyOf(node.lines[i].ref)) = {node.lines[i].number}
    BY <2>4, <2>5, <2>6, OnlyFlagged
  <2>8. QED
    BY <2>7 DEF node
<1>2. QED
  BY <1>1, RootedInvariant, PTL

-----------------------------------------------------------------------------
(* The mapping that a line at the cursor is in.                             *)

\* A key behind a path is found again.
LEMMA KeyAtEnd ==
  ASSUME NEW s, IsSequence(s), Len(s) >= 1, NEW n
  PROVE  LET q == Append(s, Key(n)) IN LastKey(q) # 0 /\ Upto(q, LastKey(q)) = s
<1> DEFINE q == Append(s, Key(n))
<1>1. /\ Len(s) \in Nat /\ Len(s) >= 1
      /\ IsSequence(q) /\ Len(q) = Len(s) + 1 /\ q[Len(s) + 1] = Key(n)
  BY SequenceFacts, AppendFacts
<1>2. LastKey(q) = Len(s) + 1
  <2> HIDE DEF q
  <2>1. Len(s) + 1 \in 2..Len(q) /\ (Len(s) + 1 + 1)..Len(q) = {}
    BY <1>1
  <2>2. IsKey(q[Len(s) + 1])
    BY <1>1, StepKinds
  <2>3. QED
    BY <1>1, <2>1, <2>2, LastKeyAt
<1>3. QED
  BY <1>1, <1>2, UptoAppend

\* With a key, the path of a line is that without it and the key.
LEMMA KeyTyped ==
  ASSUME ParserOK, \A i \in DOMAIN lines : IsSequence(lines[i].path), NEW indent \in Nat, NEW x
  PROVE  LET prev == Previous(indent)
             base == OtherPath(prev, indent, <<>>)[1]
         IN IsSequence(base) /\ OtherPath(prev, indent, <<x>>)[1] = Append(base, x)
<1> DEFINE prev == Previous(indent)
           line == lines[prev]
           base == OtherPath(prev, indent, <<>>)[1]
<1>1. /\ IsSequence(lines) /\ prev \in 0..Len(lines) /\ Len(lines) \in Nat /\ DOMAIN lines = 1..Len(lines)
      /\ prev # 0 => line.indent <= indent
  BY PreviousFound, SequenceFacts DEF ParserOK
<1> HIDE DEF prev
<1>2. prev # 0 => line.indent \in Nat /\ IsSequence(line.path)
  <2>1. prev # 0 => prev \in DOMAIN lines
    BY <1>1
  <2>2. QED
    BY <2>1 DEF ParserOK, LineOK
<1>3. SUFFICES ASSUME NEW start, IsSequence(start), NEW k,
                      \A key : OtherPath(prev, indent, key) = <<start \o key, k>>
               PROVE  IsSequence(base) /\ OtherPath(prev, indent, <<x>>)[1] = Append(base, x)
  <2>1. CASE prev = 0
    <3>1. \A key : OtherPath(prev, indent, key) = <<Root \o key, 0>>
      BY <2>1, FirstPath
    <3>2. IsSequence(Root)
      BY RootOK DEF PathOK
    <3>3. QED
      BY <1>3, <3>1, <3>2 DEF prev
  <2>2. CASE prev # 0 /\ line.indent < indent
    <3>1. line.indent # indent
      BY <1>2, <2>2
    <3>2. \A key : OtherPath(prev, indent, key) = <<line.path \o key, 0>>
      BY <2>2, <3>1, ChildPath
    <3>3. QED
      BY <1>2, <1>3, <2>2, <3>2 DEF prev
  <2>3. CASE prev # 0 /\ line.indent = indent /\ LastKey(line.path) # 0
    <3>1. ~(line.indent < indent)
      BY <2>3
    <3>2. \A key : OtherPath(prev, indent, key) = <<Upto(line.path, LastKey(line.path)) \o key, line.listIndex>>
      BY <2>3, <3>1, SiblingKeyPath
    <3>3. IsSequence(Upto(line.path, LastKey(line.path)))
      <4> DEFINE path == line.path
      <4>1. IsSequence(path) /\ LastKey(path) # 0
        BY <1>2, <2>3
      <4> HIDE DEF path
      <4>2. LastKey(path) \in 0..Len(path) /\ Len(path) \in Nat
        BY <4>1, LastInPath, SequenceFacts
      <4>3. LastKey(path) \in 1..Len(path)
        BY <4>1, <4>2
      <4>4. IsSequence(Upto(path, LastKey(path)))
        BY <4>1, <4>3, UptoIs
      <4>5. QED
        BY <4>4 DEF path
    <3>4. QED
      BY <1>3, <3>2, <3>3 DEF prev
  <2>4. CASE prev # 0 /\ line.indent = indent /\ LastKey(line.path) = 0
    <3>1. ASSUME NEW key PROVE OtherPath(prev, indent, key) = <<key, 0>>
      <4>1. prev # 0 /\ ~(lines[prev].indent < indent) /\ LastKey(lines[prev].path) = 0
        BY <2>4
      <4> HIDE DEF line
      <4>2. QED
        BY <4>1 DEF OtherPath
    <3>2. /\ OtherPath(prev, indent, <<>>)[1] = <<>> /\ OtherPath(prev, indent, <<x>>)[1] = <<x>>
      <4>1. \A key : <<key, 0>>[1] = key
        OBVIOUS
      <4>2. QED
        BY <3>1, <4>1
    <3>3. IsSequence(<<>>) /\ Append(<<>>, x) = <<x>>
      BY NoElement
    <3>4. QED
      BY <3>2, <3>3 DEF prev
  <2>5. QED
    BY <1>1, <1>2, <2>1, <2>2, <2>3, <2>4
<1>4. \A key : OtherPath(prev, indent, key)[1] = start \o key
  <2>1. \A p : <<p, k>>[1] = p
    OBVIOUS
  <2>2. QED
    BY <1>3, <2>1
<1>5. base = start
  <2>1. start \o <<>> = start
    BY <1>3, ConcatNone
  <2>2. QED
    BY <1>4, <2>1
<1>6. OtherPath(prev, indent, <<x>>)[1] = start \o <<x>>
  BY <1>4
<1>7. start \o <<x>> = Append(start, x)
  BY <1>3, ConcatOne
<1>8. QED
  BY <1>3, <1>5, <1>6, <1>7

\* What the line at the cursor is read as.
LEMMA CursorRaw ==
  ASSUME NEW raw \in AtCursor
  PROVE  /\ raw \in Raw /\ Typed(raw) \in Raw /\ Typed(raw).column = raw.column
         /\ raw.shape \in {"empty", "text", "key", "value", "item"}
         /\ raw.shape \in {"empty", "text", "key"} => Typed(raw).shape = "key"
         /\ raw.shape \in {"value", "item"} => Typed(raw).shape = "item"
         /\ raw.shape \in {"key", "item"} => Typed(raw) = raw
<1>1. raw = [column |-> raw.column, shape |-> raw.shape] /\ raw.column \in Columns
      /\ raw.shape \in {"empty", "text", "key", "value", "item"}
  BY DEF AtCursor
<1> DEFINE shape == IF IsElement(raw) THEN "item" ELSE "key"
<1>2. Typed(raw) = [column |-> raw.column, shape |-> shape]
  BY <1>1 DEF Typed
<1>3. shape \in {"key", "item"} /\ (shape = "item" <=> raw.shape \in {"value", "item"})
  BY DEF IsElement
<1> HIDE DEF shape
<1>4. \A s \in {"empty", "text", "key", "value", "item"} : [column |-> raw.column, shape |-> s] \in Raw
  BY <1>1 DEF Raw, Mapping, Item
<1>5. raw \in Raw /\ Typed(raw) \in Raw
  BY <1>1, <1>2, <1>3, <1>4
<1>6. QED
  BY <1>1, <1>2, <1>3, <1>5

\* The type, the indent and the path of a line do not depend on what YAML has there.
LEMMA ParsedAlike ==
  ASSUME NEW raw, NEW ref
  PROVE  /\ Parsed(raw, ref).type = TypeOf(raw) /\ Parsed(raw, ref).indent = IndentOf(raw)
         /\ Parsed(raw, ref).path = PathOf(raw)[1]
BY DEF Parsed

\* A line at the cursor is in the mapping that the key typed there is in.
LEMMA CursorLine ==
  ASSUME Together, ParserOK, \A i \in DOMAIN lines : IsSequence(lines[i].path),
         NEW raw \in AtCursor, RefOf(Typed(raw)) # <<>>
  PROVE  LET line == Parsed(raw, <<>>)
             ref == RefOf(Typed(raw))
         IN \E path : /\ PathOK(path) /\ ref = Append(path, Key(Number))
                      /\ IF raw.shape \in {"key", "item"} THEN line.path = ref ELSE line.path = path
                      /\ line.type = CASE raw.shape = "key" -> {"mapping"}
                                       [] raw.shape = "item" -> {"list", "mapping"}
                                       [] raw.shape = "value" -> {"list"}
                                       [] raw.shape = "text" -> {"undefined"}
                                       [] raw.shape = "empty" -> {"empty"}
<1> DEFINE typed == Typed(raw)
           column == raw.column
           line == Parsed(raw, <<>>)
           ref == RefOf(typed)
           whole == Parsed(typed, ref)
<1>1. /\ raw \in Raw /\ typed \in Raw /\ typed.column = column /\ column \in Nat
      /\ raw.shape \in {"empty", "text", "key", "value", "item"}
      /\ raw.shape \in {"empty", "text", "key"} => typed.shape = "key"
      /\ raw.shape \in {"value", "item"} => typed.shape = "item"
      /\ raw.shape \in {"key", "item"} => typed = raw
  BY CursorRaw, RawColumn
<1>2. /\ line.type = TypeOf(raw) /\ line.path = PathOf(raw)[1]
      /\ whole.type = TypeOf(typed) /\ whole.path = PathOf(typed)[1]
  BY ParsedAlike
<1> HIDE DEF typed, line
<1>3. /\ ~IsContent(typed) /\ whole.path = ref
      /\ \/ typed.shape \in Mapping /\ MapStack(column) # <<>>
         \/ typed.shape \in Item \union {"value"} /\ ListStack(column) # <<>>
  <2>1. ref # <<>>
    BY DEF typed
  <2>2. ~IsContent(typed) /\ whole.path = ref
    BY <1>1, <2>1, EntryLine
  <2>3. \/ typed.shape \in Mapping /\ MapStack(column) # <<>>
        \/ typed.shape \in Item \union {"value"} /\ ListStack(column) # <<>>
    BY <1>1, <2>1 DEF RefOf
  <2>4. QED
    BY <2>2, <2>3
<1>4. CASE raw.shape \in {"empty", "text", "key"}
  <2>1. typed.shape = "key" /\ typed.shape \in Mapping /\ MapStack(column) # <<>>
    <3>1. typed.shape = "key"
      BY <1>1, <1>4
    <3>2. QED
      BY <1>3, <3>1 DEF Mapping, Item
  <2> DEFINE stack == MapStack(column)
             path == Last(stack).path
  <2>2. /\ whole.type = {"mapping"} /\ Renewed(stack, whole) /\ ref = Append(path, Key(Number))
        /\ whole.path = OtherPath(Previous(column), column, <<Key(Number)>>)[1]
    <3>1. /\ whole.type = {"mapping"} /\ Renewed(stack, whole) /\ ref = Append(path, Key(Number))
      BY <1>1, <1>3, <2>1, KeyLine DEF whole
    <3>2. whole.path = OtherPath(Nearest(lines, column), column, <<Key(Number)>>)[1]
      BY <1>1, <1>3, <2>1, KeyLineParsed DEF whole
    <3>3. QED
      BY <3>1, <3>2, PreviousNearest
  <2> HIDE DEF stack
  <2>3. PathOK(path)
    BY <2>2, TopFrame DEF Renewed, FrameOK
  <2>4. CASE raw.shape = "key"
    <3>1. typed = raw
      BY <1>1, <2>4
    <3>2. line.path = ref /\ line.type = {"mapping"}
      BY <1>2, <1>3, <2>2, <3>1
    <3> HIDE DEF path, ref
    <3>3. QED
      BY <2>2, <2>3, <2>4, <3>2 DEF line, ref, typed
  <2>5. CASE raw.shape \in {"empty", "text"}
    <3>1. ~InScalar(raw)
      BY <1>1, <1>3 DEF IsContent, InScalar, Together
    <3>2. TypeOf(raw) = IF raw.shape = "text" THEN {"undefined"} ELSE {"empty"}
      BY <2>5, <3>1 DEF TypeOf, Mapping, Item
    <3>3. IndentOf(raw) = column /\ KeyOf(raw) = <<>>
      BY <3>2 DEF IndentOf, KeyOf
    <3>4. PathOf(raw) = OtherPath(Previous(column), column, <<>>)
      <4>1. "separator" \notin TypeOf(raw) /\ "comment" \notin TypeOf(raw) /\ "list" \notin TypeOf(raw)
        BY <3>2
      <4>2. TypeOf(raw) \notin {{"separator"}, {"comment"}}
        BY <4>1
      <4>3. QED
        BY <3>3, <4>1, <4>2 DEF PathOf
    <3> DEFINE base == OtherPath(Previous(column), column, <<>>)[1]
    <3>5. IsSequence(base) /\ OtherPath(Previous(column), column, <<Key(Number)>>)[1] = Append(base, Key(Number))
      BY <1>1, KeyTyped
    <3>6. line.path = base
      BY <1>2, <3>4
    <3> HIDE DEF base, path
    <3>7. Append(base, Key(Number)) = Append(path, Key(Number))
      BY <1>3, <2>2, <3>5
    <3>8. base = path
      BY <2>3, <3>5, <3>7, AppendEqual DEF PathOK
    <3>9. line.path = path /\ line.type = IF raw.shape = "text" THEN {"undefined"} ELSE {"empty"}
      BY <1>2, <3>2, <3>6, <3>8
    <3> HIDE DEF ref
    <3>10. QED
      BY <2>2, <2>3, <2>5, <3>9 DEF line, ref, typed
  <2>6. QED
    BY <1>4, <2>4, <2>5
<1>5. CASE raw.shape \in {"value", "item"}
  <2>1. typed.shape = "item" /\ typed.shape \in Item /\ ListStack(column) # <<>>
    <3>1. typed.shape = "item"
      BY <1>1, <1>5
    <3>2. QED
      BY <1>3, <3>1 DEF Mapping, Item
  <2> DEFINE path == CountedPath(Last(ListStack(column)))
  <2>2. PathOK(path) /\ whole.type = {"list", "mapping"} /\ ref = Append(path, Key(Number))
    <3>1. typed.shape \in Item \union {"value"}
      BY <2>1
    <3>2. PathOK(path) /\ whole.type = {"list", "mapping"} /\ whole.ref = Append(path, Key(Number))
      BY <1>1, <1>3, <2>1, <3>1, ItemLine DEF whole
    <3>3. whole.ref = ref
      BY DEF Parsed
    <3>4. QED
      BY <3>2, <3>3
  <2>3. CASE raw.shape = "item"
    <3>1. typed = raw
      BY <1>1, <2>3
    <3>2. line.path = ref /\ line.type = {"list", "mapping"}
      BY <1>2, <1>3, <2>2, <3>1
    <3> HIDE DEF path, ref
    <3>3. QED
      BY <2>2, <2>3, <3>2 DEF line, ref, typed
  <2>4. CASE raw.shape = "value"
    <3>1. ~IsContent(raw) /\ raw.shape \in Item \union {"value"} /\ raw.shape \notin Item
      BY <1>1, <1>3, <2>4 DEF IsContent, Item
    <3> DEFINE own == Parsed(raw, RefOf(raw))
    <3>2. own.path = path /\ own.type = {"list"}
      BY <1>1, <2>1, <3>1, ItemLine
    <3>3. own.path = line.path /\ own.type = line.type
      BY <1>2, ParsedAlike
    <3> HIDE DEF path, ref, own
    <3>4. QED
      BY <2>2, <2>4, <3>2, <3>3 DEF line, ref, typed
  <2>5. QED
    BY <1>5, <2>3, <2>4
<1>6. QED
  BY <1>1, <1>4, <1>5

\* The keys proposed are those of the mapping that the line at the cursor is in.
THEOREM KeysAlwaysOfThatMapping == Spec => []KeysOfThatMapping
<1>1. IInv /\ Known /\ (Usual => Together /\ Rooted) => KeysOfThatMapping
  <2> SUFFICES ASSUME ParserOK, Known, Together, NEW raw \in AtCursor, RefOf(Typed(raw)) # <<>>
               PROVE  LET line == Parsed(raw, <<>>)
                          ref == RefOf(Typed(raw))
                      IN /\ KeysParent(line) = PropertyOf(Front(ref))
                         /\ raw.shape # "empty" => KeysProposed(line, line.indent + 1)
                         /\ raw.shape \in {"key", "item", "text"} => ~ValuesProposed(line, line.indent + 1)
    BY DEF IInv, KeysOfThatMapping
  <2> DEFINE line == Parsed(raw, <<>>)
             ref == RefOf(Typed(raw))
  <2>1. \A i \in DOMAIN lines : IsSequence(lines[i].path)
    BY DEF Known, Early
  <2>2. PICK path : /\ PathOK(path) /\ ref = Append(path, Key(Number))
                    /\ IF raw.shape \in {"key", "item"} THEN line.path = ref ELSE line.path = path
                    /\ line.type = CASE raw.shape = "key" -> {"mapping"}
                                     [] raw.shape = "item" -> {"list", "mapping"}
                                     [] raw.shape = "value" -> {"list"}
                                     [] raw.shape = "text" -> {"undefined"}
                                     [] raw.shape = "empty" -> {"empty"}
    BY <2>1, CursorLine
  <2>3. /\ raw.shape \in {"empty", "text", "key", "value", "item"}
        /\ raw.column \in Nat /\ Number \in Nat
    BY CursorRaw, RawColumn, NumberNat
  <2>4. line.indent \in Nat
    BY <2>3, ParsedAlike DEF IndentOf
  <2> HIDE DEF line, ref
  <2>5. Front(ref) = path
    BY <2>2, FrontAppend DEF PathOK
  <2>6. KeysParent(line) = GeneralizePath(path)
    <3> DEFINE g == GeneralizePath(path)
    <3>1. /\ GeneralizePath(ref) = Append(g, Key(Number)) /\ IsSequence(g) /\ Len(g) >= 1
      BY <2>2, <2>3, GeneralizedKey
    <3> HIDE DEF g
    <3>2. LET q == Append(g, Key(Number)) IN LastKey(q) # 0 /\ Upto(q, LastKey(q)) = g
      BY <3>1, KeyAtEnd
    <3>3. CASE raw.shape \in {"key", "item"}
      <4>1. line.path = ref /\ "mapping" \in line.type
        BY <2>2, <3>3
      <4>2. QED
        BY <3>1, <3>2, <4>1 DEF KeysParent, g
    <3>4. CASE raw.shape \notin {"key", "item"}
      <4>1. line.path = path /\ "mapping" \notin line.type
        BY <2>2, <2>3, <3>4
      <4>2. QED
        BY <4>1 DEF KeysParent
    <3>5. QED
      BY <3>3, <3>4
  <2>7. raw.shape # "empty" => KeysProposed(line, line.indent + 1)
    <3>1. CASE raw.shape = "value"
      <4>1. line.type = {"list"}
        BY <2>2, <3>1
      <4>2. QED
        BY <4>1 DEF KeysProposed
    <3>2. CASE raw.shape \in {"key", "item", "text"}
      <4>1. line.type \intersect {"mapping", "undefined"} # {}
        BY <2>2, <3>2
      <4>2. KeyPos(line) = <<line.indent, line.indent + 1>>
        BY <4>1 DEF KeyPos
      <4>3. line.indent + 1 \in KeyPos(line)[1]..KeyPos(line)[2]
        BY <2>4, <4>2
      <4>4. QED
        BY <4>3 DEF KeysProposed
    <3>3. QED
      BY <2>3, <3>1, <3>2
  <2>8. raw.shape \in {"key", "item", "text"} => ~ValuesProposed(line, line.indent + 1)
    <3> SUFFICES ASSUME raw.shape \in {"key", "item", "text"} PROVE ~ValuesProposed(line, line.indent + 1)
      OBVIOUS
    <3>1. line.type \intersect {"mapping", "undefined"} # {}
      BY <2>2
    <3>2. KeyPos(line)[2] = line.indent + 1
      BY <3>1 DEF KeyPos
    <3>3. QED
      BY <2>4, <3>2 DEF ValuesProposed
  <2>9. QED
    BY <2>2, <2>5, <2>6, <2>7, <2>8, GeneralizedProperty DEF line, ref
<1>2. QED
  BY <1>1, RootedInvariant, PTL

-----------------------------------------------------------------------------
(* Objects in the order of their lines.                                     *)

\* All lines of one object are before those of the other.
Before(a, b) == EndOfDocument(a) <= b.offset

Ordered(s) == \A m, n \in DOMAIN s : m < n => Before(s[m], s[n])

\* Ordered objects in front of ordered objects are ordered.
LEMMA ConcatOrdered ==
  ASSUME NEW s, NEW t, IsSequence(s), IsSequence(t), Ordered(s), Ordered(t),
         \A a \in ToSet(s), b \in ToSet(t) : Before(a, b)
  PROVE  Ordered(s \o t)
<1> DEFINE S == ToSet(s) \union ToSet(t)
           whole == s \o t
<1>1. s \in Seq(S) /\ t \in Seq(S) /\ Len(s) \in Nat /\ Len(t) \in Nat
      /\ DOMAIN s = 1..Len(s) /\ DOMAIN t = 1..Len(t)
  BY SequenceOfMore, SequenceFacts
<1> HIDE DEF S
<1>2. /\ whole \in Seq(S) /\ Len(whole) = Len(s) + Len(t)
      /\ \A k \in 1..(Len(s) + Len(t)) : whole[k] = IF k <= Len(s) THEN s[k] ELSE t[k - Len(s)]
  BY <1>1, ConcatProperties
<1> HIDE DEF whole
<1>3. DOMAIN whole = 1..(Len(s) + Len(t))
  BY <1>1, <1>2, LenProperties
<1>4. ASSUME NEW m \in DOMAIN whole, NEW n \in DOMAIN whole, m < n
      PROVE  Before(whole[m], whole[n])
  <2>1. m \in Nat /\ n \in Nat
    BY <1>3
  <2>2. CASE n <= Len(s)
    <3>1. m \in DOMAIN s /\ n \in DOMAIN s /\ whole[m] = s[m] /\ whole[n] = s[n]
      <4>1. m <= Len(s) /\ m >= 1 /\ n >= 1
        BY <1>1, <1>3, <1>4, <2>1, <2>2
      <4>2. QED
        BY <1>1, <1>2, <1>3, <2>1, <2>2, <4>1
    <3>2. QED
      BY <1>4, <3>1 DEF Ordered
  <2>3. CASE m <= Len(s) /\ ~(n <= Len(s))
    <3>1. m \in DOMAIN s /\ whole[m] = s[m]
      BY <1>1, <1>2, <1>3, <2>1, <2>3
    <3>2. n - Len(s) \in DOMAIN t /\ whole[n] = t[n - Len(s)]
      BY <1>1, <1>2, <1>3, <2>1, <2>3
    <3>3. QED
      BY <3>1, <3>2 DEF ToSet
  <2>4. CASE ~(m <= Len(s)) /\ ~(n <= Len(s))
    <3>1. m - Len(s) \in DOMAIN t /\ whole[m] = t[m - Len(s)]
      BY <1>1, <1>2, <1>3, <2>1, <2>4
    <3>2. n - Len(s) \in DOMAIN t /\ whole[n] = t[n - Len(s)]
      BY <1>1, <1>2, <1>3, <2>1, <2>4
    <3>3. m - Len(s) < n - Len(s)
      BY <1>1, <1>4, <2>1
    <3>4. QED
      BY <3>1, <3>2, <3>3 DEF Ordered
  <2>5. QED
    BY <1>1, <1>4, <2>1, <2>2, <2>3, <2>4
<1>5. QED
  BY <1>4 DEF Ordered, whole

\* FlattenSeq keeps the order of what is ordered.
LEMMA FlattenOrdered ==
  ASSUME NEW seqs, IsSequence(seqs), \A i \in DOMAIN seqs : IsSequence(seqs[i]) /\ Ordered(seqs[i]),
         \A i, j \in DOMAIN seqs : i < j =>
           \A a \in ToSet(seqs[i]), b \in ToSet(seqs[j]) : Before(a, b)
  PROVE  Ordered(FlattenSeq(seqs))
<1>1. Len(seqs) \in Nat /\ DOMAIN seqs = 1..Len(seqs)
  BY SequenceFacts
<1>2. CASE Len(seqs) = 0
  <2>1. FlattenSeq(seqs) = seqs
    BY <1>2, Zenon DEF FlattenSeq
  <2>2. DOMAIN seqs = {}
    BY <1>1, <1>2
  <2>3. QED
    BY <2>1, <2>2 DEF Ordered
<1>3. CASE Len(seqs) # 0
  <2>1. PICK f : Flattened(seqs, f, Len(seqs)) /\ FlattenSeq(seqs) = f[Len(seqs)]
    <3>1. seqs \in Seq(ToSet(seqs))
      BY DEF IsSequence
    <3>2. QED
      BY <1>3, <3>1, FlattenSteps
  <2> DEFINE Right(n) == /\ IsSequence(f[n]) /\ Ordered(f[n])
                         /\ \A a \in ToSet(f[n]) : \E i \in 1..n : a \in ToSet(seqs[i])
             Bad == {n \in 1..Len(seqs) : ~Right(n)}
  <2> HIDE DEF Right
  <2>2. SUFFICES ASSUME Bad # {} PROVE FALSE
    <3>1. Len(seqs) \in 1..Len(seqs)
      BY <1>1, <1>3
    <3>2. Right(Len(seqs))
      BY <2>2, <3>1
    <3>3. QED
      BY <3>2, <2>1 DEF Right
  <2>3. PICK n \in Bad : \A m \in Bad : n <= m
    <3>1. Bad \in SUBSET Nat
      BY <1>1
    <3> HIDE DEF Bad
    <3>2. QED
      BY <3>1, <2>2, LeastNumber
  <2>4. n \in Nat /\ n >= 1 /\ n <= Len(seqs) /\ n \in 1..Len(seqs) /\ n \in DOMAIN seqs
    BY <1>1, <2>3
  <2>5. CASE n = 1
    <3>1. f[1] = seqs[1]
      BY <2>1, <2>4, <2>5 DEF Flattened
    <3>2. IsSequence(seqs[1]) /\ Ordered(seqs[1]) /\ 1 \in 1..1
      BY <2>4, <2>5
    <3>3. Right(1)
      BY <3>1, <3>2 DEF Right
    <3>4. QED
      BY <3>3, <2>3, <2>5
  <2>6. CASE n # 1
    <3>1. n - 1 \in 1..Len(seqs) /\ ~(n <= n - 1)
      BY <1>1, <2>4, <2>6
    <3>2. Right(n - 1)
      BY <2>3, <3>1
    <3>3. f[n] = f[n - 1] \o seqs[n]
      BY <2>1, <2>4, <2>6 DEF Flattened
    <3>4. \A a \in ToSet(f[n - 1]), b \in ToSet(seqs[n]) : Before(a, b)
      <4> TAKE a \in ToSet(f[n - 1]), b \in ToSet(seqs[n])
      <4>1. PICK i \in 1..(n - 1) : a \in ToSet(seqs[i])
        BY <3>2 DEF Right
      <4>2. i \in DOMAIN seqs /\ i < n
        BY <1>1, <2>4, <4>1
      <4>3. QED
        BY <2>4, <4>1, <4>2
    <3>5. IsSequence(f[n]) /\ Ordered(f[n]) /\ ToSet(f[n]) = ToSet(f[n - 1]) \union ToSet(seqs[n])
      BY <2>4, <3>2, <3>3, <3>4, ConcatElements, ConcatOrdered DEF Right
    <3>6. n \in 1..n /\ \A i \in 1..(n - 1) : i \in 1..n
      BY <2>4
    <3>7. Right(n)
      BY <3>2, <3>5, <3>6 DEF Right
    <3>8. QED
      BY <3>7, <2>3
  <2>7. QED
    BY <2>5, <2>6
<1>4. QED
  BY <1>2, <1>3

Ascending(s) ==
  /\ \A n \in DOMAIN s : s[n] \in Nat
  /\ \A m, n \in DOMAIN s : m < n => s[m] < s[n]

\* Of objects in order and numbers in order, the nth object has the nth number if each has one
\* and none is left over.
LEMMA InStep ==
  ASSUME NEW nodes, IsSequence(nodes), Ordered(nodes), \A n \in DOMAIN nodes : DocumentOK(nodes[n]),
         NEW numbers, IsSequence(numbers), Ascending(numbers),
         \A n \in DOMAIN nodes : \E k \in DOMAIN numbers :
           Holds(nodes[n], numbers[k]) /\ \A l \in DOMAIN numbers : Holds(nodes[n], numbers[l]) => l = k,
         \A k \in DOMAIN numbers : \E n \in DOMAIN nodes : Holds(nodes[n], numbers[k])
  PROVE  /\ Len(nodes) = Len(numbers)
         /\ \A n \in DOMAIN nodes : Holds(nodes[n], numbers[n])
<1> DEFINE Right(n) == n \in DOMAIN numbers /\ Holds(nodes[n], numbers[n])
           Bad == {n \in DOMAIN nodes : ~Right(n)}
<1>1. /\ Len(nodes) \in Nat /\ DOMAIN nodes = 1..Len(nodes)
      /\ Len(numbers) \in Nat /\ DOMAIN numbers = 1..Len(numbers)
  BY SequenceFacts
<1>2. ASSUME NEW m \in DOMAIN nodes, NEW n \in DOMAIN nodes, NEW k \in DOMAIN numbers,
             NEW l \in DOMAIN numbers, Holds(nodes[m], numbers[k]), Holds(nodes[n], numbers[l]), m < n
      PROVE  k < l
  <2> DEFINE a == nodes[m]
             b == nodes[n]
             x == numbers[k]
             y == numbers[l]
  <2>1. /\ a.offset \in Nat /\ b.offset \in Nat /\ Len(a.lines) \in Nat
        /\ x \in Nat /\ y \in Nat /\ x - a.offset \in 1..Len(a.lines) /\ y - b.offset \in 1..Len(b.lines)
    BY <1>2, SequenceFacts DEF DocumentOK, Ascending, Holds
  <2>2. a.offset + Len(a.lines) <= b.offset
    BY <1>2 DEF Ordered, Before, EndOfDocument
  <2>3. Len(b.lines) \in Nat
    BY SequenceFacts DEF DocumentOK
  <2> HIDE DEF a, b, x, y
  <2>4. x < y
    <3> DEFINE p == Len(a.lines)
               q == Len(b.lines)
    <3>1. p \in Nat /\ q \in Nat /\ x - a.offset <= p /\ y - b.offset >= 1 /\ a.offset + p <= b.offset
      BY <2>1, <2>2, <2>3
    <3> HIDE DEF p, q
    <3>2. QED
      BY <2>1, <3>1
  <2>5. l < k => y < x
    BY DEF Ascending, x, y
  <2>6. k # l
    BY <2>1, <2>4 DEF x, y
  <2>7. k \in Nat /\ l \in Nat
    BY <1>1
  <2>8. QED
    BY <2>1, <2>4, <2>5, <2>6, <2>7
<1>3. Bad = {}
  <2> SUFFICES ASSUME Bad # {} PROVE FALSE
    OBVIOUS
  <2>1. PICK n \in Bad : \A m \in Bad : n <= m
    <3>1. Bad \in SUBSET Nat
      BY <1>1
    <3> HIDE DEF Bad
    <3>2. QED
      BY <3>1, LeastNumber
  <2>2. n \in DOMAIN nodes /\ ~Right(n) /\ n \in Nat /\ n >= 1
    BY <1>1, <2>1
  <2>3. \A m \in DOMAIN nodes : m < n => Right(m)
    <3>1. \A m \in DOMAIN nodes : m < n => ~(n <= m)
      BY <1>1, <2>2
    <3>2. QED
      BY <2>1, <3>1
  <2> HIDE DEF Bad
  <2>4. PICK k \in DOMAIN numbers :
          Holds(nodes[n], numbers[k]) /\ \A l \in DOMAIN numbers : Holds(nodes[n], numbers[l]) => l = k
    BY <2>2
  <2>5. ~(k < n)
    <3> SUFFICES ASSUME k < n PROVE FALSE
      OBVIOUS
    <3>1. k \in DOMAIN nodes
      BY <1>1, <2>2
    <3>2. Holds(nodes[k], numbers[k])
      BY <2>3, <3>1
    <3>3. k < k
      BY <1>2, <2>2, <2>4, <3>1, <3>2
    <3>4. QED
      BY <1>1, <3>3
  <2>6. k # n
    BY <2>2, <2>4
  <2>7. n < k /\ n \in DOMAIN numbers
    BY <1>1, <2>2, <2>5, <2>6
  <2>8. PICK p \in DOMAIN nodes : Holds(nodes[p], numbers[n])
    BY <2>7
  <2>9. p # n
    BY <2>4, <2>6, <2>7, <2>8
  <2>10. ~(n < p)
    <3> SUFFICES ASSUME n < p PROVE FALSE
      OBVIOUS
    <3>1. k < n
      BY <1>2, <2>2, <2>4, <2>7, <2>8
    <3>2. QED
      BY <2>5, <3>1
  <2>11. p < n
    BY <1>1, <2>2, <2>9, <2>10
  <2>12. Right(p)
    BY <2>3, <2>11
  <2>13. p = n
    <3>1. PICK q \in DOMAIN numbers : \A l \in DOMAIN numbers : Holds(nodes[p], numbers[l]) => l = q
      OBVIOUS
    <3>2. QED
      BY <2>7, <2>8, <2>12, <3>1
  <2>14. QED
    BY <2>9, <2>13
<1>4. \A n \in DOMAIN nodes : n \in DOMAIN numbers /\ Holds(nodes[n], numbers[n])
  BY <1>3
<1>5. Len(nodes) <= Len(numbers)
  BY <1>1, <1>4
<1>6. ~(Len(nodes) < Len(numbers))
  <2> SUFFICES ASSUME Len(nodes) < Len(numbers) PROVE FALSE
    OBVIOUS
  <2> DEFINE k == Len(nodes) + 1
  <2>1. k \in DOMAIN numbers /\ k \notin DOMAIN nodes
    BY <1>1
  <2>2. PICK p \in DOMAIN nodes : Holds(nodes[p], numbers[k])
    BY <2>1
  <2>3. Holds(nodes[p], numbers[p]) /\ p \in DOMAIN numbers
    BY <1>4
  <2>4. PICK q \in DOMAIN numbers : \A l \in DOMAIN numbers : Holds(nodes[p], numbers[l]) => l = q
    OBVIOUS
  <2> HIDE DEF k
  <2>5. QED
    BY <2>1, <2>2, <2>3, <2>4
<1>7. Len(nodes) = Len(numbers)
  <2>1. \A a, b \in Nat : a <= b /\ ~(a < b) => a = b
    OBVIOUS
  <2>2. QED
    BY <1>1, <1>5, <1>6, <2>1
<1>8. QED
  BY <1>4, <1>7

-----------------------------------------------------------------------------
(* The lines that objects begin at.                                         *)

\* The first line of an element; the first of a mapping.
FirstAt(some, i) ==
  IsLong(some[i]) /\ \A j \in 1..(i - 1) : IsLong(some[j]) => ElementOf(some[j]) # ElementOf(some[i])

FirstEntry(some, i) == IsEntry(some[i]) /\ \A j \in 1..(i - 1) : ~IsEntry(some[j])

Begins(some, i) == IF ListLines(some) THEN FirstAt(some, i) ELSE FirstEntry(some, i)

\* Of the lines behind the offset, these numbers are those that objects begin at.
BegunBy(some, offset, numbers) == \A i \in DOMAIN some : offset + i \in numbers <=> Begins(some, i)

HasEntry(some) == \E i \in DOMAIN some : IsEntry(some[i])

ObjectsBegun ==
  /\ IsSequence(yaml.objects) /\ Ascending(yaml.objects)
  /\ \A number \in ToSet(yaml.objects) : number \in 1..(Number - 1)
  /\ \A n \in DOMAIN docs :
       HasEntry(docs[n].lines) /\ BegunBy(docs[n].lines, docs[n].offset, ToSet(yaml.objects))
  /\ BegunBy(lines, Offset, ToSet(yaml.objects))
  /\ yaml.body => HasEntry(lines)

\* In a list the elements do not go back.
LEMMA ElementsAscend ==
  ASSUME NEW some, IsSequence(some), InOrder(some), NEW i \in DOMAIN some, NEW j \in DOMAIN some,
         IsLong(some[i]), IsLong(some[j]), i <= j
  PROVE  /\ ElementOf(some[i]) \in Nat /\ ElementOf(some[j]) \in Nat
         /\ ElementOf(some[i]) <= ElementOf(some[j])
<1> DEFINE Later == {k \in DOMAIN some : i <= k /\ IsLong(some[k])}
           Right(k) == ElementOf(some[i]) <= ElementOf(some[k])
           Bad == {k \in Later : ~Right(k)}
<1>1. Len(some) \in Nat /\ DOMAIN some = 1..Len(some)
  BY SequenceFacts
<1>2. \A k \in DOMAIN some : IsLong(some[k]) => ElementOf(some[k]) \in Nat
  BY ElementIs DEF InOrder
<1>3. SUFFICES ASSUME Bad # {} PROVE FALSE
  <2>1. Bad = {} => Right(j)
    OBVIOUS
  <2>2. QED
    BY <1>2, <1>3, <2>1
<1>4. PICK k \in Bad : \A m \in Bad : k <= m
  <2>1. Bad \in SUBSET Nat
    BY <1>1
  <2> HIDE DEF Bad
  <2>2. QED
    BY <1>3, <2>1, LeastNumber
<1>5. /\ k \in DOMAIN some /\ i <= k /\ IsLong(some[k]) /\ ~Right(k) /\ k \in Nat /\ i \in Nat /\ i >= 1
      /\ k <= Len(some)
  BY <1>1, <1>4
<1>6. \A m \in Later : m < k => Right(m)
  <2>1. \A m \in Later : m < k => ~(k <= m)
    BY <1>1, <1>5
  <2>2. QED
    BY <1>4, <2>1
<1>7. k # i
  BY <1>2, <1>5
<1>8. i \in 1..(k - 1)
  BY <1>5, <1>7
<1> HIDE DEF Bad
<1>9. FollowsOn(some, k)
  BY <1>5 DEF InOrder
<1>10. PICK m \in 1..(k - 1) :
         /\ IsLong(some[m]) /\ \A l \in (m + 1)..(k - 1) : ~IsLong(some[l])
         /\ ElementOf(some[k]) \in {ElementOf(some[m]), ElementOf(some[m]) + 1}
  BY <1>8, <1>9 DEF FollowsOn
<1>11. i <= m
  <2>1. i \notin (m + 1)..(k - 1)
    BY <1>10
  <2>2. QED
    BY <1>5, <1>8, <1>10, <2>1
<1>12. m \in Later /\ m < k
  BY <1>1, <1>5, <1>10, <1>11
<1>13. ElementOf(some[i]) <= ElementOf(some[m])
  BY <1>6, <1>12
<1>14. ElementOf(some[i]) \in Nat /\ ElementOf(some[m]) \in Nat
  BY <1>2, <1>12
<1>15. QED
  BY <1>5, <1>10, <1>13, <1>14

\* The last element is the greatest, and there is a line of it.
LEMMA LastIsGreatest ==
  ASSUME NEW some, IsSequence(some), InOrder(some), NEW n, LastElement(some, n)
  PROVE  /\ \A i \in DOMAIN some : IsLong(some[i]) =>
              ElementOf(some[i]) \in Nat /\ ElementOf(some[i]) <= n
         /\ (\E i \in DOMAIN some : IsLong(some[i])) =>
              \E i \in DOMAIN some : IsLong(some[i]) /\ ElementOf(some[i]) = n
<1> DEFINE T == {i \in DOMAIN some : IsLong(some[i])}
<1>1. Len(some) \in Nat /\ DOMAIN some = 1..Len(some)
  BY SequenceFacts
<1>2. SUFFICES ASSUME T # {}
               PROVE  \E j \in T : ElementOf(some[j]) = n /\ \A i \in T : i <= j
  <2>1. CASE T = {}
    BY <2>1
  <2>2. CASE T # {}
    <3>1. PICK j \in T : ElementOf(some[j]) = n /\ \A i \in T : i <= j
      BY <1>2, <2>2
    <3>2. \A i \in T : ElementOf(some[i]) \in Nat /\ ElementOf(some[i]) <= n
      BY <3>1, ElementsAscend
    <3>3. QED
      BY <3>1, <3>2
  <2>3. QED
    BY <2>1, <2>2
<1>3. PICK j \in T : \A i \in T : i <= j
  <2>1. T \subseteq 0..Len(some)
    BY <1>1
  <2> HIDE DEF T
  <2>2. QED
    BY <1>1, <1>2, <2>1, GreatestNumber
<1>4. \A k \in (j + 1)..Len(some) : ~IsLong(some[k])
  <2> SUFFICES ASSUME NEW k \in (j + 1)..Len(some), IsLong(some[k]) PROVE FALSE
    OBVIOUS
  <2>1. k \in DOMAIN some /\ ~(k <= j)
    BY <1>1
  <2>2. QED
    BY <1>3, <2>1
<1>5. ElementOf(some[j]) = n
  BY <1>4 DEF LastElement
<1>6. QED
  BY <1>3, <1>5

\* Where an object begins does not change with the lines that follow.
LEMMA FirstGrows ==
  ASSUME NEW some, IsSequence(some), NEW line, NEW more, Adds(more, some, line)
  PROVE  /\ \A i \in DOMAIN some :
              (FirstAt(more, i) <=> FirstAt(some, i)) /\ (FirstEntry(more, i) <=> FirstEntry(some, i))
         /\ FirstAt(more, Len(some) + 1) <=>
              /\ IsLong(line)
              /\ \A j \in DOMAIN some : IsLong(some[j]) => ElementOf(some[j]) # ElementOf(line)
         /\ FirstEntry(more, Len(some) + 1) <=> IsEntry(line) /\ ~HasEntry(some)
<1> DEFINE new == Len(some) + 1
<1>1. /\ DOMAIN some = 1..Len(some) /\ Len(some) \in Nat
      /\ \A i \in DOMAIN some : more[i] = some[i]
      /\ more[new] = line
  BY SequenceFacts, AppendFacts DEF Adds
<1>2. 1..(new - 1) = DOMAIN some
  BY <1>1
<1>3. ASSUME NEW i \in DOMAIN some
      PROVE  (FirstAt(more, i) <=> FirstAt(some, i)) /\ (FirstEntry(more, i) <=> FirstEntry(some, i))
  <2>1. \A j \in 1..(i - 1) : j \in DOMAIN some /\ more[j] = some[j]
    BY <1>1
  <2>2. more[i] = some[i]
    BY <1>1
  <2>3. QED
    BY <2>1, <2>2 DEF FirstAt, FirstEntry
<1> HIDE DEF new
<1>4. FirstAt(more, new) <=>
        IsLong(line) /\ \A j \in DOMAIN some : IsLong(some[j]) => ElementOf(some[j]) # ElementOf(line)
  BY <1>1, <1>2 DEF FirstAt
<1>5. FirstEntry(more, new) <=> IsEntry(line) /\ ~HasEntry(some)
  BY <1>1, <1>2 DEF FirstEntry, HasEntry
<1>6. QED
  BY <1>3, <1>4, <1>5 DEF new

\* No document is both.
LEMMA MappingOrList ==
  ASSUME NEW some, MappingLines(some)
  PROVE  ~ListLines(some)
<1>1. \A i \in DOMAIN some : "list" \in some[i].type => IsEntry(some[i])
  BY DEF IsEntry
<1>2. QED
  BY <1>1 DEF MappingLines, ListLines

\* What an element of the document's own list does to the stack, and what any other does.
LEMMA ListStackBegins ==
  ASSUME Together, Rooted, NEW column \in Nat, ListStack(column) # <<>>
  PROVE  LET stack == ListStack(column) IN
         IF Len(stack) = 1
         THEN yaml.body => /\ yaml.stack[1].kind = "list" /\ stack[1].kind = "list"
                           /\ stack[1].count = yaml.stack[1].count + 1
         ELSE yaml.body /\ stack[1] = yaml.stack[1]
<1> DEFINE stack == ListStack(column)
           kept == ItemFrames(column)
<1>1. ~yaml.body => yaml.open.column = None
  BY DEF Together, BodyOK
<1>2. StackOK(yaml.stack) /\ IsSequence(yaml.stack)
  BY DEF Together, StackOK
<1>3. CASE /\ TopIs(kept, "list", column)
           /\ stack = Append(Front(kept), Frame("list", column, Last(kept).path, Last(kept).count + 1))
  <2> DEFINE g == Last(kept)
             f == Frame("list", column, g.path, g.count + 1)
             outer == Front(kept)
  <2>1. yaml.body /\ kept # <<>> /\ g.kind = "list"
    BY <1>3, NoFrames DEF TopIs
  <2>2. Outer(kept, yaml.stack) /\ StackOK(kept) /\ IsSequence(kept)
    BY <1>2, ItemFramesAre, StackOuter DEF StackOK
  <2>3. kept[1] = yaml.stack[1]
    BY <2>1, <2>2, RootedOuter DEF Rooted
  <2>4. f.kind = "list" /\ f.count = g.count + 1
    BY FrameFields
  <2>5. stack = Append(outer, f)
    BY <1>3
  <2>6. g = kept[Len(kept)] /\ Len(kept) \in Nat /\ Len(kept) >= 1
    <3>1. Len(kept) \in DOMAIN kept /\ DOMAIN kept = 1..Len(kept)
      BY <2>1, <2>2, TopFrame, SequenceFacts
    <3>2. QED
      BY <2>1, <2>2, <3>1, TopFrame, SequenceFacts
  <2>7. Len(kept) - 1 \in 0..Len(kept)
    BY <2>6
  <2>8. Outer(outer, kept) /\ Len(outer) = Len(kept) - 1 /\ DOMAIN outer = 1..(Len(kept) - 1)
    BY <2>2, <2>7, SubSeqOuter DEF Front
  <2> HIDE DEF stack, kept, outer, f, g
  <2>9. /\ Len(stack) = Len(kept)
        /\ \A a \in DOMAIN outer : stack[a] = outer[a]
        /\ stack[Len(kept)] = f
    <3>1. /\ Len(stack) = Len(outer) + 1 /\ stack[Len(outer) + 1] = f
          /\ \A a \in DOMAIN outer : stack[a] = outer[a]
      BY <2>5, <2>8, AppendFacts DEF Outer
    <3>2. Len(outer) + 1 = Len(kept)
      BY <2>6, <2>8
    <3>3. QED
      BY <3>1, <3>2
  <2>10. CASE Len(kept) = 1
    <3>1. stack[1] = f /\ g = yaml.stack[1]
      BY <2>3, <2>6, <2>9, <2>10
    <3>2. QED
      BY <2>1, <2>4, <2>9, <2>10, <3>1 DEF stack
  <2>11. CASE Len(kept) # 1
    <3>1. 1 \in DOMAIN outer
      BY <2>6, <2>8, <2>11
    <3>2. stack[1] = yaml.stack[1]
      BY <2>3, <2>8, <2>9, <3>1 DEF Outer
    <3>3. QED
      BY <2>1, <2>9, <2>11, <3>2 DEF stack
  <2>12. QED
    BY <2>10, <2>11
<1>4. CASE /\ yaml.open.column \in 0..column
           /\ stack = Append(yaml.stack, Frame("list", column, yaml.open.path, 1))
  <2> DEFINE f == Frame("list", column, yaml.open.path, 1)
             old == yaml.stack
  <2>1. yaml.open.column # None
    BY <1>4 DEF None
  <2>2. yaml.body /\ old # <<>>
    BY <1>1, <2>1 DEF Rooted, RootedIn
  <2>3. stack = Append(old, f)
    BY <1>4
  <2> HIDE DEF f, stack, old
  <2>4. Len(stack) = Len(old) + 1 /\ \A a \in DOMAIN old : stack[a] = old[a]
    BY <1>2, <2>3, AppendFacts DEF old
  <2>5. Len(old) \in Nat /\ Len(old) # 0 /\ DOMAIN old = 1..Len(old)
    BY <1>2, <2>2, SequenceFacts DEF old
  <2>6. Len(stack) # 1 /\ 1 \in DOMAIN old
    BY <2>4, <2>5
  <2>7. QED
    BY <2>2, <2>4, <2>6 DEF stack, old
<1>5. CASE ~yaml.body /\ column = 0 /\ stack = <<Frame("list", 0, Root, 1)>>
  <2> DEFINE f == Frame("list", 0, Root, 1)
  <2> HIDE DEF f
  <2>1. Len(<<f>>) = 1
    BY OneElement
  <2>2. Len(stack) = 1
    BY <1>5, <2>1 DEF f
  <2>3. QED
    BY <1>5, <2>2
<1>6. QED
  BY <1>3, <1>4, <1>5, ListStackCases

\* A line begins an object: the first of a mapping, or one of the next element of a list.
LEMMA EntryBegins ==
  ASSUME Together, Rooted, ParserOK, NEW raw \in Raw, RefOf(raw) # <<>>
  PROVE  LET root == StackAfter(raw)[1] IN
         IF BeginsObject(raw)
         THEN yaml.body => /\ yaml.stack[1].kind = "list" /\ root.kind = "list"
                           /\ root.count = yaml.stack[1].count + 1
         ELSE yaml.body /\ root = yaml.stack[1]
<1> DEFINE column == raw.column
           stack == StackAfter(raw)
<1>1. /\ ~IsContent(raw)
      /\ \/ raw.shape \in Mapping /\ MapStack(column) # <<>>
         \/ raw.shape \in Item \union {"value"} /\ ListStack(column) # <<>>
  BY DEF RefOf
<1>2. column \in Nat
  BY RawColumn
<1>3. CASE raw.shape \in Mapping /\ MapStack(column) # <<>>
  <2>1. stack = MapStack(column) /\ (BeginsObject(raw) <=> ~yaml.body)
    BY <1>3 DEF StackAfter, BeginsObject, Mapping
  <2>2. yaml.body => MapStack(column)[1] = yaml.stack[1]
    BY <1>2, <1>3, MapStackRooted
  <2>3. QED
    BY <2>1, <2>2
<1>4. CASE raw.shape \in Item \union {"value"} /\ ListStack(column) # <<>>
  <2> DEFINE below == ListStack(column)
             f == Frame("map", column + 2, Element(below), 0)
  <2>1. BeginsObject(raw) <=> Len(below) = 1
    BY <1>4 DEF BeginsObject, Mapping, Item
  <2>2. stack = IF raw.shape \in Item THEN Append(below, f) ELSE below
    BY <1>4 DEF StackAfter, Mapping, Item
  <2>3. StackOK(below) /\ below # <<>>
    BY <1>1, <1>4, ItemLine DEF Renewed
  <2>4. IF Len(below) = 1
        THEN yaml.body => /\ yaml.stack[1].kind = "list" /\ below[1].kind = "list"
                          /\ below[1].count = yaml.stack[1].count + 1
        ELSE yaml.body /\ below[1] = yaml.stack[1]
    BY <1>2, <1>4, ListStackBegins
  <2> HIDE DEF stack, below, f
  <2>5. 1 \in DOMAIN below
    BY <2>3, RootFrame
  <2>6. Append(below, f)[1] = below[1]
    BY <2>3, <2>5, AppendFacts DEF StackOK
  <2>7. stack[1] = below[1]
    BY <2>2, <2>6
  <2>8. QED
    BY <2>1, <2>4, <2>7 DEF stack
<1>5. QED
  BY <1>1, <1>3, <1>4

\* What a line does to the objects; a document that ends was not empty.
LEMMA ObjectsAfter ==
  ASSUME YamlOK, NEW raw \in Raw, yaml' = YamlAfter(raw), Usual'
  PROVE  /\ raw.shape = "separator" => yaml.body /\ ~yaml'.body
         /\ yaml'.objects = IF RefOf(raw) # <<>> /\ BeginsObject(raw)
                            THEN Append(yaml.objects, Number) ELSE yaml.objects
<1>1. CASE raw.shape \in {"separator", "dashes"}
  <2> DEFINE plain == yaml.plain /\ yaml.body /\ raw.shape = "separator"
  <2>1. RefOf(raw) = <<>>
    BY <1>1 DEF RefOf, Mapping, Item
  <2>2. yaml' = [Fresh EXCEPT !.objects = yaml.objects, !.valid = yaml.valid, !.plain = plain]
    BY <1>1, <2>1 DEF YamlAfter
  <2> HIDE DEF plain
  <2>3. yaml'.objects = yaml.objects /\ yaml'.plain = plain /\ yaml'.body = FALSE
    BY <2>2 DEF Fresh
  <2>4. plain
    BY <2>3 DEF Usual
  <2>5. yaml.body
    BY <2>4 DEF plain
  <2>6. QED
    BY <2>1, <2>3, <2>5
<1>2. CASE raw.shape \in {"empty", "comment"} /\ ~IsContent(raw)
  <2>1. RefOf(raw) = <<>>
    BY <1>2 DEF RefOf, Mapping, Item
  <2>2. yaml' = IF raw.shape = "comment" THEN [yaml EXCEPT !.scalar = None] ELSE yaml
    <3>1. raw.shape \notin {"separator", "dashes"}
      BY <1>2
    <3>2. QED
      BY <1>2, <2>1, <3>1 DEF YamlAfter
  <2>3. QED
    BY <1>2, <2>1, <2>2 DEF YamlOK
<1>3. CASE raw.shape \notin {"separator", "dashes"} /\ IsContent(raw)
  <2>1. RefOf(raw) = <<>>
    BY <1>3 DEF RefOf
  <2>2. yaml' = [yaml EXCEPT !.plain = yaml.plain /\ raw.column >= yaml.scalar]
    BY <1>3, <2>1 DEF YamlAfter
  <2>3. yaml'.objects = yaml.objects
    BY <2>2 DEF YamlOK
  <2>4. QED
    BY <1>3, <2>1, <2>3
<1>4. CASE /\ raw.shape \notin {"separator", "dashes", "empty", "comment"} /\ ~IsContent(raw)
           /\ RefOf(raw) # <<>>
  <2>1. yaml' = [stack |-> StackAfter(raw),
                 open |-> IF raw.shape \in {"key", "item"}
                          THEN [column |-> KeyColumn(raw), path |-> RefOf(raw)] ELSE NoKey,
                 scalar |-> IF raw.shape \in {"scalar", "itemScalar"} THEN KeyColumn(raw) + 2 ELSE None,
                 body |-> TRUE,
                 objects |-> IF BeginsObject(raw) THEN Append(yaml.objects, Number) ELSE yaml.objects,
                 valid |-> yaml.valid,
                 plain |-> yaml.plain /\ raw.shape # "itemScalar"]
    BY <1>4 DEF YamlAfter
  <2>2. yaml'.objects = IF BeginsObject(raw) THEN Append(yaml.objects, Number) ELSE yaml.objects
    BY <2>1
  <2>3. QED
    BY <1>4, <2>2
<1>5. CASE /\ raw.shape \notin {"separator", "dashes", "empty", "comment"} /\ ~IsContent(raw)
           /\ RefOf(raw) = <<>>
  <2>1. yaml' = [yaml EXCEPT !.valid = FALSE]
    BY <1>5 DEF YamlAfter
  <2>2. QED
    BY <2>1 DEF YamlOK, Usual
<1>6. QED
  BY <1>1, <1>2, <1>3, <1>4, <1>5

\* The number of a line is behind its document's offset, and that of the next is new.
LEMMA NewNumber ==
  ASSUME ParserOK
  PROVE  /\ Number = Offset + (Len(lines) + 1)
         /\ \A i \in DOMAIN lines : Offset + i # Number
         /\ \A i \in DOMAIN lines : i # Len(lines) + 1
<1>1. Offset \in Nat /\ Len(lines) \in Nat /\ Number = Offset + Len(lines) + 1
  BY OffsetIs
<1>2. DOMAIN lines = 1..Len(lines)
  BY SequenceFacts DEF ParserOK
<1>3. QED
  BY <1>1, <1>2

\* A line that is no entry begins no object.
LEMMA BegunAside ==
  ASSUME Together, ParserOK, Rooted, ObjectsBegun, NEW line, ~IsEntry(line), AsidePath(line.path),
         NEW more, Adds(more, lines, line)
  PROVE  BegunBy(more, Offset, ToSet(yaml.objects)) /\ (yaml.body => HasEntry(more))
<1> DEFINE new == Len(lines) + 1
           numbers == ToSet(yaml.objects)
<1>1. /\ OwnKeys(more)
      /\ ~yaml.body => MappingLines(more) /\ \A i \in DOMAIN more : ~IsLong(more[i])
      /\ yaml.body /\ yaml.stack[1].kind = "map" => MappingLines(more)
      /\ yaml.body /\ yaml.stack[1].kind = "list" =>
           ListLines(more) /\ LastElement(more, yaml.stack[1].count - 1)
  BY AsideLines
<1>2. /\ \A i \in DOMAIN lines : i \in DOMAIN more /\ more[i] = lines[i]
      /\ \A i \in DOMAIN more : i \in DOMAIN lines \/ i = new
      /\ more[new] = line
  BY AppendLines DEF ParserOK
<1>3. Number = Offset + new /\ \A i \in DOMAIN lines : Offset + i # Number
  BY NewNumber
<1>4. Number \notin numbers
  <2>1. Number \in Nat
    BY NumberNat
  <2>2. Number \notin 1..(Number - 1)
    BY <2>1
  <2>3. QED
    BY <2>2 DEF ObjectsBegun
<1>5. /\ \A i \in DOMAIN lines :
           (FirstAt(more, i) <=> FirstAt(lines, i)) /\ (FirstEntry(more, i) <=> FirstEntry(lines, i))
      /\ FirstAt(more, new) <=>
           IsLong(line) /\ \A j \in DOMAIN lines : IsLong(lines[j]) => ElementOf(lines[j]) # ElementOf(line)
      /\ FirstEntry(more, new) <=> IsEntry(line) /\ ~HasEntry(lines)
  BY FirstGrows DEF ParserOK
<1>6. ListLines(more) <=> ListLines(lines)
  <2>1. CASE ~yaml.body
    <3>1. MappingLines(lines)
      BY <2>1 DEF Together, BodyOK, MappingLines
    <3>2. QED
      BY <1>1, <2>1, <3>1, MappingOrList
  <2>2. CASE yaml.body /\ yaml.stack[1].kind = "map"
    <3>1. MappingLines(lines)
      BY <2>2 DEF Rooted
    <3>2. QED
      BY <1>1, <2>2, <3>1, MappingOrList
  <2>3. CASE yaml.body /\ yaml.stack[1].kind = "list"
    BY <1>1, <2>3 DEF Rooted
  <2>4. yaml.body => yaml.stack[1].kind \in {"map", "list"}
    BY RootFrame DEF Together, Rooted, RootedIn
  <2>5. QED
    BY <2>1, <2>2, <2>3, <2>4
<1>7. ~Begins(more, new)
  <2>1. CASE ~ListLines(lines)
    BY <1>5, <1>6, <2>1 DEF Begins
  <2>2. CASE ListLines(lines)
    <3>1. yaml.body /\ yaml.stack[1].kind = "list"
      <4>1. \E i \in DOMAIN lines : IsEntry(lines[i])
        BY <2>2 DEF ListLines, IsEntry
      <4>2. yaml.body
        BY <4>1 DEF Together, BodyOK
      <4>3. yaml.stack[1].kind \in {"map", "list"}
        BY <4>2, RootFrame DEF Together, Rooted, RootedIn
      <4>4. QED
        BY <2>2, <4>2, <4>3, MappingOrList DEF Rooted
    <3> DEFINE n == yaml.stack[1].count - 1
    <3>2. InOrder(lines) /\ LastElement(lines, n)
      BY <3>1 DEF Rooted, ListLines
    <3>3. \E i \in DOMAIN lines : IsLong(lines[i])
      <4>1. PICK i \in DOMAIN lines : IsListPath(lines[i].path)
        BY <2>2 DEF ListLines
      <4>2. QED
        BY <4>1, ListPathLong
    <3>4. IsLong(line) => ElementOf(line) = n
      <4> SUFFICES ASSUME IsLong(line) PROVE ElementOf(line) = n
        OBVIOUS
      <4>1. line.path[1] = Root[1] /\ InRoot(line.path, yaml.stack[1])
        BY <3>1 DEF AsidePath, IsLong
      <4>2. InElement(line, n)
        BY <3>1, <4>1, InRootElement
      <4> HIDE DEF n
      <4>3. QED
        BY <4>2, ElementIs
    <3> HIDE DEF n
    <3>5. PICK i \in DOMAIN lines : IsLong(lines[i]) /\ ElementOf(lines[i]) = n
      BY <3>2, <3>3, LastIsGreatest DEF ParserOK
    <3>6. QED
      BY <1>5, <1>6, <2>2, <3>4, <3>5 DEF Begins
  <2>3. QED
    BY <2>1, <2>2
<1>8. \A i \in DOMAIN lines : Begins(more, i) <=> Begins(lines, i)
  BY <1>5, <1>6 DEF Begins
<1> HIDE DEF new, numbers
<1>9. BegunBy(more, Offset, numbers)
  <2> SUFFICES ASSUME NEW i \in DOMAIN more
               PROVE  Offset + i \in numbers <=> Begins(more, i)
    BY DEF BegunBy
  <2>1. CASE i = new
    BY <1>3, <1>4, <1>7, <2>1
  <2>2. CASE i \in DOMAIN lines
    <3>1. Offset + i \in numbers <=> Begins(lines, i)
      BY <2>2 DEF ObjectsBegun, BegunBy, numbers
    <3>2. QED
      BY <1>8, <2>2, <3>1
  <2>3. QED
    BY <1>2, <2>1, <2>2
<1>10. yaml.body => HasEntry(more)
  BY <1>2 DEF ObjectsBegun, HasEntry
<1>11. QED
  BY <1>9, <1>10 DEF numbers

\* A line with a path begins an object if YAML says so.
LEMMA BegunEntry ==
  ASSUME Together, ParserOK, Rooted, ObjectsBegun, NEW raw \in Raw, RefOf(raw) # <<>>,
         Adds(lines', lines, Parsed(raw, RefOf(raw))), yaml'.stack = StackAfter(raw),
         NEW numbers,
         numbers = IF BeginsObject(raw) THEN ToSet(yaml.objects) \union {Number} ELSE ToSet(yaml.objects)
  PROVE  BegunBy(lines', Offset, numbers) /\ HasEntry(lines')
<1> DEFINE line == Parsed(raw, RefOf(raw))
           new == Len(lines) + 1
           root == yaml'.stack[1]
           old == yaml.stack[1]
<1>1. IsEntry(line) /\ line.path = RefOf(raw) /\ PathOK(line.path) /\ Renewed(yaml'.stack, line)
  BY EntryLine DEF LineAgrees
<1>2. /\ RootedIn(yaml'.stack) /\ InRoot(line.path, root)
      /\ root.kind = "map" => MappingLines(lines')
      /\ root.kind = "list" => ListLines(lines')
  BY <1>1, EntryLines
<1>3. root.kind \in {"map", "list"} /\ (root.kind = "list" => root.count - 1 \in Nat /\ root.count \in Nat)
  BY <1>1, <1>2, RootFrame DEF Renewed, RootedIn, FrameOK
<1>4. IF BeginsObject(raw)
      THEN yaml.body => old.kind = "list" /\ root.kind = "list" /\ root.count = old.count + 1
      ELSE yaml.body /\ root = old
  BY EntryBegins
<1>a. ~yaml.body => \A i \in DOMAIN lines : ~IsEntry(lines[i]) /\ ~IsLong(lines[i])
  BY DEF Together, BodyOK, Rooted
<1>b. yaml.body => (old.kind = "map" => MappingLines(lines))
                   /\ (old.kind = "list" => ListLines(lines) /\ LastElement(lines, old.count - 1))
  BY DEF Rooted
<1>c. yaml.body => HasEntry(lines)
  BY DEF ObjectsBegun
<1>d. IF yaml.body THEN root = old \/ (old.kind = "list" /\ root.kind = "list") ELSE TRUE
  BY <1>4
<1> HIDE DEF line, root, old
<1>5. /\ \A i \in DOMAIN lines : i \in DOMAIN lines' /\ lines'[i] = lines[i]
      /\ \A i \in DOMAIN lines' : i \in DOMAIN lines \/ i = new
      /\ new \in DOMAIN lines' /\ lines'[new] = line
  BY AppendLines DEF ParserOK, line
<1>6. Number = Offset + new /\ \A i \in DOMAIN lines : Offset + i # Number
  BY NewNumber
<1>7. Number \notin ToSet(yaml.objects)
  <2>1. Number \in Nat
    BY NumberNat
  <2>2. Number \notin 1..(Number - 1)
    BY <2>1
  <2>3. QED
    BY <2>2 DEF ObjectsBegun
<1>8. /\ \A i \in DOMAIN lines :
           (FirstAt(lines', i) <=> FirstAt(lines, i)) /\ (FirstEntry(lines', i) <=> FirstEntry(lines, i))
      /\ FirstAt(lines', new) <=>
           IsLong(line) /\ \A j \in DOMAIN lines : IsLong(lines[j]) => ElementOf(lines[j]) # ElementOf(line)
      /\ FirstEntry(lines', new) <=> IsEntry(line) /\ ~HasEntry(lines)
  BY FirstGrows DEF ParserOK, line
<1>11. /\ \A i \in DOMAIN lines : Begins(lines', i) <=> Begins(lines, i)
       /\ Begins(lines', new) <=> BeginsObject(raw)
  <2>1. CASE root.kind = "map"
    <3>1. ~ListLines(lines') /\ ~ListLines(lines)
      <4>1. MappingLines(lines)
        BY <1>a, <1>b, <1>d, <2>1 DEF MappingLines
      <4>2. QED
        BY <1>2, <2>1, <4>1, MappingOrList
    <3>2. \A i \in DOMAIN lines : Begins(lines', i) <=> Begins(lines, i)
      BY <1>8, <3>1 DEF Begins
    <3>3. Begins(lines', new) <=> BeginsObject(raw)
      <4>1. BeginsObject(raw) <=> ~yaml.body
        BY <1>4, <2>1
      <4>2. HasEntry(lines) <=> yaml.body
        BY <1>a, <1>c DEF HasEntry
      <4>3. QED
        BY <1>1, <1>8, <3>1, <4>1, <4>2 DEF Begins, line
    <3>4. QED
      BY <3>2, <3>3
  <2>2. CASE root.kind = "list"
    <3> DEFINE m == root.count - 1
               n == old.count - 1
    <3>1. InElement(line, m) /\ m \in Nat
      <4>1. line.path[1] = Root[1]
        BY <1>1 DEF PathOK, line
      <4>2. QED
        BY <1>2, <1>3, <2>2, <4>1, InRootElement DEF line
    <3>2. ElementOf(line) = m /\ IsLong(line)
      BY <3>1, ElementIs
    <3>3. yaml.body => old.kind = "list" /\ ListLines(lines) /\ LastElement(lines, n) /\ InOrder(lines)
      BY <1>b, <1>d, <2>2 DEF ListLines
    <3>4. \A i \in DOMAIN lines : Begins(lines', i) <=> Begins(lines, i)
      <4>1. CASE yaml.body
        BY <1>2, <1>8, <2>2, <3>3, <4>1 DEF Begins
      <4>2. CASE ~yaml.body
        <5>1. ~ListLines(lines)
          <6>1. MappingLines(lines)
            BY <1>a, <4>2 DEF MappingLines
          <6>2. QED
            BY <6>1, MappingOrList
        <5>2. \A i \in DOMAIN lines : ~FirstEntry(lines, i) /\ ~FirstAt(lines, i)
          BY <1>a, <4>2 DEF FirstEntry, FirstAt
        <5>3. QED
          BY <1>2, <1>8, <2>2, <5>1, <5>2 DEF Begins
      <4>3. QED
        BY <4>1, <4>2
    <3>5. Begins(lines', new) <=>
            \A j \in DOMAIN lines : IsLong(lines[j]) => ElementOf(lines[j]) # m
      BY <1>2, <1>8, <2>2, <3>2 DEF Begins
    <3>6. CASE ~yaml.body
      BY <1>4, <1>a, <3>4, <3>5, <3>6
    <3>7. CASE yaml.body
      <4>1. old.count - 1 \in Nat /\ old.count \in Nat
        <5>1. StackOK(yaml.stack) /\ yaml.stack # <<>>
          BY <3>7 DEF Together, Rooted, RootedIn
        <5>2. QED
          BY <3>3, <3>7, <5>1, RootFrame DEF FrameOK, old
      <4>2. \A i \in DOMAIN lines : IsLong(lines[i]) => ElementOf(lines[i]) \in Nat /\ ElementOf(lines[i]) <= n
        BY <3>3, <3>7, LastIsGreatest DEF ParserOK
      <4>3. \E i \in DOMAIN lines : IsLong(lines[i]) /\ ElementOf(lines[i]) = n
        <5>1. PICK i \in DOMAIN lines : IsListPath(lines[i].path)
          BY <3>3, <3>7 DEF ListLines
        <5>2. IsLong(lines[i])
          BY <5>1, ListPathLong
        <5> HIDE DEF n
        <5>3. QED
          BY <3>3, <3>7, <5>2, LastIsGreatest DEF ParserOK
      <4>4. CASE BeginsObject(raw)
        <5>1. root.count = old.count + 1
          BY <1>4, <3>7, <4>4 DEF root, old
        <5>2. n < m
          BY <4>1, <5>1
        <5>3. \A j \in DOMAIN lines : IsLong(lines[j]) => ElementOf(lines[j]) # m
          BY <4>1, <4>2, <5>2
        <5>4. QED
          BY <3>4, <3>5, <4>4, <5>3
      <4>5. CASE ~BeginsObject(raw)
        <5>1. m = n
          BY <1>4, <4>5 DEF root, old
        <5>2. QED
          BY <3>4, <3>5, <4>3, <4>5, <5>1
      <4>6. QED
        BY <4>4, <4>5
    <3>8. QED
      BY <3>6, <3>7
  <2>3. QED
    BY <1>3, <2>1, <2>2 DEF root
<1> HIDE DEF new
<1>12. BegunBy(lines', Offset, numbers)
  <2> SUFFICES ASSUME NEW i \in DOMAIN lines'
               PROVE  Offset + i \in numbers <=> Begins(lines', i)
    BY DEF BegunBy
  <2>1. CASE i = new
    BY <1>6, <1>7, <1>11, <2>1
  <2>2. CASE i \in DOMAIN lines
    <3>1. Offset + i \in ToSet(yaml.objects) <=> Begins(lines, i)
      BY <2>2 DEF ObjectsBegun, BegunBy
    <3>2. QED
      BY <1>6, <1>11, <2>2, <3>1
  <2>3. QED
    BY <1>5, <2>1, <2>2
<1>13. HasEntry(lines')
  BY <1>1, <1>5 DEF HasEntry, line
<1>14. QED
  BY <1>12, <1>13

\* Documents that follow each other are in order.
LEMMA ConsecutiveOrdered ==
  ASSUME NEW some, Consecutive(some)
  PROVE  Ordered(some)
<1>1. DOMAIN some = 1..Len(some) /\ Len(some) \in Nat
  BY SequenceFacts DEF Consecutive
<1>2. \A n \in DOMAIN some : some[n].offset \in Nat /\ EndOfDocument(some[n]) \in Nat
                             /\ some[n].offset <= EndOfDocument(some[n])
  <2> SUFFICES ASSUME NEW n \in DOMAIN some
               PROVE  some[n].offset \in Nat /\ EndOfDocument(some[n]) \in Nat
                      /\ some[n].offset <= EndOfDocument(some[n])
    OBVIOUS
  <2>1. some[n].offset \in Nat /\ Len(some[n].lines) \in Nat
    BY SequenceFacts DEF Consecutive, DocumentOK
  <2>2. QED
    BY <2>1 DEF EndOfDocument
<1> SUFFICES ASSUME NEW m \in DOMAIN some
             PROVE  \A n \in DOMAIN some : m < n => Before(some[m], some[n])
  BY DEF Ordered
<1> DEFINE Bad == {n \in DOMAIN some : m < n /\ ~Before(some[m], some[n])}
<1>3. SUFFICES ASSUME Bad # {} PROVE FALSE
  OBVIOUS
<1>4. PICK n \in Bad : \A l \in Bad : n <= l
  <2>1. Bad \in SUBSET Nat
    BY <1>1
  <2> HIDE DEF Bad
  <2>2. QED
    BY <1>3, <2>1, LeastNumber
<1>5. n \in DOMAIN some /\ m < n /\ ~Before(some[m], some[n]) /\ n \in Nat /\ m \in Nat /\ m >= 1
  BY <1>1, <1>4
<1>6. n - 1 \in DOMAIN some /\ n # 1 /\ ~(n <= n - 1)
  BY <1>1, <1>5
<1>7. n - 1 \notin Bad
  BY <1>4, <1>6
<1>8. some[n].offset = EndOfDocument(some[n - 1])
  BY <1>5, <1>6 DEF Consecutive
<1>9. CASE m = n - 1
  BY <1>2, <1>5, <1>8, <1>9 DEF Before
<1>10. CASE m # n - 1
  <2>1. m < n - 1
    BY <1>5, <1>10
  <2>2. EndOfDocument(some[m]) <= some[n - 1].offset
    BY <1>6, <1>7, <2>1 DEF Before
  <2>3. QED
    BY <1>2, <1>5, <1>6, <1>8, <2>2 DEF Before
<1>11. QED
  BY <1>9, <1>10

\* The documents that are complete end before the one being parsed.
LEMMA DocumentsBelow ==
  ASSUME ParserOK, NEW n \in DOMAIN docs
  PROVE  /\ docs[n].offset \in Nat /\ EndOfDocument(docs[n]) <= Offset
         /\ \A i \in DOMAIN docs[n].lines : docs[n].offset + i < Number
<1>1. DOMAIN docs = 1..Len(docs) /\ Len(docs) \in Nat /\ docs # <<>>
  <2>1. DOMAIN docs = 1..Len(docs) /\ Len(docs) \in Nat /\ (docs = <<>> <=> Len(docs) = 0)
    BY SequenceFacts DEF ParserOK, Consecutive
  <2>2. QED
    BY <2>1
<1>2. Len(docs) \in DOMAIN docs /\ Last(docs) = docs[Len(docs)]
  BY <1>1, OffsetNat DEF ParserOK
<1>3. Offset = EndOfDocument(docs[Len(docs)])
  BY <1>1, <1>2, OffsetIs
<1>4. \A m \in DOMAIN docs : docs[m].offset \in Nat /\ Len(docs[m].lines) \in Nat
                             /\ DOMAIN docs[m].lines = 1..Len(docs[m].lines)
  BY SequenceFacts DEF ParserOK, Consecutive, DocumentOK
<1>5. EndOfDocument(docs[n]) <= Offset
  <2>1. CASE n = Len(docs)
    <3>1. Offset \in Nat
      BY OffsetIs
    <3>2. QED
      BY <1>3, <2>1, <3>1
  <2>2. CASE n # Len(docs)
    <3>1. n < Len(docs)
      BY <1>1, <2>2
    <3>2. EndOfDocument(docs[n]) <= docs[Len(docs)].offset
      BY <1>2, <3>1, ConsecutiveOrdered DEF ParserOK, Ordered, Before
    <3>3. QED
      BY <1>2, <1>3, <1>4, <3>2 DEF EndOfDocument
  <2>3. QED
    BY <2>1, <2>2
<1>6. \A i \in DOMAIN docs[n].lines : docs[n].offset + i < Number
  <2> SUFFICES ASSUME NEW i \in DOMAIN docs[n].lines
               PROVE  docs[n].offset + i < Number
    OBVIOUS
  <2>1. Offset \in Nat /\ Len(lines) \in Nat /\ Number = Offset + Len(lines) + 1
    BY OffsetIs
  <2>2. i \in 1..Len(docs[n].lines) /\ docs[n].offset + Len(docs[n].lines) <= Offset
    BY <1>4, <1>5 DEF EndOfDocument
  <2>3. QED
    BY <1>4, <2>1, <2>2
<1>7. QED
  BY <1>4, <1>5, <1>6

\* Each line is one more.
LEMMA NumberGrows ==
  ASSUME ParserOK, NEW raw \in Raw, ReadLine(raw)
  PROVE  /\ Number' = Number + 1
         /\ raw.shape # "separator" => Offset' = Offset
<1> DEFINE line == Parsed(raw, IF raw.shape = "separator" THEN <<>> ELSE RefOf(raw))
<1>1. \/ raw.shape # "separator" /\ docs' = docs /\ Adds(lines', lines, line)
      \/ /\ raw.shape = "separator" /\ lines' = <<>>
         /\ \E doc : docs' = Append(docs, doc) /\ Adds(doc.lines, lines, line) /\ doc.offset = Offset
  BY LineRead
<1> HIDE DEF line
<1>2. Offset \in Nat /\ Len(lines) \in Nat /\ Number = Offset + Len(lines) + 1
  BY OffsetIs
<1>3. Number' = Offset' + Len(lines') + 1
  BY DEF Number
<1>4. CASE raw.shape # "separator" /\ docs' = docs /\ Adds(lines', lines, line)
  <2>1. Offset' = Offset
    BY <1>4 DEF Offset
  <2>2. Len(lines') = Len(lines) + 1
    BY <1>4, AppendFacts DEF Adds, ParserOK
  <2>3. QED
    BY <1>2, <1>3, <2>1, <2>2
<1>5. ASSUME raw.shape = "separator", lines' = <<>>,
             NEW doc, docs' = Append(docs, doc), Adds(doc.lines, lines, line), doc.offset = Offset
      PROVE  Number' = Number + 1
  <2>1. docs' # <<>> /\ Last(docs') = doc
    BY <1>5, AppendFacts, LastOfAppend DEF ParserOK, Consecutive
  <2>2. Offset' = doc.offset + Len(doc.lines)
    BY <2>1 DEF Offset
  <2>3. Len(doc.lines) = Len(lines) + 1
    BY <1>5, AppendFacts DEF Adds, ParserOK
  <2>4. Len(lines') = 0
    BY <1>5, EmptySeq
  <2>5. QED
    BY <1>2, <1>3, <1>5, <2>2, <2>3, <2>4
<1>6. QED
  BY <1>1, <1>4, <1>5

\* A number that is greater goes to the end.
LEMMA AscendingAppend ==
  ASSUME NEW numbers, IsSequence(numbers), Ascending(numbers), NEW number \in Nat,
         \A x \in ToSet(numbers) : x \in 1..(number - 1)
  PROVE  /\ IsSequence(Append(numbers, number)) /\ Ascending(Append(numbers, number))
         /\ ToSet(Append(numbers, number)) = ToSet(numbers) \union {number}
<1> DEFINE more == Append(numbers, number)
<1>1. /\ IsSequence(more) /\ DOMAIN more = 1..(Len(numbers) + 1)
      /\ \A i \in DOMAIN numbers : more[i] = numbers[i]
      /\ more[Len(numbers) + 1] = number
      /\ DOMAIN numbers = 1..Len(numbers) /\ Len(numbers) \in Nat
  BY SequenceFacts, AppendFacts
<1> HIDE DEF more
<1>2. \A i \in DOMAIN more : i \in DOMAIN numbers \/ i = Len(numbers) + 1
  BY <1>1
<1>3. \A i \in DOMAIN numbers : more[i] < number /\ i \in DOMAIN more /\ more[i] \in Nat
  <2> SUFFICES ASSUME NEW i \in DOMAIN numbers
               PROVE  more[i] < number /\ i \in DOMAIN more /\ more[i] \in Nat
    OBVIOUS
  <2>1. numbers[i] \in ToSet(numbers)
    BY DEF ToSet
  <2>2. numbers[i] \in 1..(number - 1)
    BY <2>1
  <2>3. numbers[i] \in Nat /\ numbers[i] < number
    BY <2>2
  <2>4. QED
    BY <1>1, <2>3
<1>4. Ascending(more)
  <2>1. \A n \in DOMAIN more : more[n] \in Nat
    BY <1>1, <1>2, <1>3
  <2>2. ASSUME NEW m \in DOMAIN more, NEW n \in DOMAIN more, m < n
        PROVE  more[m] < more[n]
    <3>1. m \in DOMAIN numbers
      BY <1>1, <2>2
    <3>2. CASE n \in DOMAIN numbers
      BY <1>1, <2>2, <3>1, <3>2 DEF Ascending
    <3>3. CASE n = Len(numbers) + 1
      BY <1>1, <1>3, <3>1, <3>3
    <3>4. QED
      BY <1>2, <3>2, <3>3
  <2>3. QED
    BY <2>1, <2>2 DEF Ascending
<1>5. ToSet(more) = ToSet(numbers) \union {number}
  <2>1. Len(numbers) + 1 \in DOMAIN more
    BY <1>1
  <2>2. QED
    BY <1>1, <1>2, <1>3, <2>1 DEF ToSet
<1>6. QED
  BY <1>1, <1>4, <1>5 DEF more

\* YAML's objects after a line.
LEMMA ObjectsStep ==
  ASSUME ParserOK, YamlOK, ObjectsBegun, NEW raw \in Raw, ReadLine(raw), Usual'
  PROVE  /\ IsSequence(yaml'.objects) /\ Ascending(yaml'.objects)
         /\ \A number \in ToSet(yaml'.objects) : number \in 1..(Number' - 1)
         /\ ToSet(yaml'.objects) = IF RefOf(raw) # <<>> /\ BeginsObject(raw)
                                   THEN ToSet(yaml.objects) \union {Number} ELSE ToSet(yaml.objects)
<1> DEFINE old == yaml.objects
           new == yaml'.objects
           begins == RefOf(raw) # <<>> /\ BeginsObject(raw)
<1>1. yaml' = YamlAfter(raw)
  BY DEF ReadLine
<1>2. new = IF begins THEN Append(old, Number) ELSE old
  BY <1>1, ObjectsAfter
<1>3. Number \in Nat /\ Number' = Number + 1
  BY NumberNat, NumberGrows
<1>4. IsSequence(old) /\ Ascending(old) /\ \A number \in ToSet(old) : number \in 1..(Number - 1)
  BY DEF ObjectsBegun
<1> HIDE DEF old, new, begins
<1>5. /\ IsSequence(new) /\ Ascending(new)
      /\ ToSet(new) = IF begins THEN ToSet(old) \union {Number} ELSE ToSet(old)
  <2>1. CASE begins
    BY <1>2, <1>3, <1>4, <2>1, AscendingAppend
  <2>2. CASE ~begins
    BY <1>2, <1>4, <2>2
  <2>3. QED
    BY <2>1, <2>2
<1>6. Number >= 1
  BY NewNumber, OffsetIs
<1>7. \A number \in ToSet(new) : number \in 1..(Number' - 1)
  <2>1. \A number \in 1..(Number - 1) : number \in 1..(Number + 1 - 1)
    BY <1>3
  <2>2. Number \in 1..(Number + 1 - 1)
    BY <1>3, <1>6
  <2>3. QED
    BY <1>3, <1>4, <1>5, <2>1, <2>2
<1>8. QED
  BY <1>5, <1>7 DEF old, new, begins

\* The documents that are complete begin objects where they did.
LEMMA BegunKept ==
  ASSUME ParserOK, ObjectsBegun, NEW n \in DOMAIN docs, NEW numbers,
         numbers \in {ToSet(yaml.objects), ToSet(yaml.objects) \union {Number}}
  PROVE  HasEntry(docs[n].lines) /\ BegunBy(docs[n].lines, docs[n].offset, numbers)
<1>1. HasEntry(docs[n].lines) /\ BegunBy(docs[n].lines, docs[n].offset, ToSet(yaml.objects))
  BY DEF ObjectsBegun
<1>2. \A i \in DOMAIN docs[n].lines : docs[n].offset + i # Number
  <2> SUFFICES ASSUME NEW i \in DOMAIN docs[n].lines, docs[n].offset + i = Number PROVE FALSE
    OBVIOUS
  <2>1. Number < Number /\ Number \in Nat
    BY DocumentsBelow, NumberNat
  <2>2. QED
    BY <2>1
<1>3. QED
  BY <1>1, <1>2 DEF BegunBy

\* Every step keeps where objects begin.
LEMMA BegunNext ==
  ASSUME ParserOK, YamlOK, Usual => Together /\ Rooted /\ ObjectsBegun, [Next]_vars
  PROVE  (Usual => ObjectsBegun)'
<1>1. CASE UNCHANGED vars
  BY <1>1 DEF vars, Usual, ObjectsBegun, Number, Offset
<1>2. ASSUME NEW raw \in Raw, ReadLine(raw), Usual'
      PROVE  ObjectsBegun'
  <2> DEFINE line == Parsed(raw, IF raw.shape = "separator" THEN <<>> ELSE RefOf(raw))
             numbers == ToSet(yaml'.objects)
  <2>1. yaml' = YamlAfter(raw)
    BY <1>2 DEF ReadLine
  <2>2. Together /\ Rooted /\ Usual /\ ObjectsBegun
    BY <1>2, <2>1, YamlCases
  <2>3. raw.column \in Nat /\ scalar = yaml.scalar
    BY <2>2, RawColumn DEF Together
  <2>4. line.path = PathOf(raw)[1] /\ line.type = TypeOf(raw)
    BY DEF Parsed
  <2>5. \/ raw.shape # "separator" /\ docs' = docs /\ Adds(lines', lines, line)
        \/ /\ raw.shape = "separator" /\ lines' = <<>>
           /\ \E doc : docs' = Append(docs, doc) /\ Adds(doc.lines, lines, line) /\ doc.offset = Offset
    BY <1>2, LineRead
  <2>6. /\ IsSequence(yaml'.objects) /\ Ascending(yaml'.objects)
        /\ \A number \in numbers : number \in 1..(Number' - 1)
        /\ numbers = IF RefOf(raw) # <<>> /\ BeginsObject(raw)
                     THEN ToSet(yaml.objects) \union {Number} ELSE ToSet(yaml.objects)
    BY <1>2, <2>2, ObjectsStep
  <2>7. raw.shape # "separator" => Offset' = Offset
    BY <1>2, NumberGrows
  <2>8. \A n \in DOMAIN docs : HasEntry(docs[n].lines) /\ BegunBy(docs[n].lines, docs[n].offset, numbers)
    <3> SUFFICES ASSUME NEW n \in DOMAIN docs
                 PROVE  HasEntry(docs[n].lines) /\ BegunBy(docs[n].lines, docs[n].offset, numbers)
      OBVIOUS
    <3>1. numbers \in {ToSet(yaml.objects), ToSet(yaml.objects) \union {Number}}
      BY <2>6
    <3> HIDE DEF numbers
    <3>2. QED
      BY <2>2, <3>1, BegunKept
  <2>9. ASSUME TypeOf(raw) \in {{"separator"}, {"comment"}, {"empty"}, {"blockScalar"}}, RefOf(raw) = <<>>,
               NEW more, Adds(more, lines, line)
        PROVE  BegunBy(more, Offset, numbers) /\ (yaml.body => HasEntry(more))
    <3>1. ~IsEntry(line)
      BY <2>4, <2>9 DEF IsEntry
    <3>2. AsidePath(line.path)
      BY <2>2, <2>4, <2>9, AsideParsed
    <3>3. numbers = ToSet(yaml.objects)
      BY <2>6, <2>9
    <3> HIDE DEF line, numbers
    <3>4. QED
      BY <2>2, <2>9, <3>1, <3>2, <3>3, BegunAside
  <2>10. CASE raw.shape = "separator" /\ ~yaml'.body
    <3>1. TypeOf(raw) = {"separator"} /\ RefOf(raw) = <<>>
      BY <2>10 DEF TypeOf, RefOf, Mapping, Item
    <3>2. PICK doc : docs' = Append(docs, doc) /\ Adds(doc.lines, lines, line) /\ doc.offset = Offset
      BY <2>5, <2>10
    <3>3. lines' = <<>>
      BY <2>5, <2>10
    <3>4. yaml.body
      BY <1>2, <2>1, <2>10, ObjectsAfter
    <3> HIDE DEF line, numbers
    <3>5. HasEntry(doc.lines) /\ BegunBy(doc.lines, doc.offset, numbers)
      BY <2>9, <3>1, <3>2, <3>4
    <3>6. /\ \A n \in DOMAIN docs : docs'[n] = docs[n]
          /\ docs'[Len(docs) + 1] = doc
          /\ \A n \in DOMAIN docs' : n \in DOMAIN docs \/ n = Len(docs) + 1
      <4>1. Adds(docs', docs, doc) /\ IsSequence(docs)
        BY <3>2 DEF Adds, ParserOK, Consecutive
      <4>2. QED
        BY <4>1, AppendLines
    <3>7. \A n \in DOMAIN docs' : HasEntry(docs'[n].lines) /\ BegunBy(docs'[n].lines, docs'[n].offset, numbers)
      BY <2>8, <3>5, <3>6
    <3>8. DOMAIN lines' = {}
      BY <3>3
    <3>9. BegunBy(lines', Offset', numbers)
      BY <3>8 DEF BegunBy
    <3>10. QED
      BY <2>6, <2>10, <3>7, <3>9 DEF ObjectsBegun, numbers
  <2>11. ASSUME raw.shape # "separator", BegunBy(lines', Offset, numbers), yaml'.body => HasEntry(lines')
         PROVE  ObjectsBegun'
    <3>1. docs' = docs /\ Offset' = Offset
      BY <2>5, <2>7, <2>11
    <3>2. BegunBy(lines', Offset', numbers)
      BY <2>11, <3>1
    <3>3. \A n \in DOMAIN docs' : HasEntry(docs'[n].lines) /\ BegunBy(docs'[n].lines, docs'[n].offset, numbers)
      BY <2>8, <3>1
    <3>4. QED
      BY <2>6, <2>11, <3>2, <3>3 DEF ObjectsBegun, numbers
  <2>12. CASE /\ raw.shape # "separator" /\ RefOf(raw) = <<>>
              /\ TypeOf(raw) \in {{"comment"}, {"empty"}, {"blockScalar"}}
              /\ yaml'.body = yaml.body
    <3>1. Adds(lines', lines, line)
      BY <2>5, <2>12
    <3> HIDE DEF line, numbers
    <3>2. BegunBy(lines', Offset, numbers) /\ (yaml.body => HasEntry(lines'))
      BY <2>9, <2>12, <3>1
    <3>3. QED
      BY <2>11, <2>12, <3>2
  <2>13. CASE /\ raw.shape # "separator" /\ RefOf(raw) # <<>>
              /\ yaml'.stack = StackAfter(raw)
    <3>1. Adds(lines', lines, Parsed(raw, RefOf(raw)))
      BY <2>5, <2>13
    <3>2. numbers = IF BeginsObject(raw) THEN ToSet(yaml.objects) \union {Number} ELSE ToSet(yaml.objects)
      BY <2>6, <2>13
    <3> HIDE DEF line, numbers
    <3>3. BegunBy(lines', Offset, numbers) /\ HasEntry(lines')
      BY <2>2, <2>13, <3>1, <3>2, BegunEntry
    <3>4. QED
      BY <2>11, <2>13, <3>3
  <2>14. CASE raw.shape \in {"empty", "comment"} /\ ~IsContent(raw)
    <3>1. TypeOf(raw) = {raw.shape}
      <4>1. ~InScalar(raw)
        BY <2>3, <2>14 DEF InScalar, IsContent
      <4>2. QED
        BY <2>14, <4>1 DEF TypeOf, Mapping, Item
    <3>2. TypeOf(raw) \in {{"comment"}, {"empty"}, {"blockScalar"}}
      BY <2>14, <3>1
    <3>3. raw.shape # "separator" /\ raw.shape \notin {"separator", "dashes"}
      BY <2>14
    <3>4. RefOf(raw) = <<>>
      BY <2>14 DEF RefOf, Mapping, Item
    <3>5. yaml'.body = yaml.body
      BY <1>2, <2>1, <2>14, <3>3, <3>4, YamlCases
    <3>6. QED
      BY <2>12, <3>2, <3>3, <3>4, <3>5
  <2>15. CASE raw.shape \notin {"separator", "dashes"} /\ IsContent(raw) /\ raw.column >= yaml.scalar
    <3>1. TypeOf(raw) = {"blockScalar"} /\ RefOf(raw) = <<>>
      <4>1. InScalar(raw)
        BY <2>3, <2>15 DEF InScalar, IsContent
      <4>2. QED
        BY <2>15, <4>1 DEF TypeOf, RefOf
    <3>2. yaml'.body = yaml.body
      BY <1>2, <2>1, <2>15, <3>1, YamlCases
    <3>3. QED
      BY <2>12, <2>15, <3>1, <3>2
  <2>16. QED
    BY <1>2, <2>1, <2>10, <2>13, <2>14, <2>15, YamlCases
<1>3. QED
  BY <1>1, <1>2 DEF Next, Usual

\* The invariants of the objects hold in every state.
LEMMA BegunInvariant ==
  Spec => [](IInv /\ Known /\ (Usual => Together /\ Rooted /\ ObjectsBegun))
<1>1. Init => (Usual => ObjectsBegun)
  <2> SUFFICES ASSUME Init PROVE ObjectsBegun
    OBVIOUS
  <2>1. IsSequence(<<>>) /\ DOMAIN <<>> = {} /\ ToSet(<<>>) = {}
    BY NoElement
  <2>2. QED
    BY <2>1 DEF Init, Fresh, ObjectsBegun, Ascending, BegunBy
<1>2. IInv /\ (Usual => Together /\ Rooted /\ ObjectsBegun) /\ [Next]_vars => (Usual => ObjectsBegun)'
  BY BegunNext DEF IInv
<1>3. IInv /\ (Usual => Together /\ Rooted) /\ (Usual => ObjectsBegun)
        => IInv /\ (Usual => Together /\ Rooted /\ ObjectsBegun)
  OBVIOUS
<1>4. Spec => [](Usual => ObjectsBegun)
  BY <1>1, <1>2, <1>3, RootedInvariant, PTL DEF Spec
<1>5. QED
  BY <1>4, RootedInvariant, PTL

\* The line that an element begins at is where its object is cut, or the first of the list.
LEMMA FirstIsCut ==
  ASSUME NEW doc, ListDocument(doc), NEW i \in DOMAIN doc.lines
  PROVE  FirstAt(doc.lines, i) <=>
           i \in Cuts(doc) \/ (i \in Long(doc) /\ \A j \in Long(doc) : ~(j < i))
<1> DEFINE element(j) == ElementOf(doc.lines[j])
           T == {j \in Long(doc) : j < i}
<1>1. /\ DOMAIN doc.lines = 1..Len(doc.lines) /\ Len(doc.lines) \in Nat
      /\ \A k : k \in Long(doc) <=> k \in DOMAIN doc.lines /\ IsLong(doc.lines[k])
      /\ Long(doc) \subseteq 1..Len(doc.lines)
      /\ Cuts(doc) \subseteq Long(doc)
      /\ \A c \in Cuts(doc) : \E j \in Long(doc) : j < c
  BY LongLines DEF ListDocument
<1>2. i \in Nat /\ 1..(i - 1) = {j \in DOMAIN doc.lines : j < i}
  BY <1>1
<1>3. FirstAt(doc.lines, i) <=> i \in Long(doc) /\ \A j \in T : element(j) # element(i)
  BY <1>1, <1>2 DEF FirstAt
<1>4. CASE i \notin Long(doc)
  BY <1>1, <1>3, <1>4
<1>5. CASE i \in Long(doc) /\ T = {}
  BY <1>3, <1>5
<1>6. CASE i \in Long(doc) /\ T # {}
  <2>1. PICK j \in T : \A k \in T : k <= j
    <3>1. T \subseteq 0..Len(doc.lines)
      BY <1>1
    <3> HIDE DEF T
    <3>2. QED
      BY <1>1, <1>6, <3>1, GreatestNumber
  <2>2. j \in Long(doc) /\ j < i /\ \A k \in Long(doc) : k <= j \/ k >= i
    <3>1. \A k \in Long(doc) : k \in Nat
      BY <1>1
    <3>2. QED
      BY <1>2, <2>1, <3>1
  <2>3. i \in Cuts(doc) <=> element(i) # element(j)
    BY <1>6, <2>2, CutAt
  <2>4. ASSUME NEW k \in T
        PROVE  /\ element(k) \in Nat /\ element(j) \in Nat /\ element(i) \in Nat
               /\ element(k) <= element(j) /\ element(j) <= element(i)
    <3>1. /\ IsSequence(doc.lines) /\ InOrder(doc.lines)
          /\ k \in DOMAIN doc.lines /\ j \in DOMAIN doc.lines
          /\ IsLong(doc.lines[k]) /\ IsLong(doc.lines[j]) /\ IsLong(doc.lines[i])
          /\ k <= j /\ j <= i
      <4>1. j <= i
        BY <1>1, <1>2, <2>2
      <4>2. QED
        BY <1>1, <1>6, <2>1, <2>2, <4>1 DEF ListDocument, DocumentOK
    <3>2. element(k) \in Nat /\ element(j) \in Nat /\ element(k) <= element(j)
      BY <3>1, ElementsAscend
    <3>3. element(i) \in Nat /\ element(j) <= element(i)
      BY <3>1, ElementsAscend
    <3>4. QED
      BY <3>2, <3>3
  <2> HIDE DEF element
  <2>5. (\A k \in T : element(k) # element(i)) <=> element(i) # element(j)
    <3>1. element(i) # element(j) => \A k \in T : element(k) # element(i)
      BY <2>4
    <3>2. QED
      BY <2>1, <3>1
  <2>6. QED
    BY <1>3, <1>6, <2>1, <2>3, <2>5
<1>7. QED
  BY <1>4, <1>5, <1>6

\* The numbers of an object of a list.
LEMMA HoldsPart ==
  ASSUME NEW doc, DocumentOK(doc), NEW begins, NEW i \in DOMAIN doc.lines, NEW q \in DOMAIN doc.lines
  PROVE  Holds(ObjectAt(doc, begins, i), doc.offset + q) <=> i <= q /\ q <= EndOf(doc, begins, i)
<1> DEFINE node == ObjectAt(doc, begins, i)
           end == EndOf(doc, begins, i)
<1>1. DOMAIN doc.lines = 1..Len(doc.lines) /\ Len(doc.lines) \in Nat /\ doc.offset \in Nat
  BY SequenceFacts DEF DocumentOK
<1>2. end \in i..Len(doc.lines) /\ DocumentOK(node) /\ EndOfDocument(node) = doc.offset + end
  BY PartLines
<1>3. node.offset = doc.offset + i - 1
  BY DEF ObjectAt
<1>4. Len(node.lines) \in Nat
  BY <1>2, SequenceFacts DEF DocumentOK
<1> HIDE DEF node, end
<1>5. i \in Nat /\ i >= 1 /\ q \in Nat /\ end \in Nat
  BY <1>1, <1>2
<1> DEFINE len == Len(node.lines)
           offset == doc.offset
<1>6. (offset + i - 1) + len = offset + end
  BY <1>1, <1>2, <1>3, <1>4, <1>5 DEF EndOfDocument
<1>7. Holds(node, offset + q) <=> (offset + q) - (offset + i - 1) \in 1..len
  BY <1>3, Zenon DEF Holds
<1> HIDE DEF len, offset
<1>8. offset \in Nat /\ len \in Nat
  BY <1>1, <1>4 DEF offset, len
<1>9. len = end - i + 1
  BY <1>5, <1>6, <1>8
<1>10. (offset + q) - (offset + i - 1) = q - i + 1
  BY <1>5, <1>8
<1>11. Holds(node, offset + q) <=> q - i + 1 \in 1..(end - i + 1)
  BY <1>7, <1>9, <1>10
<1>12. QED
  BY <1>5, <1>11 DEF node, end, offset

\* An object of a list has exactly one line at which an element begins.
LEMMA PartBegins ==
  ASSUME NEW doc, ListDocument(doc), ListLines(doc.lines),
         NEW b \in DOMAIN doc.lines, b \in {1} \union Cuts(doc)
  PROVE  LET end == EndOf(doc, {1} \union Cuts(doc), b) IN
         \E p \in DOMAIN doc.lines :
           /\ FirstAt(doc.lines, p) /\ b <= p /\ p <= end
           /\ \A q \in DOMAIN doc.lines : FirstAt(doc.lines, q) /\ b <= q /\ q <= end => q = p
<1> DEFINE begins == {1} \union Cuts(doc)
           end == EndOf(doc, begins, b)
<1>1. /\ DOMAIN doc.lines = 1..Len(doc.lines) /\ Len(doc.lines) \in Nat
      /\ \A k : k \in Long(doc) <=> k \in DOMAIN doc.lines /\ IsLong(doc.lines[k])
      /\ Long(doc) \subseteq 1..Len(doc.lines)
      /\ Cuts(doc) \subseteq Long(doc)
      /\ \A c \in Cuts(doc) : \E j \in Long(doc) : j < c
  BY LongLines DEF ListDocument
<1>2. /\ end \in b..Len(doc.lines)
      /\ \A j \in b..Len(doc.lines) : (\A k \in (b + 1)..j : k \notin begins) => j <= end
      /\ \A q \in DOMAIN doc.lines : b < q /\ q <= end => q \notin begins
  <2>1. /\ end \in b..Len(doc.lines)
        /\ \A j \in b..Len(doc.lines) : (\A k \in (b + 1)..j : k \notin begins) => j <= end
    BY PartLines DEF ListDocument
  <2>2. ASSUME NEW q \in DOMAIN doc.lines, b < q, q <= end
        PROVE  q \notin begins
    <3> DEFINE T == {j \in b..Len(doc.lines) : \A k \in (b + 1)..j : k \notin begins}
    <3>1. T \subseteq 0..Len(doc.lines) /\ b \in T
      BY <1>1
    <3>2. end = Max(T)
      BY DEF EndOf
    <3>3. end \in T
      <4> HIDE DEF T, end
      <4>1. QED
        BY <1>1, <3>1, <3>2, MaxOf
    <3>4. q \in (b + 1)..end
      <4>1. end \in Nat
        BY <1>1, <2>1
      <4> HIDE DEF end
      <4>2. QED
        BY <1>1, <2>2, <4>1
    <3>5. QED
      BY <3>3, <3>4
  <2>3. QED
    BY <2>1, <2>2
<1> HIDE DEF end
<1>3. b \in Nat /\ b >= 1 /\ end \in Nat /\ end <= Len(doc.lines) /\ b <= end
  BY <1>1, <1>2
<1>4. \A q \in DOMAIN doc.lines :
        FirstAt(doc.lines, q) <=> q \in Cuts(doc) \/ (q \in Long(doc) /\ \A j \in Long(doc) : ~(j < q))
  BY FirstIsCut
<1>5. CASE b \in Cuts(doc)
  <2>1. ASSUME NEW q \in DOMAIN doc.lines, FirstAt(doc.lines, q), b <= q, q <= end
        PROVE  q = b
    <3>1. CASE b < q
      <4>1. q \notin Cuts(doc)
        BY <1>2, <2>1, <3>1
      <4>2. QED
        BY <1>1, <1>4, <1>5, <2>1, <3>1, <4>1
    <3>2. CASE ~(b < q)
      BY <1>1, <2>1, <3>2
    <3>3. QED
      BY <3>1, <3>2
  <2>2. FirstAt(doc.lines, b) /\ b <= b /\ b <= end
    BY <1>3, <1>4, <1>5
  <2>3. \A q \in DOMAIN doc.lines : FirstAt(doc.lines, q) /\ b <= q /\ q <= end => q = b
    BY <2>1
  <2>4. QED
    BY <2>2, <2>3 DEF end
<1>6. CASE b \notin Cuts(doc)
  <2>1. b = 1
    BY <1>6
  <2>2. Long(doc) # {} /\ Long(doc) \in SUBSET Nat
    <3>1. PICK i \in DOMAIN doc.lines : IsListPath(doc.lines[i].path)
      BY DEF ListLines
    <3>2. IsLong(doc.lines[i])
      BY <3>1, ListPathLong
    <3>3. QED
      BY <1>1, <3>2
  <2>3. PICK p \in Long(doc) : \A j \in Long(doc) : p <= j
    BY <2>2, LeastNumber
  <2>4. p \in DOMAIN doc.lines /\ p \in Nat /\ b <= p /\ p <= Len(doc.lines)
    BY <1>1, <2>1
  <2>5. \A j \in Long(doc) : ~(j < p)
    BY <2>2, <2>3, <2>4
  <2>6. FirstAt(doc.lines, p)
    BY <1>4, <2>4, <2>5
  <2>7. p <= end
    <3>1. ASSUME NEW k \in (b + 1)..p
          PROVE  k \notin begins
      <4>1. k # 1 /\ k <= p /\ k \in Nat
        BY <2>1, <2>4
      <4>2. ASSUME k \in Cuts(doc) PROVE FALSE
        <5>1. PICK j \in Long(doc) : j < k
          BY <1>1, <4>2
        <5>2. p <= j /\ j \in Nat
          BY <2>2, <2>3
        <5>3. QED
          BY <2>4, <4>1, <5>1, <5>2
      <4>3. QED
        BY <4>1, <4>2
    <3>2. p \in b..Len(doc.lines)
      BY <1>1, <1>3, <2>4
    <3> HIDE DEF begins
    <3>3. QED
      BY <1>2, <3>1, <3>2
  <2>8. ASSUME NEW q \in DOMAIN doc.lines, FirstAt(doc.lines, q), b <= q, q <= end
        PROVE  q = p
    <3>1. q \notin Cuts(doc)
      <4>1. CASE b < q
        BY <1>2, <2>8, <4>1
      <4>2. CASE ~(b < q)
        <5>1. q = b
          BY <1>1, <2>8, <4>2
        <5>2. QED
          BY <1>6, <5>1
      <4>3. QED
        BY <4>1, <4>2
    <3>2. q \in Long(doc) /\ ~(p < q)
      BY <1>4, <2>8, <3>1
    <3>3. p <= q /\ q \in Nat
      BY <2>2, <2>3, <3>2
    <3>4. QED
      BY <2>4, <3>2, <3>3
  <2>9. QED
    BY <2>4, <2>6, <2>7, <2>8 DEF end
<1>7. QED
  BY <1>5, <1>6

\* An object is within its document.
LEMMA ObjectWithin ==
  ASSUME NEW doc, DocumentOK(doc), NEW node \in ToSet(NodesOf(doc))
  PROVE  /\ DocumentOK(node)
         /\ doc.offset \in Nat /\ node.offset \in Nat
         /\ EndOfDocument(doc) \in Nat /\ EndOfDocument(node) \in Nat
         /\ doc.offset <= node.offset /\ EndOfDocument(node) <= EndOfDocument(doc)
<1>1. DOMAIN doc.lines = 1..Len(doc.lines) /\ Len(doc.lines) \in Nat /\ doc.offset \in Nat
  BY SequenceFacts DEF DocumentOK
<1>2. DocumentOK(node)
  BY ObjectsOfDocument
<1>3. node.offset \in Nat /\ Len(node.lines) \in Nat
  BY <1>2, SequenceFacts DEF DocumentOK
<1>4. EndOfDocument(node) \in Nat /\ EndOfDocument(doc) \in Nat
  BY <1>1, <1>3 DEF EndOfDocument
<1>5. doc.offset <= node.offset /\ EndOfDocument(node) <= EndOfDocument(doc)
  <2>1. CASE ~DocIsList(doc)
    <3>1. ToSet(NodesOf(doc)) = {[offset |-> doc.offset, lines |-> doc.lines, index |-> None]}
      BY <2>1, OneElement DEF NodesOf
    <3>2. node.offset = doc.offset /\ node.lines = doc.lines
      BY <3>1
    <3>3. EndOfDocument(node) = EndOfDocument(doc)
      BY <3>2 DEF EndOfDocument
    <3>4. QED
      BY <1>1, <1>4, <3>2, <3>3
  <2>2. CASE DocIsList(doc)
    <3> DEFINE begins == {1} \union Cuts(doc)
    <3>1. PICK b \in DOMAIN doc.lines : node = ObjectAt(doc, begins, b)
      BY <2>2, SplitElements DEF NodesOf
    <3>2. EndOf(doc, begins, b) \in b..Len(doc.lines) /\ EndOfDocument(node) = doc.offset + EndOf(doc, begins, b)
      BY <3>1, PartLines
    <3>3. node.offset = doc.offset + b - 1 /\ b \in 1..Len(doc.lines)
      BY <1>1, <3>1 DEF ObjectAt
    <3>4. EndOfDocument(doc) = doc.offset + Len(doc.lines)
      BY DEF EndOfDocument
    <3> DEFINE end == EndOf(doc, begins, b)
    <3>5. end \in b..Len(doc.lines) /\ EndOfDocument(node) = doc.offset + end
      BY <3>2
    <3> HIDE DEF end, begins
    <3>6. QED
      BY <1>1, <3>3, <3>4, <3>5
  <2>3. QED
    BY <2>1, <2>2
<1>6. QED
  BY <1>1, <1>2, <1>3, <1>4, <1>5

\* Exactly one line of an object is one that an object begins at.
LEMMA ObjectBegins ==
  ASSUME NEW doc, DocumentOK(doc), DocumentRooted(doc), HasEntry(doc.lines),
         NEW node \in ToSet(NodesOf(doc))
  PROVE  \E p \in DOMAIN doc.lines :
           /\ Begins(doc.lines, p) /\ Holds(node, doc.offset + p)
           /\ \A q \in DOMAIN doc.lines : Begins(doc.lines, q) /\ Holds(node, doc.offset + q) => q = p
<1>1. DOMAIN doc.lines = 1..Len(doc.lines) /\ Len(doc.lines) \in Nat /\ doc.offset \in Nat
  BY SequenceFacts DEF DocumentOK
<1>2. CASE ~DocIsList(doc)
  <2>1. ~ListLines(doc.lines)
    BY <1>2, ListsAreLists, MappingOrList
  <2>2. ToSet(NodesOf(doc)) = {[offset |-> doc.offset, lines |-> doc.lines, index |-> None]}
    BY <1>2, OneElement DEF NodesOf
  <2>3. node.offset = doc.offset /\ node.lines = doc.lines
    BY <2>2
  <2>4. \A p \in DOMAIN doc.lines : Holds(node, doc.offset + p)
    <3>1. \A p \in DOMAIN doc.lines : (doc.offset + p) - doc.offset = p
      BY <1>1
    <3>2. QED
      BY <1>1, <2>3, <3>1 DEF Holds
  <2> DEFINE T == {p \in DOMAIN doc.lines : IsEntry(doc.lines[p])}
  <2>5. PICK p \in T : \A q \in T : p <= q
    <3>1. T \in SUBSET Nat /\ T # {}
      BY <1>1 DEF HasEntry
    <3> HIDE DEF T
    <3>2. QED
      BY <3>1, LeastNumber
  <2>6. p \in DOMAIN doc.lines /\ p \in Nat /\ FirstEntry(doc.lines, p)
    <3>1. \A j \in 1..(p - 1) : j \in DOMAIN doc.lines /\ ~(p <= j)
      BY <1>1
    <3>2. QED
      BY <1>1, <2>5, <3>1 DEF FirstEntry
  <2>7. ASSUME NEW q \in DOMAIN doc.lines, FirstEntry(doc.lines, q)
        PROVE  q = p
    <3>1. p <= q /\ q \in Nat
      BY <1>1, <2>5, <2>7 DEF FirstEntry
    <3>2. p \notin 1..(q - 1)
      BY <2>5, <2>7 DEF FirstEntry
    <3>3. QED
      BY <1>1, <2>6, <3>1, <3>2
  <2>8. QED
    BY <2>1, <2>4, <2>6, <2>7 DEF Begins
<1>3. CASE DocIsList(doc)
  <2> DEFINE begins == {1} \union Cuts(doc)
  <2>1. ListDocument(doc) /\ ListLines(doc.lines)
    BY <1>3, ListsAreLists
  <2>2. PICK b \in DOMAIN doc.lines : b \in begins /\ node = ObjectAt(doc, begins, b)
    BY <1>3, SplitElements DEF NodesOf
  <2> DEFINE end == EndOf(doc, begins, b)
  <2>3. PICK p \in DOMAIN doc.lines :
           /\ FirstAt(doc.lines, p) /\ b <= p /\ p <= end
           /\ \A q \in DOMAIN doc.lines : FirstAt(doc.lines, q) /\ b <= q /\ q <= end => q = p
    BY <2>1, <2>2, PartBegins
  <2> HIDE DEF begins
  <2>4. \A q \in DOMAIN doc.lines : Holds(node, doc.offset + q) <=> b <= q /\ q <= end
    BY <2>2, HoldsPart
  <2>5. \A q \in DOMAIN doc.lines : Begins(doc.lines, q) <=> FirstAt(doc.lines, q)
    BY <2>1 DEF Begins
  <2> HIDE DEF end
  <2>6. QED
    BY <2>3, <2>4, <2>5
<1>4. QED
  BY <1>2, <1>3

\* Of the numbers that objects begin at, an object has exactly one.
LEMMA ObjectNumber ==
  ASSUME NEW doc, DocumentOK(doc), DocumentRooted(doc), HasEntry(doc.lines),
         NEW node \in ToSet(NodesOf(doc)),
         NEW numbers, IsSequence(numbers), Ascending(numbers),
         BegunBy(doc.lines, doc.offset, ToSet(numbers))
  PROVE  \E k \in DOMAIN numbers :
           Holds(node, numbers[k]) /\ \A l \in DOMAIN numbers : Holds(node, numbers[l]) => l = k
<1>1. PICK p \in DOMAIN doc.lines :
        /\ Begins(doc.lines, p) /\ Holds(node, doc.offset + p)
        /\ \A q \in DOMAIN doc.lines : Begins(doc.lines, q) /\ Holds(node, doc.offset + q) => q = p
  BY ObjectBegins
<1>2. doc.offset + p \in ToSet(numbers)
  BY <1>1 DEF BegunBy
<1>3. PICK k \in DOMAIN numbers : numbers[k] = doc.offset + p
  BY <1>2 DEF ToSet
<1>4. Holds(node, numbers[k])
  BY <1>1, <1>3
<1>5. DOMAIN doc.lines = 1..Len(doc.lines) /\ Len(doc.lines) \in Nat
  BY SequenceFacts DEF DocumentOK
<1>6. /\ doc.offset \in Nat /\ node.offset \in Nat /\ doc.offset <= node.offset
      /\ EndOfDocument(node) <= EndOfDocument(doc) /\ Len(node.lines) \in Nat
  BY ObjectWithin, SequenceFacts DEF DocumentOK
<1>7. ASSUME NEW l \in DOMAIN numbers, Holds(node, numbers[l])
      PROVE  l = k
  <2> DEFINE x == numbers[l]
             q == x - doc.offset
  <2>1. x \in Nat
    BY DEF Ascending
  <2>2. x - node.offset \in 1..Len(node.lines)
    BY <1>7 DEF Holds
  <2>3. node.offset + Len(node.lines) <= doc.offset + Len(doc.lines)
    BY <1>6 DEF EndOfDocument
  <2>4. x \in ToSet(numbers)
    BY DEF ToSet
  <2> HIDE DEF x
  <2>5. q \in DOMAIN doc.lines /\ x = doc.offset + q
    <3> DEFINE a == doc.offset
               b == node.offset
               m == Len(doc.lines)
               n == Len(node.lines)
    <3>1. a \in Nat /\ b \in Nat /\ m \in Nat /\ n \in Nat /\ a <= b /\ b + n <= a + m /\ x - b \in 1..n
      BY <1>5, <1>6, <2>2, <2>3
    <3> HIDE DEF a, b, m, n
    <3>2. x - a \in 1..m /\ x = a + (x - a)
      BY <2>1, <3>1
    <3>3. QED
      BY <1>5, <3>2 DEF a, m
  <2> HIDE DEF q
  <2>6. Begins(doc.lines, q) /\ Holds(node, doc.offset + q)
    BY <1>7, <2>4, <2>5 DEF BegunBy, x
  <2>7. numbers[l] = numbers[k]
    <3>1. q = p
      BY <1>1, <2>5, <2>6
    <3>2. QED
      BY <1>3, <2>5, <3>1 DEF x
  <2>8. DOMAIN numbers = 1..Len(numbers) /\ Len(numbers) \in Nat
    BY SequenceFacts
  <2>9. ~(l < k) /\ ~(k < l)
    <3>1. numbers[l] \in Nat /\ ~(numbers[l] < numbers[k]) /\ ~(numbers[k] < numbers[l])
      BY <2>1, <2>7 DEF x
    <3>2. QED
      BY <3>1 DEF Ascending
  <2>10. QED
    BY <2>8, <2>9
<1>8. QED
  BY <1>4, <1>7

\* The objects of a document are in the order of their lines.
LEMMA ObjectsOrdered ==
  ASSUME NEW doc, DocumentOK(doc)
  PROVE  Ordered(NodesOf(doc))
<1>1. CASE ~DocIsList(doc)
  <2> DEFINE node == [offset |-> doc.offset, lines |-> doc.lines, index |-> None]
  <2>1. NodesOf(doc) = <<node>>
    BY <1>1 DEF NodesOf
  <2> HIDE DEF node
  <2>2. DOMAIN <<node>> = 1..1
    BY OneElement, SequenceFacts
  <2>3. \A m, n \in 1..1 : ~(m < n)
    OBVIOUS
  <2>4. Ordered(<<node>>)
    BY <2>2, <2>3 DEF Ordered
  <2>5. QED
    BY <2>1, <2>4
<1>2. CASE DocIsList(doc)
  <2> DEFINE begins == {1} \union Cuts(doc)
             Part(i) == IF i \in begins THEN <<ObjectAt(doc, begins, i)>> ELSE <<>>
             parts == [i \in DOMAIN doc.lines |-> Part(i)]
  <2>1. DOMAIN doc.lines = 1..Len(doc.lines) /\ Len(doc.lines) \in Nat /\ doc.offset \in Nat
    BY SequenceFacts DEF DocumentOK
  <2>2. NodesOf(doc) = FlattenSeq(parts)
    BY <1>2 DEF NodesOf, Split
  <2>3. \A k \in begins : k \in Nat
    BY LongLines DEF ListDocument
  <2> HIDE DEF begins
  <2>4. ASSUME NEW i
        PROVE  /\ IsSequence(Part(i)) /\ Ordered(Part(i))
               /\ ToSet(Part(i)) = IF i \in begins THEN {ObjectAt(doc, begins, i)} ELSE {}
    <3> DEFINE object == ObjectAt(doc, begins, i)
    <3>1. CASE i \in begins
      <4>1. Part(i) = <<object>>
        BY <3>1
      <4> HIDE DEF object, Part
      <4>2. IsSequence(<<object>>) /\ ToSet(<<object>>) = {object} /\ DOMAIN <<object>> = 1..1
        BY OneElement, SequenceFacts
      <4>3. \A m, n \in 1..1 : ~(m < n)
        OBVIOUS
      <4>4. Ordered(<<object>>)
        BY <4>2, <4>3 DEF Ordered
      <4>5. QED
        BY <3>1, <4>1, <4>2, <4>4 DEF object
    <3>2. CASE i \notin begins
      <4>1. Part(i) = <<>>
        BY <3>2
      <4>2. IsSequence(<<>>) /\ ToSet(<<>>) = {} /\ DOMAIN <<>> = {}
        BY NoElement
      <4>3. Ordered(<<>>)
        BY <4>2 DEF Ordered
      <4> HIDE DEF Part
      <4>4. QED
        BY <3>2, <4>1, <4>2, <4>3
    <3>3. QED
      BY <3>1, <3>2
  <2> HIDE DEF Part
  <2>5. IsSequence(parts) /\ DOMAIN parts = DOMAIN doc.lines
    <3>1. parts = [i \in 1..Len(doc.lines) |-> parts[i]]
      BY <2>1
    <3>2. QED
      BY <2>1, <3>1, SequenceByIndex
  <2>6. \A i \in DOMAIN parts : parts[i] = Part(i)
    BY <2>5
  <2> HIDE DEF parts
  <2>7. ASSUME NEW i \in DOMAIN parts, NEW j \in DOMAIN parts, i < j,
               NEW a \in ToSet(parts[i]), NEW b \in ToSet(parts[j])
        PROVE  Before(a, b)
    <3>1. i \in begins /\ j \in begins /\ a = ObjectAt(doc, begins, i) /\ b = ObjectAt(doc, begins, j)
      BY <2>4, <2>6
    <3>2. i \in 1..Len(doc.lines) /\ j \in 1..Len(doc.lines)
      BY <2>1, <2>5
    <3> DEFINE end == EndOf(doc, begins, i)
               T == {l \in i..Len(doc.lines) : \A k \in (i + 1)..l : k \notin begins}
    <3>3. T \subseteq 0..Len(doc.lines) /\ i \in T
      BY <2>1, <3>2
    <3>4. end = Max(T)
      BY DEF EndOf
    <3>5. end \in T
      <4> HIDE DEF T, end
      <4>1. QED
        BY <2>1, <3>3, <3>4, MaxOf
    <3>6. end \in i..Len(doc.lines) /\ j \notin (i + 1)..end
      BY <3>1, <3>5
    <3>7. EndOfDocument(a) = doc.offset + end
      BY <2>5, <3>1, PartLines
    <3>8. b.offset = doc.offset + j - 1
      BY <3>1 DEF ObjectAt
    <3> HIDE DEF end, T
    <3>9. end <= j - 1 /\ end \in Nat /\ j \in Nat
      BY <2>1, <2>7, <3>2, <3>6
    <3>10. EndOfDocument(a) <= b.offset
      BY <2>1, <3>7, <3>8, <3>9
    <3>11. QED
      BY <3>10 DEF Before
  <2>8. \A i \in DOMAIN parts : IsSequence(parts[i]) /\ Ordered(parts[i])
    BY <2>4, <2>6
  <2>9. QED
    BY <2>2, <2>5, <2>7, <2>8, FlattenOrdered
<1>3. QED
  BY <1>1, <1>2

\* The objects of the text are in the order of their lines.
LEMMA NodesOrdered ==
  ASSUME ParserOK
  PROVE  Ordered(Nodes)
<1> DEFINE parts == [n \in DOMAIN Documents |-> NodesOf(Documents[n])]
<1>1. /\ DOMAIN Documents = 1..Len(Documents) /\ Len(Documents) \in Nat
      /\ \A n \in DOMAIN Documents : DocumentOK(Documents[n])
      /\ Ordered(Documents)
  BY DocumentsConsecutive, ConsecutiveOrdered, SequenceFacts DEF Consecutive
<1>2. IsSequence(parts) /\ DOMAIN parts = DOMAIN Documents
  <2>1. parts = [n \in 1..Len(Documents) |-> parts[n]]
    BY <1>1
  <2>2. QED
    BY <1>1, <2>1, SequenceByIndex
<1>3. \A n \in DOMAIN parts :
        parts[n] = NodesOf(Documents[n]) /\ IsSequence(parts[n]) /\ Ordered(parts[n])
  BY <1>1, <1>2, ObjectsOfDocument, ObjectsOrdered
<1>4. Nodes = FlattenSeq(parts)
  BY DEF Nodes
<1> HIDE DEF parts
<1>5. ASSUME NEW m \in DOMAIN parts, NEW n \in DOMAIN parts, m < n,
             NEW a \in ToSet(parts[m]), NEW b \in ToSet(parts[n])
      PROVE  Before(a, b)
  <2> DEFINE first == Documents[m]
             second == Documents[n]
  <2>1. DocumentOK(first) /\ DocumentOK(second) /\ a \in ToSet(NodesOf(first)) /\ b \in ToSet(NodesOf(second))
    BY <1>1, <1>2, <1>3
  <2>2. EndOfDocument(first) <= second.offset
    BY <1>1, <1>2, <1>5 DEF Ordered, Before
  <2> HIDE DEF first, second
  <2>3. /\ EndOfDocument(a) \in Nat /\ EndOfDocument(first) \in Nat
        /\ EndOfDocument(a) <= EndOfDocument(first)
    BY <2>1, ObjectWithin
  <2>4. second.offset \in Nat /\ b.offset \in Nat /\ second.offset <= b.offset
    BY <2>1, ObjectWithin
  <2>5. EndOfDocument(a) <= b.offset
    BY <2>2, <2>3, <2>4
  <2>6. QED
    BY <2>5 DEF Before
<1>6. QED
  BY <1>2, <1>3, <1>4, <1>5, FlattenOrdered

\* Every line that was read is one of an object.
LEMMA LineHeld ==
  ASSUME ParserOK, NEW number \in 1..(Number - 1)
  PROVE  \E node \in ToSet(Nodes) : Holds(node, number)
<1>1. /\ Consecutive(Documents) /\ IsSequence(Documents)
      /\ \A n \in DOMAIN Documents : DocumentOK(Documents[n])
  BY DocumentsConsecutive DEF Consecutive
<1>2. /\ Offset \in Nat /\ Len(lines) \in Nat /\ Number = Offset + Len(lines) + 1
      /\ (Offset = IF docs = <<>> THEN 0 ELSE EndOfDocument(Last(docs)))
  BY OffsetIs
<1>3. Documents # <<>> /\ EndOfDocument(Last(Documents)) = Number - 1
  <2>1. CASE lines = <<>>
    <3>1. Len(lines) = 0 /\ Documents = docs
      BY <2>1, EmptySeq DEF Documents
    <3>2. docs # <<>>
      BY <1>2, <3>1
    <3>3. QED
      BY <1>2, <3>1, <3>2
  <2>2. CASE lines # <<>>
    <3> DEFINE doc == [offset |-> Offset, lines |-> lines]
    <3>1. Documents = Append(docs, doc)
      BY <2>2 DEF Documents
    <3>2. EndOfDocument(doc) = Number - 1
      BY <1>2 DEF EndOfDocument
    <3> HIDE DEF doc
    <3>3. IsSequence(docs)
      BY DEF ParserOK, Consecutive
    <3>4. QED
      BY <3>1, <3>2, <3>3, LastOfAppend, AppendFacts
  <2>3. QED
    BY <2>1, <2>2
<1>4. \E n \in DOMAIN Documents : Holds(Documents[n], number)
  BY <1>1, <1>2, <1>3, LineInDocument
<1>5. number \in Nat
  BY <1>2
<1>6. QED
  BY <1>1, <1>4, <1>5, NodesAre, ObjectsOfDocument

\* Of a plain text, every document is split, and has a line that an object begins at.
LEMMA DocumentsBegun ==
  ASSUME ParserOK, ObjectsBegun, yaml.body, NEW n \in DOMAIN Documents
  PROVE  /\ HasEntry(Documents[n].lines)
         /\ BegunBy(Documents[n].lines, Documents[n].offset, ToSet(yaml.objects))
<1>1. CASE lines = <<>>
  BY <1>1 DEF Documents, ObjectsBegun
<1>2. CASE lines # <<>>
  <2> DEFINE doc == [offset |-> Offset, lines |-> lines]
  <2>1. Adds(Documents, docs, doc)
    BY <1>2 DEF Documents, Adds
  <2>2. doc.offset = Offset /\ doc.lines = lines
    OBVIOUS
  <2> HIDE DEF doc
  <2>3. /\ \A m \in DOMAIN docs : Documents[m] = docs[m]
        /\ Documents[Len(docs) + 1] = doc
        /\ \A m \in DOMAIN Documents : m \in DOMAIN docs \/ m = Len(docs) + 1
    BY <2>1, AppendLines DEF ParserOK, Consecutive
  <2>4. CASE n \in DOMAIN docs
    BY <2>3, <2>4 DEF ObjectsBegun
  <2>5. CASE n = Len(docs) + 1
    BY <2>2, <2>3, <2>5 DEF ObjectsBegun
  <2>6. QED
    BY <2>3, <2>4, <2>5
<1>3. QED
  BY <1>1, <1>2

\* A list is always split.
LEMMA ListsSplit ==
  ASSUME NEW doc, DocumentOK(doc), DocumentRooted(doc)
  PROVE  ~SplitFails(doc)
<1> SUFFICES ASSUME DocIsList(doc), NEW i \in Long(doc)
             PROVE  Prefix(doc.lines[i].path) # <<>>
  BY DEF SplitFails
<1>1. ListDocument(doc) /\ i \in DOMAIN doc.lines /\ IsLong(doc.lines[i])
  BY ListsAreLists, LongLines
<1>2. PICK n \in Nat : InElement(doc.lines[i], n)
  BY <1>1 DEF ListDocument, InOrder
<1>3. Prefix(doc.lines[i].path) = <<Root[1], Index(n)>>
  BY <1>1, <1>2, PrefixIs DEF ListDocument
<1>4. <<Root[1], Index(n)>> # <<>>
  OBVIOUS
<1>5. QED
  BY <1>3, <1>4

\* The objects of a plain text are those YAML has in it, in their order.
LEMMA ObjectsInStep ==
  ASSUME ParserOK, Known, Together, Rooted, ObjectsBegun, yaml.body
  PROVE  /\ ~Fails
         /\ Len(Nodes) = Len(yaml.objects)
         /\ \A n \in DOMAIN Nodes : DocumentOK(Nodes[n]) /\ Holds(Nodes[n], yaml.objects[n])
<1> DEFINE numbers == yaml.objects
<1>1. IsSequence(numbers) /\ Ascending(numbers) /\ \A x \in ToSet(numbers) : x \in 1..(Number - 1)
  BY DEF ObjectsBegun
<1>2. \A m \in DOMAIN Documents : /\ DocumentOK(Documents[m]) /\ DocumentRooted(Documents[m])
                                  /\ HasEntry(Documents[m].lines)
                                  /\ BegunBy(Documents[m].lines, Documents[m].offset, ToSet(numbers))
  BY DocumentsRooted, DocumentsBegun
<1>3. ~Fails
  BY <1>2, ListsSplit DEF Fails
<1>4. IsSequence(Nodes) /\ Ordered(Nodes)
  BY NodesAre, NodesOrdered
<1> HIDE DEF numbers
<1>5. ASSUME NEW n \in DOMAIN Nodes
      PROVE  /\ DocumentOK(Nodes[n])
             /\ \E k \in DOMAIN numbers :
                  Holds(Nodes[n], numbers[k]) /\ \A l \in DOMAIN numbers : Holds(Nodes[n], numbers[l]) => l = k
  <2>1. Nodes[n] \in ToSet(Nodes)
    BY DEF ToSet
  <2>2. PICK m \in DOMAIN Documents : Nodes[n] \in ToSet(NodesOf(Documents[m]))
    BY <2>1, NodesAre
  <2> DEFINE doc == Documents[m]
             node == Nodes[n]
  <2>3. /\ DocumentOK(doc) /\ DocumentRooted(doc) /\ HasEntry(doc.lines)
        /\ BegunBy(doc.lines, doc.offset, ToSet(numbers)) /\ node \in ToSet(NodesOf(doc))
    BY <1>2, <2>2
  <2> HIDE DEF doc, node
  <2>4. /\ DocumentOK(node)
        /\ \E k \in DOMAIN numbers :
             Holds(node, numbers[k]) /\ \A l \in DOMAIN numbers : Holds(node, numbers[l]) => l = k
    BY <1>1, <2>3, ObjectNumber, ObjectWithin
  <2>5. QED
    BY <2>4 DEF node
<1>6. ASSUME NEW k \in DOMAIN numbers
      PROVE  \E n \in DOMAIN Nodes : Holds(Nodes[n], numbers[k])
  <2>1. numbers[k] \in 1..(Number - 1)
    BY <1>1 DEF ToSet
  <2>2. \E node \in ToSet(Nodes) : Holds(node, numbers[k])
    BY <2>1, LineHeld
  <2>3. QED
    BY <2>2 DEF ToSet
<1>7. /\ Len(Nodes) = Len(numbers)
      /\ \A n \in DOMAIN Nodes : Holds(Nodes[n], numbers[n])
  <2> DEFINE nodes == Nodes
  <2>1. /\ IsSequence(nodes) /\ Ordered(nodes) /\ \A n \in DOMAIN nodes : DocumentOK(nodes[n])
        /\ \A n \in DOMAIN nodes : \E k \in DOMAIN numbers :
             Holds(nodes[n], numbers[k]) /\ \A l \in DOMAIN numbers : Holds(nodes[n], numbers[l]) => l = k
        /\ \A k \in DOMAIN numbers : \E n \in DOMAIN nodes : Holds(nodes[n], numbers[k])
    BY <1>4, <1>5, <1>6
  <2> HIDE DEF nodes
  <2>2. Len(nodes) = Len(numbers) /\ \A n \in DOMAIN nodes : Holds(nodes[n], numbers[n])
    BY <1>1, <2>1, InStep
  <2>3. QED
    BY <2>2 DEF nodes
<1>8. QED
  BY <1>3, <1>5, <1>7 DEF numbers

\* In a plain YAML text the nth simple object is the nth object.
THEOREM ObjectsAlwaysMatch == Spec => []ObjectsMatch
<1>1. IInv /\ Known /\ (Usual => Together /\ Rooted /\ ObjectsBegun) => ObjectsMatch
  <2> SUFFICES ASSUME ParserOK, Known, Together, Rooted, ObjectsBegun, yaml.body
               PROVE  /\ ~Fails
                      /\ Len(Nodes) = Len(yaml.objects)
                      /\ \A n \in DOMAIN Nodes : \E i \in DOMAIN Nodes[n].lines :
                           Nodes[n].lines[i].number = yaml.objects[n]
    BY DEF IInv, ObjectsMatch
  <2>1. /\ ~Fails /\ Len(Nodes) = Len(yaml.objects)
        /\ \A n \in DOMAIN Nodes : DocumentOK(Nodes[n]) /\ Holds(Nodes[n], yaml.objects[n])
    BY ObjectsInStep
  <2>2. ASSUME NEW n \in DOMAIN Nodes
        PROVE  \E i \in DOMAIN Nodes[n].lines : Nodes[n].lines[i].number = yaml.objects[n]
    <3> DEFINE node == Nodes[n]
               number == yaml.objects[n]
               i == number - node.offset
    <3>1. DocumentOK(node) /\ Holds(node, number)
      BY <2>1
    <3>2. number \in Nat
      <4>1. DOMAIN Nodes = DOMAIN yaml.objects
        BY <2>1, NodesAre, SequenceFacts DEF ObjectsBegun
      <4>2. QED
        BY <4>1 DEF ObjectsBegun, Ascending
    <3> HIDE DEF node, number
    <3>3. i \in DOMAIN node.lines
      BY <3>1, SequenceFacts DEF DocumentOK, Holds
    <3>4. node.lines[i].number = node.offset + i /\ node.offset \in Nat
      BY <3>1, <3>3 DEF DocumentOK, Numbered
    <3>5. node.lines[i].number = number
      BY <3>2, <3>4
    <3>6. QED
      BY <3>3, <3>5 DEF node, number
  <2>3. QED
    BY <2>1, <2>2
<1>2. QED
  BY <1>1, BegunInvariant, PTL

-----------------------------------------------------------------------------
(* Every list of an object has its elements from the first one on.          *)

\* The path begins with these steps.
BeginsWith(path, base) == Len(base) <= Len(path) /\ \A k \in 1..Len(base) : path[k] = base[k]

\* The list that has this step of the path has a first element, no later than line i.
FirstElementBy(some, i, path, m) ==
  \E j \in 1..i : /\ IsEntry(some[j]) /\ m <= Len(some[j].path)
                  /\ BeginsWith(some[j].path, Upto(path, m)) /\ some[j].path[m] = Index(0)

FromFirst(some) ==
  \A i \in DOMAIN some : IsEntry(some[i]) =>
    \A m \in 2..Len(some[i].path) : IsIndex(some[i].path[m]) => FirstElementBy(some, i, some[i].path, m)

\* The path of a line of an object that is open.
Around(base) ==
  base = Root \/ \E j \in DOMAIN lines : IsEntry(lines[j]) /\ BeginsWith(lines[j].path, base)

\* A list that is open has had an element.
ElementBefore(base) ==
  \E j \in DOMAIN lines : /\ IsEntry(lines[j]) /\ BeginsWith(lines[j].path, base)
                          /\ Len(lines[j].path) > Len(base) /\ IsIndex(lines[j].path[Len(base) + 1])

\* What is appended to a path begins with it.
LEMMA AppendBegins ==
  ASSUME NEW base, IsSequence(base), NEW path, IsSequence(path), NEW x,
         path = Append(base, x) \/ \E y : path = Append(Append(base, x), y)
  PROVE  BeginsWith(path, base) /\ Len(path) > Len(base) /\ path[Len(base) + 1] = x
<1>1. Len(base) \in Nat /\ DOMAIN base = 1..Len(base)
  BY SequenceFacts
<1>2. /\ IsSequence(Append(base, x)) /\ Len(Append(base, x)) = Len(base) + 1
      /\ DOMAIN Append(base, x) = 1..(Len(base) + 1)
      /\ \A i \in DOMAIN base : Append(base, x)[i] = base[i]
      /\ Append(base, x)[Len(base) + 1] = x
  BY AppendFacts
<1>3. CASE path = Append(base, x)
  <2> DEFINE q == Append(base, x)
  <2> HIDE DEF q
  <2>1. path = q
    BY <1>3 DEF q
  <2>2. BeginsWith(q, base) /\ Len(q) > Len(base) /\ q[Len(base) + 1] = x
    BY <1>1, <1>2 DEF q, BeginsWith
  <2>3. QED
    BY <2>1, <2>2
<1>4. ASSUME NEW y, path = Append(Append(base, x), y)
      PROVE  BeginsWith(path, base) /\ Len(path) > Len(base) /\ path[Len(base) + 1] = x
  <2> DEFINE q == Append(base, x)
             r == Append(q, y)
  <2>1. /\ Len(r) = Len(q) + 1 /\ \A i \in DOMAIN q : r[i] = q[i]
    <3> HIDE DEF q
    <3>1. IsSequence(q)
      BY <1>2 DEF q
    <3>2. QED
      BY <3>1, AppendFacts
  <2> HIDE DEF q, r
  <2>2. Len(q) = Len(base) + 1 /\ DOMAIN q = 1..(Len(base) + 1) /\ q[Len(base) + 1] = x
        /\ \A i \in DOMAIN base : q[i] = base[i]
    BY <1>2 DEF q
  <2>3. BeginsWith(r, base) /\ Len(r) > Len(base) /\ r[Len(base) + 1] = x
    BY <1>1, <2>1, <2>2 DEF BeginsWith
  <2>4. path = r
    BY <1>4 DEF q, r
  <2>5. QED
    BY <2>3, <2>4
<1>5. QED
  BY <1>3, <1>4

\* The frames that are open are around the line of their last key or element.
LEMMA FrameAround ==
  ASSUME ParserOK, Together, NEW a \in DOMAIN yaml.stack
  PROVE  /\ FrameOK(yaml.stack[a]) /\ IsSequence(yaml.stack[a].path)
         /\ Around(yaml.stack[a].path)
         /\ yaml.stack[a].kind = "list" => ElementBefore(yaml.stack[a].path)
<1> DEFINE f == yaml.stack[a]
           j == Nearest(lines, Under(f))
<1>1. FrameOK(f) /\ IsSequence(f.path)
  BY DEF Together, StackOK, FrameOK, PathOK
<1>2. j # 0 /\ Shows(lines[j], f)
  BY DEF Together, StackShown
<1> HIDE DEF f
<1>3. j \in DOMAIN lines /\ IsEntry(lines[j])
  <2>1. j \in 1..Len(lines) /\ Reaches(lines[j], Under(f))
    BY <1>2, NearestFound DEF ParserOK
  <2> HIDE DEF j
  <2>2. QED
    BY <2>1, SequenceFacts DEF ParserOK, Reaches
<1> HIDE DEF j
<1>4. IsSequence(lines[j].path)
  BY <1>3 DEF Together, LineAgrees, PathOK
<1>5. CASE f.kind = "map"
  <2>1. PICK n \in Nat : lines[j].path = Append(f.path, Key(n))
    BY <1>2, <1>5 DEF Shows
  <2>2. BeginsWith(lines[j].path, f.path)
    BY <1>1, <1>4, <2>1, AppendBegins
  <2>3. QED
    BY <1>1, <1>3, <1>5, <2>2 DEF Around, f
<1>6. CASE f.kind = "list"
  <2> DEFINE index == Index(f.count - 1)
             path == lines[j].path
  <2>1. path = Append(f.path, index) \/ \E n : path = Append(Append(f.path, index), n)
    <3>1. CountedPath(f) = Append(f.path, index)
      BY DEF CountedPath
    <3> HIDE DEF index
    <3>2. path = CountedPath(f) \/ \E n \in Nat : path = Append(CountedPath(f), Key(n))
      BY <1>2, <1>6 DEF Shows
    <3>3. QED
      BY <3>1, <3>2
  <2>2. IsIndex(index)
    BY StepKinds
  <2> HIDE DEF index, path
  <2>3. /\ BeginsWith(path, f.path) /\ Len(path) > Len(f.path)
        /\ path[Len(f.path) + 1] = index
    BY <1>1, <1>4, <2>1, AppendBegins DEF path
  <2>4. QED
    BY <1>1, <1>3, <2>2, <2>3 DEF Around, ElementBefore, f, path
<1>7. QED
  BY <1>1, <1>5, <1>6 DEF FrameOK, f

\* So is the key that has no value yet.
LEMMA OpenAround ==
  ASSUME ParserOK, Together, yaml.open.column # None
  PROVE  PathOK(yaml.open.path) /\ Around(yaml.open.path)
<1> DEFINE d == yaml.open.column
           j == Nearest(lines, d)
<1>1. d \in Nat /\ PathOK(yaml.open.path) /\ j # 0 /\ lines[j].path = yaml.open.path
  BY DEF Together, OpenOK
<1>2. j \in 1..Len(lines) /\ Reaches(lines[j], d)
  BY <1>1, NearestFound DEF ParserOK
<1> HIDE DEF j
<1>3. j \in DOMAIN lines /\ IsEntry(lines[j])
  BY <1>2, SequenceFacts DEF ParserOK, Reaches
<1>4. BeginsWith(lines[j].path, yaml.open.path)
  <2>1. Len(yaml.open.path) \in Nat
    BY <1>1, SequenceFacts DEF PathOK
  <2>2. QED
    BY <1>1, <2>1 DEF BeginsWith
<1>5. QED
  BY <1>1, <1>3, <1>4 DEF Around

\* The path of a line is that of what it is in, continued: by a key, by an element that is not
\* the first of its list, or by the first.
Continues(path, base) ==
  /\ PathOK(base) /\ Around(base)
  /\ \/ path = Append(base, Key(Number))
     \/ \E n \in Nat : /\ n = 0 \/ ElementBefore(base)
                       /\ \/ path = Append(base, Index(n))
                          \/ path = Append(Append(base, Index(n)), Key(Number))

\* The path of the mapping that a key goes to can be continued.
LEMMA MapContinues ==
  ASSUME ParserOK, Together, NEW column \in Nat, MapStack(column) # <<>>
  PROVE  LET base == Last(MapStack(column)).path IN PathOK(base) /\ Around(base)
<1> DEFINE kept == KeyFrames(column)
           f == Frame("map", column, yaml.open.path, 0)
<1>1. StackOK(yaml.stack) /\ IsSequence(yaml.stack)
  BY DEF Together, StackOK
<1>2. f.path = yaml.open.path /\ Frame("map", 0, Root, 0).path = Root
  BY FrameFields
<1>3. CASE TopIs(kept, "map", column) /\ MapStack(column) = kept
  <2>1. Outer(kept, yaml.stack) /\ kept # <<>>
    BY <1>1, <1>3, KeyFramesAre DEF TopIs
  <2> HIDE DEF kept
  <2>2. Len(kept) \in DOMAIN kept /\ Last(kept) = kept[Len(kept)]
    <3>1. Len(kept) \in Nat /\ DOMAIN kept = 1..Len(kept) /\ Len(kept) # 0
      BY <2>1, SequenceFacts DEF Outer
    <3>2. QED
      BY <3>1 DEF Last
  <2>3. Len(kept) \in DOMAIN yaml.stack /\ Last(kept) = yaml.stack[Len(kept)]
    BY <2>1, <2>2 DEF Outer
  <2>4. QED
    BY <1>3, <2>3, FrameAround DEF FrameOK
<1>4. CASE yaml.open.column \in 0..(column - 1) /\ MapStack(column) = Append(yaml.stack, f)
  <2> HIDE DEF f
  <2>1. Last(Append(yaml.stack, f)) = f
    BY <1>1, LastOfAppend
  <2>2. yaml.open.column # None
    BY <1>4 DEF None
  <2>3. QED
    BY <1>2, <1>4, <2>1, <2>2, OpenAround
<1>5. CASE MapStack(column) = <<Frame("map", 0, Root, 0)>>
  <2>1. Last(<<Frame("map", 0, Root, 0)>>) = Frame("map", 0, Root, 0)
    BY DEF Last
  <2>2. QED
    BY <1>2, <1>5, <2>1, RootOK DEF Around
<1>6. QED
  BY <1>3, <1>4, <1>5, MapStackCases

\* So can that of the list that an item goes to, by an element after the others.
LEMMA ListContinues ==
  ASSUME ParserOK, Together, NEW column \in Nat, ListStack(column) # <<>>
  PROVE  LET top == Last(ListStack(column)) IN
         /\ PathOK(top.path) /\ Around(top.path) /\ top.count - 1 \in Nat
         /\ top.count - 1 = 0 \/ ElementBefore(top.path)
<1> DEFINE kept == ItemFrames(column)
           below == Last(kept)
           f == Frame("list", column, yaml.open.path, 1)
           g == Frame("list", column, below.path, below.count + 1)
<1>1. StackOK(yaml.stack) /\ IsSequence(yaml.stack)
  BY DEF Together, StackOK
<1>2. /\ f.path = yaml.open.path /\ f.count = 1
      /\ g.path = below.path /\ g.count = below.count + 1
      /\ Frame("list", 0, Root, 1).path = Root /\ Frame("list", 0, Root, 1).count = 1
  BY FrameFields
<1>3. CASE TopIs(kept, "list", column) /\ ListStack(column) = Append(Front(kept), g)
  <2>1. Outer(kept, yaml.stack) /\ kept # <<>> /\ below.kind = "list"
    BY <1>1, <1>3, ItemFramesAre DEF TopIs
  <2> HIDE DEF kept
  <2>2. /\ Len(kept) \in DOMAIN kept /\ below = kept[Len(kept)]
        /\ IsSequence(Front(kept))
    <3>1. Len(kept) \in Nat /\ DOMAIN kept = 1..Len(kept) /\ Len(kept) # 0 /\ kept \in Seq(ToSet(kept))
      BY <2>1, SequenceFacts DEF Outer, IsSequence
    <3>2. Front(kept) \in Seq(ToSet(kept))
      BY <3>1 DEF Front
    <3>3. QED
      BY <3>1, <3>2, SequenceOfAny DEF Last
  <2>3. Len(kept) \in DOMAIN yaml.stack /\ below = yaml.stack[Len(kept)]
    BY <2>1, <2>2 DEF Outer
  <2> HIDE DEF below
  <2>4. FrameOK(below) /\ Around(below.path) /\ ElementBefore(below.path)
    BY <2>1, <2>3, FrameAround
  <2> HIDE DEF g
  <2>5. Last(Append(Front(kept), g)) = g
    BY <2>2, LastOfAppend
  <2>6. QED
    BY <1>2, <1>3, <2>1, <2>4, <2>5 DEF FrameOK
<1>4. CASE yaml.open.column \in 0..column /\ ListStack(column) = Append(yaml.stack, f)
  <2> HIDE DEF f
  <2>1. Last(Append(yaml.stack, f)) = f
    BY <1>1, LastOfAppend
  <2>2. yaml.open.column # None
    BY <1>4 DEF None
  <2>3. QED
    BY <1>2, <1>4, <2>1, <2>2, OpenAround
<1>5. CASE ListStack(column) = <<Frame("list", 0, Root, 1)>>
  <2>1. Last(<<Frame("list", 0, Root, 1)>>) = Frame("list", 0, Root, 1)
    BY DEF Last
  <2>2. QED
    BY <1>2, <1>5, <2>1, RootOK DEF Around
<1>6. QED
  BY <1>3, <1>4, <1>5, ListStackCases

\* So the path of a line is another one continued.
LEMMA EntryContinues ==
  ASSUME ParserOK, Together, NEW raw \in Raw, RefOf(raw) # <<>>
  PROVE  \E base : Continues(RefOf(raw), base)
<1> DEFINE column == raw.column
<1>1. ~IsContent(raw) /\ column \in Nat
  BY RawColumn DEF RefOf
<1>2. CASE raw.shape \in Mapping /\ MapStack(column) # <<>>
  <2> DEFINE base == Last(MapStack(column)).path
  <2>1. RefOf(raw) = Append(base, Key(Number))
    <3>1. Parsed(raw, RefOf(raw)).ref = Append(base, Key(Number))
      BY <1>1, <1>2, KeyLine
    <3>2. QED
      BY <3>1 DEF Parsed
  <2>2. PathOK(base) /\ Around(base)
    BY <1>1, <1>2, MapContinues
  <2> HIDE DEF base
  <2>3. QED
    BY <2>1, <2>2 DEF Continues
<1>3. CASE raw.shape \in Item \union {"value"} /\ ListStack(column) # <<>>
  <2> DEFINE top == Last(ListStack(column))
             base == top.path
             n == top.count - 1
  <2>1. LET element == Append(base, Index(n))
        IN RefOf(raw) = element \/ RefOf(raw) = Append(element, Key(Number))
    <3> DEFINE line == Parsed(raw, RefOf(raw))
    <3>1. CountedPath(top) = Append(base, Index(n))
      BY DEF CountedPath
    <3>2. line.ref = CountedPath(top) \/ line.ref = Append(CountedPath(top), Key(Number))
      BY <1>1, <1>3, ItemLine
    <3>3. line.ref = RefOf(raw)
      BY DEF Parsed
    <3> HIDE DEF line, base, n, top
    <3>4. QED
      BY <3>1, <3>2, <3>3
  <2>2. PathOK(base) /\ Around(base) /\ n \in Nat /\ (n = 0 \/ ElementBefore(base))
    BY <1>1, <1>3, ListContinues
  <2> HIDE DEF base, n
  <2>3. QED
    BY <2>1, <2>2 DEF Continues
<1>4. QED
  BY <1>2, <1>3 DEF RefOf

\* The path before a step is a beginning of others.
LEMMA BeginsUpto ==
  ASSUME NEW path, IsSequence(path), NEW m \in 1..Len(path), NEW other
  PROVE  BeginsWith(other, Upto(path, m)) <=>
           m - 1 <= Len(other) /\ \A k \in 1..(m - 1) : other[k] = path[k]
<1>1. Len(Upto(path, m)) = m - 1 /\ \A k \in 1..(m - 1) : Upto(path, m)[k] = path[k]
  BY UptoIs
<1>2. QED
  BY <1>1 DEF BeginsWith

\* A list that another line goes through has a first element.
LEMMA FirstElementOf ==
  ASSUME FromFirst(lines), NEW j \in DOMAIN lines, IsEntry(lines[j]), IsSequence(lines[j].path),
         NEW path, IsSequence(path), NEW m \in 2..Len(path), m <= Len(lines[j].path),
         IsIndex(lines[j].path[m]), \A k \in 1..(m - 1) : lines[j].path[k] = path[k]
  PROVE  FirstElementBy(lines, j, path, m)
<1>1. Len(path) \in Nat /\ Len(lines[j].path) \in Nat
  BY SequenceFacts
<1>2. m \in 1..Len(path) /\ m \in 1..Len(lines[j].path) /\ m \in 2..Len(lines[j].path)
  BY <1>1
<1>3. FirstElementBy(lines, j, lines[j].path, m)
  BY <1>2 DEF FromFirst
<1>4. PICK l \in 1..j : /\ IsEntry(lines[l]) /\ m <= Len(lines[l].path)
                        /\ BeginsWith(lines[l].path, Upto(lines[j].path, m))
                        /\ lines[l].path[m] = Index(0)
  BY <1>3 DEF FirstElementBy
<1>5. m - 1 <= Len(lines[l].path) /\ \A k \in 1..(m - 1) : lines[l].path[k] = lines[j].path[k]
  BY <1>2, <1>4, BeginsUpto
<1>6. BeginsWith(lines[l].path, Upto(path, m))
  <2>1. m - 1 <= Len(lines[l].path) /\ \A k \in 1..(m - 1) : lines[l].path[k] = path[k]
    BY <1>5
  <2> DEFINE other == lines[l].path
  <2> HIDE DEF other
  <2>2. QED
    BY <1>2, <2>1, BeginsUpto DEF other
<1>7. QED
  BY <1>4, <1>6 DEF FirstElementBy

\* So does a list that the new line goes through, if it is not itself the first.
LEMMA NewElement ==
  ASSUME ParserOK, Together, FromFirst(lines), NEW path, PathOK(path), NEW base, Continues(path, base),
         NEW m \in 2..Len(path), IsIndex(path[m])
  PROVE  path[m] = Index(0) \/ \E j \in DOMAIN lines : FirstElementBy(lines, j, path, m)
<1>1. IsSequence(path) /\ IsSequence(base) /\ PathOK(base) /\ Around(base)
  BY DEF Continues, PathOK
<1>2. Len(path) \in Nat /\ Len(base) \in Nat
  BY <1>1, SequenceFacts
<1>3. PICK step : /\ path = Append(base, step) \/ path = Append(Append(base, step), Key(Number))
                  /\ IsKey(step) \/ step = Index(0) \/ ElementBefore(base)
  <2>1. CASE path = Append(base, Key(Number))
    BY <2>1, StepKinds
  <2>2. ASSUME NEW n \in Nat, n = 0 \/ ElementBefore(base),
               path = Append(base, Index(n)) \/ path = Append(Append(base, Index(n)), Key(Number))
        PROVE  \E step : /\ path = Append(base, step) \/ path = Append(Append(base, step), Key(Number))
                         /\ IsKey(step) \/ step = Index(0) \/ ElementBefore(base)
    BY <2>2
  <2>3. QED
    BY <2>1, <2>2 DEF Continues
<1>4. BeginsWith(path, base) /\ Len(path) > Len(base) /\ path[Len(base) + 1] = step
  BY <1>1, <1>3, AppendBegins
<1>5. \A j \in DOMAIN lines : IsEntry(lines[j]) => IsSequence(lines[j].path) /\ Len(lines[j].path) \in Nat
  BY SequenceFacts DEF Together, LineAgrees, PathOK
<1>6. CASE m <= Len(base)
  <2>1. base # Root
    <3>1. ~(Len(Root) >= 2)
      BY DEF Root
    <3>2. Len(base) >= 2
      BY <1>2, <1>6
    <3>3. QED
      BY <3>1, <3>2, Zenon
  <2>2. PICK j \in DOMAIN lines : IsEntry(lines[j]) /\ BeginsWith(lines[j].path, base)
    BY <1>1, <2>1 DEF Around
  <2>3. /\ m <= Len(lines[j].path) /\ lines[j].path[m] = path[m]
        /\ \A k \in 1..(m - 1) : lines[j].path[k] = path[k]
    BY <1>2, <1>4, <1>5, <1>6, <2>2 DEF BeginsWith
  <2>4. QED
    BY <1>1, <1>5, <2>2, <2>3, FirstElementOf
<1>7. CASE m = Len(base) + 1
  <2>1. path[m] = step /\ ~IsKey(step)
    BY <1>4, <1>7 DEF IsKey, IsIndex
  <2>2. ASSUME ElementBefore(base)
        PROVE  \E j \in DOMAIN lines : FirstElementBy(lines, j, path, m)
    <3>1. PICK j \in DOMAIN lines : /\ IsEntry(lines[j]) /\ BeginsWith(lines[j].path, base)
                                    /\ Len(lines[j].path) > Len(base)
                                    /\ IsIndex(lines[j].path[Len(base) + 1])
      BY <2>2 DEF ElementBefore
    <3>2. /\ m <= Len(lines[j].path) /\ IsIndex(lines[j].path[m])
          /\ \A k \in 1..(m - 1) : lines[j].path[k] = path[k]
      BY <1>2, <1>4, <1>5, <1>7, <3>1 DEF BeginsWith
    <3>3. QED
      BY <1>1, <1>5, <3>1, <3>2, FirstElementOf
  <2>3. QED
    BY <1>3, <2>1, <2>2
<1>8. CASE m > Len(base) + 1
  <2> DEFINE q == Append(base, step)
  <2>1. IsSequence(q) /\ Len(q) = Len(base) + 1
    BY <1>1, AppendFacts
  <2> HIDE DEF q
  <2>2. path = q \/ path = Append(q, Key(Number))
    BY <1>3 DEF q
  <2>3. path = Append(q, Key(Number))
    BY <1>2, <1>8, <2>1, <2>2
  <2>4. Len(path) = Len(q) + 1 /\ path[Len(q) + 1] = Key(Number)
    BY <2>1, <2>3, AppendFacts
  <2>5. m = Len(q) + 1
    BY <1>2, <1>8, <2>1, <2>4
  <2>6. QED
    BY <2>4, <2>5, StepKinds
<1>9. QED
  BY <1>2, <1>6, <1>7, <1>8

\* A line without a path changes nothing of this.
LEMMA FromFirstKept ==
  ASSUME NEW some, IsSequence(some), FromFirst(some), NEW line, NEW more, Adds(more, some, line)
  PROVE  \A i \in DOMAIN some : IsEntry(more[i]) =>
           \A m \in 2..Len(more[i].path) : IsIndex(more[i].path[m]) => FirstElementBy(more, i, more[i].path, m)
<1> SUFFICES ASSUME NEW i \in DOMAIN some, IsEntry(more[i]), NEW m \in 2..Len(more[i].path),
                    IsIndex(more[i].path[m])
             PROVE  FirstElementBy(more, i, more[i].path, m)
  OBVIOUS
<1>1. \A j \in DOMAIN some : j \in DOMAIN more /\ more[j] = some[j]
  BY AppendLines
<1>2. DOMAIN some = 1..Len(some) /\ Len(some) \in Nat
  BY SequenceFacts
<1>3. FirstElementBy(some, i, some[i].path, m)
  BY <1>1 DEF FromFirst
<1>4. \A j \in 1..i : more[j] = some[j]
  BY <1>1, <1>2
<1>5. QED
  BY <1>1, <1>3, <1>4 DEF FirstElementBy

\* A line without a path changes nothing of that.
LEMMA FromFirstAside ==
  ASSUME NEW some, IsSequence(some), FromFirst(some), NEW line, ~IsEntry(line), NEW more, Adds(more, some, line)
  PROVE  FromFirst(more)
<1>1. more[Len(some) + 1] = line /\ \A i \in DOMAIN more : i \in DOMAIN some \/ i = Len(some) + 1
  BY AppendLines
<1>2. QED
  BY <1>1, FromFirstKept DEF FromFirst

\* Nor does a line with one.
LEMMA FromFirstEntry ==
  ASSUME ParserOK, Together, FromFirst(lines), NEW raw \in Raw, RefOf(raw) # <<>>,
         NEW more, Adds(more, lines, Parsed(raw, RefOf(raw)))
  PROVE  FromFirst(more)
<1> DEFINE line == Parsed(raw, RefOf(raw))
           path == line.path
           last == Len(lines) + 1
<1>1. IsEntry(line) /\ path = RefOf(raw) /\ PathOK(path)
  BY EntryLine DEF LineAgrees
<1>2. PICK base : Continues(path, base)
  BY <1>1, EntryContinues
<1> HIDE DEF line
<1>3. IsSequence(lines) /\ DOMAIN lines = 1..Len(lines) /\ Len(lines) \in Nat
  BY SequenceFacts DEF ParserOK
<1>4. /\ \A j \in DOMAIN lines : j \in DOMAIN more /\ more[j] = lines[j]
      /\ more[last] = line /\ \A i \in DOMAIN more : i \in DOMAIN lines \/ i = last
  BY <1>3, AppendLines DEF line
<1> HIDE DEF path
<1>5. ASSUME NEW m \in 2..Len(path), IsIndex(path[m])
      PROVE  FirstElementBy(more, last, path, m)
  <2>1. Len(path) \in Nat /\ IsSequence(path)
    BY <1>1, SequenceFacts DEF PathOK
  <2>2. CASE path[m] = Index(0)
    <3>1. BeginsWith(path, Upto(path, m))
      BY <2>1, BeginsUpto
    <3>2. last \in 1..last /\ more[last].path = path /\ IsEntry(more[last]) /\ m <= Len(path)
      BY <1>1, <1>3, <1>4, <2>1 DEF path
    <3>3. QED
      BY <2>2, <3>1, <3>2 DEF FirstElementBy
  <2>3. ASSUME NEW j \in DOMAIN lines, FirstElementBy(lines, j, path, m)
        PROVE  FirstElementBy(more, last, path, m)
    <3>1. \A l \in 1..j : l \in 1..last /\ more[l] = lines[l]
      BY <1>3, <1>4
    <3>2. QED
      BY <2>3, <3>1 DEF FirstElementBy
  <2>4. QED
    BY <1>1, <1>2, <1>5, <2>2, <2>3, NewElement
<1>6. ASSUME NEW i \in DOMAIN more, IsEntry(more[i]), NEW m \in 2..Len(more[i].path), IsIndex(more[i].path[m])
      PROVE  FirstElementBy(more, i, more[i].path, m)
  <2>1. CASE i \in DOMAIN lines
    <3>1. Adds(more, lines, line)
      BY DEF line
    <3>2. QED
      BY <1>3, <1>6, <2>1, <3>1, FromFirstKept
  <2>2. CASE i = last
    <3>1. more[i].path = path
      BY <1>4, <2>2 DEF path
    <3>2. QED
      BY <1>5, <1>6, <2>2, <3>1
  <2>3. QED
    BY <1>4, <2>1, <2>2
<1>7. QED
  BY <1>6 DEF FromFirst

\* Every step keeps the first elements.
LEMMA FromFirstNext ==
  ASSUME ParserOK, YamlOK, Usual => Together /\ FromFirst(lines), [Next]_vars
  PROVE  (Usual => FromFirst(lines))'
<1>1. CASE UNCHANGED vars
  BY <1>1 DEF vars, Usual, FromFirst, FirstElementBy
<1>2. ASSUME NEW raw \in Raw, ReadLine(raw), Usual'
      PROVE  FromFirst(lines')
  <2> DEFINE line == Parsed(raw, IF raw.shape = "separator" THEN <<>> ELSE RefOf(raw))
  <2>1. yaml' = YamlAfter(raw)
    BY <1>2 DEF ReadLine
  <2>2. Together /\ FromFirst(lines) /\ IsSequence(lines)
    BY <1>2, <2>1, YamlCases DEF ParserOK
  <2>3. scalar = yaml.scalar
    BY <2>2 DEF Together
  <2>4. line.type = TypeOf(raw)
    BY DEF Parsed
  <2>5. \/ raw.shape # "separator" /\ Adds(lines', lines, line)
        \/ raw.shape = "separator" /\ lines' = <<>>
    BY <1>2, LineRead
  <2>6. CASE raw.shape = "separator"
    <3>1. DOMAIN lines' = {}
      BY <2>5, <2>6
    <3>2. QED
      BY <3>1 DEF FromFirst
  <2>7. CASE raw.shape # "separator" /\ RefOf(raw) # <<>>
    <3>1. Adds(lines', lines, Parsed(raw, RefOf(raw)))
      BY <2>5, <2>7
    <3>2. QED
      BY <2>2, <2>7, <3>1, FromFirstEntry
  <2>8. ASSUME raw.shape # "separator", TypeOf(raw) \in {{"comment"}, {"empty"}, {"blockScalar"}}
        PROVE  FromFirst(lines')
    <3>1. ~IsEntry(line) /\ Adds(lines', lines, line)
      BY <2>4, <2>5, <2>8 DEF IsEntry
    <3> HIDE DEF line
    <3>2. QED
      BY <2>2, <3>1, FromFirstAside
  <2>9. CASE raw.shape \in {"empty", "comment"} /\ ~IsContent(raw)
    <3>1. ~InScalar(raw)
      BY <2>3, <2>9 DEF InScalar, IsContent
    <3>2. TypeOf(raw) = {raw.shape}
      BY <2>9, <3>1 DEF TypeOf, Mapping, Item
    <3>3. QED
      BY <2>8, <2>9, <3>2
  <2>10. CASE raw.shape \notin {"separator", "dashes"} /\ IsContent(raw) /\ raw.column >= yaml.scalar
    <3>1. InScalar(raw)
      BY <2>3, <2>10 DEF InScalar, IsContent
    <3>2. TypeOf(raw) = {"blockScalar"}
      BY <2>10, <3>1 DEF TypeOf
    <3>3. QED
      BY <2>8, <2>10, <3>2
  <2>11. QED
    BY <1>2, <2>1, <2>6, <2>7, <2>9, <2>10, YamlCases
<1>3. QED
  BY <1>1, <1>2 DEF Next, Usual

TreeInv ==
  IInv /\ Known /\ (Usual => Together /\ Rooted /\ ObjectsBegun /\ FromFirst(lines))

\* The invariants of the tree hold in every state.
LEMMA TreeInvariant == Spec => []TreeInv
<1>1. Init => (Usual => FromFirst(lines))
  <2>1. DOMAIN <<>> = {}
    OBVIOUS
  <2>2. QED
    BY <2>1 DEF Init, FromFirst
<1>2. IInv /\ (Usual => Together) /\ (Usual => FromFirst(lines)) /\ [Next]_vars => (Usual => FromFirst(lines))'
  BY FromFirstNext DEF IInv
<1>3. Spec => [](Usual => FromFirst(lines))
  BY <1>1, <1>2, AgreementInvariant, PTL DEF Spec
<1>4. QED
  BY <1>3, BegunInvariant, PTL DEF TreeInv

-----------------------------------------------------------------------------
(* The object read last, and the lines it is made of.                       *)

\* Sequences are the same if their elements are.
LEMMA SameSequence ==
  ASSUME NEW s, IsSequence(s), NEW t, IsSequence(t), Len(s) = Len(t), \A k \in 1..Len(s) : s[k] = t[k]
  PROVE  s = t
<1> DEFINE S == ToSet(s) \union ToSet(t)
<1>1. s \in Seq(S) /\ t \in Seq(S)
  BY SequenceOfMore
<1> HIDE DEF S
<1>2. QED
  BY <1>1, SeqEqual

\* The beginning of a path.
LEMMA FirstIs ==
  ASSUME NEW path, IsSequence(path), NEW n \in 0..Len(path)
  PROVE  /\ IsSequence(First(path, n)) /\ Len(First(path, n)) = n
         /\ \A k \in 1..n : First(path, n)[k] = path[k]
         /\ BeginsWith(path, First(path, n))
<1>1. Len(path) \in Nat
  BY SequenceFacts
<1>2. Outer(First(path, n), path) /\ Len(First(path, n)) = n /\ DOMAIN First(path, n) = 1..n
  BY SubSeqOuter DEF First
<1>3. IsSequence(First(path, n)) /\ \A k \in 1..n : First(path, n)[k] = path[k]
  BY <1>2 DEF Outer
<1>4. QED
  BY <1>1, <1>2, <1>3 DEF BeginsWith

\* What a path begins with is its beginning.
LEMMA BeginsFirst ==
  ASSUME NEW path, IsSequence(path), NEW base, IsSequence(base), BeginsWith(path, base)
  PROVE  base = First(path, Len(base)) /\ Len(base) \in 0..Len(path)
<1>1. Len(path) \in Nat /\ Len(base) \in Nat /\ Len(base) \in 0..Len(path)
  BY SequenceFacts DEF BeginsWith
<1> DEFINE first == First(path, Len(base))
<1>2. IsSequence(first) /\ Len(first) = Len(base) /\ \A k \in 1..Len(base) : first[k] = path[k]
  BY <1>1, FirstIs
<1> HIDE DEF first
<1>3. base = first
  BY <1>2, SameSequence DEF BeginsWith
<1>4. QED
  BY <1>1, <1>3 DEF first

\* IsPrefix, which takes the first steps of both paths, compares them one by one.
LEMMA PrefixMeans ==
  ASSUME NEW base, IsSequence(base), NEW path, IsSequence(path)
  PROVE  IsPrefix(base, path) <=> BeginsWith(path, base)
<1>1. Len(path) \in Nat /\ Len(base) \in Nat
  BY SequenceFacts
<1> DEFINE own == First(base, Len(base))
           first == First(path, Len(base))
<1>2. IsPrefix(base, path) <=> Len(base) <= Len(path) /\ own = first
  BY DEF IsPrefix, First
<1>3. IsSequence(own) /\ Len(own) = Len(base) /\ \A k \in 1..Len(base) : own[k] = base[k]
  BY <1>1, FirstIs
<1>4. own = base
  <2> HIDE DEF own
  <2>1. QED
    BY <1>3, SameSequence
<1>5. Len(base) <= Len(path) => \A k \in 1..Len(base) : first[k] = path[k]
  <2> SUFFICES ASSUME Len(base) <= Len(path) PROVE \A k \in 1..Len(base) : first[k] = path[k]
    OBVIOUS
  <2>1. Len(base) \in 0..Len(path)
    BY <1>1
  <2>2. QED
    BY <2>1, FirstIs
<1>6. BeginsWith(path, base) => base = first
  BY BeginsFirst
<1> HIDE DEF own, first
<1>7. ASSUME IsPrefix(base, path)
      PROVE  BeginsWith(path, base)
  <2>1. Len(base) <= Len(path) /\ base = first
    BY <1>2, <1>4, <1>7
  <2>2. QED
    BY <1>5, <2>1 DEF BeginsWith
<1>8. ASSUME BeginsWith(path, base)
      PROVE  IsPrefix(base, path)
  BY <1>2, <1>4, <1>6, <1>8 DEF BeginsWith
<1>9. QED
  BY <1>7, <1>8

\* A text whose last line is in an object.
InObject ==
  /\ IInv /\ Known /\ Together /\ Rooted /\ ObjectsBegun /\ FromFirst(lines)
  /\ lines # <<>> /\ Last(lines).ref # <<>>

\* The object read last has all lines from the one that it begins at.
LEMMA LastObject ==
  ASSUME InObject
  PROVE  /\ Last(yaml.objects) \in 1..(Number - 1) /\ Number \in Nat
         /\ Last(yaml.objects) \in ToSet(yaml.objects)
         /\ \A number \in Last(yaml.objects)..(Number - 1) : number \in LinesOf(Last(Nodes))
<1> DEFINE nodes == Nodes
           objects == yaml.objects
           k == Len(nodes)
           last == nodes[k]
<1>1. ParserOK /\ Known /\ Together /\ Rooted /\ ObjectsBegun /\ IsSequence(lines)
  BY DEF InObject, IInv, ParserOK
<1>2. Len(lines) \in DOMAIN lines /\ Last(lines) = lines[Len(lines)] /\ Len(lines) \in Nat /\ Len(lines) >= 1
  <2>1. Len(lines) \in Nat /\ Len(lines) # 0 /\ DOMAIN lines = 1..Len(lines)
    BY <1>1, SequenceFacts DEF InObject
  <2>2. QED
    BY <2>1 DEF Last
<1>3. yaml.body
  <2>1. IsEntry(lines[Len(lines)])
    BY <1>1, <1>2 DEF InObject, Together, LineAgrees
  <2>2. QED
    BY <1>1, <1>2, <2>1 DEF Together, BodyOK
<1>4. /\ Len(nodes) = Len(objects)
      /\ \A n \in DOMAIN nodes : DocumentOK(nodes[n]) /\ Holds(nodes[n], objects[n])
  BY <1>1, <1>3, ObjectsInStep
<1>5. IsSequence(nodes) /\ Ordered(nodes)
  BY <1>1, NodesAre, NodesOrdered
<1>6. Number \in Nat /\ Number >= 2
  BY <1>1, <1>2, OffsetIs
<1>7. PICK node \in ToSet(nodes) : Holds(node, Number - 1)
  <2>1. Number - 1 \in 1..(Number - 1)
    BY <1>6
  <2>2. QED
    BY <1>1, <2>1, LineHeld
<1>8. PICK a \in DOMAIN nodes : node = nodes[a]
  BY DEF ToSet
<1> HIDE DEF nodes
<1>9. k \in Nat /\ DOMAIN nodes = 1..k /\ a \in 1..k /\ k \in DOMAIN nodes
  BY <1>5, <1>8, SequenceFacts
<1>10. Last(objects) = objects[k] /\ Last(nodes) = last
  BY <1>4 DEF Last
<1>11. objects[k] \in 1..(Number - 1) /\ objects[k] \in ToSet(objects)
  <2>1. DOMAIN objects = 1..k
    BY <1>1, <1>4, SequenceFacts DEF ObjectsBegun
  <2>2. objects[k] \in ToSet(objects)
    BY <1>9, <2>1 DEF ToSet
  <2>3. QED
    BY <1>1, <2>2 DEF ObjectsBegun
<1>12. /\ last.offset \in Nat /\ Len(last.lines) \in Nat
       /\ node.offset \in Nat /\ Len(node.lines) \in Nat
       /\ Holds(last, objects[k])
  BY <1>4, <1>8, <1>9, SequenceFacts DEF DocumentOK
<1> HIDE DEF k
<1>13. Holds(last, Number - 1)
  <2>1. CASE a = k
    BY <1>7, <1>8, <2>1
  <2>2. CASE a # k
    <3>1. Before(node, last)
      <4>1. a < k
        BY <1>9, <2>2
      <4>2. QED
        BY <1>5, <1>8, <1>9, <4>1 DEF Ordered
    <3>2. QED
      BY <1>6, <1>7, <1>11, <1>12, <3>1 DEF Before, EndOfDocument, Holds
  <2>3. QED
    BY <2>1, <2>2
<1> HIDE DEF last, objects
<1>14. \A number \in objects[k]..(Number - 1) : number \in LinesOf(last)
  BY <1>6, <1>11, <1>12, <1>13 DEF Holds, LinesOf
<1>15. QED
  BY <1>6, <1>10, <1>11, <1>14 DEF nodes, objects

\* The lines of the object with a path.
LEMMA LineOfObject ==
  ASSUME InObject, NEW line, line \in ObjectLines
  PROVE  /\ \E i \in DOMAIN lines : line = lines[i] /\ line.number = Offset + i
         /\ IsEntry(line) /\ PathOK(line.ref) /\ line.path = line.ref
         /\ line.number \in Last(yaml.objects)..(Number - 1)
         /\ Early(line.ref, line.number)
<1>1. PICK i \in DOMAIN lines : line = lines[i] /\ line.ref # <<>> /\ line.number >= Last(yaml.objects)
  BY DEF ObjectLines
<1>2. ParserOK /\ Together /\ Known
  BY DEF InObject, IInv
<1>3. IsEntry(line) /\ PathOK(line.path) /\ line.path = line.ref
  BY <1>1, <1>2 DEF Together, LineAgrees
<1>4. /\ line.number = Offset + i /\ i \in 1..Len(lines) /\ Offset \in Nat /\ Len(lines) \in Nat
      /\ Number = Offset + Len(lines) + 1
  BY <1>1, <1>2, OffsetIs, SequenceFacts DEF ParserOK, Numbered
<1>5. Last(yaml.objects) \in Nat
  BY LastObject
<1>6. line.number \in Last(yaml.objects)..(Number - 1)
  BY <1>1, <1>4, <1>5
<1>7. Early(line.ref, line.number)
  BY <1>1, <1>2, <1>3 DEF Known
<1>8. QED
  BY <1>1, <1>3, <1>4, <1>6, <1>7

\* The last line is one of them.
LEMMA LastLine ==
  ASSUME InObject
  PROVE  Last(lines) \in ObjectLines
<1>1. ParserOK
  BY DEF InObject, IInv
<1>2. /\ Len(lines) \in DOMAIN lines /\ Len(lines) \in Nat /\ Last(lines) = lines[Len(lines)]
      /\ lines[Len(lines)].number = Offset + Len(lines)
      /\ Number = Offset + Len(lines) + 1 /\ Offset \in Nat
  <2>1. Len(lines) \in Nat /\ Len(lines) # 0 /\ DOMAIN lines = 1..Len(lines)
    BY <1>1, SequenceFacts DEF InObject, ParserOK
  <2>2. Len(lines) \in DOMAIN lines
    BY <2>1
  <2>3. QED
    BY <1>1, <2>1, <2>2, OffsetIs DEF Last, ParserOK, Numbered
<1>3. Last(yaml.objects) \in 1..(Number - 1)
  BY LastObject
<1>4. lines[Len(lines)].number >= Last(yaml.objects)
  BY <1>2, <1>3
<1>5. QED
  BY <1>2, <1>4 DEF ObjectLines, InObject

\* How many steps of a path lead to the object.
Shift(ref) == IF IsListPath(ref) THEN 2 ELSE 1

\* The path of a line within its object is its path behind the root, and behind the element.
LEMMA WithinIs ==
  ASSUME NEW line, PathOK(line.ref)
  PROVE  LET shift == Shift(line.ref) IN
         /\ IsSequence(Within(line)) /\ Len(Within(line)) = Len(line.ref) - shift
         /\ shift \in 1..Len(line.ref) /\ Len(line.ref) \in Nat
         /\ \A k \in 1..Len(Within(line)) :
              /\ Within(line)[k] = line.ref[k + shift]
              /\ k + shift \in 2..Len(line.ref)
<1> DEFINE ref == line.ref
           len == Len(ref)
           S == ToSet(ref)
           within == Within(line)
<1>1. IsSequence(ref) /\ len \in Nat /\ len >= 1 /\ DOMAIN ref = 1..len /\ ref \in Seq(S)
  BY SequenceFacts DEF PathOK, IsSequence
<1>2. \A k \in 1..len : ref[k] \in S
  BY <1>1 DEF ToSet
<1>3. CASE IsListPath(ref)
  <2>1. Shift(ref) = 2 /\ within = SubSeq(ref, 3, len)
    BY <1>3 DEF Shift, Within
  <2>2. len >= 2
    BY <1>1, <1>3 DEF IsListPath
  <2> HIDE DEF S, len
  <2> DEFINE sub == SubSeq(ref, 3, len)
  <2>3. /\ sub \in Seq(S) /\ Len(sub) = IF 3 <= len THEN len - 3 + 1 ELSE 0
        /\ \A k \in 1..(len - 3 + 1) : sub[k] = ref[3 + k - 1]
    BY <1>1, <1>2, SubSeqProperties
  <2> HIDE DEF sub
  <2>4. \A k \in 1..(len - 2) : k \in 1..(len - 3 + 1) /\ 3 + k - 1 = k + 2 /\ k + 2 \in 2..len
    BY <1>1
  <2>5. (IF 3 <= len THEN len - 3 + 1 ELSE 0) = len - 2
    BY <1>1, <2>2
  <2>6. IsSequence(sub)
    BY <2>3, SequenceOfAny
  <2>7. Len(sub) = len - 2 /\ \A k \in 1..(len - 2) : sub[k] = ref[k + 2] /\ k + 2 \in 2..len
    BY <2>3, <2>4, <2>5
  <2>8. QED
    BY <1>1, <2>1, <2>2, <2>6, <2>7 DEF sub, len
<1>4. CASE ~IsListPath(ref)
  <2>1. Shift(ref) = 1 /\ within = Tail(ref)
    BY <1>4 DEF Shift, Within
  <2> HIDE DEF S, len
  <2>2. ref # <<>>
    BY <1>1, EmptySeq DEF len
  <2>3. /\ Tail(ref) \in Seq(S) /\ Len(Tail(ref)) = len - 1
        /\ \A k \in 1..Len(Tail(ref)) : Tail(ref)[k] = ref[k + 1]
    BY <1>1, <2>2, HeadTailProperties DEF len
  <2>4. IsSequence(Tail(ref))
    BY <2>3, SequenceOfAny
  <2>5. \A k \in 1..(len - 1) : k + 1 \in 2..len
    BY <1>1
  <2>6. QED
    BY <1>1, <2>1, <2>3, <2>4, <2>5 DEF len
<1>5. QED
  BY <1>3, <1>4

\* The steps in an object are keys of its lines, and indexes, which do not begin it.
LEMMA StepsOfObject ==
  ASSUME InObject, NEW line, line \in ObjectLines
  PROVE  /\ IsSequence(Within(line))
         /\ \A k \in 1..Len(Within(line)) :
              IsKey(Within(line)[k]) \/ IsIndex(Within(line)[k])
         /\ Missing \notin ToSet(Within(line))
<1> DEFINE ref == line.ref
           within == Within(line)
           shift == Shift(ref)
<1>1. PathOK(ref) /\ Early(ref, line.number)
  BY LineOfObject
<1>2. /\ IsSequence(within)
      /\ \A k \in 1..Len(within) : within[k] = ref[k + shift] /\ k + shift \in 2..Len(ref)
  BY <1>1, WithinIs
<1>3. IsSequence(ref) /\ DOMAIN ref = 1..Len(ref) /\ Len(ref) \in Nat
  BY <1>1, SequenceFacts DEF PathOK
<1>4. DOMAIN within = 1..Len(within)
  BY <1>2, SequenceFacts
<1> HIDE DEF within, shift
<1>5. \A k \in 1..Len(within) : IsKey(within[k]) \/ IsIndex(within[k])
  BY <1>1, <1>2, StepKinds DEF PathOK
<1>6. ASSUME Missing \in ToSet(within)
      PROVE  FALSE
  <2>1. PICK k \in 1..Len(within) : Missing = within[k]
    BY <1>4, <1>6 DEF ToSet
  <2>2. k + shift \in DOMAIN ref /\ Key(0) = ref[k + shift]
    BY <1>2, <1>3, <2>1 DEF Missing
  <2>3. Key(0) \in ToSet(ref)
    BY <2>2 DEF ToSet
  <2>4. 0 \in 1..line.number
    BY <1>1, <2>3 DEF Early
  <2>5. QED
    BY <2>4
<1>7. QED
  BY <1>2, <1>5, <1>6 DEF within

\* A line before another of the object, in the same element if it is one of a list, is of the object.
LEMMA EarlierLine ==
  ASSUME InObject, NEW i \in DOMAIN lines, lines[i] \in ObjectLines, NEW j \in 1..i, IsEntry(lines[j]),
         IsListPath(lines[i].path) => lines[j].path[2] = lines[i].path[2]
  PROVE  lines[j] \in ObjectLines
<1> DEFINE first == Last(yaml.objects)
           b == first - Offset
<1>1. ParserOK /\ Together /\ Rooted /\ ObjectsBegun
  BY DEF InObject, IInv
<1>2. first \in Nat /\ first \in ToSet(yaml.objects)
  BY LastObject
<1>3. /\ DOMAIN lines = 1..Len(lines) /\ Len(lines) \in Nat /\ Offset \in Nat /\ i \in Nat /\ j \in Nat
      /\ j \in DOMAIN lines /\ IsSequence(lines)
      /\ \A k \in DOMAIN lines : lines[k].number = Offset + k
  <2>1. DOMAIN lines = 1..Len(lines) /\ Len(lines) \in Nat
    BY <1>1, SequenceFacts DEF ParserOK
  <2>2. QED
    BY <1>1, <2>1, OffsetIs DEF ParserOK, Numbered
<1>4. lines[j].ref # <<>> /\ IsEntry(lines[i])
  <2>1. LineAgrees(lines[j])
    BY <1>1, <1>3 DEF Together
  <2>2. Len(lines[j].ref) >= 1
    BY <1>3, <2>1 DEF LineAgrees, PathOK
  <2>3. QED
    BY <2>2, LineOfObject
<1>5. lines[i].number >= first
  BY <1>2, LineOfObject, LastObject
<1> HIDE DEF first
<1>6. SUFFICES ASSUME ~(lines[j].number >= first)
               PROVE  FALSE
  BY <1>3, <1>4 DEF ObjectLines, first
<1>7. b \in DOMAIN lines /\ j < b /\ j <= b /\ b <= i /\ Offset + b = first /\ b \in Nat /\ j \in 1..(b - 1)
  BY <1>2, <1>3, <1>5, <1>6
<1> HIDE DEF b
<1>8. Begins(lines, b)
  BY <1>1, <1>2, <1>7 DEF ObjectsBegun, BegunBy
<1>9. CASE ListLines(lines)
  <2>1. /\ IsListPath(lines[i].path) /\ IsListPath(lines[j].path)
        /\ InOrder(lines)
    BY <1>3, <1>4, <1>9 DEF ListLines
  <2>2. IsLong(lines[i]) /\ IsLong(lines[j])
    BY <2>1, ListPathLong
  <2>3. FirstAt(lines, b)
    BY <1>8, <1>9 DEF Begins
  <2>4. ElementOf(lines[i]) = ElementOf(lines[j])
    BY <2>1 DEF ElementOf
  <2>5. IsLong(lines[b]) /\ ElementOf(lines[j]) # ElementOf(lines[b])
    BY <1>7, <2>2, <2>3 DEF FirstAt
  <2>6. /\ ElementOf(lines[j]) \in Nat /\ ElementOf(lines[b]) \in Nat
        /\ ElementOf(lines[j]) <= ElementOf(lines[b])
    BY <1>3, <1>7, <2>1, <2>2, <2>5, ElementsAscend
  <2>7. ElementOf(lines[b]) <= ElementOf(lines[i])
    BY <1>3, <1>7, <2>1, <2>2, <2>5, ElementsAscend
  <2>8. QED
    BY <2>4, <2>5, <2>6, <2>7
<1>10. CASE ~ListLines(lines)
  BY <1>7, <1>8, <1>10 DEF Begins, FirstEntry
<1>11. QED
  BY <1>9, <1>10

\* A list in the object has its first element there, before any other.
LEMMA FirstInObject ==
  ASSUME InObject, NEW line, line \in ObjectLines, NEW path, IsSequence(path),
         BeginsWith(Within(line), path), Len(path) < Len(Within(line)),
         IsIndex(Within(line)[Len(path) + 1])
  PROVE  \E other \in ObjectLines :
           other.number <= line.number /\ BeginsWith(Within(other), Append(path, Index(0)))
<1> DEFINE ref == line.ref
           within == Within(line)
           shift == Shift(ref)
           len == Len(path)
           m == len + 1 + shift
<1>1. PICK i \in DOMAIN lines : line = lines[i] /\ line.number = Offset + i
  BY LineOfObject
<1>2. ParserOK /\ Together /\ FromFirst(lines)
  BY DEF InObject, IInv
<1>3. IsEntry(line) /\ PathOK(ref) /\ line.path = ref
  BY LineOfObject
<1>4. /\ IsSequence(within) /\ Len(within) = Len(ref) - shift
      /\ Len(ref) \in Nat /\ shift \in {1, 2}
      /\ \A k \in 1..Len(within) : within[k] = ref[k + shift] /\ k + shift \in 2..Len(ref)
  BY <1>3, WithinIs DEF Shift
<1>5. len \in Nat /\ \A k \in 1..len : within[k] = path[k]
  BY SequenceFacts DEF BeginsWith
<1> HIDE DEF within, shift, len
<1>6. len + 1 \in 1..Len(within)
  BY <1>4, <1>5 DEF within, len
<1>7. m \in 2..Len(ref) /\ ref[m] = within[len + 1] /\ IsIndex(ref[m])
  BY <1>4, <1>6 DEF within, len
<1>8. m \in Nat /\ m >= 3
  <2>1. CASE m # 2
    BY <1>4, <1>7, <2>1
  <2>2. CASE m = 2
    <3>1. Len(ref) > 1 /\ ref[1] = Root[1] /\ IsIndex(ref[2])
      BY <1>3, <1>4, <1>7, <2>2 DEF PathOK
    <3>2. shift = 2
      BY <3>1 DEF shift, Shift, IsListPath
    <3>3. QED
      BY <1>5, <2>2, <3>2
  <2>3. QED
    BY <2>1, <2>2
<1>9. PICK j \in 1..i : /\ IsEntry(lines[j]) /\ m <= Len(lines[j].path)
                        /\ BeginsWith(lines[j].path, Upto(ref, m)) /\ lines[j].path[m] = Index(0)
  <2>1. FirstElementBy(lines, i, ref, m)
    BY <1>1, <1>2, <1>3, <1>7 DEF FromFirst
  <2>2. QED
    BY <2>1 DEF FirstElementBy
<1>10. \A k \in 1..(m - 1) : lines[j].path[k] = ref[k]
  <2>1. m \in 1..Len(ref) /\ IsSequence(ref)
    BY <1>3, <1>7 DEF PathOK
  <2> DEFINE other == lines[j].path
  <2> HIDE DEF other, m
  <2>2. BeginsWith(other, Upto(ref, m))
    BY <1>9 DEF other
  <2>3. \A k \in 1..(m - 1) : other[k] = ref[k]
    BY <2>1, <2>2, BeginsUpto
  <2>4. QED
    BY <2>3 DEF other
<1>11. /\ j \in DOMAIN lines /\ Offset \in Nat /\ lines[j].number = Offset + j
       /\ lines[j].number <= line.number
  <2>1. DOMAIN lines = 1..Len(lines) /\ Len(lines) \in Nat
    BY <1>2, SequenceFacts DEF ParserOK
  <2>2. j \in DOMAIN lines /\ i \in Nat /\ j \in Nat /\ j <= i
    BY <2>1
  <2>3. QED
    BY <1>1, <1>2, <2>2, OffsetIs DEF ParserOK, Numbered
<1> DEFINE other == lines[j]
           rest == Within(other)
<1>12. PathOK(other.ref) /\ other.path = other.ref
  BY <1>2, <1>9, <1>11 DEF Together, LineAgrees
<1>13. other.ref[1] = ref[1] /\ other.ref[2] = ref[2]
  <2>1. 1 \in 1..(m - 1) /\ 2 \in 1..(m - 1)
    BY <1>8
  <2>2. QED
    BY <1>10, <1>12, <2>1
<1>14. other \in ObjectLines
  <2>1. IsEntry(lines[j]) /\ lines[j].path[2] = lines[i].path[2]
    BY <1>1, <1>3, <1>9, <1>12, <1>13
  <2>2. QED
    BY <1>1, <2>1, EarlierLine
<1>15. Shift(other.ref) = shift
  <2>1. Len(other.ref) > 1 /\ Len(ref) > 1
    <3>1. Len(other.ref) \in Nat
      BY <1>12, SequenceFacts DEF PathOK
    <3>2. QED
      BY <1>4, <1>7, <1>8, <1>9, <1>12, <3>1
  <2>2. QED
    BY <1>13, <2>1 DEF shift, Shift, IsListPath
<1>16. /\ IsSequence(rest) /\ Len(rest) = Len(other.ref) - shift /\ Len(other.ref) \in Nat
       /\ \A k \in 1..Len(rest) : rest[k] = other.ref[k + shift]
  BY <1>12, <1>15, WithinIs
<1> HIDE DEF rest, other
<1>17. len + 1 <= Len(rest) /\ rest[len + 1] = Index(0)
  <2>1. m <= Len(other.ref) /\ other.ref[m] = Index(0)
    BY <1>9, <1>12 DEF other
  <2>2. len + 1 <= Len(rest) /\ len + 1 \in 1..Len(rest)
    BY <1>4, <1>5, <1>16, <2>1
  <2>3. QED
    BY <1>16, <2>1, <2>2
<1>18. ASSUME NEW k \in 1..len
       PROVE  rest[k] = path[k]
  <2>1. k \in 1..Len(rest) /\ k \in 1..Len(within) /\ k + shift \in 1..(m - 1)
    BY <1>4, <1>5, <1>6, <1>16, <1>17
  <2>2. rest[k] = other.ref[k + shift] /\ within[k] = ref[k + shift] /\ within[k] = path[k]
    BY <1>4, <1>5, <1>16, <2>1
  <2>3. other.path[k + shift] = ref[k + shift]
    BY <1>10, <2>1 DEF other
  <2>4. QED
    BY <1>12, <2>2, <2>3
<1>19. BeginsWith(rest, Append(path, Index(0)))
  <2> DEFINE q == Append(path, Index(0))
             index == Index(0)
  <2>1. /\ Len(q) = len + 1 /\ q[len + 1] = Index(0)
        /\ \A k \in 1..len : q[k] = path[k]
    BY AppendFacts, SequenceFacts DEF len
  <2> HIDE DEF q, index
  <2>2. BeginsWith(rest, q)
    BY <1>5, <1>17, <1>18, <2>1 DEF BeginsWith, index
  <2>3. QED
    BY <2>2 DEF q
<1>20. QED
  BY <1>11, <1>14, <1>19 DEF rest, other

-----------------------------------------------------------------------------
(* The nodes of the tree, and the lines they are shown at.                  *)

\* The lines at or below a path, the steps below it, and what they make of it.
LinesAt(path) == {line \in ObjectLines : IsPrefix(path, Within(line))}

StepsBelow(path) == {Within(line)[Len(path) + 1] : line \in {l \in LinesAt(path) : Within(l) # path}}

TypeAt(path) ==
  CASE \E step \in StepsBelow(path) : IsKey(step) -> "mapping"
    [] StepsBelow(path) # {} /\ \A step \in StepsBelow(path) : ~IsKey(step) -> "sequence"
    [] StepsBelow(path) = {} /\ \E line \in LinesAt(path) : line.hasValue \/ "mapping" \notin line.type -> "scalar"
    [] OTHER -> "null"

\* The tree, with its parts named.
LEMMA TreeIs ==
  Tree = [path \in UNION {{First(Within(line), n) : n \in 0..Len(Within(line))} : line \in ObjectLines} |->
           [type |-> TypeAt(path), line |-> Min({line.number : line \in LinesAt(path)})]]
BY DEF Tree, TypeAt, StepsBelow, LinesAt

\* The nodes are what the paths of the lines begin with.
LEMMA NodesOfTree ==
  ASSUME InObject
  PROVE  /\ \A path \in DOMAIN Tree :
              IsSequence(path) /\ \E line \in ObjectLines : BeginsWith(Within(line), path)
         /\ \A path : IsSequence(path) /\ (\E line \in ObjectLines : BeginsWith(Within(line), path))
              => path \in DOMAIN Tree
         /\ \A path \in DOMAIN Tree :
              /\ Tree[path].type = TypeAt(path)
              /\ Tree[path].line = Min({line.number : line \in LinesAt(path)})
<1> DEFINE paths == UNION {{First(Within(line), n) : n \in 0..Len(Within(line))} : line \in ObjectLines}
<1>1. \A path : path \in paths <=> \E line \in ObjectLines : \E n \in 0..Len(Within(line)) : path = First(Within(line), n)
  OBVIOUS
<1> HIDE DEF paths
<1>2. /\ DOMAIN Tree = paths
      /\ \A path \in paths : Tree[path].type = TypeAt(path)
                             /\ Tree[path].line = Min({line.number : line \in LinesAt(path)})
  <2>1. Tree = [path \in paths |-> [type |-> TypeAt(path), line |-> Min({line.number : line \in LinesAt(path)})]]
    BY TreeIs DEF paths
  <2>2. QED
    BY <2>1
<1>3. \A line \in ObjectLines : IsSequence(Within(line))
  BY StepsOfObject
<1>4. ASSUME NEW path \in paths
      PROVE  IsSequence(path) /\ \E line \in ObjectLines : BeginsWith(Within(line), path)
  <2>1. PICK line \in ObjectLines : \E n \in 0..Len(Within(line)) : path = First(Within(line), n)
    BY <1>1
  <2>2. QED
    BY <1>3, <2>1, FirstIs
<1>5. ASSUME NEW path, IsSequence(path), NEW line \in ObjectLines, BeginsWith(Within(line), path)
      PROVE  path \in paths
  BY <1>1, <1>3, <1>5, BeginsFirst
<1>6. QED
  BY <1>2, <1>4, <1>5

\* A set of numbers has a least.
LEMMA MinOf ==
  ASSUME NEW T \in SUBSET Nat, T # {}
  PROVE  Min(T) \in T /\ \A n \in T : Min(T) <= n
BY LeastNumber DEF Min

\* The line of a node is the first of those at or below it.
LEMMA LineOfNode ==
  ASSUME InObject, NEW path, path \in DOMAIN Tree
  PROVE  \E line \in ObjectLines :
           /\ Tree[path].line = line.number /\ BeginsWith(Within(line), path)
           /\ \A other \in ObjectLines : BeginsWith(Within(other), path) => line.number <= other.number
<1> DEFINE T == {line.number : line \in LinesAt(path)}
<1>1. IsSequence(path) /\ Tree[path].line = Min(T)
  BY NodesOfTree
<1>2. PICK line \in ObjectLines : BeginsWith(Within(line), path)
  BY NodesOfTree
<1>3. \A l \in ObjectLines : IsSequence(Within(l)) /\ l.number \in Nat
  <2>1. Last(yaml.objects) \in Nat
    BY LastObject
  <2>2. QED
    BY <2>1, StepsOfObject, LineOfObject, LastObject
<1>4. \A l \in ObjectLines : l \in LinesAt(path) <=> BeginsWith(Within(l), path)
  BY <1>1, <1>3, PrefixMeans DEF LinesAt
<1>5. T \in SUBSET Nat
  BY <1>3 DEF LinesAt
<1>6. line.number \in T
  BY <1>2, <1>4
<1>7. Min(T) \in T /\ \A n \in T : Min(T) <= n
  <2> HIDE DEF T
  <2>1. QED
    BY <1>5, <1>6, MinOf
<1>8. PICK l \in LinesAt(path) : Min(T) = l.number
  BY <1>7
<1>9. \A other \in LinesAt(path) : l.number <= other.number
  BY <1>7, <1>8
<1>10. l \in ObjectLines
  BY DEF LinesAt
<1>11. QED
  BY <1>1, <1>4, <1>8, <1>9, <1>10

\* What is below a node, by its type.
LEMMA BelowNode ==
  ASSUME InObject, NEW path, path \in DOMAIN Tree, NEW line, line \in ObjectLines,
         BeginsWith(Within(line), path), Within(line) # path
  PROVE  /\ Len(path) < Len(Within(line)) /\ Len(path) \in Nat
         /\ Within(line)[Len(path) + 1] \in StepsBelow(path)
         /\ Tree[path].type # "scalar"
         /\ Tree[path].type = "sequence" => IsIndex(Within(line)[Len(path) + 1])
<1> DEFINE within == Within(line)
           step == within[Len(path) + 1]
<1>1. IsSequence(path) /\ Tree[path].type = TypeAt(path) /\ Len(path) \in Nat
  BY NodesOfTree, SequenceFacts
<1>2. IsSequence(within) /\ \A k \in 1..Len(within) : IsKey(within[k]) \/ IsIndex(within[k])
  BY StepsOfObject
<1> HIDE DEF within
<1>3. Len(path) < Len(within)
  <2>1. Len(within) \in Nat /\ Len(path) <= Len(within) /\ \A k \in 1..Len(path) : within[k] = path[k]
    BY <1>2, SequenceFacts DEF within, BeginsWith
  <2>2. Len(within) # Len(path)
    BY <1>1, <1>2, <2>1, SameSequence DEF within
  <2>3. QED
    BY <1>1, <2>1, <2>2
<1>4. Len(path) + 1 \in 1..Len(within)
  <2>1. Len(within) \in Nat
    BY <1>2, SequenceFacts
  <2>2. QED
    BY <1>1, <1>3, <2>1
<1>5. line \in LinesAt(path)
  BY <1>1, <1>2, PrefixMeans DEF within, LinesAt
<1>6. step \in StepsBelow(path)
  BY <1>5 DEF within, StepsBelow
<1>7. IsKey(step) \/ IsIndex(step)
  BY <1>2, <1>4
<1> HIDE DEF step
<1>8. IF IsKey(step) THEN TypeAt(path) = "mapping" ELSE TypeAt(path) \in {"mapping", "sequence"}
  <2>1. CASE \E other \in StepsBelow(path) : IsKey(other)
    BY <1>6, <1>7, <2>1 DEF TypeAt
  <2>2. CASE \A other \in StepsBelow(path) : ~IsKey(other)
    BY <1>6, <1>7, <2>2 DEF TypeAt
  <2>3. QED
    BY <2>1, <2>2
<1>9. QED
  BY <1>1, <1>3, <1>6, <1>7, <1>8 DEF within, step

\* A list has a first element.
LEMMA SequenceNode ==
  ASSUME InObject, NEW path, path \in DOMAIN Tree, Tree[path].type = "sequence"
  PROVE  Append(path, Index(0)) \in DOMAIN Tree
<1>1. IsSequence(path) /\ Tree[path].type = TypeAt(path)
  BY NodesOfTree
<1>2. StepsBelow(path) # {}
  BY <1>1 DEF TypeAt
<1>3. PICK line \in LinesAt(path) : Within(line) # path
  BY <1>2 DEF StepsBelow
<1>4. line \in ObjectLines /\ BeginsWith(Within(line), path)
  BY <1>1, StepsOfObject, PrefixMeans DEF LinesAt
<1>5. Len(path) < Len(Within(line)) /\ IsIndex(Within(line)[Len(path) + 1])
  BY <1>3, <1>4, BelowNode
<1>6. \E other \in ObjectLines : BeginsWith(Within(other), Append(path, Index(0)))
  BY <1>1, <1>4, <1>5, FirstInObject
<1>7. IsSequence(Append(path, Index(0)))
  BY <1>1, AppendFacts
<1>8. QED
  BY <1>6, <1>7, NodesOfTree

\* A node is shown at a line of the object that leads to it, the first if there are more.
LEMMA NodeShown ==
  ASSUME InObject, NEW path, path \in DOMAIN Tree
  PROVE  \E line \in ObjectLines :
           /\ NodeLine(Tree, path) = line.number /\ BeginsWith(Within(line), path)
           /\ \A other \in ObjectLines :
                BeginsWith(Within(other), path) /\ Within(other) # path => line.number <= other.number
           /\ Tree[path].type = "scalar" => Within(line) = path
<1>1. CASE Tree[path].type = "sequence"
  <2> DEFINE q == Append(path, Index(0))
  <2>1. NodeLine(Tree, path) = Tree[q].line
    BY <1>1 DEF NodeLine
  <2>2. q \in DOMAIN Tree
    BY <1>1, SequenceNode
  <2>3. IsSequence(path)
    BY NodesOfTree
  <2>4. \A l \in ObjectLines : IsSequence(Within(l)) /\ BeginsWith(Within(l), q) => BeginsWith(Within(l), path)
    <3> SUFFICES ASSUME NEW l, IsSequence(Within(l)), BeginsWith(Within(l), q)
                 PROVE  BeginsWith(Within(l), path)
      OBVIOUS
    <3> DEFINE within == Within(l)
    <3>1. /\ Len(q) = Len(path) + 1 /\ \A k \in DOMAIN path : q[k] = path[k]
          /\ Len(path) \in Nat /\ DOMAIN path = 1..Len(path) /\ Len(within) \in Nat
      BY <2>3, AppendFacts, SequenceFacts
    <3> HIDE DEF q, within
    <3>2. Len(q) <= Len(within) /\ \A k \in 1..Len(q) : within[k] = q[k]
      BY DEF BeginsWith, within
    <3>3. BeginsWith(within, path)
      BY <3>1, <3>2 DEF BeginsWith
    <3>4. QED
      BY <3>3 DEF within
  <2> HIDE DEF q
  <2>5. PICK line \in ObjectLines :
          /\ Tree[q].line = line.number /\ BeginsWith(Within(line), q)
          /\ \A other \in ObjectLines : BeginsWith(Within(other), q) => line.number <= other.number
    BY <2>2, LineOfNode
  <2>6. ASSUME NEW other, other \in ObjectLines, BeginsWith(Within(other), path), Within(other) # path
        PROVE  line.number <= other.number
    <3>1. Len(path) < Len(Within(other)) /\ IsIndex(Within(other)[Len(path) + 1])
      BY <1>1, <2>6, BelowNode
    <3>2. PICK l \in ObjectLines : l.number <= other.number /\ BeginsWith(Within(l), q)
      BY <2>3, <2>6, <3>1, FirstInObject DEF q
    <3>3. line.number <= l.number
      BY <2>5, <3>2
    <3>4. line.number \in Nat /\ l.number \in Nat /\ other.number \in Nat
      <4>1. Last(yaml.objects) \in Nat
        BY LastObject
      <4>2. QED
        BY <2>6, <4>1, LineOfObject, LastObject
    <3>5. QED
      BY <3>2, <3>3, <3>4
  <2>7. BeginsWith(Within(line), path)
    BY <2>4, <2>5, StepsOfObject
  <2>8. QED
    BY <1>1, <2>1, <2>5, <2>6, <2>7
<1>2. CASE Tree[path].type # "sequence"
  <2>1. NodeLine(Tree, path) = Tree[path].line
    BY <1>2 DEF NodeLine
  <2>2. PICK line \in ObjectLines :
          /\ Tree[path].line = line.number /\ BeginsWith(Within(line), path)
          /\ \A other \in ObjectLines : BeginsWith(Within(other), path) => line.number <= other.number
    BY LineOfNode
  <2>3. Tree[path].type = "scalar" => Within(line) = path
    BY <2>2, BelowNode
  <2>4. QED
    BY <2>1, <2>2, <2>3
<1>3. QED
  BY <1>1, <1>2

-----------------------------------------------------------------------------
(* The search in the tree.                                                  *)

\* What a node's path begins with is a node; so is the root.
LEMMA TreeClosed ==
  ASSUME InObject
  PROVE  /\ \A path \in DOMAIN Tree : \A n \in 0..Len(path) : First(path, n) \in DOMAIN Tree
         /\ <<>> \in DOMAIN Tree /\ \A path : IsSequence(path) /\ Len(path) = 0 => path = <<>>
<1>1. ASSUME NEW path, path \in DOMAIN Tree, NEW n \in 0..Len(path)
      PROVE  First(path, n) \in DOMAIN Tree
  <2> DEFINE first == First(path, n)
  <2>1. IsSequence(path)
    BY <1>1, NodesOfTree
  <2>2. PICK line \in ObjectLines : BeginsWith(Within(line), path)
    BY <1>1, NodesOfTree
  <2>3. IsSequence(first) /\ Len(first) = n /\ \A k \in 1..n : first[k] = path[k]
    BY <2>1, FirstIs
  <2> HIDE DEF first
  <2> DEFINE within == Within(line)
  <2>4. Len(within) \in Nat /\ Len(path) \in Nat
    BY <2>1, <2>2, StepsOfObject, SequenceFacts
  <2> HIDE DEF within
  <2>5. Len(path) <= Len(within) /\ \A k \in 1..Len(path) : within[k] = path[k]
    BY <2>2 DEF BeginsWith, within
  <2>6. BeginsWith(within, first)
    BY <2>3, <2>4, <2>5 DEF BeginsWith
  <2>7. BeginsWith(Within(line), first)
    BY <2>6 DEF within
  <2>8. QED
    BY <2>2, <2>3, <2>7, NodesOfTree DEF first
<1>2. \A path : IsSequence(path) /\ Len(path) = 0 => path = <<>>
  BY SequenceFacts
<1>3. <<>> \in DOMAIN Tree
  <2> DEFINE root == <<>>
             line == Last(lines)
             within == Within(line)
  <2>1. line \in ObjectLines
    BY LastLine
  <2>2. IsSequence(root) /\ Len(root) = 0
    BY NoElement, SequenceFacts
  <2>3. Len(within) \in Nat
    BY <2>1, StepsOfObject, SequenceFacts
  <2> HIDE DEF root, within
  <2>4. BeginsWith(within, root)
    BY <2>2, <2>3 DEF BeginsWith
  <2> HIDE DEF line
  <2>5. QED
    BY <2>1, <2>2, <2>4, NodesOfTree DEF root, within
<1>4. QED
  BY <1>1, <1>2, <1>3

\* The search finds a node if all of the path is there.
LEMMA FilterFinds ==
  ASSUME InObject, NEW path, IsSequence(path)
  PROVE  Filter(Tree, path) = "node" <=> path \in DOMAIN Tree
<1> DEFINE missing == {n \in DOMAIN path : First(path, n) \notin DOMAIN Tree}
<1>1. DOMAIN path = 1..Len(path) /\ Len(path) \in Nat
  BY SequenceFacts
<1>2. Filter(Tree, path) = "node" <=> missing = {}
  BY DEF Filter
<1>3. path = First(path, Len(path))
  <2>1. BeginsWith(path, path)
    BY <1>1 DEF BeginsWith
  <2>2. QED
    BY <2>1, BeginsFirst
<1>4. ASSUME path \in DOMAIN Tree
      PROVE  missing = {}
  <2>1. \A n \in DOMAIN path : n \in 0..Len(path)
    BY <1>1
  <2>2. QED
    BY <1>4, <2>1, TreeClosed
<1>5. ASSUME missing = {}
      PROVE  path \in DOMAIN Tree
  <2>1. CASE Len(path) = 0
    BY <2>1, TreeClosed
  <2>2. CASE Len(path) # 0
    <3>1. Len(path) \in DOMAIN path
      BY <1>1, <2>2
    <3>2. First(path, Len(path)) \in DOMAIN Tree
      BY <1>5, <3>1
    <3>3. QED
      BY <1>3, <3>2, Zenon
  <2>3. QED
    BY <2>1, <2>2
<1>6. QED
  BY <1>2, <1>4, <1>5

\* What FilterNode finds is a node that leads to the path.
LEMMA FilterNodeIs ==
  ASSUME InObject, NEW path, IsSequence(path)
  PROVE  FilterNode(Tree, path).found => FilterNode(Tree, path).path \in DOMAIN Tree
<1> DEFINE T == {m \in 0..Len(path) : Filter(Tree, First(path, m)) # "nil"}
           n == Max(T)
<1>1. Len(path) \in Nat
  BY SequenceFacts
<1>2. 0 \in T /\ T \subseteq 0..Len(path)
  <2>1. 0 \in 0..Len(path)
    BY <1>1
  <2>2. IsSequence(First(path, 0)) /\ Len(First(path, 0)) = 0
    BY <2>1, FirstIs
  <2>3. First(path, 0) \in DOMAIN Tree
    BY <2>2, TreeClosed
  <2>4. Filter(Tree, First(path, 0)) = "node"
    BY <2>2, <2>3, FilterFinds
  <2>5. QED
    BY <2>1, <2>4
<1>3. n \in T
  <2> HIDE DEF T
  <2>1. QED
    BY <1>1, <1>2, MaxOf
<1>4. /\ FilterNode(Tree, path).found = (Filter(Tree, First(path, n)) = "node")
      /\ FilterNode(Tree, path).path = First(path, n)
  BY DEF FilterNode
<1> HIDE DEF n
<1>5. IsSequence(First(path, n))
  BY <1>3, FirstIs
<1>6. QED
  BY <1>4, <1>5, FilterFinds

\* The greatest of some numbers.
LEMMA MaxIs ==
  ASSUME NEW T, NEW b \in Nat, T \subseteq 0..b, NEW n \in T, \A m \in T : m <= n
  PROVE  Max(T) = n
<1> DEFINE top == Max(T)
<1>1. top \in T /\ \A m \in T : m <= top
  BY MaxOf
<1> HIDE DEF top
<1>2. top <= n /\ n <= top
  BY <1>1
<1>3. top \in 0..b /\ n \in 0..b
  BY <1>1
<1>4. top = n
  BY <1>2, <1>3
<1>5. QED
  BY <1>4 DEF top

\* The search for a node ends there.
LEMMA FilterNodeThere ==
  ASSUME InObject, NEW path, IsSequence(path), NEW n \in 0..Len(path), First(path, n) \in DOMAIN Tree,
         \A m \in 0..Len(path) : m > n => Filter(Tree, First(path, m)) = "nil"
  PROVE  FilterNode(Tree, path).found /\ FilterNode(Tree, path).path = First(path, n)
<1> DEFINE T == {m \in 0..Len(path) : Filter(Tree, First(path, m)) # "nil"}
<1>1. Len(path) \in Nat
  BY SequenceFacts
<1>2. Filter(Tree, First(path, n)) = "node"
  BY FirstIs, FilterFinds
<1>3. n \in T /\ T \subseteq 0..Len(path)
  BY <1>2
<1>4. \A m \in T : m <= n
  BY <1>1
<1>5. Max(T) = n
  <2> HIDE DEF T
  <2>1. QED
    BY <1>1, <1>3, <1>4, MaxIs
<1>6. /\ FilterNode(Tree, path).found = (Filter(Tree, First(path, Max(T))) = "node")
      /\ FilterNode(Tree, path).path = First(path, Max(T))
  BY DEF FilterNode
<1>7. QED
  BY <1>2, <1>5, <1>6

\* No node has the key that is missing in its path.
LEMMA MissingNode ==
  ASSUME InObject, NEW path, IsSequence(path), NEW k \in 1..Len(path), path[k] = Missing
  PROVE  path \notin DOMAIN Tree
<1> SUFFICES ASSUME path \in DOMAIN Tree PROVE FALSE
  OBVIOUS
<1>1. PICK line \in ObjectLines : BeginsWith(Within(line), path)
  BY NodesOfTree
<1> DEFINE within == Within(line)
<1>2. IsSequence(within) /\ Missing \notin ToSet(within)
  BY <1>1, StepsOfObject
<1> HIDE DEF within
<1>3. DOMAIN within = 1..Len(within) /\ Len(within) \in Nat /\ Len(path) \in Nat
  BY <1>2, SequenceFacts
<1>4. Len(path) <= Len(within) /\ within[k] = path[k]
  BY <1>1 DEF BeginsWith, within
<1>5. k \in DOMAIN within /\ within[k] = Missing
  BY <1>3, <1>4
<1>6. QED
  BY <1>2, <1>5 DEF ToSet

\* An error is of a node, or of a key that is missing in one, or of what is below that.
LEMMA ErrorShape ==
  ASSUME InObject, NEW error, error \in ErrorPaths(Tree)
  PROVE  /\ IsSequence(error)
         /\ error \in DOMAIN Tree \/
              \E path \in DOMAIN Tree :
                /\ Tree[path].type \in {"mapping", "null"} /\ IsSequence(path)
                /\ BeginsWith(error, path) /\ Len(path) < Len(error)
                /\ error[Len(path) + 1] = Missing
<1>1. CASE error \in DOMAIN Tree
  BY <1>1, NodesOfTree
<1>2. ASSUME NEW path \in DOMAIN Tree, Tree[path].type \in {"mapping", "null"},
             error \in {Append(path, Missing), path \o <<Missing, Missing>>}
      PROVE  /\ IsSequence(error) /\ IsSequence(path)
             /\ BeginsWith(error, path) /\ Len(path) < Len(error)
             /\ error[Len(path) + 1] = Missing
  <2> DEFINE key == Missing
             one == Append(path, key)
             two == Append(one, key)
  <2> HIDE DEF key
  <2>1. IsSequence(path)
    BY NodesOfTree
  <2>2. IsSequence(one) /\ IsSequence(two)
    BY <2>1, AppendFacts
  <2>3. path \o <<key, key>> = two
    <3>1. <<key, key>> = <<key>> \o <<key>>
      <4>1. IsSequence(<<key>>)
        BY OneElement
      <4>2. <<key>> \o <<key>> = Append(<<key>>, key)
        BY <4>1, ConcatOne
      <4>3. QED
        BY <4>2, AppendTwo
    <3> DEFINE S == ToSet(path) \union {key}
    <3>2. path \in Seq(S) /\ <<key>> \in Seq(S)
      BY <2>1, OneElement, SequenceOfMore
    <3> HIDE DEF S
    <3>3. path \o (<<key>> \o <<key>>) = (path \o <<key>>) \o <<key>>
      BY <3>2, ConcatAssociative
    <3>4. path \o <<key>> = one
      BY <2>1, ConcatOne
    <3> HIDE DEF one
    <3>5. one \o <<key>> = two
      BY <2>2, ConcatOne
    <3>6. QED
      BY <3>1, <3>3, <3>4, <3>5, Zenon
  <2>4. error = one \/ error = two
    BY <1>2, <2>3 DEF key
  <2>5. IsSequence(error)
    BY <2>2, <2>4
  <2>6. error = Append(path, key) \/ \E y : error = Append(Append(path, key), y)
    BY <2>4
  <2>7. BeginsWith(error, path) /\ Len(error) > Len(path) /\ error[Len(path) + 1] = key
    BY <2>1, <2>5, <2>6, AppendBegins
  <2>8. Len(path) \in Nat /\ Len(error) \in Nat
    BY <2>1, <2>5, SequenceFacts
  <2>9. QED
    BY <2>1, <2>5, <2>7, <2>8 DEF key
<1>3. error \in DOMAIN Tree \/
        \E path \in DOMAIN Tree :
          /\ Tree[path].type \in {"mapping", "null"}
          /\ error \in {Append(path, Missing), path \o <<Missing, Missing>>}
  BY DEF ErrorPaths
<1>4. QED
  BY <1>1, <1>2, <1>3

\* The search for an error ends at the closest node around it.
LEMMA ErrorPlaced ==
  ASSUME InObject, NEW error, error \in ErrorPaths(Tree)
  PROVE  LET closest == First(error, Max({n \in 0..Len(error) : First(error, n) \in DOMAIN Tree})) IN
         /\ closest \in DOMAIN Tree
         /\ closest = error \/ Tree[closest].type # "null" =>
              FilterNode(Tree, error).found /\ FilterNode(Tree, error).path = closest
<1> DEFINE T == {n \in 0..Len(error) : First(error, n) \in DOMAIN Tree}
<1>1. IsSequence(error) /\ Len(error) \in Nat
  BY ErrorShape, SequenceFacts
<1>2. CASE error \in DOMAIN Tree
  <2>1. Len(error) \in T /\ T \subseteq 0..Len(error) /\ \A n \in T : n <= Len(error)
    BY <1>1, <1>2, TreeClosed
  <2>2. Max(T) = Len(error)
    <3> HIDE DEF T
    <3>1. QED
      BY <1>1, <2>1, MaxIs
  <2>3. First(error, Len(error)) \in DOMAIN Tree /\ Len(error) \in 0..Len(error)
    BY <2>1
  <2>4. \A m \in 0..Len(error) : ~(m > Len(error))
    BY <1>1
  <2>5. FilterNode(Tree, error).found /\ FilterNode(Tree, error).path = First(error, Len(error))
    BY <1>1, <2>3, <2>4, FilterNodeThere
  <2>6. QED
    BY <2>2, <2>3, <2>5
<1>3. CASE error \notin DOMAIN Tree
  <2>1. PICK path \in DOMAIN Tree :
          /\ Tree[path].type \in {"mapping", "null"} /\ IsSequence(path)
          /\ BeginsWith(error, path) /\ Len(path) < Len(error)
          /\ error[Len(path) + 1] = Missing
    BY <1>3, ErrorShape
  <2> DEFINE len == Len(path)
  <2>2. path = First(error, len) /\ len \in 0..Len(error) /\ len \in Nat
    BY <1>1, <2>1, BeginsFirst, SequenceFacts
  <2> HIDE DEF len
  <2>3. ASSUME NEW n \in 0..Len(error), n > len
        PROVE  First(error, n) \notin DOMAIN Tree
    <3> DEFINE first == First(error, n)
    <3>1. IsSequence(first) /\ Len(first) = n /\ \A k \in 1..n : first[k] = error[k]
      BY <1>1, FirstIs
    <3> HIDE DEF first
    <3>2. len + 1 \in 1..Len(first) /\ first[len + 1] = Missing
      BY <2>1, <2>2, <2>3, <3>1 DEF len
    <3>3. first \notin DOMAIN Tree
      BY <3>1, <3>2, MissingNode
    <3>4. QED
      BY <3>3 DEF first
  <2>4. /\ len \in T /\ T \subseteq 0..Len(error) /\ \A n \in T : n <= len
    BY <2>2, <2>3
  <2>5. Max(T) = len
    <3> HIDE DEF T
    <3>1. QED
      BY <1>1, <2>4, MaxIs
  <2>6. ASSUME Tree[path].type = "mapping", NEW m \in 0..Len(error), m > len
        PROVE  Filter(Tree, First(error, m)) = "nil"
    <3> DEFINE first == First(error, m)
               missing == {n \in DOMAIN first : First(first, n) \notin DOMAIN Tree}
    <3>1. IsSequence(first) /\ Len(first) = m /\ \A k \in 1..m : first[k] = error[k]
      BY <1>1, FirstIs
    <3>2. \A n \in 0..m : First(first, n) = First(error, n)
      <4> SUFFICES ASSUME NEW n \in 0..m PROVE First(first, n) = First(error, n)
        OBVIOUS
      <4> DEFINE a == First(first, n)
                 b == First(error, n)
      <4>1. n \in 0..Len(error) /\ n \in 0..Len(first)
        BY <1>1, <3>1
      <4>2. IsSequence(b) /\ Len(b) = n /\ \A k \in 1..n : b[k] = error[k]
        BY <1>1, <4>1, FirstIs
      <4> HIDE DEF b, first
      <4>3. IsSequence(a) /\ Len(a) = n /\ \A k \in 1..n : a[k] = first[k]
        BY <3>1, <4>1, FirstIs
      <4> HIDE DEF a
      <4>4. \A k \in 1..n : a[k] = b[k]
        BY <3>1, <4>1, <4>2, <4>3
      <4>5. a = b
        BY <4>2, <4>3, <4>4, SameSequence
      <4>6. QED
        BY <4>5 DEF a, b
    <3>3. DOMAIN first = 1..m /\ m \in Nat
      BY <3>1, SequenceFacts
    <3>4. \A n \in 1..m : n \in missing <=> n > len
      <4> SUFFICES ASSUME NEW n \in 1..m PROVE n \in missing <=> n > len
        OBVIOUS
      <4>1. n \in 0..m /\ n \in 0..Len(error) /\ n \in Nat
        BY <1>1
      <4>2. n > len => First(error, n) \notin DOMAIN Tree
        BY <2>3, <4>1
      <4>3. ~(n > len) => First(error, n) \in DOMAIN Tree
        <5> SUFFICES ASSUME ~(n > len) PROVE First(error, n) \in DOMAIN Tree
          OBVIOUS
        <5> DEFINE a == First(path, n)
                   b == First(error, n)
        <5>1. n \in 0..Len(path)
          BY <2>2, <4>1 DEF len
        <5>2. IsSequence(a) /\ Len(a) = n /\ \A k \in 1..n : a[k] = path[k]
          BY <2>1, <5>1, FirstIs
        <5>3. IsSequence(b) /\ Len(b) = n /\ \A k \in 1..n : b[k] = error[k]
          BY <1>1, <4>1, FirstIs
        <5>4. a \in DOMAIN Tree
          BY <5>1, TreeClosed
        <5> HIDE DEF a, b
        <5>5. \A k \in 1..n : error[k] = path[k]
          BY <2>1, <2>2, <5>1 DEF BeginsWith, len
        <5>6. a = b
          BY <5>2, <5>3, <5>5, SameSequence
        <5>7. QED
          BY <5>4, <5>6 DEF b
      <4>4. First(first, n) = First(error, n)
        BY <3>2, <4>1
      <4>5. n \in DOMAIN first
        BY <3>3
      <4> HIDE DEF first
      <4>6. QED
        BY <4>2, <4>3, <4>4, <4>5
    <3>5. \A n \in missing : n \in 1..m
      BY <3>3
    <3>6. len + 1 \in missing /\ len + 1 \in 1..m
      BY <2>2, <2>6, <3>3, <3>4
    <3>7. Min(missing) = len + 1
      <4> DEFINE min == Min(missing)
      <4> HIDE DEF missing
      <4>1. missing \in SUBSET Nat
        BY <3>3, <3>5
      <4>2. min \in missing /\ \A n \in missing : min <= n
        BY <3>6, <4>1, MinOf
      <4> HIDE DEF min
      <4>3. min \in 1..m /\ min > len /\ min <= len + 1
        BY <3>4, <3>5, <3>6, <4>2
      <4>4. min = len + 1
        BY <2>2, <4>3
      <4>5. QED
        BY <4>4 DEF min
    <3>8. first[len + 1] = Missing /\ IsKey(Missing)
      BY <2>1, <3>1, <3>6, StepKinds DEF Missing, len
    <3>9. First(first, len) = path
      <4>1. len \in 0..m
        BY <2>2, <2>6, <3>3
      <4>2. QED
        BY <2>2, <3>2, <4>1
    <3>10. (len + 1) - 1 = len
      BY <2>2
    <3> DEFINE at == Min(missing)
    <3>11. missing # {} /\ IsKey(first[at]) /\ Tree[First(first, at - 1)].type = "mapping"
      BY <2>6, <3>6, <3>7, <3>8, <3>9, <3>10
    <3> HIDE DEF at
    <3>12. Filter(Tree, first) =
             CASE missing = {} -> "node"
               [] missing # {} /\ IsKey(first[at]) /\ Tree[First(first, at - 1)].type = "mapping" -> "nil"
               [] OTHER -> "error"
      BY DEF Filter, at
    <3> HIDE DEF missing, first
    <3>13. Filter(Tree, first) = "nil"
      BY <3>11, <3>12
    <3>14. QED
      BY <3>13 DEF first
  <2>7. First(error, len) \in DOMAIN Tree
    BY <2>2
  <2>8. Tree[path].type = "mapping" =>
          FilterNode(Tree, error).found /\ FilterNode(Tree, error).path = First(error, len)
    <3> SUFFICES ASSUME Tree[path].type = "mapping"
                 PROVE  FilterNode(Tree, error).found /\ FilterNode(Tree, error).path = First(error, len)
      OBVIOUS
    <3>1. \A m \in 0..Len(error) : m > len => Filter(Tree, First(error, m)) = "nil"
      BY <2>6
    <3>2. QED
      BY <1>1, <2>2, <2>7, <3>1, FilterNodeThere
  <2>9. First(error, len) = path /\ path # error
    BY <1>3, <2>2
  <2>10. QED
    BY <2>1, <2>5, <2>7, <2>8, <2>9
<1>4. QED
  BY <1>2, <1>3

\* The object read last of a text is decoded.
LEMMA DecodedInObject ==
  ASSUME TreeInv, Decoded
  PROVE  InObject
BY DEF TreeInv, Decoded, Usual, InObject

\* An editor's line of a number is that number, from 0.
LEMMA LineRange ==
  ASSUME NEW number \in Nat, number >= 1
  PROVE  NewLineRange(number) + 1 = number
BY DEF NewLineRange

\* A node is shown within the lines of the object.
LEMMA ShownInObject ==
  ASSUME InObject, NEW path, path \in DOMAIN Tree
  PROVE  /\ NewLineRange(NodeLine(Tree, path)) + 1 = NodeLine(Tree, path)
         /\ NewLineRange(NodeLine(Tree, path)) + 1 \in LinesOf(Last(Nodes))
         /\ NewLineRange(Tree[path].line) + 1 \in LinesOf(Last(Nodes))
<1>1. /\ Last(yaml.objects) \in Nat /\ Last(yaml.objects) >= 1 /\ Number \in Nat
      /\ \A number \in Last(yaml.objects)..(Number - 1) : number \in LinesOf(Last(Nodes))
  BY LastObject
<1>2. \A line \in ObjectLines :
        NewLineRange(line.number) + 1 = line.number /\ line.number \in LinesOf(Last(Nodes))
  <2> SUFFICES ASSUME NEW line, line \in ObjectLines
               PROVE  NewLineRange(line.number) + 1 = line.number /\ line.number \in LinesOf(Last(Nodes))
    OBVIOUS
  <2>1. line.number \in Last(yaml.objects)..(Number - 1)
    BY LineOfObject
  <2>2. line.number \in Nat /\ line.number >= 1
    BY <1>1, <2>1
  <2>3. QED
    BY <1>1, <2>1, <2>2, LineRange
<1>3. PICK line \in ObjectLines : NodeLine(Tree, path) = line.number
  BY NodeShown
<1>4. PICK other \in ObjectLines : Tree[path].line = other.number
  BY LineOfNode
<1>5. QED
  BY <1>2, <1>3, <1>4

\* An error is shown on a line that leads to its property, or to the closest one that there is.
THEOREM ErrorsAlwaysPointThere == Spec => []ErrorsPointThere
<1>1. TreeInv => ErrorsPointThere
  <2> SUFFICES ASSUME InObject, NEW error, error \in ErrorPaths(Tree),
                      LET closest == First(error, Max({n \in 0..Len(error) : First(error, n) \in DOMAIN Tree}))
                      IN  closest = error \/ Tree[closest].type # "null"
               PROVE  LET closest == First(error, Max({n \in 0..Len(error) : First(error, n) \in DOMAIN Tree})) IN
                      \E d \in ErrorDiagnostics(Tree, {error}) : \E line \in ObjectLines :
                        /\ line.number = d.line + 1
                        /\ IsPrefix(closest, Within(line))
                        /\ \A other \in ObjectLines :
                             IsStrictPrefix(closest, Within(other)) => other.number >= line.number
    BY DecodedInObject DEF ErrorsPointThere
  <2> DEFINE closest == First(error, Max({n \in 0..Len(error) : First(error, n) \in DOMAIN Tree}))
             d == [error |-> error, line |-> NewLineRange(NodeLine(Tree, FilterNode(Tree, error).path))]
  <2>1. /\ closest \in DOMAIN Tree
        /\ FilterNode(Tree, error).found /\ FilterNode(Tree, error).path = closest
    BY ErrorPlaced
  <2> HIDE DEF closest
  <2>2. d \in ErrorDiagnostics(Tree, {error})
    BY <2>1 DEF ErrorDiagnostics
  <2>3. d.line + 1 = NodeLine(Tree, closest)
    BY <2>1, ShownInObject
  <2>4. PICK line \in ObjectLines :
          /\ NodeLine(Tree, closest) = line.number /\ BeginsWith(Within(line), closest)
          /\ \A other \in ObjectLines :
               BeginsWith(Within(other), closest) /\ Within(other) # closest => line.number <= other.number
    BY <2>1, NodeShown
  <2>5. IsSequence(closest) /\ \A l \in ObjectLines : IsSequence(Within(l))
    BY <2>1, NodesOfTree, StepsOfObject
  <2>6. IsPrefix(closest, Within(line))
    BY <2>4, <2>5, PrefixMeans
  <2>7. ASSUME NEW other \in ObjectLines, IsStrictPrefix(closest, Within(other))
        PROVE  other.number >= line.number
    <3>1. BeginsWith(Within(other), closest) /\ Within(other) # closest
      BY <2>5, <2>7, PrefixMeans DEF IsStrictPrefix
    <3>2. line.number <= other.number
      BY <2>4, <3>1
    <3>3. QED
      BY <3>2
  <2> HIDE DEF d
  <2>8. QED
    BY <2>2, <2>3, <2>4, <2>6, <2>7 DEF closest
<1>2. QED
  BY <1>1, TreeInvariant, PTL

\* An object that is not valid never looks valid, nor is another object marked instead.
THEOREM InvalidObjectsAlwaysShown == Spec => []InvalidObjectsShown
<1>1. ASSUME InObject, NEW errors, \A error \in errors : IsSequence(error)
      PROVE  /\ ValidateObject(Tree, errors) # {}
             /\ \A d \in ValidateObject(Tree, errors) : d.line + 1 \in LinesOf(Last(Nodes))
  <2> DEFINE placed == ErrorDiagnostics(Tree, errors)
             start == [error |-> <<>>, line |-> NewLineRange(Tree[<<>>].line)]
  <2>1. ASSUME NEW d \in placed
        PROVE  d.line + 1 \in LinesOf(Last(Nodes))
    <3>1. PICK e \in errors : /\ FilterNode(Tree, e).found
                              /\ d.line = NewLineRange(NodeLine(Tree, FilterNode(Tree, e).path))
      BY DEF ErrorDiagnostics
    <3>2. FilterNode(Tree, e).path \in DOMAIN Tree
      BY <1>1, <3>1, FilterNodeIs
    <3>3. QED
      BY <1>1, <3>1, <3>2, ShownInObject
  <2>2. start.line + 1 \in LinesOf(Last(Nodes))
    BY <1>1, TreeClosed, ShownInObject
  <2> HIDE DEF placed, start
  <2>3. ValidateObject(Tree, errors) = IF placed # {} THEN placed ELSE {start}
    BY DEF ValidateObject, placed, start
  <2>4. QED
    BY <2>1, <2>2, <2>3
<1>2. TreeInv => InvalidObjectsShown
  <2> SUFFICES ASSUME InObject,
                      NEW errors \in {{error} : error \in ErrorPaths(Tree)} \union {ErrorPaths(Tree)}
               PROVE  /\ ValidateObject(Tree, errors) # {}
                      /\ \A d \in ValidateObject(Tree, errors) : d.line + 1 \in LinesOf(Last(Nodes))
    BY DecodedInObject DEF InvalidObjectsShown
  <2>1. \A error \in errors : error \in ErrorPaths(Tree)
    OBVIOUS
  <2>2. \A error \in errors : IsSequence(error)
    BY <2>1, ErrorShape
  <2>3. QED
    BY <1>1, <2>2
<1>3. QED
  BY <1>2, TreeInvariant, PTL

\* A broken reference is never lost: it is shown at the line of its value, or in its object.
THEOREM ReferencesAlwaysPointThere == Spec => []ReferencesPointThere
<1>1. TreeInv => ReferencesPointThere
  <2> SUFFICES ASSUME InObject, NEW path, path \in ErrorPaths(Tree)
               PROVE  LET shown == GetRangeForNodePath(Tree, path) + 1 IN
                      /\ shown \in LinesOf(Last(Nodes))
                      /\ path \in DOMAIN Tree /\ Tree[path].type = "scalar" =>
                           \E line \in ObjectLines : line.number = shown /\ Within(line) = path
    BY DecodedInObject DEF ReferencesPointThere
  <2> DEFINE shown == GetRangeForNodePath(Tree, path) + 1
             filtered == FilterNode(Tree, path)
  <2>1. IsSequence(path) /\ Len(path) \in Nat
    BY ErrorShape, SequenceFacts
  <2>2. filtered.found => filtered.path \in DOMAIN Tree
    BY <2>1, FilterNodeIs
  <2> HIDE DEF filtered
  <2>3. shown = NewLineRange(IF filtered.found THEN NodeLine(Tree, filtered.path) ELSE Tree[<<>>].line) + 1
    BY DEF GetRangeForNodePath, filtered
  <2> HIDE DEF shown
  <2>4. shown \in LinesOf(Last(Nodes))
    <3>1. CASE filtered.found
      <4>1. shown = NewLineRange(NodeLine(Tree, filtered.path)) + 1
        BY <2>3, <3>1
      <4>2. NewLineRange(NodeLine(Tree, filtered.path)) + 1 \in LinesOf(Last(Nodes))
        BY <2>2, <3>1, ShownInObject
      <4>3. QED
        BY <4>1, <4>2, Zenon
    <3>2. CASE ~filtered.found
      <4>1. shown = NewLineRange(Tree[<<>>].line) + 1
        BY <2>3, <3>2
      <4>2. NewLineRange(Tree[<<>>].line) + 1 \in LinesOf(Last(Nodes))
        BY TreeClosed, ShownInObject
      <4>3. QED
        BY <4>1, <4>2, Zenon
    <3>3. QED
      BY <3>1, <3>2
  <2>5. ASSUME path \in DOMAIN Tree, Tree[path].type = "scalar"
        PROVE  \E line \in ObjectLines : line.number = shown /\ Within(line) = path
    <3>1. path = First(path, Len(path)) /\ Len(path) \in 0..Len(path)
      <4>1. BeginsWith(path, path)
        BY <2>1 DEF BeginsWith
      <4>2. QED
        BY <2>1, <4>1, BeginsFirst
    <3>2. First(path, Len(path)) \in DOMAIN Tree
      BY <2>5, <3>1, Zenon
    <3>3. \A m \in 0..Len(path) : m > Len(path) => Filter(Tree, First(path, m)) = "nil"
      BY <2>1
    <3>4. filtered.found /\ filtered.path = First(path, Len(path))
      BY <2>1, <3>1, <3>2, <3>3, FilterNodeThere DEF filtered
    <3>5. filtered.path = path
      BY <3>1, <3>4, Zenon
    <3>6. shown = NodeLine(Tree, path)
      <4>1. shown = NewLineRange(NodeLine(Tree, filtered.path)) + 1
        BY <2>3, <3>4
      <4>2. NewLineRange(NodeLine(Tree, path)) + 1 = NodeLine(Tree, path)
        BY <2>5, ShownInObject
      <4>3. QED
        BY <3>5, <4>1, <4>2, Zenon
    <3>7. QED
      BY <2>5, <3>6, NodeShown
  <2>6. QED
    BY <2>4, <2>5 DEF shown
<1>2. QED
  BY <1>1, TreeInvariant, PTL

-----------------------------------------------------------------------------
(* What is before the cursor, and what a snippet would be there.            *)

\* A line with a path is no comment and not empty, and its path has a step.
EntryOK(line) == IsEntry(line) => line.type \subseteq {"mapping", "list"} /\ Len(line.path) >= 2

\* Objects begin at such a line, and a document ends with its separator.
Entered ==
  /\ \A i \in DOMAIN lines :
       EntryOK(lines[i]) /\ (Offset + i \in ToSet(yaml.objects) => IsEntry(lines[i]))
  /\ \A n \in DOMAIN docs : docs[n].lines # <<>> /\ Last(docs[n].lines).type = {"separator"}

\* The types of a line.
LEMMA TypesOfLine ==
  ASSUME NEW raw \in Raw
  PROVE  TypeOf(raw) \in {{"mapping"}, {"list"}, {"list", "mapping"}}
           \/ TypeOf(raw) \intersect {"mapping", "list"} = {}
BY DEF TypeOf, Mapping, Item, Raw

\* The path of a line has a step in its object.
LEMMA EntryHasStep ==
  ASSUME ParserOK, Together, NEW raw \in Raw, RefOf(raw) # <<>>
  PROVE  Len(RefOf(raw)) >= 2
<1>1. PICK base : Continues(RefOf(raw), base)
  BY EntryContinues
<1>2. IsSequence(base) /\ Len(base) \in Nat /\ Len(base) >= 1
  BY <1>1, SequenceFacts DEF Continues, PathOK
<1>3. \A x : IsSequence(Append(base, x)) /\ Len(Append(base, x)) >= 2
  BY <1>2, AppendFacts
<1>4. \A x, y : Len(Append(Append(base, x), y)) >= 2
  <2> SUFFICES ASSUME NEW x, NEW y PROVE Len(Append(Append(base, x), y)) >= 2
    OBVIOUS
  <2> DEFINE q == Append(base, x)
  <2>1. IsSequence(q) /\ Len(q) >= 2 /\ Len(q) \in Nat
    BY <1>3, SequenceFacts
  <2> HIDE DEF q
  <2>2. Len(Append(q, y)) = Len(q) + 1
    BY <2>1, AppendFacts
  <2>3. QED
    BY <2>1, <2>2 DEF q
<1>5. \/ \E x : RefOf(raw) = Append(base, x)
      \/ \E x, y : RefOf(raw) = Append(Append(base, x), y)
  BY <1>1 DEF Continues
<1>6. QED
  BY <1>3, <1>4, <1>5

\* Every step keeps that.
LEMMA EnteredNext ==
  ASSUME ParserOK, YamlOK, Usual => Together /\ ObjectsBegun /\ Entered, [Next]_vars
  PROVE  (Usual => Entered)'
<1>1. CASE UNCHANGED vars
  BY <1>1 DEF vars, Usual, Entered, Offset
<1>2. ASSUME NEW raw \in Raw, ReadLine(raw), Usual'
      PROVE  Entered'
  <2> DEFINE line == Parsed(raw, IF raw.shape = "separator" THEN <<>> ELSE RefOf(raw))
             number == Len(lines) + 1
  <2>1. yaml' = YamlAfter(raw)
    BY <1>2 DEF ReadLine
  <2>2. Together /\ ObjectsBegun /\ Entered /\ IsSequence(lines)
    BY <1>2, <2>1, YamlCases DEF ParserOK
  <2>3. \/ raw.shape # "separator" /\ docs' = docs /\ Adds(lines', lines, line)
        \/ /\ raw.shape = "separator" /\ lines' = <<>>
           /\ \E doc : docs' = Append(docs, doc) /\ Adds(doc.lines, lines, line) /\ doc.offset = Offset
    BY <1>2, LineRead
  <2>4. ToSet(yaml'.objects) = IF RefOf(raw) # <<>> /\ BeginsObject(raw)
                               THEN ToSet(yaml.objects) \union {Number} ELSE ToSet(yaml.objects)
    BY <1>2, <2>2, ObjectsStep
  <2>5. line.type = TypeOf(raw)
    BY DEF Parsed
  <2>6. CASE raw.shape = "separator"
    <3>1. PICK doc : docs' = Append(docs, doc) /\ Adds(doc.lines, lines, line)
      BY <2>3, <2>6
    <3>2. TypeOf(raw) = {"separator"}
      BY <2>6 DEF TypeOf, Mapping, Item
    <3> HIDE DEF line
    <3>3. doc.lines # <<>> /\ Last(doc.lines) = line
      BY <2>2, <3>1, AppendFacts, LastOfAppend DEF Adds
    <3>4. /\ \A n \in DOMAIN docs : docs'[n] = docs[n]
          /\ docs'[Len(docs) + 1] = doc
          /\ \A n \in DOMAIN docs' : n \in DOMAIN docs \/ n = Len(docs) + 1
      <4>1. Adds(docs', docs, doc) /\ IsSequence(docs)
        BY <3>1 DEF Adds, ParserOK, Consecutive
      <4>2. QED
        BY <4>1, AppendLines
    <3>5. DOMAIN lines' = {}
      BY <2>3, <2>6
    <3>6. QED
      BY <2>2, <2>5, <3>2, <3>3, <3>4, <3>5 DEF Entered
  <2>7. CASE raw.shape # "separator"
    <3>1. docs' = docs /\ Adds(lines', lines, line) /\ Offset' = Offset
      BY <1>2, <2>3, <2>7, NumberGrows
    <3>2. RefOf(raw) # <<>> => IsEntry(line) /\ Len(line.path) >= 2
      BY <2>2, <2>7, EntryLine, EntryHasStep
    <3>3. IsEntry(line) => RefOf(raw) # <<>>
      <4>1. CASE RefOf(raw) # <<>>
        BY <4>1
      <4>2. CASE raw.shape \in {"empty", "comment"} /\ ~IsContent(raw)
        <5>1. ~InScalar(raw)
          BY <2>2, <4>2 DEF Together, InScalar, IsContent
        <5>2. TypeOf(raw) = {raw.shape}
          BY <4>2, <5>1 DEF TypeOf, Mapping, Item
        <5>3. QED
          BY <2>5, <4>2, <5>2 DEF IsEntry
      <4>3. CASE raw.shape \notin {"separator", "dashes"} /\ IsContent(raw) /\ raw.column >= yaml.scalar
        <5>1. InScalar(raw)
          BY <2>2, <4>3 DEF Together, InScalar, IsContent
        <5>2. TypeOf(raw) = {"blockScalar"}
          BY <4>3, <5>1 DEF TypeOf
        <5>3. QED
          BY <2>5, <5>2 DEF IsEntry
      <4>4. QED
        BY <1>2, <2>1, <2>7, <4>1, <4>2, <4>3, YamlCases
    <3>4. EntryOK(line)
      <4>1. IsEntry(line) => line.type \subseteq {"mapping", "list"}
        BY <2>5, TypesOfLine DEF IsEntry
      <4> HIDE DEF line
      <4>2. QED
        BY <3>2, <3>3, <4>1 DEF EntryOK
    <3> HIDE DEF line
    <3>5. /\ \A i \in DOMAIN lines : lines'[i] = lines[i]
          /\ lines'[number] = line
          /\ \A i \in DOMAIN lines' : i \in DOMAIN lines \/ i = number
      BY <2>2, <3>1, AppendLines
    <3>6. Number = Offset + number /\ \A i \in DOMAIN lines : Offset + i # Number
      BY NewNumber
    <3>7. Number \notin ToSet(yaml.objects)
      <4>1. Number \in Nat /\ \A n \in ToSet(yaml.objects) : n \in 1..(Number - 1)
        BY <2>2, NumberNat DEF ObjectsBegun
      <4>2. Number \notin 1..(Number - 1)
        BY <4>1
      <4>3. QED
        BY <4>1, <4>2
    <3> HIDE DEF number
    <3>8. \A i \in DOMAIN lines : EntryOK(lines[i]) /\ (Offset + i \in ToSet(yaml'.objects) => IsEntry(lines[i]))
      BY <2>2, <2>4, <3>6 DEF Entered
    <3>9. EntryOK(line) /\ (Offset + number \in ToSet(yaml'.objects) => IsEntry(line))
      BY <2>4, <3>2, <3>4, <3>6, <3>7
    <3>10. \A i \in DOMAIN lines' :
             EntryOK(lines'[i]) /\ (Offset + i \in ToSet(yaml'.objects) => IsEntry(lines'[i]))
      BY <3>5, <3>8, <3>9
    <3>11. QED
      BY <2>2, <3>1, <3>10 DEF Entered
  <2>8. QED
    BY <2>6, <2>7
<1>3. QED
  BY <1>1, <1>2 DEF Next, Usual

\* That holds in every state.
LEMMA EnteredInvariant == Spec => [](TreeInv /\ (Usual => Entered))
<1>1. Init => (Usual => Entered)
  <2>1. DOMAIN <<>> = {}
    OBVIOUS
  <2>2. QED
    BY <2>1 DEF Init, Entered
<1>2. TreeInv /\ (Usual => Entered) /\ [Next]_vars => (Usual => Entered)'
  <2>1. TreeInv => ParserOK /\ YamlOK /\ (Usual => Together /\ ObjectsBegun)
    BY DEF TreeInv, IInv
  <2>2. QED
    BY <2>1, EnteredNext
<1>3. QED
  BY <1>1, <1>2, TreeInvariant, PTL DEF Spec

\* An object has a line.
LEMMA ObjectNotEmpty ==
  ASSUME NEW doc, DocumentOK(doc), doc.lines # <<>>, NEW node \in ToSet(NodesOf(doc))
  PROVE  Len(node.lines) >= 1
<1>1. Len(doc.lines) \in Nat /\ DOMAIN doc.lines = 1..Len(doc.lines) /\ Len(doc.lines) >= 1
      /\ doc.offset \in Nat
  BY SequenceFacts DEF DocumentOK
<1>2. CASE ~DocIsList(doc)
  <2> DEFINE whole == [offset |-> doc.offset, lines |-> doc.lines, index |-> None]
  <2>1. NodesOf(doc) = <<whole>> /\ whole.lines = doc.lines
    BY <1>2 DEF NodesOf
  <2> HIDE DEF whole
  <2>2. node = whole
    BY <2>1 DEF ToSet
  <2>3. QED
    BY <1>1, <2>1, <2>2
<1>3. CASE DocIsList(doc)
  <2> DEFINE begins == {1} \union Cuts(doc)
  <2>1. PICK i \in DOMAIN doc.lines : node = ObjectAt(doc, begins, i)
    BY <1>3, SplitElements DEF NodesOf
  <2> HIDE DEF begins
  <2>2. /\ EndOf(doc, begins, i) \in i..Len(doc.lines) /\ DocumentOK(node)
        /\ EndOfDocument(node) = doc.offset + EndOf(doc, begins, i)
    BY <2>1, PartLines
  <2>3. node.offset = doc.offset + i - 1
    BY <2>1 DEF ObjectAt
  <2>4. Len(node.lines) \in Nat
    BY <2>2, SequenceFacts DEF DocumentOK
  <2>5. QED
    BY <1>1, <2>2, <2>3, <2>4 DEF EndOfDocument
<1>4. QED
  BY <1>2, <1>3

\* The last object ends with the text.
LEMMA LastNodeEnds ==
  ASSUME ParserOK, Number # 1
  PROVE  LET node == Last(Nodes) IN
         /\ DocumentOK(node) /\ EndOfDocument(node) = Number - 1 /\ Len(node.lines) >= 1
         /\ \E n \in DOMAIN Documents : node \in ToSet(NodesOf(Documents[n]))
<1> DEFINE nodes == Nodes
           k == Len(nodes)
           last == nodes[k]
<1>1. Number \in Nat /\ Number >= 2
  BY OffsetIs
<1>2. IsSequence(nodes) /\ Ordered(nodes)
  BY NodesAre, NodesOrdered
<1>3. PICK held \in ToSet(nodes) : Holds(held, Number - 1)
  <2>1. Number - 1 \in 1..(Number - 1)
    BY <1>1
  <2>2. QED
    BY <2>1, LineHeld
<1>4. PICK a \in DOMAIN nodes : held = nodes[a]
  BY DEF ToSet
<1>5. k \in Nat /\ a \in 1..k /\ k \in DOMAIN nodes /\ Last(nodes) = last
  <2>1. k \in Nat /\ DOMAIN nodes = 1..k
    BY <1>2, SequenceFacts
  <2>2. QED
    BY <1>4, <2>1 DEF Last
<1>6. \A node \in ToSet(nodes) :
        /\ DocumentOK(node) /\ node.offset \in Nat /\ Len(node.lines) \in Nat /\ Len(node.lines) >= 1
        /\ EndOfDocument(node) <= Number - 1
        /\ \E n \in DOMAIN Documents : node \in ToSet(NodesOf(Documents[n]))
  <2> SUFFICES ASSUME NEW node \in ToSet(nodes)
               PROVE  /\ DocumentOK(node) /\ node.offset \in Nat
                      /\ Len(node.lines) \in Nat /\ Len(node.lines) >= 1
                      /\ EndOfDocument(node) <= Number - 1
                      /\ \E n \in DOMAIN Documents : node \in ToSet(NodesOf(Documents[n]))
    OBVIOUS
  <2>1. PICK n \in DOMAIN Documents : node \in ToSet(NodesOf(Documents[n]))
    BY NodesAre
  <2> DEFINE doc == Documents[n]
  <2>2. DocumentOK(doc) /\ doc.lines # <<>> /\ EndOfDocument(doc) <= Number - 1
    <3>1. DocumentOK(doc) /\ doc.lines # <<>>
      BY DocumentsConsecutive DEF Consecutive
    <3>2. CASE lines = <<>>
      <4>1. n \in DOMAIN docs /\ doc = docs[n]
        BY <3>2 DEF Documents
      <4>2. EndOfDocument(docs[n]) <= Offset /\ EndOfDocument(docs[n]) \in Nat
        BY <4>1, DocumentsBelow, DocumentsConsecutive, OffsetNat DEF ParserOK
      <4>3. Number - 1 = Offset
        BY <3>2, OffsetIs, EmptySeq
      <4>4. QED
        BY <3>1, <4>1, <4>2, <4>3
    <3>3. CASE lines # <<>>
      <4> DEFINE open == [offset |-> Offset, lines |-> lines]
      <4>1. Documents = Append(docs, open) /\ EndOfDocument(open) = Number - 1
        BY <3>3, OffsetIs DEF Documents, EndOfDocument
      <4> HIDE DEF open
      <4>2. Adds(Documents, docs, open) /\ IsSequence(docs)
        BY <4>1 DEF Adds, ParserOK, Consecutive
      <4>3. (n \in DOMAIN docs /\ doc = docs[n]) \/ doc = open
        BY <4>2, AppendLines
      <4>4. n \in DOMAIN docs => EndOfDocument(docs[n]) <= Offset /\ Offset <= Number - 1
        BY DocumentsBelow, OffsetIs
      <4>5. n \in DOMAIN docs => EndOfDocument(docs[n]) \in Nat
        BY DocumentsConsecutive, OffsetNat DEF ParserOK
      <4>6. QED
        BY <1>1, <3>1, <4>1, <4>3, <4>4, <4>5, OffsetIs
    <3>4. QED
      BY <3>1, <3>2, <3>3
  <2> HIDE DEF doc
  <2>3. DocumentOK(node) /\ node.offset \in Nat /\ Len(node.lines) >= 1
        /\ EndOfDocument(node) <= EndOfDocument(doc)
        /\ EndOfDocument(node) \in Nat /\ EndOfDocument(doc) \in Nat
    BY <2>1, <2>2, ObjectWithin, ObjectNotEmpty DEF doc
  <2>4. Len(node.lines) \in Nat
    BY <2>3, SequenceFacts DEF DocumentOK
  <2>5. QED
    BY <1>1, <2>1, <2>2, <2>3, <2>4
<1>7. last \in ToSet(nodes)
  BY <1>5 DEF ToSet
<1> HIDE DEF nodes
<1>8. EndOfDocument(last) = Number - 1
  <2>1. CASE a = k
    BY <1>1, <1>3, <1>4, <1>6, <1>7, <2>1 DEF Holds, EndOfDocument
  <2>2. CASE a # k
    <3>1. a < k
      BY <1>5, <2>2
    <3>2. Before(held, last)
      BY <1>2, <1>4, <1>5, <3>1 DEF Ordered
    <3> HIDE DEF last, k
    <3>3. QED
      BY <1>1, <1>3, <1>6, <1>7, <3>2 DEF Before, EndOfDocument, Holds
  <2>3. QED
    BY <2>1, <2>2
<1>9. QED
  BY <1>5, <1>6, <1>7, <1>8 DEF nodes

\* Its last line is the separator before the cursor, or its lines are of the document there.
LEMMA LastNodeLines ==
  ASSUME ParserOK, Entered, Number # 1
  PROVE  LET before == Last(Nodes).lines IN
         /\ IsSequence(before) /\ Len(before) >= 1
         /\ lines = <<>> => before[Len(before)].type = {"separator"}
         /\ lines # <<>> => ToSet(before) \subseteq ToSet(lines)
<1> DEFINE node == Last(Nodes)
           before == node.lines
           k == Len(before)
<1>1. /\ DocumentOK(node) /\ EndOfDocument(node) = Number - 1 /\ k >= 1
      /\ \E n \in DOMAIN Documents : node \in ToSet(NodesOf(Documents[n]))
  BY LastNodeEnds
<1>2. PICK n \in DOMAIN Documents : node \in ToSet(NodesOf(Documents[n]))
  BY <1>1
<1> HIDE DEF node
<1>3. IsSequence(before) /\ k \in Nat /\ DOMAIN before = 1..k /\ k \in DOMAIN before
      /\ node.offset \in Nat
  BY <1>1, SequenceFacts DEF DocumentOK
<1>4. before[k].number = Number - 1
  BY <1>1, <1>3 DEF DocumentOK, Numbered, EndOfDocument
<1>5. DocumentOK(Documents[n]) /\ ToSet(before) \subseteq ToSet(Documents[n].lines)
      /\ EndOfDocument(node) <= EndOfDocument(Documents[n])
  BY <1>2, DocumentsConsecutive, ObjectsOfDocument, ObjectWithin DEF Consecutive
<1>6. Offset \in Nat /\ Len(lines) \in Nat /\ Number = Offset + Len(lines) + 1
  BY OffsetIs
<1>7. CASE lines = <<>>
  <2>1. n \in DOMAIN docs /\ Documents[n] = docs[n] /\ Number - 1 = Offset
    BY <1>6, <1>7, EmptySeq DEF Documents
  <2> DEFINE doc == docs[n]
  <2>2. before[k] \in ToSet(doc.lines)
    BY <1>3, <1>5, <2>1 DEF ToSet
  <2>3. PICK i \in DOMAIN doc.lines : before[k] = doc.lines[i]
    BY <2>2 DEF ToSet
  <2>4. /\ doc.offset \in Nat /\ EndOfDocument(doc) <= Offset /\ DocumentOK(doc)
        /\ doc.lines # <<>> /\ Last(doc.lines).type = {"separator"}
    BY <1>5, <2>1, DocumentsBelow DEF Entered
  <2> HIDE DEF doc
  <2>5. Len(doc.lines) \in Nat /\ i \in 1..Len(doc.lines) /\ doc.lines[i].number = doc.offset + i
    BY <2>3, <2>4, SequenceFacts DEF DocumentOK, Numbered
  <2>6. i = Len(doc.lines)
    BY <1>4, <1>6, <2>1, <2>3, <2>4, <2>5 DEF EndOfDocument
  <2>7. before[k].type = {"separator"}
    BY <2>3, <2>4, <2>6 DEF Last
  <2>8. QED
    BY <1>1, <1>3, <1>7, <2>7 DEF node
<1>8. CASE lines # <<>>
  <2> DEFINE open == [offset |-> Offset, lines |-> lines]
  <2>1. Documents = Append(docs, open) /\ open.lines = lines
    BY <1>8 DEF Documents
  <2> HIDE DEF open
  <2>2. Adds(Documents, docs, open) /\ IsSequence(docs)
    BY <2>1 DEF Adds, ParserOK, Consecutive
  <2>3. (n \in DOMAIN docs /\ Documents[n] = docs[n]) \/ Documents[n] = open
    BY <2>2, AppendLines
  <2>4. ~(n \in DOMAIN docs /\ Documents[n] = docs[n])
    <3>1. SUFFICES ASSUME n \in DOMAIN docs, Documents[n] = docs[n] PROVE FALSE
      OBVIOUS
    <3>2. EndOfDocument(docs[n]) <= Offset /\ EndOfDocument(docs[n]) \in Nat
      BY <3>1, DocumentsBelow, OffsetNat DEF ParserOK
    <3>3. Len(lines) # 0
      BY <1>8, SequenceFacts DEF ParserOK
    <3>4. QED
      BY <1>1, <1>5, <1>6, <3>1, <3>2, <3>3
  <2>5. QED
    BY <1>1, <1>3, <1>5, <1>8, <2>1, <2>3, <2>4 DEF node
<1>9. QED
  BY <1>7, <1>8

\* findLine finds none only if every line is a comment or empty.
LEMMA PreviousLineIs ==
  ASSUME Number = 1 \/ IsSequence(Last(Nodes).lines)
  PROVE  LET before == Last(Nodes).lines
             shown(i) == before[i].type \intersect {"comment", "empty"} = {}
         IN IF Number = 1 \/ \A i \in DOMAIN before : ~shown(i)
            THEN PreviousLine = <<>>
            ELSE \E i \in DOMAIN before :
                   /\ PreviousLine = <<before[i]>> /\ shown(i)
                   /\ \A j \in DOMAIN before : shown(j) => j <= i
<1> DEFINE before == Last(Nodes).lines
           filtered == {i \in DOMAIN before : before[i].type \intersect {"comment", "empty"} = {}}
           i == CHOOSE x \in filtered : \A j \in filtered : j <= x
<1>1. PreviousLine = IF Number = 1 \/ filtered = {} THEN <<>> ELSE <<before[i]>>
  BY DEF PreviousLine
<1>2. CASE Number = 1 \/ filtered = {}
  BY <1>1, <1>2
<1>3. CASE ~(Number = 1 \/ filtered = {})
  <2>1. Len(before) \in Nat /\ DOMAIN before = 1..Len(before)
    BY <1>3, SequenceFacts
  <2>2. \E x \in filtered : \A j \in filtered : j <= x
    <3>1. filtered \subseteq 0..Len(before) /\ filtered # {}
      BY <1>3, <2>1
    <3> HIDE DEF filtered
    <3>2. QED
      BY <2>1, <3>1, GreatestNumber
  <2>3. i \in filtered /\ \A j \in filtered : j <= i
    <3> HIDE DEF filtered
    <3>1. QED
      BY <2>2
  <2> HIDE DEF i
  <2>4. QED
    BY <1>1, <1>3, <2>3
<1>4. QED
  BY <1>2, <1>3

\* A path whose generalized form is the root is the root or that of an element of the document.
LEMMA GeneralizedRoot ==
  ASSUME NEW path, IsSequence(path), GeneralizePath(path) = Root
  PROVE  IF IsListPath(path) THEN Len(path) = 2 ELSE Len(path) = 1
<1> DEFINE short == IF IsListPath(path) THEN <<path[1]>> \o SubSeq(path, 3, Len(path)) ELSE path
<1>1. IsSequence(short) /\ Len(path) \in Nat
      /\ Len(short) = IF IsListPath(path) THEN Len(path) - 1 ELSE Len(path)
  <2>1. CASE ~IsListPath(path)
    BY <2>1, SequenceFacts
  <2>2. CASE IsListPath(path)
    <3>1. Len(path) \in Nat /\ Len(path) >= 2
      BY <2>2, SequenceFacts DEF IsListPath
    <3> DEFINE S == ToSet(path)
               len == Len(path)
               rest == SubSeq(path, 3, len)
    <3>2. IsSequence(rest) /\ Len(rest) = len - 2
      <4>1. path \in Seq(S) /\ \A k \in 1..len : path[k] \in S
        BY SequenceFacts DEF IsSequence, ToSet
      <4>0. len \in Nat /\ len >= 2
        BY <3>1
      <4> HIDE DEF S, len
      <4>2. rest \in Seq(S) /\ Len(rest) = IF 3 <= len THEN len - 3 + 1 ELSE 0
        BY <4>0, <4>1, SubSeqProperties
      <4>3. (IF 3 <= len THEN len - 3 + 1 ELSE 0) = len - 2
        BY <4>0
      <4> HIDE DEF rest
      <4>4. QED
        BY <4>2, <4>3, SequenceOfAny
    <3> HIDE DEF rest
    <3>3. IsSequence(<<path[1]>> \o rest) /\ Len(<<path[1]>> \o rest) = Len(rest) + 1
      BY <3>2, ConsFacts DEF rest
    <3>4. QED
      BY <2>2, <3>1, <3>2, <3>3 DEF rest
  <2>3. QED
    BY <2>1, <2>2
<1>2. GeneralizePath(path) = Generalized(short)
  BY DEF GeneralizePath, Generalized
<1> HIDE DEF short
<1>3. Len(Generalized(short)) = Len(short)
  BY <1>1, GeneralizedIs
<1>4. Len(Root) = 1
  BY DEF Root
<1>5. Len(short) = 1
  BY <1>2, <1>3, <1>4
<1>6. CASE IsListPath(path)
  <2>1. Len(short) = Len(path) - 1
    BY <1>1, <1>6
  <2>2. Len(path) = 2
    <3> DEFINE n == Len(path)
    <3>1. n \in Nat /\ 1 = n - 1
      BY <1>1, <1>5, <2>1
    <3> HIDE DEF n
    <3>2. n = 2
      BY <3>1
    <3>3. QED
      BY <3>2 DEF n
  <2>3. QED
    BY <1>6, <2>2
<1>7. CASE ~IsListPath(path)
  BY <1>1, <1>5, <1>7
<1>8. QED
  BY <1>6, <1>7

\* In a list that is a document, an element at the first column is the next of that list.
LEMMA NextElement ==
  ASSUME ParserOK, Together, Rooted, yaml.body, yaml.stack[1].kind = "list"
  PROVE  ListStack(0) # <<>> /\ Len(ListStack(0)) = 1
<1> DEFINE kept == ItemFrames(0)
           T == {n \in 0..Len(yaml.stack) : \A m \in 1..n : yaml.stack[m].column <= 0}
           f == yaml.stack[1]
<1>1. IsSequence(yaml.stack) /\ StackOK(yaml.stack) /\ RootedIn(yaml.stack)
  BY DEF Together, StackOK, Rooted
<1>2. Len(yaml.stack) \in Nat /\ DOMAIN yaml.stack = 1..Len(yaml.stack) /\ Len(yaml.stack) >= 1
      /\ f.column = 0
  BY <1>1, SequenceFacts DEF RootedIn
<1>3. Max(T) \in T /\ \A m \in T : m <= Max(T)
  <2>1. T \subseteq 0..Len(yaml.stack) /\ 0 \in T
    BY <1>2
  <2> HIDE DEF T
  <2>2. QED
    BY <1>2, <2>1, MaxOf
<1>4. 1 \in T
  BY <1>2
<1>5. Max(T) \notin 2..Len(yaml.stack)
  <2>1. SUFFICES ASSUME Max(T) \in 2..Len(yaml.stack) PROVE FALSE
    OBVIOUS
  <2>2. yaml.stack[2].column <= 0
    BY <1>2, <1>3, <2>1
  <2>3. Nested(yaml.stack[1], yaml.stack[2]) /\ FrameOK(yaml.stack[2])
    BY <1>1, <1>2, <2>1 DEF StackOK
  <2>4. QED
    BY <1>2, <2>2, <2>3 DEF Nested, FrameOK
<1>6. Max(T) = 1
  BY <1>2, <1>3, <1>4, <1>5
<1>7. kept = SubSeq(yaml.stack, 1, 1)
  BY <1>6 DEF ItemFrames
<1>8. IsSequence(kept) /\ Len(kept) = 1 /\ kept[1] = f
  <2>1. 1 \in 0..Len(yaml.stack) /\ 1 \in 1..1
    BY <1>2
  <2>2. Outer(kept, yaml.stack) /\ Len(kept) = 1 /\ DOMAIN kept = 1..1
    BY <1>1, <1>7, <2>1, SubSeqOuter
  <2> HIDE DEF kept
  <2>3. QED
    BY <2>1, <2>2 DEF Outer
<1> HIDE DEF kept, T
<1>9. TopIs(kept, "list", 0)
  <2>1. kept # <<>> /\ Last(kept) = f
    BY <1>8, SequenceFacts DEF Last
  <2>2. QED
    BY <1>2, <2>1 DEF TopIs
<1> DEFINE g == Frame("list", 0, Last(kept).path, Last(kept).count + 1)
<1>10. ListStack(0) = Append(Front(kept), g)
  BY <1>9 DEF ListStack, kept
<1> HIDE DEF g
<1>11. IsSequence(Front(kept)) /\ Len(Front(kept)) = 0
  <2>1. Front(kept) = SubSeq(kept, 1, 0)
    BY <1>8 DEF Front
  <2>2. QED
    BY <1>8, <2>1, SubSeqOuter DEF Outer
<1>12. QED
  BY <1>10, <1>11, AppendFacts

\* A document that has not begun can begin with an element, or with a key.
LEMMA FirstElement ==
  ASSUME Together, ~yaml.body
  PROVE  /\ ListStack(0) # <<>> /\ Len(ListStack(0)) = 1
         /\ MapStack(0) = <<Frame("map", 0, Root, 0)>>
<1>1. /\ ~TopIs(KeyFrames(0), "map", 0) /\ ~TopIs(ItemFrames(0), "list", 0)
      /\ yaml.open.column = None
  BY NoFrames
<1>2. yaml.open.column \notin 0..0 /\ yaml.open.column \notin 0..(0 - 1)
  BY <1>1 DEF None
<1> DEFINE f == Frame("list", 0, Root, 1)
           g == Frame("map", 0, Root, 0)
<1> HIDE DEF f, g
<1>3. ListStack(0) = <<f>>
  BY <1>1, <1>2 DEF ListStack, f
<1>4. MapStack(0) = <<g>>
  BY <1>1, <1>2 DEF MapStack, g
<1>5. QED
  BY <1>3, <1>4 DEF g

\* An element at the first column that stands in one of these two places begins an object.
LEMMA ElementAdds ==
  ASSUME ParserOK, Together, NEW raw \in Raw, raw.shape = "item", raw.column = 0, ~IsContent(raw),
         ListStack(0) # <<>>, Len(ListStack(0)) = 1
  PROVE  RefOf(raw) # <<>> /\ BeginsObject(raw)
<1> DEFINE top == Last(ListStack(0))
           element == Append(top.path, Index(top.count - 1))
<1>1. RefOf(raw) = Append(element, Key(Number))
  BY DEF RefOf, Item, Mapping, Element
<1>2. IsSequence(top.path)
  BY ListContinues DEF PathOK
<1> HIDE DEF top
<1>3. IsSequence(element)
  BY <1>2, AppendFacts
<1> HIDE DEF element
<1>4. RefOf(raw) # <<>>
  BY <1>1, <1>3, AppendFacts
<1>5. QED
  BY <1>4 DEF BeginsObject, Mapping

\* What findLine finds before the cursor: the separator of the document before, or a line of the
\* document there, which is a key or an element if that has any.
LEMMA BeforeCursor ==
  ASSUME ParserOK, Known, Together, Rooted, ObjectsBegun, Entered
  PROVE  /\ PreviousLine # <<>> /\ "list" \in PreviousLine[1].type => yaml.body
         /\ yaml.body => PreviousLine # <<>> /\ "separator" \notin PreviousLine[1].type
<1> DEFINE node == Last(Nodes)
           before == node.lines
<1>1. /\ Offset \in Nat /\ Len(lines) \in Nat /\ Number = Offset + Len(lines) + 1
      /\ IsSequence(lines) /\ DOMAIN lines = 1..Len(lines)
  BY OffsetIs, SequenceFacts DEF ParserOK
<1>2. CASE Number = 1
  <2>1. PreviousLine = <<>>
    BY <1>2 DEF PreviousLine
  <2>2. lines = <<>>
    BY <1>1, <1>2, SequenceFacts
  <2>3. DOMAIN lines = {}
    BY <2>2
  <2>4. ~yaml.body
    BY <2>3 DEF ObjectsBegun, HasEntry
  <2>5. QED
    BY <2>1, <2>4
<1>3. CASE Number # 1
  <2>1. /\ IsSequence(before) /\ Len(before) \in Nat /\ Len(before) >= 1 /\ DOMAIN before = 1..Len(before)
        /\ lines = <<>> => before[Len(before)].type = {"separator"}
        /\ lines # <<>> => ToSet(before) \subseteq ToSet(lines)
    BY <1>3, LastNodeLines, SequenceFacts
  <2>2. DocumentOK(node) /\ EndOfDocument(node) = Number - 1
    BY <1>3, LastNodeEnds
  <2> DEFINE shown(i) == before[i].type \intersect {"comment", "empty"} = {}
  <2>3. IF \A i \in DOMAIN before : ~shown(i)
        THEN PreviousLine = <<>>
        ELSE \E i \in DOMAIN before :
               /\ PreviousLine = <<before[i]>> /\ shown(i)
               /\ \A j \in DOMAIN before : shown(j) => j <= i
    BY <1>3, <2>1, PreviousLineIs
  <2> HIDE DEF node
  <2>4. CASE lines = <<>>
    <3>1. shown(Len(before)) /\ Len(before) \in DOMAIN before
      BY <2>1, <2>4
    <3>2. PICK i \in DOMAIN before :
            /\ PreviousLine = <<before[i]>> /\ shown(i)
            /\ \A j \in DOMAIN before : shown(j) => j <= i
      BY <2>3, <3>1
    <3>3. i = Len(before)
      BY <2>1, <3>1, <3>2
    <3>4. PreviousLine[1].type = {"separator"}
      BY <2>1, <2>4, <3>2, <3>3
    <3>5. DOMAIN lines = {}
      BY <2>4
    <3>6. ~yaml.body
      BY <3>5 DEF ObjectsBegun, HasEntry
    <3>7. QED
      BY <3>4, <3>6
  <2>5. CASE lines # <<>>
    <3>1. ASSUME NEW i \in DOMAIN before
          PROVE  \E j \in DOMAIN lines : before[i] = lines[j] /\ lines[j].number = Offset + j
      <4>1. before[i] \in ToSet(lines)
        BY <2>1, <2>5 DEF ToSet
      <4>2. QED
        BY <4>1 DEF ToSet, ParserOK, Numbered
    <3>2. ASSUME PreviousLine # <<>>
          PROVE  \E j \in DOMAIN lines : PreviousLine[1] = lines[j]
      <4>1. PICK i \in DOMAIN before : PreviousLine = <<before[i]>>
        BY <2>3, <3>2
      <4>2. PreviousLine[1] = before[i]
        BY <4>1
      <4>3. QED
        BY <3>1, <4>2
    <3>3. \A j \in DOMAIN lines : lines[j].type \subseteq LineTypes
      BY DEF ParserOK, LineOK
    <3>4. PreviousLine # <<>> /\ "list" \in PreviousLine[1].type => yaml.body
      BY <3>2 DEF Together, BodyOK, IsEntry
    <3>5. PreviousLine # <<>> => "separator" \notin PreviousLine[1].type
      BY <3>2, <3>3 DEF LineTypes
    <3>6. ASSUME yaml.body
          PROVE  PreviousLine # <<>>
      <4> DEFINE objects == yaml.objects
                 k == Len(objects)
      <4>1. /\ Len(Nodes) = k
            /\ \A n \in DOMAIN Nodes : Holds(Nodes[n], objects[n])
        BY <3>6, ObjectsInStep
      <4>2. Last(Nodes) = Nodes[k]
        BY <4>1 DEF Last
      <4>3. Last(Nodes) \in ToSet(Nodes) /\ IsSequence(Nodes)
        BY <3>6, LastNode, NodesAre
      <4>4. k \in DOMAIN Nodes
        <5>1. k \in Nat /\ DOMAIN Nodes = 1..k
          BY <4>1, <4>3, SequenceFacts
        <5>2. PICK n \in DOMAIN Nodes : Last(Nodes) = Nodes[n]
          BY <4>3 DEF ToSet
        <5>3. QED
          BY <5>1, <5>2
      <4>5. Holds(node, objects[k])
        BY <4>1, <4>2, <4>4 DEF node
      <4>6. objects[k] \in ToSet(objects) /\ objects[k] \in Nat
        <5>1. k \in DOMAIN objects
          <6>1. k \in Nat /\ DOMAIN objects = 1..k /\ DOMAIN Nodes = 1..k
            BY <4>1, <4>3, SequenceFacts DEF ObjectsBegun
          <6>2. QED
            BY <4>4, <6>1
        <5>2. QED
          BY <5>1 DEF ToSet, ObjectsBegun, Ascending
      <4> DEFINE number == objects[k]
                 i == number - node.offset
      <4> HIDE DEF objects, k, number
      <4>7. i \in DOMAIN before /\ before[i].number = number
        <5>1. node.offset \in Nat /\ i \in DOMAIN before
          BY <2>1, <2>2, <4>5 DEF Holds, DocumentOK, number
        <5>2. before[i].number = node.offset + i
          BY <2>2, <5>1 DEF DocumentOK, Numbered
        <5>3. number \in Nat
          BY <4>6 DEF number
        <5>4. QED
          BY <5>1, <5>2, <5>3
      <4> HIDE DEF i
      <4>8. PICK j \in DOMAIN lines : before[i] = lines[j] /\ Offset + j = number
        BY <3>1, <4>7
      <4>9. IsEntry(lines[j]) /\ EntryOK(lines[j])
        BY <4>6, <4>8 DEF Entered, objects, number
      <4>10. shown(i)
        BY <4>8, <4>9 DEF EntryOK
      <4>11. QED
        <5>1. PICK m \in DOMAIN before : PreviousLine = <<before[m]>>
          BY <2>3, <4>7, <4>10
        <5>2. QED
          BY <5>1
    <3>7. QED
      BY <3>4, <3>5, <3>6
  <2>6. QED
    BY <2>4, <2>5
<1>4. QED
  BY <1>2, <1>3

\* The last "[" of a path is that of an index.
LEMMA LastIndexIs ==
  ASSUME NEW path, IsSequence(path), LastIndex(path) # 0
  PROVE  LastIndex(path) \in 1..Len(path) /\ IsIndex(path[LastIndex(path)])
<1> DEFINE I == {i \in 1..Len(path) : IsIndex(path[i])}
<1>1. Len(path) \in Nat
  BY SequenceFacts
<1>2. LastIndex(path) = IF I = {} THEN 0 ELSE Max(I)
  BY DEF LastIndex, SelectLastInSeq
<1>3. I # {} => Max(I) \in I
  <2>1. I \subseteq 0..Len(path)
    BY <1>1
  <2> HIDE DEF I
  <2>2. QED
    BY <1>1, <2>1, MaxOf
<1>4. QED
  BY <1>1, <1>2, <1>3

\* A document of which a line is in an element at the root is a list.
LEMMA ListBody ==
  ASSUME ParserOK, Together, Rooted, NEW i \in DOMAIN lines, IsEntry(lines[i]), IsListPath(lines[i].path)
  PROVE  yaml.body /\ yaml.stack[1].kind = "list" /\ lines[i].indent >= 2
<1>1. yaml.body
  BY DEF Together, BodyOK
<1>2. FrameOK(yaml.stack[1])
  BY <1>1, RootFrame DEF Together, Rooted, RootedIn
<1>3. yaml.stack[1].kind # "map"
  BY <1>1 DEF Rooted, MappingLines
<1>4. yaml.stack[1].kind = "list"
  BY <1>2, <1>3 DEF FrameOK
<1>5. QED
  BY <1>1, <1>4 DEF Rooted, ListLines

\* What is read of a line at the first column, when no block scalar is open there.
LEMMA CursorPath ==
  ASSUME Together, NEW raw \in AtCursor, raw.column = 0, ~IsContent(raw)
  PROVE  LET path == Parsed(raw, <<>>).path IN
         /\ raw.shape = "value" => path = ListPath(Nearest(lines, 2), 2, <<>>)[1]
         /\ raw.shape \in {"empty", "text"} => path = OtherPath(Nearest(lines, 0), 0, <<>>)[1]
<1>1. ~InScalar(raw)
  BY DEF Together, InScalar, IsContent
<1>2. Parsed(raw, <<>>).path = PathOf(raw)[1]
  BY ParsedAlike
<1>3. ASSUME raw.shape = "value"
      PROVE  PathOf(raw) = ListPath(Nearest(lines, 2), 2, <<>>)
  <2>1. TypeOf(raw) = {"list"}
    BY <1>1, <1>3 DEF TypeOf, Mapping, Item
  <2>2. IndentOf(raw) = 2 /\ KeyOf(raw) = <<>>
    BY <2>1 DEF IndentOf, KeyOf
  <2>3. TypeOf(raw) \notin {{"separator"}, {"comment"}} /\ "list" \in TypeOf(raw)
    BY <2>1
  <2>4. QED
    BY <2>2, <2>3, PreviousNearest DEF PathOf
<1>4. ASSUME raw.shape \in {"empty", "text"}
      PROVE  PathOf(raw) = OtherPath(Nearest(lines, 0), 0, <<>>)
  <2>1. TypeOf(raw) \in {{"empty"}, {"undefined"}}
    BY <1>1, <1>4 DEF TypeOf, Mapping, Item
  <2>2. IndentOf(raw) = 0 /\ KeyOf(raw) = <<>>
    BY <2>1 DEF IndentOf, KeyOf
  <2>3. TypeOf(raw) \notin {{"separator"}, {"comment"}} /\ "list" \notin TypeOf(raw)
    BY <2>1
  <2>4. QED
    BY <2>2, <2>3, PreviousNearest DEF PathOf
<1>5. QED
  BY <1>2, <1>3, <1>4

\* A document has an element or a key at the first column, as it is a list or a mapping.
LEMMA BodyReached ==
  ASSUME Together, Rooted, ParserOK, yaml.body
  PROVE  Nearest(lines, 2) # 0
<1>1. /\ 1 \in DOMAIN yaml.stack /\ FrameOK(yaml.stack[1])
      /\ yaml.stack[1].column = 0
  BY RootFrame DEF Together, Rooted, RootedIn
<1>2. Under(yaml.stack[1]) \in {0, 2}
  BY <1>1 DEF Under
<1> DEFINE d == Under(yaml.stack[1])
           i == Nearest(lines, d)
<1>3. i # 0
  BY <1>1 DEF Together, StackShown
<1> HIDE DEF d
<1>4. i \in 1..Len(lines) /\ Reaches(lines[i], d)
  BY <1>3, NearestFound DEF ParserOK
<1> HIDE DEF i
<1>5. lines[i].indent \in Nat
  BY <1>4, SequenceFacts DEF ParserOK, LineOK
<1>6. Reaches(lines[i], 2)
  BY <1>2, <1>4, <1>5 DEF Reaches, d
<1>7. QED
  BY <1>4, <1>6, NearestNone DEF ParserOK

\* The path of an element, as ListPath puts it together.
ElementPath(base, n) == base \o <<Index(n)>> \o <<>>

\* It is one step longer than that of the list.
LEMMA ElementPathIs ==
  ASSUME NEW base, IsSequence(base), NEW n
  PROVE  IsSequence(ElementPath(base, n)) /\ Len(ElementPath(base, n)) = Len(base) + 1
<1>1. base \o <<Index(n)>> = Append(base, Index(n))
  BY ConcatOne
<1> DEFINE q == Append(base, Index(n))
<1>2. IsSequence(q) /\ Len(q) = Len(base) + 1
  BY AppendFacts
<1> HIDE DEF q
<1>3. q \o <<>> = q
  BY <1>2, ConcatNone
<1>4. ElementPath(base, n) = q
  BY <1>1, <1>3 DEF ElementPath, q
<1>5. QED
  BY <1>2, <1>4

\* An element that was begun at the first column is offered its rest where it begins an object.
LEMMA RestOffered ==
  ASSUME ParserOK, Together, Rooted, Entered, NEW path, path = ListPath(Nearest(lines, 2), 2, <<>>)[1],
         GeneralizePath(path) = Root
  PROVE  IsListPath(path) /\ ListStack(0) # <<>> /\ Len(ListStack(0)) = 1
<1> DEFINE prev == Nearest(lines, 2)
           old == lines[prev].path
<1>1. \A base, n : IsSequence(base) /\ path = ElementPath(base, n)
        => IsSequence(path) /\ Len(path) = Len(base) + 1
  BY ElementPathIs
<1> DEFINE length == Len(path)
<1>2. IsSequence(path) => (IsListPath(path) /\ length = 2) \/ (~IsListPath(path) /\ length = 1)
  BY GeneralizedRoot
<1> HIDE DEF length
<1>3. CASE prev = 0
  <2>1. path = ElementPath(Root, 0)
    <3>1. ListPath(0, 2, <<>>) = <<ElementPath(Root, 0), 0>>
      BY FirstPath DEF ElementPath
    <3>2. QED
      BY <1>3, <3>1
  <2>2. IsSequence(Root) /\ Len(Root) = 1
    BY RootOK DEF PathOK, Root
  <2>3. IsSequence(path) /\ length = 2
    <3>1. IsSequence(path) /\ length = Len(Root) + 1
      BY <1>1, <2>1, <2>2 DEF length
    <3>2. QED
      BY <2>2, <3>1
  <2>4. ~yaml.body
    BY <1>3, BodyReached
  <2>5. QED
    BY <1>2, <2>3, <2>4, FirstElement
<1>4. CASE prev # 0
  <2>1. /\ prev \in 1..Len(lines) /\ prev \in DOMAIN lines
        /\ IsEntry(lines[prev]) /\ lines[prev].indent <= 2
    BY <1>4, NearestFound, SequenceFacts DEF ParserOK, Reaches
  <2>2. lines[prev].indent \in Nat /\ PathOK(old) /\ IsSequence(old) /\ Len(old) \in Nat /\ Len(old) >= 2
    BY <2>1, SequenceFacts DEF ParserOK, LineOK, Together, LineAgrees, PathOK, Entered, EntryOK
  <2> DEFINE indent == lines[prev].indent
  <2>3. CASE indent < 2
    <3>1. path = ElementPath(old, 0)
      <4>1. lines[prev].indent < 2 /\ lines[prev].indent # 2
        BY <2>2, <2>3
      <4> HIDE DEF prev
      <4>2. ListPath(prev, 2, <<>>) = <<ElementPath(old, 0), 0>>
        BY <1>4, <4>1, ChildPath DEF ElementPath
      <4>3. QED
        BY <4>2 DEF prev
    <3> HIDE DEF prev
    <3>2. IsSequence(path) /\ length = Len(old) + 1
      BY <1>1, <2>2, <3>1 DEF length
    <3>3. length >= 3
      BY <2>2, <3>2
    <3>4. QED
      BY <1>2, <3>2, <3>3
  <2>4. CASE indent = 2 /\ LastIndex(old) = 0
    <3>1. path = <<>>
      BY <1>4, <2>4 DEF ListPath
    <3>2. IsSequence(path) /\ length = 0
      BY <3>1, EmptySeq, SequenceOfAny DEF length
    <3>3. QED
      BY <1>2, <3>2
  <2>5. CASE indent = 2 /\ LastIndex(old) # 0
    <3> DEFINE at == LastIndex(old)
               base == Upto(old, at)
               n == lines[prev].listIndex + 1
    <3>1. at \in 1..Len(old) /\ IsIndex(old[at])
      BY <2>2, <2>5, LastIndexIs
    <3>2. path = ElementPath(base, n)
      <4>1. lines[prev].indent = 2 /\ ~(lines[prev].indent < 2) /\ LastIndex(lines[prev].path) # 0
        BY <2>5
      <4> HIDE DEF prev
      <4>2. ListPath(prev, 2, <<>>) = <<ElementPath(base, n), n>>
        BY <1>4, <4>1, SiblingItemPath DEF ElementPath
      <4>3. QED
        BY <4>2 DEF prev
    <3>3. IsSequence(base) /\ Len(base) = at - 1
      BY <2>2, <3>1, UptoIs
    <3> HIDE DEF base, n
    <3>4. IsSequence(path) /\ length = Len(base) + 1
      BY <1>1, <3>2, <3>3 DEF length
    <3>5. at # 1
      <4>1. old[1] = Root[1] /\ ~IsIndex(Root[1])
        BY <2>2, StepKinds DEF PathOK
      <4>2. QED
        BY <3>1, <4>1
    <3> HIDE DEF at, prev
    <3>6. at = 2 /\ IsListPath(path)
      <4>1. length = at
        BY <2>2, <3>1, <3>3, <3>4
      <4>2. QED
        BY <1>2, <3>4, <3>5, <4>1
    <3>7. IsListPath(old)
      BY <2>2, <3>1, <3>6 DEF IsListPath, PathOK
    <3>8. yaml.body /\ yaml.stack[1].kind = "list"
      BY <2>1, <3>7, ListBody
    <3>9. QED
      BY <3>6, <3>8, NextElement
  <2>6. QED
    BY <2>1, <2>2, <2>3, <2>4, <2>5
<1>5. QED
  BY <1>3, <1>4

\* A line at the first column is not in an element of the document unless it is one.
LEMMA NoElementThere ==
  ASSUME ParserOK, Together, Rooted, NEW path, path = OtherPath(Nearest(lines, 0), 0, <<>>)[1]
  PROVE  ~IsListPath(path)
<1> DEFINE prev == Nearest(lines, 0)
           old == lines[prev].path
<1>1. ~IsListPath(Root) /\ ~IsListPath(<<>>)
  BY DEF IsListPath, Root
<1>2. CASE prev = 0
  <2>1. Root \o <<>> = Root
    BY RootOK, ConcatNone DEF PathOK
  <2>2. OtherPath(0, 0, <<>>) = <<Root, 0>>
    BY <2>1, FirstPath
  <2>3. QED
    BY <1>1, <1>2, <2>2
<1>3. CASE prev # 0
  <2>1. /\ prev \in DOMAIN lines /\ IsEntry(lines[prev]) /\ lines[prev].indent <= 0
    BY <1>3, NearestFound, SequenceFacts DEF ParserOK, Reaches
  <2>2. lines[prev].indent \in Nat /\ PathOK(old) /\ IsSequence(old) /\ Len(old) \in Nat
    BY <2>1, SequenceFacts DEF ParserOK, LineOK, Together, LineAgrees, PathOK
  <2>3. lines[prev].indent = 0
    BY <2>1, <2>2
  <2>4. ~IsListPath(old)
    BY <2>1, <2>3, ListBody
  <2>5. CASE LastKey(old) = 0
    <3>1. path = <<>>
      BY <1>3, <2>3, <2>5 DEF OtherPath
    <3>2. QED
      BY <1>1, <3>1
  <2>6. CASE LastKey(old) # 0
    <3> DEFINE at == LastKey(old)
               base == Upto(old, at)
    <3>1. path = base \o <<>>
      <4>1. lines[prev].indent = 0 /\ ~(lines[prev].indent < 0) /\ LastKey(lines[prev].path) # 0
        BY <2>3, <2>6
      <4> HIDE DEF prev
      <4>2. OtherPath(prev, 0, <<>>) = <<base \o <<>>, lines[prev].listIndex>>
        BY <1>3, <4>1, SiblingKeyPath
      <4> DEFINE q == base \o <<>>
      <4> HIDE DEF q
      <4>3. OtherPath(prev, 0, <<>>)[1] = q
        BY <4>2 DEF q
      <4>4. QED
        BY <4>3 DEF prev, q
    <3>2. at \in 1..Len(old)
      BY <2>2, <2>6, LastInPath
    <3>3. IsSequence(base) /\ Len(base) = at - 1 /\ \A i \in 1..(at - 1) : base[i] = old[i]
      BY <2>2, <3>2, UptoIs
    <3> HIDE DEF base
    <3>4. path = base
      BY <3>1, <3>3, ConcatNone
    <3> HIDE DEF at, prev
    <3>5. ASSUME IsListPath(base) PROVE FALSE
      <4>1. at - 1 \in Nat /\ at - 1 > 1 /\ base[1] = Root[1] /\ IsIndex(base[2])
        BY <2>2, <3>2, <3>3, <3>5 DEF IsListPath
      <4>2. base[2] = old[2]
        BY <3>3, <4>1
      <4>3. Len(old) > 1 /\ old[1] = Root[1]
        BY <2>2, <3>2, <4>1 DEF PathOK
      <4>4. QED
        BY <2>4, <4>1, <4>2, <4>3 DEF IsListPath
    <3>6. QED
      BY <3>4, <3>5
  <2>7. QED
    BY <2>5, <2>6
<1>4. QED
  BY <1>2, <1>3

\* Which of the cases of Complete a snippet comes from.
LEMMA SnippetCases ==
  ASSUME NEW line, Snippet(line) # "none"
  PROVE  /\ GeneralizePath(line.path) = Root
         /\ IF IsListPath(line.path) THEN Snippet(line) = "rest of element"
            ELSE \/ /\ PreviousLine # <<>> /\ "list" \in PreviousLine[1].type
                    /\ Snippet(line) = "element"
                 \/ Snippet(line) = "new document"
                 \/ /\ PreviousLine = <<>> \/ "separator" \in PreviousLine[1].type
                    /\ Snippet(line) = "document"
<1>1. GeneralizePath(line.path) = Root
  BY DEF Snippet
<1>2. CASE IsListPath(line.path)
  BY <1>1, <1>2 DEF Snippet
<1>3. CASE ~IsListPath(line.path)
  <2> DEFINE previous == PreviousLine
  <2>1. Snippet(line) =
          CASE previous # <<>> /\ "list" \in previous[1].type -> "element"
            [] previous # <<>> /\ previous[1].type \intersect {"list", "separator"} = {} -> "new document"
            [] OTHER -> "document"
    BY <1>1, <1>3 DEF Snippet
  <2> HIDE DEF previous
  <2>2. CASE previous # <<>> /\ "list" \in previous[1].type
    <3>1. ~(previous[1].type \intersect {"list", "separator"} = {})
      BY <2>2
    <3>2. Snippet(line) = "element"
      BY <2>1, <2>2, <3>1
    <3>3. QED
      BY <1>1, <1>3, <2>2, <3>2 DEF previous
  <2>3. CASE previous # <<>> /\ previous[1].type \intersect {"list", "separator"} = {}
    <3>1. ~("list" \in previous[1].type)
      BY <2>3
    <3>2. Snippet(line) = "new document"
      BY <2>1, <2>3, <3>1
    <3>3. QED
      BY <1>1, <1>3, <3>2
  <2>4. CASE previous = <<>> \/ ("list" \notin previous[1].type /\ "separator" \in previous[1].type)
    <3>1. /\ ~(previous # <<>> /\ "list" \in previous[1].type)
          /\ ~(previous # <<>> /\ previous[1].type \intersect {"list", "separator"} = {})
      BY <2>4
    <3>2. Snippet(line) = "document"
      BY <2>1, <3>1
    <3>3. QED
      BY <1>1, <1>3, <2>4, <3>2 DEF previous
  <2>5. QED
    BY <2>2, <2>3, <2>4
<1>4. QED
  BY <1>2, <1>3

\* A snippet offered in a YAML text is an object of its own when accepted: the text before the
\* cursor, with the keys or the element of the snippet, has one more.  (The elements of a list
\* within an object are left out, as in the property.)
THEOREM SnippetsAlwaysObjects == Spec => []SnippetsAreObjects
<1>1. TreeInv /\ (Usual => Entered) => SnippetsAreObjects
  <2> SUFFICES ASSUME ParserOK, Known, Together, Rooted, ObjectsBegun, Entered,
                      NEW raw \in AtCursor, raw.column = 0, raw.shape \in {"empty", "text", "value"},
                      Snippet(Parsed(raw, <<>>)) # "none",
                      ~(Snippet(Parsed(raw, <<>>)) = "element" /\ Head(yaml.stack).kind = "map"),
                      ~IsContent(raw)
               PROVE  AddsObject(raw, Snippet(Parsed(raw, <<>>)))
    BY DEF TreeInv, IInv, SnippetsAreObjects
  <2> DEFINE line == Parsed(raw, <<>>)
             path == line.path
             snippet == Snippet(line)
             element == [raw EXCEPT !.shape = "item"]
  <2>1. /\ raw.shape = "value" => path = ListPath(Nearest(lines, 2), 2, <<>>)[1]
        /\ raw.shape \in {"empty", "text"} => path = OtherPath(Nearest(lines, 0), 0, <<>>)[1]
    BY CursorPath
  <2>2. /\ GeneralizePath(path) = Root
        /\ IF IsListPath(path) THEN snippet = "rest of element"
           ELSE \/ PreviousLine # <<>> /\ "list" \in PreviousLine[1].type /\ snippet = "element"
                \/ snippet = "new document"
                \/ /\ PreviousLine = <<>> \/ "separator" \in PreviousLine[1].type
                   /\ snippet = "document"
    BY SnippetCases
  <2> HIDE DEF line, path, snippet
  <2>3. element \in Raw /\ element.shape = "item" /\ element.column = 0 /\ ~IsContent(element)
    BY DEF AtCursor, Raw, IsContent, Item, Mapping
  <2>4. CASE raw.shape = "value"
    <3>1. IsListPath(path) /\ ListStack(0) # <<>> /\ Len(ListStack(0)) = 1
      BY <2>1, <2>2, <2>4, RestOffered
    <3>2. Typed(raw) = element /\ IsElement(raw)
      BY <2>4 DEF Typed, IsElement
    <3> HIDE DEF element
    <3>3. RefOf(element) # <<>> /\ BeginsObject(element)
      BY <2>3, <3>1, ElementAdds
    <3>4. snippet = "rest of element"
      BY <2>2, <3>1
    <3>5. QED
      BY <3>2, <3>3, <3>4 DEF AddsObject, snippet, line
  <2>5. CASE raw.shape \in {"empty", "text"}
    <3>1. ~IsListPath(path)
      BY <2>1, <2>5, NoElementThere
    <3>2. ~IsElement(raw)
      BY <2>5 DEF IsElement
    <3>3. /\ PreviousLine # <<>> /\ "list" \in PreviousLine[1].type => yaml.body
          /\ yaml.body => PreviousLine # <<>> /\ "separator" \notin PreviousLine[1].type
      BY BeforeCursor
    <3>4. CASE snippet = "new document"
      BY <3>4 DEF AddsObject, snippet, line
    <3>5. CASE snippet = "element"
      <4>1. yaml.body
        BY <2>2, <3>1, <3>3, <3>5
      <4>2. FrameOK(yaml.stack[1]) /\ Head(yaml.stack) = yaml.stack[1]
        BY <4>1, RootFrame DEF Together, Rooted, RootedIn
      <4>3. yaml.stack[1].kind = "list"
        BY <3>5, <4>2 DEF FrameOK, snippet, line
      <4>4. ListStack(0) # <<>> /\ Len(ListStack(0)) = 1
        BY <4>1, <4>3, NextElement
      <4> DEFINE item == element
      <4> HIDE DEF element
      <4>5. RefOf(item) # <<>> /\ BeginsObject(item)
        BY <2>3, <4>4, ElementAdds
      <4>6. AddsObject(raw, "element")
        BY <3>2, <4>5 DEF AddsObject, element
      <4>7. QED
        BY <3>5, <4>6 DEF snippet, line
    <3>6. CASE snippet = "document"
      <4>1. ~yaml.body
        BY <2>2, <3>1, <3>3, <3>6
      <4> DEFINE key == Typed(raw)
                 f == Frame("map", 0, Root, 0)
      <4>2. key.shape = "key" /\ key.column = 0 /\ ~IsContent(key)
        <5>1. key.shape = "key" /\ key.column = 0
          BY <2>5, CursorRaw
        <5>2. QED
          BY <5>1 DEF IsContent, Typed
      <4>3. MapStack(0) = <<f>> /\ f.path = Root
        BY <4>1, FirstElement, FrameFields
      <4> HIDE DEF key, f
      <4>4. RefOf(key) = Append(Root, Key(Number))
        <5> DEFINE stack == MapStack(0)
        <5>1. stack # <<>> /\ Last(stack).path = Root
          BY <4>3 DEF Last
        <5> HIDE DEF stack
        <5>2. stack = MapStack(key.column)
          BY <4>2 DEF stack
        <5>3. QED
          BY <4>2, <5>1, <5>2 DEF RefOf, Mapping, Item
      <4>5. RefOf(key) # <<>>
        BY <4>4, RootOK, AppendFacts DEF PathOK
      <4>6. BeginsObject(key)
        BY <4>1, <4>2 DEF BeginsObject, Mapping
      <4>7. AddsObject(raw, "document")
        BY <3>2, <4>5, <4>6 DEF AddsObject, key
      <4>8. QED
        BY <3>6, <4>7 DEF snippet, line
    <3>7. QED
      BY <2>2, <3>1, <3>4, <3>5, <3>6
  <2>6. QED
    BY <2>4, <2>5
<1>2. QED
  BY <1>1, EnteredInvariant, PTL
=============================================================================
