--------------------------- MODULE SimpleYamlProofs ---------------------------
(***************************************************************************)
(* Theorems about SimpleYaml, for texts of any lines and any length: no    *)
(* line is lost or shifted when documents are split into objects, and in a *)
(* plain YAML text the paths of the parser are those of YAML, so that the  *)
(* kind and version of an object are its own.                              *)
(*                                                                         *)
(* The second rests on "Together": each mapping and list that YAML still   *)
(* has open is shown by the line that the parser would begin the path of   *)
(* its next sibling with.                                                  *)
(***************************************************************************)
EXTENDS SimpleYaml, SequenceLemmas, FiniteSetTheorems

-----------------------------------------------------------------------------
(* Lines and the documents they are in.                                     *)

\* Each line of these has its number, the first of them being that after the offset.
Numbered(some, offset) == \A i \in DOMAIN some : some[i].number = offset + i

DocumentOK(doc) ==
  /\ doc.offset \in Nat
  /\ IsSequence(doc.lines)
  /\ Numbered(doc.lines, doc.offset)

EndOfDocument(doc) == doc.offset + Len(doc.lines)

\* Documents that follow each other from the first line on.
Consecutive(some) ==
  /\ IsSequence(some)
  /\ \A n \in DOMAIN some :
       /\ DocumentOK(some[n]) /\ some[n].lines # <<>>
       /\ some[n].offset = IF n = 1 THEN 0 ELSE EndOfDocument(some[n - 1])

LineTypes == {"mapping", "list", "empty", "comment", "undefined", "blockScalar"}

LineOK(line) ==
  /\ line.indent \in Nat /\ line.listIndex \in Nat
  /\ line.type \subseteq LineTypes

ParserOK ==
  /\ Consecutive(docs)
  /\ IsSequence(lines) /\ Numbered(lines, Offset)
  /\ \A i \in DOMAIN lines : LineOK(lines[i])
  /\ scalar \in Nat \union {None}

YamlOK ==
  /\ yaml = [stack |-> yaml.stack, open |-> yaml.open, scalar |-> yaml.scalar, body |-> yaml.body,
             objects |-> yaml.objects, valid |-> yaml.valid, plain |-> yaml.plain]
  /\ yaml.valid \in BOOLEAN /\ yaml.plain \in BOOLEAN /\ yaml.body \in BOOLEAN

LEMMA SequenceFacts ==
  ASSUME NEW s, IsSequence(s)
  PROVE  /\ Len(s) \in Nat /\ DOMAIN s = 1..Len(s)
         /\ s = <<>> <=> Len(s) = 0
<1>1. Len(s) \in Nat /\ DOMAIN s = 1..Len(s)
  BY LenProperties DEF IsSequence
<1>2. s # <<>> => Len(s) # 0
  BY EmptySeq DEF IsSequence
<1>3. s = <<>> => Len(s) = 0
  BY EmptySeq
<1>4. QED
  BY <1>1, <1>2, <1>3

LEMMA AppendFacts ==
  ASSUME NEW s, NEW x, IsSequence(s)
  PROVE  /\ IsSequence(Append(s, x)) /\ Len(Append(s, x)) = Len(s) + 1
         /\ DOMAIN Append(s, x) = 1..(Len(s) + 1)
         /\ \A i \in DOMAIN s : Append(s, x)[i] = s[i]
         /\ Append(s, x)[Len(s) + 1] = x
         /\ Append(s, x) # <<>>
<1> DEFINE S == ToSet(s) \union {x}
<1>1. s \in Seq(S) /\ x \in S
  BY SequenceOfMore
<1> HIDE DEF S
<1>2. /\ Append(s, x) \in Seq(S) /\ Append(s, x) # <<>> /\ Len(Append(s, x)) = Len(s) + 1
      /\ \A i \in 1..Len(s) : Append(s, x)[i] = s[i]
      /\ Append(s, x)[Len(s) + 1] = x
  BY <1>1, AppendProperties
<1>3. IsSequence(Append(s, x)) /\ DOMAIN Append(s, x) = 1..Len(Append(s, x))
  BY <1>2, SequenceOfAny, LenProperties
<1>4. QED
  BY <1>2, <1>3, SequenceFacts

LEMMA LastOfAppend ==
  ASSUME NEW s, NEW x, IsSequence(s)
  PROVE  Last(Append(s, x)) = x
BY AppendFacts DEF Last

\* Of numbers up to a bound there is a greatest.
LEMMA GreatestNumber ==
  ASSUME NEW T, NEW b \in Nat, T \subseteq 0..b, T # {}
  PROVE  \E n \in T : \A m \in T : m <= n
<1> DEFINE U == {b - n : n \in T}
<1>1. U \in SUBSET Nat /\ U # {}
  <2>1. \A n \in T : b - n \in Nat
    OBVIOUS
  <2>2. QED
    BY <2>1
<1>2. PICK u \in U : \A m \in U : u <= m
  <2> HIDE DEF U
  <2>1. QED
    BY <1>1, LeastNumber
<1>3. PICK n \in T : u = b - n
  OBVIOUS
<1>4. ASSUME NEW m \in T
      PROVE  m <= n
  <2>1. b - m \in U
    OBVIOUS
  <2>2. b - n <= b - m
    BY <1>2, <1>3, <2>1
  <2>3. m \in 0..b /\ n \in 0..b
    OBVIOUS
  <2>4. QED
    BY <2>2, <2>3
<1>5. QED
  BY <1>4

LEMMA MaxOf ==
  ASSUME NEW T, NEW b \in Nat, T \subseteq 0..b, T # {}
  PROVE  Max(T) \in T /\ \A m \in T : m <= Max(T)
<1>1. \E n \in T : \A m \in T : n >= m
  BY GreatestNumber
<1>2. /\ Max(T) \in T
      /\ \A m \in T : Max(T) >= m
  BY <1>1, Zenon DEF Max
<1>3. QED
  BY <1>2

\* findPreviousLine finds a line that is not deeper, or none.
LEMMA PreviousFound ==
  ASSUME NEW indent \in Nat, IsSequence(lines)
  PROVE  /\ Previous(indent) \in 0..Len(lines)
         /\ Previous(indent) # 0 => IsEntry(lines[Previous(indent)]) /\ lines[Previous(indent)].indent <= indent
<1> DEFINE candidates == {i \in 1..Len(lines) : IsEntry(lines[i]) /\ lines[i].indent <= indent}
<1>1. Len(lines) \in Nat
  BY SequenceFacts
<1>2. CASE candidates = {}
  <2>1. Previous(indent) = 0
    BY <1>2 DEF Previous
  <2>2. QED
    BY <1>1, <2>1
<1>3. CASE candidates # {}
  <2>1. candidates \subseteq 0..Len(lines)
    BY <1>1
  <2>2. \E i \in candidates : \A j \in candidates : j <= i
    <3> HIDE DEF candidates
    <3>1. QED
      BY <1>1, <1>3, <2>1, GreatestNumber
  <2>3. Previous(indent) = CHOOSE i \in candidates : \A j \in candidates : j <= i
    BY <1>3 DEF Previous
  <2>4. Previous(indent) \in candidates
    <3> HIDE DEF candidates
    <3>1. QED
      BY <2>2, <2>3, Zenon
  <2>5. QED
    BY <1>1, <2>4
<1>4. QED
  BY <1>2, <1>3

-----------------------------------------------------------------------------
(* The type invariant.                                                      *)

LEMMA RawColumn ==
  ASSUME NEW raw \in Raw
  PROVE  raw.column \in Nat
<1>1. Columns \subseteq Nat
  BY YamlAssumption
<1> DEFINE A == Mapping \union Item \union {"value", "text", "empty", "comment"}
           B == {"separator", "dashes"}
<1>2. raw \in [column : Columns, shape : A] \/ raw \in [column : {0}, shape : B]
  BY Zenon DEF Raw
<1> HIDE DEF A, B
<1>3. CASE raw \in [column : Columns, shape : A]
  <2>1. raw.column \in Columns
    BY <1>3
  <2>2. QED
    BY <1>1, <2>1
<1>4. CASE raw \in [column : {0}, shape : B]
  <2>1. raw.column \in {0}
    BY <1>4
  <2>2. QED
    BY <2>1
<1>5. QED
  BY <1>2, <1>3, <1>4

LEMMA PathIndex ==
  ASSUME NEW raw \in Raw, IsSequence(lines), \A i \in DOMAIN lines : LineOK(lines[i])
  PROVE  IndentOf(raw) \in Nat /\ PathOf(raw)[2] \in Nat
<1> DEFINE indent == IndentOf(raw)
           prev == Previous(indent)
<1>1. raw.column \in Nat
  BY RawColumn
<1>2. indent \in Nat
  BY <1>1 DEF IndentOf
<1>3. prev # 0 => lines[prev].listIndex \in Nat
  <2>1. prev \in 0..Len(lines)
    BY <1>2, PreviousFound
  <2>2. Len(lines) \in Nat /\ DOMAIN lines = 1..Len(lines)
    BY SequenceFacts
  <2>3. QED
    BY <2>1, <2>2 DEF LineOK
<1> HIDE DEF indent, prev
<1>4. \A key : ListPath(prev, indent, key)[2] \in Nat
  BY <1>3 DEF ListPath
<1>5. \A key : OtherPath(prev, indent, key)[2] \in Nat
  BY <1>3 DEF OtherPath
<1>6. PathOf(raw) \in {<<<<>>, 0>>, ListPath(prev, indent, KeyOf(raw)), OtherPath(prev, indent, KeyOf(raw))}
  BY DEF PathOf, indent, prev
<1>7. QED
  BY <1>2, <1>4, <1>5, <1>6 DEF indent

LEMMA ParsedOK ==
  ASSUME NEW raw \in Raw, NEW ref, ParserOK
  PROVE  /\ Parsed(raw, ref).number = Number
         /\ raw.shape # "separator" => LineOK(Parsed(raw, ref))
<1>1. IndentOf(raw) \in Nat /\ PathOf(raw)[2] \in Nat
  BY PathIndex DEF ParserOK
<1>2. raw.shape # "separator" => TypeOf(raw) \subseteq LineTypes
  BY DEF TypeOf, LineTypes, Raw, Mapping, Item
<1>3. QED
  BY <1>1, <1>2 DEF Parsed, LineOK

\* A line more, at the end of what is numbered.
LEMMA NumberedAppend ==
  ASSUME NEW some, NEW offset \in Nat, NEW line, IsSequence(some), Numbered(some, offset),
         line.number = offset + Len(some) + 1
  PROVE  IsSequence(Append(some, line)) /\ Numbered(Append(some, line), offset)
<1>1. Len(some) \in Nat /\ DOMAIN some = 1..Len(some)
  BY SequenceFacts
<1>2. QED
  BY <1>1, AppendFacts DEF Numbered

\* The offset of the document that is being parsed.
LEMMA OffsetNat ==
  ASSUME NEW some, Consecutive(some)
  PROVE  /\ some # <<>> => Len(some) \in DOMAIN some /\ Last(some) = some[Len(some)]
         /\ \A n \in DOMAIN some : EndOfDocument(some[n]) \in Nat
<1>1. Len(some) \in Nat /\ DOMAIN some = 1..Len(some) /\ (some = <<>> <=> Len(some) = 0)
  BY SequenceFacts DEF Consecutive
<1>2. \A n \in DOMAIN some : some[n].offset \in Nat /\ Len(some[n].lines) \in Nat
  BY SequenceFacts DEF Consecutive, DocumentOK
<1>3. QED
  BY <1>1, <1>2 DEF Last, EndOfDocument

LEMMA ConsecutiveAppend ==
  ASSUME NEW some, NEW doc, Consecutive(some), DocumentOK(doc), doc.lines # <<>>,
         doc.offset = IF some = <<>> THEN 0 ELSE EndOfDocument(Last(some))
  PROVE  Consecutive(Append(some, doc))
<1>1. /\ Len(some) \in Nat /\ DOMAIN some = 1..Len(some) /\ (some = <<>> <=> Len(some) = 0)
      /\ IsSequence(some)
  BY SequenceFacts DEF Consecutive
<1>2. /\ IsSequence(Append(some, doc)) /\ DOMAIN Append(some, doc) = 1..(Len(some) + 1)
      /\ \A n \in DOMAIN some : Append(some, doc)[n] = some[n]
      /\ Append(some, doc)[Len(some) + 1] = doc
  BY <1>1, AppendFacts
<1>3. ASSUME NEW n \in 1..Len(some)
      PROVE  /\ DocumentOK(Append(some, doc)[n]) /\ Append(some, doc)[n].lines # <<>>
             /\ Append(some, doc)[n].offset = IF n = 1 THEN 0 ELSE EndOfDocument(Append(some, doc)[n - 1])
  <2>1. n \in DOMAIN some /\ Append(some, doc)[n] = some[n]
    BY <1>1, <1>2
  <2>2. n # 1 => n - 1 \in DOMAIN some
    BY <1>1
  <2>3. n # 1 => Append(some, doc)[n - 1] = some[n - 1]
    BY <1>2, <2>2
  <2>4. QED
    BY <2>1, <2>3 DEF Consecutive
<1>4. some # <<>> => Last(some) = Append(some, doc)[Len(some)] /\ Len(some) + 1 # 1
  <2>1. some # <<>> => Len(some) \in DOMAIN some /\ Last(some) = some[Len(some)]
    BY OffsetNat
  <2>2. some # <<>> => Len(some) + 1 # 1
    BY <1>1
  <2>3. some # <<>> => Last(some) = Append(some, doc)[Len(some)]
    BY <1>2, <2>1
  <2>4. QED
    BY <2>2, <2>3
<1>5. doc.offset = IF Len(some) + 1 = 1 THEN 0 ELSE EndOfDocument(Append(some, doc)[Len(some) + 1 - 1])
  <2>1. Len(some) + 1 - 1 = Len(some) /\ (Len(some) + 1 = 1 <=> some = <<>>)
    BY <1>1
  <2>2. QED
    BY <1>4, <2>1
<1>6. ASSUME NEW n \in 1..(Len(some) + 1)
      PROVE  /\ DocumentOK(Append(some, doc)[n]) /\ Append(some, doc)[n].lines # <<>>
             /\ Append(some, doc)[n].offset = IF n = 1 THEN 0 ELSE EndOfDocument(Append(some, doc)[n - 1])
  <2>1. CASE n = Len(some) + 1
    BY <1>2, <1>5, <2>1
  <2>2. CASE n # Len(some) + 1
    <3>1. n \in 1..Len(some)
      BY <1>1, <2>2
    <3>2. QED
      BY <1>3, <3>1
  <2>3. QED
    BY <2>1, <2>2
<1>7. QED
  BY <1>2, <1>6 DEF Consecutive

LEMMA OffsetIs ==
  ASSUME ParserOK
  PROVE  /\ Offset \in Nat /\ Len(lines) \in Nat /\ Number = Offset + Len(lines) + 1
         /\ Offset = IF docs = <<>> THEN 0 ELSE EndOfDocument(Last(docs))
<1>1. docs # <<>> => EndOfDocument(Last(docs)) \in Nat
  BY OffsetNat DEF ParserOK
<1>2. Len(lines) \in Nat
  BY SequenceFacts DEF ParserOK
<1>3. QED
  BY <1>1, <1>2 DEF Offset, Number, EndOfDocument

LEMMA ParserStep ==
  ASSUME ParserOK, [Next]_vars
  PROVE  ParserOK'
<1>1. CASE UNCHANGED vars
  BY <1>1 DEF vars, ParserOK, Offset
<1>2. ASSUME NEW raw \in Raw, ReadLine(raw)
      PROVE  ParserOK'
  <2>1. Offset \in Nat /\ Len(lines) \in Nat /\ Number = Offset + Len(lines) + 1
    BY OffsetIs
  <2>2. scalar' \in Nat \union {None}
    <3>1. raw.column \in Nat
      BY RawColumn
    <3>2. QED
      BY <1>2, <3>1 DEF ReadLine, ScalarAfter, ParserOK
  <2>3. CASE ReadSeparator(raw)
    <3> DEFINE line == Parsed(raw, <<>>)
               doc == [offset |-> Offset, lines |-> Append(lines, line)]
    <3>1. line.number = Number
      BY ParsedOK
    <3> HIDE DEF line
    <3>2. IsSequence(doc.lines) /\ Numbered(doc.lines, Offset) /\ doc.lines # <<>>
      BY <2>1, <3>1, NumberedAppend, AppendFacts DEF ParserOK
    <3>3. DocumentOK(doc)
      BY <2>1, <3>2 DEF DocumentOK
    <3>4. docs' = Append(docs, doc) /\ lines' = <<>>
      BY <2>3 DEF ReadSeparator, line
    <3>5. doc.offset = IF docs = <<>> THEN 0 ELSE EndOfDocument(Last(docs))
      BY OffsetIs
    <3> HIDE DEF doc
    <3>6. Consecutive(docs')
      BY <3>2, <3>3, <3>4, <3>5, ConsecutiveAppend DEF ParserOK
    <3>7. IsSequence(lines') /\ DOMAIN lines' = {}
      BY <3>4, NoElement
    <3>8. QED
      BY <2>2, <3>6, <3>7 DEF ParserOK, Numbered
  <2>4. CASE ReadOther(raw)
    <3> DEFINE line == Parsed(raw, RefOf(raw))
    <3>1. line.number = Number /\ LineOK(line)
      BY <2>4, ParsedOK DEF ReadOther
    <3>2. lines' = Append(lines, line) /\ docs' = docs
      BY <2>4 DEF ReadOther
    <3> HIDE DEF line
    <3>3. Offset' = Offset
      BY <3>2 DEF Offset
    <3>4. IsSequence(lines') /\ Numbered(lines', Offset)
      BY <2>1, <3>1, <3>2, NumberedAppend DEF ParserOK
    <3>5. ASSUME NEW i \in DOMAIN lines'
          PROVE  LineOK(lines'[i])
      <4>1. /\ DOMAIN lines = 1..Len(lines) /\ DOMAIN lines' = 1..(Len(lines) + 1)
            /\ \A j \in DOMAIN lines : lines'[j] = lines[j]
            /\ lines'[Len(lines) + 1] = line
        BY <3>2, AppendFacts, SequenceFacts DEF ParserOK
      <4>2. i \in DOMAIN lines \/ i = Len(lines) + 1
        BY <2>1, <4>1
      <4>3. QED
        BY <3>1, <4>1, <4>2 DEF ParserOK
    <3>6. QED
      BY <2>2, <3>2, <3>3, <3>4, <3>5 DEF ParserOK
  <2>5. QED
    BY <1>2, <2>3, <2>4 DEF ReadLine
<1>3. QED
  BY <1>1, <1>2 DEF Next

LEMMA YamlStep ==
  ASSUME YamlOK, [Next]_vars
  PROVE  YamlOK'
<1>1. CASE UNCHANGED vars
  BY <1>1 DEF vars, YamlOK
<1>2. ASSUME NEW raw \in Raw, ReadLine(raw)
      PROVE  YamlOK'
  <2>1. yaml' = YamlAfter(raw)
    BY <1>2 DEF ReadLine
  <2>2. QED
    BY <2>1 DEF YamlAfter, YamlOK, Fresh
<1>3. QED
  BY <1>1, <1>2 DEF Next

LEMMA DocumentsConsecutive ==
  ASSUME ParserOK
  PROVE  Consecutive(Documents)
<1>1. CASE lines = <<>>
  BY <1>1 DEF Documents, ParserOK
<1>2. CASE lines # <<>>
  <2> DEFINE doc == [offset |-> Offset, lines |-> lines]
  <2>1. Offset \in Nat /\ (Offset = IF docs = <<>> THEN 0 ELSE EndOfDocument(Last(docs)))
    BY OffsetIs
  <2>2. DocumentOK(doc) /\ doc.lines # <<>>
    BY <1>2, <2>1 DEF DocumentOK, ParserOK
  <2>3. doc.offset = IF docs = <<>> THEN 0 ELSE EndOfDocument(Last(docs))
    BY <2>1
  <2>4. Documents = Append(docs, doc)
    BY <1>2 DEF Documents
  <2> HIDE DEF doc
  <2>5. QED
    BY <2>2, <2>3, <2>4, ConsecutiveAppend DEF ParserOK
<1>3. QED
  BY <1>1, <1>2

IInv == ParserOK /\ YamlOK

LEMMA Invariant == Spec => []IInv
<1>1. Init => IInv
  <2> SUFFICES ASSUME Init PROVE IInv
    OBVIOUS
  <2>1. IsSequence(<<>>) /\ DOMAIN <<>> = {}
    BY NoElement
  <2>2. QED
    BY <2>1 DEF Init, IInv, ParserOK, YamlOK, Consecutive, Numbered, Fresh, None
<1>2. IInv /\ [Next]_vars => IInv'
  BY ParserStep, YamlStep DEF IInv
<1>3. QED
  BY <1>1, <1>2, PTL DEF Spec

\* The type invariant: every line has a type, an indent and a list index the parser knows, and
\* no document is empty.
THEOREM TypeCorrect == Spec => []TypeOK
<1>1. IInv => TypeOK
  <2> SUFFICES ASSUME IInv PROVE TypeOK
    OBVIOUS
  <2>1. \A n \in DOMAIN Documents : Documents[n].lines # <<>>
    BY DocumentsConsecutive DEF IInv, Consecutive
  <2>2. QED
    BY <2>1 DEF TypeOK, IInv, ParserOK, YamlOK, LineOK, LineTypes
<1>2. QED
  BY <1>1, Invariant, PTL

-----------------------------------------------------------------------------
(* Every line is found: each has its number in its object, and each is in   *)
(* an object.                                                               *)

\* The object has the line of this number, by its offset.
Holds(node, number) == number - node.offset \in 1..Len(node.lines)

LEMMA HoldsBetween ==
  ASSUME NEW node, NEW offset \in Nat, NEW i \in Nat, NEW j \in Nat, NEW end \in Nat,
         1 <= i, i <= j, j <= end, Len(node.lines) \in Nat,
         node.offset = offset + i - 1, EndOfDocument(node) = offset + end
  PROVE  Holds(node, offset + j)
<1>1. (offset + i - 1) + Len(node.lines) = offset + end
  BY DEF EndOfDocument
<1>2. Len(node.lines) = end - i + 1
  <2>1. \A n \in Nat : (offset + i - 1) + n = offset + end => n = end - i + 1
    OBVIOUS
  <2>2. QED
    BY <1>1, <2>1
<1>3. offset + j - (offset + i - 1) = j - i + 1
  OBVIOUS
<1>4. j - i + 1 \in 1..(end - i + 1)
  OBVIOUS
<1>5. QED
  BY <1>2, <1>3, <1>4 DEF Holds

\* The lines of documents that follow each other are all those up to the last one's end.
LEMMA LineInDocument ==
  ASSUME NEW some, Consecutive(some), some # <<>>,
         NEW number \in 1..EndOfDocument(Last(some))
  PROVE  \E n \in DOMAIN some : Holds(some[n], number)
<1> DEFINE T == {n \in DOMAIN some : number <= EndOfDocument(some[n])}
<1>1. DOMAIN some = 1..Len(some) /\ Len(some) \in Nat
  BY SequenceFacts DEF Consecutive
<1>2. /\ Len(some) \in DOMAIN some /\ Last(some) = some[Len(some)]
      /\ \A n \in DOMAIN some : EndOfDocument(some[n]) \in Nat
  BY OffsetNat
<1>3. T \in SUBSET Nat /\ T # {}
  BY <1>1, <1>2
<1>4. PICK n \in T : \A m \in T : n <= m
  <2> HIDE DEF T
  <2>1. QED
    BY <1>3, LeastNumber
<1>5. some[n].offset \in Nat /\ Len(some[n].lines) \in Nat
  BY SequenceFacts DEF Consecutive, DocumentOK
<1>6. some[n].offset < number
  <2>1. CASE n = 1
    BY <2>1 DEF Consecutive
  <2>2. CASE n # 1
    <3>1. n - 1 \in DOMAIN some /\ ~(n <= n - 1)
      BY <1>1, <2>2
    <3>2. n - 1 \notin T
      BY <1>4, <3>1
    <3>3. ~(number <= EndOfDocument(some[n - 1]))
      BY <3>1, <3>2
    <3>4. some[n].offset = EndOfDocument(some[n - 1])
      BY <2>2 DEF Consecutive
    <3>5. QED
      BY <1>2, <1>5, <3>1, <3>3, <3>4
  <2>3. QED
    BY <2>1, <2>2
<1>7. number <= some[n].offset + Len(some[n].lines)
  BY DEF EndOfDocument
<1>8. QED
  BY <1>5, <1>6, <1>7 DEF Holds

\* An object of a list has the lines from its first to the last before the next.
LEMMA PartLines ==
  ASSUME NEW doc, DocumentOK(doc), NEW begins, NEW i \in DOMAIN doc.lines
  PROVE  /\ EndOf(doc, begins, i) \in i..Len(doc.lines)
         /\ \A j \in i..Len(doc.lines) :
              (\A k \in (i + 1)..j : k \notin begins) => j <= EndOf(doc, begins, i)
         /\ DocumentOK(ObjectAt(doc, begins, i))
         /\ EndOfDocument(ObjectAt(doc, begins, i)) = doc.offset + EndOf(doc, begins, i)
         /\ ToSet(ObjectAt(doc, begins, i).lines) \subseteq ToSet(doc.lines)
<1> DEFINE T == {j \in i..Len(doc.lines) : \A k \in (i + 1)..j : k \notin begins}
           end == EndOf(doc, begins, i)
           object == ObjectAt(doc, begins, i)
<1>1. /\ DOMAIN doc.lines = 1..Len(doc.lines) /\ Len(doc.lines) \in Nat
      /\ i \in 1..Len(doc.lines) /\ doc.offset \in Nat
  BY SequenceFacts DEF DocumentOK
<1>2. T \subseteq 0..Len(doc.lines) /\ i \in T
  BY <1>1
<1>3. end = Max(T)
  BY DEF EndOf
<1>4. end \in T /\ \A j \in T : j <= end
  <2> HIDE DEF T, end
  <2>1. QED
    BY <1>1, <1>2, <1>3, MaxOf
<1>5. end \in i..Len(doc.lines) /\ \A j \in i..Len(doc.lines) : (\A k \in (i + 1)..j : k \notin begins) => j <= end
  BY <1>4
<1> HIDE DEF T, end
<1>6. object.offset = doc.offset + i - 1 /\ object.lines = SubSeq(doc.lines, i, end)
  BY DEF ObjectAt, end
<1>7. /\ SubSeq(doc.lines, i, end) \in Seq(ToSet(doc.lines))
      /\ Len(SubSeq(doc.lines, i, end)) = end - i + 1
      /\ \A j \in 1..(end - i + 1) : SubSeq(doc.lines, i, end)[j] = doc.lines[i + j - 1]
  <2>1. \A j \in i..end : doc.lines[j] \in ToSet(doc.lines)
    BY <1>1, <1>5 DEF ToSet
  <2>2. i \in Int /\ end \in Int /\ i <= end
    BY <1>1, <1>5
  <2>3. QED
    BY <2>1, <2>2, SubSeqProperties
<1>8. IsSequence(object.lines) /\ DOMAIN object.lines = 1..(end - i + 1) /\ Len(object.lines) = end - i + 1
  BY <1>6, <1>7, SequenceOfAny, SequenceFacts
<1>9. Numbered(object.lines, object.offset)
  <2>1. ASSUME NEW j \in 1..(end - i + 1)
        PROVE  object.lines[j].number = object.offset + j
    <3>1. i + j - 1 \in DOMAIN doc.lines
      BY <1>1, <1>5
    <3>2. doc.lines[i + j - 1].number = doc.offset + (i + j - 1)
      BY <3>1 DEF DocumentOK, Numbered
    <3>3. object.lines[j] = doc.lines[i + j - 1]
      BY <1>6, <1>7
    <3>4. object.offset + j = doc.offset + (i + j - 1)
      BY <1>1, <1>6
    <3>5. QED
      BY <3>2, <3>3, <3>4
  <2>2. QED
    BY <1>8, <2>1 DEF Numbered
<1>10. DocumentOK(object)
  <2>1. object.offset \in Nat
    BY <1>1, <1>6
  <2>2. QED
    BY <1>8, <1>9, <2>1 DEF DocumentOK
<1>11. EndOfDocument(object) = doc.offset + end
  <2>1. EndOfDocument(object) = object.offset + Len(object.lines)
    BY DEF EndOfDocument
  <2>2. object.offset = doc.offset + i - 1 /\ Len(object.lines) = end - i + 1
    BY <1>6, <1>8
  <2>3. doc.offset \in Int /\ i \in Int /\ end \in Int
    BY <1>1, <1>5
  <2>4. (doc.offset + i - 1) + (end - i + 1) = doc.offset + end
    BY <2>3
  <2>5. QED
    BY <2>1, <2>2, <2>4
<1>12. ToSet(object.lines) \subseteq ToSet(doc.lines)
  <2>1. \A j \in 1..(end - i + 1) : i + j - 1 \in DOMAIN doc.lines
    BY <1>1, <1>5
  <2>2. \A j \in 1..(end - i + 1) : object.lines[j] = doc.lines[i + j - 1]
    BY <1>6, <1>7
  <2>3. QED
    BY <1>8, <2>1, <2>2 DEF ToSet
<1>13. QED
  BY <1>5, <1>10, <1>11, <1>12 DEF end

LEMMA SplitElements ==
  ASSUME NEW doc, DocumentOK(doc)
  PROVE  /\ IsSequence(Split(doc))
         /\ ToSet(Split(doc)) =
              {ObjectAt(doc, {1} \union Cuts(doc), i) : i \in DOMAIN doc.lines \intersect ({1} \union Cuts(doc))}
<1> DEFINE begins == {1} \union Cuts(doc)
           Part(i) == IF i \in begins THEN <<ObjectAt(doc, begins, i)>> ELSE <<>>
           parts == [i \in DOMAIN doc.lines |-> Part(i)]
<1>1. DOMAIN doc.lines = 1..Len(doc.lines) /\ Len(doc.lines) \in Nat
  BY SequenceFacts DEF DocumentOK
<1>2. Split(doc) = FlattenSeq(parts)
  BY DEF Split
<1> HIDE DEF begins
<1>3. \A i : /\ IsSequence(Part(i))
             /\ ToSet(Part(i)) = IF i \in begins THEN {ObjectAt(doc, begins, i)} ELSE {}
  BY OneElement, NoElement
<1> HIDE DEF Part
<1>4. IsSequence(parts) /\ DOMAIN parts = DOMAIN doc.lines
  <2>1. parts = [i \in 1..Len(doc.lines) |-> parts[i]]
    BY <1>1
  <2>2. QED
    BY <1>1, <2>1, SequenceByIndex
<1>5. \A i \in DOMAIN parts : parts[i] = Part(i)
  BY <1>4
<1> HIDE DEF parts
<1>6. /\ IsSequence(FlattenSeq(parts))
      /\ ToSet(FlattenSeq(parts)) = UNION {ToSet(parts[i]) : i \in DOMAIN parts}
  BY <1>3, <1>4, <1>5, FlattenElements
<1>7. UNION {ToSet(parts[i]) : i \in DOMAIN parts}
        = {ObjectAt(doc, begins, i) : i \in DOMAIN doc.lines \intersect begins}
  BY <1>3, <1>4, <1>5
<1>8. QED
  BY <1>2, <1>6, <1>7 DEF begins

\* The objects of a document are parts of it, and have all its lines.
LEMMA ObjectsOfDocument ==
  ASSUME NEW doc, DocumentOK(doc)
  PROVE  /\ IsSequence(NodesOf(doc))
         /\ \A node \in ToSet(NodesOf(doc)) :
              DocumentOK(node) /\ ToSet(node.lines) \subseteq ToSet(doc.lines)
         /\ \A number \in Nat : Holds(doc, number) => \E node \in ToSet(NodesOf(doc)) : Holds(node, number)
<1>1. CASE ~DocIsList(doc)
  <2> DEFINE node == [offset |-> doc.offset, lines |-> doc.lines, index |-> None]
  <2>1. NodesOf(doc) = <<node>>
    BY <1>1 DEF NodesOf
  <2>2. /\ DocumentOK(node) /\ ToSet(node.lines) \subseteq ToSet(doc.lines)
        /\ \A number \in Nat : Holds(doc, number) => Holds(node, number)
    BY DEF DocumentOK, Holds
  <2> HIDE DEF node
  <2>3. QED
    BY <2>1, <2>2, OneElement
<1>2. CASE DocIsList(doc)
  <2> DEFINE begins == {1} \union Cuts(doc)
             objects == {ObjectAt(doc, begins, i) : i \in DOMAIN doc.lines \intersect begins}
  <2>1. IsSequence(NodesOf(doc)) /\ ToSet(NodesOf(doc)) = objects
    BY <1>2, SplitElements DEF NodesOf
  <2>2. 1 \in begins
    OBVIOUS
  <2> HIDE DEF begins
  <2>3. ASSUME NEW node \in objects
        PROVE  DocumentOK(node) /\ ToSet(node.lines) \subseteq ToSet(doc.lines)
    BY PartLines
  <2>4. ASSUME NEW number \in Nat, Holds(doc, number)
        PROVE  \E node \in objects : Holds(node, number)
    <3> DEFINE j == number - doc.offset
               T == {i \in 1..j : i \in begins}
    <3>1. /\ DOMAIN doc.lines = 1..Len(doc.lines) /\ Len(doc.lines) \in Nat
          /\ j \in 1..Len(doc.lines) /\ doc.offset \in Nat /\ number = doc.offset + j
      BY <2>4, SequenceFacts DEF DocumentOK, Holds
    <3> HIDE DEF j
    <3>2. T \subseteq 0..j /\ 1 \in T /\ j \in Nat
      BY <2>2, <3>1
    <3>3. PICK i \in T : \A m \in T : m <= i
      <4> HIDE DEF T
      <4>1. QED
        BY <3>2, GreatestNumber
    <3> DEFINE node == ObjectAt(doc, begins, i)
    <3>4. i \in DOMAIN doc.lines \intersect begins /\ j \in i..Len(doc.lines) /\ i \in 1..j
      BY <3>1
    <3>5. \A k \in (i + 1)..j : k \notin begins
      BY <3>1, <3>3, <3>4
    <3>6. /\ j <= EndOf(doc, begins, i) /\ EndOf(doc, begins, i) \in i..Len(doc.lines)
          /\ DocumentOK(node) /\ EndOfDocument(node) = doc.offset + EndOf(doc, begins, i)
      BY <3>4, <3>5, PartLines
    <3>7. node.offset = doc.offset + i - 1
      BY DEF ObjectAt
    <3>8. Len(node.lines) \in Nat
      BY <3>6, SequenceFacts DEF DocumentOK
    <3>9. node \in objects
      BY <3>4
    <3> DEFINE end == EndOf(doc, begins, i)
    <3> HIDE DEF node, objects, end
    <3>10. Holds(node, doc.offset + j)
      <4>1. i \in Nat /\ end \in Nat /\ j \in Nat /\ 1 <= i /\ i <= j /\ j <= end
        BY <3>1, <3>4, <3>6 DEF end
      <4>2. EndOfDocument(node) = doc.offset + end
        BY <3>6 DEF end
      <4>3. QED
        BY <3>1, <3>7, <3>8, <4>1, <4>2, HoldsBetween
    <3>11. QED
      BY <3>1, <3>9, <3>10
  <2> HIDE DEF objects
  <2>5. QED
    BY <2>1, <2>3, <2>4
<1>3. QED
  BY <1>1, <1>2

\* The objects of the text are those of its documents.
LEMMA NodesAre ==
  ASSUME ParserOK
  PROVE  /\ IsSequence(Nodes)
         /\ \A node : node \in ToSet(Nodes)
              <=> \E n \in DOMAIN Documents : node \in ToSet(NodesOf(Documents[n]))
<1> DEFINE parts == [n \in DOMAIN Documents |-> NodesOf(Documents[n])]
<1>1. /\ DOMAIN Documents = 1..Len(Documents) /\ Len(Documents) \in Nat
      /\ \A n \in DOMAIN Documents : DocumentOK(Documents[n])
  BY DocumentsConsecutive, SequenceFacts DEF Consecutive
<1>2. IsSequence(parts) /\ DOMAIN parts = DOMAIN Documents
  <2>1. parts = [n \in 1..Len(Documents) |-> parts[n]]
    BY <1>1
  <2>2. QED
    BY <1>1, <2>1, SequenceByIndex
<1>3. \A n \in DOMAIN parts : parts[n] = NodesOf(Documents[n]) /\ IsSequence(parts[n])
  BY <1>1, <1>2, ObjectsOfDocument
<1>4. Nodes = FlattenSeq(parts)
  BY DEF Nodes
<1> HIDE DEF parts
<1>5. IsSequence(Nodes) /\ ToSet(Nodes) = UNION {ToSet(parts[n]) : n \in DOMAIN parts}
  BY <1>2, <1>3, <1>4, FlattenElements
<1>6. QED
  BY <1>2, <1>3, <1>5

\* Wherever the cursor is, in whatever text, the line found there is that line.
THEOREM LinesAlwaysFound == Spec => []EveryLineFound
<1>1. IInv => EveryLineFound
  <2> SUFFICES ASSUME ParserOK, NEW number \in 1..(Number - 1)
               PROVE  FindLine(Nodes, number) = number
    BY DEF IInv, EveryLineFound
  <2> DEFINE at == {n \in DOMAIN Nodes : Holds(Nodes[n], number)}
             found == CHOOSE n \in at : \A m \in at : n <= m
  <2>1. /\ Consecutive(Documents) /\ IsSequence(Documents)
        /\ DOMAIN Documents = 1..Len(Documents) /\ Len(Documents) \in Nat
        /\ \A n \in DOMAIN Documents : DocumentOK(Documents[n])
    BY DocumentsConsecutive, SequenceFacts DEF Consecutive
  <2>2. number \in Nat /\ \E n \in DOMAIN Documents : Holds(Documents[n], number)
    <3>1. /\ Offset \in Nat /\ Len(lines) \in Nat /\ Number = Offset + Len(lines) + 1
          /\ (Offset = IF docs = <<>> THEN 0 ELSE EndOfDocument(Last(docs)))
      BY OffsetIs
    <3>2. Documents # <<>> /\ EndOfDocument(Last(Documents)) = Number - 1
      <4>1. CASE lines = <<>>
        <5>1. Len(lines) = 0 /\ Documents = docs
          BY <4>1, EmptySeq DEF Documents
        <5>2. docs # <<>>
          BY <3>1, <5>1
        <5>3. QED
          BY <3>1, <5>1, <5>2
      <4>2. CASE lines # <<>>
        <5> DEFINE doc == [offset |-> Offset, lines |-> lines]
        <5>1. Documents = Append(docs, doc)
          BY <4>2 DEF Documents
        <5>2. EndOfDocument(doc) = Number - 1
          BY <3>1 DEF EndOfDocument
        <5> HIDE DEF doc
        <5>3. IsSequence(docs)
          BY DEF ParserOK, Consecutive
        <5>4. QED
          BY <5>1, <5>2, <5>3, LastOfAppend, AppendFacts
      <4>3. QED
        BY <4>1, <4>2
    <3>3. QED
      BY <2>1, <3>1, <3>2, LineInDocument
  <2>6. IsSequence(Nodes)
    BY NodesAre
  <2>7. \A node \in ToSet(Nodes) : DocumentOK(node)
    BY <2>1, NodesAre, ObjectsOfDocument
  <2>8. \E node \in ToSet(Nodes) : Holds(node, number)
    BY <2>1, <2>2, NodesAre, ObjectsOfDocument
  <2>9. DOMAIN Nodes = 1..Len(Nodes) /\ Len(Nodes) \in Nat
    BY <2>6, SequenceFacts
  <2>10. at \in SUBSET Nat /\ at # {}
    BY <2>8, <2>9 DEF ToSet
  <2>11. found \in at
    <3>1. \E n \in at : \A m \in at : n <= m
      <4> HIDE DEF at
      <4>1. QED
        BY <2>10, LeastNumber
    <3> HIDE DEF at
    <3>2. QED
      BY <3>1, Zenon
  <2>12. FindLine(Nodes, number) = Nodes[found].lines[number - Nodes[found].offset].number
    BY <2>10 DEF FindLine, Holds
  <2> HIDE DEF found
  <2>13. DocumentOK(Nodes[found]) /\ Holds(Nodes[found], number)
    BY <2>7, <2>11 DEF ToSet
  <2>14. number - Nodes[found].offset \in DOMAIN Nodes[found].lines /\ Nodes[found].offset \in Nat
    BY <2>13, SequenceFacts DEF DocumentOK, Holds
  <2>15. QED
    BY <2>2, <2>12, <2>13, <2>14 DEF DocumentOK, Numbered
<1>2. QED
  BY <1>1, Invariant, PTL

-----------------------------------------------------------------------------
(* The paths of the parser are those of YAML: in a plain YAML text every    *)
(* line that YAML gives a path has it.                                      *)

\* The line has a path, and is not deeper.
Reaches(line, indent) == IsEntry(line) /\ line.indent <= indent

\* Previous, of any lines.
Nearest(some, indent) ==
  LET candidates == {i \in 1..Len(some) : Reaches(some[i], indent)}
  IN IF candidates = {} THEN 0 ELSE CHOOSE i \in candidates : \A j \in candidates : j <= i

\* From the root, by keys and indexes, no index being that of an index.
PathOK(path) ==
  /\ IsSequence(path) /\ Len(path) >= 1 /\ path[1] = Root[1]
  /\ \A i \in 2..Len(path) :
       \/ \E n \in Nat : path[i] = Key(n)
       \/ (\E n \in Nat : path[i] = Index(n)) /\ ~IsIndex(path[i - 1])

\* A mapping, or a list, whose last element is number count.
FrameOK(f) ==
  /\ f.kind \in {"map", "list"} /\ f.column \in Nat /\ PathOK(f.path)
  /\ f.kind = "list" => f.count \in Nat \ {0} /\ ~IsIndex(Last(f.path))

\* The second of two frames is in the first: how much deeper it has to be.
Nested(f, g) ==
  IF f.kind = "list" THEN f.column + 2 <= g.column
  ELSE f.column < g.column \/ (f.column = g.column /\ g.kind = "list")

\* The indent of the lines that begin the keys, or the elements, of a frame.
Under(f) == IF f.kind = "map" THEN f.column ELSE f.column + 2

CountedPath(f) == Append(f.path, Index(f.count - 1))

\* The next sibling finds its path from this line.
Shows(line, f) ==
  /\ line.indent = Under(f)
  /\ IF f.kind = "map" THEN \E n \in Nat : line.path = Append(f.path, Key(n))
     ELSE /\ line.listIndex = f.count - 1
          /\ \/ line.path = CountedPath(f)
             \/ \E n \in Nat : line.path = Append(CountedPath(f), Key(n))

StackOK(stack) ==
  /\ IsSequence(stack)
  /\ \A a \in DOMAIN stack : FrameOK(stack[a])
  /\ \A a, b \in DOMAIN stack : a < b => Nested(stack[a], stack[b])

StackShown ==
  \A a \in DOMAIN yaml.stack :
    LET j == Nearest(lines, Under(yaml.stack[a])) IN j # 0 /\ Shows(lines[j], yaml.stack[a])

\* The key that has no value yet is the last line with a path, and in the innermost mapping.
OpenOK ==
  yaml.open.column # None =>
    /\ yaml.open.column \in Nat
    /\ PathOK(yaml.open.path) /\ ~IsIndex(Last(yaml.open.path))
    /\ yaml.stack # <<>> /\ Last(yaml.stack).kind = "map"
    /\ Last(yaml.stack).column = yaml.open.column
    /\ \A d \in Nat : d >= yaml.open.column =>
         /\ Nearest(lines, d) # 0
         /\ lines[Nearest(lines, d)].path = yaml.open.path
         /\ lines[Nearest(lines, d)].indent = yaml.open.column

BodyOK ==
  ~yaml.body =>
    /\ yaml.stack = <<>> /\ yaml.open.column = None
    /\ \A i \in DOMAIN lines : ~IsEntry(lines[i])

LineAgrees(line) ==
  IF IsEntry(line)
  THEN /\ line.path = line.ref /\ PathOK(line.path)
       /\ "mapping" \in line.type <=> IsKey(Last(line.path))
  ELSE line.ref = <<>>

Together ==
  /\ scalar = yaml.scalar
  /\ StackOK(yaml.stack) /\ StackShown /\ OpenOK /\ BodyOK
  /\ \A i \in DOMAIN lines : LineAgrees(lines[i])
  /\ \A n \in DOMAIN docs : \A i \in DOMAIN docs[n].lines : LineAgrees(docs[n].lines[i])

-----------------------------------------------------------------------------
(* Paths: what is appended to one is found again from the end.              *)

LEMMA StepKinds ==
  ASSUME NEW n
  PROVE  /\ IsKey(Key(n)) /\ ~IsIndex(Key(n))
         /\ IsIndex(Index(n)) /\ ~IsKey(Index(n))
         /\ ~IsKey(Root[1]) /\ ~IsIndex(Root[1])
BY DEF IsKey, IsIndex, Key, Index, Root

LEMMA RootOK == PathOK(Root) /\ Last(Root) = Root[1] /\ ~IsIndex(Last(Root))
<1>1. IsSequence(Root) /\ Len(Root) = 1
  BY OneElement DEF Root
<1>2. Last(Root) = Root[1]
  BY <1>1 DEF Last
<1>3. QED
  BY <1>1, <1>2, StepKinds DEF PathOK

LEMMA ConcatOne ==
  ASSUME NEW s, IsSequence(s), NEW x
  PROVE  s \o <<x>> = Append(s, x)
<1> DEFINE S == ToSet(s) \union {x}
<1>1. s \in Seq(S) /\ x \in S
  BY SequenceOfMore
<1> HIDE DEF S
<1>2. QED
  BY <1>1, AppendIsConcat

LEMMA ConcatNone ==
  ASSUME NEW s, IsSequence(s)
  PROVE  s \o <<>> = s
BY ConcatEmptySeq DEF IsSequence

\* All but the last step.
LEMMA UptoAppend ==
  ASSUME NEW s, IsSequence(s), NEW x
  PROVE  Upto(Append(s, x), Len(s) + 1) = s
<1> DEFINE t == Append(s, x)
           S == ToSet(s)
<1>1. /\ Len(s) \in Nat /\ DOMAIN s = 1..Len(s)
      /\ \A i \in 1..Len(s) : t[i] = s[i]
  BY SequenceFacts, AppendFacts
<1> HIDE DEF t
<1>2. Upto(t, Len(s) + 1) = SubSeq(t, 1, Len(s))
  <2>1. Len(s) + 1 - 1 = Len(s)
    BY <1>1
  <2>2. QED
    BY <2>1 DEF Upto
<1>3. \A i \in 1..Len(s) : t[i] \in S
  BY <1>1 DEF ToSet
<1> HIDE DEF S
<1>4. /\ SubSeq(t, 1, Len(s)) \in Seq(S)
      /\ Len(SubSeq(t, 1, Len(s))) = Len(s)
      /\ \A i \in 1..Len(s) : SubSeq(t, 1, Len(s))[i] = t[i]
  <2>1. /\ SubSeq(t, 1, Len(s)) \in Seq(S)
        /\ Len(SubSeq(t, 1, Len(s))) = IF 1 <= Len(s) THEN Len(s) - 1 + 1 ELSE 0
        /\ \A i \in 1..(Len(s) - 1 + 1) : SubSeq(t, 1, Len(s))[i] = t[1 + i - 1]
    BY <1>1, <1>3, SubSeqProperties
  <2>2. \A i \in 1..Len(s) : i \in 1..(Len(s) - 1 + 1) /\ 1 + i - 1 = i
    BY <1>1
  <2>3. QED
    BY <1>1, <2>1, <2>2
<1>5. SubSeq(t, 1, Len(s)) = s
  <2>1. s \in Seq(S)
    BY DEF IsSequence, S
  <2>2. QED
    BY <1>1, <1>4, <2>1, SeqEqual
<1>6. QED
  BY <1>2, <1>5 DEF t

LEMMA FrontAppend ==
  ASSUME NEW s, IsSequence(s), NEW x
  PROVE  Front(Append(s, x)) = s
<1>1. Len(Append(s, x)) = Len(s) + 1
  BY AppendFacts
<1>2. QED
  BY <1>1, UptoAppend DEF Front, Upto

LEMMA LastIndexAt ==
  ASSUME NEW path, IsSequence(path), NEW m \in 1..Len(path), IsIndex(path[m]),
         \A i \in (m + 1)..Len(path) : ~IsIndex(path[i])
  PROVE  LastIndex(path) = m
<1> DEFINE I == {i \in 1..Len(path) : IsIndex(path[i])}
<1>1. Len(path) \in Nat
  BY SequenceFacts
<1>2. I \subseteq 0..Len(path) /\ m \in I /\ \A i \in I : i <= m
  BY <1>1
<1>3. LastIndex(path) = Max(I)
  BY <1>2 DEF LastIndex, SelectLastInSeq
<1> HIDE DEF I
<1>4. Max(I) \in I /\ m <= Max(I)
  BY <1>1, <1>2, MaxOf
<1>5. Max(I) <= m /\ Max(I) \in Nat /\ m \in Nat
  <2>1. Max(I) <= m
    BY <1>2, <1>4
  <2>2. Max(I) \in 0..Len(path)
    BY <1>2, <1>4
  <2>3. QED
    BY <1>1, <2>1, <2>2
<1>6. QED
  BY <1>3, <1>4, <1>5

LEMMA LastKeyAt ==
  ASSUME NEW path, IsSequence(path), NEW m \in 2..Len(path), IsKey(path[m]),
         \A i \in (m + 1)..Len(path) : ~IsKey(path[i])
  PROVE  LastKey(path) = m
<1> DEFINE I == {i \in 1..Len(path) : IsKey(path[i])}
<1>1. Len(path) \in Nat
  BY SequenceFacts
<1>2. I \subseteq 0..Len(path) /\ m \in I /\ \A i \in I : i <= m
  BY <1>1
<1>3. SelectLastInSeq(path, IsKey) = Max(I)
  BY <1>2 DEF SelectLastInSeq
<1> HIDE DEF I
<1>4. Max(I) \in I /\ m <= Max(I)
  BY <1>1, <1>2, MaxOf
<1>5. Max(I) <= m /\ Max(I) \in Nat /\ m \in Nat /\ m # 1
  <2>1. Max(I) <= m
    BY <1>2, <1>4
  <2>2. Max(I) \in 0..Len(path)
    BY <1>2, <1>4
  <2>3. QED
    BY <1>1, <2>1, <2>2
<1>6. Max(I) = m
  BY <1>4, <1>5
<1>7. QED
  BY <1>3, <1>5, <1>6 DEF LastKey

\* What can be appended to a path.
LEMMA AppendStep ==
  ASSUME NEW path, PathOK(path), NEW n \in Nat, NEW step,
         step = Key(n) \/ (step = Index(n) /\ ~IsIndex(Last(path)))
  PROVE  /\ PathOK(Append(path, step)) /\ Last(Append(path, step)) = step
         /\ Len(Append(path, step)) = Len(path) + 1
<1> DEFINE q == Append(path, step)
<1>1. /\ Len(path) \in Nat /\ Len(path) >= 1 /\ DOMAIN path = 1..Len(path)
      /\ IsSequence(q) /\ Len(q) = Len(path) + 1
      /\ \A i \in 1..Len(path) : q[i] = path[i]
      /\ q[Len(path) + 1] = step
  BY SequenceFacts, AppendFacts DEF PathOK
<1>2. Last(q) = step /\ q[1] = Root[1]
  BY <1>1 DEF Last, PathOK
<1>3. q[Len(path)] = Last(path)
  BY <1>1 DEF Last
<1> HIDE DEF q
<1>4. ASSUME NEW i \in 2..Len(q)
      PROVE  \/ \E m \in Nat : q[i] = Key(m)
             \/ (\E m \in Nat : q[i] = Index(m)) /\ ~IsIndex(q[i - 1])
  <2>1. CASE i = Len(path) + 1
    <3>1. q[i] = step /\ i - 1 = Len(path)
      BY <1>1, <2>1
    <3>2. QED
      BY <1>3, <3>1
  <2>2. CASE i # Len(path) + 1
    <3>1. i \in 2..Len(path) /\ i \in 1..Len(path) /\ i - 1 \in 1..Len(path)
      BY <1>1, <2>2
    <3>2. q[i] = path[i] /\ q[i - 1] = path[i - 1]
      BY <1>1, <3>1
    <3>3. QED
      BY <3>1, <3>2 DEF PathOK
  <2>3. QED
    BY <2>1, <2>2
<1>5. QED
  BY <1>1, <1>2, <1>4 DEF PathOK, q

\* A path that ends in a key ends in its last key, and one in an element of a list in its last index.
LEMMA KeyFound ==
  ASSUME NEW path, PathOK(path), NEW n \in Nat
  PROVE  /\ LastKey(Append(path, Key(n))) # 0
         /\ Upto(Append(path, Key(n)), LastKey(Append(path, Key(n)))) = path
<1> DEFINE q == Append(path, Key(n))
<1>1. /\ IsSequence(path) /\ Len(path) \in Nat /\ Len(path) >= 1
      /\ IsSequence(q) /\ Len(q) = Len(path) + 1 /\ q[Len(path) + 1] = Key(n)
  BY SequenceFacts, AppendFacts DEF PathOK
<1>2. LastKey(q) = Len(path) + 1
  <2> HIDE DEF q
  <2>1. Len(path) + 1 \in 2..Len(q) /\ (Len(path) + 1 + 1)..Len(q) = {}
    BY <1>1
  <2>2. IsKey(q[Len(path) + 1])
    BY <1>1, StepKinds
  <2>3. QED
    BY <1>1, <2>1, <2>2, LastKeyAt
<1>3. QED
  BY <1>1, <1>2, UptoAppend

LEMMA IndexFound ==
  ASSUME NEW path, PathOK(path), NEW n \in Nat
  PROVE  /\ LastIndex(Append(path, Index(n))) # 0
         /\ Upto(Append(path, Index(n)), LastIndex(Append(path, Index(n)))) = path
<1> DEFINE q == Append(path, Index(n))
<1>1. /\ IsSequence(path) /\ Len(path) \in Nat /\ Len(path) >= 1
      /\ IsSequence(q) /\ Len(q) = Len(path) + 1 /\ q[Len(path) + 1] = Index(n)
  BY SequenceFacts, AppendFacts DEF PathOK
<1>2. LastIndex(q) = Len(path) + 1
  <2> HIDE DEF q
  <2>1. Len(path) + 1 \in 1..Len(q) /\ (Len(path) + 1 + 1)..Len(q) = {}
    BY <1>1
  <2>2. IsIndex(q[Len(path) + 1])
    BY <1>1, StepKinds
  <2>3. QED
    BY <1>1, <2>1, <2>2, LastIndexAt
<1>3. QED
  BY <1>1, <1>2, UptoAppend

LEMMA IndexFoundBelow ==
  ASSUME NEW path, PathOK(path), NEW n \in Nat, NEW m \in Nat
  PROVE  LET q == Append(Append(path, Index(n)), Key(m)) IN
         LastIndex(q) # 0 /\ Upto(q, LastIndex(q)) = path
<1> DEFINE r == Append(path, Index(n))
           q == Append(r, Key(m))
<1>1. /\ IsSequence(path) /\ Len(path) \in Nat /\ Len(path) >= 1
      /\ IsSequence(r) /\ Len(r) = Len(path) + 1 /\ r[Len(path) + 1] = Index(n)
      /\ Len(path) + 1 \in DOMAIN r
  BY SequenceFacts, AppendFacts DEF PathOK
<1>2. Upto(r, Len(path) + 1) = path
  BY <1>1, UptoAppend
<1>a. \A i \in 1..Len(path) : i \in DOMAIN r
  BY <1>1, SequenceFacts
<1> HIDE DEF r
<1>3. /\ IsSequence(q) /\ Len(q) = Len(path) + 2
      /\ \A i \in DOMAIN r : q[i] = r[i]
      /\ q[Len(path) + 2] = Key(m)
  <2>1. Len(path) + 1 + 1 = Len(path) + 2
    BY <1>1
  <2>2. QED
    BY <1>1, <2>1, AppendFacts
<1> HIDE DEF q
<1>4. LastIndex(q) = Len(path) + 1
  <2>1. Len(path) + 1 \in 1..Len(q) /\ \A i \in (Len(path) + 1 + 1)..Len(q) : i = Len(path) + 2
    BY <1>1, <1>3
  <2>2. IsIndex(q[Len(path) + 1]) /\ ~IsIndex(q[Len(path) + 2])
    BY <1>1, <1>3, StepKinds
  <2>3. QED
    BY <1>3, <2>1, <2>2, LastIndexAt
<1>5. SubSeq(q, 1, Len(path)) = SubSeq(r, 1, Len(path))
  <2> DEFINE S == ToSet(q) \union ToSet(r)
  <2>1. \A i \in 1..Len(path) : q[i] = r[i] /\ r[i] \in S
    BY <1>a, <1>3 DEF ToSet
  <2> HIDE DEF S
  <2>2. Len(path) >= 1 /\ Len(path) - 1 + 1 = Len(path)
    BY <1>1
  <2>3. /\ SubSeq(r, 1, Len(path)) \in Seq(S) /\ SubSeq(q, 1, Len(path)) \in Seq(S)
        /\ Len(SubSeq(r, 1, Len(path))) = Len(path) /\ Len(SubSeq(q, 1, Len(path))) = Len(path)
        /\ \A i \in 1..Len(path) : SubSeq(r, 1, Len(path))[i] = r[1 + i - 1]
        /\ \A i \in 1..Len(path) : SubSeq(q, 1, Len(path))[i] = q[1 + i - 1]
    BY <1>1, <2>1, <2>2, SubSeqProperties
  <2>4. \A i \in 1..Len(path) : 1 + i - 1 = i
    BY <1>1
  <2>5. QED
    BY <2>1, <2>3, <2>4, SeqEqual
<1>6. QED
  <2>1. Len(path) + 1 - 1 = Len(path) /\ Len(path) + 1 # 0
    BY <1>1
  <2>2. Upto(q, LastIndex(q)) = path
    BY <1>2, <1>4, <1>5, <2>1 DEF Upto
  <2>3. QED
    BY <1>4, <2>1, <2>2 DEF q, r

-----------------------------------------------------------------------------
(* One more line, and the line before it that its path begins with.         *)

LEMMA NearestIs ==
  ASSUME NEW some, IsSequence(some), NEW indent, NEW i \in 1..Len(some),
         Reaches(some[i], indent),
         \A j \in 1..Len(some) : j > i => ~Reaches(some[j], indent)
  PROVE  Nearest(some, indent) = i
<1> DEFINE candidates == {j \in 1..Len(some) : Reaches(some[j], indent)}
<1>1. Len(some) \in Nat
  BY SequenceFacts
<1>2. i \in candidates /\ \A j \in candidates : j <= i
  BY <1>1
<1>3. candidates \subseteq Nat
  BY <1>1
<1>4. Nearest(some, indent) = CHOOSE j \in candidates : \A k \in candidates : k <= j
  BY <1>2 DEF Nearest
<1> HIDE DEF candidates
<1>5. \A j \in candidates : (\A k \in candidates : k <= j) => j = i
  BY <1>2, <1>3
<1>6. (CHOOSE j \in candidates : \A k \in candidates : k <= j) = i
  BY <1>2, <1>5, Zenon
<1>7. QED
  BY <1>4, <1>6

LEMMA NearestFound ==
  ASSUME NEW some, IsSequence(some), NEW indent, Nearest(some, indent) # 0
  PROVE  LET i == Nearest(some, indent) IN
         /\ i \in 1..Len(some) /\ Reaches(some[i], indent)
         /\ \A j \in 1..Len(some) : j > i => ~Reaches(some[j], indent)
<1> DEFINE candidates == {j \in 1..Len(some) : Reaches(some[j], indent)}
           i == Nearest(some, indent)
<1>1. Len(some) \in Nat
  BY SequenceFacts
<1>2. candidates # {} /\ i = CHOOSE j \in candidates : \A k \in candidates : k <= j
  BY DEF Nearest
<1>3. candidates \subseteq 0..Len(some)
  BY <1>1
<1>4. \E j \in candidates : \A k \in candidates : k <= j
  <2> HIDE DEF candidates
  <2>1. QED
    BY <1>1, <1>2, <1>3, GreatestNumber
<1>5. i \in candidates /\ \A k \in candidates : k <= i
  <2> HIDE DEF candidates, i
  <2>1. QED
    BY <1>2, <1>4, Zenon
<1> HIDE DEF i
<1>6. /\ i \in 1..Len(some) /\ Reaches(some[i], indent)
      /\ \A j \in 1..Len(some) : j > i => ~Reaches(some[j], indent)
  BY <1>1, <1>5
<1>7. QED
  BY <1>6 DEF i

LEMMA NearestNone ==
  ASSUME NEW some, IsSequence(some), NEW indent
  PROVE  Nearest(some, indent) = 0
           <=> \A j \in 1..Len(some) : ~Reaches(some[j], indent)
<1> DEFINE candidates == {j \in 1..Len(some) : Reaches(some[j], indent)}
<1>1. CASE candidates = {}
  <2>1. Nearest(some, indent) = 0
    BY <1>1 DEF Nearest
  <2>2. QED
    BY <1>1, <2>1
<1>2. CASE candidates # {}
  <2>1. Nearest(some, indent) = 0 => FALSE
    <3>1. Len(some) \in Nat /\ candidates \subseteq 0..Len(some) /\ 0 \notin candidates
      BY SequenceFacts
    <3>2. \E j \in candidates : \A k \in candidates : k <= j
      <4> HIDE DEF candidates
      <4>1. QED
        BY <1>2, <3>1, GreatestNumber
    <3>3. Nearest(some, indent) = CHOOSE j \in candidates : \A k \in candidates : k <= j
      BY <1>2 DEF Nearest
    <3>4. Nearest(some, indent) \in candidates
      <4> HIDE DEF candidates
      <4>1. QED
        BY <3>2, <3>3, Zenon
    <3>5. QED
      <4> HIDE DEF candidates
      <4>1. QED
        BY <3>1, <3>4
  <2>2. QED
    BY <1>2, <2>1
<1>3. QED
  BY <1>1, <1>2

\* A line more.  (An operator, since the prover rewrites an element of what is appended to.)
Adds(more, some, line) == more = Append(some, line)

LEMMA NearestStep ==
  ASSUME NEW some, IsSequence(some), NEW line, NEW more, Adds(more, some, line), NEW indent
  PROVE  /\ Reaches(line, indent) =>
              Nearest(more, indent) # 0 /\ more[Nearest(more, indent)] = line
         /\ ~Reaches(line, indent) /\ Nearest(some, indent) # 0 =>
              Nearest(more, indent) # 0 /\ more[Nearest(more, indent)] = some[Nearest(some, indent)]
<1> DEFINE i == Nearest(some, indent)
           entry == Reaches(line, indent)
<1>1. /\ Len(some) \in Nat /\ IsSequence(more) /\ Len(more) = Len(some) + 1
      /\ \A j \in 1..Len(some) : more[j] = some[j]
      /\ more[Len(some) + 1] = line
  BY SequenceFacts, AppendFacts DEF Adds
<1>2. ASSUME entry
      PROVE  Nearest(more, indent) = Len(some) + 1
  <2>1. Len(some) + 1 \in 1..Len(more) /\ \A j \in 1..Len(more) : ~(j > Len(some) + 1)
    BY <1>1
  <2>2. Reaches(more[Len(some) + 1], indent)
    BY <1>1, <1>2
  <2>3. QED
    BY <1>1, <2>1, <2>2, NearestIs
<1>3. ASSUME ~entry
      PROVE  Nearest(more, indent) = i /\ (i # 0 => more[i] = some[i])
  <2>1. CASE i = 0
    <3>1. \A j \in 1..Len(some) : ~Reaches(some[j], indent)
      BY <2>1, NearestNone
    <3>2. \A j \in 1..Len(more) : j \in 1..Len(some) \/ j = Len(some) + 1
      BY <1>1
    <3>3. \A j \in 1..Len(more) : ~Reaches(more[j], indent)
      BY <1>1, <1>3, <3>1, <3>2
    <3>4. QED
      BY <1>1, <2>1, <3>3, NearestNone
  <2>2. CASE i # 0
    <3>1. /\ i \in 1..Len(some) /\ Reaches(some[i], indent)
          /\ \A j \in 1..Len(some) : j > i => ~Reaches(some[j], indent)
      BY <2>2, NearestFound
    <3> HIDE DEF i
    <3>2. more[i] = some[i] /\ i \in 1..Len(more)
      BY <1>1, <3>1
    <3>3. \A j \in 1..Len(more) : j \in 1..Len(some) \/ j = Len(some) + 1
      BY <1>1
    <3>4. \A j \in 1..Len(more) : j > i => ~Reaches(more[j], indent)
      BY <1>1, <1>3, <3>1, <3>3
    <3>5. QED
      BY <1>1, <3>1, <3>2, <3>4, NearestIs
  <2>3. QED
    BY <2>1, <2>2
<1>4. Len(some) + 1 # 0
  BY <1>1
<1>5. QED
  BY <1>1, <1>2, <1>3, <1>4

LEMMA PreviousNearest ==
  ASSUME NEW indent
  PROVE  Previous(indent) = Nearest(lines, indent)
BY DEF Previous, Nearest, Reaches

-----------------------------------------------------------------------------
(* The stack of YAML, and what is left of it.                               *)

\* The outermost frames of a stack.
Outer(kept, stack) ==
  /\ IsSequence(kept)
  /\ \A a \in DOMAIN kept : a \in DOMAIN stack /\ kept[a] = stack[a]

LEMMA SubSeqOuter ==
  ASSUME NEW stack, IsSequence(stack), NEW n \in 0..Len(stack)
  PROVE  /\ Outer(SubSeq(stack, 1, n), stack)
         /\ Len(SubSeq(stack, 1, n)) = n /\ DOMAIN SubSeq(stack, 1, n) = 1..n
<1> DEFINE S == ToSet(stack)
           t == SubSeq(stack, 1, n)
<1>1. Len(stack) \in Nat /\ DOMAIN stack = 1..Len(stack) /\ n \in Int
  BY SequenceFacts
<1>2. \A i \in 1..n : stack[i] \in S
  BY <1>1 DEF ToSet
<1> HIDE DEF S
<1>3. /\ t \in Seq(S) /\ Len(t) = n
      /\ \A i \in 1..n : t[i] = stack[i]
  <2>1. /\ t \in Seq(S) /\ Len(t) = (IF 1 <= n THEN n - 1 + 1 ELSE 0)
        /\ \A i \in 1..(n - 1 + 1) : t[i] = stack[1 + i - 1]
    BY <1>1, <1>2, SubSeqProperties
  <2>2. (IF 1 <= n THEN n - 1 + 1 ELSE 0) = n
    BY <1>1
  <2>3. \A i \in 1..n : i \in 1..(n - 1 + 1) /\ 1 + i - 1 = i
    BY <1>1
  <2> HIDE DEF t
  <2>4. QED
    BY <2>1, <2>2, <2>3
<1> HIDE DEF t
<1>4. IsSequence(t) /\ DOMAIN t = 1..n
  BY <1>3, SequenceOfAny, LenProperties
<1>5. QED
  BY <1>1, <1>3, <1>4 DEF Outer, t

LEMMA StackOuter ==
  ASSUME NEW stack, StackOK(stack), NEW kept, Outer(kept, stack)
  PROVE  StackOK(kept)
BY DEF StackOK, Outer

LEMMA StackAppend ==
  ASSUME NEW stack, StackOK(stack), NEW f, FrameOK(f), \A a \in DOMAIN stack : Nested(stack[a], f)
  PROVE  StackOK(Append(stack, f))
<1> DEFINE more == Append(stack, f)
<1>1. /\ Len(stack) \in Nat /\ DOMAIN stack = 1..Len(stack)
      /\ IsSequence(more) /\ DOMAIN more = 1..(Len(stack) + 1)
      /\ \A a \in DOMAIN stack : more[a] = stack[a]
      /\ more[Len(stack) + 1] = f
  BY SequenceFacts, AppendFacts DEF StackOK
<1> HIDE DEF more
<1>2. \A a \in DOMAIN more : a \in DOMAIN stack \/ a = Len(stack) + 1
  BY <1>1
<1>3. \A a \in DOMAIN more : FrameOK(more[a])
  BY <1>1, <1>2 DEF StackOK
<1>4. ASSUME NEW a \in DOMAIN more, NEW b \in DOMAIN more, a < b
      PROVE  Nested(more[a], more[b])
  <2>1. a \in DOMAIN stack
    BY <1>1, <1>4
  <2>2. CASE b \in DOMAIN stack
    BY <1>1, <1>4, <2>1, <2>2 DEF StackOK
  <2>3. CASE b = Len(stack) + 1
    BY <1>1, <2>1, <2>3
  <2>4. QED
    BY <1>2, <2>2, <2>3
<1>5. QED
  BY <1>1, <1>3, <1>4 DEF StackOK, more

\* The outermost frames that all are of one kind: as many as Max gives.
LEMMA KeyFramesAre ==
  ASSUME IsSequence(yaml.stack), NEW column
  PROVE  /\ Outer(KeyFrames(column), yaml.stack)
         /\ \A a \in DOMAIN KeyFrames(column) :
              LET f == KeyFrames(column)[a] IN
              f.column <= column /\ (f.column < column \/ f.kind = "map")
<1> DEFINE Stays(m) == /\ yaml.stack[m].column <= column
                       /\ yaml.stack[m].column < column \/ yaml.stack[m].kind = "map"
           T == {n \in 0..Len(yaml.stack) : \A m \in 1..n : Stays(m)}
           top == Max(T)
<1>1. Len(yaml.stack) \in Nat
  BY SequenceFacts
<1>2. 0 \in T /\ T \subseteq 0..Len(yaml.stack)
  BY <1>1
<1>3. KeyFrames(column) = SubSeq(yaml.stack, 1, top)
  BY DEF KeyFrames
<1>4. top \in T
  <2> HIDE DEF T
  <2>1. QED
    BY <1>1, <1>2, MaxOf
<1> HIDE DEF top
<1>5. top \in 0..Len(yaml.stack) /\ \A m \in 1..top : Stays(m)
  BY <1>4
<1>6. /\ Outer(KeyFrames(column), yaml.stack)
      /\ DOMAIN KeyFrames(column) = 1..top
  BY <1>3, <1>5, SubSeqOuter
<1>7. \A a \in DOMAIN KeyFrames(column) : KeyFrames(column)[a] = yaml.stack[a]
  BY <1>6 DEF Outer
<1>8. QED
  BY <1>5, <1>6, <1>7

LEMMA ItemFramesAre ==
  ASSUME IsSequence(yaml.stack), NEW column
  PROVE  /\ Outer(ItemFrames(column), yaml.stack)
         /\ \A a \in DOMAIN ItemFrames(column) : ItemFrames(column)[a].column <= column
<1> DEFINE Stays(m) == yaml.stack[m].column <= column
           T == {n \in 0..Len(yaml.stack) : \A m \in 1..n : Stays(m)}
           top == Max(T)
<1>1. Len(yaml.stack) \in Nat
  BY SequenceFacts
<1>2. 0 \in T /\ T \subseteq 0..Len(yaml.stack)
  BY <1>1
<1>3. ItemFrames(column) = SubSeq(yaml.stack, 1, top)
  BY DEF ItemFrames
<1>4. top \in T
  <2> HIDE DEF T
  <2>1. QED
    BY <1>1, <1>2, MaxOf
<1> HIDE DEF top
<1>5. top \in 0..Len(yaml.stack) /\ \A m \in 1..top : Stays(m)
  BY <1>4
<1>6. /\ Outer(ItemFrames(column), yaml.stack)
      /\ DOMAIN ItemFrames(column) = 1..top
  BY <1>3, <1>5, SubSeqOuter
<1>7. \A a \in DOMAIN ItemFrames(column) : ItemFrames(column)[a] = yaml.stack[a]
  BY <1>6 DEF Outer
<1>8. QED
  BY <1>5, <1>6, <1>7

\* The last frame of a stack, and that the others are around it.
LEMMA TopFrame ==
  ASSUME NEW stack, StackOK(stack), stack # <<>>
  PROVE  /\ Len(stack) \in DOMAIN stack /\ Last(stack) = stack[Len(stack)]
         /\ FrameOK(Last(stack))
         /\ \A a \in DOMAIN stack : a = Len(stack) \/ Nested(stack[a], Last(stack))
<1>1. Len(stack) \in Nat /\ Len(stack) # 0 /\ DOMAIN stack = 1..Len(stack)
  BY SequenceFacts DEF StackOK
<1>2. Len(stack) \in DOMAIN stack /\ \A a \in DOMAIN stack : a = Len(stack) \/ a < Len(stack)
  BY <1>1
<1>3. QED
  BY <1>2 DEF Last, StackOK

-----------------------------------------------------------------------------
(* A line that begins a key: its path is that of YAML, and the next sibling *)
(* of every frame that is left finds it, or the line it found before.       *)

Renewed(stack, line) ==
  /\ StackOK(stack) /\ stack # <<>>
  /\ \A a \in DOMAIN stack :
       \/ Shows(line, stack[a])
       \/ Under(stack[a]) < line.indent /\ a \in DOMAIN yaml.stack /\ stack[a] = yaml.stack[a]

LEMMA FrameFields ==
  ASSUME NEW kind, NEW column, NEW path, NEW count
  PROVE  LET f == Frame(kind, column, path, count) IN
         f.kind = kind /\ f.column = column /\ f.path = path /\ f.count = count
BY DEF Frame

LEMMA NoFrames ==
  ASSUME Together, ~yaml.body, NEW column
  PROVE  /\ ~TopIs(KeyFrames(column), "map", column) /\ ~TopIs(ItemFrames(column), "list", column)
         /\ yaml.open.column = None
<1>1. IsSequence(yaml.stack) /\ yaml.stack = <<>> /\ yaml.open.column = None
  BY DEF Together, StackOK, BodyOK
<1>2. DOMAIN yaml.stack = {}
  BY <1>1, NoElement, SequenceFacts, EmptySeq
<1>3. \A kept : Outer(kept, yaml.stack) => kept = <<>>
  <2> SUFFICES ASSUME NEW kept, Outer(kept, yaml.stack) PROVE kept = <<>>
    OBVIOUS
  <2>1. DOMAIN kept = {} /\ DOMAIN kept = 1..Len(kept) /\ Len(kept) \in Nat
    BY <1>2, SequenceFacts DEF Outer
  <2>2. Len(kept) = 0
    BY <2>1
  <2>3. QED
    BY <2>2, SequenceFacts DEF Outer
<1>4. KeyFrames(column) = <<>> /\ ItemFrames(column) = <<>>
  BY <1>1, <1>3, KeyFramesAre, ItemFramesAre
<1>5. QED
  BY <1>1, <1>4 DEF TopIs

LEMMA MapStackCases ==
  ASSUME Together, NEW column \in Nat, MapStack(column) # <<>>
  PROVE  \/ TopIs(KeyFrames(column), "map", column) /\ MapStack(column) = KeyFrames(column)
         \/ /\ yaml.open.column \in 0..(column - 1)
            /\ MapStack(column) = Append(yaml.stack, Frame("map", column, yaml.open.path, 0))
         \/ ~yaml.body /\ column = 0 /\ MapStack(column) = <<Frame("map", 0, Root, 0)>>
<1>1. CASE ~yaml.body
  <2>1. ~TopIs(KeyFrames(column), "map", column) /\ yaml.open.column \notin 0..(column - 1)
    BY <1>1, NoFrames DEF None
  <2>2. QED
    BY <1>1, <2>1 DEF MapStack
<1>2. CASE yaml.body
  BY <1>2 DEF MapStack
<1>3. QED
  BY <1>1, <1>2

LEMMA ListStackCases ==
  ASSUME Together, NEW column \in Nat, ListStack(column) # <<>>
  PROVE  LET kept == ItemFrames(column) IN
         \/ /\ TopIs(kept, "list", column)
            /\ ListStack(column) =
                 Append(Front(kept), Frame("list", column, Last(kept).path, Last(kept).count + 1))
         \/ /\ yaml.open.column \in 0..column
            /\ ListStack(column) = Append(yaml.stack, Frame("list", column, yaml.open.path, 1))
         \/ ~yaml.body /\ column = 0 /\ ListStack(column) = <<Frame("list", 0, Root, 1)>>
<1>1. CASE ~yaml.body
  <2>1. ~TopIs(ItemFrames(column), "list", column) /\ yaml.open.column \notin 0..column
    BY <1>1, NoFrames DEF None
  <2>2. QED
    BY <1>1, <2>1 DEF ListStack
<1>2. CASE yaml.body
  BY <1>2 DEF ListStack
<1>3. QED
  BY <1>1, <1>2

\* Below a key that has no value: every frame is around it.
LEMMA UnderOpen ==
  ASSUME Together, yaml.open.column # None
  PROVE  /\ yaml.open.column \in Nat /\ PathOK(yaml.open.path) /\ ~IsIndex(Last(yaml.open.path))
         /\ \A a \in DOMAIN yaml.stack :
              /\ yaml.stack[a].column \in Nat /\ Under(yaml.stack[a]) <= yaml.open.column
              /\ yaml.stack[a].column <= yaml.open.column
<1>1. /\ yaml.open.column \in Nat /\ PathOK(yaml.open.path) /\ ~IsIndex(Last(yaml.open.path))
      /\ yaml.stack # <<>> /\ Last(yaml.stack).kind = "map"
      /\ Last(yaml.stack).column = yaml.open.column /\ StackOK(yaml.stack)
  BY DEF Together, OpenOK
<1>2. ASSUME NEW a \in DOMAIN yaml.stack
      PROVE  /\ yaml.stack[a].column \in Nat /\ Under(yaml.stack[a]) <= yaml.open.column
             /\ yaml.stack[a].column <= yaml.open.column
  <2>1. FrameOK(yaml.stack[a])
    BY <1>1 DEF StackOK
  <2>2. yaml.stack[a] = Last(yaml.stack) \/ Nested(yaml.stack[a], Last(yaml.stack))
    BY <1>1, TopFrame
  <2>3. QED
    BY <1>1, <2>1, <2>2 DEF FrameOK, Nested, Under
<1>3. QED
  BY <1>1, <1>2

LEMMA NumberNat ==
  ASSUME ParserOK
  PROVE  Number \in Nat
BY OffsetIs

LEMMA KeyLineParsed ==
  ASSUME Together, ParserOK, NEW raw \in Raw, raw.shape \in Mapping, ~IsContent(raw),
         MapStack(raw.column) # <<>>
  PROVE  LET line == Parsed(raw, RefOf(raw))
             path == OtherPath(Nearest(lines, raw.column), raw.column, <<Key(Number)>>)
         IN /\ line.type = {"mapping"} /\ line.indent = raw.column
            /\ line.ref = Append(Last(MapStack(raw.column)).path, Key(Number))
            /\ line.path = path[1] /\ line.listIndex = path[2]
<1>1. ~InScalar(raw)
  <2>1. raw.shape # "empty"
    BY DEF Mapping
  <2>2. QED
    BY <2>1 DEF Together, InScalar, IsContent
<1>2. TypeOf(raw) = {"mapping"}
  BY <1>1 DEF TypeOf, Mapping, Item
<1>3. IndentOf(raw) = raw.column /\ KeyOf(raw) = <<Key(Number)>>
  BY <1>2 DEF IndentOf, KeyOf
<1>4. PathOf(raw) = OtherPath(Nearest(lines, raw.column), raw.column, <<Key(Number)>>)
  BY <1>2, <1>3, PreviousNearest DEF PathOf
<1>5. RefOf(raw) = Append(Last(MapStack(raw.column)).path, Key(Number))
  BY DEF RefOf, Mapping, Item
<1>6. QED
  BY <1>2, <1>3, <1>4, <1>5 DEF Parsed

\* Two paths that end alike are of the same kind and begin alike.
LEMMA AppendEqual ==
  ASSUME NEW s, IsSequence(s), NEW t, IsSequence(t), NEW x, NEW y, Append(s, x) = Append(t, y)
  PROVE  s = t /\ x = y
<1>1. s = t
  <2>1. Front(Append(s, x)) = s /\ Front(Append(t, y)) = t
    BY FrontAppend
  <2>2. QED
    BY <2>1, Zenon
<1>2. Last(Append(s, x)) = x /\ Last(Append(t, y)) = y
  BY LastOfAppend
<1>3. QED
  BY <1>1, <1>2

LEMMA CountedOK ==
  ASSUME NEW f, FrameOK(f), f.kind = "list"
  PROVE  PathOK(CountedPath(f)) /\ f.count - 1 \in Nat /\ PathOK(f.path) /\ ~IsIndex(Last(f.path))
<1>1. f.count - 1 \in Nat /\ PathOK(f.path) /\ ~IsIndex(Last(f.path))
  BY DEF FrameOK
<1>2. QED
  BY <1>1, AppendStep DEF CountedPath

\* The cases of ListPath and OtherPath that YAML knows.
LEMMA FirstPath ==
  ASSUME NEW indent, NEW key
  PROVE  /\ OtherPath(0, indent, key) = <<Root \o key, 0>>
         /\ ListPath(0, indent, key) = <<Root \o <<Index(0)>> \o key, 0>>
BY DEF OtherPath, ListPath

LEMMA ChildPath ==
  ASSUME NEW prev, NEW indent, NEW key, prev # 0, lines[prev].indent < indent, lines[prev].indent # indent
  PROVE  /\ OtherPath(prev, indent, key) = <<lines[prev].path \o key, 0>>
         /\ ListPath(prev, indent, key) = <<lines[prev].path \o <<Index(0)>> \o key, 0>>
BY DEF OtherPath, ListPath

LEMMA SiblingKeyPath ==
  ASSUME NEW prev, NEW indent, NEW key, prev # 0, ~(lines[prev].indent < indent),
         lines[prev].indent = indent, LastKey(lines[prev].path) # 0
  PROVE  OtherPath(prev, indent, key) =
           <<Upto(lines[prev].path, LastKey(lines[prev].path)) \o key, lines[prev].listIndex>>
BY DEF OtherPath

LEMMA SiblingItemPath ==
  ASSUME NEW prev, NEW indent, NEW key, prev # 0, ~(lines[prev].indent < indent),
         lines[prev].indent = indent, LastIndex(lines[prev].path) # 0
  PROVE  ListPath(prev, indent, key) =
           <<Upto(lines[prev].path, LastIndex(lines[prev].path))
               \o <<Index(lines[prev].listIndex + 1)>> \o key,
             lines[prev].listIndex + 1>>
BY DEF ListPath

\* A sibling of a key: around its mapping there may be the element of a list that it is in,
\* which finds its next sibling from the same line.
LEMMA SiblingShows ==
  ASSUME NEW old, NEW line, NEW f, NEW g, FrameOK(f), FrameOK(g), NEW n \in Nat,
         g.kind = "map", Shows(old, f), Shows(old, g), Nested(f, g),
         line.indent = Under(g), line.path = Append(g.path, Key(n)), line.listIndex = old.listIndex
  PROVE  Shows(line, f)
<1>1. f.column \in Nat /\ g.column \in Nat /\ Under(f) = Under(g)
  BY DEF FrameOK, Shows
<1>2. f.kind = "list"
  <2>1. f.kind \in {"map", "list"}
    BY DEF FrameOK
  <2>2. f.kind = "map" => f.column < g.column /\ f.column = g.column
    BY <1>1 DEF Nested, Under
  <2>3. QED
    BY <1>1, <2>1, <2>2
<1>3. /\ PathOK(CountedPath(f)) /\ PathOK(g.path) /\ f.count - 1 \in Nat /\ IsSequence(f.path)
      /\ IsSequence(CountedPath(f)) /\ IsSequence(g.path)
  BY <1>2, CountedOK DEF FrameOK, PathOK
<1>4. PICK m \in Nat : old.path = Append(g.path, Key(m))
  BY DEF Shows
<1>5. \/ old.path = CountedPath(f)
      \/ \E k \in Nat : old.path = Append(CountedPath(f), Key(k))
  BY <1>2 DEF Shows
<1>6. old.path # CountedPath(f)
  <2>1. Last(Append(g.path, Key(m))) = Key(m) /\ Last(CountedPath(f)) = Index(f.count - 1)
    BY <1>3, LastOfAppend DEF CountedPath
  <2>2. IsKey(Key(m)) /\ ~IsKey(Index(f.count - 1))
    BY StepKinds
  <2>3. QED
    BY <1>4, <2>1, <2>2
<1>7. PICK k \in Nat : old.path = Append(CountedPath(f), Key(k))
  BY <1>5, <1>6
<1>8. CountedPath(f) = g.path
  <2>1. Append(CountedPath(f), Key(k)) = Append(g.path, Key(m))
    BY <1>4, <1>7, Zenon
  <2>2. Front(Append(CountedPath(f), Key(k))) = CountedPath(f)
    BY <1>3, FrontAppend
  <2>3. Front(Append(g.path, Key(m))) = g.path
    BY <1>3, FrontAppend
  <2>4. QED
    BY <2>1, <2>2, <2>3, Zenon
<1>9. line.path = Append(CountedPath(f), Key(n))
  BY <1>8
<1>10. line.listIndex = f.count - 1 /\ line.indent = Under(f)
  BY <1>1, <1>2 DEF Shows
<1>11. QED
  BY <1>2, <1>9, <1>10 DEF Shows

\* The path of a key from that of its sibling.
LEMMA KeyLineSibling ==
  ASSUME Together, ParserOK, NEW column \in Nat, NEW line,
         TopIs(KeyFrames(column), "map", column),
         line.indent = column,
         LET path == OtherPath(Nearest(lines, column), column, <<Key(Number)>>)
         IN line.path = path[1] /\ line.listIndex = path[2]
  PROVE  /\ Renewed(KeyFrames(column), line)
         /\ line.path = Append(Last(KeyFrames(column)).path, Key(Number))
<1> DEFINE kept == KeyFrames(column)
           g == Last(kept)
           old == lines[Nearest(lines, column)]
<1>1. /\ StackOK(yaml.stack) /\ IsSequence(yaml.stack) /\ StackShown
      /\ Outer(kept, yaml.stack) /\ StackOK(kept) /\ kept # <<>>
      /\ g.kind = "map" /\ g.column = column /\ Under(g) = column
      /\ \A a \in DOMAIN kept : kept[a].column <= column
  BY KeyFramesAre, StackOuter DEF Together, StackOK, TopIs, Under
<1>2. /\ FrameOK(g) /\ Len(kept) \in DOMAIN kept /\ g = kept[Len(kept)]
      /\ \A a \in DOMAIN kept : a = Len(kept) \/ Nested(kept[a], g)
  BY <1>1, TopFrame
<1> HIDE DEF kept, g
<1>3. Nearest(lines, column) # 0 /\ Shows(old, g)
  BY <1>1, <1>2 DEF StackShown, Outer
<1>4. PathOK(g.path) /\ IsSequence(g.path) /\ Number \in Nat
  BY <1>2, NumberNat DEF FrameOK, PathOK
<1>5. PICK m \in Nat : old.path = Append(g.path, Key(m))
  BY <1>1, <1>3 DEF Shows
<1>6. LastKey(old.path) # 0 /\ Upto(old.path, LastKey(old.path)) = g.path
  BY <1>4, <1>5, KeyFound
<1>7. old.indent = column
  BY <1>1, <1>3 DEF Shows
<1>8. OtherPath(Nearest(lines, column), column, <<Key(Number)>>) = <<g.path \o <<Key(Number)>>, old.listIndex>>
  <2>1. ~(old.indent < column)
    BY <1>7
  <2>2. OtherPath(Nearest(lines, column), column, <<Key(Number)>>)
          = <<Upto(old.path, LastKey(old.path)) \o <<Key(Number)>>, old.listIndex>>
    BY <1>3, <1>6, <1>7, <2>1, SiblingKeyPath
  <2>3. QED
    BY <1>6, <2>2, Zenon
<1>9. line.path = Append(g.path, Key(Number)) /\ line.listIndex = old.listIndex
  BY <1>4, <1>8, ConcatOne
<1>10. Shows(line, g)
  BY <1>1, <1>4, <1>9 DEF Shows
<1>11. ASSUME NEW a \in DOMAIN kept
       PROVE  \/ Shows(line, kept[a])
              \/ Under(kept[a]) < line.indent /\ a \in DOMAIN yaml.stack /\ kept[a] = yaml.stack[a]
  <2>1. CASE a = Len(kept)
    BY <1>2, <1>10, <2>1
  <2>2. CASE a # Len(kept)
    <3>1. /\ Nested(kept[a], g) /\ FrameOK(kept[a])
          /\ a \in DOMAIN yaml.stack /\ kept[a] = yaml.stack[a]
      BY <1>1, <1>2, <2>2 DEF StackOK, Outer
    <3>2. Under(kept[a]) <= column /\ Under(kept[a]) \in Nat
      BY <1>1, <3>1 DEF Nested, Under, FrameOK
    <3>3. CASE Under(kept[a]) = column
      <4>1. Shows(old, kept[a])
        BY <1>1, <3>1, <3>3 DEF StackShown
      <4>2. QED
        BY <1>1, <1>2, <1>3, <1>4, <1>9, <3>1, <4>1, SiblingShows
    <3>4. CASE Under(kept[a]) # column
      BY <3>1, <3>2, <3>4
    <3>5. QED
      BY <3>3, <3>4
  <2>3. QED
    BY <2>1, <2>2
<1>12. QED
  BY <1>1, <1>9, <1>11 DEF Renewed, kept, g

\* The path of the first key below another.
LEMMA KeyLineChild ==
  ASSUME Together, ParserOK, NEW column \in Nat, NEW line,
         yaml.open.column \in 0..(column - 1),
         line.indent = column,
         LET path == OtherPath(Nearest(lines, column), column, <<Key(Number)>>)
         IN line.path = path[1] /\ line.listIndex = path[2]
  PROVE  LET stack == Append(yaml.stack, Frame("map", column, yaml.open.path, 0)) IN
         /\ Renewed(stack, line) /\ Last(stack) = Frame("map", column, yaml.open.path, 0)
         /\ line.path = Append(yaml.open.path, Key(Number))
<1> DEFINE f == Frame("map", column, yaml.open.path, 0)
           stack == Append(yaml.stack, f)
           old == lines[Nearest(lines, column)]
<1>1. yaml.open.column # None /\ yaml.open.column < column
  BY DEF None
<1>2. /\ PathOK(yaml.open.path) /\ IsSequence(yaml.open.path) /\ yaml.open.column \in Nat
      /\ \A a \in DOMAIN yaml.stack :
           /\ yaml.stack[a].column \in Nat /\ Under(yaml.stack[a]) <= yaml.open.column
           /\ yaml.stack[a].column <= yaml.open.column
  BY <1>1, UnderOpen DEF PathOK
<1>3. /\ Nearest(lines, column) # 0 /\ old.path = yaml.open.path
      /\ old.indent < column /\ old.indent # column
  BY <1>1, <1>2 DEF Together, OpenOK
<1>4. OtherPath(Nearest(lines, column), column, <<Key(Number)>>) = <<old.path \o <<Key(Number)>>, 0>>
  BY <1>3, ChildPath
<1>5. line.path = Append(yaml.open.path, Key(Number)) /\ Number \in Nat
  <2>1. old.path \o <<Key(Number)>> = Append(yaml.open.path, Key(Number))
    BY <1>2, <1>3, ConcatOne
  <2>2. line.path = old.path \o <<Key(Number)>>
    <3> DEFINE path == OtherPath(Nearest(lines, column), column, <<Key(Number)>>)
               other == old.path \o <<Key(Number)>>
    <3>1. line.path = path[1] /\ path = <<other, 0>>
      BY <1>4
    <3> HIDE DEF path, other
    <3>2. line.path = other
      BY <3>1
    <3>3. QED
      BY <3>2 DEF other
  <2>3. Number \in Nat
    BY NumberNat
  <2>4. QED
    BY <2>1, <2>2, <2>3, Zenon
<1>6. f.kind = "map" /\ f.column = column /\ f.path = yaml.open.path
  BY FrameFields
<1> HIDE DEF f
<1>7. FrameOK(f)
  BY <1>2, <1>6 DEF FrameOK
<1>8. ASSUME NEW a \in DOMAIN yaml.stack
      PROVE  Nested(yaml.stack[a], f) /\ Under(yaml.stack[a]) < column
  <2>1. FrameOK(yaml.stack[a])
    BY DEF Together, StackOK
  <2>2. QED
    BY <1>1, <1>2, <1>6, <2>1 DEF Nested, Under, FrameOK
<1>9. StackOK(stack)
  BY <1>7, <1>8, StackAppend DEF Together
<1>10. Shows(line, f)
  BY <1>5, <1>6 DEF Shows, Under
<1>11. /\ IsSequence(yaml.stack) /\ DOMAIN yaml.stack = 1..Len(yaml.stack)
       /\ DOMAIN stack = 1..(Len(yaml.stack) + 1) /\ stack # <<>> /\ Last(stack) = f
       /\ \A a \in DOMAIN yaml.stack : stack[a] = yaml.stack[a]
       /\ stack[Len(yaml.stack) + 1] = f /\ Len(yaml.stack) \in Nat
  BY SequenceFacts, AppendFacts, LastOfAppend DEF Together, StackOK
<1> HIDE DEF stack
<1>12. \A a \in DOMAIN stack : a \in DOMAIN yaml.stack \/ stack[a] = f
  BY <1>11
<1>13. Renewed(stack, line)
  BY <1>8, <1>9, <1>10, <1>11, <1>12 DEF Renewed
<1>14. QED
  BY <1>5, <1>11, <1>13 DEF stack, f

\* The path of the first key of a document.
LEMMA KeyLineFirst ==
  ASSUME Together, ParserOK, NEW line, ~yaml.body, line.indent = 0,
         LET path == OtherPath(Nearest(lines, 0), 0, <<Key(Number)>>)
         IN line.path = path[1] /\ line.listIndex = path[2]
  PROVE  LET stack == <<Frame("map", 0, Root, 0)>> IN
         /\ Renewed(stack, line) /\ Last(stack) = Frame("map", 0, Root, 0)
         /\ line.path = Append(Root, Key(Number))
<1> DEFINE f == Frame("map", 0, Root, 0)
           stack == <<f>>
<1>1. Nearest(lines, 0) = 0
  <2>1. \A i \in 1..Len(lines) : ~Reaches(lines[i], 0)
    BY SequenceFacts DEF Together, BodyOK, ParserOK, Reaches
  <2>2. QED
    BY <2>1, NearestNone DEF ParserOK
<1>2. line.path = Append(Root, Key(Number)) /\ Number \in Nat
  <2>1. OtherPath(Nearest(lines, 0), 0, <<Key(Number)>>) = <<Root \o <<Key(Number)>>, 0>>
    BY <1>1 DEF OtherPath
  <2>2. QED
    BY <2>1, ConcatOne, RootOK, NumberNat DEF PathOK
<1>3. f.kind = "map" /\ f.column = 0 /\ f.path = Root
  BY FrameFields
<1> HIDE DEF f
<1>4. FrameOK(f) /\ Shows(line, f)
  BY <1>2, <1>3, RootOK DEF FrameOK, Shows, Under
<1>5. IsSequence(stack) /\ DOMAIN stack = {1} /\ stack[1] = f /\ stack # <<>> /\ Last(stack) = f
  <2>1. IsSequence(stack) /\ Len(stack) = 1 /\ stack[1] = f
    BY OneElement
  <2>2. QED
    BY <2>1, SequenceFacts DEF Last
<1> HIDE DEF stack
<1>6. StackOK(stack)
  BY <1>4, <1>5 DEF StackOK
<1>7. QED
  BY <1>2, <1>4, <1>5, <1>6 DEF Renewed, stack, f

LEMMA KeyLine ==
  ASSUME Together, ParserOK, NEW raw \in Raw, raw.shape \in Mapping, ~IsContent(raw),
         MapStack(raw.column) # <<>>
  PROVE  LET line == Parsed(raw, RefOf(raw))
             stack == MapStack(raw.column)
         IN /\ line.type = {"mapping"} /\ line.indent = raw.column
            /\ Renewed(stack, line)
            /\ Last(stack).kind = "map" /\ Last(stack).column = raw.column
            /\ line.path = line.ref /\ line.ref = Append(Last(stack).path, Key(Number))
<1> DEFINE line == Parsed(raw, RefOf(raw))
           stack == MapStack(raw.column)
           column == raw.column
<1>1. /\ line.type = {"mapping"} /\ line.indent = column
      /\ line.ref = Append(Last(stack).path, Key(Number))
      /\ LET path == OtherPath(Nearest(lines, column), column, <<Key(Number)>>)
         IN line.path = path[1] /\ line.listIndex = path[2]
  BY KeyLineParsed
<1>2. column \in Nat
  BY RawColumn
<1> HIDE DEF line
<1>3. /\ Renewed(stack, line)
      /\ Last(stack).kind = "map" /\ Last(stack).column = column
      /\ line.path = Append(Last(stack).path, Key(Number))
  <2>1. CASE TopIs(KeyFrames(column), "map", column) /\ stack = KeyFrames(column)
    BY <1>1, <1>2, <2>1, KeyLineSibling DEF TopIs
  <2>2. CASE /\ yaml.open.column \in 0..(column - 1)
             /\ stack = Append(yaml.stack, Frame("map", column, yaml.open.path, 0))
    <3> DEFINE f == Frame("map", column, yaml.open.path, 0)
               more == Append(yaml.stack, f)
    <3>1. /\ Renewed(more, line) /\ Last(more) = f
          /\ line.path = Append(yaml.open.path, Key(Number))
      BY <1>1, <1>2, <2>2, KeyLineChild
    <3>2. stack = more
      BY <2>2
    <3>3. f.kind = "map" /\ f.column = column /\ f.path = yaml.open.path
      BY FrameFields
    <3> HIDE DEF stack, more, f
    <3>4. QED
      BY <3>1, <3>2, <3>3
  <2>3. CASE ~yaml.body /\ column = 0 /\ stack = <<Frame("map", 0, Root, 0)>>
    BY <1>1, <1>2, <2>3, KeyLineFirst, FrameFields
  <2>4. QED
    BY <1>2, <2>1, <2>2, <2>3, MapStackCases
<1>4. QED
  BY <1>1, <1>3 DEF line

-----------------------------------------------------------------------------
(* A line that begins an element of a list, with a key or not.              *)

\* The key of an element that is a mapping, and none of another.
ItemKeys == {<<>>, <<Key(Number)>>}

LEMMA ItemLineParsed ==
  ASSUME Together, ParserOK, NEW raw \in Raw, raw.shape \in Item \union {"value"}, ~IsContent(raw),
         ListStack(raw.column) # <<>>
  PROVE  LET line == Parsed(raw, RefOf(raw))
             path == ListPath(Nearest(lines, raw.column + 2), raw.column + 2, KeyOf(raw))
             element == Element(ListStack(raw.column))
         IN /\ line.indent = raw.column + 2 /\ line.path = path[1] /\ line.listIndex = path[2]
            /\ IF raw.shape \in Item
               THEN /\ line.type = {"list", "mapping"} /\ KeyOf(raw) = <<Key(Number)>>
                    /\ line.ref = Append(element, Key(Number))
               ELSE line.type = {"list"} /\ KeyOf(raw) = <<>> /\ line.ref = element
<1>1. ~InScalar(raw)
  <2>1. raw.shape # "empty"
    BY DEF Item
  <2>2. QED
    BY <2>1 DEF Together, InScalar, IsContent
<1>2. /\ raw.shape \in Item => TypeOf(raw) = {"list", "mapping"}
      /\ raw.shape = "value" => TypeOf(raw) = {"list"}
  BY <1>1 DEF TypeOf, Mapping, Item
<1>3. "list" \in TypeOf(raw)
  BY <1>2
<1>4. IndentOf(raw) = raw.column + 2
  BY <1>3 DEF IndentOf
<1>5. PathOf(raw) = ListPath(Nearest(lines, raw.column + 2), raw.column + 2, KeyOf(raw))
  <2>1. TypeOf(raw) \notin {{"separator"}, {"comment"}}
    BY <1>3
  <2>2. QED
    BY <1>3, <1>4, <2>1, PreviousNearest DEF PathOf
<1>6. /\ raw.shape \in Item => RefOf(raw) = Append(Element(ListStack(raw.column)), Key(Number))
      /\ raw.shape = "value" => RefOf(raw) = Element(ListStack(raw.column))
  BY DEF RefOf, Mapping, Item
<1>7. /\ raw.shape \in Item => KeyOf(raw) = <<Key(Number)>>
      /\ raw.shape = "value" => KeyOf(raw) = <<>>
  BY <1>2 DEF KeyOf
<1>8. raw.shape = "value" => raw.shape \notin Item
  BY DEF Item
<1>9. QED
  BY <1>2, <1>4, <1>5, <1>6, <1>7, <1>8 DEF Parsed

\* The element that a list is at, with a key or without, is found from its line.
LEMMA ItemShows ==
  ASSUME NEW f, FrameOK(f), f.kind = "list", NEW line, ParserOK, NEW key \in ItemKeys,
         line.indent = f.column + 2, line.listIndex = f.count - 1,
         line.path = f.path \o <<Index(f.count - 1)>> \o key
  PROVE  /\ Shows(line, f)
         /\ line.path = IF key = <<>> THEN CountedPath(f) ELSE Append(CountedPath(f), Key(Number))
<1>1. /\ PathOK(CountedPath(f)) /\ f.count - 1 \in Nat
      /\ IsSequence(f.path) /\ IsSequence(CountedPath(f)) /\ Number \in Nat
  BY CountedOK, NumberNat DEF PathOK
<1>2. f.path \o <<Index(f.count - 1)>> = CountedPath(f)
  BY <1>1, ConcatOne DEF CountedPath
<1>3. <<Key(Number)>> # <<>>
  OBVIOUS
<1>4. CASE key = <<>>
  <2>1. line.path = CountedPath(f)
    BY <1>1, <1>2, <1>4, ConcatNone
  <2>2. QED
    BY <1>4, <2>1 DEF Shows, Under
<1>5. CASE key = <<Key(Number)>>
  <2>1. line.path = Append(CountedPath(f), Key(Number))
    BY <1>1, <1>2, <1>5, ConcatOne
  <2>2. QED
    BY <1>1, <1>3, <1>5, <2>1 DEF Shows, Under
<1>6. QED
  BY <1>4, <1>5 DEF ItemKeys

\* The frames around a list and its new top frame.
LEMMA RenewedTop ==
  ASSUME NEW outer, StackOK(outer), NEW f, FrameOK(f), NEW line, Shows(line, f),
         Outer(outer, yaml.stack),
         \A a \in DOMAIN outer : Nested(outer[a], f) /\ Under(outer[a]) < line.indent
  PROVE  LET stack == Append(outer, f) IN
         /\ Renewed(stack, line) /\ Last(stack) = f
         /\ \A a \in DOMAIN stack : (a \in DOMAIN outer /\ stack[a] = outer[a]) \/ stack[a] = f
<1> DEFINE stack == Append(outer, f)
<1>1. StackOK(stack)
  BY StackAppend
<1>2. /\ IsSequence(outer) /\ DOMAIN outer = 1..Len(outer) /\ Len(outer) \in Nat
      /\ DOMAIN stack = 1..(Len(outer) + 1) /\ stack # <<>> /\ Last(stack) = f
      /\ \A a \in DOMAIN outer : stack[a] = outer[a]
      /\ stack[Len(outer) + 1] = f
  BY SequenceFacts, AppendFacts, LastOfAppend DEF StackOK
<1> HIDE DEF stack
<1>3. \A a \in DOMAIN stack : (a \in DOMAIN outer /\ stack[a] = outer[a]) \/ stack[a] = f
  BY <1>2
<1>4. Renewed(stack, line)
  BY <1>1, <1>2, <1>3 DEF Renewed, Outer
<1>5. QED
  BY <1>2, <1>3, <1>4 DEF stack

LEMMA ItemLineSibling ==
  ASSUME Together, ParserOK, NEW column \in Nat, NEW line, NEW key \in ItemKeys,
         TopIs(ItemFrames(column), "list", column),
         line.indent = column + 2,
         LET path == ListPath(Nearest(lines, column + 2), column + 2, key)
         IN line.path = path[1] /\ line.listIndex = path[2]
  PROVE  LET kept == ItemFrames(column)
             f == Frame("list", column, Last(kept).path, Last(kept).count + 1)
             stack == Append(Front(kept), f)
         IN /\ Renewed(stack, line) /\ Last(stack) = f /\ FrameOK(f)
            /\ \A a \in DOMAIN stack : stack[a].column <= column
            /\ line.path = IF key = <<>> THEN CountedPath(f) ELSE Append(CountedPath(f), Key(Number))
<1> DEFINE kept == ItemFrames(column)
           g == Last(kept)
           old == lines[Nearest(lines, column + 2)]
           f == Frame("list", column, g.path, g.count + 1)
           outer == Front(kept)
<1>1. /\ StackOK(yaml.stack) /\ IsSequence(yaml.stack) /\ StackShown
      /\ Outer(kept, yaml.stack) /\ StackOK(kept) /\ kept # <<>>
      /\ g.kind = "list" /\ g.column = column /\ Under(g) = column + 2
      /\ \A a \in DOMAIN kept : kept[a].column <= column
  BY ItemFramesAre, StackOuter DEF Together, StackOK, TopIs, Under
<1>2. /\ FrameOK(g) /\ Len(kept) \in DOMAIN kept /\ g = kept[Len(kept)]
      /\ \A a \in DOMAIN kept : a = Len(kept) \/ Nested(kept[a], g)
  BY <1>1, TopFrame
<1> HIDE DEF kept, g
<1>3. Nearest(lines, column + 2) # 0 /\ Shows(old, g)
  BY <1>1, <1>2 DEF StackShown, Outer
<1>4. /\ PathOK(g.path) /\ g.count - 1 \in Nat /\ g.count \in Nat /\ ~IsIndex(Last(g.path))
  BY <1>1, <1>2, CountedOK DEF FrameOK
<1>5. LastIndex(old.path) # 0 /\ Upto(old.path, LastIndex(old.path)) = g.path
  <2>1. CASE old.path = CountedPath(g)
    BY <1>4, <2>1, IndexFound DEF CountedPath
  <2>2. CASE \E n \in Nat : old.path = Append(CountedPath(g), Key(n))
    BY <1>4, <2>2, IndexFoundBelow DEF CountedPath
  <2>3. QED
    BY <1>1, <1>3, <2>1, <2>2 DEF Shows
<1>6. old.indent = column + 2 /\ old.listIndex = g.count - 1
  BY <1>1, <1>3 DEF Shows
<1>7. f.kind = "list" /\ f.column = column /\ f.path = g.path /\ f.count = g.count + 1
  BY FrameFields
<1> HIDE DEF f
<1>8. FrameOK(f) /\ f.count - 1 = g.count
  BY <1>4, <1>7 DEF FrameOK
<1>9. line.path = f.path \o <<Index(f.count - 1)>> \o key /\ line.listIndex = f.count - 1
  <2>1. ~(old.indent < column + 2) /\ old.listIndex + 1 = f.count - 1
    BY <1>4, <1>6, <1>8
  <2>2. ListPath(Nearest(lines, column + 2), column + 2, key)
          = <<Upto(old.path, LastIndex(old.path)) \o <<Index(old.listIndex + 1)>> \o key, old.listIndex + 1>>
    BY <1>3, <1>5, <1>6, <2>1, SiblingItemPath
  <2>3. ListPath(Nearest(lines, column + 2), column + 2, key)
          = <<f.path \o <<Index(f.count - 1)>> \o key, f.count - 1>>
    BY <1>5, <1>7, <2>1, <2>2, Zenon
  <2>4. QED
    BY <2>3
<1>10. /\ Shows(line, f)
       /\ line.path = IF key = <<>> THEN CountedPath(f) ELSE Append(CountedPath(f), Key(Number))
  BY <1>7, <1>8, <1>9, ItemShows
<1>11. /\ Outer(outer, kept) /\ DOMAIN outer = 1..(Len(kept) - 1) /\ Len(kept) \in Nat
       /\ DOMAIN kept = 1..Len(kept)
  <2>1. Len(kept) \in Nat /\ Len(kept) # 0 /\ IsSequence(kept) /\ DOMAIN kept = 1..Len(kept)
    BY <1>1, SequenceFacts DEF StackOK
  <2>2. Len(kept) - 1 \in 0..Len(kept)
    BY <2>1
  <2>3. QED
    BY <2>1, <2>2, SubSeqOuter DEF Front
<1> HIDE DEF outer
<1>12. StackOK(outer) /\ Outer(outer, yaml.stack)
  BY <1>1, <1>11, StackOuter DEF Outer
<1>13. ASSUME NEW a \in DOMAIN outer
       PROVE  Nested(outer[a], f) /\ Under(outer[a]) < line.indent /\ outer[a].column <= column
  <2>1. a \in DOMAIN kept /\ outer[a] = kept[a] /\ a # Len(kept)
    BY <1>11 DEF Outer
  <2>2. Nested(kept[a], g) /\ FrameOK(kept[a]) /\ kept[a].column <= column
    BY <1>1, <1>2, <2>1 DEF StackOK
  <2>3. QED
    BY <1>1, <1>7, <2>1, <2>2 DEF Nested, Under, FrameOK
<1>14. LET stack == Append(outer, f) IN
       /\ Renewed(stack, line) /\ Last(stack) = f
       /\ \A a \in DOMAIN stack : (a \in DOMAIN outer /\ stack[a] = outer[a]) \/ stack[a] = f
  BY <1>8, <1>10, <1>12, <1>13, RenewedTop
<1>15. QED
  BY <1>7, <1>8, <1>10, <1>13, <1>14 DEF kept, g, f, outer

LEMMA ItemLineChild ==
  ASSUME Together, ParserOK, NEW column \in Nat, NEW line, NEW key \in ItemKeys,
         yaml.open.column \in 0..column,
         line.indent = column + 2,
         LET path == ListPath(Nearest(lines, column + 2), column + 2, key)
         IN line.path = path[1] /\ line.listIndex = path[2]
  PROVE  LET f == Frame("list", column, yaml.open.path, 1)
             stack == Append(yaml.stack, f)
         IN /\ Renewed(stack, line) /\ Last(stack) = f /\ FrameOK(f)
            /\ \A a \in DOMAIN stack : stack[a].column <= column
            /\ line.path = IF key = <<>> THEN CountedPath(f) ELSE Append(CountedPath(f), Key(Number))
<1> DEFINE f == Frame("list", column, yaml.open.path, 1)
           old == lines[Nearest(lines, column + 2)]
<1>1. yaml.open.column # None /\ yaml.open.column <= column
  BY DEF None
<1>2. /\ PathOK(yaml.open.path) /\ ~IsIndex(Last(yaml.open.path)) /\ yaml.open.column \in Nat
      /\ \A a \in DOMAIN yaml.stack :
           /\ yaml.stack[a].column \in Nat /\ Under(yaml.stack[a]) <= yaml.open.column
           /\ yaml.stack[a].column <= yaml.open.column
  BY <1>1, UnderOpen
<1>3. /\ Nearest(lines, column + 2) # 0 /\ old.path = yaml.open.path
      /\ old.indent < column + 2 /\ old.indent # column + 2
  <2>1. column + 2 \in Nat /\ column + 2 >= yaml.open.column /\ yaml.open.column < column + 2
    BY <1>1, <1>2
  <2>2. QED
    BY <1>1, <2>1 DEF Together, OpenOK
<1>4. f.kind = "list" /\ f.column = column /\ f.path = yaml.open.path /\ f.count = 1
  BY FrameFields
<1> HIDE DEF f
<1>5. FrameOK(f) /\ f.count - 1 = 0
  BY <1>2, <1>4 DEF FrameOK
<1>6. line.path = f.path \o <<Index(f.count - 1)>> \o key /\ line.listIndex = f.count - 1
  <2>1. ListPath(Nearest(lines, column + 2), column + 2, key) = <<old.path \o <<Index(0)>> \o key, 0>>
    BY <1>3, ChildPath
  <2>2. ListPath(Nearest(lines, column + 2), column + 2, key)
          = <<f.path \o <<Index(f.count - 1)>> \o key, f.count - 1>>
    BY <1>3, <1>4, <1>5, <2>1, Zenon
  <2>3. QED
    BY <2>2
<1>7. /\ Shows(line, f)
      /\ line.path = IF key = <<>> THEN CountedPath(f) ELSE Append(CountedPath(f), Key(Number))
  BY <1>4, <1>5, <1>6, ItemShows
<1>8. StackOK(yaml.stack) /\ Outer(yaml.stack, yaml.stack)
  BY DEF Together, StackOK, Outer
<1>9. ASSUME NEW a \in DOMAIN yaml.stack
      PROVE  /\ Nested(yaml.stack[a], f) /\ Under(yaml.stack[a]) < line.indent
             /\ yaml.stack[a].column <= column
  <2>1. FrameOK(yaml.stack[a])
    BY <1>8 DEF StackOK
  <2>2. QED
    BY <1>1, <1>2, <1>4, <2>1 DEF Nested, Under, FrameOK
<1>10. LET stack == Append(yaml.stack, f) IN
       /\ Renewed(stack, line) /\ Last(stack) = f
       /\ \A a \in DOMAIN stack : (a \in DOMAIN yaml.stack /\ stack[a] = yaml.stack[a]) \/ stack[a] = f
  BY <1>5, <1>7, <1>8, <1>9, RenewedTop
<1>11. QED
  BY <1>4, <1>5, <1>7, <1>9, <1>10 DEF f

LEMMA ItemLineFirst ==
  ASSUME Together, ParserOK, NEW line, NEW key \in ItemKeys, ~yaml.body, line.indent = 2,
         LET path == ListPath(Nearest(lines, 2), 2, key)
         IN line.path = path[1] /\ line.listIndex = path[2]
  PROVE  LET f == Frame("list", 0, Root, 1)
             stack == <<f>>
         IN /\ Renewed(stack, line) /\ Last(stack) = f /\ FrameOK(f)
            /\ \A a \in DOMAIN stack : stack[a].column <= 0
            /\ line.path = IF key = <<>> THEN CountedPath(f) ELSE Append(CountedPath(f), Key(Number))
<1> DEFINE f == Frame("list", 0, Root, 1)
           stack == <<f>>
<1>1. Nearest(lines, 2) = 0
  <2>1. \A i \in 1..Len(lines) : ~Reaches(lines[i], 2)
    BY SequenceFacts DEF Together, BodyOK, ParserOK, Reaches
  <2>2. QED
    BY <2>1, NearestNone DEF ParserOK
<1>2. f.kind = "list" /\ f.column = 0 /\ f.path = Root /\ f.count = 1
  BY FrameFields
<1> HIDE DEF f
<1>3. FrameOK(f) /\ f.count - 1 = 0
  BY <1>2, RootOK DEF FrameOK
<1>4. line.path = f.path \o <<Index(f.count - 1)>> \o key /\ line.listIndex = f.count - 1
  <2>1. ListPath(Nearest(lines, 2), 2, key) = <<Root \o <<Index(0)>> \o key, 0>>
    BY <1>1, FirstPath
  <2>2. ListPath(Nearest(lines, 2), 2, key) = <<f.path \o <<Index(f.count - 1)>> \o key, f.count - 1>>
    BY <1>2, <1>3, <2>1, Zenon
  <2>3. QED
    BY <2>2
<1>5. /\ Shows(line, f)
      /\ line.path = IF key = <<>> THEN CountedPath(f) ELSE Append(CountedPath(f), Key(Number))
  <2>1. line.indent = f.column + 2
    BY <1>2
  <2>2. QED
    BY <1>2, <1>3, <1>4, <2>1, ItemShows
<1>6. IsSequence(stack) /\ DOMAIN stack = {1} /\ stack[1] = f /\ stack # <<>> /\ Last(stack) = f
  <2>1. IsSequence(stack) /\ Len(stack) = 1 /\ stack[1] = f
    BY OneElement
  <2>2. QED
    BY <2>1, SequenceFacts DEF Last
<1> HIDE DEF stack
<1>7. StackOK(stack)
  BY <1>3, <1>6 DEF StackOK
<1>8. QED
  BY <1>2, <1>3, <1>5, <1>6, <1>7 DEF Renewed, stack, f

LEMMA ItemLine ==
  ASSUME Together, ParserOK, NEW raw \in Raw, raw.shape \in Item \union {"value"}, ~IsContent(raw),
         ListStack(raw.column) # <<>>
  PROVE  LET line == Parsed(raw, RefOf(raw))
             stack == ListStack(raw.column)
             element == CountedPath(Last(stack))
         IN /\ line.indent = raw.column + 2
            /\ Renewed(stack, line)
            /\ FrameOK(Last(stack)) /\ Last(stack).kind = "list"
            /\ \A a \in DOMAIN stack : stack[a].column <= raw.column
            /\ PathOK(element) /\ element = Element(stack)
            /\ line.path = line.ref
            /\ IF raw.shape \in Item
               THEN line.type = {"list", "mapping"} /\ line.ref = Append(element, Key(Number))
               ELSE line.type = {"list"} /\ line.ref = element
<1> DEFINE line == Parsed(raw, RefOf(raw))
           column == raw.column
           stack == ListStack(column)
           top == Last(stack)
           key == KeyOf(raw)
<1>1. /\ line.indent = column + 2
      /\ LET path == ListPath(Nearest(lines, column + 2), column + 2, key)
         IN line.path = path[1] /\ line.listIndex = path[2]
      /\ IF raw.shape \in Item
         THEN /\ line.type = {"list", "mapping"} /\ key = <<Key(Number)>>
              /\ line.ref = Append(Element(stack), Key(Number))
         ELSE line.type = {"list"} /\ key = <<>> /\ line.ref = Element(stack)
  BY ItemLineParsed
<1>2. column \in Nat
  BY RawColumn
<1>3. key \in ItemKeys
  BY <1>1 DEF ItemKeys
<1> HIDE DEF line, key
<1>4. /\ Renewed(stack, line) /\ FrameOK(top) /\ top.kind = "list"
      /\ \A a \in DOMAIN stack : stack[a].column <= column
      /\ line.path = IF key = <<>> THEN CountedPath(top) ELSE Append(CountedPath(top), Key(Number))
  <2>1. CASE /\ TopIs(ItemFrames(column), "list", column)
             /\ stack = Append(Front(ItemFrames(column)),
                  Frame("list", column, Last(ItemFrames(column)).path, Last(ItemFrames(column)).count + 1))
    <3> DEFINE f == Frame("list", column, Last(ItemFrames(column)).path, Last(ItemFrames(column)).count + 1)
               more == Append(Front(ItemFrames(column)), f)
    <3>1. /\ Renewed(more, line) /\ Last(more) = f /\ FrameOK(f)
          /\ \A a \in DOMAIN more : more[a].column <= column
          /\ line.path = IF key = <<>> THEN CountedPath(f) ELSE Append(CountedPath(f), Key(Number))
      BY <1>1, <1>2, <1>3, <2>1, ItemLineSibling
    <3>2. f.kind = "list"
      BY FrameFields
    <3>3. stack = more
      BY <2>1
    <3> HIDE DEF more, f, stack
    <3>4. QED
      BY <3>1, <3>2, <3>3
  <2>2. CASE /\ yaml.open.column \in 0..column
             /\ stack = Append(yaml.stack, Frame("list", column, yaml.open.path, 1))
    <3> DEFINE f == Frame("list", column, yaml.open.path, 1)
               more == Append(yaml.stack, f)
    <3>1. /\ Renewed(more, line) /\ Last(more) = f /\ FrameOK(f)
          /\ \A a \in DOMAIN more : more[a].column <= column
          /\ line.path = IF key = <<>> THEN CountedPath(f) ELSE Append(CountedPath(f), Key(Number))
      BY <1>1, <1>2, <1>3, <2>2, ItemLineChild
    <3>2. f.kind = "list"
      BY FrameFields
    <3>3. stack = more
      BY <2>2
    <3> HIDE DEF more, f, stack
    <3>4. QED
      BY <3>1, <3>2, <3>3
  <2>3. CASE ~yaml.body /\ column = 0 /\ stack = <<Frame("list", 0, Root, 1)>>
    <3> DEFINE f == Frame("list", 0, Root, 1)
    <3>1. /\ Renewed(<<f>>, line) /\ Last(<<f>>) = f /\ FrameOK(f)
          /\ \A a \in DOMAIN <<f>> : <<f>>[a].column <= 0
          /\ line.path = IF key = <<>> THEN CountedPath(f) ELSE Append(CountedPath(f), Key(Number))
      <4>1. line.indent = 2 /\ Nearest(lines, column + 2) = Nearest(lines, 2) /\ column + 2 = 2
        BY <1>1, <2>3
      <4>2. LET path == ListPath(Nearest(lines, 2), 2, key) IN line.path = path[1] /\ line.listIndex = path[2]
        BY <1>1, <4>1
      <4>3. QED
        BY <1>3, <2>3, <4>1, <4>2, ItemLineFirst
    <3>2. f.kind = "list"
      BY FrameFields
    <3>3. stack = <<f>>
      BY <2>3
    <3> HIDE DEF f, stack
    <3>4. QED
      BY <2>3, <3>1, <3>2, <3>3
  <2>4. QED
    BY <1>2, <2>1, <2>2, <2>3, ListStackCases
<1>5. Element(stack) = CountedPath(top)
  BY DEF Element, CountedPath
<1>6. PathOK(CountedPath(top))
  BY <1>4, CountedOK
<1>7. <<Key(Number)>> # <<>>
  OBVIOUS
<1>8. line.path = line.ref
  BY <1>1, <1>4, <1>5, <1>7
<1>9. QED
  BY <1>1, <1>4, <1>5, <1>6, <1>8 DEF line, key

\* The mapping that an element of a list begins, on top of the list.
LEMMA ItemPushed ==
  ASSUME NEW stack, NEW line, Renewed(stack, line), NEW f, FrameOK(f), f.kind = "map", Shows(line, f),
         \A a \in DOMAIN stack : stack[a].column + 2 <= f.column
  PROVE  Renewed(Append(stack, f), line) /\ Last(Append(stack, f)) = f
<1> DEFINE more == Append(stack, f)
<1>3. \A a \in DOMAIN stack : Nested(stack[a], f)
  <2>1. ASSUME NEW a \in DOMAIN stack
        PROVE  Nested(stack[a], f)
    <3>1. FrameOK(stack[a]) /\ stack[a].column + 2 <= f.column
      BY DEF Renewed, StackOK
    <3>2. QED
      BY <3>1 DEF Nested, FrameOK
  <2>2. QED
    BY <2>1
<1>4. StackOK(more)
  BY <1>3, StackAppend DEF Renewed
<1>5. /\ IsSequence(stack) /\ DOMAIN stack = 1..Len(stack) /\ Len(stack) \in Nat
      /\ DOMAIN more = 1..(Len(stack) + 1) /\ more # <<>> /\ Last(more) = f
      /\ \A a \in DOMAIN stack : more[a] = stack[a]
      /\ more[Len(stack) + 1] = f
  BY SequenceFacts, AppendFacts, LastOfAppend DEF Renewed, StackOK
<1> HIDE DEF more
<1>6. \A a \in DOMAIN more : a \in DOMAIN stack \/ more[a] = f
  BY <1>5
<1>7. Renewed(more, line)
  BY <1>4, <1>5, <1>6 DEF Renewed
<1>8. QED
  BY <1>5, <1>7 DEF more

-----------------------------------------------------------------------------
(* Every line keeps the two together.                                       *)

\* A line that YAML gives a path.
LEMMA EntryLine ==
  ASSUME Together, ParserOK, NEW raw \in Raw, RefOf(raw) # <<>>
  PROVE  LET line == Parsed(raw, RefOf(raw))
             stack == StackAfter(raw)
         IN /\ raw.shape \in Mapping \union Item \union {"value"} /\ ~IsContent(raw)
            /\ IsEntry(line) /\ line.indent \in Nat /\ LineAgrees(line) /\ line.path = RefOf(raw)
            /\ Renewed(stack, line)
            /\ raw.shape \in Mapping \union Item =>
                 /\ line.indent = KeyColumn(raw) /\ IsKey(Last(line.path))
                 /\ Last(stack).kind = "map" /\ Last(stack).column = KeyColumn(raw)
<1> DEFINE line == Parsed(raw, RefOf(raw))
           stack == StackAfter(raw)
<1>1. /\ ~IsContent(raw)
      /\ \/ raw.shape \in Mapping /\ MapStack(raw.column) # <<>>
         \/ raw.shape \in Item \union {"value"} /\ ListStack(raw.column) # <<>>
  BY DEF RefOf
<1>2. line.ref = RefOf(raw) /\ raw.column \in Nat /\ Number \in Nat
  BY RawColumn, NumberNat DEF Parsed
<1>3. CASE raw.shape \in Mapping /\ MapStack(raw.column) # <<>>
  <2>1. stack = MapStack(raw.column) /\ KeyColumn(raw) = raw.column
    BY <1>3 DEF StackAfter, KeyColumn, Mapping
  <2>2. /\ line.type = {"mapping"} /\ line.indent = raw.column
        /\ Renewed(stack, line) /\ Last(stack).kind = "map" /\ Last(stack).column = raw.column
        /\ line.path = line.ref /\ line.ref = Append(Last(stack).path, Key(Number))
    BY <1>1, <1>3, <2>1, KeyLine
  <2> HIDE DEF line, stack
  <2>3. FrameOK(Last(stack))
    BY <2>2, TopFrame DEF Renewed
  <2>4. PathOK(line.path) /\ Last(line.path) = Key(Number)
    BY <1>2, <2>2, <2>3, AppendStep DEF FrameOK
  <2>5. IsEntry(line) /\ LineAgrees(line)
    BY <2>2, <2>4, StepKinds DEF IsEntry, LineAgrees
  <2>6. QED
    BY <1>1, <1>2, <1>3, <2>1, <2>2, <2>4, <2>5, StepKinds DEF line, stack
<1>4. CASE raw.shape \in Item /\ ListStack(raw.column) # <<>>
  <2> DEFINE below == ListStack(raw.column)
             element == Element(below)
             f == Frame("map", raw.column + 2, element, 0)
  <2>1. stack = Append(below, f) /\ KeyColumn(raw) = raw.column + 2
    BY <1>4 DEF StackAfter, KeyColumn, Mapping, Item
  <2>2. /\ line.type = {"list", "mapping"} /\ line.indent = raw.column + 2
        /\ Renewed(below, line) /\ \A a \in DOMAIN below : below[a].column <= raw.column
        /\ PathOK(element) /\ line.path = line.ref /\ line.ref = Append(element, Key(Number))
    BY <1>1, <1>4, ItemLine
  <2>3. f.kind = "map" /\ f.column = raw.column + 2 /\ f.path = element
    BY FrameFields
  <2> HIDE DEF line, element, below, f
  <2>4. Renewed(Append(below, f), line) /\ Last(Append(below, f)) = f
    <3>1. FrameOK(f)
      BY <1>2, <2>2, <2>3 DEF FrameOK
    <3>2. line.path = Append(f.path, Key(Number))
      BY <2>2, <2>3, Zenon
    <3>3. Shows(line, f)
      BY <1>2, <2>2, <2>3, <3>2 DEF Shows, Under
    <3>4. \A a \in DOMAIN below : below[a].column + 2 <= f.column
      <4>1. \A a \in DOMAIN below : below[a].column \in Nat
        BY <2>2 DEF Renewed, StackOK, FrameOK
      <4>2. QED
        BY <1>2, <2>2, <2>3, <4>1
    <3>5. QED
      BY <2>2, <2>3, <3>1, <3>3, <3>4, ItemPushed, Zenon
  <2> HIDE DEF stack
  <2>5. Renewed(stack, line) /\ Last(stack) = f
    BY <2>1, <2>4, Zenon
  <2>6. PathOK(line.path) /\ Last(line.path) = Key(Number)
    BY <1>2, <2>2, AppendStep
  <2>7. IsEntry(line) /\ LineAgrees(line)
    BY <2>2, <2>6, StepKinds DEF IsEntry, LineAgrees
  <2>8. line.indent \in Nat
    BY <1>2, <2>2
  <2>9. QED
    BY <1>1, <1>2, <1>4, <2>1, <2>2, <2>3, <2>5, <2>6, <2>7, <2>8, StepKinds DEF line, stack
<1>5. CASE raw.shape = "value" /\ ListStack(raw.column) # <<>>
  <2>1. stack = ListStack(raw.column) /\ raw.shape \notin Mapping /\ raw.shape \notin Item
    BY <1>5 DEF StackAfter, Mapping, Item
  <2>2. /\ line.type = {"list"} /\ line.indent = raw.column + 2
        /\ Renewed(stack, line)
        /\ PathOK(CountedPath(Last(stack))) /\ CountedPath(Last(stack)) = Element(stack)
        /\ line.path = line.ref /\ line.ref = CountedPath(Last(stack))
        /\ FrameOK(Last(stack)) /\ Last(stack).kind = "list"
    BY <1>1, <1>5, <2>1, ItemLine
  <2> HIDE DEF line, stack
  <2>3. IsSequence(Last(stack).path)
    BY <2>2 DEF FrameOK, PathOK
  <2>4. Last(line.path) = Index(Last(stack).count - 1)
    BY <2>2, <2>3, LastOfAppend DEF CountedPath
  <2>5. IsEntry(line) /\ LineAgrees(line)
    BY <2>2, <2>4, StepKinds DEF IsEntry, LineAgrees
  <2>6. line.indent \in Nat
    BY <1>2, <2>2
  <2>7. QED
    BY <1>1, <1>2, <1>5, <2>1, <2>2, <2>5, <2>6 DEF line, stack
<1>6. QED
  BY <1>1, <1>3, <1>4, <1>5

\* What YAML makes of a line of a plain text.
LEMMA YamlCases ==
  ASSUME YamlOK, NEW raw \in Raw, yaml' = YamlAfter(raw), Usual'
  PROVE  /\ Usual
         /\ \/ /\ raw.shape = "separator"
               /\ yaml'.stack = <<>> /\ yaml'.open = NoKey /\ yaml'.scalar = None /\ ~yaml'.body
            \/ /\ raw.shape \in {"empty", "comment"} /\ ~IsContent(raw)
               /\ yaml'.stack = yaml.stack /\ yaml'.open = yaml.open /\ yaml'.body = yaml.body
               /\ yaml'.scalar = IF raw.shape = "comment" THEN None ELSE yaml.scalar
            \/ /\ raw.shape \notin {"separator", "dashes"} /\ IsContent(raw) /\ raw.column >= yaml.scalar
               /\ yaml'.stack = yaml.stack /\ yaml'.open = yaml.open /\ yaml'.body = yaml.body
               /\ yaml'.scalar = yaml.scalar
            \/ /\ raw.shape \notin {"separator", "dashes", "empty", "comment"} /\ RefOf(raw) # <<>>
               /\ raw.shape # "itemScalar"
               /\ yaml'.stack = StackAfter(raw) /\ yaml'.body
               /\ yaml'.open = (IF raw.shape \in {"key", "item"}
                                THEN [column |-> KeyColumn(raw), path |-> RefOf(raw)] ELSE NoKey)
               /\ yaml'.scalar = IF raw.shape = "scalar" THEN KeyColumn(raw) + 2 ELSE None
<1>1. CASE raw.shape = "dashes"
  <2> DEFINE plain == yaml.plain /\ yaml.body /\ raw.shape = "separator"
  <2>1. yaml' = [Fresh EXCEPT !.objects = yaml.objects, !.valid = yaml.valid, !.plain = plain]
    <3>1. RefOf(raw) = <<>>
      BY <1>1 DEF RefOf, Mapping, Item
    <3>2. QED
      BY <1>1, <3>1 DEF YamlAfter
  <2> HIDE DEF plain
  <2>2. /\ yaml'.stack = <<>> /\ yaml'.open = NoKey /\ yaml'.scalar = None /\ yaml'.body = FALSE
        /\ yaml'.valid = yaml.valid /\ yaml'.plain = plain
    BY <2>1 DEF Fresh
  <2>3. QED
    BY <1>1, <2>2 DEF Usual, plain
<1>2. CASE raw.shape = "separator"
  <2> DEFINE plain == yaml.plain /\ yaml.body /\ raw.shape = "separator"
  <2>1. yaml' = [Fresh EXCEPT !.objects = yaml.objects, !.valid = yaml.valid, !.plain = plain]
    <3>1. RefOf(raw) = <<>>
      BY <1>2 DEF RefOf, Mapping, Item
    <3>2. QED
      BY <1>2, <3>1 DEF YamlAfter
  <2> HIDE DEF plain
  <2>2. /\ yaml'.stack = <<>> /\ yaml'.open = NoKey /\ yaml'.scalar = None /\ yaml'.body = FALSE
        /\ yaml'.valid = yaml.valid /\ yaml'.plain = plain
    BY <2>1 DEF Fresh
  <2>3. QED
    BY <1>2, <2>2 DEF Usual, plain
<1>3. CASE raw.shape \in {"empty", "comment"} /\ ~IsContent(raw)
  <2>1. yaml' = IF raw.shape = "comment" THEN [yaml EXCEPT !.scalar = None] ELSE yaml
    <3>1. raw.shape \notin {"separator", "dashes"}
      BY <1>3
    <3>2. RefOf(raw) = <<>>
      BY <1>3 DEF RefOf, Mapping, Item
    <3>3. QED
      BY <1>3, <3>1, <3>2 DEF YamlAfter
  <2>2. QED
    BY <1>3, <2>1 DEF YamlOK, Usual
<1>4. CASE raw.shape \notin {"separator", "dashes"} /\ IsContent(raw)
  <2>1. yaml' = [yaml EXCEPT !.plain = yaml.plain /\ raw.column >= yaml.scalar]
    <3>1. RefOf(raw) = <<>>
      BY <1>4 DEF RefOf
    <3>2. QED
      BY <1>4, <3>1 DEF YamlAfter
  <2>2. /\ yaml'.plain = (yaml.plain /\ raw.column >= yaml.scalar) /\ yaml'.valid = yaml.valid
        /\ yaml'.stack = yaml.stack /\ yaml'.open = yaml.open /\ yaml'.body = yaml.body
        /\ yaml'.scalar = yaml.scalar
    BY <2>1 DEF YamlOK
  <2>3. QED
    BY <1>4, <2>2 DEF Usual
<1>5. CASE /\ raw.shape \notin {"separator", "dashes", "empty", "comment"} /\ ~IsContent(raw)
           /\ RefOf(raw) # <<>>
  <2>1. yaml' = [stack |-> StackAfter(raw),
                 open |-> IF raw.shape \in {"key", "item"}
                          THEN [column |-> KeyColumn(raw), path |-> RefOf(raw)] ELSE NoKey,
                 scalar |-> IF raw.shape \in {"scalar", "itemScalar"} THEN KeyColumn(raw) + 2 ELSE None,
                 body |-> TRUE,
                 objects |-> IF BeginsObject(raw) THEN Append(yaml.objects, Number) ELSE yaml.objects,
                 valid |-> yaml.valid,
                 plain |-> yaml.plain /\ raw.shape # "itemScalar"]
    BY <1>5 DEF YamlAfter
  <2>2. /\ yaml'.plain = (yaml.plain /\ raw.shape # "itemScalar") /\ yaml'.valid = yaml.valid
        /\ yaml'.stack = StackAfter(raw) /\ yaml'.body = TRUE
        /\ yaml'.open = (IF raw.shape \in {"key", "item"}
                         THEN [column |-> KeyColumn(raw), path |-> RefOf(raw)] ELSE NoKey)
        /\ yaml'.scalar = IF raw.shape \in {"scalar", "itemScalar"} THEN KeyColumn(raw) + 2 ELSE None
    BY <2>1
  <2>3. yaml.plain /\ raw.shape # "itemScalar" /\ yaml.valid
    BY <2>2 DEF Usual
  <2>4. QED
    BY <1>5, <2>2, <2>3 DEF Usual
<1>6. CASE /\ raw.shape \notin {"separator", "dashes", "empty", "comment"} /\ ~IsContent(raw)
           /\ RefOf(raw) = <<>>
  <2>1. yaml' = [yaml EXCEPT !.valid = FALSE]
    BY <1>6 DEF YamlAfter
  <2>2. QED
    BY <2>1 DEF YamlOK, Usual
<1>7. QED
  BY <1>1, <1>2, <1>3, <1>4, <1>5, <1>6

LEMMA AgreeAppend ==
  ASSUME NEW some, IsSequence(some), \A i \in DOMAIN some : LineAgrees(some[i]),
         NEW line, LineAgrees(line), NEW more, Adds(more, some, line)
  PROVE  \A i \in DOMAIN more : LineAgrees(more[i])
<1>1. /\ DOMAIN some = 1..Len(some) /\ Len(some) \in Nat /\ DOMAIN more = 1..(Len(some) + 1)
      /\ \A i \in DOMAIN some : more[i] = some[i]
      /\ more[Len(some) + 1] = line
  BY SequenceFacts, AppendFacts DEF Adds
<1>2. \A i \in DOMAIN more : i \in DOMAIN some \/ i = Len(some) + 1
  BY <1>1
<1>3. QED
  BY <1>1, <1>2

\* A line without a path: everything stays as it is.
LEMMA LineAside ==
  ASSUME Together, ParserOK, NEW line, ~IsEntry(line), Adds(lines', lines, line),
         yaml'.stack = yaml.stack, yaml'.open = yaml.open, yaml'.body = yaml.body
  PROVE  StackShown' /\ OpenOK' /\ BodyOK'
<1>1. IsSequence(lines)
  BY DEF ParserOK
<1>2. \A d : ~Reaches(line, d)
  BY DEF Reaches
<1>3. \A d : Nearest(lines, d) # 0 =>
        Nearest(lines', d) # 0 /\ lines'[Nearest(lines', d)] = lines[Nearest(lines, d)]
  BY <1>1, <1>2, NearestStep
<1>4. StackShown'
  BY <1>3 DEF Together, StackShown
<1>5. OpenOK'
  BY <1>3 DEF Together, OpenOK
<1>6. BodyOK'
  <2> SUFFICES ASSUME ~yaml'.body
               PROVE  /\ yaml'.stack = <<>> /\ yaml'.open.column = None
                      /\ \A i \in DOMAIN lines' : ~IsEntry(lines'[i])
    BY DEF BodyOK
  <2>1. /\ yaml.stack = <<>> /\ yaml.open.column = None
        /\ \A i \in DOMAIN lines : ~IsEntry(lines[i])
    BY DEF Together, BodyOK
  <2>2. /\ DOMAIN lines = 1..Len(lines) /\ Len(lines) \in Nat /\ DOMAIN lines' = 1..(Len(lines) + 1)
        /\ \A i \in DOMAIN lines : lines'[i] = lines[i]
        /\ lines'[Len(lines) + 1] = line
    BY <1>1, SequenceFacts, AppendFacts DEF Adds
  <2>3. \A i \in DOMAIN lines' : i \in DOMAIN lines \/ i = Len(lines) + 1
    BY <2>2
  <2>4. QED
    BY <2>1, <2>2, <2>3
<1>7. QED
  BY <1>4, <1>5, <1>6

\* A line with one: the frames it renews show it, and those around it what they did.
LEMMA LineShown ==
  ASSUME Together, ParserOK, NEW line, IsEntry(line), line.indent \in Nat, Adds(lines', lines, line),
         Renewed(yaml'.stack, line)
  PROVE  StackShown'
<1> SUFFICES ASSUME NEW a \in DOMAIN yaml'.stack
             PROVE  LET j == Nearest(lines', Under(yaml'.stack[a]))
                    IN j # 0 /\ Shows(lines'[j], yaml'.stack[a])
  BY DEF StackShown
<1> DEFINE f == yaml'.stack[a]
<1>1. IsSequence(lines) /\ FrameOK(f)
  BY DEF ParserOK, Renewed, StackOK
<1>2. Under(f) \in Nat
  BY <1>1 DEF FrameOK, Under
<1>3. CASE Shows(line, f)
  <2>1. Reaches(line, Under(f))
    BY <1>2, <1>3 DEF Shows, Reaches
  <2>2. QED
    BY <1>1, <1>3, <2>1, NearestStep
<1>4. CASE Under(f) < line.indent /\ a \in DOMAIN yaml.stack /\ f = yaml.stack[a]
  <2>1. ~Reaches(line, Under(f))
    BY <1>2, <1>4 DEF Reaches
  <2>2. Nearest(lines, Under(f)) # 0 /\ Shows(lines[Nearest(lines, Under(f))], f)
    BY <1>4 DEF Together, StackShown
  <2>3. QED
    BY <1>1, <2>1, <2>2, NearestStep
<1>5. QED
  BY <1>3, <1>4 DEF Renewed

\* The key that is left open is that of the line.
LEMMA KeyOpened ==
  ASSUME ParserOK, NEW line, IsEntry(line), line.indent \in Nat, Adds(lines', lines, line),
         Renewed(yaml'.stack, line), yaml'.open.column = line.indent, yaml'.open.path = line.path,
         PathOK(line.path), IsKey(Last(line.path)),
         Last(yaml'.stack).kind = "map", Last(yaml'.stack).column = line.indent
  PROVE  OpenOK'
<1>1. ~IsIndex(Last(line.path))
  BY DEF IsKey, IsIndex
<1>2. yaml'.stack # <<>>
  BY DEF Renewed
<1>3. ASSUME NEW d \in Nat, d >= line.indent
      PROVE  /\ Nearest(lines', d) # 0 /\ lines'[Nearest(lines', d)] = line
  <2>1. Reaches(line, d)
    BY <1>3 DEF Reaches
  <2>2. QED
    BY <2>1, NearestStep DEF ParserOK
<1>4. QED
  BY <1>1, <1>2, <1>3 DEF OpenOK

LEMMA TogetherStep ==
  ASSUME ParserOK, YamlOK, Usual => Together, [Next]_vars
  PROVE  (Usual => Together)'
<1>1. CASE UNCHANGED vars
  BY <1>1 DEF vars, Usual, Together, StackShown, OpenOK, BodyOK
<1>2. ASSUME NEW raw \in Raw, ReadLine(raw), Usual'
      PROVE  Together'
  <2>1. yaml' = YamlAfter(raw) /\ scalar' = ScalarAfter(raw)
    BY <1>2 DEF ReadLine
  <2>2. Together /\ Usual
    BY <1>2, <2>1, YamlCases
  <2>3. raw.column \in Nat /\ scalar = yaml.scalar
    BY <2>2, RawColumn DEF Together
  <2>4. CASE /\ raw.shape = "separator"
             /\ yaml'.stack = <<>> /\ yaml'.open = NoKey /\ yaml'.scalar = None /\ ~yaml'.body
    <3> DEFINE line == Parsed(raw, <<>>)
               more == Append(lines, line)
               doc == [offset |-> Offset, lines |-> more]
    <3>1. docs' = Append(docs, doc) /\ lines' = <<>>
      BY <1>2, <2>4 DEF ReadLine, ReadSeparator, ReadOther
    <3>2. LineAgrees(line)
      <4>1. TypeOf(raw) = {"separator"}
        BY <2>4 DEF TypeOf, Mapping, Item
      <4>2. QED
        BY <4>1 DEF Parsed, LineAgrees, IsEntry
    <3> HIDE DEF line
    <3>3. \A i \in DOMAIN doc.lines : LineAgrees(doc.lines[i])
      <4>1. Adds(more, lines, line)
        BY DEF Adds
      <4> HIDE DEF more
      <4>2. \A i \in DOMAIN more : LineAgrees(more[i])
        BY <2>2, <3>2, <4>1, AgreeAppend DEF Together, ParserOK
      <4>3. QED
        BY <4>2
    <3> HIDE DEF doc
    <3>4. \A n \in DOMAIN docs' : \A i \in DOMAIN docs'[n].lines : LineAgrees(docs'[n].lines[i])
      <4>1. /\ DOMAIN docs = 1..Len(docs) /\ Len(docs) \in Nat /\ DOMAIN docs' = 1..(Len(docs) + 1)
            /\ \A n \in DOMAIN docs : docs'[n] = docs[n]
            /\ docs'[Len(docs) + 1] = doc
        BY <3>1, SequenceFacts, AppendFacts DEF ParserOK, Consecutive
      <4>2. \A n \in DOMAIN docs' : n \in DOMAIN docs \/ n = Len(docs) + 1
        BY <4>1
      <4>3. QED
        BY <2>2, <3>3, <4>1, <4>2 DEF Together
    <3>5. DOMAIN lines' = {} /\ yaml'.open.column = None /\ IsSequence(<<>>) /\ DOMAIN <<>> = {}
      BY <2>4, <3>1, NoElement DEF NoKey
    <3>6. scalar' = None
      BY <2>1, <2>4 DEF ScalarAfter
    <3>7. StackOK(yaml'.stack) /\ StackShown' /\ OpenOK' /\ BodyOK'
      BY <2>4, <3>5 DEF StackOK, StackShown, OpenOK, BodyOK
    <3>8. QED
      BY <2>4, <3>4, <3>5, <3>6, <3>7 DEF Together
  <2>5. CASE raw.shape # "separator"
    <3> DEFINE line == Parsed(raw, RefOf(raw))
    <3>1. docs' = docs /\ Adds(lines', lines, line)
      BY <1>2, <2>5 DEF ReadLine, ReadSeparator, ReadOther, Adds
    <3>2. InScalar(raw) => IsContent(raw)
      BY <2>3 DEF InScalar, IsContent
    <3>3. CASE /\ raw.shape \in {"empty", "comment"} /\ ~IsContent(raw)
               /\ yaml'.stack = yaml.stack /\ yaml'.open = yaml.open /\ yaml'.body = yaml.body
               /\ yaml'.scalar = IF raw.shape = "comment" THEN None ELSE yaml.scalar
      <4>1. ~InScalar(raw)
        BY <3>2, <3>3
      <4>2. TypeOf(raw) = {raw.shape} /\ RefOf(raw) = <<>>
        BY <3>3, <4>1 DEF TypeOf, RefOf, Mapping, Item
      <4>3. ~IsEntry(line) /\ LineAgrees(line)
        BY <3>3, <4>2 DEF Parsed, IsEntry, LineAgrees
      <4>4. scalar' = yaml'.scalar
        <5>1. raw.shape = "empty" => yaml.scalar = None
          BY <3>3 DEF IsContent
        <5>2. scalar' = None
          BY <2>1, <3>3, <4>1 DEF ScalarAfter
        <5>3. QED
          BY <3>3, <5>1, <5>2
      <4> HIDE DEF line
      <4>5. StackShown' /\ OpenOK' /\ BodyOK'
        BY <2>2, <3>1, <3>3, <4>3, LineAside
      <4>6. \A i \in DOMAIN lines' : LineAgrees(lines'[i])
        BY <2>2, <3>1, <4>3, AgreeAppend DEF Together, ParserOK
      <4>7. QED
        BY <2>2, <3>1, <3>3, <4>4, <4>5, <4>6 DEF Together
    <3>4. CASE /\ raw.shape \notin {"separator", "dashes"} /\ IsContent(raw) /\ raw.column >= yaml.scalar
               /\ yaml'.stack = yaml.stack /\ yaml'.open = yaml.open /\ yaml'.body = yaml.body
               /\ yaml'.scalar = yaml.scalar
      <4>1. InScalar(raw)
        BY <2>3, <3>4 DEF InScalar, IsContent
      <4>2. TypeOf(raw) = {"blockScalar"} /\ RefOf(raw) = <<>>
        BY <3>4, <4>1 DEF TypeOf, RefOf
      <4>3. ~IsEntry(line) /\ LineAgrees(line)
        BY <4>2 DEF Parsed, IsEntry, LineAgrees
      <4>4. scalar' = yaml'.scalar
        BY <2>1, <2>3, <3>4, <4>1 DEF ScalarAfter
      <4> HIDE DEF line
      <4>5. StackShown' /\ OpenOK' /\ BodyOK'
        BY <2>2, <3>1, <3>4, <4>3, LineAside
      <4>6. \A i \in DOMAIN lines' : LineAgrees(lines'[i])
        BY <2>2, <3>1, <4>3, AgreeAppend DEF Together, ParserOK
      <4>7. QED
        BY <2>2, <3>1, <3>4, <4>4, <4>5, <4>6 DEF Together
    <3>5. CASE /\ RefOf(raw) # <<>> /\ raw.shape # "itemScalar"
               /\ yaml'.stack = StackAfter(raw) /\ yaml'.body
               /\ yaml'.open = (IF raw.shape \in {"key", "item"}
                                THEN [column |-> KeyColumn(raw), path |-> RefOf(raw)] ELSE NoKey)
               /\ yaml'.scalar = IF raw.shape = "scalar" THEN KeyColumn(raw) + 2 ELSE None
      <4>1. /\ raw.shape \in Mapping \union Item \union {"value"} /\ ~IsContent(raw)
            /\ IsEntry(line) /\ line.indent \in Nat /\ LineAgrees(line) /\ line.path = RefOf(raw)
            /\ Renewed(yaml'.stack, line)
            /\ raw.shape \in Mapping \union Item =>
                 /\ line.indent = KeyColumn(raw) /\ IsKey(Last(line.path))
                 /\ Last(yaml'.stack).kind = "map" /\ Last(yaml'.stack).column = KeyColumn(raw)
        BY <2>2, <3>5, EntryLine
      <4>2. ~InScalar(raw)
        BY <3>2, <4>1
      <4>3. scalar' = yaml'.scalar
        <5>1. CASE raw.shape = "scalar"
          <6>1. KeyColumn(raw) = raw.column
            BY <5>1 DEF KeyColumn, Mapping
          <6>2. QED
            BY <2>1, <3>5, <4>2, <5>1, <6>1 DEF ScalarAfter
        <5>2. CASE raw.shape # "scalar"
          BY <2>1, <2>5, <3>5, <4>2, <5>2 DEF ScalarAfter
        <5>3. QED
          BY <5>1, <5>2
      <4> HIDE DEF line
      <4>4. StackShown'
        BY <2>2, <3>1, <4>1, LineShown
      <4>5. StackOK(yaml'.stack)
        BY <4>1 DEF Renewed
      <4>6. OpenOK'
        <5>1. CASE raw.shape \in {"key", "item"}
          <6>1. raw.shape \in Mapping \union Item
            BY <5>1 DEF Mapping, Item
          <6>2. yaml'.open.column = line.indent /\ yaml'.open.path = line.path
            BY <3>5, <4>1, <5>1, <6>1
          <6>3. PathOK(line.path)
            BY <4>1 DEF LineAgrees
          <6>4. QED
            BY <3>1, <4>1, <6>1, <6>2, <6>3, KeyOpened
        <5>2. CASE raw.shape \notin {"key", "item"}
          BY <3>5, <5>2 DEF OpenOK, NoKey
        <5>3. QED
          BY <5>1, <5>2
      <4>7. BodyOK'
        BY <3>5 DEF BodyOK
      <4>8. \A i \in DOMAIN lines' : LineAgrees(lines'[i])
        BY <2>2, <3>1, <4>1, AgreeAppend DEF Together, ParserOK
      <4>9. QED
        BY <2>2, <3>1, <4>3, <4>4, <4>5, <4>6, <4>7, <4>8 DEF Together
    <3>6. QED
      BY <1>2, <2>1, <2>5, <3>3, <3>4, <3>5, YamlCases
  <2>6. QED
    BY <1>2, <2>1, <2>4, <2>5, YamlCases
<1>3. QED
  BY <1>1, <1>2 DEF Next, Usual

LEMMA AgreementInvariant == Spec => [](IInv /\ (Usual => Together))
<1>1. Init => IInv /\ (Usual => Together)
  <2> SUFFICES ASSUME Init PROVE IInv /\ Together
    OBVIOUS
  <2>1. IsSequence(<<>>) /\ DOMAIN <<>> = {}
    BY NoElement
  <2>2. IInv
    BY <2>1 DEF Init, IInv, ParserOK, YamlOK, Consecutive, Numbered, Fresh, None
  <2>3. Together
    BY <2>1 DEF Init, Fresh, NoKey, Together, StackOK, StackShown, OpenOK, BodyOK
  <2>4. QED
    BY <2>2, <2>3
<1>2. IInv /\ (Usual => Together) /\ [Next]_vars => (IInv /\ (Usual => Together))'
  BY ParserStep, YamlStep, TogetherStep DEF IInv
<1>3. QED
  BY <1>1, <1>2, PTL DEF Spec

\* Every line of an object is one of the text.
LEMMA ObjectLinesAgree ==
  ASSUME ParserOK, Together, NEW node \in ToSet(Nodes), NEW i \in DOMAIN node.lines
  PROVE  LineAgrees(node.lines[i])
<1>1. PICK n \in DOMAIN Documents : node \in ToSet(NodesOf(Documents[n]))
  BY NodesAre
<1>2. node.lines[i] \in ToSet(Documents[n].lines)
  <2>1. DocumentOK(Documents[n])
    BY DocumentsConsecutive DEF Consecutive
  <2>2. ToSet(node.lines) \subseteq ToSet(Documents[n].lines)
    BY <1>1, <2>1, ObjectsOfDocument
  <2>3. QED
    BY <2>2 DEF ToSet
<1>3. PICK j \in DOMAIN Documents[n].lines : node.lines[i] = Documents[n].lines[j]
  BY <1>2 DEF ToSet
<1>4. CASE lines = <<>>
  BY <1>3, <1>4 DEF Documents, Together
<1>5. CASE lines # <<>>
  <2> DEFINE doc == [offset |-> Offset, lines |-> lines]
  <2>1. Documents = Append(docs, doc)
    BY <1>5 DEF Documents
  <2>2. doc.lines = lines
    OBVIOUS
  <2> HIDE DEF doc
  <2>3. /\ DOMAIN docs = 1..Len(docs) /\ Len(docs) \in Nat /\ DOMAIN Documents = 1..(Len(docs) + 1)
        /\ \A m \in DOMAIN docs : Documents[m] = docs[m]
        /\ Documents[Len(docs) + 1] = doc
    BY <2>1, SequenceFacts, AppendFacts DEF ParserOK, Consecutive
  <2>4. n \in DOMAIN docs \/ n = Len(docs) + 1
    BY <2>3
  <2>5. QED
    BY <1>3, <2>2, <2>3, <2>4 DEF Together
<1>6. QED
  BY <1>4, <1>5

\* A top-level key has at most the index of its object before it, since no index follows another.
LEMMA RootKeyOf ==
  ASSUME NEW line, LineAgrees(line)
  PROVE  LET path == line.path
             ref == line.ref
         IN /\ Len(path) > 1 /\ IsKey(Last(path))
            /\ \A k \in 2..(Len(path) - 1) : IsIndex(path[k])
            /\ "mapping" \in line.type
            <=> ref # <<>> /\ IsKey(Last(ref)) /\ Len(ref) = IF IsListPath(ref) THEN 3 ELSE 2
<1> DEFINE path == line.path
<1>1. CASE ~IsEntry(line)
  BY <1>1 DEF LineAgrees, IsEntry
<1>2. CASE IsEntry(line)
  <2>1. /\ line.ref = path /\ PathOK(path) /\ ("mapping" \in line.type <=> IsKey(Last(path)))
        /\ Len(path) \in Nat /\ Len(path) >= 1 /\ path # <<>> /\ path[1] = Root[1]
        /\ Last(path) = path[Len(path)]
    BY <1>2, SequenceFacts DEF LineAgrees, PathOK, Last
  <2> HIDE DEF path
  <2>2. \A k \in 2..Len(path) : IsIndex(path[k]) => ~IsIndex(path[k - 1])
    BY <2>1, StepKinds DEF PathOK
  <2>3. \A step : IsKey(step) => ~IsIndex(step)
    BY DEF IsKey, IsIndex
  <2>4. ASSUME Len(path) > 1, IsKey(Last(path)), \A k \in 2..(Len(path) - 1) : IsIndex(path[k])
        PROVE  Len(path) = IF IsListPath(path) THEN 3 ELSE 2
    <3>1. CASE Len(path) = 2
      BY <2>1, <2>3, <2>4, <3>1 DEF IsListPath
    <3>2. CASE Len(path) # 2
      <4>1. 2 \in 2..(Len(path) - 1) /\ 3 \in 2..Len(path)
        <5>1. \A len \in Nat : len > 1 /\ len # 2 => 2 \in 2..(len - 1) /\ 3 \in 2..len
          OBVIOUS
        <5>2. QED
          BY <2>1, <2>4, <3>2, <5>1
      <4>2. IsIndex(path[2]) /\ ~IsIndex(path[3])
        BY <2>2, <2>4, <4>1
      <4>3. Len(path) = 3
        <5>1. 3 \notin 2..(Len(path) - 1)
          BY <2>4, <4>2
        <5>2. \A len \in Nat : 3 \notin 2..(len - 1) /\ 3 \in 2..len => len = 3
          OBVIOUS
        <5>3. QED
          BY <2>1, <4>1, <5>1, <5>2
      <4>4. QED
        BY <2>1, <4>2, <4>3 DEF IsListPath
    <3>3. QED
      BY <3>1, <3>2
  <2>5. ASSUME Len(path) = IF IsListPath(path) THEN 3 ELSE 2
        PROVE  Len(path) > 1 /\ \A k \in 2..(Len(path) - 1) : IsIndex(path[k])
    <3>1. CASE IsListPath(path)
      <4>1. Len(path) = 3 /\ IsIndex(path[2])
        BY <2>5, <3>1 DEF IsListPath
      <4>2. \A k \in 2..(3 - 1) : k = 2
        OBVIOUS
      <4>3. QED
        BY <4>1, <4>2
    <3>2. CASE ~IsListPath(path)
      <4>1. Len(path) = 2 /\ 2..(2 - 1) = {}
        BY <2>5, <3>2
      <4>2. QED
        BY <4>1
    <3>3. QED
      BY <3>1, <3>2
  <2>6. QED
    BY <2>1, <2>4, <2>5 DEF path
<1>3. QED
  BY <1>1, <1>2

\* In a plain YAML text the kind and version of an object are those of its own top-level properties.
THEOREM RootKeysAlwaysOwn == Spec => []RootKeysAreOwn
<1>1. IInv /\ (Usual => Together) => RootKeysAreOwn
  <2> SUFFICES ASSUME ParserOK, Together, NEW n \in DOMAIN Nodes, NEW i \in DOMAIN Nodes[n].lines
               PROVE  LET ref == Nodes[n].lines[i].ref IN
                      i \in RootKeys(Nodes[n]) /\ "mapping" \in Nodes[n].lines[i].type <=>
                        ref # <<>> /\ IsKey(Last(ref)) /\ Len(ref) = IF IsListPath(ref) THEN 3 ELSE 2
    BY DEF IInv, RootKeysAreOwn
  <2>1. Nodes[n] \in ToSet(Nodes)
    BY DEF ToSet
  <2>2. LineAgrees(Nodes[n].lines[i])
    BY <2>1, ObjectLinesAgree
  <2>3. QED
    BY <2>2, RootKeyOf DEF RootKeys
<1>2. QED
  BY <1>1, AgreementInvariant, PTL
=============================================================================
