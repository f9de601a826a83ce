---------------------------- MODULE SequenceLemmas ----------------------------
(***************************************************************************)
(* What the sequence operators of the models give: the elements of a       *)
(* concatenation and of a flattened sequence, and that the least element   *)
(* of a set of numbers exists, which stands in for induction.              *)
(***************************************************************************)
EXTENDS SequencesExt, SequenceTheorems, WellFoundedInduction, TLAPS

LEMMA LeastNumber ==
  ASSUME NEW T \in SUBSET Nat, T # {}
  PROVE  \E n \in T : \A m \in T : n <= m
<1> DEFINE R == OpToRel(<, Nat)
<1>1. IsWellFoundedOn(R, Nat)
  BY NatLessThanWellFounded
<1> HIDE DEF R
<1>2. PICK n \in T : \A m \in T : <<m, n>> \notin R
  BY <1>1, WFMin
<1>3. \A m, k \in Nat : m < k => <<m, k>> \in R
  BY DEF R, OpToRel
<1>4. ASSUME NEW m \in T
      PROVE  n <= m
  <2>1. ~(m < n)
    BY <1>2, <1>3
  <2>2. m \in Nat /\ n \in Nat
    OBVIOUS
  <2>3. QED
    BY <2>1, <2>2
<1>5. QED
  BY <1>4

\* The function that FlattenSeq chooses, up to n.
Flattened(seqs, f, n) ==
  f = [i \in 1..n |-> IF i = 1 THEN seqs[i] ELSE f[i - 1] \o seqs[i]]

LEMMA FlattenedExists ==
  ASSUME NEW S, NEW seqs \in Seq(S)
  PROVE  \E f : Flattened(seqs, f, Len(seqs))
<1> DEFINE Bad == {n \in 0..Len(seqs) : ~ \E f : Flattened(seqs, f, n)}
<1>1. Len(seqs) \in Nat
  BY LenProperties
<1>2. SUFFICES ASSUME Bad # {} PROVE FALSE
  BY <1>1
<1>3. PICK n \in Bad : \A m \in Bad : n <= m
  <2>1. Bad \in SUBSET Nat
    BY <1>1
  <2> HIDE DEF Bad
  <2>2. QED
    BY <2>1, <1>2, LeastNumber
<1>4. n \in Nat /\ n <= Len(seqs)
  BY <1>1, <1>3
<1>5. n # 0
  <2>1. Flattened(seqs, <<>>, 0)
    BY DEF Flattened
  <2>2. QED
    BY <1>3, <2>1
<1>6. PICK f : Flattened(seqs, f, n - 1)
  <2>1. n - 1 \in 0..Len(seqs)
    BY <1>1, <1>4, <1>5
  <2>2. n - 1 \notin Bad
    BY <1>3, <1>4
  <2>3. QED
    BY <2>1, <2>2
<1> DEFINE g == [i \in 1..n |-> IF i = 1 THEN seqs[i] ELSE f[i - 1] \o seqs[i]]
<1>7. ASSUME NEW i \in 1..n, i # 1
      PROVE  g[i - 1] = f[i - 1]
  <2>1. i - 1 \in 1..n /\ i - 1 \in 1..(n - 1)
    BY <1>4, <1>7
  <2>2. QED
    BY <1>6, <2>1 DEF Flattened
<1>8. Flattened(seqs, g, n)
  BY <1>7 DEF Flattened
<1>9. QED
  BY <1>3, <1>8

\* FlattenSeq concatenates from the left.
LEMMA FlattenSteps ==
  ASSUME NEW S, NEW seqs \in Seq(S), Len(seqs) # 0
  PROVE  \E f : Flattened(seqs, f, Len(seqs)) /\ FlattenSeq(seqs) = f[Len(seqs)]
<1> DEFINE F == CHOOSE f : Flattened(seqs, f, Len(seqs))
<1>1. Flattened(seqs, F, Len(seqs))
  BY FlattenedExists, Zenon
<1>2. FlattenSeq(seqs) = F[Len(seqs)]
  BY Zenon DEF FlattenSeq, Flattened
<1>3. QED
  BY <1>1, <1>2, Zenon

-----------------------------------------------------------------------------
(* A sequence is one of its own elements: no set has to be found for them.  *)

IsSequence(s) == s \in Seq(ToSet(s))

LEMMA SequenceOfAny ==
  ASSUME NEW S, NEW s \in Seq(S)
  PROVE  IsSequence(s) /\ ToSet(s) \subseteq S
<1>1. Len(s) \in Nat /\ s \in [1..Len(s) -> S] /\ DOMAIN s = 1..Len(s)
  BY LenProperties
<1>2. s \in [1..Len(s) -> ToSet(s)] /\ ToSet(s) \subseteq S
  BY <1>1 DEF ToSet
<1>3. QED
  BY <1>1, <1>2, SeqDef DEF IsSequence

LEMMA SequenceOfMore ==
  ASSUME NEW S, NEW s, IsSequence(s), ToSet(s) \subseteq S
  PROVE  s \in Seq(S)
<1>1. Len(s) \in Nat /\ s \in [1..Len(s) -> ToSet(s)]
  BY LenProperties DEF IsSequence
<1>2. s \in [1..Len(s) -> S]
  BY <1>1
<1>3. QED
  BY <1>1, <1>2, SeqDef

LEMMA SequenceByIndex ==
  ASSUME NEW n \in Nat, NEW f, f = [i \in 1..n |-> f[i]]
  PROVE  IsSequence(f) /\ DOMAIN f = 1..n /\ Len(f) = n
<1>1. f \in [1..n -> ToSet(f)] /\ DOMAIN f = 1..n
  BY DEF ToSet
<1>2. f \in Seq(ToSet(f))
  BY <1>1, SeqDef
<1>3. QED
  BY <1>1, <1>2, LenProperties DEF IsSequence

LEMMA OneElement ==
  ASSUME NEW x
  PROVE  IsSequence(<<x>>) /\ ToSet(<<x>>) = {x} /\ Len(<<x>>) = 1
BY DEF IsSequence, ToSet

LEMMA TwoElements ==
  ASSUME NEW x, NEW y
  PROVE  IsSequence(<<x, y>>) /\ ToSet(<<x, y>>) = {x, y} /\ Len(<<x, y>>) = 2
BY DEF IsSequence, ToSet

LEMMA FourElements ==
  ASSUME NEW w, NEW x, NEW y, NEW z
  PROVE  IsSequence(<<w, x, y, z>>) /\ ToSet(<<w, x, y, z>>) = {w, x, y, z}
BY DEF IsSequence, ToSet

LEMMA ThreeElements ==
  ASSUME NEW x, NEW y, NEW z
  PROVE  /\ IsSequence(<<x, y, z>>) /\ ToSet(<<x, y, z>>) = {x, y, z}
         /\ Len(<<x, y, z>>) = 3
BY DEF IsSequence, ToSet

LEMMA NoElement == IsSequence(<<>>) /\ ToSet(<<>>) = {}
BY DEF IsSequence, ToSet

LEMMA AppendTwo ==
  ASSUME NEW x, NEW y
  PROVE  Append(<<x>>, y) = <<x, y>>
<1>1. <<x>> \in Seq({x, y}) /\ Len(<<x>>) = 1 /\ <<x>>[1] = x
  OBVIOUS
<1>2. /\ Append(<<x>>, y) \in Seq({x, y}) /\ Len(Append(<<x>>, y)) = 2
      /\ Append(<<x>>, y)[1] = x /\ Append(<<x>>, y)[2] = y
  BY <1>1, AppendProperties
<1>3. /\ <<x, y>> \in Seq({x, y}) /\ Len(<<x, y>>) = 2
      /\ <<x, y>>[1] = x /\ <<x, y>>[2] = y
  OBVIOUS
<1>4. 1..2 = {1, 2}
  OBVIOUS
<1>5. QED
  BY <1>2, <1>3, <1>4, SeqEqual

LEMMA AppendThree ==
  ASSUME NEW x, NEW y, NEW z
  PROVE  Append(<<x, y>>, z) = <<x, y, z>>
<1>1. <<x, y>> \in Seq({x, y, z}) /\ Len(<<x, y>>) = 2 /\ <<x, y>>[1] = x /\ <<x, y>>[2] = y
  OBVIOUS
<1>2. /\ Append(<<x, y>>, z) \in Seq({x, y, z}) /\ Len(Append(<<x, y>>, z)) = 3
      /\ Append(<<x, y>>, z)[1] = x /\ Append(<<x, y>>, z)[2] = y
      /\ Append(<<x, y>>, z)[3] = z
  BY <1>1, AppendProperties
<1>3. /\ <<x, y, z>> \in Seq({x, y, z}) /\ Len(<<x, y, z>>) = 3
      /\ <<x, y, z>>[1] = x /\ <<x, y, z>>[2] = y /\ <<x, y, z>>[3] = z
  OBVIOUS
<1>4. 1..3 = {1, 2, 3}
  OBVIOUS
<1>5. QED
  BY <1>2, <1>3, <1>4, SeqEqual

LEMMA ConcatTyped ==
  ASSUME NEW S, NEW s \in Seq(S), NEW t \in Seq(S)
  PROVE  /\ s \o t \in Seq(S)
         /\ ToSet(s \o t) = ToSet(s) \union ToSet(t)
<1>1. s \o t \in Seq(S) /\ Len(s \o t) = Len(s) + Len(t) /\ Len(s) \in Nat /\ Len(t) \in Nat
  BY ConcatProperties, LenProperties
<1>2. /\ DOMAIN (s \o t) = 1..(Len(s) + Len(t))
      /\ DOMAIN s = 1..Len(s)
      /\ DOMAIN t = 1..Len(t)
  BY <1>1, LenProperties
<1>3. ASSUME NEW i \in 1..(Len(s) + Len(t))
      PROVE  (s \o t)[i] \in ToSet(s) \union ToSet(t)
  <2>1. CASE i <= Len(s)
    <3>1. i \in 1..Len(s) /\ (s \o t)[i] = s[i]
      BY <1>1, <2>1, ConcatProperties
    <3>2. QED
      BY <3>1, <1>2 DEF ToSet
  <2>2. CASE ~(i <= Len(s))
    <3>1. i - Len(s) \in 1..Len(t)
      BY <1>1, <2>2
    <3>2. (s \o t)[i] = t[i - Len(s)]
      BY <1>1, <2>2, ConcatProperties
    <3>3. QED
      BY <3>1, <3>2, <1>2 DEF ToSet
  <2>3. QED
    BY <2>1, <2>2
<1>4. ASSUME NEW i \in 1..Len(s)
      PROVE  s[i] \in ToSet(s \o t)
  <2>1. i \in 1..(Len(s) + Len(t)) /\ (s \o t)[i] = s[i]
    BY <1>1, ConcatProperties
  <2>2. QED
    BY <2>1, <1>2 DEF ToSet
<1>5. ASSUME NEW i \in 1..Len(t)
      PROVE  t[i] \in ToSet(s \o t)
  <2>1. Len(s) + i \in 1..(Len(s) + Len(t)) /\ (s \o t)[Len(s) + i] = t[i]
    BY <1>1, ConcatProperties
  <2>2. QED
    BY <2>1, <1>2 DEF ToSet
<1>6. QED
  BY <1>1, <1>2, <1>3, <1>4, <1>5 DEF ToSet

LEMMA FlattenTyped ==
  ASSUME NEW S, NEW seqs \in Seq(Seq(S))
  PROVE  /\ FlattenSeq(seqs) \in Seq(S)
         /\ ToSet(FlattenSeq(seqs)) = UNION {ToSet(seqs[i]) : i \in DOMAIN seqs}
<1>1. Len(seqs) \in Nat /\ DOMAIN seqs = 1..Len(seqs)
  BY LenProperties
<1>2. CASE Len(seqs) = 0
  <2>1. seqs = <<>>
    BY <1>2, EmptySeq
  <2>2. FlattenSeq(seqs) = seqs
    BY <1>2, Zenon DEF FlattenSeq
  <2>3. DOMAIN seqs = {} /\ DOMAIN FlattenSeq(seqs) = {}
    BY <2>1, <2>2
  <2>4. seqs \in Seq(S)
    BY <2>1
  <2>5. ToSet(FlattenSeq(seqs)) = {} /\ UNION {ToSet(seqs[i]) : i \in DOMAIN seqs} = {}
    BY <2>3 DEF ToSet
  <2>6. QED
    BY <2>2, <2>4, <2>5
<1>3. CASE Len(seqs) # 0
  <2>1. PICK f : Flattened(seqs, f, Len(seqs)) /\ FlattenSeq(seqs) = f[Len(seqs)]
    BY <1>3, FlattenSteps
  <2> DEFINE Right(n) == f[n] \in Seq(S) /\ ToSet(f[n]) = UNION {ToSet(seqs[i]) : i \in 1..n}
             Bad == {n \in 1..Len(seqs) : ~Right(n)}
  <2> HIDE DEF Right
  <2>2. SUFFICES ASSUME Bad # {} PROVE FALSE
    <3>1. Len(seqs) \in 1..Len(seqs)
      BY <1>1, <1>3
    <3>2. Right(Len(seqs))
      BY <2>2, <3>1
    <3>3. QED
      BY <3>2, <2>1, <1>1 DEF Right
  <2>3. PICK n \in Bad : \A m \in Bad : n <= m
    <3>1. Bad \in SUBSET Nat
      BY <1>1
    <3> HIDE DEF Bad
    <3>2. QED
      BY <3>1, <2>2, LeastNumber
  <2>4. n \in Nat /\ n >= 1 /\ n <= Len(seqs) /\ n \in 1..Len(seqs)
    BY <1>1, <2>3
  <2>5. CASE n = 1
    <3>1. f[1] = seqs[1]
      BY <2>1, <2>4, <2>5 DEF Flattened
    <3>2. seqs[1] \in Seq(S)
      BY <1>1, <2>4, <2>5
    <3>3. 1..1 = {1}
      OBVIOUS
    <3>4. UNION {ToSet(seqs[i]) : i \in 1..1} = ToSet(seqs[1])
      BY <3>3
    <3>5. Right(1)
      BY <3>1, <3>2, <3>4 DEF Right
    <3>6. QED
      BY <3>5, <2>3, <2>5
  <2>6. CASE n # 1
    <3>1. n - 1 \in 1..Len(seqs) /\ ~(n <= n - 1)
      BY <1>1, <2>4, <2>6
    <3>2. Right(n - 1)
      BY <2>3, <3>1
    <3>3. f[n] = f[n - 1] \o seqs[n]
      BY <2>1, <2>4, <2>6 DEF Flattened
    <3>4. seqs[n] \in Seq(S)
      BY <1>1, <2>4
    <3>5. f[n] \in Seq(S) /\ ToSet(f[n]) = ToSet(f[n - 1]) \union ToSet(seqs[n])
      BY <3>2, <3>3, <3>4, ConcatTyped DEF Right
    <3>6. 1..n = 1..(n - 1) \union {n}
      BY <2>4
    <3>7. UNION {ToSet(seqs[i]) : i \in 1..n}
            = (UNION {ToSet(seqs[i]) : i \in 1..(n - 1)}) \union ToSet(seqs[n])
      BY <3>6
    <3>8. Right(n)
      BY <3>2, <3>5, <3>7 DEF Right
    <3>9. QED
      BY <3>8, <2>3
  <2>7. QED
    BY <2>5, <2>6
<1>4. QED
  BY <1>2, <1>3

-----------------------------------------------------------------------------
(* The elements of what is put together and taken apart.                    *)

LEMMA ConcatElements ==
  ASSUME NEW s, NEW t, IsSequence(s), IsSequence(t)
  PROVE  /\ IsSequence(s \o t)
         /\ ToSet(s \o t) = ToSet(s) \union ToSet(t)
<1> DEFINE S == ToSet(s) \union ToSet(t)
<1>1. s \in Seq(S) /\ t \in Seq(S)
  BY SequenceOfMore
<1> HIDE DEF S
<1>2. s \o t \in Seq(S) /\ ToSet(s \o t) = ToSet(s) \union ToSet(t)
  BY <1>1, ConcatTyped
<1>3. QED
  BY <1>2, SequenceOfAny

\* FlattenSeq keeps every element and adds none.
LEMMA FlattenElements ==
  ASSUME NEW seqs, IsSequence(seqs), \A i \in DOMAIN seqs : IsSequence(seqs[i])
  PROVE  /\ IsSequence(FlattenSeq(seqs))
         /\ ToSet(FlattenSeq(seqs)) = UNION {ToSet(seqs[i]) : i \in DOMAIN seqs}
<1> DEFINE S == UNION {ToSet(seqs[i]) : i \in DOMAIN seqs}
<1>1. \A i \in DOMAIN seqs : ToSet(seqs[i]) \subseteq S
  OBVIOUS
<1> HIDE DEF S
<1>2. \A i \in DOMAIN seqs : seqs[i] \in Seq(S)
  BY <1>1, SequenceOfMore
<1>3. seqs \in Seq(Seq(S))
  BY <1>2, SequenceOfMore DEF ToSet
<1>4. /\ FlattenSeq(seqs) \in Seq(S)
      /\ ToSet(FlattenSeq(seqs)) = UNION {ToSet(seqs[i]) : i \in DOMAIN seqs}
  BY <1>3, FlattenTyped
<1>5. QED
  BY <1>4, SequenceOfAny

LEMMA TailElements ==
  ASSUME NEW S, NEW s \in Seq(S), s # <<>>
  PROVE  /\ Tail(s) \in Seq(S) /\ Len(s) >= 1 /\ Len(Tail(s)) = Len(s) - 1
         /\ s[1] \in S
         /\ \A i \in DOMAIN Tail(s) : i + 1 \in DOMAIN s /\ Tail(s)[i] = s[i + 1]
         /\ \A i \in DOMAIN s : i # 1 => i - 1 \in DOMAIN Tail(s)
         /\ ToSet(s) = {s[1]} \union ToSet(Tail(s))
<1>1. Len(s) \in Nat /\ Len(s) # 0 /\ DOMAIN s = 1..Len(s)
  BY LenProperties, EmptySeq
<1>2. /\ Tail(s) \in Seq(S) /\ Len(Tail(s)) = Len(s) - 1
      /\ \A i \in 1..(Len(s) - 1) : Tail(s)[i] = s[i + 1]
  BY HeadTailProperties
<1>3. DOMAIN Tail(s) = 1..(Len(s) - 1)
  BY <1>2, LenProperties
<1>4. \A i \in DOMAIN Tail(s) : i + 1 \in DOMAIN s /\ Tail(s)[i] = s[i + 1]
  BY <1>1, <1>2, <1>3
<1>5. \A i \in DOMAIN s : i # 1 => i - 1 \in DOMAIN Tail(s) /\ s[i] = Tail(s)[i - 1]
  <2>1. ASSUME NEW i \in DOMAIN s, i # 1
        PROVE  i - 1 \in DOMAIN Tail(s) /\ s[i] = Tail(s)[i - 1]
    <3>1. i - 1 \in 1..(Len(s) - 1) /\ (i - 1) + 1 = i
      BY <1>1, <2>1
    <3>2. QED
      BY <3>1, <1>2, <1>3
  <2>2. QED
    BY <2>1
<1>6. 1 \in DOMAIN s
  BY <1>1
<1>7. ToSet(s) \subseteq {s[1]} \union ToSet(Tail(s))
  <2>1. ASSUME NEW i \in DOMAIN s
        PROVE  s[i] \in {s[1]} \union ToSet(Tail(s))
    <3>1. CASE i = 1
      BY <3>1
    <3>2. CASE i # 1
      BY <1>5, <3>2 DEF ToSet
    <3>3. QED
      BY <3>1, <3>2
  <2>2. QED
    BY <2>1 DEF ToSet
<1>8. {s[1]} \union ToSet(Tail(s)) \subseteq ToSet(s)
  BY <1>4, <1>6 DEF ToSet
<1>9. QED
  BY <1>1, <1>2, <1>4, <1>5, <1>6, <1>7, <1>8
=============================================================================
