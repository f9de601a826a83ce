-------------------------- MODULE DiagnoseFileProofs --------------------------
(***************************************************************************)
(* Theorems about DiagnoseFile, for any number of objects, any mix of      *)
(* verdicts and any number of simple documents, panics included.           *)
(***************************************************************************)
EXTENDS DiagnoseFile, FiniteSetTheorems, TLAPS

\* The goroutines that have sent their batch, and those that wg.Done has counted down.
Senders == {i \in Object : worker[i] \in {"sent", "ended"}}
Finished == {i \in Object : worker[i] \in {"panicked", "ended"}}

\* A batch with what goroutine i found.
Answers(i, batch) == batch.object = i /\ (verdict[i] # "valid" => batch.about = verdict[i])

\* How far the caller is: a file with an error is never taken apart, goroutines are started
\* in order and all of them before the wait.
CallerInOrder ==
  /\ fileErr => pc \in {"start", "done"}
  /\ pc = "start" \/ fileErr => spawned = 0
  /\ ~fileErr /\ pc \in {"wait", "collect", "done"} => spawned = N
  /\ ~fileErr /\ pc = "done" => Len(result) = N
  /\ \A i \in Object : worker[i] = "none" <=> i > spawned

\* The WaitGroup counts the goroutines that have not ended, and the caller passes it when
\* there are none.
CountsDown ==
  /\ pc # "start" /\ ~fileErr => wg = N - Cardinality(Finished)
  /\ pc = "start" \/ fileErr => wg = 0
  /\ ~fileErr /\ pc \in {"collect", "done"} => wg = 0

\* Every batch sent is in the channel or was received: none is lost and none is sent twice.
BatchesKept ==
  /\ Len(ch) + Len(result) = Cardinality(Senders)
  /\ \A i \in Senders :
       \/ \E k \in 1..Len(ch) : Answers(i, ch[k])
       \/ \E k \in 1..Len(result) : Answers(i, result[k])

IInv == TypeOK /\ CallerInOrder /\ CountsDown /\ BatchesKept

-----------------------------------------------------------------------------

\* The goroutines are finitely many, and all of them if there are N.
LEMMA ObjectsCounted ==
  /\ IsFiniteSet(Object) /\ Cardinality(Object) = N
  /\ \A S \in SUBSET Object :
       /\ IsFiniteSet(S) /\ Cardinality(S) \in 0..N
       /\ Cardinality(S) = N => S = Object
<1>1. IsFiniteSet(Object) /\ Cardinality(Object) = N
  BY FS_Interval, NAssumption DEF Object
<1>2. ASSUME NEW S \in SUBSET Object
      PROVE  IsFiniteSet(S) /\ Cardinality(S) <= N /\ (Cardinality(S) = N => S = Object)
  BY <1>1, FS_Subset
<1>3. ASSUME NEW S \in SUBSET Object
      PROVE  Cardinality(S) \in Nat
  BY <1>2, FS_CardinalityType
<1> QED
  BY <1>1, <1>2, <1>3, NAssumption

\* One goroutine more in a set of them is one more counted.
LEMMA OneMore ==
  ASSUME NEW S \in SUBSET Object, NEW T, NEW i \in Object, i \notin S, T = S \union {i}
  PROVE  /\ Cardinality(T) = Cardinality(S) + 1
         /\ Cardinality(S) \in 0..(N - 1)
<1>1. IsFiniteSet(S) /\ T \in SUBSET Object
  BY ObjectsCounted
<1>2. Cardinality(T) = Cardinality(S) + 1
  BY <1>1, FS_AddElement
<1> QED
  BY <1>1, <1>2, ObjectsCounted, NAssumption

LEMMA InitIInv == Init => IInv
<1> SUFFICES ASSUME Init PROVE IInv
  OBVIOUS
<1>1. TypeOK
  BY NAssumption DEF Init, TypeOK
<1>2. Senders = {} /\ Finished = {}
  BY DEF Init, Senders, Finished
<1>3. Cardinality(Senders) = 0
  BY <1>2, FS_EmptySet
<1>4. CallerInOrder
  BY NAssumption DEF Init, CallerInOrder, Object
<1>5. CountsDown
  BY DEF Init, CountsDown
<1>6. BatchesKept
  BY <1>2, <1>3 DEF Init, BatchesKept
<1> QED
  BY <1>1, <1>4, <1>5, <1>6 DEF IInv

-----------------------------------------------------------------------------
(* The steps of the caller.                                                 *)

\* A step of the caller that receives nothing.
LEMMA CallerSteps ==
  ASSUME IInv, ReturnFileError \/ AddAll \/ AllSpawned \/ Wait \/ Return
  PROVE  IInv'
<1> USE DEF IInv
<1>1. UNCHANGED <<input, spawned, ch, worker, result>>
  BY DEF ReturnFileError, AddAll, AllSpawned, Wait, Return
<1>2. Senders' = Senders /\ Finished' = Finished
  BY <1>1 DEF Senders, Finished
<1>3. BatchesKept'
  BY <1>1, <1>2 DEF BatchesKept, Answers, input
<1>4. CASE ReturnFileError
  BY <1>1, <1>2, <1>3, <1>4 DEF ReturnFileError, TypeOK, CallerInOrder, CountsDown, input
<1>5. CASE AddAll
  <2>1. Finished = {}
    BY <1>5 DEF AddAll, CallerInOrder, Finished, Object
  <2>2. Cardinality(Finished) = 0
    BY <2>1, FS_EmptySet
  <2> QED
    BY <1>1, <1>2, <1>3, <1>5, <2>2, NAssumption DEF AddAll, TypeOK, CallerInOrder, CountsDown, input
<1>6. CASE AllSpawned
  BY <1>1, <1>2, <1>3, <1>6 DEF AllSpawned, TypeOK, CallerInOrder, CountsDown, input
<1>7. CASE Wait
  BY <1>1, <1>2, <1>3, <1>7 DEF Wait, TypeOK, CallerInOrder, CountsDown, input
<1>8. CASE Return
  BY <1>1, <1>2, <1>3, <1>8 DEF Return, TypeOK, CallerInOrder, CountsDown, input
<1> QED
  BY <1>4, <1>5, <1>6, <1>7, <1>8

LEMMA SpawnStep ==
  ASSUME IInv, Spawn
  PROVE  IInv'
<1> USE DEF IInv
<1>1. spawned + 1 \in Object /\ worker[spawned + 1] = "none"
  BY NAssumption DEF Spawn, TypeOK, CallerInOrder, Object
<1>2. Senders' = Senders /\ Finished' = Finished
  BY <1>1 DEF Spawn, TypeOK, Senders, Finished
<1>3. TypeOK'
  <2>1. spawned' \in 0..N
    BY NAssumption DEF Spawn, TypeOK
  <2>2. worker' \in [Object -> {"none", "run", "sent", "panicked", "ended"}]
    BY DEF Spawn, TypeOK
  <2> QED
    BY <2>1, <2>2 DEF Spawn, TypeOK, input
<1>4. BatchesKept'
  BY <1>2 DEF Spawn, BatchesKept, Answers, input
<1>5. CallerInOrder'
  BY <1>1 DEF Spawn, TypeOK, CallerInOrder, Object, input
<1>6. CountsDown'
  BY <1>2 DEF Spawn, CountsDown, input
<1> QED
  BY <1>3, <1>4, <1>5, <1>6

LEMMA CollectStep ==
  ASSUME IInv, Collect
  PROVE  IInv'
<1> USE DEF IInv
<1>1. /\ ch \in Seq(Batch) /\ ch # <<>> /\ result \in Seq(Batch)
      /\ ch' = Tail(ch) /\ result' = Append(result, Head(ch))
      /\ UNCHANGED <<fileErr, verdict, docs, pc, spawned, wg, worker>>
  BY DEF Collect, TypeOK, input
<1>2. Senders' = Senders /\ Finished' = Finished
  BY <1>1 DEF Senders, Finished
<1>3. TypeOK'
  BY <1>1 DEF TypeOK
<1>4. Len(ch') + Len(result') = Len(ch) + Len(result)
  BY <1>1
<1>5. ASSUME NEW i \in Senders
      PROVE  \/ \E k \in 1..Len(ch') : Answers(i, ch'[k])
             \/ \E k \in 1..Len(result') : Answers(i, result'[k])
  <2>1. CASE \E k \in 1..Len(result) : Answers(i, result[k])
    <3>1. PICK k \in 1..Len(result) : Answers(i, result[k])
      BY <2>1
    <3>2. k \in 1..Len(result') /\ result'[k] = result[k]
      BY <1>1
    <3> QED
      BY <3>1, <3>2
  <2>2. CASE \E k \in 1..Len(ch) : Answers(i, ch[k])
    <3>1. PICK k \in 1..Len(ch) : Answers(i, ch[k])
      BY <2>2
    <3>2. CASE k = 1
      <4>1. Len(result') = Len(result) + 1 /\ result'[Len(result) + 1] = ch[1]
        BY <1>1
      <4>2. Len(result) + 1 \in 1..Len(result')
        BY <1>1, <4>1
      <4> QED
        BY <3>1, <3>2, <4>1, <4>2
    <3>3. CASE k # 1
      <4>1. k - 1 \in 1..Len(ch') /\ ch'[k - 1] = ch[k]
        BY <1>1, <3>3
      <4> QED
        BY <3>1, <4>1
    <3> QED
      BY <3>2, <3>3
  <2> QED
    BY <2>1, <2>2 DEF BatchesKept
<1>6. BatchesKept'
  BY <1>1, <1>2, <1>4, <1>5 DEF BatchesKept, Answers
<1>7. CallerInOrder'
  BY <1>1 DEF Collect, CallerInOrder
<1>8. CountsDown'
  BY <1>1, <1>2 DEF CountsDown
<1> QED
  BY <1>3, <1>6, <1>7, <1>8

-----------------------------------------------------------------------------
(* The steps of a goroutine.                                                *)

LEMMA SendStep ==
  ASSUME IInv, NEW i \in Object, NEW about \in Finding, Send(i, about),
         verdict[i] # "valid" => about = verdict[i]
  PROVE  IInv'
<1> USE DEF IInv
<1> DEFINE batch == [object |-> i, about |-> about]
<1>1. /\ ch \in Seq(Batch) /\ result \in Seq(Batch) /\ batch \in Batch
      /\ ch' = Append(ch, batch)
      /\ UNCHANGED <<fileErr, verdict, docs, pc, spawned, wg, result>>
  BY DEF Send, TypeOK, Batch, input
<1>2. /\ worker[i] = "run" /\ worker' = [worker EXCEPT ![i] = "sent"]
      /\ worker \in [Object -> {"none", "run", "sent", "panicked", "ended"}]
  BY DEF Send, TypeOK
<1>3. i \notin Senders /\ Senders' = Senders \union {i} /\ Finished' = Finished
  BY <1>2 DEF Senders, Finished
<1>4. TypeOK'
  BY <1>1, <1>2 DEF TypeOK
<1>5. Cardinality(Senders') = Cardinality(Senders) + 1
  <2>1. Senders \in SUBSET Object
    BY DEF Senders
  <2> QED
    BY <1>3, <2>1, OneMore
<1>6. Len(ch') + Len(result') = Cardinality(Senders')
  BY <1>1, <1>5 DEF BatchesKept
<1>7. ASSUME NEW j \in Senders'
      PROVE  \/ \E k \in 1..Len(ch') : Answers(j, ch'[k])
             \/ \E k \in 1..Len(result') : Answers(j, result'[k])
  <2>1. CASE j = i
    <3>1. Len(ch) + 1 \in 1..Len(ch') /\ ch'[Len(ch) + 1] = batch
      BY <1>1
    <3>2. Answers(i, batch)
      BY DEF Answers
    <3> QED
      BY <2>1, <3>1, <3>2
  <2>2. CASE j \in Senders
    <3>1. \A k \in 1..Len(ch) : k \in 1..Len(ch') /\ ch'[k] = ch[k]
      BY <1>1
    <3> QED
      BY <1>1, <2>2, <3>1 DEF BatchesKept
  <2> QED
    BY <1>3, <2>1, <2>2
<1>8. BatchesKept'
  BY <1>1, <1>6, <1>7 DEF BatchesKept, Answers
<1>9. CallerInOrder'
  BY <1>1, <1>2 DEF CallerInOrder
<1>10. CountsDown'
  BY <1>1, <1>3 DEF CountsDown
<1> QED
  BY <1>4, <1>8, <1>9, <1>10

\* Panic and Done: the deferred wg.Done.
LEMMA EndStep ==
  ASSUME IInv, NEW i \in Object, Panic(i) \/ Done(i)
  PROVE  IInv'
<1> USE DEF IInv
<1>1. /\ wg' = wg - 1
      /\ UNCHANGED <<fileErr, verdict, docs, pc, spawned, ch, result>>
  BY DEF Panic, Done, input
<1>2. /\ worker[i] \in {"run", "sent"}
      /\ worker' = [worker EXCEPT ![i] = IF worker[i] = "run" THEN "panicked" ELSE "ended"]
      /\ worker \in [Object -> {"none", "run", "sent", "panicked", "ended"}]
  BY DEF Panic, Done, TypeOK
<1>3. i \notin Finished /\ Finished' = Finished \union {i} /\ Senders' = Senders
  BY <1>2 DEF Senders, Finished
<1>4. Finished \in SUBSET Object
  BY DEF Finished
<1>5. Cardinality(Finished') = Cardinality(Finished) + 1 /\ Cardinality(Finished) \in 0..(N - 1)
  BY <1>3, <1>4, OneMore
<1>6. ~fileErr /\ pc # "start"
  <2>1. i <= spawned /\ spawned # 0
    BY <1>2 DEF TypeOK, CallerInOrder, Object
  <2> QED
    BY <2>1 DEF CallerInOrder
<1>7. wg = N - Cardinality(Finished) /\ wg # 0
  BY <1>5, <1>6, NAssumption DEF CountsDown
<1>8. TypeOK'
  BY <1>1, <1>2, <1>7, NAssumption DEF TypeOK
<1>9. BatchesKept'
  BY <1>1, <1>3 DEF BatchesKept, Answers
<1>10. CallerInOrder'
  BY <1>1, <1>2 DEF CallerInOrder
<1>11. CountsDown'
  BY <1>1, <1>3, <1>5, <1>6, <1>7, NAssumption DEF CountsDown
<1> QED
  BY <1>8, <1>9, <1>10, <1>11

LEMMA NextIInv == IInv /\ [Next]_vars => IInv'
<1> SUFFICES ASSUME IInv, [Next]_vars PROVE IInv'
  OBVIOUS
<1>1. CASE Caller
  BY <1>1, CallerSteps, SpawnStep, CollectStep DEF Caller
<1>2. ASSUME NEW i \in Object, Worker(i) PROVE IInv'
  <2>1. CASE DecodeError(i)
    BY <2>1, SendStep DEF DecodeError, Finding
  <2>2. CASE Diagnose(i)
    BY <2>2, SendStep DEF Diagnose, Finding
  <2>3. CASE Panic(i) \/ Done(i)
    BY <2>3, EndStep
  <2> QED
    BY <1>2, <2>1, <2>2, <2>3 DEF Worker
<1>3. CASE UNCHANGED vars
  BY <1>3 DEF vars, IInv, TypeOK, CallerInOrder, CountsDown, BatchesKept, Answers, Senders, Finished
<1> QED
  BY <1>1, <1>2, <1>3 DEF Next

LEMMA AlwaysIInv == Spec => []IInv
BY InitIInv, NextIInv, PTL DEF Spec

-----------------------------------------------------------------------------

\* The types of the variables: above all, the WaitGroup's counter never gets negative, which
\* would be a panic of its own, however many goroutines panic.
THEOREM TypeCorrect == Spec => []TypeOK
<1>1. IInv => TypeOK
  BY DEF IInv
<1> QED
  BY <1>1, AlwaysIInv, PTL

\* A goroutine that has not sent yet has room to: the channel of one place per object is
\* enough whatever order goroutines run in, with nobody receiving before all have ended.
THEOREM SendsNeverBlock == Spec => []NoSendBlocks
<1>1. IInv => NoSendBlocks
  <2> SUFFICES ASSUME IInv, NEW i \in Object, worker[i] = "run"
               PROVE  Len(ch) < ChanSize
    BY DEF NoSendBlocks
  <2>1. Senders \in SUBSET Object /\ i \notin Senders
    BY DEF Senders
  <2>2. Cardinality(Senders) \in 0..(N - 1)
    BY <2>1, OneMore
  <2>3. Len(ch) \in Nat /\ Len(result) \in Nat
    BY DEF IInv, TypeOK
  <2> QED
    BY <2>2, <2>3, NAssumption DEF IInv, BatchesKept, ChanSize
<1> QED
  BY <1>1, AlwaysIInv, PTL

\* When the call returns, all goroutines have sent and every batch was received.
LEMMA AllSent ==
  ASSUME IInv, pc = "done", ~fileErr
  PROVE  Senders = Object /\ Len(ch) = 0 /\ Len(result) = N
<1>1. Len(result) = N
  BY DEF IInv, CallerInOrder
<1>2. Len(ch) \in Nat /\ Senders \in SUBSET Object
  BY DEF IInv, TypeOK, Senders
<1>3. Cardinality(Senders) \in 0..N /\ (Cardinality(Senders) = N => Senders = Object)
  BY <1>2, ObjectsCounted
<1>4. Len(ch) + Len(result) = Cardinality(Senders)
  BY DEF IInv, BatchesKept
<1> QED
  BY <1>1, <1>2, <1>3, <1>4, NAssumption

\* DiagnoseFile returns exactly one batch of every object, and it is what the object's own
\* goroutine found.
THEOREM AlwaysOneBatchPerObject == Spec => []OneBatchPerObject
<1>1. IInv => OneBatchPerObject
  <2> SUFFICES ASSUME IInv, pc = "done", ~fileErr
               PROVE  Len(result) = N /\ \A i \in Object : \E k \in 1..N : Answers(i, result[k])
    BY DEF OneBatchPerObject, Answers
  <2>1. Senders = Object /\ Len(ch) = 0 /\ Len(result) = N
    BY AllSent
  <2> QED
    BY <2>1 DEF IInv, BatchesKept
<1> QED
  BY <1>1, AlwaysIInv, PTL

\* When the call returns every goroutine it started has ended.
THEOREM NeverAGoroutineLeft == Spec => []NoGoroutineLeft
<1>1. IInv => NoGoroutineLeft
  <2> SUFFICES ASSUME IInv, pc = "done", NEW i \in Object
               PROVE  worker[i] \in {"none", "ended"}
    BY DEF NoGoroutineLeft
  <2>1. CASE fileErr
    BY <2>1 DEF IInv, CallerInOrder, Object
  <2>2. CASE ~fileErr
    <3>1. i \in Senders
      BY <2>2, AllSent
    <3>2. Finished \in SUBSET Object /\ wg = 0 /\ wg = N - Cardinality(Finished)
      BY <2>2 DEF IInv, CountsDown, Finished
    <3>3. Cardinality(Finished) = N
      BY <3>2, ObjectsCounted, NAssumption
    <3>4. i \in Finished
      BY <3>2, <3>3, ObjectsCounted
    <3> QED
      BY <3>1, <3>4 DEF Senders, Finished
  <2> QED
    BY <2>1, <2>2
<1> QED
  BY <1>1, AlwaysIInv, PTL
=============================================================================
