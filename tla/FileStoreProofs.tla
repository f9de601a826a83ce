--------------------------- MODULE FileStoreProofs ---------------------------
(***************************************************************************)
(* Theorems of FileStore, for any documents, texts, versions, patterns and *)
(* number of readers, with one writer: the message reader, which runs one  *)
(* handler at a time.                                                      *)
(***************************************************************************)
EXTENDS FileStore, TLAPS

OneWriter == \A p, q \in Writers : p = q

StoredFile == {f \in File : f.version \in Version}

WritingOp == {"close", "open", "update"}

WritersWrite == \A p \in Caller : call[p].op \in WritingOp => p \in Writers

\* The one writer is still right, when it takes the write lock, about what it looked up
\* under the read lock: the part that makes the invariant inductive.
LookupStillHolds ==
  \A p \in Writers :
    /\ call[p].op = "open" /\ call[p].at = "write" => ~HasFile(call[p].uri)
    /\ call[p].op = "close" /\ call[p].at = "write" => HasFile(call[p].uri)

IInv == OneWriter /\ TypeOK /\ WritersWrite /\ LookupStillHolds

\* The state of the promise: docs is FileStore's, this is its call.
untracked == [p \in Caller |-> Untracked(call[p])]

DocOf(f) == IF f # None THEN [version |-> f.version, content |-> f.content] ELSE None

-----------------------------------------------------------------------------
(* What an update makes of a file.                                          *)

\* A call that updates has the type of its operation.
LEMMA CallShape ==
  ASSUME TypeOK, NEW p \in Caller
  PROVE  /\ call[p] = NoCall \/ call[p].op \in {"get", "close", "open", "update"}
         /\ call[p].op = "none" => call[p] = NoCall
         /\ call[p].op # "none" => call[p].uri \in URI
         /\ call[p].op = "get" => call[p] = [op |-> "get", uri |-> call[p].uri]
         /\ call[p].op = "close" =>
              /\ call[p].at \in {"look", "write"}
              /\ call[p] = [op |-> "close", uri |-> call[p].uri, at |-> call[p].at]
         /\ call[p].op = "open" =>
              /\ call[p].version \in Version /\ call[p].content \in Content
              /\ call[p].at \in {"look", "write"}
              /\ call[p] = [op |-> "open", uri |-> call[p].uri, version |-> call[p].version,
                            content |-> call[p].content, at |-> call[p].at]
         /\ call[p].op = "update" =>
              /\ call[p].version \in Version /\ call[p].content \in Content
              /\ call[p] = [op |-> "update", uri |-> call[p].uri, version |-> call[p].version,
                            content |-> call[p].content]
<1>1. call[p] \in CallType
  BY DEF TypeOK
<1>2. CASE call[p] = NoCall
  BY <1>2 DEF NoCall
<1>3. CASE call[p] \in [op : {"get"}, uri : URI]
  BY <1>3 DEF NoCall
<1>4. CASE call[p] \in [op : {"close"}, uri : URI, at : {"look", "write"}]
  BY <1>4 DEF NoCall
<1>5. CASE call[p] \in [op : {"open"}, uri : URI, version : Version, content : Content,
                        at : {"look", "write"}]
  BY <1>5 DEF NoCall
<1>6. CASE call[p] \in [op : {"update"}, uri : URI, version : Version, content : Content]
  BY <1>6 DEF NoCall
<1> QED
  BY <1>1, <1>2, <1>3, <1>4, <1>5, <1>6 DEF CallType

\* A file takes a newer text and keeps the rest of the promise's document; whatever it was
\* before, it has a version of the editor's after.
LEMMA UpdateKeepsDoc ==
  ASSUME NEW f \in StoredFile \union {NewFile}, NEW u \in URI, NEW v \in Version, NEW c \in Content
  PROVE  /\ UpdateFile(f, u, v, c) \in StoredFile
         /\ DocOf(UpdateFile(f, u, v, c)) = Promise!Newer([version |-> f.version, content |-> f.content], v, c)
<1>1. f \in File /\ (f.version \in Version \/ v > f.version)
  <2>1. CASE f \in StoredFile
    BY <2>1 DEF StoredFile
  <2>2. CASE f = NewFile
    <3>1. v \in Nat
      BY StoreAssumption
    <3>2. v > f.version
      BY <2>2, <3>1 DEF NewFile
    <3>3. NewFile \in File
      BY DEF NewFile, File, Provenance
    <3> QED
      BY <2>2, <3>2, <3>3
  <2> QED
    BY <2>1, <2>2
<1>2. ParseErr(c) \in {"none", "simple", "ast"} /\ c \in Provenance /\ None \in Provenance
  BY DEF ParseErr, Provenance
<1> DEFINE g == UpdateFile(f, u, v, c)
<1>3. CASE v > f.version
  <2>1. g \in File /\ g.version = v /\ g.content = c
    <3>1. CASE SkipVerdict(u, c) = "skip"
      BY <1>1, <1>2, <1>3, <3>1 DEF UpdateFile, UpdateSkipped, ShouldUpdate, File
    <3>2. CASE SkipVerdict(u, c) # "skip"
      BY <1>1, <1>2, <1>3, <3>2 DEF UpdateFile, Update, ShouldUpdate, File
    <3> QED
      BY <3>1, <3>2
  <2>2. g # None
    BY <2>1, NoneAssumption
  <2> QED
    BY <1>3, <2>1, <2>2 DEF StoredFile, DocOf, Promise!Newer
<1>4. CASE ~(v > f.version)
  <2>1. g = f
    BY <1>4 DEF UpdateFile, UpdateSkipped, Update, ShouldUpdate
  <2>2. f \in StoredFile /\ f # None
    BY <1>1, <1>4, NoneAssumption DEF StoredFile
  <2> QED
    BY <1>4, <2>1, <2>2 DEF DocOf, Promise!Newer
<1> QED
  BY <1>3, <1>4

\* A text is refused for the documents the promise names.
LEMMA RejectedDocs ==
  ASSUME NEW u \in URI, NEW c \in Content
  PROVE  SkipVerdict(u, c) = "error" <=> u \in (IF FilePatterns = {} THEN {} ELSE Unparsable)
BY DEF SkipVerdict

-----------------------------------------------------------------------------
(* The inductive invariant.                                                 *)

Answers == {NoAnswer, Ok, Error} \union
  [is : {"found"}, version : Version \union {-1}, content : Provenance]

LEMMA InitIInv == OneWriter /\ Init => IInv
<1> SUFFICES ASSUME OneWriter, Init PROVE IInv
  OBVIOUS
<1>1. TypeOK
  BY DEF Init, TypeOK, CallType
<1>2. LookupStillHolds
  BY DEF Init, LookupStillHolds, NoCall, Caller
<1>3. WritersWrite
  BY DEF Init, WritersWrite, WritingOp, NoCall
<1> QED
  BY <1>1, <1>2, <1>3 DEF IInv

\* One caller's step that leaves the files alone.
LEMMA FilesKept ==
  ASSUME IInv, NEW p \in Caller, NEW k \in CallType, NEW a \in Answers,
         UNCHANGED files, call' = [call EXCEPT ![p] = k], answer' = [answer EXCEPT ![p] = a],
         k.op \in WritingOp => p \in Writers,
         k.op = "open" /\ k.at = "write" => ~HasFile(k.uri),
         k.op = "close" /\ k.at = "write" => HasFile(k.uri)
  PROVE  IInv'
<1>1. TypeOK'
  BY DEF IInv, TypeOK, Answers
<1>2. LookupStillHolds'
  <2> SUFFICES ASSUME NEW q \in Writers
               PROVE  /\ call'[q].op = "open" /\ call'[q].at = "write" => ~HasFile(call'[q].uri)
                      /\ call'[q].op = "close" /\ call'[q].at = "write" => HasFile(call'[q].uri)
    BY DEF LookupStillHolds, HasFile
  <2>1. CASE q = p
    <3>1. call'[q] = k
      BY <2>1 DEF IInv, TypeOK
    <3> QED
      BY <2>1, <3>1
  <2>2. CASE q # p
    <3>1. call'[q] = call[q]
      BY <2>2 DEF IInv, TypeOK
    <3> QED
      BY <3>1 DEF IInv, LookupStillHolds
  <2> QED
    BY <2>1, <2>2
<1>3. WritersWrite'
  BY DEF IInv, TypeOK, WritersWrite
<1> QED
  BY <1>1, <1>2, <1>3 DEF IInv, OneWriter

\* The writer ends its call: no other call has looked anything up.
LEMMA FilesWritten ==
  ASSUME IInv, NEW p \in Caller, NEW u \in URI, NEW f \in StoredFile \union {None}, NEW a \in Answers,
         call[p].op \in WritingOp,
         files' = [files EXCEPT ![u] = f], Return(p, a)
  PROVE  IInv'
<1>1. call' = [call EXCEPT ![p] = NoCall] /\ answer' = [answer EXCEPT ![p] = a]
  BY DEF Return
<1>2. TypeOK'
  BY <1>1 DEF IInv, TypeOK, Answers, StoredFile, CallType
<1>3. \A q \in Writers : call'[q] = NoCall
  <2>1. p \in Writers
    BY DEF IInv, WritersWrite
  <2> QED
    BY <1>1, <2>1 DEF IInv, OneWriter, TypeOK, Caller
<1>4. LookupStillHolds'
  BY <1>3 DEF LookupStillHolds, NoCall
<1>5. WritersWrite'
  BY <1>1 DEF IInv, TypeOK, WritersWrite, WritingOp, NoCall
<1> QED
  BY <1>2, <1>4, <1>5 DEF IInv, OneWriter

\* LookForClose and LookForOpen find what lets the call go on to the write lock.
LEMMA GoesOn ==
  ASSUME IInv, NEW p \in Caller, call[p].op \in {"close", "open"}, call[p].at = "look",
         call' = [call EXCEPT ![p].at = "write"], UNCHANGED <<files, answer>>,
         call[p].op = "open" => ~HasFile(call[p].uri),
         call[p].op = "close" => HasFile(call[p].uri)
  PROVE  IInv'
<1> DEFINE k == [call[p] EXCEPT !.at = "write"]
<1>1. /\ call' = [call EXCEPT ![p] = k] /\ k \in CallType
      /\ k.op = call[p].op /\ k.uri = call[p].uri
  <2>1. call' = [call EXCEPT ![p] = k]
    OBVIOUS
  <2>2. CASE call[p].op = "close"
    <3>1. PICK u \in URI, a \in {"look", "write"} : call[p] = [op |-> "close", uri |-> u, at |-> a]
      BY <2>2, CallShape DEF IInv
    <3>2. k = [op |-> "close", uri |-> u, at |-> "write"]
      BY <3>1
    <3>3. k.op = call[p].op /\ k.uri = call[p].uri
      BY <3>1, <3>2
    <3> HIDE DEF k
    <3>4. k \in CallType
      BY <3>2 DEF CallType
    <3> QED
      BY <2>1, <3>3, <3>4
  <2>3. CASE call[p].op = "open"
    <3>1. PICK u \in URI, v \in Version, c \in Content, a \in {"look", "write"} :
            call[p] = [op |-> "open", uri |-> u, version |-> v, content |-> c, at |-> a]
      BY <2>3, CallShape DEF IInv
    <3>2. k = [op |-> "open", uri |-> u, version |-> v, content |-> c, at |-> "write"]
      BY <3>1
    <3>3. k.op = call[p].op /\ k.uri = call[p].uri
      BY <3>1, <3>2
    <3> HIDE DEF k
    <3>4. k \in CallType
      BY <3>2 DEF CallType
    <3> QED
      BY <2>1, <3>3, <3>4
  <2> QED
    BY <2>2, <2>3
<1> HIDE DEF k
<1>2. answer' = [answer EXCEPT ![p] = answer[p]] /\ answer[p] \in Answers
  BY DEF IInv, TypeOK, Answers
<1>3. p \in Writers
  BY DEF IInv, WritersWrite, WritingOp
<1> QED
  BY <1>1, <1>2, <1>3, FilesKept

\* The call that begins: it has looked nothing up.
LEMMA BeginShape ==
  ASSUME NEW p \in Caller, Begin(p)
  PROVE  \E k \in CallType :
           /\ call' = [call EXCEPT ![p] = k]
           /\ k.op \in {"open", "close"} => k.at = "look"
           /\ k.op \in WritingOp => p \in Writers
           /\ k.op # "none"
<1>1. CASE \E u \in URI : call' = [call EXCEPT ![p] = [op |-> "get", uri |-> u]]
  <2>1. PICK u \in URI : call' = [call EXCEPT ![p] = [op |-> "get", uri |-> u]]
    BY <1>1
  <2> DEFINE k == [op |-> "get", uri |-> u]
  <2>2. k \in CallType /\ k.op = "get"
    BY DEF CallType
  <2> QED
    BY <2>1, <2>2 DEF WritingOp
<1>2. CASE p \in Writers /\ \E u \in URI :
             call' = [call EXCEPT ![p] = [op |-> "close", uri |-> u, at |-> "look"]]
  <2>1. PICK u \in URI : call' = [call EXCEPT ![p] = [op |-> "close", uri |-> u, at |-> "look"]]
    BY <1>2
  <2> DEFINE k == [op |-> "close", uri |-> u, at |-> "look"]
  <2>2. k \in CallType /\ k.op = "close" /\ k.at = "look"
    BY DEF CallType
  <2> QED
    BY <1>2, <2>1, <2>2 DEF WritingOp
<1>3. CASE p \in Writers /\ \E u \in URI, v \in Version, c \in Content :
             call' = [call EXCEPT ![p] =
                        [op |-> "open", uri |-> u, version |-> v, content |-> c, at |-> "look"]]
  <2>1. PICK u \in URI, v \in Version, c \in Content :
             call' = [call EXCEPT ![p] =
                        [op |-> "open", uri |-> u, version |-> v, content |-> c, at |-> "look"]]
    BY <1>3
  <2> DEFINE k == [op |-> "open", uri |-> u, version |-> v, content |-> c, at |-> "look"]
  <2>2. k \in CallType /\ k.op = "open" /\ k.at = "look"
    BY DEF CallType
  <2> QED
    BY <1>3, <2>1, <2>2 DEF WritingOp
<1>4. CASE p \in Writers /\ \E u \in URI, v \in Version, c \in Content :
             call' = [call EXCEPT ![p] = [op |-> "update", uri |-> u, version |-> v, content |-> c]]
  <2>1. PICK u \in URI, v \in Version, c \in Content :
             call' = [call EXCEPT ![p] = [op |-> "update", uri |-> u, version |-> v, content |-> c]]
    BY <1>4
  <2> DEFINE k == [op |-> "update", uri |-> u, version |-> v, content |-> c]
  <2>2. k \in CallType /\ k.op = "update"
    BY DEF CallType
  <2> QED
    BY <1>4, <2>1, <2>2 DEF WritingOp
<1> QED
  BY <1>1, <1>2, <1>3, <1>4 DEF Begin

LEMMA BeginStep ==
  ASSUME IInv, NEW p \in Caller, Begin(p)
  PROVE  IInv'
<1>1. PICK k \in CallType :
        /\ call' = [call EXCEPT ![p] = k]
        /\ k.op \in {"open", "close"} => k.at = "look"
        /\ k.op \in WritingOp => p \in Writers
  BY BeginShape
<1>2. answer' = [answer EXCEPT ![p] = NoAnswer] /\ NoAnswer \in Answers /\ UNCHANGED files
  BY DEF Begin, Answers
<1> QED
  BY <1>1, <1>2, FilesKept

\* A call that returns without having changed anything.
LEMMA ReturnStep ==
  ASSUME IInv, NEW p \in Caller, NEW a \in Answers, Return(p, a), UNCHANGED files
  PROVE  IInv'
<1>1. NoCall \in CallType /\ NoCall.op = "none"
  BY DEF CallType, NoCall
<1> QED
  BY <1>1, FilesKept DEF Return, WritingOp

LEMMA GetStep ==
  ASSUME IInv, NEW p \in Caller, GetFile(p)
  PROVE  IInv'
<1> DEFINE a == IF HasFile(call[p].uri) THEN Copy(files[call[p].uri]) ELSE Error
<1>1. call[p].uri \in URI
  BY CallShape DEF GetFile, IInv
<1>2. a \in Answers
  BY <1>1 DEF IInv, TypeOK, HasFile, File, Copy, Answers
<1> QED
  BY <1>2, ReturnStep DEF GetFile

LEMMA CloseStep ==
  ASSUME IInv, NEW p \in Caller, LookForClose(p) \/ CloseFile(p)
  PROVE  IInv'
<1>1. CASE LookForClose(p)
  <2>1. CASE HasFile(call[p].uri)
    BY <1>1, <2>1, GoesOn DEF LookForClose
  <2>2. CASE ~HasFile(call[p].uri)
    BY <1>1, <2>2, ReturnStep DEF LookForClose, Answers
  <2> QED
    BY <2>1, <2>2
<1>2. CASE CloseFile(p)
  <2>1. call[p].op \in WritingOp /\ call[p].uri \in URI
    BY <1>2, CallShape DEF CloseFile, IInv, WritingOp
  <2> QED
    BY <1>2, <2>1, FilesWritten DEF CloseFile, Answers
<1> QED
  BY <1>1, <1>2

LEMMA OpenStep ==
  ASSUME IInv, NEW p \in Caller, LookForOpen(p) \/ OpenFile(p)
  PROVE  IInv'
<1>1. CASE LookForOpen(p)
  <2>1. CASE HasFile(call[p].uri)
    BY <1>1, <2>1, ReturnStep DEF LookForOpen, Answers
  <2>2. CASE ~HasFile(call[p].uri)
    BY <1>1, <2>2, GoesOn DEF LookForOpen
  <2> QED
    BY <2>1, <2>2
<1>2. CASE OpenFile(p)
  <2> DEFINE u == call[p].uri
             v == call[p].version
             c == call[p].content
  <2>1. call[p].op \in WritingOp /\ u \in URI /\ v \in Version /\ c \in Content
    BY <1>2, CallShape DEF OpenFile, IInv, WritingOp
  <2>2. CASE SkipVerdict(u, c) = "error"
    BY <1>2, <2>2, ReturnStep DEF OpenFile, Answers
  <2>3. CASE SkipVerdict(u, c) # "error"
    <3>1. UpdateFile(NewFile, u, v, c) \in StoredFile
      BY <2>1, UpdateKeepsDoc
    <3> QED
      BY <1>2, <2>1, <2>3, <3>1, FilesWritten DEF OpenFile, Answers
  <2> QED
    BY <2>2, <2>3
<1> QED
  BY <1>1, <1>2

LEMMA UpdateStep ==
  ASSUME IInv, NEW p \in Caller, UpdateFileOp(p)
  PROVE  IInv'
<1> DEFINE u == call[p].uri
           v == call[p].version
           c == call[p].content
<1>1. call[p].op \in WritingOp /\ u \in URI /\ v \in Version /\ c \in Content
  BY CallShape DEF UpdateFileOp, IInv, WritingOp
<1>2. CASE ~HasFile(u) \/ SkipVerdict(u, c) = "error"
  BY <1>2, ReturnStep DEF UpdateFileOp, Answers
<1>3. CASE ~(~HasFile(u) \/ SkipVerdict(u, c) = "error")
  <2>1. files[u] \in StoredFile
    BY <1>1, <1>3 DEF IInv, TypeOK, HasFile, StoredFile
  <2>2. UpdateFile(files[u], u, v, c) \in StoredFile
    BY <1>1, <2>1, UpdateKeepsDoc
  <2> QED
    BY <1>1, <1>3, <2>2, FilesWritten DEF UpdateFileOp, Answers
<1> QED
  BY <1>2, <1>3

LEMMA NextIInv == IInv /\ [Next]_vars => IInv'
<1> SUFFICES ASSUME IInv, [Next]_vars PROVE IInv'
  OBVIOUS
<1>1. CASE Next
  BY <1>1, BeginStep, GetStep, CloseStep, OpenStep, UpdateStep DEF Next
<1>2. CASE UNCHANGED vars
  BY <1>2 DEF vars, IInv, OneWriter, TypeOK, WritersWrite, LookupStillHolds, HasFile
<1> QED
  BY <1>1, <1>2

LEMMA AlwaysIInv == OneWriter /\ Spec => []IInv
BY InitIInv, NextIInv, PTL DEF Spec

\* The types of the variables: above all, a stored file has a version the editor reported,
\* never the -1 a new one starts from.
THEOREM TypeCorrect == OneWriter /\ Spec => []TypeOK
<1>1. IInv => TypeOK
  BY DEF IInv
<1> QED
  BY <1>1, AlwaysIInv, PTL

-----------------------------------------------------------------------------
(* The refinement: every step is one of the promise's, or is not seen.      *)

LEMMA CallsSeen ==
  ASSUME TypeOK, NEW p \in Caller, NEW k, call' = [call EXCEPT ![p] = k]
  PROVE  untracked' = [untracked EXCEPT ![p] = Untracked(k)]
BY DEF TypeOK, untracked

LEMMA DocsSeen ==
  ASSUME TypeOK, NEW u \in URI, NEW f, files' = [files EXCEPT ![u] = f]
  PROVE  docs' = [docs EXCEPT ![u] = DocOf(f)]
BY DEF TypeOK, docs, HasFile, DocOf

\* A document is there exactly when its file is.
LEMMA DocsAreFiles ==
  ASSUME TypeOK, NEW u \in URI
  PROVE  /\ docs[u] = DocOf(files[u])
         /\ docs[u] # None <=> HasFile(u)
         /\ HasFile(u) => files[u] \in StoredFile /\ docs[u].version = files[u].version
                          /\ docs[u].content = files[u].content
<1>1. docs[u] = DocOf(files[u])
  BY DEF docs, DocOf, HasFile
<1>2. CASE HasFile(u)
  <2>1. files[u] \in StoredFile
    BY <1>2 DEF TypeOK, HasFile, StoredFile
  <2>2. files[u].version \in Version /\ files[u].content \in Provenance
    BY <2>1 DEF StoredFile, File
  <2>3. docs[u] = [version |-> files[u].version, content |-> files[u].content]
    BY <1>1, <1>2 DEF DocOf, HasFile
  <2> QED
    BY <1>1, <1>2, <2>1, <2>2, <2>3, NoneAssumption
<1>3. CASE ~HasFile(u)
  BY <1>1, <1>3 DEF DocOf, HasFile
<1> QED
  BY <1>2, <1>3

\* The promise sees a call without its progress.
LEMMA CallSeen ==
  ASSUME TypeOK, NEW p \in Caller
  PROVE  /\ Untracked(call[p]).op = call[p].op
         /\ call[p].op # "none" => Untracked(call[p]).uri = call[p].uri
         /\ call[p].op \in {"open", "update"} =>
              /\ Untracked(call[p]).version = call[p].version
              /\ Untracked(call[p]).content = call[p].content
         /\ call[p].op # "none" => Untracked(call[p]) # NoCall
         /\ untracked[p] = Untracked(call[p])
<1>1. /\ Untracked(call[p]).op = call[p].op
      /\ call[p].op # "none" => Untracked(call[p]).uri = call[p].uri
      /\ call[p].op \in {"open", "update"} =>
           /\ Untracked(call[p]).version = call[p].version
           /\ Untracked(call[p]).content = call[p].content
  BY DEF Untracked
<1>2. call[p].op # "none" => Untracked(call[p]) # NoCall
  BY <1>1 DEF NoCall
<1> QED
  BY <1>1, <1>2 DEF untracked

LEMMA InitSeen == Init => Promise!Init
BY DEF Init, HasFile, docs, Untracked, NoCall, Caller, NoAnswer,
       Promise!Init, Promise!Caller, Promise!NoCall, Promise!NoAnswer

\* The step in which a call takes effect and returns.
LEMMA ServeSeen ==
  ASSUME IInv, NEW p \in Caller, NEW a, Return(p, a), call[p].op # "none",
         \/ a = Ok \/ a = Error
         \/ \E u \in URI : docs[u] # None /\ a = Promise!Found(docs[u]),
         \/ Promise!Effect(Untracked(call[p]), a)
         \/ a = Error /\ Promise!Refused(Untracked(call[p])) /\ UNCHANGED docs
  PROVE  Promise!Next
<1>1. untracked' = [untracked EXCEPT ![p] = NoCall] /\ answer' = [answer EXCEPT ![p] = a]
  <2>1. Untracked(NoCall) = NoCall
    BY DEF Untracked, NoCall
  <2> QED
    BY <2>1, CallsSeen DEF Return, IInv
<1>2. untracked[p] = Untracked(call[p]) /\ Untracked(call[p]) # NoCall
  BY CallSeen DEF IInv
<1>3. p \in Promise!Caller /\ Promise!NoCall = NoCall /\ Promise!Ok = Ok /\ Promise!Error = Error
  BY DEF Caller, Promise!Caller, NoCall, Promise!NoCall, Ok, Promise!Ok, Error, Promise!Error
<1>4. a \in {Ok, Error} \union {Promise!Found(docs[u]) : u \in {w \in URI : docs[w] # None}}
  OBVIOUS
<1>5. Promise!Serve(p)
  BY <1>1, <1>2, <1>3, <1>4 DEF Promise!Serve, untracked
<1> QED
  BY <1>3, <1>5 DEF Promise!Next

LEMMA BeginSeen ==
  ASSUME IInv, NEW p \in Caller, Begin(p)
  PROVE  Promise!Next
<1>1. /\ p \in Promise!Caller /\ Promise!NoCall = NoCall /\ Promise!NoAnswer = NoAnswer
      /\ untracked[p] = NoCall
      /\ answer' = [answer EXCEPT ![p] = NoAnswer] /\ UNCHANGED docs
  BY DEF Begin, untracked, Untracked, Caller, Promise!Caller, NoCall, Promise!NoCall, NoAnswer,
         Promise!NoAnswer, docs, HasFile
<1>2. \E u \in URI :
        \/ untracked' = [untracked EXCEPT ![p] = Promise!Get(u)]
        \/ p \in Writers /\ untracked' = [untracked EXCEPT ![p] = Promise!Close(u)]
        \/ /\ p \in Writers
           /\ \E v \in Version, c \in Content :
                \/ untracked' = [untracked EXCEPT ![p] = Promise!Open(u, v, c)]
                \/ untracked' = [untracked EXCEPT ![p] = Promise!Change(u, v, c)]
  <2>1. ASSUME NEW u \in URI
        PROVE  /\ Untracked([op |-> "get", uri |-> u]) = Promise!Get(u)
               /\ Untracked([op |-> "close", uri |-> u, at |-> "look"]) = Promise!Close(u)
    BY DEF Untracked, Promise!Get, Promise!Close
  <2>2. ASSUME NEW u \in URI, NEW v \in Version, NEW c \in Content
        PROVE  /\ Untracked([op |-> "open", uri |-> u, version |-> v, content |-> c, at |-> "look"])
                    = Promise!Open(u, v, c)
               /\ Untracked([op |-> "update", uri |-> u, version |-> v, content |-> c])
                    = Promise!Change(u, v, c)
    BY DEF Untracked, Promise!Open, Promise!Change
  <2>3. CASE \E u \in URI : call' = [call EXCEPT ![p] = [op |-> "get", uri |-> u]]
    <3>1. PICK u \in URI : call' = [call EXCEPT ![p] = [op |-> "get", uri |-> u]]
      BY <2>3
    <3>2. untracked' = [untracked EXCEPT ![p] = Untracked([op |-> "get", uri |-> u])]
      BY <3>1, CallsSeen DEF IInv
    <3> QED
      BY <2>1, <3>2
  <2>4. CASE p \in Writers /\ \E u \in URI :
               call' = [call EXCEPT ![p] = [op |-> "close", uri |-> u, at |-> "look"]]
    <3>1. PICK u \in URI : call' = [call EXCEPT ![p] = [op |-> "close", uri |-> u, at |-> "look"]]
      BY <2>4
    <3>2. untracked' = [untracked EXCEPT ![p] = Untracked([op |-> "close", uri |-> u, at |-> "look"])]
      BY <3>1, CallsSeen DEF IInv
    <3> QED
      BY <2>1, <2>4, <3>2
  <2>5. CASE p \in Writers /\ \E u \in URI, v \in Version, c \in Content :
               call' = [call EXCEPT ![p] =
                          [op |-> "open", uri |-> u, version |-> v, content |-> c, at |-> "look"]]
    <3>1. PICK u \in URI, v \in Version, c \in Content :
            call' = [call EXCEPT ![p] = [op |-> "open", uri |-> u, version |-> v, content |-> c, at |-> "look"]]
      BY <2>5
    <3>2. untracked' = [untracked EXCEPT ![p] =
            Untracked([op |-> "open", uri |-> u, version |-> v, content |-> c, at |-> "look"])]
      BY <3>1, CallsSeen DEF IInv
    <3> QED
      BY <2>2, <2>5, <3>2
  <2>6. CASE p \in Writers /\ \E u \in URI, v \in Version, c \in Content :
               call' = [call EXCEPT ![p] = [op |-> "update", uri |-> u, version |-> v, content |-> c]]
    <3>1. PICK u \in URI, v \in Version, c \in Content :
            call' = [call EXCEPT ![p] = [op |-> "update", uri |-> u, version |-> v, content |-> c]]
      BY <2>6
    <3>2. untracked' = [untracked EXCEPT ![p] =
            Untracked([op |-> "update", uri |-> u, version |-> v, content |-> c])]
      BY <3>1, CallsSeen DEF IInv
    <3> QED
      BY <2>2, <2>6, <3>2
  <2> QED
    BY <2>3, <2>4, <2>5, <2>6 DEF Begin
<1>3. Promise!Begin(p)
  BY <1>1, <1>2 DEF Promise!Begin, untracked
<1> QED
  BY <1>1, <1>3 DEF Promise!Next

\* A call that goes on to the write lock is not seen.
LEMMA GoesOnUnseen ==
  ASSUME IInv, NEW p \in Caller, call[p].op \in {"close", "open"}, call[p].at = "look",
         call' = [call EXCEPT ![p].at = "write"], UNCHANGED <<files, answer>>
  PROVE  UNCHANGED <<docs, untracked, answer>>
<1> DEFINE k == [call[p] EXCEPT !.at = "write"]
<1>1. Untracked(k) = Untracked(call[p])
  <2>1. CASE call[p].op = "close"
    <3>1. PICK u \in URI, a \in {"look", "write"} : call[p] = [op |-> "close", uri |-> u, at |-> a]
      BY <2>1, CallShape DEF IInv
    <3> QED
      BY <3>1 DEF Untracked
  <2>2. CASE call[p].op = "open"
    <3>1. PICK u \in URI, v \in Version, c \in Content, a \in {"look", "write"} :
            call[p] = [op |-> "open", uri |-> u, version |-> v, content |-> c, at |-> a]
      BY <2>2, CallShape DEF IInv
    <3> QED
      BY <3>1 DEF Untracked
  <2> QED
    BY <2>1, <2>2
<1>2. call' = [call EXCEPT ![p] = k]
  OBVIOUS
<1> HIDE DEF k
<1>3. untracked' = [untracked EXCEPT ![p] = Untracked(call[p])]
  BY <1>1, <1>2, CallsSeen DEF IInv
<1>4. untracked' = untracked
  BY <1>3 DEF untracked
<1> QED
  BY <1>4 DEF docs, HasFile

LEMMA GetSeen ==
  ASSUME IInv, NEW p \in Caller, GetFile(p)
  PROVE  Promise!Next
<1> DEFINE u == call[p].uri
           k == Untracked(call[p])
<1>1. call[p].op = "get" /\ u \in URI /\ k.op = "get" /\ k.uri = u /\ UNCHANGED docs
  BY CallShape, CallSeen DEF GetFile, IInv, docs, HasFile
<1>2. CASE HasFile(u)
  <2>1. docs[u] # None /\ Promise!Found(docs[u]) = Copy(files[u])
    BY <1>1, <1>2, DocsAreFiles DEF IInv, Promise!Found, Copy
  <2>2. Promise!Effect(k, Copy(files[u]))
    BY <1>1, <2>1 DEF Promise!Effect
  <2> QED
    BY <1>1, <1>2, <2>1, <2>2, ServeSeen DEF GetFile
<1>3. CASE ~HasFile(u)
  <2>1. Promise!Refused(k)
    BY <1>1, <1>3, DocsAreFiles DEF IInv, Promise!Refused
  <2> QED
    BY <1>1, <1>3, <2>1, ServeSeen DEF GetFile
<1> QED
  BY <1>2, <1>3

LEMMA CloseSeen ==
  ASSUME IInv, NEW p \in Caller, LookForClose(p) \/ CloseFile(p)
  PROVE  Promise!Next \/ UNCHANGED <<docs, untracked, answer>>
<1> DEFINE u == call[p].uri
           k == Untracked(call[p])
<1>1. call[p].op = "close" /\ u \in URI /\ k.op = "close" /\ k.uri = u
  BY CallShape, CallSeen DEF LookForClose, CloseFile, IInv
<1>2. CASE LookForClose(p) /\ HasFile(u)
  BY <1>2, GoesOnUnseen DEF LookForClose
<1>3. CASE LookForClose(p) /\ ~HasFile(u)
  <2>1. Promise!Refused(k) /\ UNCHANGED docs
    BY <1>1, <1>3, DocsAreFiles DEF IInv, Promise!Refused, LookForClose, docs, HasFile
  <2> QED
    BY <1>1, <1>3, <2>1, ServeSeen DEF LookForClose
<1>4. CASE CloseFile(p)
  <2>1. p \in Writers /\ HasFile(u)
    BY <1>1, <1>4 DEF IInv, WritersWrite, WritingOp, LookupStillHolds, CloseFile
  <2>2. docs[u] # None /\ docs' = [docs EXCEPT ![u] = None]
    BY <1>1, <1>4, <2>1, DocsAreFiles, DocsSeen DEF IInv, CloseFile, DocOf
  <2>3. Promise!Effect(k, Ok)
    BY <1>1, <2>2 DEF Promise!Effect, Ok, Promise!Ok
  <2> QED
    BY <1>1, <1>4, <2>1, <2>3, ServeSeen DEF CloseFile
<1> QED
  BY <1>2, <1>3, <1>4

LEMMA OpenSeen ==
  ASSUME IInv, NEW p \in Caller, LookForOpen(p) \/ OpenFile(p)
  PROVE  Promise!Next \/ UNCHANGED <<docs, untracked, answer>>
<1> DEFINE u == call[p].uri
           v == call[p].version
           c == call[p].content
           k == Untracked(call[p])
<1>1. /\ call[p].op = "open" /\ u \in URI /\ v \in Version /\ c \in Content
      /\ k.op = "open" /\ k.uri = u /\ k.version = v /\ k.content = c
  BY CallShape, CallSeen DEF LookForOpen, OpenFile, IInv
<1>2. CASE LookForOpen(p) /\ ~HasFile(u)
  BY <1>2, GoesOnUnseen DEF LookForOpen
<1>3. CASE LookForOpen(p) /\ HasFile(u)
  <2>1. Promise!Refused(k) /\ UNCHANGED docs
    BY <1>1, <1>3, DocsAreFiles DEF IInv, Promise!Refused, LookForOpen, docs, HasFile
  <2> QED
    BY <1>1, <1>3, <2>1, ServeSeen DEF LookForOpen
<1>4. CASE OpenFile(p) /\ SkipVerdict(u, c) = "error"
  <2>1. Promise!Refused(k) /\ UNCHANGED docs
    BY <1>1, <1>4, RejectedDocs DEF IInv, Promise!Refused, OpenFile, docs, HasFile
  <2> QED
    BY <1>1, <1>4, <2>1, ServeSeen DEF OpenFile
<1>5. CASE OpenFile(p) /\ SkipVerdict(u, c) # "error"
  <2> DEFINE f == UpdateFile(NewFile, u, v, c)
  <2>1. p \in Writers /\ ~HasFile(u)
    BY <1>1, <1>5 DEF IInv, WritersWrite, WritingOp, LookupStillHolds, OpenFile
  <2>2. DocOf(f) = Promise!Newer(Promise!New, v, c)
    BY <1>1, UpdateKeepsDoc DEF NewFile, Promise!New
  <2>3. files' = [files EXCEPT ![u] = f] /\ Return(p, Ok)
    BY <1>5 DEF OpenFile
  <2> HIDE DEF f
  <2>4. docs[u] = None
    BY <1>1, <2>1, DocsAreFiles DEF IInv
  <2>5. docs' = [docs EXCEPT ![u] = DocOf(f)]
    BY <1>1, <2>3, DocsSeen DEF IInv
  <2>6. Promise!Effect(k, Ok)
    BY <1>1, <1>5, <2>2, <2>4, <2>5, RejectedDocs DEF Promise!Effect, Ok, Promise!Ok
  <2> QED
    BY <1>1, <2>3, <2>6, ServeSeen
<1> QED
  BY <1>2, <1>3, <1>4, <1>5

LEMMA UpdateSeen ==
  ASSUME IInv, NEW p \in Caller, UpdateFileOp(p)
  PROVE  Promise!Next
<1> DEFINE u == call[p].uri
           v == call[p].version
           c == call[p].content
           k == Untracked(call[p])
<1>1. /\ call[p].op = "update" /\ u \in URI /\ v \in Version /\ c \in Content
      /\ k.op = "update" /\ k.uri = u /\ k.version = v /\ k.content = c
  BY CallShape, CallSeen DEF UpdateFileOp, IInv
<1>2. CASE ~HasFile(u) \/ SkipVerdict(u, c) = "error"
  <2>1. Promise!Refused(k) /\ UNCHANGED docs
    BY <1>1, <1>2, RejectedDocs, DocsAreFiles DEF IInv, Promise!Refused, UpdateFileOp, docs, HasFile
  <2> QED
    BY <1>1, <1>2, <2>1, ServeSeen DEF UpdateFileOp
<1>3. CASE HasFile(u) /\ SkipVerdict(u, c) # "error"
  <2> DEFINE f == UpdateFile(files[u], u, v, c)
  <2>1. /\ files[u] \in StoredFile /\ docs[u] # None
        /\ docs[u] = [version |-> files[u].version, content |-> files[u].content]
    BY <1>1, <1>3, DocsAreFiles DEF IInv, DocOf, HasFile
  <2>2. DocOf(f) = Promise!Newer(docs[u], v, c)
    BY <1>1, <2>1, UpdateKeepsDoc
  <2>3. files' = [files EXCEPT ![u] = f] /\ Return(p, Ok)
    BY <1>3 DEF UpdateFileOp
  <2> HIDE DEF f
  <2>4. docs' = [docs EXCEPT ![u] = Promise!Newer(docs[u], v, c)]
    BY <1>1, <2>2, <2>3, DocsSeen DEF IInv
  <2>5. Promise!Effect(k, Ok)
    BY <1>1, <1>3, <2>1, <2>4, RejectedDocs DEF Promise!Effect, Ok, Promise!Ok
  <2> QED
    BY <1>1, <2>3, <2>5, ServeSeen
<1> QED
  BY <1>2, <1>3

\* The locking of the store keeps its promise to every caller: whatever the interleaving of
\* its critical sections, one writer and any number of readers see a map of documents in
\* which each call takes effect at once (filesystem.go:48 and :61 look before they lock).
THEOREM StoreKeepsPromise == OneWriter /\ Spec => KeepsPromise
<1>1. IInv /\ [Next]_vars => [Promise!Next]_(Promise!vars)
  <2> SUFFICES ASSUME IInv, [Next]_vars
               PROVE  Promise!Next \/ UNCHANGED <<docs, untracked, answer>>
    BY DEF Promise!vars, untracked
  <2>1. CASE UNCHANGED vars
    BY <2>1 DEF vars, docs, untracked, HasFile
  <2>2. CASE Next
    BY <2>2, BeginSeen, GetSeen, CloseSeen, OpenSeen, UpdateSeen DEF Next
  <2> QED
    BY <2>1, <2>2
<1> QED
  BY <1>1, InitSeen, AlwaysIInv, PTL DEF Spec, KeepsPromise, Promise!Spec
=============================================================================
