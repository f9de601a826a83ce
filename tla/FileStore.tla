------------------------------ MODULE FileStore ------------------------------
(***************************************************************************)
(* files.FS with its lock: the map of virtual files as its callers see it, *)
(* every critical section of FS.mu a step of its own.  CloseFile and       *)
(* OpenFile look the file up under the read lock first (HasFile) and take  *)
(* the write lock afterwards; CloseFile looks again, OpenFile does not.    *)
(* In the server one goroutine writes, the message reader, and two read.   *)
(***************************************************************************)
EXTENDS Files

CONSTANTS Writers, Readers

ASSUME StoreAssumption ==
  /\ Writers \intersect Readers = {}
  /\ Version \subseteq Nat  \* editors count up from 0 or 1

Caller == Writers \union Readers

\* No file and no document is nil.
ASSUME NoneAssumption ==
  /\ None \notin File
  /\ \A v \in Version, c \in Provenance : None # [version |-> v, content |-> c]

VARIABLES
  files,    \* FS.files
  call,     \* each caller's call: the operation, its arguments and how far it is
  answer    \* what each caller's last call returned

vars == <<files, call, answer>>

NoCall == [op |-> "none"]

NoAnswer == [is |-> "none"]
Ok == [is |-> "ok"]
Error == [is |-> "error"]

Init ==
  /\ files = [u \in URI |-> None]
  /\ call = [p \in Caller |-> NoCall]
  /\ answer = [p \in Caller |-> NoAnswer]

HasFile(u) == files[u] # None

Begin(p) ==
  /\ call[p] = NoCall
  /\ \/ \E u \in URI : call' = [call EXCEPT ![p] = [op |-> "get", uri |-> u]]
     \/ /\ p \in Writers
        /\ \E u \in URI :
             \/ call' = [call EXCEPT ![p] = [op |-> "close", uri |-> u, at |-> "look"]]
             \/ \E v \in Version, c \in Content :
                  \/ call' = [call EXCEPT ![p] =
                       [op |-> "open", uri |-> u, version |-> v, content |-> c, at |-> "look"]]
                  \/ call' = [call EXCEPT ![p] =
                       [op |-> "update", uri |-> u, version |-> v, content |-> c]]
  /\ answer' = [answer EXCEPT ![p] = NoAnswer]
  /\ UNCHANGED files

Return(p, a) ==
  /\ call' = [call EXCEPT ![p] = NoCall]
  /\ answer' = [answer EXCEPT ![p] = a]

\* The copy GetFile returns; the text and the version are what the promise is about.
Copy(f) == [is |-> "found", version |-> f.version, content |-> f.content]

GetFile(p) ==
  /\ call[p].op = "get"
  /\ LET u == call[p].uri IN Return(p, IF HasFile(u) THEN Copy(files[u]) ELSE Error)
  /\ UNCHANGED files

\* HasFile, the first step of CloseFile and OpenFile, under the read lock.
LookForClose(p) ==
  /\ call[p].op = "close" /\ call[p].at = "look"
  /\ IF HasFile(call[p].uri)
       THEN call' = [call EXCEPT ![p].at = "write"] /\ UNCHANGED answer
       ELSE Return(p, Error)
  /\ UNCHANGED files

CloseFile(p) ==
  /\ call[p].op = "close" /\ call[p].at = "write"
  /\ LET u == call[p].uri IN
       /\ files' = [files EXCEPT ![u] = None]
       /\ Return(p, IF HasFile(u) THEN Ok ELSE Error)

\* Mutant: open files are not looked for.
LookForOpenMutant(p) ==
  /\ call[p].op = "open" /\ call[p].at = "look"
  /\ call' = [call EXCEPT ![p].at = "write"]
  /\ UNCHANGED <<files, answer>>

LookForOpen(p) ==
  /\ call[p].op = "open" /\ call[p].at = "look"
  /\ IF HasFile(call[p].uri)
       THEN Return(p, Error)
       ELSE call' = [call EXCEPT ![p].at = "write"] /\ UNCHANGED answer
  /\ UNCHANGED files

\* Mutant: the file is stored before its text is looked at.
OpenFileMutant(p) ==
  /\ call[p].op = "open" /\ call[p].at = "write"
  /\ LET u == call[p].uri  v == call[p].version  c == call[p].content IN
       IF SkipVerdict(u, c) = "error"
         THEN Return(p, Error) /\ files' = [files EXCEPT ![u] = NewFile]
         ELSE /\ files' = [files EXCEPT ![u] = UpdateFile(NewFile, u, v, c)]
              /\ Return(p, Ok)

\* The file is stored only if updateFile had no error.
OpenFile(p) ==
  /\ call[p].op = "open" /\ call[p].at = "write"
  /\ LET u == call[p].uri  v == call[p].version  c == call[p].content IN
       IF SkipVerdict(u, c) = "error"
         THEN Return(p, Error) /\ UNCHANGED files
         ELSE /\ files' = [files EXCEPT ![u] = UpdateFile(NewFile, u, v, c)]
              /\ Return(p, Ok)

UpdateFileOp(p) ==
  /\ call[p].op = "update"
  /\ LET u == call[p].uri  v == call[p].version  c == call[p].content IN
       IF ~HasFile(u) \/ SkipVerdict(u, c) = "error"
         THEN Return(p, Error) /\ UNCHANGED files
         ELSE /\ files' = [files EXCEPT ![u] = UpdateFile(files[u], u, v, c)]
              /\ Return(p, Ok)

Next ==
  \E p \in Caller :
    \/ Begin(p)
    \/ GetFile(p)
    \/ LookForClose(p) \/ CloseFile(p)
    \/ LookForOpen(p) \/ OpenFile(p)
    \/ UpdateFileOp(p)

Spec == Init /\ [][Next]_vars

-----------------------------------------------------------------------------
(* Properties.                                                              *)

\* The text of every file, whatever was parsed or skipped.
docs == [u \in URI |-> IF HasFile(u)
           THEN [version |-> files[u].version, content |-> files[u].content] ELSE None]

\* A call without its progress through the critical sections.
Untracked(k) ==
  IF k.op = "close" THEN [op |-> k.op, uri |-> k.uri]
  ELSE IF k.op = "open"
    THEN [op |-> k.op, uri |-> k.uri, version |-> k.version, content |-> k.content]
    ELSE k

Promise == INSTANCE DocumentStore WITH
  call <- [p \in Caller |-> Untracked(call[p])],
  Rejected <- IF FilePatterns = {} THEN {} ELSE Unparsable

\* The store keeps its promise: with one writer among any readers, the interleaving of
\* critical sections is never seen (filesystem.go:48 and :61 look before they lock).
KeepsPromise == Promise!Spec

CallType ==
  {NoCall} \union [op : {"get"}, uri : URI]
    \union [op : {"close"}, uri : URI, at : {"look", "write"}]
    \union [op : {"open"}, uri : URI, version : Version, content : Content,
             at : {"look", "write"}]
    \union [op : {"update"}, uri : URI, version : Version, content : Content]

\* The type invariant: a stored file always has a version the editor reported, never the
\* -1 it started from.
TypeOK ==
  /\ files \in [URI -> {None} \union {f \in File : f.version \in Version}]
  /\ call \in [Caller -> CallType]
  /\ answer \in [Caller -> {NoAnswer, Ok, Error} \union
       [is : {"found"}, version : Version \union {-1}, content : Provenance]]
=============================================================================
