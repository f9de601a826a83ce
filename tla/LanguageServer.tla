---------------------------- MODULE LanguageServer ----------------------------
(***************************************************************************)
(* The running server (internal/server, mux, diagnostics/handler.go,       *)
(* codeactions, cmd/.../main.go): two goroutines over the virtual files.   *)
(*                                                                         *)
(*  - reader: jsonrpc2 reads one message, runs its handler to the end and  *)
(*    only then reads the next one.  The handlers of didOpen and didChange *)
(*    end with a send on documentUpdates that blocks while it is full, the *)
(*    handler of executeCommand waits for the Nobl9 API.                   *)
(*  - loop: runDiagnosticsLoop takes the updates one by one.  Between its  *)
(*    two looks at the file (GetFile) it diagnoses the copy it got first.  *)
(*                                                                         *)
(* A message matters when it is read, so the editor's next message is      *)
(* chosen then.  A handler that returns early (wrong language, unknown     *)
(* file, file already open, several content changes, an error of           *)
(* shouldSkipFile, a recovered panic) changes nothing: a stuttering step.  *)
(* Every file operation is one critical section of FS.mu here; FileStore   *)
(* has its locking.  How DiagnoseFile works is the module DiagnoseFile.    *)
(***************************************************************************)
EXTENDS Files, Sequences

CONSTANTS
  ChanCap,      \* capacity of documentUpdates (10 in server.New)
  Misaligned,   \* texts with a decodable object that has no SimpleAST entry of its index
  Handshake,    \* the editor sends initialize, then initialized, then the rest
  MaxSessions   \* bound: how often each document is opened

ASSUME ServerAssumption ==
  /\ ChanCap \in Nat \ {0}
  /\ Misaligned \subseteq Content
  /\ Handshake \in BOOLEAN
  /\ MaxSessions \in [URI -> Nat]

VARIABLES
  conn,         \* the stdio connection: "open", "closed"; "exited": run() returned
  initialized,  \* Server.initialized, set together with notifier.conn
  files,        \* FS.files
  reader,       \* what the read goroutine is blocked on
  updates,      \* the channel documentUpdates
  loop,         \* where the diagnostics goroutine is
  published,    \* the last diagnostics the client was sent for each document
  session       \* history: how often each document has been opened

vars == <<conn, initialized, files, reader, updates, loop, published, session>>

\* documentUpdateEvent; session is history: the session of the document it was sent in.
UpdateEvent == [uri : URI, version : Version, session : Nat]
Publication == [version : Version, of : Provenance, session : Nat]

\* No publication is the lack of one.
ASSUME PublicationAssumption == None \notin Publication

Idle == [pc |-> "idle"]
Off == [pc |-> "off"]
Recv == [pc |-> "recv"]

Init ==
  /\ conn = "open"
  /\ initialized = FALSE
  /\ files = [u \in URI |-> None]
  /\ reader = Idle
  /\ updates = <<>>
  /\ loop = Off
  /\ published = [u \in URI |-> None]
  /\ session = [u \in URI |-> 0]

HasFile(u) == files[u] # None

-----------------------------------------------------------------------------
(* The read goroutine.                                                      *)

Reads == conn = "open" /\ reader = Idle

\* The handshake a conforming editor keeps to; the server itself never checks.
ReadsDocumentMessage == Reads /\ (Handshake => initialized /\ loop # Off)

HandleInitialize ==
  /\ Reads
  /\ ~initialized
  /\ initialized' = TRUE
  /\ UNCHANGED <<conn, files, reader, updates, loop, published, session>>

\* sync.Once: only the first one starts the goroutine.
HandleInitialized ==
  /\ Reads
  /\ Handshake => initialized
  /\ loop = Off
  /\ loop' = Recv
  /\ UNCHANGED <<conn, initialized, files, reader, updates, published, session>>

\* Before initialize s.conn is nil and the handler panics: no step.
HandleShutdown ==
  /\ Reads
  /\ initialized
  /\ conn' = "closed"
  /\ UNCHANGED <<initialized, files, reader, updates, loop, published, session>>

Sending(u, v, s) ==
  [pc |-> "send", item |-> [uri |-> u, version |-> v, session |-> s]]

HandleDidOpen(u, v, c) ==
  /\ ReadsDocumentMessage
  /\ session[u] < MaxSessions[u]
  /\ ~HasFile(u)
  /\ SkipVerdict(u, c) # "error"
  /\ files' = [files EXCEPT ![u] = UpdateFile(NewFile, u, v, c)]
  /\ session' = [session EXCEPT ![u] = @ + 1]
  /\ reader' = Sending(u, v, session[u] + 1)
  /\ UNCHANGED <<conn, initialized, updates, loop, published>>

\* The update is sent whether or not the version was newer.
HandleDidChange(u, v, c) ==
  /\ ReadsDocumentMessage
  /\ HasFile(u)
  /\ SkipVerdict(u, c) # "error"
  /\ files' = [files EXCEPT ![u] = UpdateFile(files[u], u, v, c)]
  /\ reader' = Sending(u, v, session[u])
  /\ UNCHANGED <<conn, initialized, updates, loop, published, session>>

\* Mutant: the send does not wait for room in the channel.
SendUpdateMutantUnbounded ==
  /\ conn # "exited"
  /\ reader.pc = "send"
  /\ updates' = Append(updates, reader.item)
  /\ reader' = Idle
  /\ UNCHANGED <<conn, initialized, files, loop, published, session>>

\* Mutant: a send that finds the channel full drops the update.
SendUpdateMutantDrops ==
  /\ conn # "exited"
  /\ reader.pc = "send"
  /\ updates' = IF Len(updates) < ChanCap THEN Append(updates, reader.item) ELSE updates
  /\ reader' = Idle
  /\ UNCHANGED <<conn, initialized, files, loop, published, session>>

\* s.documentUpdates <- ...
SendUpdate ==
  /\ conn # "exited"
  /\ reader.pc = "send"
  /\ Len(updates) < ChanCap
  /\ updates' = Append(updates, reader.item)
  /\ reader' = Idle
  /\ UNCHANGED <<conn, initialized, files, loop, published, session>>

\* Nothing is published for the closed file.
HandleDidClose(u) ==
  /\ ReadsDocumentMessage
  /\ HasFile(u)
  /\ files' = [files EXCEPT ![u] = None]
  /\ UNCHANGED <<conn, initialized, reader, updates, loop, published, session>>

\* APPLY and DELETE hand the file's Objects to the API; APPLY_DRY_RUN calls nothing.
HandleExecuteCommand(u) ==
  /\ ReadsDocumentMessage
  /\ HasFile(u)
  /\ ~files[u].skip
  /\ reader' = [pc |-> "call", uri |-> u, objects |-> files[u].objects]
  /\ UNCHANGED <<conn, initialized, files, updates, loop, published, session>>

\* The API answers, with an error or without; either way only a message is shown.
CommandReturns ==
  /\ conn # "exited"
  /\ reader.pc = "call"
  /\ reader' = Idle
  /\ UNCHANGED <<conn, initialized, files, updates, loop, published, session>>

-----------------------------------------------------------------------------
(* The diagnostics goroutine.                                               *)

LoopReceive ==
  /\ conn # "exited"
  /\ loop = Recv
  /\ updates # <<>>
  /\ loop' = [pc |-> "get", item |-> Head(updates)]
  /\ updates' = Tail(updates)
  /\ UNCHANGED <<conn, initialized, files, reader, published, session>>

\* Mutant: the error for a file that is gone ends the loop.
LoopGetFileMutant ==
  /\ conn # "exited"
  /\ loop.pc = "get"
  /\ LET u == loop.item.uri IN
       loop' = IF ~HasFile(u) THEN [pc |-> "stuck"]
               ELSE IF files[u].skip THEN Recv
               ELSE [pc |-> "diagnose", item |-> loop.item, file |-> files[u]]
  /\ UNCHANGED <<conn, initialized, files, reader, updates, published, session>>

\* The first GetFile: nothing to do for a file that is gone or skipped.
LoopGetFile ==
  /\ conn # "exited"
  /\ loop.pc = "get"
  /\ LET u == loop.item.uri IN
       loop' = IF ~HasFile(u) \/ files[u].skip THEN Recv
               ELSE [pc |-> "diagnose", item |-> loop.item, file |-> files[u]]
  /\ UNCHANGED <<conn, initialized, files, reader, updates, published, session>>

\* What the diagnostics of a copy are about: its error or its Objects.
DiagnosedText(f) == IF f.err # "none" THEN f.content ELSE f.objects

\* DiagnoseFile never returns when the goroutine of an object panics.
LoopDiagnose ==
  /\ conn # "exited"
  /\ loop.pc = "diagnose"
  /\ loop' = IF loop.file.err = "none" /\ loop.file.objects \in Misaligned
               THEN [pc |-> "stuck"]
               ELSE [pc |-> "check", item |-> loop.item, of |-> DiagnosedText(loop.file)]
  /\ UNCHANGED <<conn, initialized, files, reader, updates, published, session>>

\* Mutant: no check of the version.
PassesMutant(item) == TRUE

\* Drops the diagnostics if the file has another version; a file that is gone passes.
Passes(item) == HasFile(item.uri) => files[item.uri].version = item.version

LoopCheckVersion ==
  /\ conn # "exited"
  /\ loop.pc = "check"
  /\ LET u == loop.item.uri IN
       loop' = IF Passes(loop.item)
                 THEN [pc |-> "notify", item |-> loop.item, of |-> loop.of,
                       session |-> IF HasFile(u) THEN session[u] ELSE 0]
                 ELSE Recv
  /\ UNCHANGED <<conn, initialized, files, reader, updates, published, session>>

\* A nil connection panics (recovered by the loop), a closed one errors: not sent.
LoopNotify ==
  /\ conn # "exited"
  /\ loop.pc = "notify"
  /\ loop' = Recv
  /\ published' = IF initialized /\ conn = "open"
       THEN [published EXCEPT ![loop.item.uri] =
               [version |-> loop.item.version, of |-> loop.of, session |-> loop.session]]
       ELSE published
  /\ UNCHANGED <<conn, initialized, files, reader, updates, session>>

-----------------------------------------------------------------------------
(* The process.                                                             *)

\* The client hangs up: noticed only by a reader that is reading.
Disconnect ==
  /\ Reads
  /\ conn' = "closed"
  /\ UNCHANGED <<initialized, files, reader, updates, loop, published, session>>

\* run() returns on a signal or once the connection is lost.
Exit ==
  /\ conn # "exited"
  /\ conn' = "exited"
  /\ UNCHANGED <<initialized, files, reader, updates, loop, published, session>>

Reader ==
  \/ HandleInitialize
  \/ HandleInitialized
  \/ HandleShutdown
  \/ \E u \in URI, v \in Version, c \in Content :
       HandleDidOpen(u, v, c) \/ HandleDidChange(u, v, c)
  \/ \E u \in URI : HandleDidClose(u) \/ HandleExecuteCommand(u)
  \/ SendUpdate
  \/ CommandReturns

Loop == LoopReceive \/ LoopGetFile \/ LoopDiagnose \/ LoopCheckVersion \/ LoopNotify

Next == Reader \/ Loop \/ Disconnect \/ Exit

Spec == Init /\ [][Next]_vars

\* A goroutine that can run does: the reader's blocked send, the API's answer (the
\* SDK's client gives up on a request) and every step of the diagnostics loop.
Fairness == WF_vars(SendUpdate) /\ WF_vars(CommandReturns) /\ WF_vars(Loop)

FairSpec == Spec /\ Fairness

-----------------------------------------------------------------------------
(* Properties.                                                              *)

ReaderStates ==
  {Idle} \union [pc : {"send"}, item : UpdateEvent]
         \union [pc : {"call"}, uri : URI, objects : Provenance]

LoopStates ==
  {Off, Recv, [pc |-> "stuck"]}
    \union [pc : {"get"}, item : UpdateEvent]
    \union [pc : {"diagnose"}, item : UpdateEvent, file : File]
    \union [pc : {"check"}, item : UpdateEvent, of : Provenance]
    \union [pc : {"notify"}, item : UpdateEvent, of : Provenance, session : Nat]

\* The type invariant: the channel never holds more than its capacity.
TypeOK ==
  /\ conn \in {"open", "closed", "exited"}
  /\ initialized \in BOOLEAN
  /\ files \in [URI -> File \union {None}]
  /\ reader \in ReaderStates
  /\ updates \in Seq(UpdateEvent) /\ Len(updates) <= ChanCap
  /\ loop \in LoopStates
  /\ published \in [URI -> Publication \union {None}]
  /\ session \in [URI -> Nat]

\* Through every sequence of updates, skipped, broken and not newer ones included, the
\* parse results of a file that is not skipped fit together: Err is the error of the
\* present text, SimpleAST is of the present text unless it is what failed, and with no
\* error Objects are of the present text (the index of one is used in the other).
Coherent(f) ==
  /\ f.err = IF f.content = None THEN "none" ELSE ParseErr(f.content)
  /\ f.simpleAST = IF f.err = "simple" THEN None ELSE f.content
  /\ f.err = "none" => f.objects = f.content

FilesCoherent == \A u \in URI : HasFile(u) /\ ~files[u].skip => Coherent(files[u])

\* The update events on their way: being sent, in the channel, being diagnosed.
InFlight ==
  (IF reader.pc = "send" THEN {reader.item} ELSE {})
    \union {updates[i] : i \in DOMAIN updates}
    \union (IF loop.pc \in {"get", "diagnose", "check", "notify"} THEN {loop.item} ELSE {})

\* An update event is never ahead of the file it is about: while the document is open in
\* the session the event was sent in, the file has the event's version or a later one.
\* So the diagnostics of an event that passes the version check are never too old.
NotAhead(item) ==
  /\ item.session <= session[item.uri]
  /\ (HasFile(item.uri) /\ item.session = session[item.uri])
       => item.version <= files[item.uri].version

EventsNotAhead == \A item \in InFlight : NotAhead(item)

\* The second look at the file is enough within a session: diagnostics that pass the
\* version check are those of the text the file has at that moment, whatever the reader
\* did to the file while they were computed (diagnostics/handler.go:56).
CheckedTextIsCurrent ==
  [][(loop.pc = "check" /\ loop'.pc = "notify") =>
       LET u == loop.item.uri IN
         (HasFile(u) /\ session[u] = loop.item.session)
           => files[u].content = loop.of]_vars

\* The same without the restriction to one session, as the comment at
\* diagnostics/handler.go:56 has it.
NoDiagnosticsForOldVersion ==
  [][(loop.pc = "check" /\ loop'.pc = "notify" /\ HasFile(loop.item.uri))
       => files[loop.item.uri].content = loop.of]_vars

\* Within one session of a document the client never gets diagnostics for an older
\* version after those for a newer one, even from an editor whose versions go back.
PublicationsMoveForward ==
  [][\A u \in URI :
       published[u] # None /\ published'[u] # None
         /\ published'[u].session = published[u].session /\ published[u].session > 0
       => published'[u].version >= published[u].version]_vars

\* Nothing is on its way to the client.
Quiet == conn = "open" /\ reader = Idle /\ updates = <<>> /\ loop = Recv

\* No lost update: once everything is handled, an open file that is not skipped shows
\* the diagnostics of its present text and version, however often it was changed, closed
\* and opened again and whatever was dropped on the way.
QuietMeansDiagnosed ==
  Quiet => \A u \in URI :
    HasFile(u) /\ ~files[u].skip =>
      /\ published[u] # None
      /\ published[u].of = files[u].content
      /\ published[u].version = files[u].version

\* Diagnostics are cleared when the text they are about is gone (the comment at
\* diagnostics/handler.go:51): once everything is handled, an open file does not show
\* the parse error of a text it no longer has.
ErrorsAreCleared ==
  Quiet => \A u \in URI :
    HasFile(u) /\ published[u] # None /\ published[u].of \in SimpleFails \union ASTFails
      => published[u].of = files[u].content

\* "Apply objects defined in this file" (codeactions/commands.go:25): what APPLY and
\* DELETE hand to the API are the objects of the file's present text, if any.
AppliesThisFile ==
  reader.pc = "call" => reader.objects \in {None, files[reader.uri].content}

\* The reader is never blocked on the channel for good: it reads the next message.
SendCompletes == reader.pc = "send" ~> (reader = Idle \/ conn = "exited")

\* "Empty diagnostics are sent whenever a file changes and there are no issues, this
\* includes opening a new file" (tests/go/server_test.go:173): every text of an open
\* file is diagnosed unless another one replaces it first.
Awaits(u, c) == conn = "open" /\ HasFile(u) /\ ~files[u].skip /\ files[u].content = c

EventuallyDiagnosed ==
  \A u \in URI, c \in Content :
    Awaits(u, c) ~> (published[u] # None /\ published[u].of = c) \/ ~Awaits(u, c)
=============================================================================
