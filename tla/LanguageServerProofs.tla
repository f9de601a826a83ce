------------------------- MODULE LanguageServerProofs -------------------------
(***************************************************************************)
(* Theorems about LanguageServer, for any documents, texts, versions,      *)
(* patterns and channel capacity, whether or not the editor keeps to the   *)
(* handshake; and of one that does, that no update is lost.                *)
(***************************************************************************)
EXTENDS LanguageServer, TLAPS

\* Every version a file can have is an integer, the -1 it starts from included.
LEMMA VersionInt ==
  ASSUME NEW f \in File
  PROVE  f.version \in Int
<1>1. f.version \in Version \union {-1}
  BY DEF File
<1>2. -1 \in Int /\ Version \subseteq Int
  BY FilesAssumption
<1> QED
  BY <1>1, <1>2

\* What an update does to a file: it stays a file, its version does not go back and is at
\* least the update's, a file that keeps its version keeps everything, and the parse
\* results fit together unless the file is skipped.
LEMMA UpdateFileLemma ==
  ASSUME NEW f \in File, NEW u \in URI, NEW v \in Version, NEW c \in Content
  PROVE  LET g == UpdateFile(f, u, v, c) IN
           /\ g \in File
           /\ g.version >= f.version
           /\ g.version >= v
           /\ g.version = f.version => g = f
           /\ (f.skip \/ Coherent(f)) => (g.skip \/ Coherent(g))
<1> DEFINE g == UpdateFile(f, u, v, c)
<1>1. f.version \in Int /\ v \in Int
  BY FilesAssumption, VersionInt
<1>2. CASE ~(v > f.version)
  <2>1. g = f
    BY <1>2 DEF UpdateFile, Update, UpdateSkipped, ShouldUpdate
  <2> QED
    BY <2>1, <1>1, <1>2
<1>3. CASE v > f.version /\ SkipVerdict(u, c) = "skip"
  <2>1. g = [f EXCEPT !.version = v, !.content = c, !.skip = TRUE]
    BY <1>3 DEF UpdateFile, UpdateSkipped, ShouldUpdate
  <2>2. g \in File /\ g.version = v /\ g.skip
    BY <2>1 DEF File, Provenance
  <2> QED
    BY <2>2, <1>1, <1>3
<1>4. CASE v > f.version /\ SkipVerdict(u, c) # "skip"
  <2>1. g = [version |-> v, content |-> c, skip |-> FALSE,
             objects |-> IF ParseErr(c) = "none" THEN c ELSE f.objects,
             simpleAST |-> IF ParseErr(c) = "simple" THEN None ELSE c,
             err |-> ParseErr(c)]
    BY <1>4 DEF UpdateFile, Update, ShouldUpdate
  <2>2. ParseErr(c) \in {"none", "simple", "ast"}
    BY DEF ParseErr
  <2>3. g \in File /\ g.version = v
    BY <2>1, <2>2 DEF File, Provenance
  <2>4. Coherent(g)
    BY <2>1, <2>2, FilesAssumption DEF Coherent
  <2> QED
    BY <2>3, <2>4, <1>1, <1>4
<1> QED
  BY <1>2, <1>3, <1>4

\* A file that has had no update yet is a file with nothing parsed.
LEMMA NewFileLemma == NewFile \in File /\ Coherent(NewFile)
  BY DEF NewFile, File, Provenance, Coherent

\* The type invariant holds: in particular the channel never exceeds its capacity.
THEOREM TypeCorrect == Spec => []TypeOK
<1>1. Init => TypeOK
  <2> SUFFICES ASSUME Init PROVE TypeOK
    OBVIOUS
  <2>1. reader \in ReaderStates
    BY DEF Init, ReaderStates
  <2>2. loop \in LoopStates
    BY DEF Init, LoopStates
  <2>3. updates \in Seq(UpdateEvent) /\ Len(updates) <= ChanCap
    BY ServerAssumption DEF Init
  <2>4. session \in [URI -> Nat]
    BY DEF Init
  <2> QED
    BY <2>1, <2>2, <2>3, <2>4 DEF Init, TypeOK
<1>2. TypeOK /\ [Next]_vars => TypeOK'
  <2> SUFFICES ASSUME TypeOK, [Next]_vars PROVE TypeOK'
    OBVIOUS
  <2> USE DEF TypeOK
  <2>1. CASE HandleInitialize
    BY <2>1 DEF HandleInitialize
  <2>2. CASE HandleInitialized
    BY <2>2 DEF HandleInitialized, LoopStates, Recv
  <2>3. CASE HandleShutdown
    BY <2>3 DEF HandleShutdown
  <2>4. ASSUME NEW u \in URI, NEW v \in Version, NEW c \in Content, HandleDidOpen(u, v, c)
        PROVE  TypeOK'
    <3>1. UpdateFile(NewFile, u, v, c) \in File
      BY NewFileLemma, UpdateFileLemma
    <3>2. [uri |-> u, version |-> v, session |-> session[u] + 1] \in UpdateEvent
      BY DEF UpdateEvent
    <3>3. reader' \in ReaderStates
      BY <2>4, <3>2 DEF HandleDidOpen, Sending, ReaderStates
    <3> QED
      BY <2>4, <3>1, <3>3 DEF HandleDidOpen
  <2>5. ASSUME NEW u \in URI, NEW v \in Version, NEW c \in Content, HandleDidChange(u, v, c)
        PROVE  TypeOK'
    <3>1. files[u] \in File
      BY <2>5 DEF HandleDidChange, HasFile
    <3>2. UpdateFile(files[u], u, v, c) \in File
      BY <3>1, UpdateFileLemma
    <3>3. [uri |-> u, version |-> v, session |-> session[u]] \in UpdateEvent
      BY DEF UpdateEvent
    <3>4. reader' \in ReaderStates
      BY <2>5, <3>3 DEF HandleDidChange, Sending, ReaderStates
    <3> QED
      BY <2>5, <3>2, <3>4 DEF HandleDidChange
  <2>6. ASSUME NEW u \in URI, HandleDidClose(u)
        PROVE  TypeOK'
    BY <2>6 DEF HandleDidClose
  <2>7. ASSUME NEW u \in URI, HandleExecuteCommand(u)
        PROVE  TypeOK'
    BY <2>7 DEF HandleExecuteCommand, ReaderStates, HasFile, File
  <2>8. CASE SendUpdate
    <3>1. reader.item \in UpdateEvent
      BY <2>8 DEF SendUpdate, ReaderStates, Idle
    <3>2. updates' = Append(updates, reader.item) /\ Len(updates) < ChanCap
      BY <2>8 DEF SendUpdate
    <3>3. updates' \in Seq(UpdateEvent) /\ Len(updates') = Len(updates) + 1
      BY <3>1, <3>2
    <3>4. Len(updates') <= ChanCap
      BY <3>2, <3>3, ServerAssumption
    <3>5. reader' \in ReaderStates
      BY <2>8 DEF SendUpdate, ReaderStates
    <3>6. UNCHANGED <<conn, initialized, files, loop, published, session>>
      BY <2>8 DEF SendUpdate
    <3> QED
      BY <3>3, <3>4, <3>5, <3>6
  <2>9. CASE CommandReturns
    BY <2>9 DEF CommandReturns, ReaderStates
  <2>10. CASE LoopReceive
    <3>1. updates # <<>> /\ updates' = Tail(updates)
      BY <2>10 DEF LoopReceive
    <3>2. /\ Head(updates) \in UpdateEvent
          /\ updates' \in Seq(UpdateEvent)
          /\ Len(updates') = Len(updates) - 1
      BY <3>1
    <3>3. Len(updates') <= ChanCap
      BY <3>2, ServerAssumption
    <3>4. loop' \in LoopStates
      BY <2>10, <3>2 DEF LoopReceive, LoopStates
    <3>5. UNCHANGED <<conn, initialized, files, reader, published, session>>
      BY <2>10 DEF LoopReceive
    <3> QED
      BY <3>2, <3>3, <3>4, <3>5
  <2>11. CASE LoopGetFile
    <3>1. loop.item \in UpdateEvent /\ loop.item.uri \in URI
      BY <2>11 DEF LoopGetFile, LoopStates, Off, Recv, UpdateEvent
    <3> QED
      BY <2>11, <3>1 DEF LoopGetFile, LoopStates, HasFile
  <2>12. CASE LoopDiagnose
    <3>1. loop.item \in UpdateEvent /\ loop.file \in File
      BY <2>12 DEF LoopDiagnose, LoopStates, Off, Recv
    <3>2. DiagnosedText(loop.file) \in Provenance
      BY <3>1 DEF DiagnosedText, File
    <3> QED
      BY <2>12, <3>1, <3>2 DEF LoopDiagnose, LoopStates
  <2>13. CASE LoopCheckVersion
    <3>1. loop.item \in UpdateEvent /\ loop.item.uri \in URI /\ loop.of \in Provenance
      BY <2>13 DEF LoopCheckVersion, LoopStates, Off, Recv, UpdateEvent
    <3> QED
      BY <2>13, <3>1 DEF LoopCheckVersion, LoopStates
  <2>14. CASE LoopNotify
    <3>1. /\ loop.item \in UpdateEvent /\ loop.item.uri \in URI /\ loop.item.version \in Version
          /\ loop.of \in Provenance /\ loop.session \in Nat
      BY <2>14 DEF LoopNotify, LoopStates, Off, Recv, UpdateEvent
    <3> QED
      BY <2>14, <3>1 DEF LoopNotify, LoopStates, Publication
  <2>15. CASE Disconnect
    BY <2>15 DEF Disconnect
  <2>16. CASE Exit
    BY <2>16 DEF Exit
  <2>17. CASE UNCHANGED vars
    BY <2>17 DEF vars
  <2> QED
    BY <2>1, <2>2, <2>3, <2>4, <2>5, <2>6, <2>7, <2>8, <2>9, <2>10, <2>11, <2>12, <2>13,
       <2>14, <2>15, <2>16, <2>17 DEF Next, Reader, Loop
<1> QED
  BY <1>1, <1>2, PTL DEF Spec

-----------------------------------------------------------------------------
(* The parse results of a file fit together.                                *)

\* Only three handlers touch the files and the sessions.
LEMMA FilesSteps ==
  ASSUME [Next]_vars
  PROVE  \/ \E u \in URI, v \in Version, c \in Content :
              HandleDidOpen(u, v, c) \/ HandleDidChange(u, v, c)
         \/ \E u \in URI : HandleDidClose(u)
         \/ UNCHANGED <<files, session>>
  BY DEF Next, Reader, Loop, vars, HandleInitialize, HandleInitialized, HandleShutdown,
         HandleExecuteCommand, SendUpdate, CommandReturns, LoopReceive, LoopGetFile,
         LoopDiagnose, LoopCheckVersion, LoopNotify, Disconnect, Exit

\* The parse results of a file that is not skipped are those of its present text.
THEOREM FilesAlwaysCoherent == Spec => []FilesCoherent
<1>1. Init => FilesCoherent
  BY DEF Init, FilesCoherent, HasFile
<1>2. TypeOK /\ FilesCoherent /\ [Next]_vars => FilesCoherent'
  <2> SUFFICES ASSUME TypeOK, FilesCoherent, [Next]_vars,
                      NEW w \in URI, HasFile(w)', ~files'[w].skip
               PROVE  Coherent(files'[w])
    BY DEF FilesCoherent, Coherent
  <2>1. ASSUME NEW u \in URI, NEW v \in Version, NEW c \in Content, HandleDidOpen(u, v, c)
        PROVE  Coherent(files'[w])
    <3>1. files' = [files EXCEPT ![u] = UpdateFile(NewFile, u, v, c)]
      BY <2>1 DEF HandleDidOpen
    <3>2. CASE w = u
      <4>1. files'[w] = UpdateFile(NewFile, u, v, c)
        BY <3>1, <3>2 DEF TypeOK
      <4> QED
        BY <4>1, NewFileLemma, UpdateFileLemma
    <3>3. CASE w # u
      BY <3>1, <3>3 DEF TypeOK, FilesCoherent, HasFile
    <3> QED
      BY <3>2, <3>3
  <2>2. ASSUME NEW u \in URI, NEW v \in Version, NEW c \in Content, HandleDidChange(u, v, c)
        PROVE  Coherent(files'[w])
    <3>1. /\ files' = [files EXCEPT ![u] = UpdateFile(files[u], u, v, c)]
          /\ HasFile(u)
          /\ files[u] \in File
      BY <2>2 DEF HandleDidChange, TypeOK, HasFile
    <3>2. CASE w = u
      <4>1. files'[w] = UpdateFile(files[u], u, v, c)
        BY <3>1, <3>2 DEF TypeOK
      <4>2. files[u].skip \/ Coherent(files[u])
        BY <3>1 DEF FilesCoherent
      <4> QED
        BY <3>1, <4>1, <4>2, UpdateFileLemma
    <3>3. CASE w # u
      BY <3>1, <3>3 DEF TypeOK, FilesCoherent, HasFile
    <3> QED
      BY <3>2, <3>3
  <2>3. ASSUME NEW u \in URI, HandleDidClose(u)
        PROVE  Coherent(files'[w])
    BY <2>3 DEF HandleDidClose, TypeOK, FilesCoherent, HasFile
  <2>4. CASE UNCHANGED <<files, session>>
    BY <2>4 DEF FilesCoherent, HasFile
  <2> QED
    BY <2>1, <2>2, <2>3, <2>4, FilesSteps
<1> QED
  BY <1>1, <1>2, TypeCorrect, PTL DEF Spec

-----------------------------------------------------------------------------
(* Update events are never ahead of their files.                            *)

\* What holds of an event keeps holding, whatever happens to the file.
LEMMA NotAheadStable ==
  ASSUME TypeOK, [Next]_vars, NEW item \in UpdateEvent, NotAhead(item)
  PROVE  NotAhead(item)'
<1> DEFINE w == item.uri
<1>0. w \in URI /\ item.version \in Int /\ item.session \in Nat /\ session[w] \in Nat
  BY FilesAssumption DEF UpdateEvent, TypeOK
<1>1. ASSUME NEW u \in URI, NEW v \in Version, NEW c \in Content, HandleDidOpen(u, v, c)
      PROVE  NotAhead(item)'
  <2>1. CASE w = u
    <3>1. session'[w] = session[w] + 1
      BY <1>0, <1>1, <2>1 DEF HandleDidOpen, TypeOK
    <3> QED
      BY <3>1, <1>0 DEF NotAhead
  <2>2. CASE w # u
    BY <1>0, <1>1, <2>2 DEF HandleDidOpen, NotAhead, HasFile, TypeOK
  <2> QED
    BY <2>1, <2>2
<1>2. ASSUME NEW u \in URI, NEW v \in Version, NEW c \in Content, HandleDidChange(u, v, c)
      PROVE  NotAhead(item)'
  <2>1. /\ files' = [files EXCEPT ![u] = UpdateFile(files[u], u, v, c)]
        /\ HasFile(u)
        /\ files[u] \in File
        /\ session' = session
    BY <1>2 DEF HandleDidChange, TypeOK, HasFile
  <2>2. CASE w = u
    <3>1. /\ files'[w] = UpdateFile(files[u], u, v, c)
          /\ files'[w] \in File
          /\ files'[w].version >= files[w].version
      BY <2>1, <2>2, UpdateFileLemma DEF TypeOK
    <3>2. files[w].version \in Int /\ files'[w].version \in Int
      BY <2>1, <2>2, <3>1, VersionInt
    <3> QED
      BY <1>0, <2>1, <2>2, <3>1, <3>2 DEF NotAhead
  <2>3. CASE w # u
    BY <1>0, <2>1, <2>3 DEF NotAhead, HasFile, TypeOK
  <2> QED
    BY <2>2, <2>3
<1>3. ASSUME NEW u \in URI, HandleDidClose(u)
      PROVE  NotAhead(item)'
  BY <1>0, <1>3 DEF HandleDidClose, NotAhead, HasFile, TypeOK
<1>4. CASE UNCHANGED <<files, session>>
  BY <1>4 DEF NotAhead, HasFile
<1> QED
  BY <1>1, <1>2, <1>3, <1>4, FilesSteps

\* The events on their way are events.
LEMMA InFlightType ==
  ASSUME TypeOK
  PROVE  InFlight \subseteq UpdateEvent
<1>1. reader.pc = "send" => reader.item \in UpdateEvent
  BY DEF TypeOK, ReaderStates, Idle
<1>2. \A i \in DOMAIN updates : updates[i] \in UpdateEvent
  BY DEF TypeOK
<1>3. loop.pc \in {"get", "diagnose", "check", "notify"} => loop.item \in UpdateEvent
  BY DEF TypeOK, LoopStates, Off, Recv
<1> QED
  BY <1>1, <1>2, <1>3 DEF InFlight

\* A step adds at most the event it starts to send to those on their way.
LEMMA InFlightSteps ==
  ASSUME TypeOK, [Next]_vars
  PROVE  \/ InFlight' \subseteq InFlight
         \/ \E u \in URI, v \in Version, c \in Content :
              /\ HandleDidOpen(u, v, c) \/ HandleDidChange(u, v, c)
              /\ InFlight' \subseteq InFlight \union {reader'.item}
<1>1. ASSUME NEW u \in URI, NEW v \in Version, NEW c \in Content,
             HandleDidOpen(u, v, c) \/ HandleDidChange(u, v, c)
      PROVE  InFlight' \subseteq InFlight \union {reader'.item}
  BY <1>1 DEF HandleDidOpen, HandleDidChange, InFlight
<1>2. CASE SendUpdate
  <2>1. /\ updates' = Append(updates, reader.item)
        /\ reader.pc = "send" /\ reader' = Idle
        /\ UNCHANGED loop
        /\ reader.item \in UpdateEvent
    BY <1>2 DEF SendUpdate, TypeOK, ReaderStates, Idle
  <2>2. \A i \in DOMAIN updates' : updates'[i] = reader.item \/
          (i \in DOMAIN updates /\ updates'[i] = updates[i])
    BY <2>1 DEF TypeOK
  <2>3. reader'.pc # "send"
    BY <2>1 DEF Idle
  <2> QED
    BY <2>1, <2>2, <2>3 DEF InFlight
<1>3. CASE LoopReceive
  <2>1. /\ updates # <<>> /\ updates' = Tail(updates)
        /\ loop'.pc = "get" /\ loop'.item = Head(updates)
        /\ UNCHANGED reader
    BY <1>3 DEF LoopReceive
  <2>2. /\ 1 \in DOMAIN updates /\ Head(updates) = updates[1]
        /\ \A i \in DOMAIN updates' : i + 1 \in DOMAIN updates /\ updates'[i] = updates[i + 1]
    BY <2>1 DEF TypeOK
  <2> QED
    BY <2>1, <2>2 DEF InFlight
<1>4. CASE LoopGetFile \/ LoopDiagnose \/ LoopCheckVersion \/ LoopNotify
  <2>1. /\ loop.pc \in {"get", "diagnose", "check", "notify"}
        /\ loop'.pc \in {"diagnose", "check", "notify"} => loop'.item = loop.item
        /\ loop'.pc # "get"
        /\ UNCHANGED <<reader, updates>>
    BY <1>4 DEF LoopGetFile, LoopDiagnose, LoopCheckVersion, LoopNotify, Recv
  <2> QED
    BY <2>1 DEF InFlight
<1>5. CASE HandleInitialized
  BY <1>5 DEF HandleInitialized, InFlight, Off, Recv
<1>6. ASSUME NEW u \in URI, HandleExecuteCommand(u)
      PROVE  InFlight' \subseteq InFlight
  BY <1>6 DEF HandleExecuteCommand, InFlight
<1>7. CASE CommandReturns
  BY <1>7 DEF CommandReturns, InFlight, Idle
<1>8. ASSUME UNCHANGED <<reader, updates, loop>>
      PROVE  InFlight' \subseteq InFlight
  BY <1>8 DEF InFlight
<1>9. CASE HandleInitialize \/ HandleShutdown \/ Disconnect \/ Exit \/ UNCHANGED vars
  BY <1>8, <1>9 DEF HandleInitialize, HandleShutdown, Disconnect, Exit, vars
<1>10. ASSUME NEW u \in URI, HandleDidClose(u)
       PROVE  InFlight' \subseteq InFlight
  BY <1>8, <1>10 DEF HandleDidClose
<1> QED
  BY <1>1, <1>2, <1>3, <1>4, <1>5, <1>6, <1>7, <1>9, <1>10 DEF Next, Reader, Loop

\* No update event is ahead of the file it is about.
THEOREM EventsNeverAhead == Spec => []EventsNotAhead
<1>1. Init => EventsNotAhead
  BY DEF Init, EventsNotAhead, InFlight, Idle, Off
<1>2. TypeOK /\ EventsNotAhead /\ [Next]_vars => EventsNotAhead'
  <2> SUFFICES ASSUME TypeOK, EventsNotAhead, [Next]_vars, NEW item \in InFlight'
               PROVE  NotAhead(item)'
    BY DEF EventsNotAhead
  <2>1. CASE item \in InFlight
    BY <2>1, InFlightType, NotAheadStable DEF EventsNotAhead
  <2>2. ASSUME NEW u \in URI, NEW v \in Version, NEW c \in Content,
               HandleDidOpen(u, v, c), item = reader'.item
        PROVE  NotAhead(item)'
    <3>1. /\ item.uri = u /\ item.version = v /\ item.session = session'[u]
          /\ files'[u] = UpdateFile(NewFile, u, v, c)
          /\ session'[u] \in Nat
      BY <2>2 DEF HandleDidOpen, Sending, TypeOK
    <3>2. files'[u] \in File /\ files'[u].version >= v
      BY <3>1, NewFileLemma, UpdateFileLemma
    <3> QED
      BY <3>1, <3>2, VersionInt, FilesAssumption DEF NotAhead
  <2>3. ASSUME NEW u \in URI, NEW v \in Version, NEW c \in Content,
               HandleDidChange(u, v, c), item = reader'.item
        PROVE  NotAhead(item)'
    <3>1. /\ item.uri = u /\ item.version = v /\ item.session = session'[u]
          /\ files[u] \in File
          /\ files'[u] = UpdateFile(files[u], u, v, c)
          /\ session'[u] \in Nat
      BY <2>3 DEF HandleDidChange, Sending, HasFile, TypeOK
    <3>2. files'[u] \in File /\ files'[u].version >= v
      BY <3>1, UpdateFileLemma
    <3> QED
      BY <3>1, <3>2, VersionInt, FilesAssumption DEF NotAhead
  <2> QED
    BY <2>1, <2>2, <2>3, InFlightSteps
<1> QED
  BY <1>1, <1>2, TypeCorrect, PTL DEF Spec

-----------------------------------------------------------------------------
(* The second look at the file is enough within a session.                  *)

\* While the diagnostics are computed: if the file still has, or has again, the version
\* of the event then it is the copy that is diagnosed, and what passes the check is about
\* the file's text.
InSession(item) == HasFile(item.uri) /\ session[item.uri] = item.session

SnapshotCurrent ==
  /\ loop.pc = "diagnose" =>
       /\ ~loop.file.skip /\ Coherent(loop.file)
       /\ (InSession(loop.item) /\ files[loop.item.uri].version = loop.item.version)
            => loop.file = files[loop.item.uri]
  /\ (loop.pc = "check" /\ InSession(loop.item)
        /\ files[loop.item.uri].version = loop.item.version)
       => loop.of = files[loop.item.uri].content

\* A file that has an event's version in the event's session after a step had it before,
\* and is the same file.
LEMMA SameVersionSameFile ==
  ASSUME TypeOK, [Next]_vars, NEW item \in UpdateEvent, NotAhead(item),
         InSession(item)', files'[item.uri].version = item.version
  PROVE  /\ InSession(item)
         /\ files[item.uri].version = item.version
         /\ files'[item.uri] = files[item.uri]
<1> DEFINE w == item.uri
<1>0. w \in URI /\ item.version \in Int /\ item.session \in Nat /\ session[w] \in Nat
  BY FilesAssumption DEF UpdateEvent, TypeOK
<1>1. ASSUME NEW u \in URI, NEW v \in Version, NEW c \in Content, HandleDidOpen(u, v, c)
      PROVE  w # u /\ files'[w] = files[w] /\ session'[w] = session[w]
  <2>1. CASE w = u
    <3>1. session'[w] = session[w] + 1
      BY <1>0, <1>1, <2>1 DEF HandleDidOpen, TypeOK
    <3>2. session'[w] = item.session /\ item.session <= session[w]
      BY DEF InSession, NotAhead
    <3> QED
      BY <3>1, <3>2, <1>0
  <2> QED
    BY <1>0, <1>1, <2>1 DEF HandleDidOpen, TypeOK
<1>2. ASSUME NEW u \in URI, NEW v \in Version, NEW c \in Content, HandleDidChange(u, v, c)
      PROVE  files'[w] = files[w] /\ session'[w] = session[w]
  <2>1. /\ files' = [files EXCEPT ![u] = UpdateFile(files[u], u, v, c)]
        /\ HasFile(u)
        /\ files[u] \in File
        /\ session' = session
    BY <1>2 DEF HandleDidChange, TypeOK, HasFile
  <2>2. CASE w = u
    <3>1. /\ files'[w] = UpdateFile(files[w], w, v, c)
          /\ files'[w] \in File
          /\ files'[w].version >= files[w].version
          /\ files'[w].version = files[w].version => files'[w] = files[w]
      BY <2>1, <2>2, UpdateFileLemma DEF TypeOK
    <3>2. files[w].version \in Int /\ files'[w].version \in Int
      BY <2>1, <2>2, <3>1, VersionInt
    <3>3. item.version <= files[w].version
      BY <2>1, <2>2 DEF InSession, NotAhead
    <3> QED
      BY <1>0, <2>1, <3>1, <3>2, <3>3
  <2>3. CASE w # u
    BY <1>0, <2>1, <2>3 DEF TypeOK
  <2> QED
    BY <2>2, <2>3
<1>3. ASSUME NEW u \in URI, HandleDidClose(u)
      PROVE  files'[w] = files[w] /\ session'[w] = session[w]
  BY <1>0, <1>3 DEF HandleDidClose, InSession, HasFile, TypeOK
<1>4. files'[w] = files[w] /\ session'[w] = session[w]
  BY <1>1, <1>2, <1>3, FilesSteps
<1> QED
  BY <1>4 DEF InSession, HasFile

\* The copy under diagnosis is the file itself while the file has the event's version.
LEMMA SnapshotAlwaysCurrent == Spec => []SnapshotCurrent
<1>1. Init => SnapshotCurrent
  BY DEF Init, SnapshotCurrent, Off
<1>2. TypeOK /\ FilesCoherent /\ EventsNotAhead /\ SnapshotCurrent /\ [Next]_vars
        => SnapshotCurrent'
  <2> SUFFICES ASSUME TypeOK, FilesCoherent, EventsNotAhead, SnapshotCurrent, [Next]_vars
               PROVE  SnapshotCurrent'
    OBVIOUS
  <2>1. loop.pc \in {"get", "diagnose", "check"} =>
          loop.item \in UpdateEvent /\ NotAhead(loop.item)
    BY InFlightType DEF EventsNotAhead, InFlight
  <2>2. CASE LoopGetFile
    <3>1. /\ loop.pc = "get" /\ UNCHANGED <<files, session>>
          /\ loop' # Recv => /\ loop' = [pc |-> "diagnose", item |-> loop.item,
                                         file |-> files[loop.item.uri]]
                             /\ HasFile(loop.item.uri) /\ ~files[loop.item.uri].skip
      BY <2>2 DEF LoopGetFile
    <3>2. loop.item.uri \in URI
      BY <2>1, <3>1 DEF UpdateEvent
    <3>3. CASE loop' = Recv
      BY <3>3 DEF SnapshotCurrent, Recv
    <3>4. CASE loop' # Recv
      <4>1. Coherent(files[loop.item.uri])
        BY <3>1, <3>2, <3>4 DEF FilesCoherent
      <4>2. Coherent(loop'.file) /\ ~loop'.file.skip
        BY <3>1, <3>4, <4>1
      <4> QED
        BY <3>1, <3>4, <4>2 DEF SnapshotCurrent, InSession, HasFile, Coherent
    <3> QED
      BY <3>3, <3>4
  <2>3. CASE LoopDiagnose
    <3>1. /\ loop.pc = "diagnose" /\ UNCHANGED <<files, session>>
          /\ loop' = [pc |-> "stuck"] \/
             loop' = [pc |-> "check", item |-> loop.item, of |-> DiagnosedText(loop.file)]
      BY <2>3 DEF LoopDiagnose
    <3>2. DiagnosedText(loop.file) = loop.file.content
      BY <3>1 DEF SnapshotCurrent, DiagnosedText, Coherent
    <3> QED
      BY <3>1, <3>2 DEF SnapshotCurrent, InSession, HasFile
  <2>4. CASE UNCHANGED loop
    <3>1. CASE loop.pc \in {"diagnose", "check"}
      <4>1. ASSUME InSession(loop.item)', files'[loop.item.uri].version = loop.item.version
            PROVE  /\ InSession(loop.item) /\ files[loop.item.uri].version = loop.item.version
                   /\ files'[loop.item.uri] = files[loop.item.uri]
        <5>1. InSession(loop.item)' => HasFile(loop.item.uri)' /\ session'[loop.item.uri] = loop.item.session
          BY <2>4 DEF InSession
        <5> QED
          BY <2>1, <2>4, <3>1, <4>1, SameVersionSameFile
      <4> QED
        BY <2>4, <3>1, <4>1 DEF SnapshotCurrent, Coherent
    <3>2. CASE loop.pc \notin {"diagnose", "check"}
      BY <2>4, <3>2 DEF SnapshotCurrent
    <3> QED
      BY <3>1, <3>2
  <2>5. CASE LoopReceive \/ LoopCheckVersion \/ LoopNotify \/ HandleInitialized
    <3>1. loop'.pc \in {"recv", "get", "notify"}
      BY <2>5 DEF LoopReceive, LoopCheckVersion, LoopNotify, HandleInitialized, Recv
    <3> QED
      BY <3>1 DEF SnapshotCurrent
  <2> QED
    BY <2>2, <2>3, <2>4, <2>5 DEF Next, Reader, Loop, vars, HandleInitialize,
       HandleShutdown, HandleDidOpen, HandleDidChange, HandleDidClose,
       HandleExecuteCommand, SendUpdate, CommandReturns, Disconnect, Exit
<1> QED
  BY <1>1, <1>2, TypeCorrect, FilesAlwaysCoherent, EventsNeverAhead, PTL DEF Spec

\* Diagnostics that pass the version check in the session of their event are those of the
\* text the file has at that moment (diagnostics/handler.go:56).
THEOREM CheckedTextAlwaysCurrent == Spec => CheckedTextIsCurrent
<1>1. TypeOK /\ SnapshotCurrent /\ [Next]_vars =>
        ((loop.pc = "check" /\ loop'.pc = "notify") =>
           LET u == loop.item.uri IN
             (HasFile(u) /\ session[u] = loop.item.session) => files[u].content = loop.of)
  <2> SUFFICES ASSUME TypeOK, SnapshotCurrent, [Next]_vars,
                      loop.pc = "check", loop'.pc = "notify",
                      HasFile(loop.item.uri), session[loop.item.uri] = loop.item.session
               PROVE  files[loop.item.uri].content = loop.of
    OBVIOUS
  <2>1. LoopCheckVersion
    BY DEF Next, Reader, Loop, vars, HandleInitialize, HandleInitialized, HandleShutdown,
       HandleDidOpen, HandleDidChange, HandleDidClose, HandleExecuteCommand, SendUpdate,
       CommandReturns, LoopReceive, LoopGetFile, LoopDiagnose, LoopNotify, Disconnect, Exit,
       Off, Recv
  <2>2. Passes(loop.item)
    BY <2>1 DEF LoopCheckVersion, Recv
  <2>3. files[loop.item.uri].version = loop.item.version
    BY <2>2 DEF Passes
  <2> QED
    BY <2>3 DEF SnapshotCurrent, InSession
<1>2. TypeOK /\ SnapshotCurrent /\ [Next]_vars =>
        [(loop.pc = "check" /\ loop'.pc = "notify") =>
           LET u == loop.item.uri IN
             (HasFile(u) /\ session[u] = loop.item.session) => files[u].content = loop.of]_vars
  BY <1>1
<1> QED
  BY <1>2, TypeCorrect, SnapshotAlwaysCurrent, PTL DEF Spec, CheckedTextIsCurrent

-----------------------------------------------------------------------------
(* Publications move forward.                                               *)

\* What was published for a document, and what is about to be, written as events: neither
\* is ahead of the file of its session, and the second is not older than the first.
PublishedEvent(u) ==
  [uri |-> u, version |-> published[u].version, session |-> published[u].session]

CheckedEvent ==
  [uri |-> loop.item.uri, version |-> loop.item.version, session |-> loop.session]

PublishedInOrder ==
  /\ \A u \in URI : HasFile(u) => session[u] > 0
  /\ \A u \in URI : published[u] # None => NotAhead(PublishedEvent(u))
  /\ loop.pc = "notify" =>
       LET p == published[loop.item.uri] IN
         /\ NotAhead(CheckedEvent)
         /\ (p # None /\ loop.session > 0 /\ p.session = loop.session)
              => p.version <= loop.item.version

\* What the loop is about to publish is an event, with the document it is about.
LEMMA CheckedEventType ==
  ASSUME TypeOK, loop.pc = "notify"
  PROVE  /\ CheckedEvent \in UpdateEvent
         /\ loop.item.uri \in URI
         /\ loop.of \in Provenance
<1>1. loop.item \in UpdateEvent /\ loop.session \in Nat /\ loop.of \in Provenance
  BY DEF TypeOK, LoopStates, Off, Recv
<1> QED
  BY <1>1 DEF CheckedEvent, UpdateEvent

\* Only LoopNotify publishes, and only what it has checked.
LEMMA PublishedSteps ==
  ASSUME TypeOK, [Next]_vars
  PROVE  \/ UNCHANGED published
         \/ /\ loop.pc = "notify" /\ loop' = Recv
            /\ UNCHANGED <<files, session>>
            /\ published' = [published EXCEPT ![loop.item.uri] =
                 [version |-> loop.item.version, of |-> loop.of, session |-> loop.session]]
  BY DEF Next, Reader, Loop, vars, HandleInitialize, HandleInitialized, HandleShutdown,
         HandleDidOpen, HandleDidChange, HandleDidClose, HandleExecuteCommand, SendUpdate,
         CommandReturns, LoopReceive, LoopGetFile, LoopDiagnose, LoopCheckVersion,
         LoopNotify, Disconnect, Exit

\* Publications are in order, and what passes the version check keeps them so.
LEMMA PublishedAlwaysInOrder == Spec => []PublishedInOrder
<1>1. Init => PublishedInOrder
  BY DEF Init, PublishedInOrder, HasFile, Off
<1>2. TypeOK /\ PublishedInOrder /\ [Next]_vars => PublishedInOrder'
  <2> SUFFICES ASSUME TypeOK, PublishedInOrder, [Next]_vars
               PROVE  PublishedInOrder'
    OBVIOUS
  <2>1. ASSUME NEW w \in URI, HasFile(w)'
        PROVE  session'[w] > 0
    <3>1. ASSUME NEW u \in URI, NEW v \in Version, NEW c \in Content, HandleDidOpen(u, v, c)
          PROVE  session'[w] > 0
      <4>1. session[u] \in Nat /\ session[w] \in Nat
        BY DEF TypeOK
      <4>2. session' = [session EXCEPT ![u] = session[u] + 1]
        BY <3>1 DEF HandleDidOpen
      <4>3. w # u => HasFile(w)
        BY <2>1, <3>1 DEF HandleDidOpen, HasFile, TypeOK
      <4> QED
        BY <4>1, <4>2, <4>3 DEF PublishedInOrder, TypeOK
    <3>2. ASSUME NEW u \in URI, NEW v \in Version, NEW c \in Content, HandleDidChange(u, v, c)
          PROVE  session'[w] > 0
      <4>1. HasFile(w) /\ session' = session
        BY <2>1, <3>2 DEF HandleDidChange, HasFile, TypeOK
      <4> QED
        BY <4>1 DEF PublishedInOrder
    <3>3. ASSUME NEW u \in URI, HandleDidClose(u)
          PROVE  session'[w] > 0
      <4>1. HasFile(w) /\ session' = session
        BY <2>1, <3>3 DEF HandleDidClose, HasFile, TypeOK
      <4> QED
        BY <4>1 DEF PublishedInOrder
    <3>4. CASE UNCHANGED <<files, session>>
      BY <2>1, <3>4 DEF PublishedInOrder, HasFile
    <3> QED
      BY <3>1, <3>2, <3>3, <3>4, FilesSteps
  <2>2. ASSUME NEW w \in URI, published'[w] # None
        PROVE  NotAhead(PublishedEvent(w))'
    <3>1. CASE published'[w] = published[w]
      <4>1. PublishedEvent(w) \in UpdateEvent /\ NotAhead(PublishedEvent(w))
        BY <2>2, <3>1 DEF PublishedEvent, UpdateEvent, Publication, PublishedInOrder, TypeOK
      <4>2. PICK item \in UpdateEvent : item = PublishedEvent(w)
        BY <4>1
      <4>3. NotAhead(item)'
        BY <4>1, <4>2, NotAheadStable
      <4>4. item = PublishedEvent(w)'
        BY <4>2, <3>1 DEF PublishedEvent
      <4> QED
        BY <4>3, <4>4 DEF NotAhead
    <3>2. CASE published'[w] # published[w]
      <4>1. /\ loop.pc = "notify" /\ w = loop.item.uri
            /\ UNCHANGED <<files, session>>
            /\ published'[w] =
                 [version |-> loop.item.version, of |-> loop.of, session |-> loop.session]
        BY <3>2, PublishedSteps DEF TypeOK
      <4>2. NotAhead(CheckedEvent)
        BY <4>1 DEF PublishedInOrder
      <4> QED
        BY <4>1, <4>2 DEF NotAhead, PublishedEvent, CheckedEvent, HasFile
    <3> QED
      BY <3>1, <3>2
  <2>3. ASSUME loop'.pc = "notify", UNCHANGED loop
        PROVE  LET p == published'[loop'.item.uri] IN
                 /\ NotAhead(CheckedEvent)'
                 /\ (p # None /\ loop'.session > 0 /\ p.session = loop'.session)
                      => p.version <= loop'.item.version
    <3>1. UNCHANGED published
      BY <2>3, PublishedSteps DEF Recv
    <3>2. CheckedEvent \in UpdateEvent /\ NotAhead(CheckedEvent)
      BY <2>3, CheckedEventType DEF PublishedInOrder
    <3>3. PICK item \in UpdateEvent : item = CheckedEvent
      BY <3>2
    <3>4. NotAhead(item)'
      BY <3>2, <3>3, NotAheadStable
    <3>5. item = CheckedEvent'
      BY <2>3, <3>3 DEF CheckedEvent
    <3>6. NotAhead(CheckedEvent)'
      BY <3>4, <3>5 DEF NotAhead
    <3> QED
      BY <2>3, <3>1, <3>6 DEF PublishedInOrder
  <2>4. ASSUME loop'.pc = "notify", loop' # loop
        PROVE  LET p == published'[loop'.item.uri] IN
                 /\ NotAhead(CheckedEvent)'
                 /\ (p # None /\ loop'.session > 0 /\ p.session = loop'.session)
                      => p.version <= loop'.item.version
    <3>1. LoopCheckVersion
      BY <2>4 DEF Next, Reader, Loop, vars, HandleInitialize, HandleInitialized,
         HandleShutdown, HandleDidOpen, HandleDidChange, HandleDidClose,
         HandleExecuteCommand, SendUpdate, CommandReturns, LoopReceive, LoopGetFile,
         LoopDiagnose, LoopNotify, Disconnect, Exit, Recv
    <3> DEFINE u == loop.item.uri
    <3>2. /\ UNCHANGED <<files, session, published>>
          /\ Passes(loop.item)
          /\ loop'.item = loop.item
          /\ loop'.session = IF HasFile(u) THEN session[u] ELSE 0
      BY <2>4, <3>1 DEF LoopCheckVersion, Recv
    <3>3. u \in URI /\ session[u] \in Nat /\ loop.item.version \in Int
      <4>1. loop.item \in UpdateEvent
        BY <3>1 DEF LoopCheckVersion, TypeOK, LoopStates, Off, Recv
      <4> QED
        BY <4>1, FilesAssumption DEF UpdateEvent, TypeOK
    <3>4. CASE HasFile(u)
      <4>1. files[u].version = loop.item.version
        BY <3>2, <3>4 DEF Passes
      <4>2. published[u] # None /\ published[u].session = session[u]
              => published[u].version <= loop.item.version
        BY <3>3, <3>4, <4>1 DEF PublishedInOrder, NotAhead, PublishedEvent
      <4>3. NotAhead(CheckedEvent)'
        BY <3>2, <3>3, <3>4, <4>1 DEF NotAhead, CheckedEvent, HasFile
      <4> QED
        BY <3>2, <3>4, <4>2, <4>3
    <3>5. CASE ~HasFile(u)
      <4>1. loop'.session = 0 /\ ~HasFile(u)'
        BY <3>2, <3>5 DEF HasFile
      <4>2. NotAhead(CheckedEvent)'
        BY <3>2, <3>3, <4>1 DEF NotAhead, CheckedEvent, HasFile
      <4> QED
        BY <4>1, <4>2
    <3> QED
      BY <3>4, <3>5
  <2> QED
    BY <2>1, <2>2, <2>3, <2>4 DEF PublishedInOrder
<1> QED
  BY <1>1, <1>2, TypeCorrect, PTL DEF Spec

\* Within one session of a document the client never gets diagnostics for an older version
\* after those for a newer one.
THEOREM PublicationsAlwaysForward == Spec => PublicationsMoveForward
<1> DEFINE Forward ==
      \A u \in URI :
        published[u] # None /\ published'[u] # None
          /\ published'[u].session = published[u].session /\ published[u].session > 0
        => published'[u].version >= published[u].version
<1>1. TypeOK /\ PublishedInOrder /\ [Next]_vars => Forward
  <2> SUFFICES ASSUME TypeOK, PublishedInOrder, [Next]_vars, NEW u \in URI,
                      published[u] # None, published'[u] # None,
                      published'[u].session = published[u].session,
                      published[u].session > 0
               PROVE  published'[u].version >= published[u].version
    OBVIOUS
  <2>0. published[u].version \in Int
    BY FilesAssumption DEF TypeOK, Publication
  <2>1. CASE published'[u] = published[u]
    BY <2>0, <2>1
  <2>2. CASE published'[u] # published[u]
    <3>1. /\ loop.pc = "notify" /\ u = loop.item.uri
          /\ published'[u] =
               [version |-> loop.item.version, of |-> loop.of, session |-> loop.session]
      BY <2>2, PublishedSteps DEF TypeOK
    <3>2. loop.item.version \in Int
      BY <3>1, CheckedEventType, FilesAssumption DEF CheckedEvent, UpdateEvent
    <3>3. loop.session > 0 /\ published[u].session = loop.session
      BY <3>1
    <3>4. published[u].version <= loop.item.version
      BY <3>1, <3>3 DEF PublishedInOrder
    <3> QED
      BY <2>0, <3>1, <3>2, <3>4
  <2> QED
    BY <2>1, <2>2
<1>2. TypeOK /\ PublishedInOrder /\ [Next]_vars => [Forward]_vars
  BY <1>1
<1> QED
  BY <1>2, TypeCorrect, PublishedAlwaysInOrder, PTL DEF Spec, PublicationsMoveForward

-----------------------------------------------------------------------------
(* No update is lost: when everything is handled, an open document shows    *)
(* the diagnostics of its present text.  For any number of sessions, of an  *)
(* editor that keeps to the handshake and numbers its versions from 0 or 1. *)

Conforming == Handshake /\ Version \subseteq Nat

AtLoop == loop.pc \in {"get", "diagnose", "check", "notify"}

\* The event whose diagnosis the document waits for.
Expects(item, u) ==
  item.uri = u /\ item.session = session[u] /\ item.version = files[u].version

Expected(u) == \E item \in InFlight : Expects(item, u)

\* The client has the diagnostics of the present text, and no event that is still on its
\* way can replace them by others: none is of an earlier session, and what has passed the
\* version check is of this version.
Settled(u) ==
  /\ \A item \in InFlight : item.uri = u => item.session = session[u]
  /\ (loop.pc = "notify" /\ loop.item.uri = u) => loop.item.version = files[u].version

Diagnosed(u) ==
  /\ published[u] # None
  /\ published[u].of = files[u].content
  /\ published[u].version = files[u].version
  /\ Settled(u)

NoUpdateLost ==
  conn = "open" /\ loop.pc # "stuck" =>
    \A u \in URI : HasFile(u) /\ ~files[u].skip => Expected(u) \/ Diagnosed(u)

\* Events stay in the order of the sessions they were sent in.
SenderCurrent == reader.pc = "send" => reader.item.session = session[reader.item.uri]

ChannelInOrder ==
  \A i, j \in DOMAIN updates :
    i < j /\ updates[i].uri = updates[j].uri => updates[i].session <= updates[j].session

LoopFirst ==
  AtLoop => \A i \in DOMAIN updates :
    updates[i].uri = loop.item.uri => loop.item.session <= updates[i].session

\* What is about to be published for a version in its session is about its text.
NotifyCurrent ==
  (loop.pc = "notify" /\ InSession(loop.item)
     /\ files[loop.item.uri].version = loop.item.version)
    => loop.of = files[loop.item.uri].content

DocumentsAfterHandshake == \A u \in URI : HasFile(u) => initialized

InOrder == SenderCurrent /\ ChannelInOrder /\ LoopFirst

\* What is known already of every reachable state.
Known == TypeOK /\ FilesCoherent /\ EventsNotAhead /\ SnapshotCurrent

IInv == Conforming /\ InOrder /\ NotifyCurrent /\ DocumentsAfterHandshake /\ NoUpdateLost

-----------------------------------------------------------------------------
(* What the goroutines hold.                                                *)

LEMMA ReaderItem ==
  ASSUME TypeOK, reader.pc = "send"
  PROVE  reader.item \in UpdateEvent
BY DEF TypeOK, ReaderStates, Idle

LEMMA LoopItem ==
  ASSUME TypeOK, AtLoop
  PROVE  loop.item \in UpdateEvent /\ loop.item.uri \in URI
BY DEF TypeOK, LoopStates, Off, Recv, AtLoop, UpdateEvent

\* The events that can follow the one at the loop are of its session or a later one.
LEMMA LaterSessions ==
  ASSUME TypeOK, EventsNotAhead, InOrder, AtLoop, loop.item.session = session[loop.item.uri],
         NEW item \in InFlight, item.uri = loop.item.uri
  PROVE  item.session = session[item.uri]
<1>1. item \in UpdateEvent /\ item.session \in Nat /\ session[item.uri] \in Nat
  BY InFlightType DEF UpdateEvent, TypeOK
<1>2. item.session <= session[item.uri]
  BY DEF EventsNotAhead, NotAhead
<1>3. CASE reader.pc = "send" /\ item = reader.item
  BY <1>3 DEF InOrder, SenderCurrent
<1>4. CASE \E i \in DOMAIN updates : item = updates[i]
  BY <1>1, <1>2, <1>4 DEF InOrder, LoopFirst
<1>5. CASE item = loop.item
  BY <1>5
<1> QED
  BY <1>3, <1>4, <1>5 DEF InFlight

-----------------------------------------------------------------------------
(* Events in order.                                                         *)

LEMMA InOrderStep ==
  ASSUME TypeOK, EventsNotAhead, InOrder, [Next]_vars
  PROVE  InOrder'
<1> USE DEF InOrder
<1>1. ASSUME NEW u \in URI, NEW v \in Version, NEW c \in Content,
             HandleDidOpen(u, v, c) \/ HandleDidChange(u, v, c)
      PROVE  InOrder'
  <2>1. /\ UNCHANGED <<updates, loop>>
        /\ reader'.item.uri = u /\ reader'.item.session = session'[u]
    BY <1>1 DEF HandleDidOpen, HandleDidChange, Sending, TypeOK
  <2> QED
    BY <2>1 DEF SenderCurrent, ChannelInOrder, LoopFirst, AtLoop
<1>2. CASE SendUpdate
  <2>1. /\ updates' = Append(updates, reader.item) /\ reader'.pc # "send"
        /\ UNCHANGED <<loop, session>>
        /\ updates \in Seq(UpdateEvent) /\ reader.item \in UpdateEvent /\ reader.pc = "send"
    BY <1>2, ReaderItem DEF SendUpdate, Idle, TypeOK
  <2>2. ASSUME NEW item \in InFlight, item.uri = reader.item.uri
        PROVE  item.session <= reader.item.session
    BY <2>1, <2>2 DEF EventsNotAhead, NotAhead, SenderCurrent
  <2>3. /\ DOMAIN updates' = 1..Len(updates) + 1 /\ DOMAIN updates = 1..Len(updates)
        /\ \A i \in DOMAIN updates : updates'[i] = updates[i]
        /\ updates'[Len(updates) + 1] = reader.item
    BY <2>1
  <2>4. \A i \in DOMAIN updates : updates[i] \in InFlight
    BY DEF InFlight
  <2>5. AtLoop => loop.item \in InFlight
    BY DEF AtLoop, InFlight
  <2>6. ChannelInOrder'
    <3> SUFFICES ASSUME NEW i \in DOMAIN updates', NEW j \in DOMAIN updates', i < j,
                        updates'[i].uri = updates'[j].uri
                 PROVE  updates'[i].session <= updates'[j].session
      BY DEF ChannelInOrder
    <3>1. CASE j \in DOMAIN updates
      <4>1. i \in DOMAIN updates
        BY <2>3, <3>1
      <4> QED
        BY <2>3, <3>1, <4>1 DEF ChannelInOrder
    <3>2. CASE j \notin DOMAIN updates
      <4>1. i \in DOMAIN updates /\ updates'[j] = reader.item
        BY <2>1, <2>3, <3>2
      <4> QED
        BY <2>2, <2>3, <2>4, <4>1
    <3> QED
      BY <3>1, <3>2
  <2>7. LoopFirst'
    <3> SUFFICES ASSUME AtLoop, NEW i \in DOMAIN updates', updates'[i].uri = loop.item.uri
                 PROVE  loop.item.session <= updates'[i].session
      BY <2>1 DEF LoopFirst, AtLoop
    <3>1. CASE i \in DOMAIN updates
      BY <2>3, <3>1 DEF LoopFirst
    <3>2. CASE i \notin DOMAIN updates
      <4>1. updates'[i] = reader.item
        BY <2>1, <2>3, <3>2
      <4> QED
        BY <2>2, <2>5, <4>1
    <3> QED
      BY <3>1, <3>2
  <2>8. SenderCurrent'
    BY <2>1 DEF SenderCurrent
  <2> QED
    BY <2>6, <2>7, <2>8
<1>3. CASE LoopReceive
  <2>1. /\ updates # <<>> /\ updates' = Tail(updates) /\ updates \in Seq(UpdateEvent)
        /\ loop'.pc = "get" /\ loop'.item = updates[1]
        /\ UNCHANGED <<reader, session>>
    BY <1>3 DEF LoopReceive, TypeOK
  <2>2. /\ 1 \in DOMAIN updates
        /\ \A i \in DOMAIN updates' :
             i \in Nat /\ i >= 1 /\ i + 1 \in DOMAIN updates /\ updates'[i] = updates[i + 1]
    BY <2>1
  <2>3. ChannelInOrder'
    <3> SUFFICES ASSUME NEW i \in DOMAIN updates', NEW j \in DOMAIN updates', i < j,
                        updates'[i].uri = updates'[j].uri
                 PROVE  updates'[i].session <= updates'[j].session
      BY DEF ChannelInOrder
    <3>1. i + 1 < j + 1 /\ i + 1 \in DOMAIN updates /\ j + 1 \in DOMAIN updates
      BY <2>2
    <3> QED
      BY <2>2, <3>1 DEF ChannelInOrder
  <2>4. LoopFirst'
    <3> SUFFICES ASSUME NEW i \in DOMAIN updates', updates'[i].uri = updates[1].uri
                 PROVE  updates[1].session <= updates'[i].session
      BY <2>1 DEF LoopFirst
    <3>1. 1 < i + 1
      BY <2>2
    <3> QED
      BY <2>2, <3>1 DEF ChannelInOrder
  <2>5. SenderCurrent'
    BY <2>1 DEF SenderCurrent
  <2> QED
    BY <2>3, <2>4, <2>5
<1>4. CASE LoopGetFile \/ LoopDiagnose \/ LoopCheckVersion \/ LoopNotify
  <2>1. /\ AtLoop
        /\ AtLoop' => loop'.item = loop.item
        /\ UNCHANGED <<reader, updates, session>>
    BY <1>4 DEF LoopGetFile, LoopDiagnose, LoopCheckVersion, LoopNotify, AtLoop, Recv
  <2> QED
    BY <2>1 DEF SenderCurrent, ChannelInOrder, LoopFirst
<1>5. CASE HandleInitialized
  BY <1>5 DEF HandleInitialized, SenderCurrent, ChannelInOrder, LoopFirst, AtLoop, Recv
<1>6. CASE CommandReturns
  BY <1>6 DEF CommandReturns, SenderCurrent, ChannelInOrder, LoopFirst, AtLoop, Idle
<1>7. ASSUME NEW u \in URI, HandleDidClose(u) \/ HandleExecuteCommand(u)
      PROVE  InOrder'
  BY <1>7 DEF HandleDidClose, HandleExecuteCommand, SenderCurrent, ChannelInOrder, LoopFirst, AtLoop
<1>8. CASE UNCHANGED <<reader, updates, loop, session>>
  BY <1>8 DEF SenderCurrent, ChannelInOrder, LoopFirst, AtLoop
<1> QED
  BY <1>1, <1>2, <1>3, <1>4, <1>5, <1>6, <1>7, <1>8
     DEF Next, Reader, Loop, vars, HandleInitialize, HandleShutdown, Disconnect, Exit

-----------------------------------------------------------------------------
(* What passes the check stays about its text.                              *)

LEMMA NotifyStep ==
  ASSUME Known, NotifyCurrent, [Next]_vars
  PROVE  NotifyCurrent'
<1> USE DEF Known
<1>1. CASE UNCHANGED loop
  <2> SUFFICES ASSUME loop.pc = "notify", InSession(loop.item)',
                      files'[loop.item.uri].version = loop.item.version
               PROVE  loop.of = files'[loop.item.uri].content
    BY <1>1 DEF NotifyCurrent, InSession
  <2>1. loop.item \in UpdateEvent /\ NotAhead(loop.item)
    BY LoopItem DEF AtLoop, EventsNotAhead, InFlight
  <2>2. PICK item \in UpdateEvent : item = loop.item
    BY <2>1
  <2>3. InSession(item)'
    BY <1>1, <2>2 DEF InSession
  <2>4. /\ InSession(item) /\ files[item.uri].version = item.version
        /\ files'[item.uri] = files[item.uri]
    BY <2>1, <2>2, <2>3, SameVersionSameFile
  <2> QED
    BY <2>2, <2>4 DEF NotifyCurrent
<1>2. CASE LoopCheckVersion
  BY <1>2 DEF LoopCheckVersion, NotifyCurrent, SnapshotCurrent, InSession, HasFile, Recv
<1>3. CASE LoopReceive \/ LoopGetFile \/ LoopDiagnose \/ LoopNotify \/ HandleInitialized
  <2>1. loop'.pc # "notify"
    BY <1>3 DEF LoopReceive, LoopGetFile, LoopDiagnose, LoopNotify, HandleInitialized, Recv
  <2> QED
    BY <2>1 DEF NotifyCurrent
<1> QED
  BY <1>1, <1>2, <1>3 DEF Next, Reader, Loop, vars, HandleInitialize,
     HandleShutdown, HandleDidOpen, HandleDidChange, HandleDidClose,
     HandleExecuteCommand, SendUpdate, CommandReturns, Disconnect, Exit

LEMMA HandshakeStep ==
  ASSUME TypeOK, Conforming, DocumentsAfterHandshake, [Next]_vars
  PROVE  DocumentsAfterHandshake'
<1>1. initialized => initialized'
  BY DEF Next, Reader, Loop, vars, HandleInitialize, HandleInitialized, HandleShutdown,
         HandleDidOpen, HandleDidChange, HandleDidClose, HandleExecuteCommand, SendUpdate,
         CommandReturns, LoopReceive, LoopGetFile, LoopDiagnose, LoopCheckVersion,
         LoopNotify, Disconnect, Exit
<1>2. ASSUME NEW u \in URI, NEW v \in Version, NEW c \in Content,
             HandleDidOpen(u, v, c) \/ HandleDidChange(u, v, c)
      PROVE  initialized
  BY <1>2 DEF HandleDidOpen, HandleDidChange, ReadsDocumentMessage, Conforming
<1>3. ASSUME NEW u \in URI, HandleDidClose(u)
      PROVE  initialized
  BY <1>3 DEF HandleDidClose, ReadsDocumentMessage, Conforming
<1>4. CASE UNCHANGED <<files, session>>
  BY <1>1, <1>4 DEF DocumentsAfterHandshake, HasFile
<1> QED
  BY <1>1, <1>2, <1>3, <1>4, FilesSteps DEF DocumentsAfterHandshake

-----------------------------------------------------------------------------
(* No update is lost.                                                       *)

\* The steps that move an event on or leave it where it is.
LEMMA InFlightKept ==
  ASSUME TypeOK,
         \/ SendUpdate \/ LoopReceive \/ HandleInitialize \/ HandleInitialized
         \/ CommandReturns \/ UNCHANGED vars
         \/ \E u \in URI : HandleDidClose(u) \/ HandleExecuteCommand(u)
  PROVE  InFlight' = InFlight
<1>1. CASE SendUpdate
  <2>1. /\ updates' = Append(updates, reader.item) /\ reader.pc = "send" /\ reader'.pc # "send"
        /\ UNCHANGED loop
        /\ updates \in Seq(UpdateEvent) /\ reader.item \in UpdateEvent
    BY <1>1, ReaderItem DEF SendUpdate, Idle, TypeOK
  <2>2. /\ DOMAIN updates' = 1..Len(updates) + 1 /\ DOMAIN updates = 1..Len(updates)
        /\ \A i \in DOMAIN updates : updates'[i] = updates[i]
        /\ updates'[Len(updates) + 1] = reader.item
    BY <2>1
  <2>3. {updates'[i] : i \in DOMAIN updates'} = {updates[i] : i \in DOMAIN updates} \union {reader.item}
    <3>1. Len(updates) \in Nat
      BY <2>1
    <3>2. DOMAIN updates' = DOMAIN updates \union {Len(updates) + 1}
      BY <2>2, <3>1
    <3> QED
      BY <2>2, <3>2
  <2> QED
    BY <2>1, <2>3 DEF InFlight
<1>2. CASE LoopReceive
  <2>1. /\ updates # <<>> /\ updates' = Tail(updates) /\ updates \in Seq(UpdateEvent)
        /\ loop = Recv /\ loop'.pc = "get" /\ loop'.item = updates[1]
        /\ UNCHANGED reader
    BY <1>2 DEF LoopReceive, TypeOK
  <2>2. /\ 1 \in DOMAIN updates
        /\ \A i \in DOMAIN updates' : i + 1 \in DOMAIN updates /\ updates'[i] = updates[i + 1]
        /\ \A i \in DOMAIN updates : i = 1 \/ (i - 1 \in DOMAIN updates' /\ updates'[i - 1] = updates[i])
    BY <2>1
  <2>3. {updates'[i] : i \in DOMAIN updates'} \union {updates[1]} = {updates[i] : i \in DOMAIN updates}
    BY <2>2
  <2> QED
    BY <2>1, <2>3 DEF InFlight, Recv
<1>3. CASE HandleInitialized
  BY <1>3 DEF HandleInitialized, InFlight, Off, Recv
<1>4. CASE CommandReturns
  BY <1>4 DEF CommandReturns, InFlight, Idle
<1>5. ASSUME NEW u \in URI, HandleDidClose(u) \/ HandleExecuteCommand(u)
      PROVE  InFlight' = InFlight
  BY <1>5 DEF HandleDidClose, HandleExecuteCommand, Reads, ReadsDocumentMessage, Idle, InFlight
<1>6. CASE HandleInitialize \/ UNCHANGED vars
  BY <1>6 DEF HandleInitialize, vars, InFlight
<1> QED
  BY <1>1, <1>2, <1>3, <1>4, <1>5, <1>6

\* A step that loses no event a document waits for, and publishes nothing for it.
LEMMA DocumentKept ==
  ASSUME NEW u \in URI, Expected(u) \/ Diagnosed(u),
         files'[u] = files[u], session'[u] = session[u], published'[u] = published[u],
         InFlight' \subseteq InFlight,
         \A item \in InFlight : Expects(item, u) => item \in InFlight',
         (loop'.pc = "notify" /\ loop'.item.uri = u)
           => loop' = loop \/ loop'.item.version = files[u].version
  PROVE  (Expected(u) \/ Diagnosed(u))'
<1>1. CASE Expected(u)
  BY <1>1 DEF Expected, Expects
<1>2. CASE Diagnosed(u)
  BY <1>2 DEF Diagnosed, Settled
<1> QED
  BY <1>1, <1>2

\* A new text is waited for; a text that is not newer changes nothing.
LEMMA TextStep ==
  ASSUME Known, Conforming, NEW u \in URI, NEW v \in Version, NEW c \in Content,
         HandleDidOpen(u, v, c) \/ HandleDidChange(u, v, c),
         NEW w \in URI, HasFile(w)', ~files'[w].skip,
         HasFile(w) /\ ~files[w].skip => Expected(w) \/ Diagnosed(w)
  PROVE  (Expected(w) \/ Diagnosed(w))'
<1> USE DEF Known
<1>1. /\ UNCHANGED <<updates, loop, published>>
      /\ reader = Idle
      /\ reader' = Sending(u, v, session'[u])
      /\ session' = session \/ session' = [session EXCEPT ![u] = @ + 1]
  BY DEF HandleDidOpen, HandleDidChange, ReadsDocumentMessage, Reads, TypeOK
<1>2. /\ InFlight' = InFlight \union {reader'.item}
      /\ reader'.item = [uri |-> u, version |-> v, session |-> session'[u]]
  BY <1>1 DEF InFlight, Sending, Idle
<1>3. CASE w # u
  <2>1. files'[w] = files[w] /\ session'[w] = session[w]
    BY <1>1, <1>3 DEF HandleDidOpen, HandleDidChange, TypeOK
  <2>2. Expected(w) \/ Diagnosed(w)
    BY <2>1 DEF HasFile
  <2>3. CASE Expected(w)
    BY <1>2, <2>1, <2>3 DEF Expected, Expects
  <2>4. CASE Diagnosed(w)
    <3>1. Settled(w)'
      BY <1>1, <1>2, <1>3, <2>1, <2>4 DEF Diagnosed, Settled
    <3> QED
      BY <1>1, <2>1, <2>4, <3>1 DEF Diagnosed
  <2> QED
    BY <2>2, <2>3, <2>4
<1>4. CASE w = u /\ files'[u].version = v
  <2>1. Expects(reader.item, u)'
    BY <1>2, <1>4 DEF Expects
  <2> QED
    BY <1>2, <1>4, <2>1 DEF Expected, Expects
<1>5. CASE w = u /\ files'[u].version # v
  <2>1. HandleDidChange(u, v, c) /\ HasFile(u) /\ files'[u] = files[u] /\ session' = session
    <3>1. CASE HandleDidOpen(u, v, c)
      <4>1. files'[u] = UpdateFile(NewFile, u, v, c) /\ v > NewFile.version
        BY <3>1, FilesAssumption DEF HandleDidOpen, TypeOK, Conforming, NewFile
      <4>2. files'[u].version = v
        BY <4>1 DEF UpdateFile, Update, UpdateSkipped, ShouldUpdate, NewFile
      <4> QED
        BY <1>5, <4>2
    <3>2. CASE HandleDidChange(u, v, c)
      <4>1. files'[u] = UpdateFile(files[u], u, v, c) /\ files[u] \in File /\ session' = session
        BY <3>2 DEF HandleDidChange, HasFile, TypeOK
      <4>2. ~(v > files[u].version)
        BY <1>5, <4>1 DEF UpdateFile, Update, UpdateSkipped, ShouldUpdate, File
      <4> QED
        BY <3>2, <4>1, <4>2 DEF UpdateFile, Update, UpdateSkipped, ShouldUpdate, HandleDidChange
    <3> QED
      BY <3>1, <3>2
  <2>2. Expected(u) \/ Diagnosed(u)
    BY <1>5, <2>1
  <2>3. CASE Expected(u)
    BY <1>2, <1>5, <2>1, <2>3 DEF Expected, Expects
  <2>4. CASE Diagnosed(u)
    <3>1. Settled(u)'
      BY <1>1, <1>2, <2>1, <2>4 DEF Diagnosed, Settled
    <3> QED
      BY <1>1, <1>5, <2>1, <2>4, <3>1 DEF Diagnosed
  <2> QED
    BY <2>2, <2>3, <2>4
<1> QED
  BY <1>3, <1>4, <1>5

\* What the loop drops or passes on is dropped for good reason.
LEMMA LoopKeeps ==
  ASSUME Known, LoopGetFile \/ LoopDiagnose \/ LoopCheckVersion, loop'.pc # "stuck",
         NEW u \in URI, HasFile(u), ~files[u].skip, Expected(u) \/ Diagnosed(u)
  PROVE  (Expected(u) \/ Diagnosed(u))'
<1> USE DEF Known
<1>1. AtLoop /\ UNCHANGED <<files, session, published, reader, updates>>
  BY DEF LoopGetFile, LoopDiagnose, LoopCheckVersion, AtLoop
<1>2. /\ loop' = Recv \/ (loop'.pc \in {"diagnose", "check", "notify"} /\ loop'.item = loop.item)
      /\ loop' = Recv => ~Expects(loop.item, u)
      /\ (loop'.pc = "notify" /\ loop'.item.uri = u) => loop'.item.version = files[u].version
  <2>1. CASE LoopGetFile
    BY <2>1 DEF LoopGetFile, Expects, Recv
  <2>2. CASE LoopDiagnose
    BY <2>2 DEF LoopDiagnose, Recv
  <2>3. CASE LoopCheckVersion
    BY <2>3 DEF LoopCheckVersion, Passes, Expects, Recv
  <2> QED
    BY <2>1, <2>2, <2>3
<1>3. InFlight' \subseteq InFlight /\ \A item \in InFlight : Expects(item, u) => item \in InFlight'
  BY <1>1, <1>2 DEF InFlight, AtLoop, Recv
<1> QED
  BY <1>1, <1>2, <1>3, DocumentKept

\* The event that was waited for is published, or another document's.
LEMMA NotifyKeeps ==
  ASSUME Known, InOrder, NotifyCurrent, DocumentsAfterHandshake, LoopNotify, conn = "open",
         NEW u \in URI, HasFile(u), Expected(u) \/ Diagnosed(u)
  PROVE  (Expected(u) \/ Diagnosed(u))'
<1> USE DEF Known
<1> DEFINE p == [version |-> loop.item.version, of |-> loop.of, session |-> loop.session]
<1>1. /\ loop.pc = "notify" /\ loop' = Recv /\ AtLoop
      /\ UNCHANGED <<files, session, reader, updates>>
      /\ published' = [published EXCEPT ![loop.item.uri] = p]
  BY DEF LoopNotify, DocumentsAfterHandshake, AtLoop
<1>2. InFlight' \subseteq InFlight /\ \A item \in InFlight : item = loop.item \/ item \in InFlight'
  BY <1>1 DEF InFlight, Recv
<1>3. CASE loop.item.uri # u
  <2>1. published'[u] = published[u]
    BY <1>1, <1>3 DEF TypeOK
  <2> QED
    BY <1>1, <1>2, <1>3, <2>1, DocumentKept DEF Expects, Recv
<1>4. CASE \E item \in InFlight : Expects(item, u) /\ item # loop.item
  BY <1>1, <1>2, <1>4 DEF Expected, Expects
<1>5. ASSUME loop.item.uri = u, loop.item.session = session[u],
             loop.item.version = files[u].version
      PROVE  Diagnosed(u)'
  <2>1. published'[u] = p
    BY <1>1, <1>5 DEF TypeOK
  <2>2. p # None
    <3>1. p \in Publication
      BY <1>1, LoopItem, CheckedEventType DEF CheckedEvent, UpdateEvent, Publication
    <3> QED
      BY <3>1, PublicationAssumption
  <2>3. p.of = files[u].content
    BY <1>1, <1>5 DEF NotifyCurrent, InSession
  <2>4. \A item \in InFlight : item.uri = u => item.session = session[u]
    BY <1>1, <1>5, LaterSessions
  <2>5. Settled(u)'
    BY <1>1, <1>2, <2>4 DEF Settled, Recv
  <2> QED
    BY <1>1, <1>5, <2>1, <2>2, <2>3, <2>5 DEF Diagnosed
<1>6. CASE Expects(loop.item, u)
  BY <1>5, <1>6 DEF Expects
<1>7. CASE Diagnosed(u) /\ loop.item.uri = u
  <2>1. loop.item \in InFlight
    BY <1>1 DEF InFlight
  <2> QED
    BY <1>1, <1>5, <1>7, <2>1 DEF Diagnosed, Settled
<1> QED
  BY <1>3, <1>4, <1>6, <1>7 DEF Expected

LEMMA NoUpdateLostStep ==
  ASSUME Known, IInv, [Next]_vars
  PROVE  NoUpdateLost'
<1> USE DEF Known, IInv
<1> SUFFICES ASSUME conn' = "open", loop'.pc # "stuck", NEW u \in URI, HasFile(u)', ~files'[u].skip
             PROVE  (Expected(u) \/ Diagnosed(u))'
  BY DEF NoUpdateLost
<1>1. conn = "open" /\ loop.pc # "stuck"
  BY DEF Next, Reader, Loop, vars, HandleInitialize, HandleInitialized, HandleShutdown,
         HandleDidOpen, HandleDidChange, HandleDidClose, HandleExecuteCommand, SendUpdate,
         CommandReturns, LoopReceive, LoopGetFile, LoopDiagnose, LoopCheckVersion,
         LoopNotify, Disconnect, Exit, Off, Recv, Reads, ReadsDocumentMessage
<1>2. HasFile(u) /\ ~files[u].skip => Expected(u) \/ Diagnosed(u)
  BY <1>1 DEF NoUpdateLost
<1>3. ASSUME NEW w \in URI, NEW v \in Version, NEW c \in Content,
             HandleDidOpen(w, v, c) \/ HandleDidChange(w, v, c)
      PROVE  (Expected(u) \/ Diagnosed(u))'
  BY <1>2, <1>3, TextStep
<1>4. CASE \/ SendUpdate \/ LoopReceive \/ HandleInitialize \/ HandleInitialized
           \/ CommandReturns \/ UNCHANGED vars
           \/ \E w \in URI : HandleDidClose(w) \/ HandleExecuteCommand(w)
  <2>1. InFlight' = InFlight
    BY <1>4, InFlightKept
  <2>2. files'[u] = files[u] /\ session' = session /\ published' = published
    BY <1>4 DEF SendUpdate, LoopReceive, HandleInitialize, HandleInitialized, CommandReturns,
       vars, HandleDidClose, HandleExecuteCommand, HasFile, TypeOK
  <2>3. loop'.pc = "notify" => loop' = loop
    BY <1>4 DEF SendUpdate, LoopReceive, HandleInitialize, HandleInitialized, CommandReturns,
       vars, HandleDidClose, HandleExecuteCommand, Recv
  <2>4. Expected(u) \/ Diagnosed(u)
    BY <1>2, <2>2 DEF HasFile
  <2> QED
    BY <2>1, <2>2, <2>3, <2>4, DocumentKept
<1>5. CASE LoopGetFile \/ LoopDiagnose \/ LoopCheckVersion
  <2>1. files' = files
    BY <1>5 DEF LoopGetFile, LoopDiagnose, LoopCheckVersion
  <2> QED
    BY <1>2, <1>5, <2>1, LoopKeeps DEF HasFile
<1>6. CASE LoopNotify
  <2>1. files' = files
    BY <1>6 DEF LoopNotify
  <2> QED
    BY <1>1, <1>2, <1>6, <2>1, NotifyKeeps DEF HasFile
<1>7. CASE HandleShutdown \/ Disconnect \/ Exit
  BY <1>7 DEF HandleShutdown, Disconnect, Exit
<1> QED
  BY <1>3, <1>4, <1>5, <1>6, <1>7 DEF Next, Reader, Loop

-----------------------------------------------------------------------------

\* No update is lost on the way from the editor through the channel, the diagnosis and the
\* version check to the client: whenever nothing is left to do, every open document that is
\* not skipped shows the diagnostics of its present text and version, however often it was
\* changed, closed and opened again and whatever was dropped.
THEOREM QuietAlwaysDiagnosed == Conforming /\ Spec => []QuietMeansDiagnosed
<1>1. Conforming /\ Init => IInv
  BY DEF Init, IInv, InOrder, SenderCurrent, ChannelInOrder, LoopFirst, AtLoop, NotifyCurrent,
         DocumentsAfterHandshake, NoUpdateLost, HasFile, Idle, Off
<1>2. Known /\ IInv /\ [Next]_vars => IInv'
  <2> SUFFICES ASSUME Known, IInv, [Next]_vars PROVE IInv'
    OBVIOUS
  <2>1. Conforming' /\ InOrder'
    BY InOrderStep DEF Conforming, Known, IInv
  <2>2. NotifyCurrent' /\ DocumentsAfterHandshake' /\ NoUpdateLost'
    BY NotifyStep, HandshakeStep, NoUpdateLostStep DEF Known, IInv
  <2> QED
    BY <2>1, <2>2 DEF IInv
<1>3. IInv => QuietMeansDiagnosed
  <2> SUFFICES ASSUME IInv, Quiet, NEW u \in URI, HasFile(u), ~files[u].skip
               PROVE  Diagnosed(u)
    BY DEF QuietMeansDiagnosed, Diagnosed
  <2>1. InFlight = {}
    BY DEF Quiet, InFlight, Idle, Recv
  <2>2. Expected(u) \/ Diagnosed(u)
    BY DEF IInv, NoUpdateLost, Quiet, Recv
  <2> QED
    BY <2>1, <2>2 DEF Expected
<1>4. Spec => []Known
  BY TypeCorrect, FilesAlwaysCoherent, EventsNeverAhead, SnapshotAlwaysCurrent, PTL DEF Known
<1> QED
  BY <1>1, <1>2, <1>3, <1>4, PTL DEF Spec
=============================================================================
