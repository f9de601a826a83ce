# Verification of the Nobl9 language server

TLA+ models of the language server in `src/`, checked with TLC on small instances and,
for the core, proved with TLAPS for every value of the constants. `PROJECT.json` lists
the components, the TLC runs, the source lines behind every definition, the hazards of
the code and the theorems.

To check a model: `tlc -config ServerSafety.cfg MCLanguageServer` (each run's module and
configuration are in `PROJECT.json`). To check the proofs: `tlapm LanguageServerProofs.tla`, and
so for each module named `*Proofs` and for `SequenceLemmas`.

## The system

The server talks JSON-RPC with an editor over stdio. The editor opens, changes and closes
documents; the server keeps a virtual copy of each, diagnoses it in the background
against the Nobl9 platform, and answers completion, hover and code action requests.

| Component | State | Operations | Interacts with |
|---|---|---|---|
| `server`, `mux`, `connection`, `main` | `initialized`, `conn`, `documentUpdates` (a channel of 10), a `sync.Once` | the message handlers, `runDiagnosticsLoop`, `run` | calls the file store and the handlers; sends updates to its own diagnostics goroutine |
| `diagnostics/handler` | none | `Handle` | reads the file store twice, calls the provider between |
| `diagnostics/provider` | per call: a channel, a WaitGroup, a goroutine per object | `DiagnoseFile` and the checks of each kind | asks `nobl9repo` from many goroutines |
| `files` | `FS.files` under an `RWMutex` | `OpenFile`, `UpdateFile`, `CloseFile`, `GetFile`, `HasFile` | parses with `yamlastsimple` and `yamlast` |
| `nobl9repo` | the `dataCache` under an `RWMutex` | `Get*`, `Apply`, `Delete` | the Nobl9 API |
| `codeactions` | none | `HandleCodeAction`, `HandleExecuteCommand` | file store, `nobl9repo`, the connection |
| `completion`, `hover` | none | one request, one answer | file store, `nobl9repo`, `sdkdocs`, `objectref` |
| `yamlastsimple`, `yamlast`, `yamlpath`, `objectref`, `sdkdocs` | none | pure functions and tables | |
| `recovery`, `logging`, `cli`, `version`, `stdio`, `config`, `messages` | a package variable each, at most | | |

What is hard here:

- **Two goroutines over one file.** jsonrpc2 calls the handlers one after another on the
  goroutine that reads messages (`HandlerWithError` is synchronous). The diagnostics
  goroutine looks at a file, diagnoses its copy for as long as the API takes, and looks
  again. Edits, closes and reopens happen in between.
- **A bounded channel filled by the only reader.** A full channel blocks every message.
- **Dropped work.** Diagnostics of a version that is no longer current are thrown away; the
  last version must be diagnosed all the same.
- **A fork-join that survives panics halfway**: the WaitGroup counts a panicked goroutine
  down, the channel never gets its batch.
- **Results that outlive their text**: `File.Update` returns early on errors, and
  `UpdateSkipped` does not parse at all.
- **Check-then-act** under a lock that is released between: the cache, whose lookups and stores
  overtake each other, so that checks get answers from before they began. (`FS.OpenFile` looks before
  it locks too, but only one goroutine opens files.)
- **Lookups that depend on each other**, against a platform that others change, any of
  which may fail: an object's checks are chains in which one miss hides the rest.
- **Two readings of one reference.** Diagnostics read the decoded object, completion and
  hover the lines and a table of paths; what one offers the other must accept.
- **Two parsers of one text.** Completion and the fields of a diagnostic come from a line
  parser that must see the objects and paths the YAML parser sees, also in half-typed text.
- **Errors of properties that are not there.** Validation names properties the text may
  lack; an error must be shown at the closest one it has, and never get lost.

What makes each part correct: the store behaves like an atomic map; parse results fit the
text; an update event is never ahead of its file; diagnostics that pass the version check
are of the present text and never go backwards; no update is lost and the reader is never
stuck; `DiagnoseFile` returns one batch for every object; what the cache answers is
outdated for a bounded time at most; a reference reported as missing was missing, and one
that is missing is reported; names that completion offers pass the checks; the line at
the cursor is that line, an object of the line parser is the object of that index, an error or
a deprecation is shown at its property, and completion proposes what fits at the cursor.

## The modules

| Module | Models | Extends / uses |
|---|---|---|
| `Files` | what a `File` holds and what the next text makes of it (`files/file.go`, `shouldSkipFile`, `updateFile`) | |
| `LanguageServer` | the two goroutines, the channel, the connection (`server.go`, `diagnostics/handler.go`, `codeactions/handler.go`, `main.go`) | `Files` |
| `LanguageServerProofs` | its theorems: safety, and that no update is lost on the way | `LanguageServer` |
| `DiagnoseFile`, `DiagnoseFileProofs` | the fork-join of one `Provider.DiagnoseFile` call, and its theorems | |
| `DocumentStore` | the abstract promise of the file store: an atomic map | |
| `FileStore`, `FileStoreProofs` | `files.FS` at the granularity of its critical sections, and the proof that it implements `DocumentStore` | `Files` |
| `ObjectsCache`, `ObjectsCacheProofs` | `dataCache` and the read-through of `nobl9repo`, and its theorems | |
| `Manifests` | what checks, completion and hover share: an object by the paths of its fields, the platform, what the API finds there, and the requests whose answers are cached (`nobl9repo/repo.go`) | |
| `ReferenceChecks` | `checkReferencedObjects` and the checks of each kind (`diagnostics/provider.go:128-764`), through the cache | `Manifests` |
| `ReferenceCompletion` | the table of `objectref`, the names completion offers and the object hover shows | `ReferenceChecks` |
| `SequenceLemmas` | what sequences, their concatenations and `FlattenSeq` consist of | |
| `ReferenceProofs` | the theorems of `ReferenceChecks` and `ReferenceCompletion` | `ReferenceCompletion`, `SequenceLemmas` |
| `SimpleYaml` | `yamlastsimple.ParseFile` and `files.ParseSimpleObjectFile`, next to YAML's own structure | |
| `SimpleYamlProofs` | its theorems: lines, and the paths of a plain YAML text | `SimpleYaml`, `SequenceLemmas` |
| `ErrorRanges` | `validateObject`, the search of `yamlpath` and the line an error is shown at (`diagnostics/provider.go:109-126, 790-840, 899-958`) | `SimpleYaml` |
| `TextCompletion` | generalized paths, deprecated properties, the keys and snippets proposed at a cursor (`completion`, `yamlastsimple/parse.go:83-93, 363-398`) | `SimpleYaml` |
| `YamlPathProofs` | the theorems of paths: in objects, as errors, deprecations and completion read them | `SimpleYamlProofs`, `TextCompletion`, `ErrorRanges` |
| `MC*` | the small instances TLC checks | |

**Data.** A text is a model value. What the parsers make of it is given by the sets
`Activating`, `SimpleFails`, `ASTFails` and `Misaligned`. A parse result is represented by
the text it was built from, so `files[u].objects = c` reads "the Objects of text c"; `None`
is Go's nil. `files[u].err` says which parser failed on the text.

**LanguageServer.** `reader` is what the reading goroutine is blocked on: nothing, the send
on `documentUpdates` (the handler has updated the file already) or the API call of
`executeCommand`. A message is chosen when it is read. `updates` is the channel, `loop` the
diagnostics goroutine: at the receive, before the first `GetFile`, with the copy to
diagnose, before the second `GetFile`, before `Notify`. `published` is what the client was
last told. `session` is history, not code: it counts how often each document was opened,
so that properties can tell a reopened document from the one before; no guard that models
the program reads it (`MaxSessions`, which bounds the run, does). A handler that returns
early, or panics and is recovered by the mux, changes nothing and is a stuttering step. A
whole file operation is one step, which is what `FileStore` justifies.

**DiagnoseFile.** `verdict` and `docs` are the input: what decoding and validating each
object gives, and how many simple documents the file has. `Panics(i)` is the index out of
range of `file.SimpleAST[i]`. `LoopDiagnose` in `LanguageServer` is this call seen from
outside: it returns, or with a `Misaligned` text never does.

**FileStore** and **DocumentStore.** Each caller is in at most one call. `CloseFile` and
`OpenFile` look under the read lock and write under the write lock, two steps. The
refinement maps the files to version and text, and a call to its arguments without its
progress: each critical section is a step of the promise or a stutter.

**ObjectsCache.** Four functions of `repo.go` have the shape lookup, request, store, return;
one set of actions stands for them all. Time is a counter of ticks.

**ReferenceChecks.** The checks that `provider.go` makes of an object, a function per kind,
are given as stages of chains (`Stages`): a chain is the checks that depend on each other,
a stage what is done before the next early return of `checkReferencedObjects`. `todo` is
what is left of it; a step is a field without a name, which is passed over (`Skip`), or one
lookup, which finds (`Find`), does not (`Miss`) or fails (`Fail`), and `Change` is somebody else's
apply or delete between two lookups.

A lookup is answered by the cache or by the API (`Obtain`): `cache` has the answers by
`Request`, the arguments of `GetObject`, `GetUser` and `GetRoles` that are also the key. An
answer is one object of those found, or none (absence is cached too); both kinds of role are in
one answer. As nothing here measures time, an entry may have expired whenever it is looked up: the
API is asked again and the entry replaced, or the request fails and there is none.
`OthersStore` is a request of another goroutine (completion, hover, another object), which may
store an answer older than the one it replaces (`repo.go:83-113` locks lookup and store one by
one). A behaviour begins one `StalenessBound` (of `ObjectsCache`: a retention and a request)
before its check, and the lookups may start at any later state, so that `past`, the platforms
since then, has every platform an answer can be of: `ObjectsCache` shows that none is older.
`past` bounds what `OthersStore` may store and is read by no other action. An object is a map
from paths to values, `""` (`Empty`) for a value that is not written yet.

**ReferenceCompletion** has no state of its own. `Offered` and `Hovered` are what completion
and hover answer at a line of the same object from a platform of `past`: the present one, or an
earlier one of which the answer is cached (`GetAllNames` and `GetObject` are, `GetUsers` is
not). `OfferedNamesPass` and `HoverAgrees` compare them with a check that is answered from the platform
of that same moment: what changes between an offer and a check may make the offered name
missing, and no code could prevent that. They are stated where the check begins (`Begins`), as the
answers do not depend on how far it is. So its properties
relate three parts of the server that share no code but the table. `Valid` says what the
objects are like that diagnostics check at all, those the SDK's validation accepts: elements
of lists counted from 1, an SLO beside each objective, a metric source that is an Agent or a
Direct. The line of a list (`alertPolicies:`) holds no name; `[]` there counts as none.

**SimpleYaml** reads a text line by line. A line is its column and its shape (key, key with
value, list element, block scalar, comment and so on); a key is the number of its line, so
that two paths are equal only if the code has mixed two lines up. `docs`, `lines` and
`scalar` are the parser's documents, lines and block scalar flag; the paths of a line depend
on the lines before it only, so the second pass `postProcessPaths` is done along. `yaml` is
the reference: the stack of mappings and lists that YAML has open at that line. Objects are
made from the documents by `Nodes`. Indentation is by two columns, keys have no dots or
brackets, and elements are written `- `, as the parser expects.

**ErrorRanges** and **TextCompletion** have no state: they are what the server makes of each
text that `SimpleYaml` reads. `Tree` is the YAML tree of the object read last, by the paths
of its nodes: their types and the lines of their tokens; an object before it was last in a
shorter text. Which properties validation complains about is the SDK's: `ErrorPaths` are
all those an object has and, of each mapping and of each key without a value, one it lacks
and one in that. `Filter` is `pathNode.filter`, whose outcome is a node, nil or an
error; `removeChild` cuts the path until it is not nil. A range is its line. The cursor is
on a line behind the text, empty, half typed or with a whole key (`AtCursor`), which the
code parses as it is while YAML is asked what a key there would be. The documentation,
which is generated data, is left out: a property is its generalized path. A snippet is what
it begins with, as only that depends on the text.

Definitions whose name ends in `Mutant` are variants with a plausible bug; each property
is shown to catch one (`PROJECT.json`, "mutants"). They are part of no specification.

## The runs

| Run | Instance | Shows |
|---|---|---|
| `ServerSafety` | 1 document opened twice, 4 kinds of text (sound, broken for each of the two parsers, not activating), versions 1 to 3 in any order, channel of 2, editor not bound to the handshake; 1.7 million states | `TypeOK`, `FilesCoherent`, `EventsNotAhead`, `CheckedTextIsCurrent`, `PublicationsMoveForward` |
| `ServerLiveness` | 2 documents, one of them opened twice, 2 texts, channel of 1, handshake kept, fairness | `QuietMeansDiagnosed`, `SendCompletes`, `EventuallyDiagnosed` |
| `DiagnoseFile` | 3 objects, every mix of verdicts, 0 to 3 simple documents | `TypeOK`, `NoSendBlocks`, `OneBatchPerObject`, `NoGoroutineLeft`, `Returns`, `WaitEnds` |
| `FileStore` | 1 writer, 1 reader, 3 documents (matching, not matching, not a file URI), 2 texts, 2 versions | `TypeOK`, `KeepsPromise` |
| `ObjectsCache` | 2 goroutines, 1 key, 2 objects or absence, retention 2, latency 1, clock to 7 | `TypeOK`, `EntriesExpireInTime`, `BoundedStaleness` |
| `References` | 14 objects, one to three of every kind that refers to others, on any platform of two projects with the things they name, any request failing, one change of the platform and one answer stored by others, before or during the check; 0.4 million states | `TypeOK`, `ReportsAreTrue`, `ProjectsComeFirst`, `EveryReferenceSettled`, `OfferedNamesPass`, `HoverAgrees` |
| `CompletionSource` | 1 object, no change | violates a statement of the repository, below |
| `SimpleYaml` | every text of 5 lines of plain YAML, every other text of 3, lines at columns 0, 2 and 4; errors and completion behind the first 4 lines | `TypeOK`, `EveryLineFound`, `ObjectsMatch`, `PathsLeadThere`, `RootKeysAreOwn`, `ErrorsPointThere`, `InvalidObjectsShown`, `ReferencesPointThere`, `PropertiesRecognised`, `KeysOfThatMapping`, `SnippetsAreObjects` |
| `ServerReopen`, `ServerSkip`, `ServerApply`, `ServerPanic` | 1 document, 2 texts, channel of 1 | each violates one statement of the repository, below |

**Bounds.** One document suffices for the safety of a file, as no action relates two of them
but through the channel; the liveness run has two to share it. Opening twice is what
makes old events meet a new file. A channel of 2 with one update at the loop and one at
the reader has four updates in flight, more than the versions there are; a channel of 1
fills at once. Three objects are the fewest with one before, at and after a failing one.
Two goroutines are enough for one store to overtake another; the clock lets an entry be
stored, expire and be stored again. In `References` the objects have lists of two where the
code loops, fields that are present, empty and absent, and references to their own project
and another; things of the same name are in both. One change between two lookups is what
makes a project disappear after it was found; one answer stored by others (`MaxStores`) is what
makes a check find, or miss, what it did not ask for itself, and together they give an answer
of before the change that is used after it. The proofs have no such bounds. In `SimpleYaml` five lines are two objects of
a list with a comment between, or a list nested in an element of a list and the key after
it; a third column is the depth at which a line can belong to any of two others. Errors and
completion are looked at behind each text of up to 4 lines (`MaxTreeLines`,
`MaxCursorLine`): an element with a mapping of two levels, a list in it, or two objects with
one line between. "Plain" is
a YAML text with no empty document, no comment behind `---`, and no block scalar that is a
list element or has an empty line (see below).

**Deadlock** is checked in `FileStore`. The other systems really stop: the server when `run`
returns, `DiagnoseFile` when it is done (or for good after a panic), the cache's clock at
its bound, a reference check when nothing is left to do, a text at its last line.

**Fairness.** `LanguageServer` assumes weak fairness of the blocked send, of the API's answer
to a command and of every step of the diagnostics goroutine: the Go scheduler runs a
goroutine that can go on, and the SDK's HTTP client gives a request up in the end. No
fairness is assumed of the editor (it may send nothing, hang up or quit at any time) or
of the process's exit. `DiagnoseFile` assumes it of the caller and of each goroutine. A
send that waits for room is weakly fair only: it stays enabled as there is one sender.

## What disagrees with the repository

Five runs expect a violation; `PROJECT.json` quotes the lines ("findings").

- `ServerReopen`: a document closed and opened again with other text under the same version
  while its diagnostics are computed gets the old text's diagnostics
  (`diagnostics/handler.go:57`). `CheckedTextIsCurrent` is what does hold: within a
  session, the check is enough. `QuietMeansDiagnosed` says the wrong diagnostics do not
  stay, as the reopening is an update of its own.
- `ServerSkip`: text that stops activating the server leaves the diagnostics of the text
  before with the client (`diagnostics/handler.go:35`).
- `ServerApply`: APPLY or DELETE of a file that does not parse at present uses the objects of
  an earlier text (`codeactions/handler.go:68`, `files/file.go:51`).
- `ServerPanic`: one panic in the goroutine of an object blocks the receive at
  `diagnostics/provider.go:89` for good, and no file is diagnosed any more. A text reaches
  it when the YAML parser sees more documents than the simple parser, as with `--- `
  (trailing blank) as a separator (`yamlastsimple/parse.go:164`). The run
  `DiagnoseFile` shows the same from inside: `Returns` excludes panics, `WaitEnds` says
  that it is not `wg.Wait` that hangs.
- `CompletionSource`: an SLO that says which kind its metric source is gets no completion of
  the source's name: the test for an error of `ParseKind` is the wrong way round
  (`completion/references_completion.go:158`). `OffersEveryName` is checked of this object
  only.

Seen while modelling, but against no statement of the repository.

Server: diagnostics computed
while a document is closed are published after the close and never cleared (the version
check passes for a file that is gone); the dry run calls nothing and reports success
(`codeactions/handler.go:72`); `didChange` with a version that is not newer still queues an
update; messages other than `initialize` are served before it, and documents sent before
`initialized` fill the channel and block the reader.

References: the table gives `spec.filters.slos[*].project` of a budget adjustment the kind SLO
(`objectref/references.go:117-121`), so no project is offered there; its entry
`$.spec.alertPolicies` lacks `[*]`, so neither completion nor hover knows the elements;
hover on the name of a composite's objective looks for an SLO of that name; completion of
`roleRef` asks whether there is a line `projectRef`, the check whether it has a value, so that while `projectRef:` is being written the roles
offered are not those accepted (`OfferedNamesPass` leaves out this case, `ProjectRefOpen`);
`GetUser` takes a second match of its search for no match (the model has one match for
each ID).

File store: `OpenFile` looks for an open file under the read lock and stores it under the write lock
without a second look, which only the single goroutine that writes makes harmless (`OneWriter`).

Line parser: `k: |-`, `|+` and `>-` are not taken for block scalars (`isBlockScalar`,
`parse.go:290-301`, looks for a final `|` or `>`), so that lines of the text become properties; no
shape of the model is such a line, and "block scalar" always means one that ends in `|` or
`>`. An indented empty line, or plain text, after `kind: X` inherits the path of that
line and its empty value overwrites the kind (`files/simple_object.go:89`), which is why
`RootKeysAreOwn` speaks of properties only; an empty line ends a block scalar
(`parse.go:171`) and `- key: |` does not begin one, so lines of the text become properties;
a leading `---` gives an object more than YAML has, so that the deprecations of each object
are looked for in the one before; `--- # comment` is taken for an element of a list. These are what
"plain" excludes in `ObjectsMatch`, `PathsLeadThere` and `RootKeysAreOwn`; `EveryLineFound`
holds of any text.

Errors: the comment at `yamlpath/path.go:38-41` says that the search ends at an ancestor or
the root, and it does for a property that a mapping lacks. Through a key without a value
(`metadata:` and nothing below), or past the end of a list, it is an error of another kind,
for which `diagnostics/provider.go:811-817` drops the diagnostic; only if all the errors of
the object drop are they shown, together, where it starts. `InvalidObjectsShown` is what is
left, and `ErrorsPointThere` excepts such keys. A broken reference is never dropped: its search
falls back to the start of the object (`ReferencesPointThere`).

Completion: a snippet offered behind an element of a nested list begins with `- `, in the
middle of a mapping, and so does one on an indented empty line of a list element
(`SnippetsAreObjects` leaves both out); a key with a dot (`my.key:`) gives a path that is cut
in its middle (`keys_completion.go:42`).

## The proofs

`LanguageServerProofs` proves the five safety properties of `ServerSafety`, and
`QuietMeansDiagnosed` of `ServerLiveness`, as theorems of
`Spec`, for any sets of documents, texts and versions (integers), any patterns, any channel
capacity from 1 on, any `MaxSessions`, with or without the handshake. It assumes only
`FilesAssumption` and `ServerAssumption`, which TLC evaluates in every server run.

- `TypeCorrect` is inductive as it stands; the step that matters is the send, which waits
  for room.
- `FilesAlwaysCoherent` rests on `UpdateFileLemma`: an update keeps a file a file, never
  takes its version back, changes nothing if the version stays, and leaves it coherent
  unless it is skipped. Only three handlers touch the files (`FilesSteps`).
- `EventsNeverAhead`: an event gets the version its file was just updated to or is behind,
  and `NotAheadStable` shows that no step can put it ahead later: versions grow within a
  session, a reopening starts a new one. `InFlightSteps` shows that events come only from
  the two handlers.
- `CheckedTextAlwaysCurrent` needs a strengthening about the state between the two looks,
  `SnapshotCurrent`: while the file has the version and session of the event, the copy
  under diagnosis *is* the file. It is inductive because a file that has the event's
  version after a step had it before and is unchanged (`SameVersionSameFile`): the file
  cannot come back to a version it left, as it is never behind the event.
- `PublicationsAlwaysForward` follows from `PublishedInOrder`: what was published is not
  ahead of its file (the same `NotAhead`, the publication written as an event), and what
  has passed the check is not older than what was published in its session.
- `QuietAlwaysDiagnosed` (`QuietMeansDiagnosed`) is of an editor that keeps the handshake and
  counts versions from 0 (`Conforming`): without the handshake an update may be queued that
  nobody receives, and a negative version is not taken. The invariant (`NoUpdateLost`) says of
  every open file that is not skipped that an event of its present version and session is on
  its way (`Expected`), or that the client has the present text's diagnostics and nothing on
  its way can replace them (`Diagnosed`). It needs the order of events (`InOrder`: the channel,
  the loop's event before it and the reader's behind it never go back to an earlier session),
  that what has passed the check is the present text if it is the present version
  (`NotifyCurrent`), and that no file is open before the diagnostics goroutine runs
  (`DocumentsAfterHandshake`). When everything is handled no event is expected, which leaves
  `Diagnosed`.

`ReferenceProofs` proves four theorems of a reference check, for any objects with finitely
many fields, things, changes and answers stored by others (`ChecksAssumption`), whatever requests
fail. What the cache answers is of a platform in `past` (`CacheRemembers`, part of the
invariant), and an answer to a request tells of each check that makes it what the platform it is
of tells (`AnswerTells`, `AnswerIsPart`): so a lookup that misses was right about a remembered
platform, and so was one that finds (`MissedWasMissing`, `FoundWasThere`). The proof first brings
the chains of every kind of object into one form (`ChainElements`, `StagesOrdered`): in a chain
a project comes before what lies in it, and what comes first hides the rest if it is missing.

- `TypeCorrect` adds that no chain is kept when nothing is left of it (`NoEmptyChain`), which
  is why the present check exists whenever one is asked for (`CurrentChain`).
- `ReportsAlwaysTrue`: a report comes from a lookup of that very step, answered by the API or the
  cache (`NewReports`), and no platform is forgotten (`HistoryGrows`).
- `ProjectsAlwaysFirst` (`ProjectsComeFirst`) needs that in what is left of every chain a
  project that is not the object's own is known already (it was there at some remembered moment, or its
  lookup failed) or is looked up before
  (`ProjectsInOrder`), and that the own project is known unless its stage is still to come or
  ended the check (`OwnProjectFirst`). A miss drops the rest of its chain, which is why
  it may leave the project unknown.
- `ChecksAlwaysSettled`: no check is forgotten (`NothingForgotten`): it is still to come, was
  made, or is hidden by a report. When a stage ends the check early, what is left is hidden
  because only the own project and a report's projects are looked up before the last stage
  (`LeadersFirst`).

It then proves that diagnostics, completion and hover read a reference alike. All
three theorems hold of each object and each remembered platform; they rest on
two lists that are compared row by row: `CheckTable` says which checks are made of an object,
and `TableFits` that each has its row in the table of `objectref` (or none), with the same
kind, the same SLO and the same project, by one of the cases completion and hover have.

- `OffersAlwaysPass` (`OfferedNamesPass`): the row of a field never depends on the field
  itself (`RowShapes`), so that picking a name changes neither project nor SLO
  (`PickedReference`).
- `HoverAlwaysAgrees` (`HoverAgrees`).
- `ReferencesAlwaysSettled` (`EveryReferenceSettled`): every row has its check, at the same index
  (`ReferencesChecked`), which `ChecksAlwaysSettled` settles. This is where `Valid` is needed
  (`ObjectsAssumption`).

`SequenceLemmas` has the induction these need: `FlattenSeq` is defined by recursion, and
`LeastNumber` gives the induction as the least index at which a claim would fail.

`DiagnoseFileProofs` proves the four safety properties of `DiagnoseFile` for any number of
objects and simple documents. The invariant counts: the WaitGroup is the number of goroutines
that have not ended or panicked (`CountsDown`), and the batches in the channel and in the result
together are as many as the goroutines that have sent, each among them (`BatchesKept`); the
caller starts them in order and waits for all (`CallerInOrder`). That there is room for a
send, and that N batches received are one of each object, are facts about the sizes of these
sets. `OneBatchPerObject` and `NoGoroutineLeft` are about a call that returns: after a panic it does
not (`ServerPanic`), and they say nothing.

`ObjectsCacheProofs` proves `EntriesExpireInTime` and `BoundedStaleness` for any retention,
latency, goroutines, keys and objects. The entry of a key is claimed by requests that may overtake
each other, so the invariant (`AnswersOnTheWay`) carries the same bound for every answer
between request and store as for an entry: an answer that is wrong about the platform was read before
the last change. `BoundedStaleness` counts from the last change of the key; as `Change` may
happen at any time or not at all, it says of an answer that it was true at most the bound ago.

`FileStoreProofs` proves that `FileStore` implements `DocumentStore` (`StoreKeepsPromise`), for
any readers and at most one writer (`OneWriter`, which is how the server
calls it: only the goroutine that reads messages opens, changes and closes). The invariant adds
that who is inside such a call is a writer, and that what the writer saw under the read lock is
still so when it takes the write lock (`LookupStillHolds`), which follows from there being one.
Each critical section is shown to be a step of
the promise (a lookup under the read lock that answers, and every write) or a stutter (one
that goes on to the write lock). It assumes `NoneAssumption`: Go's nil is not a file.

`SimpleYamlProofs` proves three theorems of texts of any length, with lines at any columns.

- `TypeCorrect`.
- `LinesAlwaysFound` (`EveryLineFound`), of any text, YAML or not: documents follow each other
  without a gap (`Consecutive`), each line has the number of its place (`Numbered`), and the
  objects of a list are cut where the next one begins (`PartLines`), so that the line of a
  number is in some object, and is that line in each that claims it.
- `RootKeysAlwaysOwn` (`RootKeysAreOwn`), of plain YAML: the kind and version of an object come
  from its own top-level properties. It needs that the path the parser gives a line is that of
  YAML (`LineAgrees`). The parser has no stack: it looks back for a line that is not deeper and
  begins or cuts that line's path. The invariant (`Together`) says what it finds there: for
  each mapping or list that YAML still has open, the nearest line that is not deeper is its last
  key or element (`StackShown`); for a key without a value it is that key (`OpenOK`); in an
  empty document it is none (`BodyOK`). A key closes the frames below it and is what the rest
  finds next (`Renewed`), also the list element around the mapping it is the first key of
  (`SiblingShows`), as both have the same indent. The block scalar of the parser is that of
  YAML. A path never has two indexes in a row (`PathOK`), so that one with keys nowhere but at
  its end is top-level (`RootKeyOf`).

`YamlPathProofs` proves eight theorems of plain YAML texts of any length, from the invariant of
`SimpleYamlProofs` and five more.

- `ObjectsAlwaysMatch` (`ObjectsMatch`): the lines where YAML begins an object are, in each
  document, the first of the mapping or the first of each element of the list, and of all other
  lines none (`ObjectsBegun`). They are also where the parser cuts a list (`FirstIsCut`). So each
  simple object holds exactly one of them (`ObjectBegins`, `ObjectNumber`), every one is held
  (`LineHeld`, `ListsSplit`), and both sequences are in the order of lines (`ObjectsOrdered`,
  `DocumentsBelow`, `FlattenOrdered`): the nth has the nth (`InStep`).

- `PathsAlwaysLeadThere` (`PathsLeadThere`): no other line of the file has the path of a property,
  because the keys of a path are those of lines up to its own (`Known`). What is left is the
  index of its object, which `FindLineByPath` puts back: the node's index has to be that
  of the element. The invariant says that a document is one object or a list (`Rooted`): all its
  lines that are long enough to have an index are in elements, which never go down from
  line to line. So the cuts before an object are as many as the elements before it
  (`ElementCount`), by a bijection of cuts and elements (`CutAt`).
- `PropertiesAlwaysRecognised` (`PropertiesRecognised`): `GeneralizePath` replaces each index by
  `[*]` (`GeneralizedProperty`), and as a key has the number of its line, the last step of a
  path that is flagged is of that line only (`OnlyFlagged`).
- `KeysAlwaysOfThatMapping` (`KeysOfThatMapping`): the line at the cursor is read as the key or
  element it becomes when it is typed to its end would be (`ParsedAlike`), and `LineAgrees` says what
  that line's path is.
- `SnippetsAlwaysObjects` (`SnippetsAreObjects`): the last simple object ends with the text
  (`LastNodeEnds`), so the line that `findLine` looks for is the separator of the document before,
  or a line of the document at the cursor, which is a key or an element once there is one (`Entered`,
  the invariant this adds; `BeforeCursor`). A line at the first column whose path is that of an
  element continues the list that is the document, or begins it (`RestOffered`); any other is in no
  element (`NoElementThere`). What is left is that YAML takes an element (`NextElement`), or
  the first line of a document (`FirstElement`), for an object.

The last three are of the tree that the YAML parser makes of the object read last. That each list
has its elements from the first one on, with no element before the first line of that, is an
invariant (`FromFirst`): the path of a line is that of a mapping, list or key that is open, continued
(`Continues`), and a list that is open has had an element (`ElementBefore`). The lines of the
object are those from the last one that begins an object (`LastObject`), and with a line its earlier
elements are among them (`EarlierLine`, `FirstInObject`). So the nodes of the tree are what the paths of these lines
begin with (`NodesOfTree`), and the line of a node is the first that leads to it (`LineOfNode`).

- `ErrorsAlwaysPointThere` (`ErrorsPointThere`): a search for a property that is missing ends at
  the longest part of its path that is a node (`ErrorPlaced`): with a node the tree has everything its
  path begins with (`TreeClosed`), and a key that is missing is in no path (`MissingNode`), so each search on the way
  there gives nil if that node is a mapping. A list is shown at its first element, which it has
  (`SequenceNode`), and no line below a node is before the one shown (`NodeShown`).
- `InvalidObjectsAlwaysShown` (`InvalidObjectsShown`): what a diagnostic is shown at is a line of the
  object (`ShownInObject`), also when every error is dropped.
- `ReferencesAlwaysPointThere` (`ReferencesPointThere`): a value is its own line (`NodeShown`), and
  what is found of any other path is in the object.

The proofs assume only the named assumptions of the models (`FilesAssumption`,
`ServerAssumption`, `PublicationAssumption`, `NoneAssumption`, `ChecksAssumption`, `ObjectsAssumption` and those
of the other modules), which TLC evaluates in the runs.

Only model-checked: liveness (`SendCompletes`, `EventuallyDiagnosed`, `Returns`, `WaitEnds`),
which is out of the prover's reach. Every other property of a passing run is a theorem.

## Not modelled

Which keys and enum values exist and what hover says of a property: they come from the SDK
documentation, a generated table that `yamlpath.Match` looks up. The parsing and printing of
paths, the columns of ranges, messages and the ranges of YAML syntax errors are formatting.
Validation itself is the SDK's. Logging, the command line, stdio, version and message types
are I/O and formatting. What the platform's API does is external.

## Plan

Done: the server and its proofs, the fork-join, the file store and the cache with theirs, references
with completion and hover and their proofs, the line parser and the proof of its paths, the places of errors and deprecations and the
completion of keys and snippets, with their proofs. Next:

1. Composition with time: the cache of `ReferenceChecks` is `ObjectsCache` without its clock, and
   that every answer is of a platform in `past` rests on `StalenessAlwaysBounded`; one module could
   have both.
2. Decoding at the level of objects (`files/object_node.go`), so that an object that did not
   decode can be followed into `executeCommand`.
3. Proofs of what 1 and 2 add.
