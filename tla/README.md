# A TLA+ verification of RosPlotJuggler Studio

RosPlotJuggler Studio is a Windows desktop application, built on PlotJuggler, that
loads ROS bags and live streams, plots them and updates itself. This directory holds
TLA+ modules of the parts of it where order, failure and concurrency decide whether it
is right, the TLC configurations that check them on small instances, and theorems about
them that TLAPS proves for every value of the constants.

Paths below are relative to the repository; `PlotJuggler/` stands for
`src/PlotJuggler/`, `app/` for `src/PlotJuggler/plotjuggler_app/`, `base/` for
`src/PlotJuggler/plotjuggler_base/` and `plugins/` for
`src/PlotJuggler/plotjuggler_plugins/`. `PROJECT.json` maps every definition to its
lines.

Run a check with `tlc -workers 2 -config MCUpdater_safety.cfg MCUpdater`, a proof with
`tlapm UpdaterProofs.tla`.

| Component | Modules | Runs |
|---|---|---|
| External updater | `Updater`, `AtomicUpdate` (what it promises), `UpdaterProofs`, `MCUpdater` | `updater_safety`, `updater_tidy` |
| Update client | `UpdateClient`, `UpdateClientProofs`, `MCUpdateClient` | `client_safety`, `client_unsupported` |
| ROS bag loading | `RosbagLoad`, `AtomicLoad` (what it promises), `RosbagLoadProofs`, `MCRosbagLoad` | `rosbag_safety`, `rosbag_undecoded` |
| MQTT streaming | `MqttStream`, `DataStreamer` (what every streaming plugin promises), `MqttStreamProofs`, `MCMqttStream` | `mqtt_safety`, `mqtt_shutdown` |
| PlotJuggler Bridge streaming | `BridgeClient`, `DataStreamer` (the same), `BridgeClientProofs`, `MCBridgeClient` | `bridge_safety` |
| Mosaico toolbox | `MosaicoFetch`, `MosaicoFetchProofs`, `MCMosaicoFetch` | `mosaico_safety` |
| Time series and data merging | `TimeSeries`, `TimeSeriesProofs`, `MCTimeSeries` | `series_safety` |
| Transforms and custom functions | `Transforms`, `TransformsProofs`, `MCTransforms` | `transforms_safety` |

## 1. Inventory

### External updater — `tools/updater/`

*State.* Four kinds of directories next to each other (the installation, a backup, a
staging and a "failed" tree for each update), a lock file, the verified archive, the
process of the application that asked, the process of the trial and its health file.
*Operations.* `main()` validates, locks, checks space and installation, waits for the
parent, verifies and unpacks the archive, swaps by two renames, tries the new
application out (`runHealthProbe`), restarts it, or rolls back (`restoreBackup`), and
returns one of 14 codes.
*Interacts* with the application through the command line, the process id, the health
file and the exit code, and with other updaters through the lock and the directory.
*Hard.* Death at any step, failing renames, several updaters at once, deadlines.
*Correct when* the installation is never half a release, a release known to run is
never lost, the exit code is true, and no updater waits for ever.

### Update client — `app/studio/update/`

*State.* A state (`Idle` … `Error`), the checker's request, the downloader's request
and partial file, the progress dialog, the manifest that is ready, the dialogs open.
*Operations.* Check (by hand, or once two seconds after the start), redirects, offer,
download, verification, cancellation, starting the updater.
*Hard.* Everything runs in one thread, but every message box runs a nested event loop
in which replies, deadlines and other dialogs go on while the handler below is
suspended: state read before a box is stale after it.
*Correct when* only verified packages are left on the disk and handed to the updater,
the state never blocks further checks, dialogs do not pile up, requests end.

### ROS bag loading — `plugins/DataLoadROSBag/`, `runtime/rosbag_python/extract_rosbag.py`

*State.* A worker process and its two pipes; the loader thread's decoder, counters,
error and warnings; the GUI's progress dialog; the data to merge.
*Operations.* Inspect, choose topics, first pass, drain, verdict, second pass for
topics without a C++ parser, merge, fail, cancel.
*Hard.* Two pipes read one after the other; a worker that ends, fails or hangs at any
point; counters reused by the second pass; cancellation racing the end.
*Correct when* a load that succeeds lost nothing and doubled nothing, one that does not
succeed leaves the application's data alone, and a load ends.

### MQTT streaming — `plugins/DataStreamMQTT/`, and `app/mainwindow.cpp`

*State.* The client's connection, callbacks and topic list behind `_mutex`; the
plugin's parsers, data and failure count behind `mutex()`; the dialog and its timer; the
posted events; the streaming buttons and the replot timer of the main window.
*Operations.* Connect, list, start, receive, create a parser, replot, pause, lose the
connection, stop, quit.
*Hard.* The network thread waits for the GUI thread (a blocking queued call) with a
mutex held that the GUI thread asks for; the GUI thread joins the network thread.
*Correct when* nothing of one session shows in the next, calls return, data is shown.

### PlotJuggler Bridge streaming — `plugins/DataStreamPlotJugglerBridge/`, and `app/mainwindow.cpp`

*State.* The socket; `_state` (mode, request in flight), the pending id and mode, the
poll and heartbeat timers, the topics and their parsers, the dialog with its list and
selection; the streaming button and the replot timer of the main window; at the other
end, what the server has confirmed.
*Operations.* Start, connect, poll the list, select, subscribe, pause and resume, serve
answers and frames, beat, disconnect, lose the connection, fail to parse, stop.
*Hard.* Several commands are on the way and one of their answers is awaited; frames of
a session arrive behind the answer that says what they are; five ways to end a session.
*Correct when* no answer is taken for another, both ends agree on the topics before the
first frame is served, nothing is left to the next session, and no request blocks.

### Mosaico toolbox — `plugins/ToolboxMosaico/`

*State.* The window's selection, widgets, counters and error context; the plugin's
staged blocks; the worker with its queue of calls and its pull threads, one per
connection; the queue of events for the GUI thread; the client and who points to it.
*Operations.* Connect (again, or in plaintext after a failure), list, select, fetch
several topics, cancel, receive schemas, blocks and ends of topics, import, give up.
*Hard.* Blocks pass two threads with blocking calls; a cancelled download still has
blocks on the way; the answers of other requests arrive in a download; the client is
replaced while threads hold a pointer to the old one.
*Correct when* what is shown comes from one download, whole or not at all, every topic is
reported once, downloads end, and no thread uses a destroyed client.

### Time series and data merging — `base/include/PlotJuggler/timeseries.h`, `plotdatabase.h`, `app/utils.cpp`

*State.* The samples of a series with cached ranges and a maximal span; the same in the
streamer's or the file's map.
*Operations.* `pushBack` in any order, trimming, `sort`, ranges, `getIndexFromX`,
`MergeData` and `MoveData` with the callers in the main window.
*Hard.* Late samples, overlapping batches, swaps of the two series, limits that change
while data is under way, caches.
*Correct when* the series stays in the order of time (every search relies on it), no
sample is lost, the span is kept, the caches are true.

### Transforms and custom functions — `base/src/transform_function.cpp`, `app/transforms/`

*State.* The series of each function and its place in the order of creation; the series
a plot draws of a transformed curve and the time its transform last saw.
*Operations.* Create, edit, refresh and delete functions; calculate them at each replot
in their order; calculate or reset the transform of a curve; all while the source is
loaded, received, trimmed and cleared.
*Hard.* Both go on from where their output ends, in a source that is trimmed at its front
and gets late samples; functions of functions must be calculated after them.
*Correct when* no sample is used twice, none is missed, and one replot brings a chain of
functions up to date.

### Not modelled

| Component | Why |
|---|---|
| ZMQ streaming | its receiving thread, blocking call and join are those of `MqttStream`, without broker and topics; its own is the framing of multipart messages |
| Reactive functions | scripts of the user, run at every replot; what they compute is theirs |
| Update manifest and version order | a pure comparison that unit tests reach; `UpdateClient` takes its verdicts as given |
| Linked zoom and time tracker | one pure policy without a state of its own, the rest is geometry |
| Other streaming plugins (UDP, WebSocket server, serial port, Foxglove, ZCM, sample) | no dialogue with a peer, or a loop under one mutex; Foxglove follows the Bridge client with a subscription per channel |
| State publishers | one small server nothing depends on |
| Main window, layout, plots | widgets and drawing; what the main window does to data, functions and streams is in `TimeSeries`, `Transforms`, `MqttStream` and `BridgeClient` |
| Plugin discovery, notifications, WASM parsers, message parsers, other file loaders, toolboxes, string and scatter series | sequential conversions, storage or dialogs |
| Scripts and CI, third-party code | outside the program; libraries are modelled as external where the program's behaviour depends on them |

## 2. The modules

### Updater

One action per step of `main()`; `pc[u]` names the next one, in the order of the code:
`validate`, `tryLock`, `preflight`, `openParent`, `awaitParent`, `verify`,
`makeStaging`, `extract`, `checkStaged`, `moveOldAway`, `moveNewIn`, `startProbe`,
`watchProbe`, `relaunchNew`, `dropBackup`, and for the ways back `unwind`,
`moveFailedAside`, `moveBackupBack`, `relaunchOld`. `Return(u, code)` is a return of
`main()`, which destroys the `QLockFile`. A directory is what it holds: a release,
`Absent`, `Broken` (incomplete) or `Altered` (unpacked from bytes other than the
manifest's). `Crash` may happen at every step and releases the lock, because a stale
lock of a dead process is taken over. The application (`AppStart`, `AppExit`, `Launch`)
and the trial (`ProbeConfirms`, `ProbeQuits`, `ProbeFails`) are other processes.
`Faults` is a constant: which of crashes, disk, extraction, package, probe, rename and
spawn failures there are.

*Assumed.* The archive is not rewritten between its verification and its extraction,
two steps of one process; a rename may fail at any time, whatever processes run; code 2
(malformed arguments) never happens, since `launchExternalUpdater` builds the command
line. A power loss is a `Crash` of the updater, of the application and of the trial.

*AtomicUpdate* is what it promises: an update installs its release or leaves the
installation as it was, in one step, unless it is wrecked, and then the old release is
spared. The refinement maps `live` to what counts as installed: the backup, as long as
the updater would roll back to it, and the root otherwise.

### UpdateClient

`UpdateChecker`, `UpdateDownloader` and `UpdateCoordinator` together. `dialogs` is the
stack of suspended handlers: only its top takes an answer, while requests go on under
it. A handler that opens a box and does something after it is two actions, the second
when the box is closed. `files` is what stands at the destination of each package,
`ready` and `launched` are the manifests of the last package and of the updater started.
A package is `Size` chunks, each right or wrong, and data may be short or long.
`orphans` counts the progress dialogs that stay open although `_progress` no longer
points to them; their Cancel buttons work, on whatever download is under way.
`MaxOrphans` bounds them.

### RosbagLoad

Three parties: the worker (`WorkerInforms`, `WorkerWrites`, `WorkerCloses`,
`WorkerReports`, `WorkerExits`, `WorkerFails`), the loader thread (`StartWorker`, then
turns of `ReadOutput`, `ReadControl`, `Check`, and after the process ended `Drain`,
`Accept`, `Reject`, `FallBack`) and the GUI (`Inspect`, `Cancel`, `Finish`). A pipe
holds what has been written; the loader reads any part of it. `bag` fixes which
messages can be read, decoded and parsed and which schemas are known, all combinations.

*Left out.* The order of messages (sets are enough: nothing in the loader depends on
it), several records per message, what a parser pushed before it failed, `PROGRESS`.
The INFO of the text protocol travels on standard output and is read in the control
step. The inspecting worker is modelled by its outcome. `kill` and `waitForFinished`
are assumed to stop the process.

*AtomicLoad* is what a load promises the application: topics are chosen once; then every
message of them appears that can be decoded, once and all in one step, or the data stays
as it was. The refinement maps the choice to its messages, and hides workers, pipes,
passes and counters. Where two names or two schemas of a topic cannot be told apart on
the wire, the second pass may miss or double a topic (§6): the step is still one, its
content is then left open (`exact`).

### MqttStream

Two threads. `loop` is the event loop the GUI serves (main, dialog, box), `call` the
call it is in, during which it serves nothing; `net` is where the network thread is, and
`Holding` its places with `_mutex` held. `posted` is the queue of events for the GUI.
Sections under the plugin's `mutex()` wait for nothing and are single steps. Callbacks
of libmosquitto, the subscriptions at the broker and the loss of a connection are
external. `mosquitto_loop_stop(force)` joins the thread; on the Windows build the
client runs its own `std::thread` and joins it. `_config` is written and read without a
common lock: the topics subscribed on reconnection are the old ones, the new ones or
none. The box the network thread shows for a refused connection may never be closed.

*DataStreamer* is what the main window relies on of any streaming plugin
(`base/include/PlotJuggler/datastreamer_base.h`): topics are chosen while no session is
open, an open session keeps something of those topics only, and when it is closed, by
whomever, all of it is gone in that step. `Kept` is what the mapping counts: callbacks,
parsers, buffered samples and the message the network thread handles. A session is open
from OK to the end of `shutdown`, which is several steps here and one there.

### TimeSeries

`plot` is a series of the main window and `source` the one of the same name that a
streamer or loader fills; a series is its points, its two cached ranges with their dirty
flags, and its limit. The loops of `MergeData` are steps (`Update`, `AppendNext`,
`MergeNext`, `EndMerge`) so that invariants can be stated between them; nothing else
runs meanwhile, because the GUI thread holds the streamer's mutex. `std::sort` may leave
equal times in any order: `Sortings` is all of them. `kept`, `least` and `spoiled` are
history: samples that must not be lost, the smallest limit there has been, and whether
the cached ranges are known to be wrong (see §6).

### BridgeClient

Everything runs in the GUI thread; the interleavings are those of its slots with a
server that may answer each command well, without the list or the schemas, with an
error, or with what `onTextMessageReceived` ignores ("garbled": not JSON, another
`protocol_version`, a status it does not know, a wrong id), confirm any part of what was asked, send frames of what it confirmed, and close at any time. The two
directions of the socket are queues (`toServer`, `toClient`). Handlers share parts, as in
the code: `Send` (`sendCommand`), `Ask` (a command whose answer is awaited), `ResetState`,
`Shutdown`, and for an answer `Expected`, `Settled` and one operator for each branch of
`onTextMessageReceived`. An id is a number that is new in its connection, for a UUID.
`ignored` is history: the answer to the request in flight has come and was ignored. The
code then waits for it until the connection ends (§6); `ReplyDue` says that nothing is
on its way that could end the wait, and `RequestSettles` names it as the exception.

*Left out.* Message boxes, with one exception: the box of a parser that throws is shown
with `mutex()` held, and a replot timer that is running makes the thread wait for itself
(`hung`). `_closing` decides only whether a box is shown. Encodings have a parser.

It implements *DataStreamer* too, by another mapping: a session is open in the modes
Subscribe and Data, the topics chosen are `_config.topics`, and kept are `_topics` and
the parsers. Samples are not in the mapping, as the model does not hold them: of the five
ends only `shutdown` clears the buffer (`websocket_client.cpp:256`).

### MosaicoFetch

The window, the plugin, the worker and its pull threads. `requests` are the calls queued
for the worker, `events` what the GUI thread has to serve, in order; a pull thread that
delivers a schema or a block waits until its event is served, as with a blocking queued
connection. Blocks are numbered and carry their download, so that what is staged and
what is shown (`plotted`) tell where they come from. A client has a number; the pool
takes topics in any order, `PoolSize` at a time. The prefix by which `beginTopicImport`
clears series is a constant relation between topics (`Shadows`). Topics whose schema has
no timestamp column (`untimed`, any set of them) are never imported: their blocks are
dropped without a word, and the topic ends well. Of any other topic a block may be given
up, whole or half staged: its columns may differ from the schema's, and an exception is
swallowed by `guardedBoundary`. `gone` is history: the blocks of the download given up;
`WholeOrNothing` is a promise about the others. A topic is assumed to keep its schema
over the streams of a recorded sequence, so that `untimed` does not change. `mixed` is history: an
answer of another request has reset the error context in a download (see §6), after
which `OneDownload`, `WholeOrNothing` and `GuiReturns` promise nothing.

### Transforms

`series` holds the base series and one per custom function; a sample carries its time
and where it comes from, so that "twice" and "missing" can be told although values are
abstracted. A replot is `Move`, then `Calculate` of each function in the order of
creation, then the loop over the curve's points, step by step (`StartCurve`, `NextPoint`,
`EndCurve`). `Extend` is `CustomFunction::calculate`, `NextPoint` that of
`TransformFunction_SISO` with `getIndexFromX`. `disturbed` is history: functions, or the
curve, whose source changed behind their output (late samples, a file, an edited
function), which the code does not notice. How a series is pushed to, trimmed and merged
is detailed in `TimeSeries`; here a move brings one sample at most.

## 3. What the runs check

Every constant not named is a model value. `CHECK_DEADLOCK FALSE` is given everywhere:
updates, loads and the application itself end, and bounded inputs run out.

| Run | Instance | Distinct states | What it shows |
|---|---|---|---|
| `updater_safety` | 2 updaters, 3 releases, all faults | 367 673 | `RootIsRelease`, `ProvenCopyRemains`, `ExitCodesAreTrue`, `IsAtomicUpdate` (refinement), `UpdaterTerminates` |
| `updater_tidy` | the same; only bad packages, failing probes and failing starts | 29 732 | `NothingLeftBehind`: no directory remains; `SoundUpdateInstalls`: a sound package is installed unless a listed reason prevents it |
| `client_safety` | 2 manifests (1 unsupported), 2 chunks, 2 redirects, 2 lost progress dialogs | 109 368 | `LaunchedIsVerified`, `BusyStateIsTrue`, `DownloadCancellable`, `DialogsBounded`, `RequestsEnd` |
| `client_unsupported` | the same, 1 lost dialog | — | violation: an unsupported release is installed |
| `rosbag_safety` | 2 messages on 2 connections and topics, all protocols and bags up to an exchange of the topics | 1 648 546 | `NothingLost`, `IsAtomicLoad` (refinement), `FailureIsFinal`, `LoadEnds`, `CancelHonoured` |
| `rosbag_undecoded` | 2 messages | — | violation: a load that decodes nothing succeeds |
| `mqtt_safety` | 2 topics, 2 protocols, 2 messages, 1 fault | 1 098 774 | `SessionsApart`, `IsDataStreamer` (refinement), `NoOrphanThread`, `GuiReturns`, `DataShown` |
| `mqtt_shutdown` | 1 topic, 1 protocol, 1 message | — | violation: Stop never returns |
| `bridge_safety` | 2 topics, 2 connections, 5 commands in each, 2 frames | 586 390 | `ReplyDue`, `StreamAgreed`, `IsDataStreamer` (refinement), `RequestSettles` |
| `mosaico_safety` | 2 topics (one's name begins the other's), a pool of 2, 1 block each, 2 downloads, 2 clients, 1 list by a click, plaintext allowed, any set of topics without timestamps | 1 399 831 | `OneDownload`, `WholeOrNothing`, `ReportsDue`, `ClientAlive`, `DownloadSettles`, `GuiReturns` |
| `series_safety` | times 1, 2, 4, values 1, 2 and NaN, limit 2 or none, 3 files, 4 samples pushed, 6 in all | 2 363 562 | `SortedInWindow`, `NothingLost`, `RangesTrue`, `NearestSample` |
| `transforms_safety` | 2 functions in a chain, 3 created, 4 samples at times 1, 2, 4, limit 1 or none, 2 files, 2 replots | about 4.58 million | `OnceEach`, `MirrorsSource`, `CaughtUp`, `CurveShowsAll` |

The type invariant `TypeOK` of each module is a conjunct of its inductive invariant
`IInv`, which is proved (§4). `SessionsApart`, `SortedInWindow` and `RequestsEnd` are
conjunctions of two properties each, with a mutant for either half. The refinements stand
for the invariants they imply, which are not repeated in the runs: that a load merges
nothing twice and nothing if it fails (`OnceEach`, `AllOrNothing`), and that after
`shutdown` nothing is parsed or buffered (`StoppedIsEmpty`); each is a theorem as well.

*Why the bounds are enough.* An updater meets others only through the root and the
lock: two show every interleaving of one with another, and three releases let both
updates differ from the installed one and from each other. Three updaters with two
releases were also checked once (3.7 million states, no violation). In the client the
second manifest is the one that replaces the first while its dialog is open; a third
would replace again. A second chunk is the first that can be cut, a second redirect the
first that is not the limit; a second lost progress dialog is the first that is lost
while another one is. In the loader two messages are one per pass, or one read
and one still in the pipe. Two MQTT messages are one that creates a parser and one that
finds it, or one for each topic; one fault is followed by a reconnection. In the series
six samples fill both batches of three, the smallest in which the ends agree and the
middle does not; times 1, 2, 4 give spans below, at and above the limit, equal times, and
a tie for the nearest; `{1, 2}` and NaN are enough for extremes that come and go. In
the Bridge five commands are the first list, one poll, the subscription and two among
pauses and heartbeats, so that an answer nobody awaits is before and after the awaited
one; the second connection finds what the first has left. In Mosaico two topics end in
every order, well or not, and the second download starts while blocks of the first are
on their way. In `Transforms` three functions created are a chain of two and one edited
or deleted and made again; four samples let the buffer trim two and one come late.

*Fairness.* `Updater`: weak fairness of each updater's steps and of a trial that has not
hung, since every wait in `main.cpp` has a deadline; users owe nothing, and a crash or a
hang ends the obligation of the process. `UpdateClient`: weak fairness of the checker's
and the downloader's steps, whose requests have deadlines (`update_checker.cpp`,
`update_downloader.cpp`); none of the user's. `RosbagLoad`: weak fairness of the loader
thread, whose waits last milliseconds, and of the GUI that waits for it; none of the
worker, and `LoadEnds` assumes the worker's within the property. `MqttStream`: a thread
that can go on does (weak fairness of calls and callbacks); strong fairness of posted
events and of the replot timer, because the event loop serves posted events before
timers, and each timer in turn, whenever it gets to run, however often a call interrupts
it. None of the user's, the broker's or the box's. `BridgeClient`: weak fairness
of the server's answers, and of the event loop for what has arrived; the code has no
timeout for an answer, so `RequestSettles` is a promise to a server that answers in a
form the code takes, or closes. `MosaicoFetch`: weak fairness of the event loop, of the worker and of each pull
thread: a read ends as long as the server sends or closes, for the code gives its
streams no deadline.

## 4. What is proved

Each proof module extends its component and TLAPS; each theorem is `Spec => []P` (or an
action property), for any number of updaters, releases, manifests, chunks, redirects,
messages, topics, protocols, commands, connections, downloads, clients, functions, times,
values and files, under the named `ASSUME` of its module only, and for four of them
under a hypothesis named below.

**UpdaterProofs.** `Invariant`, and from it `TypeCorrect`, `Exclusive`,
`RootAlwaysRelease`, `CopyAlwaysRemains`, `ExitCodesTrue`, `ParentClosedBeforeSwap`,
`AtomicityRefined` and, under the hypothesis `NoDamage` that no file operation fails and
no updater dies, `NothingEverLeftBehind`. The properties alone are not inductive: that a proven release
remains depends on where the old and the new tree are at each step. `IInv` therefore
adds `LockIsHeld`, what the updater knows (`Bookkeeping`), where the trees are
(`Placement`), how far the trial is (`Progress`), and `TrialIsCovered`: as long as a
trial may fail, some backup holds a release known to run, in the hands of the lock's
holder or of an updater that told it did not clean up. There is one lemma per conjunct,
with a case per action. The refinement follows from `IInv` and one lemma per abstract
variable: a step commits, rejects or wrecks one update, or changes nothing of the four.
That nothing is left behind needs `Tidy`: between which steps each of the three
directories may hold something. Under the same hypothesis `SoundlyInstalled` is the safety
half of `SoundUpdateInstalls`: a sound package is refused only for one of the listed
reasons (`Excused`). `RootHeld` says when the root may be missing, so that every rename
finds its source and a free destination (`RenamesDone`), and `Sound` lists the exit codes
that remain. `StepsAlwaysDescend` and `UpdatersNeverStuck` are the safety half of
`UpdaterTerminates`: `StepsLeft` numbers the steps of `main()`, each one taken lowers the
number, and the three steps that need the parent, the probe or the disk find what they
need (`Watched`).

**UpdateClientProofs.** `Invariant`, `LaunchedAlwaysVerified`, `BusyStateAlwaysTrue`,
`DownloadAlwaysCancellable`, `DialogInvariant`, `DialogsAlwaysBounded`. That a download
can always be cancelled holds although an offer accepted meanwhile deletes the dialog
`_progress` points to: the one it pointed to before is lost, but open, and only its own
Cancel closes it. That dialogs are at most three needs `DialogInv`: counting what
is open and what will be opened, it is at most two until the automatic check was made
and three after, because the automatic check is the only one made over a dialog of
another request. `RequestsAlwaysDescend` is the safety half of `RequestsEnd`: the chunks
and redirects left are counted down by each answer (`DownloadLeft`, `CheckLeft`), and no
dialog raises them but a new check in the place of the old one.

**RosbagLoadProofs.** `Invariant`, `TypeCorrect`, `MergesAllOrNothing`,
`NothingEverLost`, `AlwaysOnceEach`, `FailureAlwaysFinal`. `IInv` follows the passes:
what is read has been written (`PipeInv`), what is in the data is what was read
(`DataInv`) plus the first pass (`Before`), and a verdict of success implies that the
counts agree, from which `SameCount` (finite sets of equal size, one in the other, are
equal) concludes that everything was read. `LoadIsAtomic` is the refinement of
`AtomicLoad`. Steps of the worker and of the loader thread stutter (`Unseen`); what
remains is the two steps of the GUI, `Inspect` and `Finish`. For the latter `DataIsExact`
tells that the data about to be merged is once everything that can be decoded of what
was chosen: with one pass because the pass decodes what its protocol can
(`OnePassDecodes`), with two because the second was asked for exactly the messages whose
connection the first could not decode (`AskedAgain`). The choice of a failed or repeated
inspection must be empty for that, which `ReadyInv` adds. `LoadAlwaysDescends` is the
safety half of `LoadEnds` and `CancelHonoured`: once the loader is cancelled or its worker
is gone, `StepsLeft` falls with each of its steps; the loop has at most one turn to read
what the pipes still hold and one to notice (`TurnsLeft`).

**MqttStreamProofs.** `Invariant`, `TypeCorrect`, `SessionsAlwaysApart`,
`StoppedAlwaysEmpty`, `NeverOrphanThread`. `IInv` adds what
phase the GUI is in (`Phases`), that only a stream that starts, runs or stops has
anything (`StreamsOnly`), that a network thread lives if and only if the client knows of
it or is starting it (`ThreadKnown`), and that exactly one request for a parser is posted,
of the topic and protocol of the session, while its thread waits (`OneRequest`,
`RequestWaits`). From these follows `WaitsAlwaysEnd`, the safety half of `GuiReturns`: a
call of the GUI thread can return, or is `Hung`, or waits for a network thread that waits
for nobody. `DataAlwaysHasWay` is that of `DataShown`, under its hypothesis that Pause is
never used: what is in the buffer is announced, or the replot timer is set. `StreamerRefined` is the
refinement of `DataStreamer`: `KeptRight`, which `IInv` implies before and after a step,
says that what is kept is of the topics chosen and nothing is without a session; with
it, each step that changes neither the choice nor the session (`OtherSteps`) is at most
an abstract `Keep`, `ChoiceRefines` and `CloseRefines` are the rest. Only a loop that is
not the dialog's can run a stream (`Phases`), so no session opens twice.

**TimeSeriesProofs.** `Invariant`, `TypeCorrect`, `AlwaysSortedInWindow`,
`NearestAlwaysFound`, `NothingEverLost`, `RangesAlwaysTrue`. `IInv` states order and window between the steps of a move: they
hold in every loop but the ones that push unsorted, which set the flag that makes
`EndMerge` sort. The searches (`UpTo`, `TrimStops`, `IndexFromX`) are minima of sets of
numbers; `Least` shows that they exist and what lies below them, and lemmas about
`Trim`, `Limited`, `Pushed` and `Resorted` carry the order to the actions. That no
sample is lost is seen only with the batch that is still to be moved: `Complete` says that
every sample kept is in the plot or pending, or that some kept sample is later by more
than the shortest limit there was. The latest sample kept is always among them
(`Latest`), because a trim stops before the last, and it is the witness for whatever a
trim drops. `RangesKnown` says where a false range may be: in a merge that has sorted or
is going to.

**BridgeClientProofs.** `Invariant`, `TypeCorrect`, `RepliesAlwaysDue`,
`StreamAlwaysAgreed`. That an awaited answer is on its way says nothing of which message
it is; `IInv` adds that ids on the way are distinct and new (`OneEach`), so the message
with the pending id is the awaited one, and once it is served, or ignored, no other
tracked command is left. While an answer is ignored no command of another kind has the
pending id (`Owned`), so that nothing ends the wait by mistake. `Known` says that the topics of plugin and server agree, or differ by the
answer on its way, and `FramesLast` that a frame is behind the answer that confirms its
topic: the frame at the head of the queue is therefore served in Data mode. There is one
lemma per way to change the queues (sent, asked, answered, framed, taken, emptied).
`StreamerRefined` shows that this plugin implements the same `DataStreamer` as MQTT: each
of the 19 actions is of one of five kinds for the session (`SessionStep`: it stays, ends,
opens, topics change without one, or it goes on with fewer topics), and each kind keeps
`KeptRight` and is one abstract step or none (`StreamerStep`). What it rests on: a list
of topics, which changes the selection, is served only while the list is awaited
(`ReplyDue`), so never in a session; and a session that opens finds no parser (`Known`).

**MosaicoFetchProofs.** `Invariant`, `TypeCorrect`, `AlwaysOneDownload`,
`AlwaysWholeOrNothing`, `ReportsAlwaysDue`, `ClientAlwaysAlive`,
`HandOverAlwaysEnds`. `IInv` places every
topic that is due in exactly one place, a thread or one event, and the counter counts
them (`OnePlace`, `Counted`); a block is staged, given up (`gone`) or in the event that brings
it, and the series it goes to was emptied before, unless its topic is never imported
(`Kept`, `EmptiedFirst`). `HandOverAlwaysEnds` is the
safety half of `GuiReturns`: a client is handed over outside a download only, and its
request is not lost (`WaitsFor`), so nothing the worker does waits for the GUI thread.

**TransformsProofs.** `Invariant`, `TypeCorrect`, `AlwaysOnceEach`, `AlwaysCaughtUp`,
`AlwaysMirrorsSource` and, for a transform that shifts no time (`Shift = 0`),
`CurveAlwaysShowsAll`. Series stay sorted and each sample keeps the time of the base sample it comes from
(`Kept`), so "later than the last output" never takes one twice; functions are
calculated in their order (`InOrder`), so one that is done is not behind its source
(`UpToDate`). That a function mirrors its source rests on `Mirroring`: what it has over its
source was taken before a trim of the source, lies at the front and is what its own trim
by the same limit drops; what the source has over it is later than all it has
(`Follows`, `Tight`). That the curve shows all rests on `Showing`: after an update the
series ends where the curve has taken it up to (`Settled`); while samples wait, that end
is still in the series and what is before it was there (`Awaited`); within the loop
every sample passed is taken (`InLoop`). With a time offset the curve does skip samples
(§6), so the second needs its assumption.

**Only model-checked.** Liveness (`UpdaterTerminates`, `SoundUpdateInstalls`,
`RequestsEnd`, `LoadEnds`, `CancelHonoured`, `DataShown`, `RequestSettles`,
`DownloadSettles`, both `GuiReturns`): the prover has no rule for fairness. What of each
is a safety property is proved: that nobody waits for what never comes (`WaitsAlwaysEnd`,
`DataAlwaysHasWay`, `HandOverAlwaysEnds`, `UpdatersNeverStuck`; `RepliesAlwaysDue` for
`RequestSettles`, `ReportsAlwaysDue` for `DownloadSettles`), that nobody is sent back
(`StepsAlwaysDescend`, `RequestsAlwaysDescend`, `LoadAlwaysDescends`) and that nothing but
the listed reasons ends in a refusal (`SoundlyInstalled`). That the enabled step is then
taken is what TLC adds, under the fairness of the runs.
And the violations. Every safety property of the passing runs and each of the four refinements, of three
abstract specifications, is proved, `NothingLeftBehind` and `CurveShowsAll` under the hypotheses above.

## 5. Where the code does not do what is said of it

* `client_unsupported` — a release outside the support range "will not be" installed
  automatically (`update_coordinator.cpp:137`); line 80 offers it all the same.
* `rosbag_undecoded` — "None of the selected ROS bag messages could be decoded." never
  appears in raw-v1, whose counts are of what was forwarded
  (`dataload_rosbag.cpp:857`).
* `mqtt_shutdown` — Stop, as the first message of a topic arrives, hangs: the GUI joins
  the network thread, which waits for the GUI to make a parser
  (`datastream_mqtt.cpp:181`, `mqtt_client.cpp:242`).

## 6. Seen while modelling, without a run

* `check()` refuses a check while an operation is under way
  (`update_coordinator.cpp:113`), but asks `_state`, which other handlers set to `Idle`
  during a download (lines 27, 41, 143): a check may run beside it, as an earlier
  run of `UpdateClient` showed.
* While the question of a finished download is open (`update_coordinator.cpp:80-83`, its
  text names the file), the automatic check may offer a second release, whose download
  replaces `_readyManifest` when it is complete: a Yes to the first question then
  installs the second release. An offer accepted during a download is refused, and
  leaves the first download with a dialog nothing points to (line 156); that one stays
  open after its download, and its Cancel cancels a later one.
* A topic whose name ends in a slash and that has no C++ parser is skipped by the second
  pass: `extract_rosbag.py:403` strips the slash, line 524 compares whole names. That is
  why `NothingLost` and `OnceEach` speak of `PlainNames`.
* MQTT: when Pause is unchecked, what was received meanwhile shows with the next message
  only; after Stop the dialog's list is live until its timer fires, and OK starts a
  stream without a connection; a lost connection does not emit `closed()`
  (`datastreamer_base.h:91`); failures counted while the notification box is open are
  hidden when it closes (`datastreamer_base.h:99`).
* Series: `sort()` starts from the range `[lowest, max]` and combines the wrong way
  round, so that after an overlapping merge the cached range is inverted and said to be
  clean (`timeseries.h:104-124`); a NaN widens the range of the times
  (`plotdatabase.h:359`); a batch with the same times overwrites values and leaves their
  range (`utils.cpp:39-42`), while one that merely overlaps keeps both samples of a time.
  The model has all of it; `RangesTrue` holds while none of it has happened
  (`~spoiled`).
* ZMQ: the hang of `mqtt_shutdown` (`datastream_zmq.cpp:355`, 214); parsers of an earlier
  session are found again (line 330), since nothing clears `_parsers`; an empty part
  leaves the loop in the middle of a message (lines 240, 256); with a third part the
  payload's reference outlives its buffer (line 267 rebuilds the message `msg` points
  into).
* Updater: the parent is opened by its pid after the lock, the space check and a walk
  over the installation; one that exited normally by then cannot be opened, and the
  update ends with code 7 (`tools/updater/main.cpp:50`; `docs/UPDATER.md:17` asks for a
  normal exit). The probe is said not to be killed (`main.cpp:124`, 131,
  `docs/UPDATER.md:29`), and the destructor of the local `QProcess` of `runHealthProbe`
  kills it (`main.cpp:98`). Earlier runs of `Updater` showed both.
* Bridge: an answer that is not JSON, has another `protocol_version` or a status that is
  neither success nor error is dropped (`websocket_client.cpp:391-402`, 431-434) without
  clearing `req_in_flight`, which has no timeout: the list, the OK button and the pause
  do nothing until the connection ends.
* Bridge: after `shutdown()` `_closing` stays true, because the `disconnected` of the
  abort finds `_running` false and returns first (`websocket_client.cpp:353`): the next
  "Server closed the connection" is not shown. A subscription that is refused leaves the
  mode at Subscribe, without a stream and without a retry (line 416). The box of a parser
  that throws is shown with `mutex()` held (lines 547, 805), and a replot timer that
  fires before it is closed locks it again in the same thread. A lost connection stops
  the plugin without `closed()` (`datastreamer_base.h:91`) and without resetting
  `_paused`: the next session starts with Resume. A dialog that is cancelled while the
  socket connects leaves a connection that opens afterwards, and the next Start finds
  the plugin running and shows no dialog (line 132); one closed by its window while
  connected starts a stream that is subscribed to nothing.
* Mosaico: a list of sequences or an error of another request that is served in a
  download resets `error_context_` (`main_window.cpp:405`, 924), so that
  `finishFetchBatch` never runs and the blocks end up in the next download; the comment
  at line 981 says that no client is replaced "while any RPC is in flight", and the test
  sees downloads only. A topic whose metadata could not be fetched stays "in flight" for
  good (`fetch_worker.cpp:147`). `beginTopicImport` clears every series whose name begins
  like the topic's, before anything has arrived (`toolbox_mosaico.cpp:447`).
  `onTopicsReady` does not ask whether its sequence is still the one selected (line 471).
  The destructor of the window may wait for a worker that waits for it (lines 127-134).
  The blocks of a topic that failed half-way are imported with the others. A topic without
  a timestamp column is not imported, nor is a block that does not fit the schema, and an
  exception drops the rest of one (`toolbox_mosaico.cpp:428`, 468-490, 291-306): the
  download ends as "imported" all the same, and where no schema was taken the series of
  an earlier download stay on the screen.
* Functions and transforms: the transform of a curve is given its last sample again at
  every replot (`>=`, `transform_function.cpp:65`), which an integral or a moving window
  adds again; the index goes back after a trim, against "Index will increase
  monotonically" (`transform_function.h:109`); with a time offset, or the derivative's
  earlier output time, samples are skipped or doubled, because `reset` takes the last
  time from the output. Late samples are never transformed. An edited function is newer
  than its dependents, which lag one replot behind it, and stay stale until Refresh. A
  toolbox's `importData` replaces a series without clearing the functions on it. A
  custom function that misses an additional channel throws out of
  `updateDataAndReplot`.

## 7. What is left

In the order in which it would add most: `ZmqStream`, whose framing of multipart
messages is its own (empty parts, a third part, parsers of an earlier session, see §6),
and which keeps parsers over its sessions, so that it is no `DataStreamer` as it stands;
functions with several outputs and additional sources in `Transforms`.
