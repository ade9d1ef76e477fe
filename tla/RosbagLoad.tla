----------------------------- MODULE RosbagLoad -----------------------------
(***************************************************************************)
(* Loading a ROS bag (plotjuggler_plugins/DataLoadROSBag and its worker    *)
(* runtime/rosbag_python/extract_rosbag.py).                               *)
(*                                                                         *)
(* Three parties run at once: the GUI thread, which shows a progress       *)
(* dialog and waits; a loader thread, which runs a Python worker process   *)
(* and decodes what it writes; the worker, which writes frames to its      *)
(* standard output and control records to its standard error, two pipes    *)
(* the loader reads one after the other.  A ROS1 bag is first read as raw  *)
(* messages decoded in C++ (raw-v1); topics whose schema has no C++ parser *)
(* are read again by a second worker that decodes them (binary-v1).  What  *)
(* was decoded is merged into the application's data at the end.           *)
(*                                                                         *)
(* The order of messages is left out: a pipe holds a set of messages, of   *)
(* which the loader reads whatever has been written.                       *)
(***************************************************************************)
EXTENDS Integers, FiniteSets

CONSTANTS
  Messages,      \* the messages the bag's index counts
  Connections,   \* its connections, each with a schema
  Topics,        \* names of topics
  ConnectionOf,  \* the connection of each message
  TopicOf,       \* the topic of each connection
  Wire           \* the name each topic has on the wire (rstrip("/"))

ASSUME BagAssumption ==
  /\ IsFiniteSet(Messages)
  /\ ConnectionOf \in [Messages -> Connections]
  /\ TopicOf \in [Connections -> Topics]
  /\ Wire \in [Topics -> Topics]

VARIABLES
  bag,         \* what reading and decoding do to each message, fixed
  protocol,    \* the LoadProtocol selected
  chosen,      \* the topics selected in the dialog
  cancel,      \* result->cancel_requested
  pc,          \* where the loader, or the GUI around it, is
  pass,        \* the protocol of the worker that runs or ran last
  requested,   \* the topics of its --topics-file
  worker,      \* its process
  written,     \* the messages it has written
  closed,      \* whether it has written the frame that ends the stream
  info,        \* whether it has written INFO
  end,         \* whether it has written DONE, or ERROR
  noticed,     \* whether the loader knows that it is not running
  got,         \* the messages the loader has decoded or skipped
  finished,    \* _done of the decoder: the last frame has been decoded
  control,     \* what result keeps of INFO and DONE
  warned,      \* whether result->warnings is not empty
  error,       \* whether result->error is not empty
  canceled,    \* result->canceled
  data,        \* result->data: how often each message was decoded into it
  outcome,     \* what readDataFromFile did
  merged       \* how often each message was merged into the destination

process == <<worker, written, closed, info, end>>
decoder == <<noticed, got, finished>>
result == <<control, warned, error, canceled, data>>
stage == <<protocol, chosen, pass, requested>>
vars == <<bag, cancel, pc, stage, process, decoder, result, outcome, merged>>

Protocols == {"text", "binary", "raw"}
Workers == {"none", "running", "exited", "failed", "killed"}
Stages == {"inspect", "start", "read", "control", "check", "drain", "accept", "return", "end"}

\* readable: what the reader yields; decodable: what deserialize takes; parsable:
\* what parseMessage takes; known: connections whose schema has a C++ parser.
Bags ==
  [readable : SUBSET Messages, decodable : SUBSET Messages,
   parsable : SUBSET Messages, known : SUBSET Connections]

\* info_messages, done_messages and done_emitted, -1 while not received.
Controls == [info : Int, messages : Int, emitted : Int]

TypeOK ==
  /\ bag \in Bags
  /\ protocol \in Protocols
  /\ chosen \subseteq Topics
  /\ cancel \in BOOLEAN
  /\ pc \in Stages
  /\ pass \in Protocols
  /\ requested \subseteq Topics
  /\ worker \in Workers
  /\ written \subseteq Messages
  /\ closed \in BOOLEAN
  /\ info \in BOOLEAN
  /\ end \in {"none", "DONE", "ERROR"}
  /\ noticed \in BOOLEAN
  /\ got \subseteq Messages
  /\ finished \in BOOLEAN
  /\ control \in Controls
  /\ warned \in BOOLEAN
  /\ error \in BOOLEAN
  /\ canceled \in BOOLEAN
  /\ data \in [Messages -> Nat]
  /\ outcome \in {"none", "loaded", "failed", "cancelled"}
  /\ merged \in [Messages -> Nat]

Init ==
  /\ bag \in Bags
  /\ protocol \in Protocols           \* selectedLoadProtocol
  /\ chosen = {}
  /\ cancel = FALSE
  /\ pc = "inspect"
  /\ pass = protocol
  /\ requested = {}
  /\ worker = "none"
  /\ written = {}
  /\ closed = FALSE
  /\ info = FALSE
  /\ end = "none"
  /\ noticed = FALSE
  /\ got = {}
  /\ finished = FALSE
  /\ control = [info |-> -1, messages |-> -1, emitted |-> -1]
  /\ warned = FALSE
  /\ error = FALSE
  /\ canceled = FALSE
  /\ data = [m \in Messages |-> 0]
  /\ outcome = "none"
  /\ merged = [m \in Messages |-> 0]

Topic(m) == TopicOf[ConnectionOf[m]]

\* The messages of the topics in ts.
Of(ts) == {m \in Messages : Topic(m) \in ts}

\* What the worker's reader yields.
Yield == Of(requested) \cap bag.readable

-----------------------------------------------------------------------------
\* The worker process: main(), stream_raw and stream_fields.

\* INFO, with the number of messages the index counts.
WorkerInforms ==
  /\ worker = "running"
  /\ ~info
  /\ end = "none"
  /\ info' = TRUE
  /\ UNCHANGED <<bag, cancel, pc, stage, worker, written, closed, end, decoder, result, outcome, merged>>

WorkerWrites ==
  /\ worker = "running"
  /\ info
  /\ end = "none"
  /\ \E m \in Yield \ written : written' = written \cup {m}
  /\ UNCHANGED <<bag, cancel, pc, stage, worker, closed, info, end, decoder, result, outcome, merged>>

\* The frame that ends the stream follows the last message.
WorkerCloses ==
  /\ worker = "running"
  /\ info
  /\ end = "none"
  /\ written = Yield
  /\ closed' = TRUE
  /\ UNCHANGED <<bag, cancel, pc, stage, worker, written, info, end, decoder, result, outcome, merged>>

WorkerReports ==
  /\ worker = "running"
  /\ closed
  /\ end = "none"
  /\ end' = "DONE"
  /\ UNCHANGED <<bag, cancel, pc, stage, worker, written, closed, info, decoder, result, outcome, merged>>

WorkerExits ==
  /\ worker = "running"
  /\ end = "DONE"
  /\ worker' = "exited"
  /\ UNCHANGED <<bag, cancel, pc, stage, written, closed, info, end, decoder, result, outcome, merged>>

\* An exception, reported before exit code 2, or a death at any point.
WorkerFails ==
  /\ worker = "running"
  /\ worker' = "failed"
  /\ end' \in {end} \cup (IF end = "none" THEN {"ERROR"} ELSE {})
  /\ UNCHANGED <<bag, cancel, pc, stage, written, closed, info, decoder, result, outcome, merged>>

-----------------------------------------------------------------------------
\* The decoders.

\* Messages a decoder of pass p turns into data.
Decodes(p) ==
  IF p = "raw"
  THEN {m \in bag.parsable : ConnectionOf[m] \in bag.known}
  ELSE bag.decodable

\* The connections the raw decoder has no parser for, by topic: failedTopics().
Unknown == {c \in Connections \ bag.known : TopicOf[c] \in requested}

Failed == {Wire[TopicOf[c]] : c \in Unknown}

\* How often a message is in a set.
In(m, ms) == IF m \in ms THEN 1 ELSE 0

\* What is read of the standard output: messages, and the end once all are.
ReadsOutput ==
  /\ got' = written
  /\ finished' = closed
  /\ data' = [m \in Messages |-> data[m] + In(m, (written \ got) \cap Decodes(pass))]

\* What is read of the standard error: WARN of messages that were not decoded,
\* INFO with the size of the selection, DONE with the counts, or ERROR.
Emitted(p, ms) == IF p = "raw" THEN Cardinality(ms) ELSE Cardinality(ms \cap bag.decodable)

ReadsControl ==
  /\ control' =
       [info |-> IF info THEN Cardinality(Of(requested)) ELSE control.info,
        messages |-> IF end = "DONE" THEN Cardinality(written) ELSE control.messages,
        emitted |-> IF end = "DONE" THEN Emitted(pass, written) ELSE control.emitted]
  /\ warned' = (warned \/ (pass # "raw" /\ ~(written \subseteq bag.decodable)))

-----------------------------------------------------------------------------
\* The loader thread: runWorkerProcess.

\* QProcess::start, which may fail.
StartWorker ==
  /\ pc = "start"
  /\ \/ /\ worker' = "running"
        /\ written' = {}
        /\ closed' = FALSE
        /\ info' = FALSE
        /\ end' = "none"
        /\ noticed' = FALSE
        /\ got' = {}
        /\ finished' = FALSE
        /\ pc' = "read"
        /\ UNCHANGED error
     \/ /\ error' = TRUE
        /\ pc' = "return"
        /\ UNCHANGED <<process, decoder>>
  /\ UNCHANGED <<bag, cancel, stage, control, warned, canceled, data, outcome, merged>>

\* One turn of the loop: up to 20 ms are waited, for output, or for the end of the
\* process once there is none; what there is is read, and may be invalid.
Pending == got # written \/ finished # closed

ReadOutput ==
  /\ pc = "read"
  /\ noticed' \in {worker # "running"} \cup (IF Pending THEN {FALSE} ELSE {})
  /\ \/ /\ ReadsOutput
        /\ UNCHANGED error
     \/ /\ error' = TRUE
        /\ UNCHANGED <<got, finished, data>>
  /\ pc' = "control"
  /\ UNCHANGED <<bag, cancel, stage, process, control, warned, canceled, outcome, merged>>

ReadControl ==
  /\ pc = "control"
  /\ ReadsControl
  /\ error' = (error \/ end = "ERROR")
  /\ pc' = "check"
  /\ UNCHANGED <<bag, cancel, stage, process, decoder, canceled, data, outcome, merged>>

Killed == worker' = IF worker = "running" THEN "killed" ELSE worker

\* Variant: the loop asks for a cancellation before the process only.
CheckOnce ==
  /\ pc = "check"
  /\ IF error THEN Killed ELSE UNCHANGED worker
  /\ canceled' = (canceled \/ (cancel /\ noticed))
  /\ pc' = IF error \/ noticed THEN "drain" ELSE "read"
  /\ UNCHANGED <<bag, cancel, stage, written, closed, info, end, decoder, control, warned, error, data, outcome, merged>>

\* Variant: the loop ends by a cancellation or an error only.
CheckForever ==
  /\ pc = "check"
  /\ IF cancel \/ error THEN Killed ELSE UNCHANGED worker
  /\ canceled' = (canceled \/ cancel)
  /\ pc' = IF cancel \/ error THEN "drain" ELSE "read"
  /\ UNCHANGED <<bag, cancel, stage, written, closed, info, end, decoder, control, warned, error, data, outcome, merged>>

\* The end of the turn: a cancellation comes before an error.
Check ==
  /\ pc = "check"
  /\ IF cancel \/ error THEN Killed ELSE UNCHANGED worker
  /\ canceled' = (canceled \/ cancel)
  /\ pc' = IF cancel \/ error \/ noticed THEN "drain" ELSE "read"
  /\ UNCHANGED <<bag, cancel, stage, written, closed, info, end, decoder, control, warned, error, data, outcome, merged>>

\* Variant: the exit code and status are not asked for.
DrainUnchecked ==
  /\ pc = "drain"
  /\ IF error THEN UNCHANGED <<got, finished, data>> ELSE ReadsOutput
  /\ ReadsControl
  /\ error' = (error \/ end = "ERROR")
  /\ pc' = IF canceled \/ error' THEN "return" ELSE "accept"
  /\ UNCHANGED <<bag, cancel, stage, process, noticed, canceled, outcome, merged>>

\* What the pipes still hold is read, and the exit code asked for.
Drain ==
  /\ pc = "drain"
  /\ IF error THEN UNCHANGED <<got, finished, data>> ELSE ReadsOutput
  /\ ReadsControl
  /\ error' = (error \/ end = "ERROR" \/ (~canceled /\ worker # "exited"))
  /\ pc' = IF canceled \/ error' THEN "return" ELSE "accept"
  /\ UNCHANGED <<bag, cancel, stage, process, noticed, canceled, outcome, merged>>

-----------------------------------------------------------------------------
\* The loader thread: what runTextLoadProcess, runBinaryLoadProcess and
\* runRawLoadProcess ask of what was read.

\* Variant: INFO is not compared.
CompleteByDone ==
  /\ control.messages # -1
  /\ control.emitted = Emitted(pass, got)
  /\ pass # "text" => finished /\ control.messages = Cardinality(got)

\* INFO and DONE were received, and the counts agree with each other and with
\* what was decoded; framed streams have ended and count messages as well.
Complete ==
  /\ control.info # -1
  /\ control.messages # -1
  /\ control.info = control.messages
  /\ control.emitted = Emitted(pass, got)
  /\ pass # "text" => finished /\ control.messages = Cardinality(got)

\* decoder.warnings(): schemas that threw, and messages that did not parse.
\* A factory may also return no parser without throwing.
RawWarns ==
  \/ warned
  \/ Failed # {}
  \/ \E m \in got : ConnectionOf[m] \in bag.known /\ m \notin bag.parsable

Reject ==
  /\ pc = "accept"
  /\ \/ ~Complete
     \/ (pass = "raw" /\ Failed # {})   \* no temporary file for the fallback
  /\ error' = TRUE
  /\ pc' = "return"
  /\ UNCHANGED <<bag, cancel, stage, process, decoder, control, warned, canceled, data, outcome, merged>>

Accept ==
  /\ pc = "accept"
  /\ Complete
  /\ pass = "raw" => Failed = {}
  /\ warned' = IF pass = "raw" THEN RawWarns ELSE warned
  /\ control' =
       IF protocol = "raw"              \* the counts of the raw pass are put back
       THEN [info |-> Cardinality(Of(chosen)), messages |-> Cardinality(Of(chosen)),
             emitted |-> Cardinality(Of(chosen))]
       ELSE control
  /\ pc' = "return"
  /\ UNCHANGED <<bag, cancel, stage, process, decoder, error, canceled, data, outcome, merged>>

\* Variant: every topic is read again.
FallBackOnAll ==
  /\ pc = "accept"
  /\ Complete
  /\ pass = "raw"
  /\ Failed # {}
  /\ pass' = "binary"
  /\ UNCHANGED requested
  /\ warned' = TRUE
  /\ pc' = "start"
  /\ UNCHANGED <<bag, cancel, protocol, chosen, process, decoder, control, error, canceled, data, outcome, merged>>

\* A second worker for the topics without a parser.
FallBack ==
  /\ pc = "accept"
  /\ Complete
  /\ pass = "raw"
  /\ Failed # {}
  /\ pass' = "binary"
  /\ requested' = Failed
  /\ warned' = TRUE
  /\ pc' = "start"
  /\ UNCHANGED <<bag, cancel, protocol, chosen, process, decoder, control, error, canceled, data, outcome, merged>>

-----------------------------------------------------------------------------
\* The GUI thread: readDataFromFile.

\* The index is read by a worker of its own; it may fail, the user may cancel
\* it or the choice of topics; at least one topic is chosen.
Inspect ==
  /\ pc = "inspect"
  /\ \/ /\ outcome' \in {"failed", "cancelled"}
        /\ pc' = "end"
        /\ UNCHANGED <<chosen, requested>>
     \/ /\ chosen' \in (SUBSET {TopicOf[c] : c \in Connections}) \ {{}}
        /\ requested' = chosen'
        /\ pc' = "start"
        /\ UNCHANGED outcome
  /\ UNCHANGED <<bag, cancel, protocol, pass, process, decoder, result, merged>>

\* The Cancel button of the progress dialog, while the loader runs.
Cancel ==
  /\ pc \notin {"inspect", "end"}
  /\ cancel' = TRUE
  /\ UNCHANGED <<bag, pc, stage, process, decoder, result, outcome, merged>>

\* "None of the selected ROS bag messages could be decoded."
NothingDecoded ==
  /\ control.info > 0
  /\ control.emitted = 0
  /\ warned

\* Variant: data is merged before the error is asked for.
FinishEager ==
  /\ pc = "return"
  /\ pc' = "end"
  /\ \/ /\ canceled
        /\ outcome' = "cancelled"
        /\ UNCHANGED merged
     \/ /\ ~canceled
        /\ outcome' = IF error \/ NothingDecoded THEN "failed" ELSE "loaded"
        /\ merged' = data
  /\ UNCHANGED <<bag, cancel, stage, process, decoder, result>>

\* waitForLoad returns; mergeData is the last thing done.
Finish ==
  /\ pc = "return"
  /\ pc' = "end"
  /\ \/ /\ canceled
        /\ outcome' = "cancelled"
        /\ UNCHANGED merged
     \/ /\ ~canceled
        /\ (error \/ NothingDecoded)
        /\ outcome' = "failed"
        /\ UNCHANGED merged
     \/ /\ ~canceled
        /\ ~error
        /\ ~NothingDecoded
        /\ outcome' = "loaded"
        /\ merged' = data
  /\ UNCHANGED <<bag, cancel, stage, process, decoder, result>>

-----------------------------------------------------------------------------
Worker ==
  WorkerInforms \/ WorkerWrites \/ WorkerCloses \/ WorkerReports \/ WorkerExits \/ WorkerFails

Loader ==
  StartWorker \/ ReadOutput \/ ReadControl \/ Check \/ Drain \/ Reject \/ Accept \/ FallBack

Next == Worker \/ Loader \/ Inspect \/ Cancel \/ Finish

Spec == Init /\ [][Next]_vars

\* The loader's waits are bounded and the GUI waits for it; the worker may hang.
FairSpec == Spec /\ WF_vars(Loader) /\ WF_vars(Finish)

-----------------------------------------------------------------------------
\* Safety.

\* No worker gave a reason to leave the message out.
Decodable(m) ==
  IF protocol = "raw" /\ ConnectionOf[m] \in bag.known THEN m \in bag.parsable ELSE m \in bag.decodable

\* A topic whose name on the wire is its own, so that the fallback finds it.
PlainNames == \A t \in chosen : Wire[t] = t

\* A load that succeeds has merged every message of the topics chosen that the
\* index counts and that can be decoded, whatever the pipes, the worker and the
\* two passes did: "data is merged only after the worker completed normally".
NothingLost ==
  (outcome = "loaded" /\ PlainNames) =>
    \A m \in Of(chosen) : m \in bag.readable /\ (Decodable(m) => merged[m] > 0)

\* Connections of one topic share the verdict on their schema.
SameSchemas ==
  \A c, d \in Connections :
    Wire[TopicOf[c]] = Wire[TopicOf[d]] => (c \in bag.known <=> d \in bag.known)

\* The two passes do not decode a message twice, and decode nothing that was not
\* chosen.
OnceEach ==
  (PlainNames /\ SameSchemas) =>
    \A m \in Messages : merged[m] <= 1 /\ (merged[m] = 1 => m \in Of(chosen))

\* A load that fails or is cancelled leaves the data of the application alone.
AllOrNothing == outcome # "loaded" => \A m \in Messages : merged[m] = 0

Promise ==
  INSTANCE AtomicLoad WITH
    sought <- Of(chosen),
    exact <- PlainNames /\ SameSchemas,
    readable <- bag.readable,
    decodable <- {m \in Messages : Decodable(m)},
    shown <- merged

\* However the loader, its two workers, their pipes and the Cancel button
\* interleave, a load is one step of the application: every message chosen that
\* can be decoded is merged once, or nothing is.
IsAtomicLoad == Promise!ASpec

\* A worker that failed or was killed is the last one, and its data goes.
FailureIsFinal ==
  [][(worker \in {"failed", "killed"}) => (worker' = worker /\ outcome' # "loaded")]_vars

\* The pipes of a pass: what is read has been written, in the order of the
\* worker's steps, and what is written belongs to the topics requested.
PipeInv ==
  /\ got \subseteq written
  /\ written \subseteq Yield
  /\ closed => written = Yield /\ info
  /\ end = "DONE" => closed
  /\ finished => closed /\ got = written
  /\ worker \in {"running", "exited", "failed", "killed"}
  /\ worker = "exited" => end = "DONE"

\* What the first of two passes has decoded.
Before(m) ==
  IF pass = protocol THEN 0 ELSE In(m, Of(chosen) \cap bag.readable \cap Decodes("raw"))

\* Each pass adds what it has read and can decode.
DataInv == \A m \in Messages : data[m] = Before(m) + In(m, got \cap Decodes(pass))

\* The topics of a pass; there is a second one only after a complete first one.
PassInv ==
  \/ pass = protocol /\ requested = chosen
  \/ /\ protocol = "raw"
     /\ pass = "binary"
     /\ requested = {Wire[TopicOf[c]] : c \in {d \in Connections \ bag.known : TopicOf[d] \in chosen}}
     /\ Of(chosen) \subseteq bag.readable

\* What a load that succeeds, or is about to, knows.
DoneInv ==
  /\ worker = "exited"
  /\ got = Of(requested)
  /\ got \subseteq bag.readable
  /\ pass = "raw" => Failed = {}
  /\ DataInv

Turning == {"read", "control", "check", "drain"}

\* Before a worker is started, none runs and only the first pass has data.
ReadyInv ==
  pc \in {"inspect", "start"} =>
    /\ worker \in {"none", "exited"}
    /\ \A m \in Messages : data[m] = Before(m)
    /\ pc = "inspect" => pass = protocol /\ chosen = {}

TurnInv == pc \in Turning \cup {"accept"} => PipeInv /\ DataInv

\* What Complete is asked of.
AcceptInv ==
  pc = "accept" =>
    /\ worker = "exited"
    /\ got = written
    /\ control.info = Cardinality(Of(requested))
    /\ control.messages = Cardinality(written)

ReturnInv == (pc = "return" /\ ~canceled /\ ~error) => DoneInv

EndInv ==
  /\ outcome # "none" <=> pc = "end"
  /\ outcome = "loaded" => DoneInv /\ merged = data
  /\ outcome # "loaded" => merged = [m \in Messages |-> 0]

IInv == TypeOK /\ PassInv /\ ReadyInv /\ TurnInv /\ AcceptInv /\ ReturnInv /\ EndInv

-----------------------------------------------------------------------------
\* Liveness.

\* A cancellation is honoured by a loader that runs a worker, although the
\* worker hangs.
CancelHonoured ==
  (cancel /\ pc \in {"read", "control", "check"}) ~> outcome = "cancelled"

\* A load ends, unless its worker hangs.
LoadEnds == WF_vars(Worker) => (pc = "start" ~> pc = "end")

\* The turns of the loop that follow the one under way, once the loader is
\* cancelled or its worker is gone: one to read what is in the pipes, one to notice.
TurnsLeft ==
  IF cancel THEN 0
  ELSE IF pc = "read" THEN (IF Pending THEN 1 ELSE 0)
  ELSE IF error \/ noticed THEN 0
  ELSE IF Pending THEN 2 ELSE 1

\* The steps that are left then, of the load; a first pass may have a second behind it.
StepsOfPass ==
  CASE pc = "inspect" -> 13
    [] pc = "start" -> 12
    [] pc = "read" -> 6 + 3 * TurnsLeft
    [] pc = "control" -> 5 + 3 * TurnsLeft
    [] pc = "check" -> 4 + 3 * TurnsLeft
    [] pc = "drain" -> 3
    [] pc = "accept" -> 2
    [] pc = "return" -> 1
    [] OTHER -> 0

StepsLeft == StepsOfPass + (IF pass = "raw" THEN 13 ELSE 0)

\* The safety half of LoadEnds and CancelHonoured: neither the loop that reads the
\* pipes, nor the second pass, nor a late Cancel, ever sends back a loader that is
\* cancelled or whose worker is gone.
LoadDescends ==
  [][cancel \/ worker # "running" =>
       /\ StepsLeft' <= StepsLeft
       /\ Loader \/ Finish => StepsLeft' < StepsLeft]_vars

-----------------------------------------------------------------------------
\* What the messages and documents say, and the code does not do.

\* A load of which nothing could be decoded fails ("None of the selected ROS bag
\* messages could be decoded.").
NothingDecodedFails ==
  (outcome = "loaded" /\ Of(chosen) # {}) => \E m \in Of(chosen) : merged[m] > 0

=============================================================================
