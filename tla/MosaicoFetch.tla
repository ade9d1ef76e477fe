---------------------------- MODULE MosaicoFetch ----------------------------
(***************************************************************************)
(* Downloads of the Mosaico toolbox: its window (MainWindow of             *)
(* ToolboxMosaico), the plugin (ToolboxMosaico), the FetchWorker on a      *)
(* thread of its own and the pull threads of the client library.           *)
(*                                                                         *)
(* The window queues requests for the worker, which executes them one      *)
(* after the other; their answers are events the GUI thread serves in the  *)
(* order in which they were posted.  The schema and the blocks of a topic  *)
(* are blocking events: the pull thread waits until the GUI thread has     *)
(* served them.  A new client is handed over by a blocking request: the    *)
(* GUI thread waits until the worker has taken it.                         *)
(*                                                                         *)
(* Warning boxes are modal to the window and are not modelled; a sequence  *)
(* is not told from another one.                                           *)
(***************************************************************************)
EXTENDS Integers, Sequences, FiniteSets

CONSTANTS
  Topics,         \* topics of the sequences of the server
  NoTopic,        \* of an event that is about no topic
  Shadows,        \* Shadows[t]: topics whose series names start as those of t,
                  \* t among them
  PoolSize,       \* connections, hence pull threads, of a client
  AllowInsecure,  \* the user allows a retry in plaintext
  MaxBlocks,      \* bound: record batches of a topic
  MaxDownloads,   \* bound: downloads asked for
  MaxClients,     \* bound: clients made
  MaxLists        \* bound: lists of sequences or topics asked for by a click

ASSUME MosaicoAssumption ==
  /\ NoTopic \notin Topics
  /\ IsFiniteSet(Topics)
  /\ Shadows \in [Topics -> SUBSET Topics]
  /\ \A t \in Topics : t \in Shadows[t]
  /\ PoolSize \in Nat \ {0}
  /\ AllowInsecure \in BOOLEAN
  /\ MaxBlocks \in Nat
  /\ MaxDownloads \in Nat
  /\ MaxClients \in Nat
  /\ MaxLists \in Nat

VARIABLES
  gui,        \* what the GUI thread waits for: nothing, or a client taken
  context,    \* error_context_
  on,         \* the widgets that accept a click
  rows,       \* the sequence table has rows
  attempted,  \* attempted_plaintext_fallback_
  client,     \* number of the client client_ owns, 0 if none
  selected,   \* selected_topics_
  pending,    \* pending_fetches_
  completed,  \* completed_fetch_topics_
  cancelling, \* cancelling_fetch_
  imports,    \* ToolboxMosaico: keys of topic_imports_
  staged,     \* imported_data_: blocks as <<topic, download, number>>
  plotted,    \* the series in PlotJuggler: blocks of each topic
  requests,   \* calls queued for the worker
  worker,     \* the call it executes
  pulled,     \* number of the last download it took
  taken,      \* number of the client FetchWorker::client_ points to
  flag,       \* FetchWorker::cancel_flag_
  pull,       \* where the pull of each topic is
  sent,       \* events it posted: the schema, then the blocks
  events,     \* events posted to the GUI thread, oldest first
  download,   \* number of downloads asked for
  lists,      \* lists asked for by a click
  untimed,    \* topics whose schema has no timestamp column, at any time
  asked,      \* history: topics of the last download
  gone,       \* history: blocks of it given up, whole or in part, until mixed
  outcome,    \* history: how it ended
  mixed       \* history: the answer to another request ended a download

window == <<gui, context, on, rows, attempted, client>>
fetch == <<selected, pending, completed, cancelling>>
toolbox == <<imports, staged, plotted>>
thread == <<requests, worker, taken, pulled>>
pulls == <<pull, sent>>
inputs == <<download, lists, untimed>>
history == <<asked, gone, outcome, mixed>>
vars == <<window, fetch, toolbox, thread, flag, pulls, events, inputs, history>>

Widgets == {"connect", "refresh", "sequences", "topics", "fetch", "stats"}
Waits == {"connect", "fallback"}
Requests == [op : {"client", "sequences", "topics", "pull"}, topics : SUBSET Topics]
Blocks == Topics \X Nat \X Nat
TopicEvents == {"schema", "block", "finished", "failed"}
Events ==
  [ev : {"list", "sequences", "topics", "error"}, topic : {NoTopic}, number : {0}]
    \union [ev : TopicEvents, topic : Topics, number : Nat]

TypeOK ==
  /\ gui \in {"idle"} \union Waits
  /\ context \in {"None", "Connect", "Fetch"}
  /\ on \subseteq Widgets
  /\ rows \in BOOLEAN /\ attempted \in BOOLEAN /\ cancelling \in BOOLEAN
  /\ flag \in BOOLEAN /\ mixed \in BOOLEAN
  /\ client \in Nat /\ taken \in Nat /\ pulled \in Nat
  /\ pending \in Nat /\ download \in Nat /\ lists \in Nat
  /\ selected \subseteq Topics /\ completed \subseteq Topics
  /\ imports \subseteq Topics /\ asked \subseteq Topics
  /\ staged \subseteq Blocks /\ gone \subseteq Blocks /\ untimed \subseteq Topics
  /\ plotted \in [Topics -> SUBSET Blocks]
  /\ requests \in Seq(Requests)
  /\ worker \in {"idle", "sequences", "details", "topics", "pull"}
  /\ pull \in [Topics -> {"none", "ready", "drain", "open", "reading", "waiting", "reported"}]
  /\ sent \in [Topics -> Nat]
  /\ events \in Seq(Events)
  /\ outcome \in {"none", "imported", "discarded"}

Init ==
  /\ gui = "idle"
  /\ context = "None"
  /\ on = {"connect"}
  /\ rows = FALSE
  /\ attempted = FALSE
  /\ client = 0
  /\ selected = {}
  /\ pending = 0
  /\ completed = {}
  /\ cancelling = FALSE
  /\ imports = {}
  /\ staged = {}
  /\ plotted = [t \in Topics |-> {}]
  /\ requests = <<>>
  /\ worker = "idle"
  /\ taken = 0
  /\ pulled = 0
  /\ flag = FALSE
  /\ pull = [t \in Topics |-> "none"]
  /\ sent = [t \in Topics |-> 0]
  /\ events = <<>>
  /\ download = 0
  /\ lists = 0
  /\ untimed \in SUBSET Topics
  /\ asked = {}
  /\ gone = {}
  /\ outcome = "none"
  /\ mixed = FALSE

Request(op) == requests' = Append(requests, [op |-> op, topics |-> {}])
Event(ev, t, n) == [ev |-> ev, topic |-> t, number |-> n]
Post(ev) == events' = Append(events, Event(ev, NoTopic, 0))

-----------------------------------------------------------------------------
(* Clicks                                                                  *)

\* Variant: without the guard on requests in flight
ConnectUnguarded ==
  /\ gui = "idle"
  /\ "connect" \in on
  /\ client < MaxClients
  /\ attempted' = FALSE
  /\ gui' = "connect"
  /\ Request("client")
  /\ UNCHANGED <<context, on, rows, client, fetch, toolbox, worker, taken, pulled, flag,
                 pulls, events, inputs, history>>

\* connectToServer up to the blocking hand-over of the new client
ConnectClicked ==
  /\ gui = "idle"
  /\ "connect" \in on
  /\ pending = 0 /\ context = "None"
  /\ client < MaxClients
  /\ attempted' = FALSE
  /\ gui' = "connect"
  /\ Request("client")
  /\ UNCHANGED <<context, on, rows, client, fetch, toolbox, worker, taken, pulled,
                 flag, pulls, events, inputs, history>>

\* Variant: the hand-over is queued and not waited for
HandOverQueued ==
  /\ gui \in Waits
  /\ client' = client + 1
  /\ gui' = "idle"
  /\ Request("sequences")
  /\ IF gui = "connect"
       THEN /\ context' = "Connect"
            /\ on' = on \ {"connect", "sequences"}
       ELSE UNCHANGED <<context, on>>
  /\ UNCHANGED <<rows, attempted, fetch, toolbox, worker, taken, pulled, flag, pulls,
                 events, inputs, history>>

\* Its rest, and that of the fallback in onFetchError: the old client is
\* destroyed once the worker has the new one
ClientHandedOver ==
  /\ gui \in Waits
  /\ taken = client + 1
  /\ client' = taken
  /\ gui' = "idle"
  /\ Request("sequences")
  /\ IF gui = "connect"
       THEN /\ context' = "Connect"
            /\ on' = on \ {"connect", "sequences"}
       ELSE UNCHANGED <<context, on>>
  /\ UNCHANGED <<rows, attempted, fetch, toolbox, worker, taken, pulled, flag, pulls,
                 events, inputs, history>>

RefreshClicked ==
  /\ gui = "idle"
  /\ "refresh" \in on
  /\ client # 0 /\ pending = 0 /\ context = "None"
  /\ lists < MaxLists
  /\ lists' = lists + 1
  /\ on' = on \ {"refresh", "sequences"}
  /\ context' = "Connect"
  /\ Request("sequences")
  /\ UNCHANGED <<gui, rows, attempted, client, fetch, toolbox, worker, taken, pulled,
                 flag, pulls, events, download, untimed, history>>

SequenceSelected ==
  /\ gui = "idle"
  /\ "sequences" \in on /\ rows
  /\ lists < MaxLists
  /\ lists' = lists + 1
  /\ selected' = {}
  /\ on' = on \ {"topics", "fetch"}
  /\ Request("topics")
  /\ UNCHANGED <<gui, context, rows, attempted, client, pending, completed,
                 cancelling, toolbox, worker, taken, pulled, flag, pulls, events,
                 download, untimed, history>>

TopicsSelected ==
  /\ gui = "idle"
  /\ "topics" \in on
  /\ pending = 0
  /\ selected' \in SUBSET Topics
  /\ on' = IF selected' = {} THEN on \ {"fetch"} ELSE on \union {"fetch"}
  /\ UNCHANGED <<gui, context, rows, attempted, client, pending, completed,
                 cancelling, toolbox, thread, flag, pulls, events, inputs, history>>

\* requestFetchCancel, from the button or from the statistics dialog
CancelClicked ==
  /\ gui = "idle"
  /\ ("fetch" \in on /\ context = "Fetch") \/ "stats" \in on
  /\ cancelling' = TRUE
  /\ flag' = TRUE
  /\ on' = on \ {"fetch"}
  /\ UNCHANGED <<gui, context, rows, attempted, client, selected, pending,
                 completed, toolbox, thread, pulls, events, inputs, history>>

FetchClicked ==
  /\ gui = "idle"
  /\ "fetch" \in on
  /\ context # "Fetch"
  /\ selected # {}
  /\ download < MaxDownloads
  /\ context' = "Fetch"
  /\ pending' = Cardinality(selected)
  /\ completed' = {}
  /\ cancelling' = FALSE
  /\ flag' = FALSE
  /\ on' = on \union {"stats"}
  /\ requests' = Append(requests, [op |-> "pull", topics |-> selected])
  /\ download' = download + 1
  /\ asked' = selected
  /\ gone' = {}
  /\ outcome' = "none"
  /\ UNCHANGED <<gui, rows, attempted, client, selected, toolbox, worker, taken, pulled,
                 pulls, events, lists, untimed, mixed>>

-----------------------------------------------------------------------------
(* The worker and the threads of a pull                                    *)

Pulling(t) == pull[t] \in {"open", "reading", "waiting"}

\* Variant: a cancelled download is dropped without a report
TakeNoDrain ==
  /\ worker = "idle"
  /\ requests # <<>>
  /\ requests' = Tail(requests)
  /\ LET r == Head(requests) IN
       CASE r.op = "client" ->
              /\ taken' = client + 1
              /\ UNCHANGED <<worker, pulled, pulls>>
         [] r.op = "pull" ->
              /\ worker' = "pull"
              /\ pull' = [t \in Topics |-> IF t \notin r.topics \/ flag THEN "none" ELSE "ready"]
              /\ sent' = [t \in Topics |-> 0]
              /\ pulled' = pulled + 1
              /\ UNCHANGED taken
         [] OTHER -> worker' = r.op /\ UNCHANGED <<taken, pulled, pulls>>
  /\ UNCHANGED <<window, fetch, toolbox, flag, events, inputs, history>>

Take ==
  /\ worker = "idle"
  /\ requests # <<>>
  /\ requests' = Tail(requests)
  /\ LET r == Head(requests) IN
       CASE r.op = "client" ->
              /\ taken' = client + 1
              /\ UNCHANGED <<worker, pulled, pulls>>
         [] r.op = "pull" ->
              /\ worker' = "pull"
              /\ pull' = [t \in Topics |-> IF t \notin r.topics THEN "none"
                                           ELSE IF flag THEN "drain" ELSE "ready"]
              /\ sent' = [t \in Topics |-> 0]
              /\ pulled' = pulled + 1
              /\ UNCHANGED taken
         [] OTHER -> worker' = r.op /\ UNCHANGED <<taken, pulled, pulls>>
  /\ UNCHANGED <<window, fetch, toolbox, flag, events, inputs, history>>

\* listSequences gives the names first, then the details of each sequence
Listed ==
  /\ worker = "sequences"
  /\ worker' = "details"
  /\ Post("list")
  /\ UNCHANGED <<window, fetch, toolbox, requests, taken, pulled, flag, pulls, inputs, history>>

Answered ==
  /\ \/ worker = "details" /\ Post("sequences")
     \/ worker = "topics" /\ Post("topics")
     \/ worker \in {"sequences", "details", "topics"} /\ Post("error")
  /\ worker' = "idle"
  /\ UNCHANGED <<window, fetch, toolbox, requests, taken, pulled, flag, pulls, inputs, history>>

Pick(t) ==
  /\ pull[t] = "ready"
  /\ Cardinality({u \in Topics : Pulling(u)}) < PoolSize
  /\ pull' = [pull EXCEPT ![t] = "open"]
  /\ UNCHANGED <<window, fetch, toolbox, thread, flag, sent, events, inputs, history>>

\* A blocking event: the thread waits until it is served
Deliver(t, ev) ==
  /\ events' = Append(events, Event(ev, t, sent[t]))
  /\ sent' = [sent EXCEPT ![t] = @ + 1]
  /\ pull' = [pull EXCEPT ![t] = "waiting"]

Report(t, ev) ==
  /\ events' = Append(events, Event(ev, t, 0))
  /\ pull' = [pull EXCEPT ![t] = "reported"]
  /\ UNCHANGED sent

PullStep(t) ==
  /\ \/ pull[t] = "open" /\ sent[t] = 0 /\ (Deliver(t, "schema") \/ Report(t, "failed"))
     \/ pull[t] = "open" /\ sent[t] > 0 /\ flag /\ Report(t, "failed")
     \/ /\ pull[t] = "open" /\ sent[t] > 0 /\ ~flag
        /\ pull' = [pull EXCEPT ![t] = "reading"]
        /\ UNCHANGED <<events, sent>>
     \/ pull[t] = "reading" /\ sent[t] <= MaxBlocks /\ Deliver(t, "block")
     \/ pull[t] = "reading" /\ (Report(t, "finished") \/ Report(t, "failed"))
     \/ pull[t] = "drain" /\ Report(t, "failed")
  /\ UNCHANGED <<window, fetch, toolbox, thread, flag, inputs, history>>

PullEnds ==
  /\ worker = "pull"
  /\ \A t \in Topics : pull[t] \in {"none", "reported"}
  /\ worker' = "idle"
  /\ UNCHANGED <<window, fetch, toolbox, requests, taken, pulled, flag, pulls, events,
                 inputs, history>>

-----------------------------------------------------------------------------
(* Events served by the GUI thread                                         *)

Serving(ev) ==
  /\ gui = "idle"
  /\ events # <<>>
  /\ Head(events).ev = ev
  /\ events' = Tail(events)

\* onSequenceListStarted
ListServed ==
  /\ Serving("list")
  /\ IF context = "Connect"
       THEN rows' = TRUE /\ on' = on \union {"sequences"}
       ELSE UNCHANGED <<rows, on>>
  /\ UNCHANGED <<gui, context, attempted, client, fetch, toolbox, thread, flag,
                 pulls, inputs, history>>

\* onSequencesReady
SequencesServed ==
  /\ Serving("sequences")
  /\ rows' = TRUE
  /\ on' = on \union {"connect", "refresh", "sequences"}
  /\ context' = "None"
  /\ mixed' = (mixed \/ context = "Fetch")
  /\ gone' = IF mixed' THEN {} ELSE gone
  /\ UNCHANGED <<gui, attempted, client, fetch, toolbox, thread, flag, pulls,
                 inputs, asked, outcome>>

\* onTopicsReady
TopicsServed ==
  /\ Serving("topics")
  /\ on' = on \union {"topics"}
  /\ UNCHANGED <<gui, context, rows, attempted, client, fetch, toolbox, thread,
                 flag, pulls, inputs, history>>

Emptied(t) == [u \in Topics |-> IF u \in Shadows[t] THEN {} ELSE plotted[u]]

\* ToolboxMosaico::beginTopicImport: the series are emptied at once, and nothing
\* is done if no column gives the time
BeginImport(t) ==
  /\ t \notin untimed
  /\ imports' = imports \union {t}
  /\ plotted' = Emptied(t)

Released(t) == pull' = [pull EXCEPT ![t] = "open"] /\ UNCHANGED sent

\* onTopicStreamStarted
SchemaServed ==
  /\ Serving("schema")
  /\ LET t == Head(events).topic IN
       /\ \/ ~cancelling /\ BeginImport(t)
          \/ (cancelling \/ t \in untimed) /\ UNCHANGED <<imports, plotted>>
       /\ Released(t)
  /\ UNCHANGED <<window, fetch, staged, thread, flag, inputs, history>>

GivenUp(b) == gone' = IF mixed THEN {} ELSE gone \union {b}

\* ToolboxMosaico::appendRecordBatchToSeries: a block is staged, or given up:
\* its topic has no import, or an exception, which guardedBoundary swallows,
\* came before the first of its columns or after some
AppendBlock(t, b) ==
  \/ /\ IF t \in imports THEN UNCHANGED <<imports, plotted>> ELSE BeginImport(t)
     /\ \/ staged' = staged \union {b} /\ UNCHANGED gone
        \/ staged' \in {staged, staged \union {b}} /\ GivenUp(b)
  \/ t \in untimed \ imports /\ GivenUp(b) /\ UNCHANGED toolbox

\* onTopicBatchReady
BlockServed ==
  /\ Serving("block")
  /\ LET t == Head(events).topic IN
       /\ IF cancelling THEN UNCHANGED <<toolbox, gone>>
          ELSE AppendBlock(t, <<t, pulled, Head(events).number>>)
       /\ Released(t)
  /\ UNCHANGED <<window, fetch, thread, flag, inputs, asked, outcome, mixed>>

\* MainWindow::importPlotDataMap of PlotJuggler
Imported == [t \in Topics |-> plotted[t] \union {b \in staged : b[1] = t}]

\* Variant: fetchCancelled does not reset what was staged
FinishKeeping(left) ==
  /\ on' = ((on \ {"fetch", "stats"}) \union {"refresh"})
             \union (IF selected = {} THEN {} ELSE {"fetch"})
  /\ context' = "None"
  /\ cancelling' = FALSE
  /\ IF cancelling
       THEN /\ flag' = FALSE /\ imports' = {} /\ outcome' = "discarded"
            /\ UNCHANGED <<staged, plotted>>
       ELSE /\ imports' = left /\ outcome' = "imported" /\ plotted' = Imported
            /\ staged' = {}
            /\ UNCHANGED flag

\* finishFetchBatch; left are the keys that stay in topic_imports_
FinishBatch(left) ==
  /\ on' = ((on \ {"fetch", "stats"}) \union {"refresh"})
             \union (IF selected = {} THEN {} ELSE {"fetch"})
  /\ context' = "None"
  /\ cancelling' = FALSE
  /\ staged' = {}
  /\ IF cancelling
       THEN flag' = FALSE /\ imports' = {} /\ outcome' = "discarded" /\ UNCHANGED plotted
       ELSE imports' = left /\ outcome' = "imported" /\ plotted' = Imported /\ UNCHANGED flag

\* Variant: the download ends with one topic to go
FinishEarly(t, left) ==
  IF t \in completed
    THEN /\ imports' = left
         /\ UNCHANGED <<on, context, fetch, staged, plotted, flag, outcome>>
    ELSE /\ completed' = completed \union ({t} \ {NoTopic})
         /\ pending' = IF pending > 0 THEN pending - 1 ELSE 0
         /\ UNCHANGED selected
         /\ IF pending' <= 1 /\ context = "Fetch"
              THEN FinishBatch(left)
              ELSE /\ imports' = left
                   /\ UNCHANGED <<on, context, cancelling, staged, plotted, flag, outcome>>

\* finishFetchTopic; t is NoTopic when the caller knows no name
FinishTopic(t, left) ==
  IF t \in completed
    THEN /\ imports' = left
         /\ UNCHANGED <<on, context, fetch, staged, plotted, flag, outcome>>
    ELSE /\ completed' = completed \union ({t} \ {NoTopic})
         /\ pending' = IF pending > 0 THEN pending - 1 ELSE 0
         /\ UNCHANGED selected
         /\ IF pending' = 0 /\ context = "Fetch"
              THEN FinishBatch(left)
              ELSE /\ imports' = left
                   /\ UNCHANGED <<on, context, cancelling, staged, plotted, flag, outcome>>

\* onTopicStreamFinished, and onTopicFetchError during a download
TopicServed ==
  /\ \/ Serving("finished") /\ FinishTopic(Head(events).topic, imports \ {Head(events).topic})
     \/ Serving("failed") /\ context = "Fetch" /\ FinishTopic(Head(events).topic, imports)
  /\ UNCHANGED <<gui, rows, attempted, client, thread, pulls, inputs, asked, gone, mixed>>

\* onFetchError, from errorOccurred and from onTopicFetchError
ErrorServed ==
  /\ Serving("error") \/ (Serving("failed") /\ context # "Fetch")
  /\ \/ /\ context = "Connect" /\ ~attempted /\ AllowInsecure
        /\ attempted' = TRUE
        /\ gui' = "fallback"
        /\ Request("client")
        /\ UNCHANGED <<context, on, fetch, toolbox, flag, gone, outcome, mixed>>
     \/ /\ context = "Connect" /\ (attempted \/ ~AllowInsecure)
        /\ context' = "None"
        /\ on' = on \union {"connect", "sequences"}
                   \union (IF client # 0 /\ pending = 0 THEN {"refresh"} ELSE {})
        /\ UNCHANGED <<gui, attempted, fetch, toolbox, requests, flag, gone, outcome, mixed>>
     \/ /\ context = "None"
        /\ on' = IF client # 0 /\ pending = 0 THEN on \union {"refresh"} ELSE on
        /\ UNCHANGED <<gui, context, attempted, fetch, toolbox, requests, flag, gone,
                       outcome, mixed>>
     \/ /\ context = "Fetch"
        /\ completed' = completed
        /\ pending' = IF pending > 0 THEN pending - 1 ELSE 0
        /\ UNCHANGED selected
        /\ mixed' = TRUE
        /\ gone' = {}
        /\ IF pending' = 0 THEN FinishBatch(imports)
           ELSE /\ context' = "None"
                /\ UNCHANGED <<on, cancelling, toolbox, flag, outcome>>
        /\ UNCHANGED <<gui, attempted, requests>>
  /\ UNCHANGED <<rows, client, worker, taken, pulled, pulls, inputs, asked>>

Serve == ListServed \/ SequencesServed \/ TopicsServed \/ SchemaServed
           \/ BlockServed \/ TopicServed \/ ErrorServed
Pull == \E t \in Topics : Pick(t) \/ PullStep(t)
Work == Take \/ Listed \/ Answered \/ PullEnds
Click == ConnectClicked \/ RefreshClicked \/ SequenceSelected \/ TopicsSelected
           \/ CancelClicked \/ FetchClicked

Next == Click \/ ClientHandedOver \/ Serve \/ Work \/ Pull

Spec == Init /\ [][Next]_vars

\* Calls of the client end, with an answer or an error; so do the reads of a
\* stream, as long as the server sends or closes it
Fairness ==
  /\ WF_vars(ClientHandedOver)
  /\ WF_vars(Serve)
  /\ WF_vars(Work)
  /\ \A t \in Topics : WF_vars(Pick(t)) /\ WF_vars(PullStep(t))

FairSpec == Spec /\ Fairness

-----------------------------------------------------------------------------
(* Properties.  The answer to another request, a list or an error, resets   *)
(* error_context_ even in a download (mixed): what holds of downloads holds *)
(* as long as that has not happened.                                        *)

\* Topics a report of the current download is still due for
Outstanding ==
  {t \in Topics : Pulling(t) \/ pull[t] \in {"ready", "drain"}}
    \union ({events[i].topic : i \in DOMAIN events} \ {NoTopic})
    \union UNION {requests[i].topics : i \in DOMAIN requests}

\* What is shown of a topic comes from one download, and what is staged from
\* the current one: nothing of a cancelled download leaks into the next
\* (fetchCancelled, imported_data_ and beginTopicImport)
OneDownload ==
  ~mixed => /\ \A t \in Topics : \A x, y \in plotted[t] : x[2] = y[2]
            /\ \A x \in staged : x[2] = download

\* A download that ended is either shown with every block its threads
\* delivered, in whatever order topics and failures came, or not at all.  The
\* exception is a block appendRecordBatchToSeries gave up: it is missing, of a
\* download that ends imported like any other
WholeOrNothing ==
  ~mixed /\ context # "Fetch" =>
    /\ staged = {}
    /\ outcome = "imported" =>
         \A t \in asked : \A k \in 1..(sent[t] - 1) :
           <<t, download, k>> \in plotted[t] \union gone
    /\ outcome = "discarded" => \A t \in Topics : \A x \in plotted[t] : x[2] # download

\* pending_fetches_ counts the topics without a report, each of which still
\* has one due, and outside a download nothing is due: a download neither
\* ends early nor waits for a report that never comes
ReportsDue ==
  ~mixed => IF context = "Fetch"
              THEN /\ pending = Cardinality(asked \ completed) /\ pending > 0
                   /\ asked \ completed = Outstanding
              ELSE pending = 0 /\ Outstanding = {}

\* The worker and the pull threads never use a client that was destroyed,
\* whatever is in flight when the user connects again
ClientAlive == worker # "idle" => taken >= client

\* A download comes to an end, cancelled or not
DownloadSettles == context = "Fetch" ~> context # "Fetch"

\* The hand-over of a client does not block the window for good: the worker
\* that the GUI thread waits for is not waiting for the GUI thread
GuiReturns == gui # "idle" ~> gui = "idle" \/ mixed

\* The half of GuiReturns that is a safety property: while the GUI thread waits
\* for a client to be taken, the worker has taken it or has the request for it,
\* and no pull thread is left that would wait for the GUI thread to serve an event
HandOverEnds ==
  gui # "idle" =>
    /\ taken = client + 1 \/ \E i \in 1 .. Len(requests) : requests[i].op = "client"
    /\ mixed \/ \A t \in Topics : pull[t] \in {"none", "reported"}

-----------------------------------------------------------------------------
(* Why the properties hold, as long as no other answer ended a download     *)

PullQueued == \E i \in 1 .. Len(requests) : requests[i].op = "pull"

\* Topics that are still to be reported, of a download the worker has taken
Due == IF context = "Fetch" /\ ~PullQueued THEN asked \ completed ELSE {}

\* One download at most is queued, and it is the current one
OneQueued ==
  /\ \A i \in 1 .. Len(requests) :
       requests[i].topics = IF requests[i].op = "pull" THEN asked ELSE {}
  /\ \A i, j \in 1 .. Len(requests) :
       requests[i].op = "pull" /\ requests[j].op = "pull" => i = j
  /\ IF PullQueued THEN context = "Fetch" /\ completed = {} /\ download = pulled + 1
     ELSE download = pulled

\* A topic is with its thread or in one event, and in none once it is reported
OnePlace ==
  /\ \A t \in Topics \ Due : pull[t] \in {"none", "reported"}
  /\ \A t \in Due : pull[t] # "none"
  /\ \A t \in Due : pull[t] \in {"waiting", "reported"} =>
       \E i \in 1 .. Len(events) : events[i].topic = t
  /\ \A i \in 1 .. Len(events) : events[i].topic # NoTopic =>
       /\ events[i].topic \in Due
       /\ pull[events[i].topic] =
            IF events[i].ev \in {"schema", "block"} THEN "waiting" ELSE "reported"
  /\ \A i, j \in 1 .. Len(events) :
       events[i].topic = events[j].topic /\ events[i].topic # NoTopic => i = j

Counted ==
  IF context = "Fetch" THEN pending = Cardinality(asked \ completed) /\ pending > 0
  ELSE pending = 0

\* The event about a topic carries the last number its thread has given, and
\* blocks come after the schema
LastSent ==
  /\ \A t \in Topics : pull[t] = "reading" => sent[t] > 0
  /\ \A i \in 1 .. Len(events) :
       /\ events[i].ev = "schema" => sent[events[i].topic] = 1
       /\ events[i].ev = "block" =>
            events[i].number > 0 /\ sent[events[i].topic] = events[i].number + 1

Begun(t) ==
  sent[t] > 0 /\ \A i \in 1 .. Len(events) : events[i].ev = "schema" => events[i].topic # t

Kept(t, k) ==
  \/ <<t, download, k>> \in staged \union gone
  \/ \E i \in 1 .. Len(events) :
       events[i].ev = "block" /\ events[i].topic = t /\ events[i].number = k

\* Before it is filled from the blocks that are staged, a series is emptied
EmptiedFirst ==
  /\ staged # {} => context = "Fetch"
  /\ \A x \in staged : x[2] = download /\ (cancelling \/ plotted[x[1]] = {})
  /\ context = "Fetch" /\ ~PullQueued /\ ~cancelling =>
       \A t \in asked : /\ Begun(t) /\ t \notin untimed => plotted[t] = {}
                       /\ \A k \in 1 .. (sent[t] - 1) : Kept(t, k)
  /\ \A t \in Topics : \A x, y \in plotted[t] : x[2] = y[2]
  /\ \A t \in Topics : \A x \in plotted[t] :
       x[2] <= download /\ (context = "Fetch" => x[2] < download)

Shown ==
  context # "Fetch" =>
    /\ outcome = "imported" =>
         \A t \in asked : \A k \in 1 .. (sent[t] - 1) :
           <<t, download, k>> \in plotted[t] \union gone
    /\ outcome = "discarded" => \A t \in Topics : \A x \in plotted[t] : x[2] # download

\* A client is handed over outside a download, and its request is not lost
WaitsFor ==
  /\ gui = "connect" => context = "None"
  /\ gui = "fallback" => context = "Connect"
  /\ gui \in Waits =>
       taken = client + 1 \/ \E i \in 1 .. Len(requests) : requests[i].op = "client"

IInv ==
  /\ TypeOK
  /\ taken \in {client, client + 1}
  /\ WaitsFor
  /\ imports \intersect untimed = {}
  /\ ~mixed => OneQueued /\ OnePlace /\ Counted /\ LastSent /\ EmptiedFirst /\ Shown
=============================================================================
