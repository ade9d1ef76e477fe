----------------------------- MODULE MqttStream -----------------------------
(***************************************************************************)
(* A live stream from an MQTT broker: the streaming controls of            *)
(* MainWindow, the plugin (DataStreamMQTT), its dialog (MQTT_Dialog) and   *)
(* its client (MQTTClient).                                                *)
(*                                                                         *)
(* Two threads run this code.  The GUI thread serves clicks, timers and    *)
(* the events the other thread posts, from the main event loop or from     *)
(* the loop of a modal dialog; inside a call it serves nothing.  The       *)
(* network thread runs the callbacks of libmosquitto, holds the client's   *)
(* _mutex for the whole of a message that has a callback, and asks the GUI *)
(* thread to create the parser of a topic, waiting for the answer.         *)
(*                                                                         *)
(* The plugin's mutex() guards sections that wait for nothing: each is one *)
(* step here.                                                              *)
(***************************************************************************)
EXTENDS Naturals, Sequences

CONSTANTS
  Topics,       \* topics the broker has messages of
  Filter,       \* the topic filter of the dialog, which matches all of them
  Protocols,    \* serialization protocols, one per parser factory
  NoProtocol,
  MaxMessages,  \* bound: messages that reach a callback
  MaxFaults     \* bound: connections lost or refused

ASSUME MqttAssumption ==
  /\ Filter \notin Topics
  /\ NoProtocol \notin Protocols
  /\ MaxMessages \in Nat
  /\ MaxFaults \in Nat

VARIABLES
  loop,       \* the event loop the GUI thread serves
  call,       \* the call it is in, if any
  todo,       \* start(): selected topics that have no callback yet
  active,     \* MainWindow: _active_streamer_plugin is set
  paused,     \* the Pause button is checked
  replot,     \* _replot_timer is active
  shown,      \* notifications the button shows
  taken,      \* failures the open notification box reports
  running,    \* DataStreamMQTT: _running
  protocol,   \* _protocol
  parsers,    \* _parsers: the protocol of each topic's parser
  data,       \* dataMap(): messages parsed and not yet moved to the plots
  failed,     \* _failed_parsing
  listing,    \* MQTT_Dialog: _topic_list_timer is active
  list,       \* the topics in the list
  connected,  \* MQTTClient: _connected
  config,     \* _config.topics
  callbacks,  \* topics in _message_callbacks
  topics,     \* _topics_set
  net,        \* where the network thread is
  link,       \* its connection
  subs,       \* subscriptions the broker holds for it
  cur,        \* topic of the message it handles, and the failures it counted
  posted,     \* events posted to the GUI thread, oldest first
  handled,    \* messages that reached a callback
  faults,
  chosen      \* history: the topics selected for the session

gui == <<loop, call, todo>>
window == <<active, paused, replot, shown, taken>>
plugin == <<running, protocol, parsers, data, failed>>
dialog == <<listing, list>>
client == <<connected, config, callbacks, topics>>
network == <<net, link, subs, cur>>
world == <<posted, handled, faults>>
vars == <<gui, window, plugin, dialog, client, network, world, chosen>>

Calls == {"connect", "add", "list", "close", "stop", "exit"}

\* The network thread holds _mutex in these.
Holding == {"locked", "invoke", "parse", "parsed", "failed", "report"}

Events ==
  [kind : {"parser"}, topic : Topics, protocol : Protocols] \cup
  [kind : {"notify"}, count : Nat] \cup
  [kind : {"data", "lost"}]

Idle == [topic |-> Filter, count |-> 0]

TypeOK ==
  /\ loop \in {"main", "dialog", "box"}
  /\ call \in Calls \cup {"none", "gone"}
  /\ todo \subseteq Topics
  /\ active \in BOOLEAN /\ paused \in BOOLEAN /\ replot \in BOOLEAN
  /\ running \in BOOLEAN /\ listing \in BOOLEAN /\ connected \in BOOLEAN
  /\ shown \in Nat
  /\ taken \in Nat
  /\ protocol \in Protocols \cup {NoProtocol}
  /\ parsers \in [Topics -> Protocols \cup {NoProtocol}]
  /\ data \subseteq [id : Nat, topic : Topics]
  /\ failed \in Nat
  /\ list \subseteq Topics
  /\ config \subseteq {Filter}
  /\ callbacks \subseteq Topics
  /\ topics \subseteq Topics
  /\ net \in Holding \cup {"off", "wait", "warn"}
  /\ link \in {"off", "opening", "up"}
  /\ subs \subseteq Topics \cup {Filter}
  /\ cur \in [topic : Topics \cup {Filter}, count : Nat]
  /\ posted \in Seq(Events)
  /\ handled \in 0 .. MaxMessages
  /\ faults \in 0 .. MaxFaults
  /\ chosen \subseteq Topics

NoParsers == [t \in Topics |-> NoProtocol]

Init ==
  /\ loop = "main" /\ call = "none" /\ todo = {}
  /\ active = FALSE /\ paused = FALSE /\ replot = FALSE /\ shown = 0 /\ taken = 0
  /\ running = FALSE /\ protocol = NoProtocol /\ parsers = NoParsers
  /\ data = {} /\ failed = 0
  /\ listing = FALSE /\ list = {}
  /\ connected = FALSE /\ config = {} /\ callbacks = {} /\ topics = {}
  /\ net = "off" /\ link = "off" /\ subs = {} /\ cur = Idle
  /\ posted = << >> /\ handled = 0 /\ faults = 0
  /\ chosen = {}

Serving(l) == call = "none" /\ loop \in l

AnyLoop == {"main", "dialog", "box"}

MutexFree == net \notin Holding

Post(e) == posted' = Append(posted, e)

\* MoveData, under the plugin's mutex(): the buffer is emptied into the
\* plots.
Move == data' = {}

-----------------------------------------------------------------------------
\* The client.

\* Variant: the callbacks of the session stay.
DisconnectKeeping ==
  /\ connected => net = "wait"
  /\ IF connected
       THEN net' = "off" /\ link' = "off" /\ subs' = {} /\ UNCHANGED cur
       ELSE UNCHANGED network
  /\ connected' = FALSE
  /\ topics' = {}
  /\ UNCHANGED <<callbacks, config>>

\* Variant: the thread is not waited for.
DisconnectUnjoined ==
  /\ connected' = FALSE
  /\ topics' = {}
  /\ callbacks' = {}
  /\ UNCHANGED <<config, network>>

\* MQTTClient::disconnect: joins the network thread, which ends between two
\* callbacks only, then forgets callbacks and topics.
Disconnect ==
  /\ connected => net = "wait"
  /\ IF connected
       THEN net' = "off" /\ link' = "off" /\ subs' = {} /\ UNCHANGED cur
       ELSE UNCHANGED network
  /\ connected' = FALSE
  /\ topics' = {}
  /\ callbacks' = {}
  /\ UNCHANGED config

\* The Connect button: the connection is configured and its thread started...
Connect ==
  /\ Serving({"dialog"})
  /\ ~connected
  /\ call' = "connect"
  /\ net' = "wait"
  /\ link' = "opening"
  /\ subs' = {}
  /\ UNCHANGED <<loop, todo, window, plugin, dialog, client, cur, world, chosen>>

\* ...before _config is assigned.
Connected ==
  /\ call = "connect"
  /\ call' = "none"
  /\ connected' = TRUE
  /\ config' = {Filter}
  /\ listing' = TRUE
  /\ UNCHANGED <<loop, todo, window, plugin, list, callbacks, topics, network, world, chosen>>

\* The broker cannot be reached.  The dialog shows itself connected all the
\* same, until the list is next brought up to date.
ConnectFails ==
  /\ Serving({"dialog"})
  /\ ~connected
  /\ listing' = TRUE
  /\ UNCHANGED <<gui, window, plugin, list, client, network, world, chosen>>

-----------------------------------------------------------------------------
\* The dialog.

\* The Disconnect button.
DisconnectClicked ==
  /\ Serving({"dialog"})
  /\ connected
  /\ call' = "close"
  /\ UNCHANGED <<loop, todo, window, plugin, dialog, client, network, world, chosen>>

\* MQTT_Dialog::onConnectionClosed.
ConnectionClosed ==
  /\ call = "close"
  /\ Disconnect
  /\ call' = "none"
  /\ list' = {}
  /\ listing' = FALSE
  /\ UNCHANGED <<loop, todo, window, plugin, world, chosen>>

\* The timer of the list, which nothing stops when the dialog is accepted.
ListTick ==
  /\ Serving(AnyLoop)
  /\ listing
  /\ call' = "list"
  /\ UNCHANGED <<loop, todo, window, plugin, dialog, client, network, world, chosen>>

\* onUpdateTopicList, once getTopicList has _mutex.
Listed ==
  /\ call = "list"
  /\ MutexFree
  /\ list' = topics
  /\ call' = IF connected THEN "none" ELSE "close"
  /\ UNCHANGED <<loop, todo, window, plugin, listing, client, network, world, chosen>>

-----------------------------------------------------------------------------
\* Start and stop.

\* startStreamingPlugin and DataStreamMQTT::start, up to the dialog.
StartClicked ==
  /\ Serving({"main"})
  /\ ~active
  /\ active' = TRUE
  /\ failed' = 0
  /\ shown' = 0
  /\ loop' = "dialog"
  /\ chosen' = {}
  /\ UNCHANGED <<call, todo, paused, replot, taken, running, protocol, parsers, data,
                 dialog, client, network, world>>

Rejected ==
  /\ Serving({"dialog"})
  /\ loop' = "main"
  /\ active' = FALSE
  /\ UNCHANGED <<call, todo, paused, replot, shown, taken, plugin, dialog, client,
                 network, world, chosen>>

\* The OK button, enabled while topics of the list are selected.
Accepted ==
  /\ Serving({"dialog"})
  /\ \E s \in (SUBSET list) \ {{}} : todo' = s /\ chosen' = s
  /\ protocol' \in Protocols
  /\ subs' = IF connected THEN subs \ config ELSE subs
  /\ loop' = "main"
  /\ call' = "add"
  /\ UNCHANGED <<window, running, parsers, data, failed, dialog, client, net, link, cur,
                 world>>

\* One turn of the loop over the selected topics; addMessageCallback waits
\* for _mutex.
Register(t) ==
  /\ call = "add"
  /\ t \in todo
  /\ MutexFree
  /\ subs' = IF connected THEN subs \cup {t} ELSE subs
  /\ callbacks' = callbacks \cup {t}
  /\ todo' = todo \ {t}
  /\ UNCHANGED <<loop, call, window, plugin, dialog, connected, config, topics,
                 net, link, cur, world, chosen>>

\* start returns true; startStreamingPlugin goes on.
Started ==
  /\ call = "add"
  /\ todo = {}
  /\ running' = TRUE
  /\ Move
  /\ paused' = FALSE
  /\ call' = "none"
  /\ UNCHANGED <<loop, todo, active, replot, shown, taken, protocol, parsers, failed,
                 dialog, client, network, world, chosen>>

\* stopStreamingPlugin calls shutdown...
StopClicked ==
  /\ Serving({"main"})
  /\ active
  /\ running
  /\ paused' = FALSE
  /\ shown' = 0
  /\ running' = FALSE
  /\ call' = "stop"
  /\ UNCHANGED <<loop, todo, active, replot, taken, protocol, parsers, data, failed,
                 dialog, client, network, world, chosen>>

\* Variant: the parsers of the session stay.
StoppedKeeping ==
  /\ call = "stop"
  /\ Disconnect
  /\ data' = {}
  /\ active' = FALSE
  /\ call' = "none"
  /\ UNCHANGED <<loop, todo, paused, replot, shown, taken, running, protocol, parsers,
                 failed, dialog, world, chosen>>

\* ...which disconnects, then clears parsers and buffer.
Stopped ==
  /\ call = "stop"
  /\ Disconnect
  /\ parsers' = NoParsers
  /\ data' = {}
  /\ active' = FALSE
  /\ call' = "none"
  /\ UNCHANGED <<loop, todo, paused, replot, shown, taken, running, protocol, failed,
                 dialog, world, chosen>>

\* The main window closes: shutdown, then the plugins are unloaded, which
\* disconnects a client left connected by a rejected dialog.
CloseClicked ==
  /\ Serving({"main"})
  /\ replot' = FALSE
  /\ running' = FALSE
  /\ call' = "exit"
  /\ UNCHANGED <<loop, todo, active, paused, shown, taken, protocol, parsers, data, failed,
                 dialog, client, network, world, chosen>>

Closed ==
  /\ call = "exit"
  /\ Disconnect
  /\ parsers' = NoParsers
  /\ data' = {}
  /\ active' = FALSE
  /\ listing' = FALSE
  /\ call' = "gone"
  /\ UNCHANGED <<loop, todo, paused, replot, shown, taken, running, protocol, failed,
                 list, world, chosen>>

-----------------------------------------------------------------------------
\* The main window while a stream runs.

PauseToggled ==
  /\ Serving({"main"})
  /\ active
  /\ paused' = ~paused
  /\ UNCHANGED <<gui, active, replot, shown, taken, plugin, dialog, client, network,
                 world, chosen>>

\* The notifications button: the count is taken, then shown in a box.
NotificationsClicked ==
  /\ Serving({"main"})
  /\ shown > 0
  /\ taken' = failed
  /\ failed' = 0
  /\ loop' = "box"
  /\ UNCHANGED <<call, todo, active, paused, replot, shown, running, protocol, parsers,
                 data, dialog, client, network, world, chosen>>

\* The button is cleared when the box closes.
BoxClosed ==
  /\ Serving({"box"})
  /\ loop' = "main"
  /\ shown' = IF taken > 0 THEN 0 ELSE shown
  /\ taken' = 0
  /\ UNCHANGED <<call, todo, active, paused, replot, plugin, dialog, client, network,
                 world, chosen>>

\* updateDataAndReplot, by its timer.
Replot ==
  /\ Serving(AnyLoop)
  /\ replot
  /\ replot' = FALSE
  /\ IF active THEN Move ELSE UNCHANGED data
  /\ UNCHANGED <<gui, active, paused, shown, taken, running, protocol, parsers, failed,
                 dialog, client, network, world, chosen>>

-----------------------------------------------------------------------------
\* The events the network thread posts.

Serve(kind) ==
  /\ Serving(AnyLoop)
  /\ posted # << >>
  /\ Head(posted).kind = kind
  /\ posted' = Tail(posted)

\* create_parser; the network thread goes on with the parser.
CreateParser ==
  /\ Serve("parser")
  /\ LET e == Head(posted) IN
       IF parsers[e.topic] = NoProtocol
         THEN parsers' = [parsers EXCEPT ![e.topic] = e.protocol]
         ELSE UNCHANGED parsers
  /\ net' = "parse"
  /\ UNCHANGED <<gui, window, running, protocol, data, failed, dialog, client, link, subs,
                 cur, handled, faults, chosen>>

\* Variant: ignored under a modal dialog.
DataReceivedInMain ==
  /\ Serve("data")
  /\ replot' = (replot \/ (active /\ ~paused /\ loop = "main"))
  /\ UNCHANGED <<gui, active, paused, shown, taken, plugin, dialog, client, network,
                 handled, faults, chosen>>

\* The slot for dataReceived.
DataReceived ==
  /\ Serve("data")
  /\ replot' = (replot \/ (active /\ ~paused))
  /\ UNCHANGED <<gui, active, paused, shown, taken, plugin, dialog, client, network,
                 handled, faults, chosen>>

\* on_streamingNotificationsChanged.
NotificationsChanged ==
  /\ Serve("notify")
  /\ shown' = IF active THEN Head(posted).count ELSE 0
  /\ UNCHANGED <<gui, active, paused, replot, taken, plugin, dialog, client, network,
                 handled, faults, chosen>>

\* The slot for MQTTClient::disconnected.  Its message box is left out: while
\* it is open the loops below serve what they serve.
ConnectionLost ==
  /\ Serve("lost")
  /\ call' = "close"
  /\ UNCHANGED <<loop, todo, window, plugin, dialog, client, network, handled, faults,
                 chosen>>

-----------------------------------------------------------------------------
\* The network thread.

\* connect_callback, connection accepted.  Between the start of the thread and
\* the assignment of _config it reads the topics before, after, or while they
\* are replaced.
Acknowledged ==
  /\ net = "wait"
  /\ link = "opening"
  /\ link' = "up"
  /\ IF call = "connect" THEN subs' \in {config, {Filter}, {}} ELSE subs' = config
  /\ connected' = TRUE
  /\ UNCHANGED <<gui, window, plugin, dialog, config, callbacks, topics, net, cur, world,
                 chosen>>

\* connect_callback, connection refused: a message box in this thread.
Refused ==
  /\ net = "wait"
  /\ link = "opening"
  /\ faults < MaxFaults
  /\ faults' = faults + 1
  /\ net' = "warn"
  /\ UNCHANGED <<gui, window, plugin, dialog, client, link, subs, cur, posted, handled,
                 chosen>>

\* The user closes it; the loop tries again.
Dismissed ==
  /\ net = "warn"
  /\ net' = "wait"
  /\ connected' = TRUE
  /\ UNCHANGED <<gui, window, plugin, dialog, config, callbacks, topics, link, subs, cur,
                 world, chosen>>

\* Variant: the client forgets its connection at once.
LostForgetting ==
  /\ net = "wait"
  /\ link # "off"
  /\ faults < MaxFaults
  /\ faults' = faults + 1
  /\ link' = "opening"
  /\ subs' = {}
  /\ connected' = FALSE
  /\ IF connected THEN Post([kind |-> "lost"]) ELSE UNCHANGED posted
  /\ UNCHANGED <<gui, window, plugin, dialog, config, callbacks, topics, net, cur, handled,
                 chosen>>

\* disconnect_callback, MOSQ_ERR_CONN_LOST; the loop connects again.
Lost ==
  /\ net = "wait"
  /\ link # "off"
  /\ faults < MaxFaults
  /\ faults' = faults + 1
  /\ link' = "opening"
  /\ subs' = {}
  /\ IF connected THEN Post([kind |-> "lost"]) ELSE UNCHANGED posted
  /\ UNCHANGED <<gui, window, plugin, dialog, client, net, cur, handled, chosen>>

\* MQTTClient::onMessageReceived takes _mutex and looks for a callback.
Received(t) ==
  /\ net = "wait"
  /\ link = "up"
  /\ subs \cap {Filter, t} # {}
  /\ topics' = topics \cup {t}
  /\ IF t \in callbacks
       THEN /\ handled < MaxMessages
            /\ handled' = handled + 1
            /\ net' = "locked"
            /\ cur' = [Idle EXCEPT !.topic = t]
       ELSE UNCHANGED <<handled, net, cur>>
  /\ UNCHANGED <<gui, window, plugin, dialog, connected, config, callbacks, link, subs,
                 posted, faults, chosen>>

\* ensureTopicParser.
EnsureParser ==
  /\ net = "locked"
  /\ IF parsers[cur.topic] # NoProtocol
       THEN net' = "parse" /\ UNCHANGED posted
       ELSE /\ net' = "invoke"
            /\ Post([kind |-> "parser", topic |-> cur.topic, protocol |-> protocol])
  /\ UNCHANGED <<gui, window, plugin, dialog, client, link, subs, cur, handled, faults,
                 chosen>>

\* DataStreamMQTT::onMessageReceived under the plugin's mutex().
Parse ==
  /\ net = "parse"
  /\ \/ /\ data' = data \cup {[id |-> handled, topic |-> cur.topic]}
        /\ net' = "parsed"
     \/ /\ net' = "failed"
        /\ UNCHANGED data
  /\ UNCHANGED <<gui, window, running, protocol, parsers, failed, dialog, client, link,
                 subs, cur, world, chosen>>

\* Variant: the signal waits for the GUI thread.
EmitBlocking ==
  /\ Serving(AnyLoop)
  /\ net \in {"parsed", "failed"}
  /\ Post([kind |-> "data"])
  /\ IF net = "parsed"
       THEN net' = "wait" /\ cur' = Idle /\ UNCHANGED failed
       ELSE /\ net' = "report"
            /\ failed' = failed + 1
            /\ cur' = [cur EXCEPT !.count = failed + 1]
  /\ UNCHANGED <<gui, window, running, protocol, parsers, data, dialog, client, link, subs,
                 handled, faults, chosen>>

\* It emits dataReceived in either case; a failure is counted...
Emit ==
  /\ net \in {"parsed", "failed"}
  /\ Post([kind |-> "data"])
  /\ IF net = "parsed"
       THEN net' = "wait" /\ cur' = Idle /\ UNCHANGED failed
       ELSE /\ net' = "report"
            /\ failed' = failed + 1
            /\ cur' = [cur EXCEPT !.count = failed + 1]
  /\ UNCHANGED <<gui, window, running, protocol, parsers, data, dialog, client, link, subs,
                 handled, faults, chosen>>

\* ...and reported.  _mutex is released.
Report ==
  /\ net = "report"
  /\ Post([kind |-> "notify", count |-> cur.count])
  /\ net' = "wait"
  /\ cur' = Idle
  /\ UNCHANGED <<gui, window, plugin, dialog, client, link, subs, handled, faults, chosen>>

-----------------------------------------------------------------------------
\* What the GUI thread does without the user, and the network thread
\* without the broker.

GuiCall ==
  Connected \/ ConnectionClosed \/ Listed \/ (\E t \in Topics : Register(t)) \/ Started
    \/ Stopped \/ Closed

GuiEvent ==
  CreateParser \/ DataReceived \/ NotificationsChanged \/ ConnectionLost

Callback == EnsureParser \/ Parse \/ Emit \/ Report

User ==
  Connect \/ ConnectFails \/ DisconnectClicked \/ StartClicked \/ Rejected \/ Accepted
    \/ StopClicked \/ CloseClicked \/ PauseToggled \/ NotificationsClicked \/ BoxClosed

Broker ==
  Acknowledged \/ Refused \/ Dismissed \/ Lost \/ (\E t \in Topics : Received(t))

Next == User \/ GuiCall \/ GuiEvent \/ ListTick \/ Replot \/ Callback \/ Broker

Spec == Init /\ [][Next]_vars

\* A thread that can go on does.  The event loop serves posted events before
\* timers, and timers in turn, however often it is busy.
FairSpec ==
  /\ Spec
  /\ WF_vars(GuiCall)
  /\ WF_vars(Callback)
  /\ SF_vars(GuiEvent)
  /\ SF_vars(Replot)

-----------------------------------------------------------------------------
\* What the buffer holds, and the callbacks that may fill it, belong to the
\* topics selected for this session: nothing of an earlier selection survives
\* MQTTClient::disconnect.
DataOfSession ==
  /\ \A m \in data : m.topic \in chosen
  /\ callbacks \subseteq chosen

\* Every parser was created for the protocol chosen for this session, although
\* it is created late, on behalf of another thread.
ParsersOfSession == \A t \in Topics : parsers[t] \in {NoProtocol, protocol}

\* No session serves anything of another: neither data, nor a callback, nor a
\* parser, whichever thread made it and however late.
SessionsApart == DataOfSession /\ ParsersOfSession

\* Once shutdown has returned nothing is parsed or buffered, whatever the
\* network thread was doing.
StoppedIsEmpty ==
  call \in {"none", "gone"} /\ ~running =>
    data = {} /\ callbacks = {} /\ parsers = NoParsers /\ MutexFree

\* A session is open from the selection of its topics until shutdown has
\* cleared what is left of it.
Open == active /\ loop # "dialog"

\* The topics the plugin keeps anything of: a callback, a parser, a sample, or
\* the message its other thread handles.
Kept ==
  callbacks \cup {t \in Topics : parsers[t] # NoProtocol} \cup {m.topic : m \in data}
    \cup (IF MutexFree THEN {} ELSE {cur.topic})

Streamer == INSTANCE DataStreamer WITH open <- Open, kept <- Kept

\* Whatever the network thread does in between, shutdown is one step to the main
\* window, after which nothing is parsed or buffered, and a session keeps
\* something of its own topics only.
IsDataStreamer == Streamer!ASpec

\* Outside a call, a network thread lives if and only if the client knows it has
\* to join one: MQTTClient::connect never starts a second one, and disconnect never
\* waits for one that has gone.
NoOrphanThread == call \in {"none", "gone"} => (net # "off" <=> connected)

\* The GUI thread waits for the network thread, which waits for it, or for the
\* user to close a box.
Hung ==
  \/ net = "invoke" /\ call \in {"add", "list", "close", "stop", "exit"}
  \/ net = "warn" /\ call \in {"close", "stop", "exit"}

\* Every call of the GUI thread returns, unless it meets the network thread
\* creating a parser, or showing its message box: no other wait on _mutex or
\* on the thread's end is without an end.
GuiReturns == (call \in Calls) ~> (call \notin Calls \/ Hung)

\* What the call of the GUI thread needs to return: the network thread between two
\* callbacks to join it, or _mutex.
Returns ==
  /\ call \in {"close", "stop", "exit"} /\ connected => net = "wait"
  /\ call = "list" \/ (call = "add" /\ todo # {}) => MutexFree

\* While the network thread waits for a parser, its request has not been served.
RequestWaits ==
  net = "invoke" => \E i \in 1 .. Len(posted) : posted[i].kind = "parser"

\* The half of GuiReturns that is a safety property: a call that cannot return, and is not Hung,
\* waits for a network thread that waits for nobody; and that thread waits for the
\* GUI thread only while the latter has its request to serve.
WaitsEnd ==
  /\ call \in Calls => Returns \/ Hung \/ net \in Holding \ {"invoke"}
  /\ RequestWaits

\* While Pause is never used, the buffer does not keep what was parsed into it:
\* it reaches the plots, or goes with its session.  No order of dataReceived
\* and the replot timer leaves it behind.
DataShown == []~paused => ((data # {}) ~> (data = {} \/ Hung))

\* The half of DataShown that is a safety property: what is in the buffer is announced,
\* or will be by the thread that put it there, until the timer is set that moves it;
\* or its session is being closed.
DataHasWay ==
  data # {} =>
    \/ replot
    \/ net = "parsed"
    \/ \E i \in 1 .. Len(posted) : posted[i].kind = "data"
    \/ call \in {"stop", "exit"}

\* shutdown stops the stream (DataStreamer::shutdown, "Stop streaming").
ShutdownReturns == (call = "stop") ~> (call # "stop")
-----------------------------------------------------------------------------
\* The strengthening that makes the safety properties above inductive.

\* Where the GUI thread is agrees with the state of the stream.
Phases ==
  /\ running => active
  /\ loop = "dialog" => active /\ ~running
  /\ call = "connect" => loop = "dialog"
  /\ call \in {"add", "stop", "exit"} => loop = "main" /\ ~running
  /\ call \in {"add", "stop"} => active
  /\ active /\ loop # "dialog" => running \/ call \in {"add", "stop", "exit"}

Quiet == data = {} /\ callbacks = {} /\ parsers = NoParsers /\ MutexFree

\* Only a stream that starts, runs or is being stopped has anything.
StreamsOnly == ~Open => Quiet

\* The network thread lives from Connect on, and is known to the client from its return.
ThreadKnown == net # "off" <=> connected \/ call = "connect"

\* What is registered, parsed or asked for is of the session.
OfSession ==
  /\ DataOfSession
  /\ call = "add" => todo \subseteq chosen
  /\ ~MutexFree => cur.topic \in chosen
  /\ ~MutexFree \/ callbacks # {} \/ call = "add" => protocol \in Protocols
  /\ ParsersOfSession
  /\ \A t \in Topics : parsers[t] # NoProtocol => t \in chosen

\* A parser is asked for once, by a network thread that waits for it.
OneRequest ==
  \A i \in 1 .. Len(posted) : posted[i].kind = "parser" =>
    /\ net = "invoke"
    /\ posted[i].topic = cur.topic
    /\ posted[i].protocol = protocol
    /\ \A j \in 1 .. Len(posted) : posted[j].kind = "parser" => j = i

IInv ==
  /\ TypeOK
  /\ Phases
  /\ StreamsOnly
  /\ ThreadKnown
  /\ OfSession
  /\ OneRequest
  /\ RequestWaits
=============================================================================
