---------------------------- MODULE BridgeClient ----------------------------
(***************************************************************************)
(* A live stream from a PlotJuggler Bridge: the plugin (WebsocketClient)   *)
(* with its dialog (WebsocketDialog), the streaming button of the main     *)
(* window, and the server at the other end of a web socket.                *)
(*                                                                         *)
(* Everything here runs in the GUI thread, as slots of the socket, of two  *)
(* timers and of the widgets; the dialog of start() runs an event loop of  *)
(* its own.  A web socket keeps the order of messages in each direction.   *)
(* The server answers each command once; what it answers, whether the      *)
(* plugin can read it, and when it closes the connection, is up to it.  An *)
(* id is a number here, given anew in each connection: what was on its way *)
(* ends with the connection.                                               *)
(*                                                                         *)
(* Message boxes are modal, and nothing is read from the socket as long as *)
(* one is open: they are not modelled, nor is _closing, which decides      *)
(* whether one is shown.  Encodings have a parser.  The OK button may be   *)
(* disabled for longer than its slot would refuse; that is left out.       *)
(***************************************************************************)
EXTENDS Integers, Sequences, FiniteSets

CONSTANTS
  Topics,          \* topics a server may offer
  MaxCommands,     \* bound: commands sent in a connection
  MaxConnections,  \* bound: connections opened
  MaxFrames        \* bound: binary frames

ASSUME BridgeAssumption ==
  /\ MaxCommands \in Nat
  /\ MaxConnections \in Nat
  /\ MaxFrames \in Nat

VARIABLES
  dialog,       \* _dialog: the dialog of start() is open
  active,       \* MainWindow: _active_streamer_plugin is set
  replot,       \* _replot_timer is active
  hung,         \* the GUI thread waits for a mutex it holds
  checked,      \* the Connect button of the dialog is down
  rows,         \* topics in its list
  picked,       \* those that are selected
  running,      \* _running
  paused,       \* _paused
  mode,         \* _state.mode
  inflight,     \* _state.req_in_flight
  pendingId,    \* _pending_request_id, 0 if empty
  pendingMode,  \* _pending_mode
  polling,      \* _topics_timer is active
  beating,      \* _heartbeat_timer is active
  wanted,       \* _config.topics
  topics,       \* names in _topics
  parsers,      \* topics that have a parser in _parsers_topic
  socket,       \* state of the socket
  toServer,     \* commands on their way, oldest first
  toClient,     \* answers and frames on their way, oldest first
  subscribed,   \* topics the server sends
  sends,        \* commands sent in this connection
  connections,  \* connections opened
  frames,       \* frames sent
  ignored       \* history: the answer to the request in flight was ignored

window == <<dialog, active, replot, hung>>
view == <<checked, rows, picked>>
choice == <<rows, picked, wanted>>
request == <<inflight, pendingId, pendingMode, ignored>>
timers == <<polling, beating>>
stream == <<topics, parsers>>
session == <<mode, request, timers, stream>>
link == <<socket, toServer, toClient, subscribed, sends>>
bounds == <<connections, frames>>
vars == <<window, view, running, paused, session, wanted, link, bounds>>

Modes == {"GetTopics", "Subscribe", "Data", "Close"}
Tracked == {"get_topics", "subscribe"}
Commands == Tracked \union {"pause", "resume", "heartbeat"}

\* bare: success, but without the list of topics or the schemas; garbled: no
\* JSON object, another protocol_version, another status, or not its id
Statuses == {"success", "bare", "error", "garbled"}

CommandType == [cmd : Commands, id : Nat, topics : SUBSET Topics]
MessageType ==
  [cmd : Commands \union {"frame"}, id : Nat, status : Statuses, topics : SUBSET Topics]

Command(cmd, id, t) == [cmd |-> cmd, id |-> id, topics |-> t]
Answer(cmd, id, status, t) == [cmd |-> cmd, id |-> id, status |-> status, topics |-> t]

TypeOK ==
  /\ dialog \in BOOLEAN /\ active \in BOOLEAN /\ replot \in BOOLEAN /\ hung \in BOOLEAN
  /\ checked \in BOOLEAN /\ running \in BOOLEAN /\ paused \in BOOLEAN
  /\ inflight \in BOOLEAN /\ ignored \in BOOLEAN
  /\ polling \in BOOLEAN /\ beating \in BOOLEAN
  /\ rows \subseteq Topics /\ picked \subseteq rows /\ wanted \subseteq Topics
  /\ topics \subseteq Topics /\ parsers \subseteq Topics /\ subscribed \subseteq Topics
  /\ mode \in Modes /\ pendingMode \in Modes
  /\ pendingId \in Nat /\ sends \in Nat /\ connections \in Nat /\ frames \in Nat
  /\ socket \in {"off", "opening", "open"}
  /\ toServer \in Seq(CommandType) /\ toClient \in Seq(MessageType)

Init ==
  /\ dialog = FALSE /\ active = FALSE /\ replot = FALSE /\ hung = FALSE
  /\ checked = FALSE /\ rows = {} /\ picked = {}
  /\ running = FALSE /\ paused = FALSE
  /\ mode = "Close" /\ inflight = FALSE /\ pendingId = 0 /\ pendingMode = "Close"
  /\ ignored = FALSE
  /\ polling = FALSE /\ beating = FALSE
  /\ wanted = {} /\ topics = {} /\ parsers = {}
  /\ socket = "off" /\ toServer = << >> /\ toClient = << >> /\ subscribed = {}
  /\ sends = 0 /\ connections = 0 /\ frames = 0

-----------------------------------------------------------------------------
(* Parts of the handlers                                                   *)

\* No answer is due
Settled ==
  /\ inflight' = FALSE /\ pendingId' = 0 /\ pendingMode' = "Close"
  /\ ignored' = FALSE

\* Variant: the parsers of the session stay
ResetStateKeeping ==
  /\ polling' = FALSE /\ beating' = FALSE
  /\ mode' = "Close"
  /\ Settled
  /\ topics' = {}
  /\ UNCHANGED parsers

ResetState ==
  /\ polling' = FALSE /\ beating' = FALSE
  /\ mode' = "Close"
  /\ Settled
  /\ topics' = {}
  /\ parsers' = {}

\* What was on its way does not arrive, and the server forgets
Cut ==
  /\ socket' = "off"
  /\ toServer' = << >> /\ toClient' = << >>
  /\ subscribed' = {}
  /\ sends' = 0

\* sendCommand, with an id that is new
Send(cmd, t) ==
  /\ sends < MaxCommands
  /\ sends' = sends + 1
  /\ toServer' = Append(toServer, Command(cmd, sends', t))

\* A command whose answer is waited for
Ask(cmd, m, t) ==
  /\ Send(cmd, t)
  /\ inflight' = TRUE
  /\ pendingId' = sends'
  /\ pendingMode' = m
  /\ ignored' = FALSE

\* shutdown(), whose abort() serves disconnected at once: it finds nothing
\* left to do.  Without a connection it returns, and a connection that is
\* being opened stays
Shutdown ==
  IF running
    THEN /\ running' = FALSE
         /\ paused' = FALSE
         /\ ResetState
         /\ replot' = (replot \/ active)
         /\ Cut
    ELSE UNCHANGED <<running, paused, session, replot, link>>

-----------------------------------------------------------------------------
(* The user                                                                *)

\* startStreamingPlugin and start(): at once if the plugin is running, and
\* up to its dialog otherwise
StartClicked ==
  /\ ~hung /\ ~dialog /\ ~active
  /\ active' = TRUE
  /\ IF running THEN UNCHANGED <<dialog, view>>
     ELSE dialog' = TRUE /\ checked' = FALSE /\ rows' = {} /\ picked' = {}
  /\ UNCHANGED <<replot, hung, running, paused, session, wanted, link, bounds>>

Connect ==
  /\ dialog /\ ~checked
  /\ connections < MaxConnections
  /\ connections' = connections + 1
  /\ checked' = TRUE
  /\ socket' = "opening"
  /\ UNCHANGED <<window, rows, picked, running, paused, session, wanted, toServer,
                 toClient, subscribed, sends, frames>>

Disconnect ==
  /\ dialog /\ checked
  /\ checked' = FALSE
  /\ ResetState
  /\ Cut
  /\ running' = FALSE
  /\ rows' = {} /\ picked' = {}
  /\ UNCHANGED <<window, paused, wanted, bounds>>

Select ==
  /\ dialog
  /\ picked' \in SUBSET rows
  /\ UNCHANGED <<window, checked, rows, running, paused, session, wanted, link, bounds>>

\* Variant: while an answer is due
AcceptEarly ==
  /\ dialog
  /\ running /\ mode = "GetTopics" /\ picked # {}
  /\ topics' = picked
  /\ wanted' = picked
  /\ mode' = "Subscribe"
  /\ Ask("subscribe", "Subscribe", picked)
  /\ dialog' = FALSE
  /\ UNCHANGED <<active, replot, hung, view, running, paused, timers, parsers, socket,
                 toClient, subscribed, bounds>>

\* OK: subscribe, after which start() returns
Accept ==
  /\ dialog
  /\ running /\ mode = "GetTopics" /\ ~inflight /\ picked # {}
  /\ topics' = picked
  /\ wanted' = picked
  /\ mode' = "Subscribe"
  /\ Ask("subscribe", "Subscribe", picked)
  /\ dialog' = FALSE
  /\ UNCHANGED <<active, replot, hung, view, running, paused, timers, parsers, socket,
                 toClient, subscribed, bounds>>

Cancel ==
  /\ dialog
  /\ Shutdown
  /\ dialog' = FALSE
  /\ active' = FALSE
  /\ UNCHANGED <<hung, view, wanted, bounds>>

\* The dialog is closed by its window, without its Cancel button: start()
\* succeeds if there is a connection
Escape ==
  /\ dialog
  /\ dialog' = FALSE
  /\ active' = running
  /\ UNCHANGED <<replot, hung, view, running, paused, session, wanted, link, bounds>>

\* stopStreamingPlugin
StopClicked ==
  /\ ~hung /\ ~dialog /\ active
  /\ Shutdown
  /\ active' = FALSE
  /\ UNCHANGED <<dialog, hung, view, wanted, bounds>>

\* The action Pause, or Resume, of the plugin
PauseClicked ==
  /\ ~hung /\ ~dialog
  /\ running /\ ~inflight
  /\ Send(IF paused THEN "resume" ELSE "pause", {})
  /\ paused' = ~paused
  /\ UNCHANGED <<window, view, running, session, wanted, socket, toClient, subscribed,
                 bounds>>

-----------------------------------------------------------------------------
(* Timers                                                                  *)

\* Variant: whether or not an answer is due
PollBlind ==
  /\ ~hung /\ polling
  /\ socket = "open" /\ running /\ mode = "GetTopics"
  /\ Ask("get_topics", "GetTopics", {})
  /\ UNCHANGED <<window, view, running, paused, mode, timers, stream, wanted, socket,
                 toClient, subscribed, bounds>>

\* requestTopics
Poll ==
  /\ ~hung /\ polling
  /\ socket = "open" /\ running /\ mode = "GetTopics" /\ ~inflight
  /\ Ask("get_topics", "GetTopics", {})
  /\ UNCHANGED <<window, view, running, paused, mode, timers, stream, wanted, socket,
                 toClient, subscribed, bounds>>

\* sendHeartBeat
HeartBeat ==
  /\ ~hung /\ beating
  /\ socket = "open" /\ running /\ mode = "Data"
  /\ Send("heartbeat", {})
  /\ UNCHANGED <<window, view, running, paused, session, wanted, socket, toClient,
                 subscribed, bounds>>

Replot ==
  /\ ~hung /\ replot
  /\ replot' = FALSE
  /\ UNCHANGED <<dialog, active, hung, view, running, paused, session, wanted, link, bounds>>

-----------------------------------------------------------------------------
(* The connection                                                          *)

\* onConnected
Opened ==
  /\ ~hung /\ socket = "opening"
  /\ socket' = "open"
  /\ running' = TRUE
  /\ checked' = (checked \/ dialog)
  /\ mode' = "GetTopics"
  /\ Ask("get_topics", "GetTopics", {})
  /\ polling' = TRUE
  /\ UNCHANGED <<window, rows, picked, paused, beating, stream, wanted, toClient,
                 subscribed, bounds>>

\* onDisconnected, also from onError: the connection is refused or lost.
\* Nothing is reset when there was none
Disconnected ==
  /\ ~hung /\ socket # "off"
  /\ IF dialog THEN checked' = FALSE /\ rows' = {} /\ picked' = {} ELSE UNCHANGED view
  /\ IF running THEN ResetState ELSE UNCHANGED session
  /\ running' = FALSE
  /\ Cut
  /\ UNCHANGED <<window, paused, wanted, bounds>>

-----------------------------------------------------------------------------
(* The server                                                              *)

\* It answers the oldest command, which it may have served even if its answer
\* cannot be read
ServerAnswers ==
  /\ toServer # << >>
  /\ toServer' = Tail(toServer)
  /\ LET c == Head(toServer) IN
       \/ /\ toClient' = Append(toClient, Answer(c.cmd, c.id, "error", {}))
          /\ UNCHANGED subscribed
       \/ /\ c.cmd = "get_topics"
          /\ \E t \in SUBSET Topics :
               toClient' = Append(toClient, Answer(c.cmd, c.id, "success", t))
          /\ UNCHANGED subscribed
       \/ /\ c.cmd = "subscribe"
          /\ \E t \in SUBSET c.topics, st \in {"success", "garbled"} :
               /\ toClient' = Append(toClient, Answer(c.cmd, c.id, st, t))
               /\ subscribed' = t
       \/ /\ toClient' = Append(toClient, Answer(c.cmd, c.id, "bare", {}))
          /\ UNCHANGED subscribed
       \/ /\ c.cmd # "subscribe"
          /\ toClient' = Append(toClient, Answer(c.cmd, c.id, "garbled", {}))
          /\ UNCHANGED subscribed
  /\ UNCHANGED <<window, view, running, paused, session, wanted, socket, sends, bounds>>

\* A frame with samples of one topic
ServerSends ==
  /\ frames < MaxFrames
  /\ frames' = frames + 1
  /\ \E t \in subscribed : toClient' = Append(toClient, Answer("frame", 0, "success", {t}))
  /\ UNCHANGED <<window, view, running, paused, session, wanted, socket, toServer,
                 subscribed, sends, connections>>

-----------------------------------------------------------------------------
(* Messages                                                                *)

Receives ==
  /\ ~hung
  /\ toClient # << >>
  /\ toClient' = Tail(toClient)

\* Variant: an answer is taken for the one that is due, whatever its id
ExpectedAny(a) == running /\ a.status # "garbled"

\* The tests an answer must pass: it can be read, is for the request in flight
\* and has a status that is known
Expected(a) == running /\ a.status # "garbled" /\ (inflight => a.id = pendingId)

\* Nothing is changed, and if it was the answer that is due no other comes
Ignored(a) ==
  /\ ignored' = (ignored \/ (inflight /\ a.id = pendingId))
  /\ UNCHANGED <<inflight, pendingId, pendingMode, mode, timers, stream, choice>>

\* Variant: a request that was refused is still waited for
RefusedUnsettled == UNCHANGED <<session, choice>>

Refused == Settled /\ UNCHANGED <<mode, timers, stream, choice>>

\* setTopics: what was selected, or wanted from an earlier session, is
\* selected again
TopicsListed(t) ==
  /\ Settled
  /\ IF dialog
       THEN rows' = t /\ picked' = (picked \union wanted) \intersect t /\ wanted' = {}
       ELSE UNCHANGED choice
  /\ UNCHANGED <<mode, timers, stream>>

\* Variant: topics the server has not confirmed stay
SubscribedAll(t) ==
  /\ Settled
  /\ topics' = topics
  /\ parsers' = parsers \union topics'
  /\ mode' = "Data"
  /\ polling' = FALSE /\ beating' = TRUE
  /\ UNCHANGED choice

\* The topics the server has confirmed, with createParsersForTopics
Subscribed(t) ==
  /\ Settled
  /\ topics' = topics \intersect t
  /\ parsers' = parsers \union topics'
  /\ mode' = "Data"
  /\ polling' = FALSE /\ beating' = TRUE
  /\ UNCHANGED choice

SubscribedNone ==
  /\ Settled
  /\ topics' = {}
  /\ parsers' = {}
  /\ UNCHANGED <<mode, timers, choice>>

\* onTextMessageReceived
AnswerServed ==
  /\ Receives
  /\ Head(toClient).cmd # "frame"
  /\ LET a == Head(toClient) IN
       IF ~Expected(a) THEN Ignored(a)
       ELSE CASE a.status = "error" -> Refused
              [] a.status = "success" /\ pendingMode = "GetTopics" -> TopicsListed(a.topics)
              [] a.status = "success" /\ pendingMode = "Subscribe" -> Subscribed(a.topics)
              [] a.status = "bare" /\ pendingMode = "Subscribe" -> SubscribedNone
              [] OTHER -> Settled /\ UNCHANGED <<mode, timers, stream, choice>>
  /\ UNCHANGED <<window, checked, running, paused, socket, toServer, subscribed, sends,
                 bounds>>

\* onBinaryMessageReceived, of a frame that parses or has no parser
FrameServed ==
  /\ Receives
  /\ Head(toClient).cmd = "frame"
  /\ replot' = (replot \/ (running /\ active))
  /\ UNCHANGED <<dialog, active, hung, view, running, paused, session, wanted, socket,
                 toServer, subscribed, sends, bounds>>

\* The parser throws: a box is opened with mutex() locked.  If the replot
\* timer fires before it is closed, the thread waits for itself; otherwise
\* the stream is stopped, and closed() stops it in the main window
ParseFails ==
  /\ ~hung
  /\ toClient # << >> /\ Head(toClient).cmd = "frame"
  /\ running
  /\ Head(toClient).topics \subseteq parsers
  /\ \/ /\ replot /\ active
        /\ hung' = TRUE
        /\ toClient' = Tail(toClient)
        /\ UNCHANGED <<dialog, active, replot, view, running, paused, session, wanted,
                       socket, toServer, subscribed, sends, bounds>>
     \/ /\ Shutdown
        /\ active' = FALSE
        /\ UNCHANGED <<dialog, hung, view, wanted, bounds>>

Next ==
  \/ StartClicked \/ Connect \/ Disconnect \/ Select \/ Accept \/ Cancel \/ Escape
  \/ StopClicked \/ PauseClicked
  \/ Poll \/ HeartBeat \/ Replot
  \/ Opened \/ Disconnected
  \/ ServerAnswers \/ ServerSends
  \/ AnswerServed \/ FrameServed \/ ParseFails

Spec == Init /\ [][Next]_vars

\* The server answers, and the event loop serves what has arrived
FairSpec ==
  /\ Spec
  /\ WF_vars(ServerAnswers)
  /\ WF_vars(AnswerServed)
  /\ WF_vars(FrameServed \/ ParseFails)

-----------------------------------------------------------------------------
(* Properties                                                              *)

\* A request whose answer is due
Due(m) ==
  /\ inflight
  /\ m.id = pendingId
  /\ m.cmd = IF mode = "GetTopics" THEN "get_topics" ELSE "subscribe"

\* A request or its answer is on its way
OnItsWay ==
  \/ \E i \in 1 .. Len(toServer) : toServer[i].cmd \in Tracked
  \/ \E i \in 1 .. Len(toClient) : toClient[i].cmd \in Tracked

\* The one request whose answer is due is the one _pending_request_id and
\* _pending_mode tell: no answer is taken for another one, whatever is answered
\* in between.  As long as req_in_flight is set it is on its way, there or back,
\* unless onTextMessageReceived has ignored its answer: then nothing is on its
\* way that could still end the wait, and no other request is made
ReplyDue ==
  /\ \A i \in 1 .. Len(toServer) : toServer[i].cmd \in Tracked => Due(toServer[i])
  /\ \A i \in 1 .. Len(toClient) : toClient[i].cmd \in Tracked => Due(toClient[i])
  /\ inflight => pendingMode = mode /\ mode \in {"GetTopics", "Subscribe"}
  /\ inflight => IF ignored THEN ~OnItsWay ELSE OnItsWay
  /\ ignored => inflight

\* In Data mode plugin and server agree on the topics, every frame finds its
\* parser when it is served, unless the answer to the subscription was ignored,
\* and then no frame finds one; nothing of a session is left for the next one,
\* however it ended
StreamAgreed ==
  /\ mode = "Data" => parsers = topics /\ topics = subscribed
  /\ toClient # << >> /\ Head(toClient).cmd = "frame" =>
       IF ignored THEN parsers = {} ELSE Head(toClient).topics \subseteq parsers
  /\ ~running => mode = "Close" /\ topics = {} /\ parsers = {} /\ ~polling /\ ~beating

\* A session is open from its subscription to its end
SessionOpen == mode \in {"Subscribe", "Data"}

\* The topics the plugin keeps anything of
Kept == topics \union parsers

Streamer == INSTANCE DataStreamer WITH open <- SessionOpen, chosen <- wanted, kept <- Kept

\* Of the five ways a session may end each clears in one step what it kept, and
\* while it is open only topics that were selected for it are kept, whatever
\* answers, lists and frames come late
IsDataStreamer == Streamer!ASpec

\* A request in flight is settled by its answer or by the end of the connection,
\* whatever is answered in between, so that dialog, poll and pause are free
\* again.  The one exception is an answer that onTextMessageReceived ignores: there is no
\* timeout, and they stay blocked until the connection ends
RequestSettles == inflight ~> ~inflight \/ ignored

-----------------------------------------------------------------------------
(* Why ReplyDue and StreamAgreed hold                                      *)

Connected ==
  /\ running <=> socket = "open"
  /\ running /\ dialog => checked
  /\ socket # "open" => toServer = << >> /\ toClient = << >> /\ subscribed = {}
  /\ running <=> mode # "Close"
  /\ polling \/ beating \/ inflight => running
  /\ ~inflight => pendingMode = "Close"

\* No two commands on their way have the same id; frames have none
OneEach ==
  /\ \A i, j \in 1 .. Len(toServer) : toServer[i].id = toServer[j].id => i = j
  /\ \A i, j \in 1 .. Len(toClient) :
       toClient[i].cmd # "frame" /\ toClient[i].id = toClient[j].id => i = j
  /\ \A i \in 1 .. Len(toServer), j \in 1 .. Len(toClient) : toServer[i].id # toClient[j].id
  /\ \A i \in 1 .. Len(toServer) : toServer[i].id \in 1 .. sends
  /\ \A i \in 1 .. Len(toClient) :
       IF toClient[i].cmd = "frame" THEN toClient[i].id = 0 ELSE toClient[i].id \in 1 .. sends

\* No other message has the id of the request in flight, not even once its
\* answer was ignored
Owned ==
  inflight =>
    /\ pendingId \in 1 .. sends
    /\ \A i \in 1 .. Len(toServer) : toServer[i].id = pendingId => toServer[i].cmd \in Tracked
    /\ \A i \in 1 .. Len(toClient) : toClient[i].id = pendingId => toClient[i].cmd \in Tracked

\* What the server sends is known to the plugin, or the answer that tells it
\* is on its way
Known ==
  /\ mode \in {"Close", "GetTopics"} => topics = {}
  /\ mode # "Data" => parsers = {}
  /\ mode = "Data" => parsers = topics /\ topics = subscribed
  /\ mode \in {"Close", "GetTopics"} \/ (mode = "Subscribe" /\ ~inflight) => subscribed = {}
  /\ \A i \in 1 .. Len(toServer) :
       toServer[i].cmd = "subscribe" => toServer[i].topics = topics /\ subscribed = {}
  /\ \A i \in 1 .. Len(toClient) : toClient[i].cmd = "subscribe" =>
       IF toClient[i].status = "success"
         THEN toClient[i].topics = subscribed /\ subscribed \subseteq topics
         ELSE toClient[i].status = "garbled" \/ subscribed = {}

\* Frames come after the answer to the subscription
Confirmed(i) ==
  \/ mode = "Data" \/ ignored
  \/ \E j \in 1 .. (i - 1) :
       toClient[j].cmd = "subscribe" /\ toClient[j].status \in {"success", "garbled"}
FramesLast ==
  \A i \in 1 .. Len(toClient) :
    toClient[i].cmd = "frame" => toClient[i].topics \subseteq subscribed /\ Confirmed(i)

\* What is kept was selected
KeptRight == Kept \subseteq (IF SessionOpen THEN wanted ELSE {})

IInv == TypeOK /\ Connected /\ OneEach /\ Owned /\ ReplyDue /\ Known /\ FramesLast
=============================================================================
