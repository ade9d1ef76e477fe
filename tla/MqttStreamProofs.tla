------------------------- MODULE MqttStreamProofs --------------------------
(***************************************************************************)
(* Theorems about MqttStream for any topics, any protocols and any number  *)
(* of messages and faults, checked by TLAPS.                               *)
(***************************************************************************)
EXTENDS MqttStream, SequenceTheorems, TLAPS

-----------------------------------------------------------------------------
\* Type correctness.

\* The stream starts with values of its types.
LEMMA InitType == Init => TypeOK
<1> SUFFICES ASSUME Init PROVE TypeOK
  OBVIOUS
<1>1. posted \in Seq(Events)
  BY DEF Init
<1>2. handled \in 0 .. MaxMessages /\ faults \in 0 .. MaxFaults
  BY MqttAssumption DEF Init
<1>3. cur \in [topic : Topics \cup {Filter}, count : Nat] /\ parsers \in [Topics -> Protocols \cup {NoProtocol}]
  BY DEF Init, NoParsers, Idle
<1>4. QED BY <1>1, <1>2, <1>3 DEF Init, TypeOK

\* Disconnecting keeps the types of the client and of its thread.
LEMMA DisconnectType ==
  ASSUME TypeOK, Disconnect
  PROVE  /\ connected' \in BOOLEAN /\ config' \subseteq {Filter}
         /\ callbacks' \subseteq Topics /\ topics' \subseteq Topics
         /\ net' \in Holding \cup {"off", "wait", "warn"}
         /\ link' \in {"off", "opening", "up"} /\ subs' \subseteq Topics \cup {Filter}
         /\ cur' \in [topic : Topics \cup {Filter}, count : Nat]
  BY DEF TypeOK, Disconnect, network

\* The GUI thread keeps the types in each of its calls.
LEMMA CallType ==
  ASSUME TypeOK, GuiCall PROVE TypeOK'
<1> USE MqttAssumption DEF TypeOK, Calls, gui, window, plugin, dialog, client, network, world
<1>1. CASE Connected
  BY <1>1 DEF Connected
<1>2. CASE ConnectionClosed
  BY <1>2, DisconnectType DEF ConnectionClosed
<1>3. CASE Listed
  BY <1>3 DEF Listed
<1>4. ASSUME NEW t \in Topics, Register(t) PROVE TypeOK'
  BY <1>4 DEF Register
<1>5. CASE Started
  BY <1>5 DEF Started, Move
<1>6. CASE Stopped
  BY <1>6, DisconnectType DEF Stopped, NoParsers
<1>7. CASE Closed
  BY <1>7, DisconnectType DEF Closed, NoParsers
<1>8. QED BY <1>1, <1>2, <1>3, <1>4, <1>5, <1>6, <1>7 DEF GuiCall

\* The events the network thread posted keep the types when they are served.
LEMMA EventType ==
  ASSUME TypeOK, GuiEvent PROVE TypeOK'
<1> USE MqttAssumption DEF TypeOK, Calls, gui, window, plugin, dialog, client, network, world
<1>1. ASSUME posted # << >> PROVE Head(posted) \in Events /\ Tail(posted) \in Seq(Events)
  BY <1>1, HeadTailProperties
<1>2. CASE CreateParser
  BY <1>1, <1>2 DEF CreateParser, Serve, Events, Holding
<1>3. CASE DataReceived
  BY <1>1, <1>3 DEF DataReceived, Serve
<1>4. CASE NotificationsChanged
  BY <1>1, <1>4 DEF NotificationsChanged, Serve, Events
<1>5. CASE ConnectionLost
  BY <1>1, <1>5 DEF ConnectionLost, Serve
<1>6. QED BY <1>2, <1>3, <1>4, <1>5 DEF GuiEvent

\* The clicks of the user and the timers keep the types.
LEMMA UserType ==
  ASSUME TypeOK, User \/ ListTick \/ Replot PROVE TypeOK'
<1> USE MqttAssumption DEF TypeOK, Calls, gui, window, plugin, dialog, client, network, world
<1>1. CASE Connect
  BY <1>1 DEF Connect
<1>2. CASE ConnectFails
  BY <1>2 DEF ConnectFails
<1>3. CASE DisconnectClicked
  BY <1>3 DEF DisconnectClicked
<1>4. CASE StartClicked
  BY <1>4 DEF StartClicked
<1>5. CASE Rejected
<2>1. active' \in BOOLEAN
  BY <1>5 DEF Rejected
<2>2. QED BY <1>5, <2>1 DEF Rejected
<1>6. CASE Accepted
  BY <1>6 DEF Accepted
<1>7. CASE StopClicked
  BY <1>7 DEF StopClicked
<1>8. CASE CloseClicked
  BY <1>8 DEF CloseClicked
<1>9. CASE PauseToggled
  BY <1>9 DEF PauseToggled
<1>10. CASE NotificationsClicked
  BY <1>10 DEF NotificationsClicked
<1>11. CASE BoxClosed
  BY <1>11 DEF BoxClosed
<1>12. CASE ListTick
  BY <1>12 DEF ListTick
<1>13. CASE Replot
<2>1. replot' \in BOOLEAN /\ data' \subseteq [id : Nat, topic : Topics]
  BY <1>13 DEF Replot, Move
<2>2. QED BY <1>13, <2>1 DEF Replot
<1>14. QED BY <1>1, <1>2, <1>3, <1>4, <1>5, <1>6, <1>7, <1>8, <1>9, <1>10, <1>11, <1>12, <1>13 DEF User


\* The callbacks of the network thread keep the types, given that a message is
\* handled under a protocol and for one of the topics.
LEMMA CallbackType ==
  ASSUME TypeOK, Callback, OfSession PROVE TypeOK'
<1> USE MqttAssumption DEF TypeOK, Holding, gui, window, plugin, dialog, client, network, world
<1>1. \A e \in Events : Append(posted, e) \in Seq(Events)
  BY AppendProperties
<1>2. [kind |-> "data"] \in Events
  BY DEF Events
<1>3. \A n \in Nat : [kind |-> "notify", count |-> n] \in Events
  BY DEF Events
<1>4. Idle \in [topic : Topics \cup {Filter}, count : Nat]
  BY DEF Idle
<1>5. CASE EnsureParser
  <2>1. cur.topic \in Topics /\ protocol \in Protocols
    BY <1>5 DEF EnsureParser, OfSession, MutexFree
  <2>2. [kind |-> "parser", topic |-> cur.topic, protocol |-> protocol] \in Events
    BY <2>1 DEF Events
  <2>3. posted' \in Seq(Events)
    BY <1>1, <1>5, <2>2 DEF EnsureParser, Post
  <2>4. QED BY <1>5, <2>3 DEF EnsureParser
<1>6. CASE Parse
  <2>1. cur.topic \in Topics
    BY <1>6 DEF Parse, OfSession, MutexFree
  <2>2. QED BY <1>6, <2>1 DEF Parse
<1>7. CASE Emit
  <2>1. posted' \in Seq(Events)
    BY <1>1, <1>2, <1>7 DEF Emit, Post
  <2>2. cur' \in [topic : Topics \cup {Filter}, count : Nat] /\ failed' \in Nat
    BY <1>4, <1>7 DEF Emit
  <2>3. QED BY <1>7, <2>1, <2>2 DEF Emit
<1>8. CASE Report
  BY <1>1, <1>3, <1>4, <1>8 DEF Report, Post
<1>9. QED BY <1>5, <1>6, <1>7, <1>8 DEF Callback

\* What the broker sends, and the connections it loses, keep the types.
LEMMA BrokerType ==
  ASSUME TypeOK, Broker PROVE TypeOK'
<1> USE MqttAssumption DEF TypeOK, Holding, gui, window, plugin, dialog, client, network, world
<1>1. CASE Acknowledged
  BY <1>1 DEF Acknowledged
<1>2. CASE Refused
  BY <1>2 DEF Refused
<1>3. CASE Dismissed
  BY <1>3 DEF Dismissed
<1>4. CASE Lost
  <2>1. [kind |-> "lost"] \in Events
    BY DEF Events
  <2>2. posted' \in Seq(Events)
    BY <1>4, <2>1, AppendProperties DEF Lost, Post
  <2>3. QED BY <1>4, <2>2 DEF Lost
<1>5. ASSUME NEW t \in Topics, Received(t) PROVE TypeOK'
  BY <1>5 DEF Received, Idle
<1>6. QED BY <1>1, <1>2, <1>3, <1>4, <1>5 DEF Broker

-----------------------------------------------------------------------------
\* The inductive invariant, one conjunct at a time.

\* The GUI thread's place and the state of the stream change together.
LEMMA PhasesStep ==
  ASSUME TypeOK, Phases, [Next]_vars PROVE Phases'
<1> USE DEF TypeOK, Phases, Serving, AnyLoop, gui, window, plugin
<1>1. CASE User
  BY <1>1 DEF User, Connect, ConnectFails, DisconnectClicked, StartClicked, Rejected,
     Accepted, StopClicked, CloseClicked, PauseToggled, NotificationsClicked, BoxClosed
<1>2. CASE GuiCall
  BY <1>2 DEF GuiCall, Connected, ConnectionClosed, Listed, Register, Started, Stopped, Closed
<1>3. CASE GuiEvent
  BY <1>3 DEF GuiEvent, CreateParser, DataReceived, NotificationsChanged, ConnectionLost, Serve
<1>4. CASE ListTick \/ Replot
  BY <1>4 DEF ListTick, Replot
<1>5. CASE Callback
  BY <1>5 DEF Callback, EnsureParser, Parse, Emit, Report
<1>6. CASE Broker
  BY <1>6 DEF Broker, Acknowledged, Refused, Dismissed, Lost, Received
<1>7. CASE UNCHANGED vars
  BY <1>7 DEF vars
<1>8. QED BY <1>1, <1>2, <1>3, <1>4, <1>5, <1>6, <1>7 DEF Next

\* The event that CreateParser serves is the one request there is.
LEMMA RequestServed ==
  ASSUME TypeOK, OneRequest, CreateParser
  PROVE  /\ net = "invoke"
         /\ Head(posted).topic = cur.topic
         /\ Head(posted).protocol = protocol
         /\ \A i \in 2 .. Len(posted) : posted[i].kind # "parser"
<1>1. posted # << >> /\ posted \in Seq(Events) /\ Head(posted).kind = "parser"
  BY DEF CreateParser, Serve, TypeOK
<1>2. Head(posted) = posted[1] /\ 1 \in 1 .. Len(posted)
  BY <1>1
<1>3. QED BY <1>1, <1>2 DEF OneRequest

\* The client learns of a thread with the call that starts it, and forgets it
\* with the call that joins it.
LEMMA ThreadStep ==
  ASSUME TypeOK, Phases, ThreadKnown, OneRequest, [Next]_vars PROVE ThreadKnown'
<1> USE DEF TypeOK, Phases, ThreadKnown, Serving, AnyLoop, gui, dialog, client, network
<1>1. CASE User
  BY <1>1 DEF User, Connect, ConnectFails, DisconnectClicked, StartClicked, Rejected,
     Accepted, StopClicked, CloseClicked, PauseToggled, NotificationsClicked, BoxClosed
<1>2. CASE GuiCall
  <2>1. CASE Connected
    BY <2>1 DEF Connected
  <2>2. CASE ConnectionClosed \/ Stopped \/ Closed
    BY <2>2 DEF ConnectionClosed, Stopped, Closed, Disconnect
  <2>3. CASE Listed \/ Started \/ \E t \in Topics : Register(t)
    BY <2>3 DEF Listed, Started, Register
  <2>4. QED BY <1>2, <2>1, <2>2, <2>3 DEF GuiCall
<1>3. CASE GuiEvent
  BY <1>3, RequestServed DEF GuiEvent, CreateParser, DataReceived, NotificationsChanged, ConnectionLost, Serve
<1>4. CASE ListTick \/ Replot
  BY <1>4 DEF ListTick, Replot
<1>5. CASE Callback
  BY <1>5 DEF Callback, EnsureParser, Parse, Emit, Report
<1>6. CASE Broker
  BY <1>6 DEF Broker, Acknowledged, Refused, Dismissed, Lost, Received
<1>7. CASE UNCHANGED vars
  BY <1>7 DEF vars
<1>8. QED BY <1>1, <1>2, <1>3, <1>4, <1>5, <1>6, <1>7 DEF Next


\* Disconnecting, when nobody is in the middle of Connect, leaves no thread.
LEMMA DisconnectEnds ==
  ASSUME TypeOK, ThreadKnown, call # "connect", Disconnect
  PROVE  /\ net' = "off" /\ MutexFree' /\ callbacks' = {} /\ cur' = cur
         /\ net \notin Holding
  BY DEF Disconnect, ThreadKnown, MutexFree, Holding, network

\* Whatever fills buffer, callbacks or parsers happens within a stream.
LEMMA StreamsStep ==
  ASSUME TypeOK, Phases, StreamsOnly, ThreadKnown, OneRequest, [Next]_vars
  PROVE  StreamsOnly'
<1> USE DEF TypeOK, Phases, StreamsOnly, Open, Quiet, MutexFree, Holding, NoParsers, Serving, AnyLoop, gui, window, plugin, client, network
<1>1. CASE User
  BY <1>1 DEF User, Connect, ConnectFails, DisconnectClicked, StartClicked, Rejected,
     Accepted, StopClicked, CloseClicked, PauseToggled, NotificationsClicked, BoxClosed
<1>2. CASE GuiCall
  <2>1. CASE Connected
    BY <2>1 DEF Connected
  <2>2. CASE ConnectionClosed
    BY <2>2, DisconnectEnds DEF ConnectionClosed
  <2>3. CASE Listed
    BY <2>3 DEF Listed
  <2>4. ASSUME NEW t \in Topics, Register(t) PROVE StreamsOnly'
    BY <2>4 DEF Register
  <2>5. CASE Started
    BY <2>5 DEF Started
  <2>6. CASE Stopped
    BY <2>6, DisconnectEnds DEF Stopped
  <2>7. CASE Closed
    BY <2>7, DisconnectEnds DEF Closed
  <2>8. QED BY <1>2, <2>1, <2>2, <2>3, <2>4, <2>5, <2>6, <2>7 DEF GuiCall
<1>3. CASE GuiEvent
  BY <1>3, RequestServed DEF GuiEvent, CreateParser, DataReceived, NotificationsChanged, ConnectionLost, Serve
<1>4. CASE ListTick \/ Replot
  BY <1>4 DEF ListTick, Replot, Move
<1>5. CASE Callback
  BY <1>5 DEF Callback, EnsureParser, Parse, Emit, Report
<1>6. CASE Broker
  BY <1>6 DEF Broker, Acknowledged, Refused, Dismissed, Lost, Received
<1>7. CASE UNCHANGED vars
  BY <1>7 DEF vars
<1>8. QED BY <1>1, <1>2, <1>3, <1>4, <1>5, <1>6, <1>7 DEF Next

\* No step mixes two sessions: topics and protocol are chosen while nothing of
\* the last one is left.
LEMMA SessionStep ==
  ASSUME TypeOK, Phases, StreamsOnly, ThreadKnown, OneRequest, OfSession, [Next]_vars
  PROVE  OfSession'
<1> USE DEF TypeOK, OfSession, DataOfSession, ParsersOfSession, MutexFree, Holding, gui, window, plugin, client, network
<1>1. CASE User
  <2>1. CASE StartClicked
    BY <2>1 DEF StartClicked, Serving, Phases, StreamsOnly, Open, Quiet, NoParsers
  <2>2. CASE Accepted
    BY <2>2 DEF Accepted, Serving, Phases, StreamsOnly, Open, Quiet, NoParsers
  <2>3. CASE ~StartClicked /\ ~Accepted
    BY <1>1, <2>3 DEF User, Connect, ConnectFails, DisconnectClicked, Rejected, StopClicked,
       CloseClicked, PauseToggled, NotificationsClicked, BoxClosed
  <2>4. QED BY <2>1, <2>2, <2>3
<1>2. CASE GuiCall
  <2>1. CASE Connected
    BY <2>1 DEF Connected
  <2>2. CASE ConnectionClosed
    BY <2>2, DisconnectEnds DEF ConnectionClosed
  <2>3. CASE Listed
    BY <2>3 DEF Listed
  <2>4. ASSUME NEW t \in Topics, Register(t) PROVE OfSession'
    BY <2>4 DEF Register
  <2>5. CASE Started
    BY <2>5 DEF Started, Move
  <2>6. CASE Stopped
    BY <2>6, DisconnectEnds DEF Stopped, NoParsers
  <2>7. CASE Closed
    BY <2>7, DisconnectEnds DEF Closed, NoParsers
  <2>8. QED BY <1>2, <2>1, <2>2, <2>3, <2>4, <2>5, <2>6, <2>7 DEF GuiCall
<1>3. CASE GuiEvent
  <2>1. CASE CreateParser
    BY <2>1, RequestServed DEF CreateParser
  <2>2. CASE DataReceived \/ NotificationsChanged \/ ConnectionLost
    BY <2>2 DEF DataReceived, NotificationsChanged, ConnectionLost
  <2>3. QED BY <1>3, <2>1, <2>2 DEF GuiEvent
<1>4. CASE ListTick \/ Replot
  BY <1>4 DEF ListTick, Replot, Move
<1>5. CASE Callback
  BY <1>5 DEF Callback, EnsureParser, Parse, Emit, Report, Idle
<1>6. CASE Broker
  <2>1. ASSUME NEW t \in Topics, Received(t) PROVE OfSession'
    BY <2>1 DEF Received, Idle
  <2>2. CASE Acknowledged \/ Refused \/ Dismissed \/ Lost
    BY <2>2 DEF Acknowledged, Refused, Dismissed, Lost
  <2>3. QED BY <1>6, <2>1, <2>2 DEF Broker
<1>7. CASE UNCHANGED vars
  BY <1>7 DEF vars
<1>8. QED BY <1>1, <1>2, <1>3, <1>4, <1>5, <1>6, <1>7 DEF Next


\* The thread asks once and waits: while there is a request no message of it,
\* and no session, changes.
LEMMA RequestStep ==
  ASSUME TypeOK, Phases, StreamsOnly, ThreadKnown, OneRequest, [Next]_vars
  PROVE  OneRequest'
<1> USE DEF TypeOK, OneRequest, gui, window, plugin, client, network, world
<1>1. CASE posted' = posted /\ cur' = cur /\ protocol' = protocol /\ (net = "invoke" => net' = "invoke")
  BY <1>1
<1>2. ASSUME posted' = posted, net # "invoke" PROVE OneRequest'
  BY <1>2
<1>3. ASSUME NEW e \in Events, posted' = Append(posted, e), net # "invoke", e.kind # "parser"
      PROVE  OneRequest'
  <2>1. Len(posted') = Len(posted) + 1 /\ posted'[Len(posted) + 1] = e
        /\ \A i \in 1 .. Len(posted) : posted'[i] = posted[i]
    BY <1>3
  <2>2. QED BY <1>3, <2>1
<1>4. CASE EnsureParser
  <2>1. CASE parsers[cur.topic] # NoProtocol
    BY <1>2, <1>4, <2>1 DEF EnsureParser
  <2>2. CASE parsers[cur.topic] = NoProtocol
    <3> DEFINE e == [kind |-> "parser", topic |-> cur.topic, protocol |-> protocol]
    <3>1. net' = "invoke" /\ posted' = Append(posted, e) /\ cur' = cur /\ protocol' = protocol
          /\ net # "invoke"
      BY <1>4, <2>2 DEF EnsureParser, Post
    <3>2. Len(posted') = Len(posted) + 1 /\ posted'[Len(posted) + 1] = e
          /\ \A i \in 1 .. Len(posted) : posted'[i] = posted[i]
      BY <3>1
    <3>3. QED BY <3>1, <3>2
  <2>3. QED BY <2>1, <2>2
<1>5. CASE Parse \/ Refused \/ Dismissed \/ \E t \in Topics : Received(t)
  BY <1>2, <1>5 DEF Parse, Refused, Dismissed, Received
<1>6. CASE Emit \/ Report \/ Lost
  <2>1. [kind |-> "data"] \in Events /\ [kind |-> "lost"] \in Events
        /\ \A n \in Nat : [kind |-> "notify", count |-> n] \in Events
    BY DEF Events
  <2>2. CASE Emit
    BY <1>3, <2>1, <2>2 DEF Emit, Post
  <2>3. CASE Report
    BY <1>3, <2>1, <2>3 DEF Report, Post
  <2>4. CASE Lost
    BY <1>2, <1>3, <2>1, <2>4 DEF Lost, Post
  <2>5. QED BY <1>6, <2>2, <2>3, <2>4
<1>7. CASE GuiEvent
  <2>1. ASSUME posted # << >>, posted' = Tail(posted)
        PROVE  /\ Len(posted') = Len(posted) - 1
               /\ \A i \in 1 .. Len(posted') : posted'[i] = posted[i + 1]
    BY <2>1
  <2>2. CASE CreateParser
    <3>1. \A i \in 1 .. Len(posted') : posted'[i].kind # "parser"
      BY <2>1, <2>2, RequestServed DEF CreateParser, Serve
    <3>2. QED BY <3>1
  <2>3. CASE DataReceived \/ NotificationsChanged \/ ConnectionLost
    <3>1. posted # << >> /\ posted' = Tail(posted) /\ net' = net /\ cur' = cur /\ protocol' = protocol
      BY <2>3 DEF DataReceived, NotificationsChanged, ConnectionLost, Serve
    <3>2. \A i \in 1 .. Len(posted') : posted'[i] = posted[i + 1] /\ i + 1 \in 1 .. Len(posted)
      BY <2>1, <3>1
    <3>3. ASSUME NEW i \in 1 .. Len(posted'), posted'[i].kind = "parser"
          PROVE  /\ net = "invoke"
                 /\ posted'[i].topic = cur.topic
                 /\ posted'[i].protocol = protocol
                 /\ \A j \in 1 .. Len(posted') : posted'[j].kind = "parser" => j = i
      <4>1. posted'[i] = posted[i + 1] /\ i + 1 \in 1 .. Len(posted)
        BY <3>2
      <4>2. ASSUME NEW j \in 1 .. Len(posted'), posted'[j].kind = "parser" PROVE j + 1 = i + 1
        BY <3>2, <3>3, <4>1, <4>2
      <4>3. QED BY <3>3, <4>1, <4>2
    <3>4. QED BY <3>1, <3>3
  <2>4. QED BY <1>7, <2>2, <2>3 DEF GuiEvent
<1>8. CASE Accepted
  BY <1>2, <1>8 DEF Accepted, Serving, Phases, StreamsOnly, Open, Quiet, MutexFree, Holding
<1>9. CASE ConnectionClosed \/ Stopped \/ Closed
  BY <1>2, <1>9, DisconnectEnds DEF ConnectionClosed, Stopped, Closed, Holding
<1>10. CASE Connect
  BY <1>2, <1>10 DEF Connect, Serving, Phases, StreamsOnly, Open, Quiet, MutexFree, Holding
<1>11. CASE ConnectFails \/ DisconnectClicked \/ StartClicked \/ Rejected \/ StopClicked
            \/ CloseClicked \/ PauseToggled \/ NotificationsClicked \/ BoxClosed
  BY <1>1, <1>11 DEF ConnectFails, DisconnectClicked, StartClicked, Rejected, StopClicked,
     CloseClicked, PauseToggled, NotificationsClicked, BoxClosed
<1>12. CASE Connected \/ Listed \/ (\E t \in Topics : Register(t)) \/ Started
  BY <1>1, <1>12 DEF Connected, Listed, Register, Started
<1>13. CASE ListTick \/ Replot \/ Acknowledged \/ UNCHANGED vars
  BY <1>1, <1>13 DEF ListTick, Replot, Acknowledged, vars
<1>14. QED BY <1>4, <1>5, <1>6, <1>7, <1>8, <1>9, <1>10, <1>11, <1>12, <1>13 DEF Next, User, GuiCall, Callback, Broker

\* The request stays posted until the event that is served makes the parser; no other
\* step takes it, or sends the thread that waits for it on.
LEMMA WaitsStep ==
  ASSUME TypeOK, Phases, StreamsOnly, ThreadKnown, OneRequest, RequestWaits, [Next]_vars
  PROVE  RequestWaits'
<1> USE DEF TypeOK, RequestWaits, gui, window, plugin, client, network, world
<1>1. CASE posted' = posted /\ (net' = "invoke" => net = "invoke")
  BY <1>1
<1>2. ASSUME NEW e \in Events, posted' = Append(posted, e), net' = "invoke",
             net = "invoke" \/ e.kind = "parser"
      PROVE  RequestWaits'
  <2>1. Len(posted') = Len(posted) + 1 /\ posted'[Len(posted) + 1] = e
        /\ \A i \in 1 .. Len(posted) : posted'[i] = posted[i]
    BY <1>2
  <2>2. QED BY <1>2, <2>1
<1>3. CASE EnsureParser
  <2>1. CASE parsers[cur.topic] # NoProtocol
    BY <1>3, <2>1 DEF EnsureParser
  <2>2. CASE parsers[cur.topic] = NoProtocol
    <3> DEFINE e == [kind |-> "parser", topic |-> cur.topic, protocol |-> protocol]
    <3>1. net' = "invoke" /\ posted' = Append(posted, e)
      BY <1>3, <2>2 DEF EnsureParser, Post
    <3>2. Len(posted') = Len(posted) + 1 /\ posted'[Len(posted) + 1] = e
      BY <3>1
    <3>3. QED BY <3>2
  <2>3. QED BY <2>1, <2>2
<1>4. CASE Parse \/ Emit \/ Report \/ Refused \/ Dismissed \/ \E t \in Topics : Received(t)
  BY <1>4 DEF Parse, Emit, Report, Refused, Dismissed, Received
<1>5. CASE Lost \/ Acknowledged
  BY <1>5 DEF Lost, Acknowledged
<1>6. CASE CreateParser
  BY <1>6 DEF CreateParser
<1>7. CASE DataReceived \/ NotificationsChanged \/ ConnectionLost
  <2>1. posted # << >> /\ posted' = Tail(posted) /\ net' = net /\ Head(posted).kind # "parser"
    BY <1>7 DEF DataReceived, NotificationsChanged, ConnectionLost, Serve
  <2>2. /\ Len(posted') = Len(posted) - 1 /\ Head(posted) = posted[1]
        /\ \A i \in 1 .. Len(posted') : posted'[i] = posted[i + 1]
    BY <2>1
  <2>3. ASSUME NEW i \in 1 .. Len(posted), posted[i].kind = "parser"
        PROVE  \E j \in 1 .. Len(posted') : posted'[j].kind = "parser"
    <3>1. i # 1 /\ i - 1 \in 1 .. Len(posted') /\ (i - 1) + 1 = i
      BY <2>1, <2>2, <2>3
    <3>2. posted'[i - 1] = posted[i]
      BY <2>2, <3>1
    <3>3. QED BY <2>3, <3>1, <3>2
  <2>4. QED BY <2>1, <2>3
<1>8. CASE ConnectionClosed \/ Stopped \/ Closed
  BY <1>8, DisconnectEnds DEF ConnectionClosed, Stopped, Closed
<1>9. CASE User
  BY <1>1, <1>9 DEF User, Connect, ConnectFails, DisconnectClicked, StartClicked, Rejected,
     Accepted, StopClicked, CloseClicked, PauseToggled, NotificationsClicked, BoxClosed
<1>10. CASE Connected \/ Listed \/ (\E t \in Topics : Register(t)) \/ Started
  BY <1>1, <1>10 DEF Connected, Listed, Register, Started
<1>11. CASE ListTick \/ Replot \/ UNCHANGED vars
  BY <1>1, <1>11 DEF ListTick, Replot, vars
<1>12. QED BY <1>3, <1>4, <1>5, <1>6, <1>7, <1>8, <1>9, <1>10, <1>11
           DEF Next, GuiCall, GuiEvent, Callback, Broker

-----------------------------------------------------------------------------
\* The strengthening holds before the first click.
LEMMA InitInv == Init => IInv
<1> SUFFICES ASSUME Init PROVE IInv
  OBVIOUS
<1>1. TypeOK
  BY InitType
<1>2. Phases /\ StreamsOnly /\ ThreadKnown
  BY DEF Init, Phases, StreamsOnly, Open, Quiet, MutexFree, Holding, ThreadKnown
<1>3. OfSession
  BY DEF Init, OfSession, DataOfSession, ParsersOfSession, MutexFree, Holding, NoParsers
<1>4. OneRequest /\ RequestWaits
  BY DEF Init, OneRequest, RequestWaits
<1>5. QED BY <1>1, <1>2, <1>3, <1>4 DEF IInv

\* Every step keeps it.
LEMMA NextInv == IInv /\ [Next]_vars => IInv'
<1> SUFFICES ASSUME IInv, [Next]_vars PROVE IInv'
  OBVIOUS
<1>1. TypeOK'
  <2>1. CASE UNCHANGED vars
    BY <2>1 DEF vars, IInv, TypeOK, gui, window, plugin, dialog, client, network, world
  <2>2. CASE Next
    BY <2>2, CallType, EventType, UserType, CallbackType, BrokerType DEF Next, IInv
  <2>3. QED BY <2>1, <2>2
<1>2. QED
  BY <1>1, PhasesStep, StreamsStep, ThreadStep, SessionStep, RequestStep, WaitsStep DEF IInv

\* The strengthening that makes the safety properties below inductive.
THEOREM Invariant == Spec => []IInv
<1>1. QED BY InitInv, NextInv, PTL DEF Spec

\* The variables of window, plugin, dialog and client keep their types.
THEOREM TypeCorrect == Spec => []TypeOK
<1>1. IInv => TypeOK
  BY DEF IInv
<1>2. QED BY <1>1, Invariant, PTL

\* Nothing of an earlier session is in the buffer or has a callback, and no
\* parser of one protocol serves a session of another.
THEOREM SessionsAlwaysApart == Spec => []SessionsApart
<1>1. IInv => SessionsApart
  BY DEF IInv, OfSession, SessionsApart
<1>2. QED BY <1>1, Invariant, PTL

\* After shutdown nothing is parsed or buffered.
THEOREM StoppedAlwaysEmpty == Spec => []StoppedIsEmpty
<1>1. IInv => StoppedIsEmpty
  BY DEF IInv, StoppedIsEmpty, StreamsOnly, Phases, Open, Quiet, TypeOK
<1>2. QED BY <1>1, Invariant, PTL

\* The client always knows whether there is a thread it has to join.
THEOREM NeverOrphanThread == Spec => []NoOrphanThread
<1>1. IInv => NoOrphanThread
  BY DEF IInv, NoOrphanThread, ThreadKnown
<1>2. QED BY <1>1, Invariant, PTL

\* The GUI thread and the network thread never wait for each other in another way
\* than Hung, nor for a thread that has ended.
THEOREM WaitsAlwaysEnd == Spec => []WaitsEnd
<1>1. IInv => WaitsEnd
  BY DEF IInv, TypeOK, ThreadKnown, WaitsEnd, Returns, Hung, Calls, MutexFree, Holding
<1>2. QED BY <1>1, Invariant, PTL

-----------------------------------------------------------------------------
\* What is parsed is shown: what of it is a safety property.

\* An announcement stays posted until it is served.
LEMMA AnnouncementKept ==
  ASSUME posted \in Seq(Events), NEW k \in 1 .. Len(posted), posted[k].kind = "data",
         \/ posted' = posted
         \/ \E e \in Events : posted' = Append(posted, e)
         \/ posted # << >> /\ posted' = Tail(posted) /\ Head(posted).kind # "data"
  PROVE  \E j \in 1 .. Len(posted') : posted'[j].kind = "data"
<1>1. CASE posted' = posted
  BY <1>1
<1>2. ASSUME NEW e \in Events, posted' = Append(posted, e)
      PROVE  k \in 1 .. Len(posted') /\ posted'[k] = posted[k]
  BY <1>2
<1>3. CASE posted # << >> /\ posted' = Tail(posted) /\ Head(posted).kind # "data"
  <2>1. Head(posted) = posted[1] /\ Len(posted) \in Nat
    BY <1>3
  <2>2. Len(posted') = Len(posted) - 1 /\ \A i \in 1 .. Len(posted') : posted'[i] = posted[i + 1]
    BY <1>3
  <2>3. k # 1
    BY <1>3, <2>1
  <2>4. k - 1 \in 1 .. Len(posted') /\ (k - 1) + 1 = k
    BY <2>1, <2>2, <2>3
  <2>5. posted'[k - 1] = posted[k]
    BY <2>2, <2>4
  <2>6. QED BY <2>4, <2>5
<1>4. QED BY <1>1, <1>2, <1>3

\* While Pause is not used, no step leaves what is in the buffer without its
\* announcement.
LEMMA WayStep ==
  ASSUME IInv, DataHasWay, ~paused, [Next]_vars PROVE DataHasWay'
<1> DEFINE Announced == \E i \in 1 .. Len(posted) : posted[i].kind = "data"
<1> USE DEF DataHasWay, gui, window, plugin, client, network, world
<1>1. TypeOK /\ Phases /\ StreamsOnly /\ ThreadKnown /\ OneRequest
  BY DEF IInv
<1>2. posted \in Seq(Events)
  BY <1>1 DEF TypeOK
<1>3. ASSUME Announced,
             \/ posted' = posted
             \/ \E e \in Events : posted' = Append(posted, e)
             \/ posted # << >> /\ posted' = Tail(posted) /\ Head(posted).kind # "data"
      PROVE  Announced'
  BY <1>2, <1>3, AnnouncementKept
<1>4. ~active => data = {}
  BY <1>1 DEF StreamsOnly, Open, Quiet
<1>5. CASE Started \/ Stopped \/ Closed \/ Replot
  BY <1>4, <1>5 DEF Started, Stopped, Closed, Replot, Move
<1>6. CASE ConnectionClosed
  BY <1>6 DEF ConnectionClosed, Disconnect
<1>7. CASE Connected \/ Listed \/ \E t \in Topics : Register(t)
  BY <1>7 DEF Connected, Listed, Register
<1>8. CASE User
  BY <1>1, <1>8 DEF User, Serving, ThreadKnown, Connect, ConnectFails, DisconnectClicked, StartClicked,
     Rejected, Accepted, StopClicked, CloseClicked, PauseToggled, NotificationsClicked, BoxClosed
<1>9. CASE ListTick \/ UNCHANGED vars
  BY <1>9 DEF ListTick, Serving, vars
<1>10. CASE CreateParser
  <2>1. net # "parsed" /\ call = "none"
    BY <1>1, <1>10, RequestServed DEF CreateParser, Serve, Serving
  <2>2. posted # << >> /\ posted' = Tail(posted) /\ Head(posted).kind # "data"
    BY <1>10 DEF CreateParser, Serve
  <2>3. data' = data /\ replot' = replot
    BY <1>10 DEF CreateParser
  <2>4. QED BY <1>3, <2>1, <2>2, <2>3
<1>11. CASE DataReceived
  BY <1>4, <1>11 DEF DataReceived, Serve, Serving
<1>12. CASE NotificationsChanged \/ ConnectionLost
  <2>1. posted # << >> /\ posted' = Tail(posted) /\ Head(posted).kind # "data"
    BY <1>12 DEF NotificationsChanged, ConnectionLost, Serve
  <2>2. data' = data /\ replot' = replot /\ net' = net /\ call = "none"
    BY <1>12 DEF NotificationsChanged, ConnectionLost, Serve, Serving
  <2>3. QED BY <1>3, <2>1, <2>2
<1>13. CASE Emit
  <2>1. [kind |-> "data"] \in Events
    BY DEF Events
  <2>2. Len(posted) + 1 \in 1 .. Len(posted') /\ posted'[Len(posted) + 1].kind = "data"
    BY <1>2, <1>13, <2>1 DEF Emit, Post
  <2>3. QED BY <2>2
<1>14. CASE Parse
  BY <1>14 DEF Parse
<1>15. CASE EnsureParser \/ Report \/ Lost
  <2>1. posted' = posted \/ \E e \in Events : posted' = Append(posted, e)
    <3>1. CASE EnsureParser
      <4>1. cur.topic \in Topics /\ protocol \in Protocols
        BY <1>1, <3>1 DEF EnsureParser, IInv, OfSession, MutexFree, Holding, TypeOK
      <4>2. [kind |-> "parser", topic |-> cur.topic, protocol |-> protocol] \in Events
        BY <4>1 DEF Events
      <4>3. QED BY <3>1, <4>2 DEF EnsureParser, Post
    <3>2. CASE Report
      <4>1. [kind |-> "notify", count |-> cur.count] \in Events
        BY <1>1 DEF Events, TypeOK
      <4>2. QED BY <3>2, <4>1 DEF Report, Post
    <3>3. CASE Lost
      <4>1. [kind |-> "lost"] \in Events
        BY DEF Events
      <4>2. QED BY <3>3, <4>1 DEF Lost, Post
    <3>4. QED BY <1>15, <3>1, <3>2, <3>3
  <2>2. net # "parsed" /\ data' = data /\ replot' = replot /\ call' = call
    BY <1>15 DEF EnsureParser, Report, Lost
  <2>3. QED BY <1>3, <2>1, <2>2
<1>16. CASE Acknowledged \/ Refused \/ Dismissed \/ \E t \in Topics : Received(t)
  BY <1>16 DEF Acknowledged, Refused, Dismissed, Received
<1>17. QED BY <1>5, <1>6, <1>7, <1>8, <1>9, <1>10, <1>11, <1>12, <1>13, <1>14, <1>15, <1>16
           DEF Next, GuiCall, GuiEvent, Callback, Broker

\* A message in the buffer is never forgotten while Pause is not used: dataReceived
\* or the replot timer is still to come, in whatever order they do.
THEOREM DataAlwaysHasWay == Spec /\ [](~paused) => []DataHasWay
<1>1. Init => DataHasWay
  BY DEF Init, DataHasWay
<1>2. IInv /\ DataHasWay /\ ~paused /\ [Next]_vars => DataHasWay'
  BY WayStep
<1>3. QED BY <1>1, <1>2, Invariant, PTL DEF Spec

-----------------------------------------------------------------------------
\* The refinement of DataStreamer.

\* What is kept is of the topics chosen, and nothing is without a session.
KeptRight == Kept \subseteq chosen /\ (~Open => Kept = {})

\* IInv implies it.
LEMMA AlwaysKeptRight == Spec => []KeptRight
<1>1. IInv => KeptRight
  <2> SUFFICES ASSUME IInv PROVE KeptRight
    OBVIOUS
  <2>1. Kept \subseteq chosen
    BY DEF IInv, OfSession, DataOfSession, Kept
  <2>2. ~Open => Kept = {}
    BY DEF IInv, StreamsOnly, Quiet, NoParsers, Kept
  <2>3. QED BY <2>1, <2>2 DEF KeptRight
<1>2. QED BY <1>1, Invariant, PTL

\* A step that neither opens nor closes a session, nor chooses topics, is seen at
\* most as a change of what is kept.
LEMMA KeepRefines ==
  ASSUME KeptRight, KeptRight', Open' = Open, chosen' = chosen
  PROVE  [Streamer!Keep]_Streamer!avars
  BY DEF KeptRight, Streamer!Keep, Streamer!avars

\* The clicks that choose topics, with a session or before there is one.
LEMMA ChoiceRefines ==
  ASSUME TypeOK, KeptRight, KeptRight', StartClicked \/ Accepted
  PROVE  Streamer!Choose \/ Streamer!Open
<1>1. CASE StartClicked
  <2>1. ~Open /\ ~Open' /\ chosen' = {}
    BY <1>1 DEF StartClicked, Open
  <2>2. Kept' = Kept
    BY <2>1 DEF KeptRight
  <2>3. QED BY <2>1, <2>2 DEF Streamer!Choose, Open
<1>2. CASE Accepted
  <2>1. ~Open /\ Kept' \subseteq chosen'
    BY <1>2 DEF Accepted, Serving, Open, KeptRight
  <2>2. chosen' \in (SUBSET Topics) \ {{}}
    <3>1. PICK s \in (SUBSET list) \ {{}} : chosen' = s
      BY <1>2 DEF Accepted
    <3>2. s \in SUBSET Topics /\ s # {}
      BY DEF TypeOK
    <3>3. QED BY <3>1, <3>2
  <2>3. CASE Open'
    BY <2>1, <2>2, <2>3 DEF Streamer!Open
  <2>4. CASE ~Open'
    BY <2>1, <2>2, <2>4 DEF Streamer!Choose, KeptRight, Open
  <2>5. QED BY <2>3, <2>4
<1>3. QED BY <1>1, <1>2

\* shutdown, by the Stop button or with the window.
LEMMA CloseRefines ==
  ASSUME TypeOK, Phases, KeptRight, KeptRight', Stopped \/ Closed
  PROVE  [Streamer!Close]_Streamer!avars
<1>1. ~Open' /\ chosen' = chosen /\ Kept' = {}
  BY DEF Stopped, Closed, Open, KeptRight
<1>2. CASE Open
  BY <1>1, <1>2 DEF Streamer!Close, Open
<1>3. CASE ~Open
  BY <1>1, <1>3 DEF KeptRight, Streamer!avars, Open
<1>4. QED BY <1>2, <1>3

\* All other steps leave a session as it is.
LEMMA OtherSteps ==
  ASSUME TypeOK, Phases, [Next]_vars, ~StartClicked, ~Accepted, ~Stopped, ~Closed
  PROVE  Open' = Open /\ chosen' = chosen
<1> USE DEF TypeOK, Phases, Open, gui, window, plugin, client, Serving, AnyLoop
<1>1. CASE User
  BY <1>1 DEF User, Connect, ConnectFails, DisconnectClicked, Rejected, StopClicked,
     CloseClicked, PauseToggled, NotificationsClicked, BoxClosed
<1>2. CASE GuiCall
  BY <1>2 DEF GuiCall, Connected, ConnectionClosed, Listed, Register, Started
<1>3. CASE GuiEvent
  BY <1>3 DEF GuiEvent, CreateParser, DataReceived, NotificationsChanged, ConnectionLost
<1>4. CASE ListTick \/ Replot
  BY <1>4 DEF ListTick, Replot
<1>5. CASE Callback
  BY <1>5 DEF Callback, EnsureParser, Parse, Emit, Report
<1>6. CASE Broker
  BY <1>6 DEF Broker, Acknowledged, Refused, Dismissed, Lost, Received
<1>7. CASE UNCHANGED vars
  BY <1>7 DEF vars
<1>8. QED BY <1>1, <1>2, <1>3, <1>4, <1>5, <1>6, <1>7 DEF Next

\* The plugin is a DataStreamer: start opens a session, shutdown closes it in one
\* step, and in between the network thread keeps to the topics selected.
THEOREM StreamerRefined == Spec => IsDataStreamer
<1>1. Init => Streamer!AInit
  <2> SUFFICES ASSUME Init PROVE Streamer!AInit
    OBVIOUS
  <2>1. Open = FALSE /\ Kept = {}
    BY DEF Init, Open, Kept, NoParsers, MutexFree, Holding
  <2>2. QED BY <2>1 DEF Init, Streamer!AInit
<1>2. IInv /\ KeptRight /\ KeptRight' /\ [Next]_vars => [Streamer!ANext]_Streamer!avars
  <2> SUFFICES ASSUME IInv, KeptRight, KeptRight', [Next]_vars
               PROVE  [Streamer!ANext]_Streamer!avars
    OBVIOUS
  <2>1. TypeOK /\ Phases
    BY DEF IInv
  <2>2. CASE StartClicked \/ Accepted
    BY <2>1, <2>2, ChoiceRefines DEF Streamer!ANext
  <2>3. CASE Stopped \/ Closed
    BY <2>1, <2>3, CloseRefines DEF Streamer!ANext
  <2>4. CASE ~StartClicked /\ ~Accepted /\ ~Stopped /\ ~Closed
    <3>1. Open' = Open /\ chosen' = chosen
      BY <2>1, <2>4, OtherSteps
    <3>2. QED BY <3>1, KeepRefines DEF Streamer!ANext
  <2>5. QED BY <2>2, <2>3, <2>4
<1>3. QED BY <1>1, <1>2, Invariant, AlwaysKeptRight, PTL DEF Spec, IsDataStreamer, Streamer!ASpec

=============================================================================
