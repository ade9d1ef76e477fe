------------------------- MODULE BridgeClientProofs -------------------------
(***************************************************************************)
(* Theorems about BridgeClient for any topics and any number of commands,  *)
(* connections and frames, checked by TLAPS.                               *)
(***************************************************************************)
EXTENDS BridgeClient, SequenceTheorems, TLAPS

-----------------------------------------------------------------------------
\* Queues.

\* A message is added at the end.
LEMMA Appended ==
  ASSUME NEW S, NEW s \in Seq(S), NEW e \in S
  PROVE  /\ Append(s, e) \in Seq(S) /\ Len(Append(s, e)) = Len(s) + 1
         /\ \A i \in 1 .. Len(s) : Append(s, e)[i] = s[i]
         /\ Append(s, e)[Len(s) + 1] = e
  BY AppendProperties

\* The oldest one is taken.
LEMMA Taken ==
  ASSUME NEW S, NEW s \in Seq(S), s # << >>
  PROVE  /\ Tail(s) \in Seq(S) /\ Len(s) >= 1 /\ Len(Tail(s)) = Len(s) - 1
         /\ Head(s) = s[1] /\ Head(s) \in S
         /\ \A i \in 1 .. (Len(s) - 1) : Tail(s)[i] = s[i + 1]
  BY HeadTailProperties, LenProperties, ElementOfSeq

-----------------------------------------------------------------------------
\* Type correctness.

\* A command gets a new number.
LEMMA SendType ==
  ASSUME TypeOK, NEW cmd \in Commands, NEW t \in SUBSET Topics, Send(cmd, t)
  PROVE  /\ sends' \in Nat /\ toServer' \in Seq(CommandType)
         /\ Command(cmd, sends', t) \in CommandType
         /\ toServer' = Append(toServer, Command(cmd, sends', t)) /\ sends' = sends + 1
<1>1. sends' \in Nat /\ sends' = sends + 1
  BY DEF Send, TypeOK
<1>2. Command(cmd, sends', t) \in CommandType
  BY <1>1 DEF Command, CommandType
<1>3. toServer' = Append(toServer, Command(cmd, sends', t))
  BY DEF Send
<1>4. toServer' \in Seq(CommandType)
  BY <1>2, <1>3, Appended DEF TypeOK
<1>5. QED BY <1>1, <1>2, <1>3, <1>4

LEMMA AskType ==
  ASSUME TypeOK, NEW cmd \in Commands, NEW m \in Modes, NEW t \in SUBSET Topics, Ask(cmd, m, t)
  PROVE  /\ sends' \in Nat /\ toServer' \in Seq(CommandType)
         /\ inflight' \in BOOLEAN /\ ignored' \in BOOLEAN /\ pendingId' \in Nat /\ pendingMode' \in Modes
<1>1. Send(cmd, t)
  BY DEF Ask
<1>2. QED BY <1>1, SendType DEF Ask

\* Shutdown and the end of a connection keep the types.
LEMMA CutType ==
  /\ ResetState => /\ polling' \in BOOLEAN /\ beating' \in BOOLEAN /\ mode' \in Modes
                   /\ inflight' \in BOOLEAN /\ ignored' \in BOOLEAN /\ pendingId' \in Nat /\ pendingMode' \in Modes
                   /\ topics' \subseteq Topics /\ parsers' \subseteq Topics
  /\ Cut => /\ socket' \in {"off", "opening", "open"} /\ toServer' \in Seq(CommandType)
            /\ toClient' \in Seq(MessageType) /\ subscribed' \subseteq Topics /\ sends' \in Nat
<1>1. << >> \in Seq(CommandType) /\ << >> \in Seq(MessageType)
  BY EmptySeq
<1>2. ResetState => pendingId' \in Nat
  BY DEF ResetState, Settled
<1>3. Cut => sends' \in Nat
  BY DEF Cut
<1>4. ResetState => /\ polling' \in BOOLEAN /\ beating' \in BOOLEAN /\ mode' \in Modes
                    /\ inflight' \in BOOLEAN /\ ignored' \in BOOLEAN /\ pendingMode' \in Modes
                    /\ topics' \subseteq Topics /\ parsers' \subseteq Topics
  BY Zenon DEF ResetState, Settled, Modes
<1>5. Cut => /\ socket' \in {"off", "opening", "open"} /\ toServer' \in Seq(CommandType)
             /\ toClient' \in Seq(MessageType) /\ subscribed' \subseteq Topics
  BY <1>1, Zenon DEF Cut
<1>6. QED BY <1>2, <1>3, <1>4, <1>5

\* A message that is served leaves the queue.
LEMMA ReceiveType ==
  ASSUME TypeOK, toClient # << >>, toClient' = Tail(toClient)
  PROVE  /\ toClient' \in Seq(MessageType) /\ Head(toClient) \in MessageType
         /\ Len(toClient) >= 1 /\ Len(toClient') = Len(toClient) - 1
         /\ Head(toClient) = toClient[1]
         /\ \A i \in 1 .. Len(toClient') : i + 1 \in 1 .. Len(toClient) /\ toClient'[i] = toClient[i + 1]
<1>1. /\ toClient' \in Seq(MessageType) /\ Head(toClient) \in MessageType
      /\ Len(toClient) >= 1 /\ Len(toClient') = Len(toClient) - 1
      /\ Head(toClient) = toClient[1]
      /\ \A i \in 1 .. (Len(toClient) - 1) : toClient'[i] = toClient[i + 1]
  BY Taken DEF TypeOK
<1>2. Len(toClient) \in Nat
  BY LenProperties DEF TypeOK
<1>3. QED BY <1>1, <1>2

\* What the server sends joins the queue.
LEMMA AnswerType ==
  ASSUME TypeOK, NEW a \in MessageType, toClient' = Append(toClient, a)
  PROVE  /\ toClient' \in Seq(MessageType) /\ Len(toClient) \in Nat
         /\ Len(toClient') = Len(toClient) + 1 /\ toClient'[Len(toClient) + 1] = a
         /\ \A i \in 1 .. Len(toClient) : toClient'[i] = toClient[i]
<1>1. Len(toClient) \in Nat
  BY LenProperties DEF TypeOK
<1>2. QED BY <1>1, Appended DEF TypeOK

LEMMA InitType == Init => TypeOK
<1>1. << >> \in Seq(CommandType) /\ << >> \in Seq(MessageType)
  BY EmptySeq
<1>2. Init => pendingId \in Nat /\ sends \in Nat /\ connections \in Nat /\ frames \in Nat
  BY DEF Init
<1>3. QED BY <1>1, <1>2, Zenon DEF Init, TypeOK, Modes

\* The user's steps keep the types.
LEMMA UserType ==
  ASSUME TypeOK, StartClicked \/ Connect \/ Disconnect \/ Select \/ Accept \/ Cancel
                   \/ Escape \/ StopClicked \/ PauseClicked
  PROVE  TypeOK'
<1> USE DEF TypeOK, window, view, session, request, timers, stream, link, bounds
<1>1. CASE StartClicked
  <2>1. CASE running
    BY <1>1, <2>1 DEF StartClicked
  <2>2. CASE ~running
    BY <1>1, <2>2 DEF StartClicked
  <2>3. QED BY <2>1, <2>2
<1>2. CASE Connect
  BY <1>2 DEF Connect
<1>3. CASE Disconnect
  BY <1>3, CutType DEF Disconnect
<1>4. CASE Select
  BY <1>4 DEF Select
<1>5. CASE Accept
  <2>1. /\ sends' \in Nat /\ toServer' \in Seq(CommandType)
        /\ inflight' \in BOOLEAN /\ ignored' \in BOOLEAN /\ pendingId' \in Nat /\ pendingMode' \in Modes
    BY <1>5, AskType DEF Accept, Commands, Tracked, Modes
  <2>2. topics' \subseteq Topics /\ wanted' \subseteq Topics /\ mode' \in Modes /\ dialog' = FALSE
    BY <1>5 DEF Accept, Modes
  <2>3. QED BY <1>5, <2>1, <2>2 DEF Accept
<1>6. ASSUME Shutdown
      PROVE  /\ running' \in BOOLEAN /\ paused' \in BOOLEAN /\ replot' \in BOOLEAN
             /\ polling' \in BOOLEAN /\ beating' \in BOOLEAN /\ mode' \in Modes
             /\ inflight' \in BOOLEAN /\ ignored' \in BOOLEAN /\ pendingId' \in Nat /\ pendingMode' \in Modes
             /\ topics' \subseteq Topics /\ parsers' \subseteq Topics
             /\ socket' \in {"off", "opening", "open"} /\ toServer' \in Seq(CommandType)
             /\ toClient' \in Seq(MessageType) /\ subscribed' \subseteq Topics /\ sends' \in Nat
  <2>1. CASE running
    BY <1>6, <2>1, CutType DEF Shutdown
  <2>2. CASE ~running
    BY <1>6, <2>2 DEF Shutdown
  <2>3. QED BY <2>1, <2>2
<1>7. CASE Cancel
  BY <1>6, <1>7 DEF Cancel
<1>8. CASE Escape
  BY <1>8 DEF Escape
<1>9. CASE StopClicked
  BY <1>6, <1>9 DEF StopClicked
<1>10. CASE PauseClicked
  <2>1. /\ sends' \in Nat /\ toServer' \in Seq(CommandType)
    <3>1. CASE paused
      BY <1>10, <3>1, SendType DEF PauseClicked, Commands
    <3>2. CASE ~paused
      BY <1>10, <3>2, SendType DEF PauseClicked, Commands
    <3>3. QED BY <3>1, <3>2
  <2>2. QED BY <1>10, <2>1 DEF PauseClicked
<1>11. QED BY <1>1, <1>2, <1>3, <1>4, <1>5, <1>7, <1>8, <1>9, <1>10

\* Timers, connection and server keep the types.
LEMMA LinkType ==
  ASSUME TypeOK, Poll \/ HeartBeat \/ Replot \/ Opened \/ Disconnected \/ ServerAnswers
                   \/ ServerSends
  PROVE  TypeOK'
<1> USE DEF TypeOK, window, view, session, request, timers, stream, link, bounds
<1>1. CASE Poll
  <2>1. /\ sends' \in Nat /\ toServer' \in Seq(CommandType)
        /\ inflight' \in BOOLEAN /\ ignored' \in BOOLEAN /\ pendingId' \in Nat /\ pendingMode' \in Modes
    BY <1>1, AskType DEF Poll, Commands, Tracked, Modes
  <2>2. QED BY <1>1, <2>1 DEF Poll
<1>2. CASE HeartBeat
  <2>1. sends' \in Nat /\ toServer' \in Seq(CommandType)
    BY <1>2, SendType DEF HeartBeat, Commands
  <2>2. QED BY <1>2, <2>1 DEF HeartBeat
<1>3. CASE Replot
  BY <1>3 DEF Replot
<1>4. CASE Opened
  <2>1. /\ sends' \in Nat /\ toServer' \in Seq(CommandType)
        /\ inflight' \in BOOLEAN /\ ignored' \in BOOLEAN /\ pendingId' \in Nat /\ pendingMode' \in Modes
    BY <1>4, AskType DEF Opened, Commands, Tracked, Modes
  <2>2. mode' \in Modes
    BY <1>4 DEF Opened, Modes
  <2>3. QED BY <1>4, <2>1, <2>2 DEF Opened
<1>5. CASE Disconnected
  <2>1. rows' \subseteq Topics /\ picked' \subseteq rows' /\ checked' \in BOOLEAN
    BY <1>5 DEF Disconnected
  <2>2. CASE running
    BY <1>5, <2>1, <2>2, CutType DEF Disconnected
  <2>3. CASE ~running
    BY <1>5, <2>1, <2>3, CutType DEF Disconnected
  <2>4. QED BY <2>2, <2>3
<1>6. CASE ServerAnswers
  <2>1. toServer' \in Seq(CommandType) /\ Head(toServer) \in CommandType
    BY <1>6, Taken DEF ServerAnswers
  <2>2. \A st \in Statuses, t \in SUBSET Topics :
          Answer(Head(toServer).cmd, Head(toServer).id, st, t) \in MessageType
    BY <2>1 DEF CommandType, MessageType, Answer
  <2>3. toClient' \in Seq(MessageType) /\ subscribed' \subseteq Topics
    <3>1. PICK st \in Statuses, t \in SUBSET Topics :
            /\ toClient' = Append(toClient, Answer(Head(toServer).cmd, Head(toServer).id, st, t))
            /\ subscribed' \in {subscribed, t}
      <4>1. /\ "error" \in Statuses /\ "success" \in Statuses
            /\ "bare" \in Statuses /\ "garbled" \in Statuses
        BY DEF Statuses
      <4>2. Head(toServer).topics \in SUBSET Topics /\ {} \in SUBSET Topics
        BY <2>1 DEF CommandType
      <4>3. QED BY <1>6, <4>1, <4>2 DEF ServerAnswers
    <3>2. QED BY <2>2, <3>1, AnswerType
  <2>4. QED BY <1>6, <2>1, <2>3 DEF ServerAnswers
<1>7. CASE ServerSends
  <2>1. PICK t \in subscribed : toClient' = Append(toClient, Answer("frame", 0, "success", {t}))
    BY <1>7 DEF ServerSends
  <2>2. Answer("frame", 0, "success", {t}) \in MessageType
    BY <2>1 DEF Answer, MessageType, Statuses
  <2>3. toClient' \in Seq(MessageType)
    BY <2>1, <2>2, AnswerType
  <2>4. QED BY <1>7, <2>3 DEF ServerSends
<1>8. QED BY <1>1, <1>2, <1>3, <1>4, <1>5, <1>6, <1>7

\* What serving an answer may do.
LEMMA ServedCases ==
  ASSUME AnswerServed
  PROVE  LET a == Head(toClient) IN
         \/ ~Expected(a) /\ Ignored(a)
         \/ Expected(a) /\ a.status = "error" /\ Refused
         \/ Expected(a) /\ a.status = "success" /\ pendingMode = "GetTopics" /\ TopicsListed(a.topics)
         \/ Expected(a) /\ a.status = "success" /\ pendingMode = "Subscribe" /\ Subscribed(a.topics)
         \/ Expected(a) /\ a.status = "bare" /\ pendingMode = "Subscribe" /\ SubscribedNone
         \/ /\ Expected(a) /\ a.status # "error"
            /\ ~(a.status = "success" /\ pendingMode \in {"GetTopics", "Subscribe"})
            /\ ~(a.status = "bare" /\ pendingMode = "Subscribe")
            /\ Settled /\ UNCHANGED <<mode, timers, stream, choice>>
<1> DEFINE a == Head(toClient)
<1>1. CASE ~Expected(a)
  BY <1>1 DEF AnswerServed
<1>2. CASE Expected(a)
  BY <1>2 DEF AnswerServed
<1>3. QED BY <1>1, <1>2

\* Messages keep the types.
LEMMA ServeType ==
  ASSUME TypeOK, AnswerServed \/ FrameServed \/ ParseFails PROVE TypeOK'
<1> USE DEF TypeOK, window, view, session, request, timers, stream, link, bounds
<1>1. CASE AnswerServed
  <2> DEFINE a == Head(toClient)
  <2>1. toClient' \in Seq(MessageType) /\ a \in MessageType /\ a.topics \subseteq Topics
    BY <1>1, ReceiveType DEF AnswerServed, Receives, MessageType
  <2>2. /\ dialog' \in BOOLEAN /\ active' \in BOOLEAN /\ replot' \in BOOLEAN /\ hung' \in BOOLEAN
        /\ checked' \in BOOLEAN /\ running' \in BOOLEAN /\ paused' \in BOOLEAN
        /\ socket' \in {"off", "opening", "open"} /\ toServer' \in Seq(CommandType)
        /\ subscribed' \subseteq Topics /\ sends' \in Nat /\ connections' \in Nat /\ frames' \in Nat
    BY <1>1 DEF AnswerServed
  <2>3. /\ inflight' \in BOOLEAN /\ ignored' \in BOOLEAN /\ pendingId' \in Nat /\ pendingMode' \in Modes
        /\ mode' \in Modes /\ polling' \in BOOLEAN /\ beating' \in BOOLEAN
        /\ topics' \subseteq Topics /\ parsers' \subseteq Topics
        /\ rows' \subseteq Topics /\ picked' \subseteq rows' /\ wanted' \subseteq Topics
    <3>1. CASE Ignored(a)
      BY <3>1 DEF Ignored, choice
    <3>2. CASE Refused
      BY <3>2 DEF Refused, Settled, choice, Modes
    <3>3. CASE TopicsListed(a.topics)
      <4>1. CASE dialog
        BY <2>1, <3>3, <4>1 DEF TopicsListed, Settled, choice, Modes
      <4>2. CASE ~dialog
        BY <3>3, <4>2 DEF TopicsListed, Settled, choice, Modes
      <4>3. QED BY <4>1, <4>2
    <3>4. CASE Subscribed(a.topics)
      BY <2>1, <3>4 DEF Subscribed, Settled, choice, Modes
    <3>5. CASE SubscribedNone
      BY <3>5 DEF SubscribedNone, Settled, choice, Modes
    <3>6. CASE Settled /\ UNCHANGED <<mode, timers, stream, choice>>
      BY <3>6 DEF Settled, choice, Modes
    <3>7. QED BY <1>1, <3>1, <3>2, <3>3, <3>4, <3>5, <3>6, ServedCases
  <2>4. QED BY <2>1, <2>2, <2>3
<1>2. CASE FrameServed
  <2>1. toClient' \in Seq(MessageType)
    BY <1>2, ReceiveType DEF FrameServed, Receives
  <2>2. QED BY <1>2, <2>1 DEF FrameServed
<1>3. CASE ParseFails
  <2>1. CASE Shutdown /\ active' = FALSE /\ UNCHANGED <<dialog, hung, view, wanted, bounds>>
    <3>1. running
      BY <1>3 DEF ParseFails
    <3>2. QED BY <2>1, <3>1, CutType DEF Shutdown
  <2>2. CASE hung' = TRUE /\ toClient' = Tail(toClient)
             /\ UNCHANGED <<dialog, active, replot, view, running, paused, session, wanted,
                            socket, toServer, subscribed, sends, bounds>>
    <3>1. toClient' \in Seq(MessageType)
      BY <1>3, <2>2, ReceiveType DEF ParseFails
    <3>2. QED BY <2>2, <3>1
  <2>3. QED BY <1>3, <2>1, <2>2 DEF ParseFails
<1>4. QED BY <1>1, <1>2, <1>3

LEMMA TypeStep == ASSUME TypeOK, [Next]_vars PROVE TypeOK'
<1>1. CASE UNCHANGED vars
  BY <1>1 DEF vars, window, view, session, request, timers, stream, link, bounds, TypeOK
<1>2. CASE Next
  BY <1>2, UserType, LinkType, ServeType DEF Next
<1>3. QED BY <1>1, <1>2

\* Every variable keeps its type, whatever the user and the server do.
THEOREM TypeCorrect == Spec => []TypeOK
<1>1. Init => TypeOK
  BY InitType
<1>2. TypeOK /\ [Next]_vars => TypeOK'
  BY TypeStep
<1>3. QED BY <1>1, <1>2, PTL DEF Spec

-----------------------------------------------------------------------------
\* The connection.

Parts == OneEach /\ Owned /\ ReplyDue /\ Known /\ FramesLast

\* Due, of a message in the next state.
DueNext(m) ==
  /\ inflight'
  /\ m.id = pendingId'
  /\ m.cmd = IF mode' = "GetTopics" THEN "get_topics" ELSE "subscribe"

\* A command needs a connection.
LEMMA ConnectedStep ==
  ASSUME TypeOK, Connected, [Next]_vars
  PROVE  Connected'
<1> USE DEF Connected, window, view, session, request, timers, stream, link, bounds, choice
<1>1. ASSUME running, Shutdown PROVE Connected'
  BY <1>1 DEF Shutdown, ResetState, Settled, Cut
<1>2. ASSUME ~running, Shutdown PROVE Connected'
  BY <1>2 DEF Shutdown
<1>3. CASE UNCHANGED vars
  BY <1>3 DEF vars
<1>4. CASE StartClicked
  BY <1>4 DEF StartClicked
<1>5. CASE Connect
  BY <1>5 DEF Connect
<1>6. CASE Disconnect
  BY <1>6 DEF Disconnect, ResetState, Settled, Cut
<1>7. CASE Select \/ Escape \/ Replot
  BY <1>7 DEF Select, Escape, Replot
<1>8. CASE Accept
  BY <1>8 DEF Accept, Ask, Send
<1>9. CASE Cancel
  BY <1>1, <1>2, <1>9 DEF Cancel
<1>10. CASE StopClicked
  <2>1. CASE running
    BY <1>1, <1>10, <2>1 DEF StopClicked
  <2>2. CASE ~running
    BY <1>2, <1>10, <2>2 DEF StopClicked
  <2>3. QED BY <2>1, <2>2
<1>11. CASE PauseClicked \/ HeartBeat
  BY <1>11 DEF PauseClicked, HeartBeat, Send
<1>12. CASE Poll
  BY <1>12 DEF Poll, Ask, Send
<1>13. CASE Opened
  BY <1>13 DEF Opened, Ask, Send
<1>14. CASE Disconnected
  <2>1. CASE running
    BY <1>14, <2>1 DEF Disconnected, ResetState, Settled, Cut
  <2>2. CASE ~running
    BY <1>14, <2>2 DEF Disconnected, Cut
  <2>3. QED BY <2>1, <2>2
<1>15. CASE ServerAnswers
  BY <1>15 DEF ServerAnswers
<1>16. CASE ServerSends
  BY <1>16 DEF ServerSends
<1>17. CASE AnswerServed
  <2> DEFINE a == Head(toClient)
  <2>1. socket = "open" /\ UNCHANGED <<dialog, checked, running, socket>>
    BY <1>17 DEF AnswerServed, Receives
  <2>2. CASE Ignored(a)
    BY <2>1, <2>2 DEF Ignored
  <2>3. CASE Expected(a) /\ (Refused \/ SubscribedNone \/ (Settled /\ UNCHANGED <<mode, timers, stream, choice>>))
    BY <2>1, <2>3 DEF Expected, Refused, SubscribedNone, Settled
  <2>4. CASE Expected(a) /\ TopicsListed(a.topics)
    BY <2>1, <2>4 DEF Expected, TopicsListed, Settled
  <2>5. CASE Expected(a) /\ Subscribed(a.topics)
    BY <2>1, <2>5 DEF Expected, Subscribed, Settled
  <2>6. QED BY <1>17, <2>2, <2>3, <2>4, <2>5, ServedCases
<1>18. CASE FrameServed
  BY <1>18 DEF FrameServed, Receives
<1>19. CASE ParseFails
  <2>1. CASE Shutdown
    BY <1>1, <1>19, <2>1 DEF ParseFails
  <2>2. CASE UNCHANGED <<dialog, active, replot, view, running, paused, session, wanted,
                         socket, toServer, subscribed, sends, bounds>>
    <3>1. running
      BY <1>19 DEF ParseFails
    <3>2. QED BY <2>2, <3>1
  <2>3. QED BY <1>19, <2>1, <2>2 DEF ParseFails
<1>20. QED BY <1>3, <1>4, <1>5, <1>6, <1>7, <1>8, <1>9, <1>10, <1>11, <1>12, <1>13, <1>14,
            <1>15, <1>16, <1>17, <1>18, <1>19 DEF Next

-----------------------------------------------------------------------------
\* Steps that leave the queues alone, or empty them.

LEMMA QuietStep ==
  ASSUME Parts,
         UNCHANGED <<mode, request, stream, toServer, toClient, subscribed, sends>>
  PROVE  Parts'
<1> USE DEF request, stream
<1>1. OneEach'
  BY DEF Parts, OneEach
<1>2. ReplyDue' /\ Owned'
  BY DEF Parts, ReplyDue, Due, OnItsWay, Owned
<1>3. Known'
  BY DEF Parts, Known
<1>4. FramesLast'
  BY DEF Parts, FramesLast, Confirmed
<1>5. QED BY <1>1, <1>2, <1>3, <1>4 DEF Parts

LEMMA EmptyStep ==
  ASSUME toServer' = << >>, toClient' = << >>, subscribed' = {}, inflight' = FALSE,
         ignored' = FALSE, mode' = "Close", topics' = {}, parsers' = {}
  PROVE  Parts'
<1>1. Len(toServer') = 0 /\ Len(toClient') = 0
  OBVIOUS
<1>2. OneEach' /\ FramesLast'
  BY <1>1 DEF OneEach, FramesLast
<1>3. ReplyDue' /\ Known' /\ Owned'
  BY <1>1 DEF ReplyDue, Known, Owned
<1>4. QED BY <1>2, <1>3 DEF Parts

\* shutdown and a connection that is lost leave nothing.
LEMMA ShutdownStep ==
  ASSUME TypeOK, Connected, Parts, Shutdown
  PROVE  Parts'
<1>1. CASE running
  BY <1>1, EmptyStep DEF Shutdown, ResetState, Settled, Cut
<1>2. CASE ~running
  BY <1>2, QuietStep DEF Shutdown, session, link, request, stream
<1>3. QED BY <1>1, <1>2

LEMMA LostStep ==
  ASSUME TypeOK, Connected, Parts, Disconnected
  PROVE  Parts'
<1>1. CASE running
  BY <1>1, EmptyStep DEF Disconnected, ResetState, Settled, Cut
<1>2. CASE ~running
  <2>1. mode = "Close" /\ inflight = FALSE /\ ignored = FALSE /\ topics = {} /\ parsers = {}
    BY <1>2 DEF Connected, Parts, Known, ReplyDue, TypeOK
  <2>2. QED BY <1>2, <2>1, EmptyStep DEF Disconnected, Cut, session, request, stream
<1>3. QED BY <1>1, <1>2

-----------------------------------------------------------------------------
\* Commands.

\* A command has an id of its own.
LEMMA SentAlone ==
  ASSUME TypeOK, OneEach, NEW cmd \in Commands, NEW t \in SUBSET Topics, Send(cmd, t),
         UNCHANGED toClient
  PROVE  /\ OneEach'
         /\ Len(toServer) \in Nat /\ Len(toServer') = Len(toServer) + 1
         /\ toServer'[Len(toServer) + 1] = Command(cmd, sends + 1, t)
         /\ \A i \in 1 .. Len(toServer) : toServer'[i] = toServer[i]
<1> DEFINE n == Len(toServer)
<1>1. n \in Nat /\ sends \in Nat /\ sends' = sends + 1
  BY LenProperties DEF TypeOK, Send
<1>2. /\ Len(toServer') = n + 1
      /\ toServer'[n + 1] = Command(cmd, sends + 1, t)
      /\ \A i \in 1 .. n : toServer'[i] = toServer[i]
  BY <1>1, SendType, Appended DEF TypeOK
<1>3. toServer'[n + 1].id = sends + 1
  BY <1>2 DEF Command
<1>4. \A i \in 1 .. n : toServer'[i].id = toServer[i].id /\ toServer[i].id \in 1 .. sends
  BY <1>2 DEF OneEach
<1>5. \A i \in 1 .. Len(toClient) : toClient[i].id \in 0 .. sends
  BY <1>1 DEF OneEach
<1>6. \A i, j \in 1 .. (n + 1) : toServer'[i].id = toServer'[j].id => i = j
  <2>1. \A i \in 1 .. (n + 1) : i \in 1 .. n \/ i = n + 1
    BY <1>1
  <2>2. \A i, j \in 1 .. n : toServer'[i].id = toServer'[j].id => i = j
    BY <1>4 DEF OneEach
  <2>3. \A i \in 1 .. n : toServer'[i].id # toServer'[n + 1].id
    BY <1>1, <1>3, <1>4
  <2>4. QED BY <2>1, <2>2, <2>3
<1>7. \A i \in 1 .. (n + 1), j \in 1 .. Len(toClient) : toServer'[i].id # toClient[j].id
  <2>1. \A i \in 1 .. (n + 1) : i \in 1 .. n \/ i = n + 1
    BY <1>1
  <2>2. \A i \in 1 .. n, j \in 1 .. Len(toClient) : toServer'[i].id # toClient[j].id
    BY <1>4 DEF OneEach
  <2>3. \A j \in 1 .. Len(toClient) : toServer'[n + 1].id # toClient[j].id
    BY <1>1, <1>3, <1>5
  <2>4. QED BY <2>1, <2>2, <2>3
<1>8. \A i \in 1 .. (n + 1) : toServer'[i].id \in 1 .. sends'
  BY <1>1, <1>3, <1>4
<1>9. \A i \in 1 .. Len(toClient) :
        IF toClient[i].cmd = "frame" THEN toClient[i].id = 0 ELSE toClient[i].id \in 1 .. sends'
  BY <1>1 DEF OneEach
<1>10. \A i, j \in 1 .. Len(toClient) :
         toClient[i].cmd # "frame" /\ toClient[i].id = toClient[j].id => i = j
  BY DEF OneEach
<1>11. OneEach'
  BY <1>2, <1>6, <1>7, <1>8, <1>9, <1>10 DEF OneEach
<1>12. QED BY <1>1, <1>2, <1>11

\* One whose answer nobody waits for changes nothing else.
LEMMA SendStep ==
  ASSUME TypeOK, Parts, NEW cmd \in Commands \ Tracked, Send(cmd, {}),
         UNCHANGED <<mode, request, stream, toClient, subscribed>>
  PROVE  Parts'
<1> DEFINE n == Len(toServer)
<1>1. /\ OneEach' /\ n \in Nat /\ Len(toServer') = n + 1
      /\ toServer'[n + 1] = Command(cmd, sends + 1, {})
      /\ \A i \in 1 .. n : toServer'[i] = toServer[i]
  BY SentAlone DEF Parts
<1>2. toServer'[n + 1].cmd \notin Tracked
  BY <1>1 DEF Command
<1>3. \A i \in 1 .. (n + 1) : i \in 1 .. n \/ i = n + 1
  BY <1>1
<1>4. \A m : DueNext(m) <=> Due(m)
  BY DEF Due, DueNext, request
<1>5. ReplyDue'
  <2>1. \A i \in 1 .. Len(toServer') : toServer'[i].cmd \in Tracked => DueNext(toServer'[i])
    BY <1>1, <1>2, <1>3, <1>4 DEF Parts, ReplyDue
  <2>2. \A i \in 1 .. Len(toClient') : toClient'[i].cmd \in Tracked => DueNext(toClient'[i])
    BY <1>4 DEF Parts, ReplyDue
  <2>3. OnItsWay' <=> OnItsWay
    BY <1>1, <1>2, <1>3 DEF OnItsWay
  <2>4. QED BY <2>1, <2>2, <2>3 DEF Parts, ReplyDue, Due, DueNext, request
<1>9. Owned'
  <2>1. inflight => toServer'[n + 1].id # pendingId
    BY <1>1 DEF Parts, Owned, Command, TypeOK
  <2>2. inflight => pendingId \in 1 .. sends'
    BY DEF Parts, Owned, Send, TypeOK
  <2>3. QED BY <1>1, <1>3, <2>1, <2>2 DEF Parts, Owned, request
<1>6. Known'
  <2>1. \A i \in 1 .. Len(toServer') :
          toServer'[i].cmd = "subscribe" => toServer'[i].topics = topics /\ subscribed = {}
    BY <1>1, <1>2, <1>3 DEF Parts, Known, Tracked
  <2>2. QED BY <2>1 DEF Parts, Known, request, stream
<1>7. FramesLast'
  BY DEF Parts, FramesLast, Confirmed, request
<1>8. QED BY <1>1, <1>5, <1>6, <1>7, <1>9 DEF Parts

\* One whose answer is waited for is the only one.
LEMMA AskStep ==
  ASSUME TypeOK, Parts, ~inflight, mode \in {"Close", "GetTopics"},
         NEW cmd \in Tracked, NEW m \in {"GetTopics", "Subscribe"}, NEW t \in SUBSET Topics,
         cmd = IF m = "GetTopics" THEN "get_topics" ELSE "subscribe",
         Ask(cmd, m, t), mode' = m,
         topics' = IF m = "GetTopics" THEN {} ELSE t,
         UNCHANGED <<parsers, toClient, subscribed>>
  PROVE  Parts'
<1> DEFINE n == Len(toServer)
<1>1. /\ OneEach' /\ n \in Nat /\ Len(toServer') = n + 1
      /\ toServer'[n + 1] = Command(cmd, sends + 1, t)
      /\ \A i \in 1 .. n : toServer'[i] = toServer[i]
  BY SentAlone DEF Parts, Ask, Commands
<1>2. toServer'[n + 1].cmd = cmd /\ toServer'[n + 1].id = sends + 1 /\ toServer'[n + 1].topics = t
  BY <1>1 DEF Command
<1>3. \A i \in 1 .. (n + 1) : i \in 1 .. n \/ i = n + 1
  BY <1>1
<1>4. /\ inflight' = TRUE /\ pendingId' = sends' /\ pendingMode' = m /\ ignored' = FALSE
      /\ sends' = sends + 1
  BY DEF Ask, Send
<1>5. /\ \A i \in 1 .. n : toServer[i].cmd \notin Tracked
      /\ \A i \in 1 .. Len(toClient) : toClient[i].cmd \notin Tracked
      /\ ~ignored
  BY DEF Parts, ReplyDue, Due
<1>6. DueNext(toServer'[n + 1])
  BY <1>2, <1>4 DEF DueNext
<1>7. n + 1 \in 1 .. Len(toServer')
  BY <1>1
<1>8. ReplyDue'
  <2>1. \A i \in 1 .. Len(toServer') : toServer'[i].cmd \in Tracked => DueNext(toServer'[i])
    BY <1>1, <1>3, <1>5, <1>6
  <2>2. \A i \in 1 .. Len(toClient') : toClient'[i].cmd \in Tracked => DueNext(toClient'[i])
    BY <1>5
  <2>3. OnItsWay'
    BY <1>2, <1>7 DEF OnItsWay
  <2>4. QED BY <1>4, <2>1, <2>2, <2>3 DEF ReplyDue, Due, DueNext
<1>14. Owned'
  <2>1. \A i \in 1 .. n : toServer'[i].id # sends + 1
    BY <1>1 DEF Parts, OneEach, TypeOK
  <2>2. \A i \in 1 .. Len(toClient) : toClient[i].id # sends + 1
    BY DEF Parts, OneEach, TypeOK
  <2>3. sends' \in 1 .. sends'
    BY <1>4 DEF TypeOK
  <2>4. QED BY <1>1, <1>2, <1>3, <1>4, <2>1, <2>2, <2>3 DEF Owned
<1>9. subscribed = {} /\ parsers = {}
  BY DEF Parts, Known
<1>10. Known'
  <2>1. \A i \in 1 .. Len(toServer') :
          toServer'[i].cmd = "subscribe" => toServer'[i].topics = topics' /\ subscribed' = {}
    BY <1>1, <1>2, <1>3, <1>5, <1>9 DEF Tracked
  <2>2. \A i \in 1 .. Len(toClient') : toClient'[i].cmd # "subscribe"
    BY <1>5 DEF Tracked
  <2>3. QED BY <1>4, <1>9, <2>1, <2>2 DEF Known
<1>11. \A i \in 1 .. Len(toClient) : toClient[i].cmd # "frame"
  BY <1>5 DEF Parts, FramesLast, Confirmed, Tracked
<1>12. FramesLast'
  BY <1>11 DEF FramesLast
<1>13. QED BY <1>1, <1>8, <1>10, <1>12, <1>14 DEF Parts

-----------------------------------------------------------------------------
\* The server.

\* An answer takes the place of its command.
LEMMA AnswersStep ==
  ASSUME TypeOK, Parts, ServerAnswers
  PROVE  Parts'
<1> DEFINE c == Head(toServer)
           n == Len(toClient)
           k == Len(toServer)
<1> USE DEF session, request, stream
<1>1. /\ toServer # << >> /\ toServer' = Tail(toServer)
      /\ UNCHANGED <<mode, request, stream, sends>>
  BY DEF ServerAnswers
<1>2. /\ k \in Nat /\ k >= 1 /\ Len(toServer') = k - 1
      /\ c = toServer[1] /\ c \in CommandType
      /\ \A i \in 1 .. (k - 1) : toServer'[i] = toServer[i + 1]
  BY <1>1, Taken, LenProperties DEF TypeOK
<1>3. PICK st \in Statuses, t \in SUBSET Topics :
        /\ toClient' = Append(toClient, Answer(c.cmd, c.id, st, t))
        /\ IF c.cmd = "subscribe" /\ st \in {"success", "garbled"}
             THEN subscribed' = t /\ t \subseteq c.topics
             ELSE subscribed' = subscribed
  <2>1. /\ "error" \in Statuses /\ "success" \in Statuses
        /\ "bare" \in Statuses /\ "garbled" \in Statuses
    BY DEF Statuses
  <2>2. c.topics \in SUBSET Topics /\ {} \in SUBSET Topics
    BY <1>2 DEF CommandType
  <2>3. QED BY <2>1, <2>2 DEF ServerAnswers
<1> DEFINE a == Answer(c.cmd, c.id, st, t)
<1>4. a \in MessageType /\ a.cmd = c.cmd /\ a.id = c.id /\ a.status = st /\ a.topics = t
      /\ c.cmd # "frame"
  BY <1>2 DEF Answer, MessageType, CommandType, Commands, Tracked
<1>5. /\ n \in Nat /\ Len(toClient') = n + 1 /\ toClient'[n + 1] = a
      /\ \A i \in 1 .. n : toClient'[i] = toClient[i]
  BY <1>3, <1>4, AnswerType
<1>6. \A i \in 1 .. (n + 1) : i \in 1 .. n \/ i = n + 1
  BY <1>5
<1>7. \A i \in 1 .. (k - 1) : i + 1 \in 1 .. k /\ i + 1 # 1
  BY <1>2
<1>8. 1 \in 1 .. k
  BY <1>2
<1>9. OneEach'
  <2>1. \A i, j \in 1 .. (k - 1) : toServer'[i].id = toServer'[j].id => i = j
    <3>1. \A i, j \in 1 .. (k - 1) : toServer'[i].id = toServer'[j].id => i + 1 = j + 1
      BY <1>2, <1>7 DEF Parts, OneEach
    <3>2. QED BY <1>2, <3>1
  <2>2. \A i, j \in 1 .. (n + 1) :
          toClient'[i].cmd # "frame" /\ toClient'[i].id = toClient'[j].id => i = j
    <3>1. \A i, j \in 1 .. n :
            toClient'[i].cmd # "frame" /\ toClient'[i].id = toClient'[j].id => i = j
      BY <1>5 DEF Parts, OneEach
    <3>2. \A i \in 1 .. n : toClient'[i].id # toClient'[n + 1].id
      BY <1>2, <1>4, <1>5, <1>8 DEF Parts, OneEach
    <3>3. QED BY <1>6, <3>1, <3>2
  <2>3. \A i \in 1 .. (k - 1), j \in 1 .. (n + 1) : toServer'[i].id # toClient'[j].id
    <3>1. ASSUME NEW i \in 1 .. (k - 1), NEW j \in 1 .. n
          PROVE  toServer'[i].id # toClient'[j].id
      <4>1. toServer'[i] = toServer[i + 1] /\ toClient'[j] = toClient[j] /\ i + 1 \in 1 .. k
        BY <1>2, <1>5, <1>7
      <4>2. toServer[i + 1].id # toClient[j].id
        BY <4>1 DEF Parts, OneEach
      <4>3. QED BY <4>1, <4>2
    <3>2. ASSUME NEW i \in 1 .. (k - 1)
          PROVE  toServer'[i].id # toClient'[n + 1].id
      <4>1. toServer'[i] = toServer[i + 1] /\ i + 1 \in 1 .. k /\ i + 1 # 1
        BY <1>2, <1>7
      <4>2. toServer[i + 1].id # toServer[1].id
        BY <1>8, <4>1 DEF Parts, OneEach
      <4>3. toClient'[n + 1].id = toServer[1].id
        BY <1>2, <1>4, <1>5
      <4>4. QED BY <4>1, <4>2, <4>3
    <3>3. QED BY <1>6, <3>1, <3>2
  <2>4. \A i \in 1 .. (k - 1) : toServer'[i].id \in 1 .. sends
    BY <1>2, <1>7 DEF Parts, OneEach
  <2>5. \A i \in 1 .. (n + 1) :
          IF toClient'[i].cmd = "frame" THEN toClient'[i].id = 0 ELSE toClient'[i].id \in 1 .. sends
    <3>1. toClient'[n + 1].id \in 1 .. sends /\ toClient'[n + 1].cmd # "frame"
      BY <1>2, <1>4, <1>5, <1>8 DEF Parts, OneEach
    <3>2. \A i \in 1 .. n :
            IF toClient'[i].cmd = "frame" THEN toClient'[i].id = 0 ELSE toClient'[i].id \in 1 .. sends
      BY <1>5 DEF Parts, OneEach
    <3>3. QED BY <1>6, <3>1, <3>2
  <2>6. QED BY <1>1, <1>2, <1>5, <2>1, <2>2, <2>3, <2>4, <2>5 DEF OneEach
<1>10. \A m : DueNext(m) <=> Due(m)
  BY <1>1 DEF Due, DueNext
<1>11. Due(a) <=> Due(toServer[1])
  BY <1>2, <1>4 DEF Due
<1>12. ReplyDue'
  <2>1. \A i \in 1 .. Len(toServer') : toServer'[i].cmd \in Tracked => DueNext(toServer'[i])
    BY <1>2, <1>7, <1>10 DEF Parts, ReplyDue
  <2>2. \A i \in 1 .. Len(toClient') : toClient'[i].cmd \in Tracked => DueNext(toClient'[i])
    <3>1. \A i \in 1 .. n : toClient'[i].cmd \in Tracked => DueNext(toClient'[i])
      BY <1>5, <1>10 DEF Parts, ReplyDue
    <3>2. toClient'[n + 1].cmd \in Tracked => DueNext(toClient'[n + 1])
      BY <1>2, <1>4, <1>5, <1>8, <1>10, <1>11 DEF Parts, ReplyDue
    <3>3. QED BY <1>5, <1>6, <3>1, <3>2
  <2>3. ASSUME OnItsWay PROVE OnItsWay'
    <3>1. ASSUME NEW i \in 1 .. k, toServer[i].cmd \in Tracked PROVE OnItsWay'
      <4>1. CASE i = 1
        <5>1. n + 1 \in 1 .. Len(toClient') /\ toClient'[n + 1].cmd = toServer[1].cmd
          BY <1>2, <1>4, <1>5
        <5>2. QED BY <3>1, <4>1, <5>1 DEF OnItsWay
      <4>2. CASE i # 1
        <5>1. i - 1 \in 1 .. Len(toServer') /\ toServer'[i - 1] = toServer[i]
          BY <1>2, <4>2
        <5>2. QED BY <3>1, <5>1 DEF OnItsWay
      <4>3. QED BY <4>1, <4>2
    <3>2. ASSUME NEW i \in 1 .. n, toClient[i].cmd \in Tracked PROVE OnItsWay'
      <4>1. i \in 1 .. Len(toClient') /\ toClient'[i] = toClient[i]
        BY <1>5
      <4>2. QED BY <3>2, <4>1 DEF OnItsWay
    <3>3. QED BY <2>3, <3>1, <3>2 DEF OnItsWay
  <2>4. ASSUME OnItsWay' PROVE OnItsWay
    <3>1. \A i \in 1 .. (k - 1) : toServer'[i].cmd = toServer[i + 1].cmd /\ i + 1 \in 1 .. k
      BY <1>2, <1>7
    <3>2. toClient'[n + 1].cmd = toServer[1].cmd /\ \A i \in 1 .. n : toClient'[i].cmd = toClient[i].cmd
      BY <1>2, <1>4, <1>5
    <3>3. QED BY <1>2, <1>5, <1>6, <1>8, <2>4, <3>1, <3>2 DEF OnItsWay
  <2>5. UNCHANGED <<inflight, pendingMode, mode, ignored>>
    BY <1>1
  <2>6. QED BY <2>1, <2>2, <2>3, <2>4, <2>5 DEF Parts, ReplyDue, Due, DueNext
<1>16. Owned'
  <2>1. \A i \in 1 .. (k - 1) : toServer'[i] = toServer[i + 1] /\ i + 1 \in 1 .. k
    BY <1>2, <1>7
  <2>2. toClient'[n + 1].cmd = toServer[1].cmd /\ toClient'[n + 1].id = toServer[1].id
    BY <1>2, <1>4, <1>5
  <2>3. QED BY <1>1, <1>2, <1>5, <1>6, <1>8, <2>1, <2>2 DEF Parts, Owned
<1>13. CASE c.cmd = "subscribe"
  <2>1. Due(toServer[1]) /\ c.topics = topics /\ subscribed = {}
    BY <1>2, <1>8, <1>13 DEF Parts, ReplyDue, Known, Tracked
  <2>2. inflight /\ mode = "Subscribe"
    BY <1>2, <1>13, <2>1 DEF Due, Parts, ReplyDue
  <2>3. \A i \in 1 .. (k - 1) : toServer'[i].cmd # "subscribe"
    BY <1>2, <1>7, <1>8, <2>1 DEF Parts, ReplyDue, Due, OneEach, Tracked
  <2>4. \A i \in 1 .. n : toClient'[i].cmd # "subscribe"
    BY <1>2, <1>5, <1>8, <2>1 DEF Parts, ReplyDue, Due, OneEach, Tracked
  <2>5. /\ st = "success" => a.topics = subscribed' /\ subscribed' \subseteq topics
        /\ st \notin {"success", "garbled"} => subscribed' = {}
    BY <1>3, <1>4, <1>13, <2>1
  <2>6. Known'
    <3>1. \A i \in 1 .. Len(toClient') : toClient'[i].cmd = "subscribe" =>
            IF toClient'[i].status = "success"
              THEN toClient'[i].topics = subscribed' /\ subscribed' \subseteq topics'
              ELSE toClient'[i].status = "garbled" \/ subscribed' = {}
      BY <1>1, <1>4, <1>5, <1>6, <2>4, <2>5
    <3>2. \A i \in 1 .. Len(toServer') : toServer'[i].cmd # "subscribe"
      BY <1>2, <2>3
    <3>3. mode' = "Subscribe" /\ inflight' /\ parsers' = parsers /\ parsers = {}
      BY <1>1, <2>2 DEF Parts, Known
    <3>4. QED BY <3>1, <3>2, <3>3 DEF Known
  <2>7. FramesLast'
    <3>1. \A i \in 1 .. n : toClient[i].cmd # "frame"
      <4>1. \A j \in 1 .. n : toClient[j].cmd # "subscribe"
        BY <1>5, <2>4
      <4>2. \A i \in 1 .. n : \A j \in 1 .. (i - 1) : j \in 1 .. n
        BY <1>5
      <4>3. ~ignored
        BY <1>2, <1>8, <1>13, <2>2 DEF Parts, ReplyDue, OnItsWay, Tracked
      <4>4. QED BY <2>2, <4>1, <4>2, <4>3 DEF Parts, FramesLast, Confirmed
    <3>2. QED BY <1>4, <1>5, <1>6, <3>1 DEF FramesLast
  <2>8. QED BY <1>9, <1>12, <1>16, <2>6, <2>7 DEF Parts
<1>14. CASE c.cmd # "subscribe"
  <2>1. subscribed' = subscribed
    BY <1>3, <1>14
  <2>2. Known'
    <3>1. \A i \in 1 .. Len(toClient') : toClient'[i].cmd = "subscribe" =>
            IF toClient'[i].status = "success"
              THEN toClient'[i].topics = subscribed /\ subscribed \subseteq topics
              ELSE toClient'[i].status = "garbled" \/ subscribed = {}
      BY <1>4, <1>5, <1>6, <1>14 DEF Parts, Known
    <3>2. \A i \in 1 .. Len(toServer') :
            toServer'[i].cmd = "subscribe" => toServer'[i].topics = topics /\ subscribed = {}
      BY <1>2, <1>7 DEF Parts, Known
    <3>3. QED BY <1>1, <2>1, <3>1, <3>2 DEF Parts, Known
  <2>3. FramesLast'
    <3>1. \A i \in 1 .. n : toClient'[i].cmd = "frame" =>
            toClient'[i].topics \subseteq subscribed /\ Confirmed(i)
      BY <1>5 DEF Parts, FramesLast
    <3>2. ASSUME NEW i \in 1 .. n, Confirmed(i) PROVE Confirmed(i)'
      <4>1. \A j \in 1 .. (i - 1) : toClient'[j] = toClient[j]
        BY <1>5
      <4>2. QED BY <1>1, <3>2, <4>1 DEF Confirmed
    <3>3. QED BY <1>4, <1>5, <1>6, <2>1, <3>1, <3>2 DEF FramesLast
  <2>4. QED BY <1>9, <1>12, <1>16, <2>2, <2>3 DEF Parts
<1>15. QED BY <1>13, <1>14

\* A frame follows what it is about.
LEMMA SendsStep ==
  ASSUME TypeOK, Parts, ServerSends
  PROVE  Parts'
<1> DEFINE n == Len(toClient)
<1> USE DEF session, request, stream
<1>1. PICK t \in subscribed : toClient' = Append(toClient, Answer("frame", 0, "success", {t}))
  BY DEF ServerSends
<1> DEFINE a == Answer("frame", 0, "success", {t})
<1>2. a \in MessageType /\ a.cmd = "frame" /\ a.id = 0 /\ a.topics = {t} /\ t \in Topics
  BY DEF Answer, MessageType, Statuses, TypeOK
<1>3. /\ n \in Nat /\ Len(toClient') = n + 1 /\ toClient'[n + 1] = a
      /\ \A i \in 1 .. n : toClient'[i] = toClient[i]
  BY <1>1, <1>2, AnswerType
<1>4. \A i \in 1 .. (n + 1) : i \in 1 .. n \/ i = n + 1
  BY <1>3
<1>5. UNCHANGED <<mode, request, stream, toServer, subscribed, sends>>
  BY DEF ServerSends
<1>6. \A i \in 1 .. n : toClient[i].cmd # "frame" => toClient[i].id # 0
  BY DEF TypeOK, Parts, OneEach
<1>7. \A i \in 1 .. Len(toServer) : toServer[i].id # 0
  BY DEF TypeOK, Parts, OneEach
<1>8. OneEach'
  <2>1. \A i, j \in 1 .. (n + 1) :
          toClient'[i].cmd # "frame" /\ toClient'[i].id = toClient'[j].id => i = j
    <3>1. \A i, j \in 1 .. n :
            toClient'[i].cmd # "frame" /\ toClient'[i].id = toClient'[j].id => i = j
      BY <1>3 DEF Parts, OneEach
    <3>2. \A i \in 1 .. n : toClient'[i].cmd # "frame" => toClient'[i].id # toClient'[n + 1].id
      BY <1>2, <1>3, <1>6
    <3>3. toClient'[n + 1].cmd = "frame"
      BY <1>2, <1>3
    <3>4. QED BY <1>4, <3>1, <3>2, <3>3
  <2>2. \A i \in 1 .. Len(toServer), j \in 1 .. (n + 1) : toServer[i].id # toClient'[j].id
    <3>1. \A i \in 1 .. Len(toServer), j \in 1 .. n : toServer[i].id # toClient'[j].id
      BY <1>3 DEF Parts, OneEach
    <3>2. \A i \in 1 .. Len(toServer) : toServer[i].id # toClient'[n + 1].id
      BY <1>2, <1>3, <1>7
    <3>3. QED BY <1>4, <3>1, <3>2
  <2>3. \A i \in 1 .. (n + 1) :
          IF toClient'[i].cmd = "frame" THEN toClient'[i].id = 0 ELSE toClient'[i].id \in 1 .. sends
    BY <1>2, <1>3, <1>4 DEF Parts, OneEach
  <2>4. QED BY <1>3, <1>5, <2>1, <2>2, <2>3 DEF Parts, OneEach
<1>9. \A m : DueNext(m) <=> Due(m)
  BY <1>5 DEF Due, DueNext
<1>10. ReplyDue'
  <2>1. \A i \in 1 .. Len(toServer') : toServer'[i].cmd \in Tracked => DueNext(toServer'[i])
    BY <1>5, <1>9 DEF Parts, ReplyDue
  <2>2. \A i \in 1 .. Len(toClient') : toClient'[i].cmd \in Tracked => DueNext(toClient'[i])
    BY <1>2, <1>3, <1>4, <1>9 DEF Parts, ReplyDue, Tracked
  <2>3. OnItsWay' <=> OnItsWay
    <3>1. toClient'[n + 1].cmd \notin Tracked
      BY <1>2, <1>3 DEF Tracked
    <3>2. QED BY <1>3, <1>4, <1>5, <3>1 DEF OnItsWay
  <2>4. QED BY <1>5, <2>1, <2>2, <2>3 DEF Parts, ReplyDue, Due, DueNext
<1>14. Owned'
  <2>1. inflight => toClient'[n + 1].id # pendingId
    BY <1>2, <1>3 DEF Parts, Owned, TypeOK
  <2>2. QED BY <1>3, <1>4, <1>5, <2>1 DEF Parts, Owned
<1>11. Known'
  <2>1. \A i \in 1 .. Len(toClient') : toClient'[i].cmd = "subscribe" =>
          IF toClient'[i].status = "success"
            THEN toClient'[i].topics = subscribed /\ subscribed \subseteq topics
            ELSE toClient'[i].status = "garbled" \/ subscribed = {}
    BY <1>2, <1>3, <1>4 DEF Parts, Known
  <2>2. QED BY <1>5, <2>1 DEF Parts, Known
<1>12. FramesLast'
  <2>1. mode = "Data" \/ ignored \/ \E j \in 1 .. n :
          toClient[j].cmd = "subscribe" /\ toClient[j].status \in {"success", "garbled"}
    <3>1. mode = "Data" \/ (mode = "Subscribe" /\ inflight)
      BY DEF Parts, Known, TypeOK, Modes
    <3>2. CASE mode = "Subscribe" /\ inflight /\ ~ignored
      <4>1. \A i \in 1 .. Len(toServer) : toServer[i].cmd \notin Tracked
        BY <3>2 DEF Due, Parts, ReplyDue, Known
      <4>2. PICK i \in 1 .. n : toClient[i].cmd \in Tracked
        BY <3>2, <4>1 DEF Parts, ReplyDue, OnItsWay
      <4>3. toClient[i].cmd = "subscribe" /\ toClient[i].status \in {"success", "garbled"}
        BY <3>2, <4>2 DEF Due, Parts, ReplyDue, Known
      <4>4. QED BY <4>3
    <3>3. QED BY <3>1, <3>2
  <2>2. ASSUME NEW i, i = n + 1 PROVE Confirmed(i)'
    <3>1. \A j \in 1 .. n : j \in 1 .. (i - 1) /\ toClient'[j] = toClient[j]
      BY <1>3, <2>2
    <3>2. QED BY <1>5, <2>1, <3>1 DEF Confirmed
  <2>3. ASSUME NEW i \in 1 .. n, Confirmed(i) PROVE Confirmed(i)'
    <3>1. \A j \in 1 .. (i - 1) : toClient'[j] = toClient[j]
      BY <1>3
    <3>2. QED BY <1>5, <2>3, <3>1 DEF Confirmed
  <2>4. \A i \in 1 .. n : toClient'[i].cmd = "frame" =>
          toClient'[i].topics \subseteq subscribed /\ Confirmed(i)'
    BY <1>3, <2>3 DEF Parts, FramesLast
  <2>5. toClient'[n + 1].topics \subseteq subscribed
    BY <1>2, <1>3
  <2>6. QED BY <1>3, <1>4, <1>5, <2>2, <2>4, <2>5 DEF FramesLast
<1>13. QED BY <1>8, <1>10, <1>11, <1>12, <1>14 DEF Parts

-----------------------------------------------------------------------------
\* Messages that are served.

\* The ids that are left are as distinct as before.
LEMMA TakenAlone ==
  ASSUME TypeOK, OneEach, toClient # << >>, toClient' = Tail(toClient),
         UNCHANGED <<toServer, sends>>
  PROVE  OneEach'
<1> DEFINE k == Len(toClient')
<1>1. \A i \in 1 .. k : i + 1 \in 1 .. Len(toClient) /\ toClient'[i] = toClient[i + 1]
  BY ReceiveType
<1>2. \A i, j \in 1 .. k :
        toClient'[i].cmd # "frame" /\ toClient'[i].id = toClient'[j].id => i = j
  <2>1. \A i, j \in 1 .. k :
          toClient'[i].cmd # "frame" /\ toClient'[i].id = toClient'[j].id => i + 1 = j + 1
    BY <1>1 DEF OneEach
  <2>2. QED BY <2>1
<1>3. \A i \in 1 .. Len(toServer), j \in 1 .. k : toServer[i].id # toClient'[j].id
  BY <1>1 DEF OneEach
<1>4. \A i \in 1 .. k :
        IF toClient'[i].cmd = "frame" THEN toClient'[i].id = 0 ELSE toClient'[i].id \in 1 .. sends
  BY <1>1 DEF OneEach
<1>5. QED BY <1>2, <1>3, <1>4 DEF OneEach

\* A message nobody waits for leaves the rest as it was.
LEMMA DropStep ==
  ASSUME TypeOK, Parts, toClient # << >>, toClient' = Tail(toClient),
         Head(toClient).cmd \notin Tracked,
         UNCHANGED <<mode, stream, toServer, subscribed, sends, inflight, ignored>>,
         inflight => UNCHANGED request
  PROVE  Parts'
<1> DEFINE k == Len(toClient')
<1> USE DEF request, stream
<1>1. \A i \in 1 .. k : i + 1 \in 1 .. Len(toClient) /\ toClient'[i] = toClient[i + 1]
  BY ReceiveType
<1>2. Head(toClient) = toClient[1] /\ k = Len(toClient) - 1 /\ Len(toClient) \in Nat
  BY ReceiveType, LenProperties DEF TypeOK
<1>3. OneEach'
  BY TakenAlone DEF Parts
<1>4. \A m : DueNext(m) <=> Due(m)
  BY DEF Due, DueNext
<1>5. ReplyDue'
  <2>1. \A i \in 1 .. Len(toServer') : toServer'[i].cmd \in Tracked => DueNext(toServer'[i])
    BY <1>4 DEF Parts, ReplyDue
  <2>2. \A i \in 1 .. k : toClient'[i].cmd \in Tracked => DueNext(toClient'[i])
    BY <1>1, <1>4 DEF Parts, ReplyDue
  <2>3. ASSUME NEW i \in 1 .. Len(toClient), toClient[i].cmd \in Tracked
        PROVE  \E j \in 1 .. k : toClient'[j].cmd \in Tracked
    <3>1. i # 1
      BY <1>2, <2>3
    <3>2. i - 1 \in 1 .. k /\ toClient'[i - 1] = toClient[i]
      BY <1>1, <1>2, <3>1
    <3>3. QED BY <2>3, <3>2
  <2>4. OnItsWay' <=> OnItsWay
    BY <1>1, <2>3 DEF OnItsWay
  <2>5. QED BY <2>1, <2>2, <2>4 DEF Parts, ReplyDue, Due, DueNext
<1>9. Owned'
  BY <1>1 DEF Parts, Owned
<1>6. Known'
  <2>1. \A i \in 1 .. k : toClient'[i].cmd = "subscribe" =>
          IF toClient'[i].status = "success"
            THEN toClient'[i].topics = subscribed /\ subscribed \subseteq topics
            ELSE toClient'[i].status = "garbled" \/ subscribed = {}
    BY <1>1 DEF Parts, Known
  <2>2. QED BY <2>1 DEF Parts, Known
<1>7. FramesLast'
  <2>1. ASSUME NEW i \in 1 .. k, Confirmed(i + 1) PROVE Confirmed(i)'
    <3>1. CASE mode = "Data" \/ ignored
      BY <3>1 DEF Confirmed
    <3>2. ASSUME NEW j \in 1 .. ((i + 1) - 1),
                 toClient[j].cmd = "subscribe", toClient[j].status \in {"success", "garbled"}
          PROVE  Confirmed(i)'
      <4>1. j # 1
        BY <1>2, <3>2 DEF Tracked
      <4>2. j - 1 \in 1 .. (i - 1) /\ j - 1 \in 1 .. k /\ (j - 1) + 1 = j
        BY <1>2, <4>1
      <4>3. toClient'[j - 1] = toClient[j]
        BY <1>1, <4>2
      <4>4. QED BY <3>2, <4>2, <4>3 DEF Confirmed
    <3>3. QED BY <2>1, <3>1, <3>2 DEF Confirmed
  <2>2. QED BY <1>1, <2>1 DEF Parts, FramesLast
<1>8. QED BY <1>3, <1>5, <1>6, <1>7, <1>9 DEF Parts

\* The answer that is due is the only one there is, and a frame is behind
\* it only if it is for a subscription, which the server has accepted.
LEMMA DueAlone ==
  ASSUME TypeOK, Parts, toClient # << >>, toClient' = Tail(toClient),
         Due(Head(toClient)), UNCHANGED toServer
  PROVE  /\ \A i \in 1 .. Len(toServer) : toServer[i].cmd \notin Tracked
         /\ \A i \in 1 .. Len(toClient') : toClient'[i].cmd \notin Tracked
         /\ \A i \in 1 .. Len(toClient') : toClient'[i].cmd = "frame" =>
              /\ toClient'[i].topics \subseteq subscribed
              /\ Head(toClient).cmd = "subscribe"
              /\ Head(toClient).status \in {"success", "garbled"}
<1> DEFINE k == Len(toClient')
           a == Head(toClient)
<1>1. \A i \in 1 .. k : /\ i + 1 \in 1 .. Len(toClient) /\ i + 1 # 1
                        /\ toClient'[i] = toClient[i + 1]
  BY ReceiveType, LenProperties
<1>2. a = toClient[1] /\ 1 \in 1 .. Len(toClient)
  BY ReceiveType
<1>3. a.cmd \in Tracked /\ a.cmd # "frame" /\ a.id = pendingId
  BY DEF Due, Tracked
<1>4. \A i \in 1 .. Len(toServer) : toServer[i].cmd \notin Tracked
  BY <1>2, <1>3 DEF Parts, ReplyDue, Due, OneEach
<1>5. \A i \in 1 .. Len(toClient) : toClient[i].cmd \in Tracked => i = 1
  BY <1>2, <1>3 DEF Parts, ReplyDue, Due, OneEach
<1>6. \A i \in 1 .. k : toClient'[i].cmd \notin Tracked
  BY <1>1, <1>5
<1>7. ASSUME NEW i \in 1 .. k, toClient'[i].cmd = "frame"
      PROVE  /\ toClient'[i].topics \subseteq subscribed
             /\ a.cmd = "subscribe" /\ a.status \in {"success", "garbled"}
  <2>1. toClient[i + 1].topics \subseteq subscribed /\ Confirmed(i + 1)
    BY <1>1, <1>7 DEF Parts, FramesLast
  <2>2. mode # "Data" /\ ~ignored
    BY <1>2, <1>3 DEF Due, Parts, ReplyDue, OnItsWay
  <2>3. PICK j \in 1 .. ((i + 1) - 1) :
          toClient[j].cmd = "subscribe" /\ toClient[j].status \in {"success", "garbled"}
    BY <2>1, <2>2 DEF Confirmed
  <2>4. j \in 1 .. Len(toClient)
    BY <1>1, <1>7, LenProperties DEF TypeOK
  <2>5. j = 1
    BY <1>5, <2>3, <2>4 DEF Tracked
  <2>6. QED BY <1>1, <1>2, <2>1, <2>3, <2>5
<1>8. QED BY <1>4, <1>6, <1>7

\* The answer that is expected is served.
LEMMA DueServed ==
  ASSUME TypeOK, Connected, Parts, AnswerServed, Due(Head(toClient)), Expected(Head(toClient))
  PROVE  Parts'
<1> DEFINE a == Head(toClient)
           k == Len(toClient')
<1> USE DEF session, request, timers, stream
<1>1. /\ toClient # << >> /\ toClient' = Tail(toClient)
      /\ UNCHANGED <<toServer, subscribed, sends>>
  BY DEF AnswerServed, Receives
<1>2. /\ \A i \in 1 .. Len(toServer) : toServer[i].cmd \notin Tracked
      /\ \A i \in 1 .. k : toClient'[i].cmd \notin Tracked
      /\ \A i \in 1 .. k : toClient'[i].cmd = "frame" =>
           /\ toClient'[i].topics \subseteq subscribed
           /\ a.cmd = "subscribe" /\ a.status \in {"success", "garbled"}
  BY <1>1, DueAlone
<1>3. /\ a \in MessageType /\ inflight /\ pendingMode = mode /\ mode \in {"GetTopics", "Subscribe"}
      /\ a.cmd = IF mode = "GetTopics" THEN "get_topics" ELSE "subscribe"
  BY <1>1, ReceiveType DEF Due, Parts, ReplyDue
<1>4. a = toClient[1] /\ 1 \in 1 .. Len(toClient)
  BY <1>1, ReceiveType
<1>5. OneEach'
  BY <1>1, TakenAlone DEF Parts
<1>6. Settled
  BY ServedCases DEF Refused, TopicsListed, Subscribed, SubscribedNone
<1>7. ReplyDue' /\ Owned'
  BY <1>1, <1>2, <1>6 DEF Settled, ReplyDue, Owned
<1>15. a.status # "garbled"
  BY DEF Expected
<1>8. /\ \A i \in 1 .. Len(toServer') : toServer'[i].cmd # "subscribe"
      /\ \A i \in 1 .. k : toClient'[i].cmd # "subscribe"
  BY <1>1, <1>2 DEF Tracked
<1>9. inflight' = FALSE
  BY <1>6 DEF Settled
<1>10. parsers = {} /\ (mode = "GetTopics" => topics = {} /\ subscribed = {})
  BY <1>3 DEF Parts, Known
<1>11. CASE mode = "GetTopics"
  <2>1. UNCHANGED <<mode, stream>>
    BY <1>3, <1>11, ServedCases DEF Refused, TopicsListed
  <2>2. Known'
    BY <1>1, <1>8, <1>9, <1>10, <1>11, <2>1 DEF Known
  <2>3. FramesLast'
    BY <1>2, <1>3, <1>11 DEF FramesLast
  <2>4. QED BY <1>5, <1>7, <2>2, <2>3 DEF Parts
<1>12. CASE mode = "Subscribe" /\ a.status # "success"
  <2>1. subscribed = {}
    BY <1>3, <1>4, <1>12, <1>15 DEF Parts, Known
  <2>2. mode' = "Subscribe" /\ parsers' = {}
    BY <1>3, <1>10, <1>12, ServedCases DEF Refused, SubscribedNone
  <2>3. Known'
    BY <1>1, <1>8, <1>9, <2>1, <2>2 DEF Known
  <2>4. FramesLast'
    BY <1>2, <1>12, <1>15 DEF FramesLast
  <2>5. QED BY <1>5, <1>7, <2>3, <2>4 DEF Parts
<1>13. CASE mode = "Subscribe" /\ a.status = "success"
  <2>1. a.topics = subscribed /\ subscribed \subseteq topics
    BY <1>3, <1>4, <1>13 DEF Parts, Known
  <2>2. Subscribed(a.topics)
    BY <1>3, <1>13, ServedCases
  <2>3. mode' = "Data" /\ topics' = subscribed /\ parsers' = subscribed
    BY <1>10, <2>1, <2>2 DEF Subscribed
  <2>4. Known'
    BY <1>1, <1>8, <2>3 DEF Known
  <2>5. FramesLast'
    BY <1>1, <1>2, <2>3 DEF FramesLast, Confirmed
  <2>6. QED BY <1>5, <1>7, <2>4, <2>5 DEF Parts
<1>14. QED BY <1>3, <1>11, <1>12, <1>13

\* The answer that is due is served, and cannot be read.
LEMMA DueIgnored ==
  ASSUME TypeOK, Connected, Parts, AnswerServed, Due(Head(toClient)), Ignored(Head(toClient))
  PROVE  Parts'
<1> DEFINE k == Len(toClient')
<1> USE DEF stream
<1>1. /\ toClient # << >> /\ toClient' = Tail(toClient)
      /\ UNCHANGED <<toServer, subscribed, sends>>
  BY DEF AnswerServed, Receives
<1>2. /\ \A i \in 1 .. Len(toServer) : toServer[i].cmd \notin Tracked
      /\ \A i \in 1 .. k : toClient'[i].cmd \notin Tracked
      /\ \A i \in 1 .. k : toClient'[i].cmd = "frame" => toClient'[i].topics \subseteq subscribed
  BY <1>1, DueAlone
<1>3. ignored' = TRUE /\ UNCHANGED <<inflight, pendingId, pendingMode, mode, stream>>
  BY DEF Ignored, Due, TypeOK
<1>4. inflight
  BY DEF Due
<1>5. OneEach'
  BY <1>1, TakenAlone DEF Parts
<1>6. \A i \in 1 .. k : i + 1 \in 1 .. Len(toClient) /\ toClient'[i] = toClient[i + 1]
  BY <1>1, ReceiveType
<1>7. Owned'
  BY <1>1, <1>3, <1>6 DEF Parts, Owned
<1>8. ReplyDue'
  BY <1>1, <1>2, <1>3, <1>4 DEF Parts, ReplyDue, OnItsWay
<1>9. Known'
  <2>1. /\ \A i \in 1 .. Len(toServer') : toServer'[i].cmd # "subscribe"
        /\ \A i \in 1 .. k : toClient'[i].cmd # "subscribe"
    BY <1>1, <1>2 DEF Tracked
  <2>2. QED BY <1>1, <1>3, <2>1 DEF Parts, Known
<1>10. FramesLast'
  BY <1>1, <1>2, <1>3 DEF FramesLast, Confirmed
<1>11. QED BY <1>5, <1>7, <1>8, <1>9, <1>10 DEF Parts

\* Any answer is served.
LEMMA ServedStep ==
  ASSUME TypeOK, Connected, Parts, AnswerServed
  PROVE  Parts'
<1> DEFINE a == Head(toClient)
<1>1. /\ toClient # << >> /\ toClient' = Tail(toClient)
      /\ a.cmd # "frame"
      /\ UNCHANGED <<toServer, subscribed, sends>>
  BY DEF AnswerServed, Receives
<1>2. a = toClient[1] /\ 1 \in 1 .. Len(toClient)
  BY <1>1, ReceiveType
<1>4. a.cmd \in Tracked => Due(a)
  BY <1>2 DEF Parts, ReplyDue
<1>5. inflight /\ a.id = pendingId => Due(a)
  BY <1>2, <1>4 DEF Parts, Owned
<1>6. CASE ~Expected(a) /\ Due(a)
  BY <1>6, DueIgnored, ServedCases
<1>7. CASE Expected(a) /\ Due(a)
  BY <1>7, DueServed
<1>8. CASE ~Expected(a) /\ ~Due(a)
  <2>1. Ignored(a) /\ a.cmd \notin Tracked
    BY <1>4, <1>8, ServedCases
  <2>2. ignored' = ignored
    BY <1>5, <1>8, <2>1 DEF Ignored, TypeOK
  <2>3. UNCHANGED <<mode, stream, request>>
    BY <2>1, <2>2 DEF Ignored, request
  <2>4. QED BY <1>1, <2>1, <2>3, DropStep DEF request
<1>9. CASE Expected(a) /\ ~Due(a)
  <2>1. ~inflight /\ a.cmd \notin Tracked
    BY <1>4, <1>5, <1>9 DEF Expected
  <2>2. pendingMode = "Close" /\ ignored = FALSE
    BY <2>1 DEF Connected, Parts, ReplyDue, TypeOK
  <2>3. Settled /\ UNCHANGED <<mode, stream>>
    BY <1>9, <2>2, ServedCases DEF Refused
  <2>4. inflight' = inflight /\ ignored' = ignored
    BY <2>1, <2>2, <2>3 DEF Settled, TypeOK
  <2>5. QED BY <1>1, <2>1, <2>3, <2>4, DropStep
<1>10. QED BY <1>6, <1>7, <1>8, <1>9

-----------------------------------------------------------------------------
\* The invariant.

LEMMA InitInv == Init => IInv
<1> SUFFICES ASSUME Init PROVE IInv
  OBVIOUS
<1>1. Len(toServer) = 0 /\ Len(toClient) = 0
  BY DEF Init
<1>2. TypeOK
  BY InitType
<1>3. Connected
  BY DEF Init, Connected
<1>4. OneEach /\ FramesLast /\ Owned
  BY <1>1 DEF Init, OneEach, FramesLast, Owned
<1>5. ReplyDue
  BY <1>1 DEF Init, ReplyDue
<1>6. Known
  BY <1>1 DEF Init, Known
<1>7. QED BY <1>2, <1>3, <1>4, <1>5, <1>6 DEF IInv

LEMMA UserStep ==
  ASSUME TypeOK, Connected, Parts,
         StartClicked \/ Connect \/ Disconnect \/ Select \/ Accept \/ Cancel \/ Escape
           \/ StopClicked \/ PauseClicked
  PROVE  Parts'
<1>1. CASE StartClicked
  BY <1>1, QuietStep DEF StartClicked, session, link, request, stream
<1>2. CASE Connect
  BY <1>2, QuietStep DEF Connect, session, request, stream
<1>3. CASE Disconnect
  BY <1>3, EmptyStep DEF Disconnect, ResetState, Settled, Cut
<1>4. CASE Select
  BY <1>4, QuietStep DEF Select, session, link, request, stream
<1>5. CASE Accept
  <2>1. /\ Ask("subscribe", "Subscribe", picked) /\ mode' = "Subscribe" /\ topics' = picked
        /\ ~inflight /\ mode = "GetTopics" /\ UNCHANGED <<parsers, toClient, subscribed>>
    BY <1>5 DEF Accept
  <2>2. "subscribe" \in Tracked /\ picked \in SUBSET Topics
    BY DEF Tracked, TypeOK
  <2>3. QED BY <2>1, <2>2, AskStep
<1>6. CASE Cancel
  BY <1>6, ShutdownStep DEF Cancel
<1>7. CASE Escape
  BY <1>7, QuietStep DEF Escape, session, link, request, stream
<1>8. CASE StopClicked
  BY <1>8, ShutdownStep DEF StopClicked
<1>9. CASE PauseClicked
  <2>1. PICK cmd \in {"pause", "resume"} : Send(cmd, {})
    BY <1>9 DEF PauseClicked
  <2>2. cmd \in Commands \ Tracked
    BY DEF Commands, Tracked
  <2>3. QED BY <1>9, <2>1, <2>2, SendStep DEF PauseClicked, session
<1>10. QED BY <1>1, <1>2, <1>3, <1>4, <1>5, <1>6, <1>7, <1>8, <1>9

LEMMA LinkStep ==
  ASSUME TypeOK, Connected, Parts,
         Poll \/ HeartBeat \/ Replot \/ Opened \/ Disconnected \/ ServerAnswers \/ ServerSends
  PROVE  Parts'
<1>1. "get_topics" \in Tracked /\ {} \in SUBSET Topics
  BY DEF Tracked
<1>2. CASE Poll
  <2>1. /\ Ask("get_topics", "GetTopics", {}) /\ mode' = "GetTopics"
        /\ ~inflight /\ mode = "GetTopics" /\ UNCHANGED <<topics, parsers, toClient, subscribed>>
    BY <1>2 DEF Poll, stream
  <2>2. topics' = {}
    BY <2>1 DEF Parts, Known
  <2>3. QED BY <1>1, <2>1, <2>2, AskStep
<1>3. CASE HeartBeat
  <2>1. "heartbeat" \in Commands \ Tracked
    BY DEF Commands, Tracked
  <2>2. QED BY <1>3, <2>1, SendStep DEF HeartBeat, session
<1>4. CASE Replot
  BY <1>4, QuietStep DEF Replot, session, link, request, stream
<1>5. CASE Opened
  <2>1. /\ Ask("get_topics", "GetTopics", {}) /\ mode' = "GetTopics" /\ socket = "opening"
        /\ UNCHANGED <<topics, parsers, toClient, subscribed>>
    BY <1>5 DEF Opened, stream
  <2>2. ~inflight /\ mode = "Close"
    BY <2>1 DEF Connected
  <2>3. topics' = {}
    BY <2>1, <2>2 DEF Parts, Known
  <2>4. QED BY <1>1, <2>1, <2>2, <2>3, AskStep
<1>6. CASE Disconnected
  BY <1>6, LostStep
<1>7. CASE ServerAnswers
  BY <1>7, AnswersStep
<1>8. CASE ServerSends
  BY <1>8, SendsStep
<1>9. QED BY <1>2, <1>3, <1>4, <1>5, <1>6, <1>7, <1>8

LEMMA ServeStep ==
  ASSUME TypeOK, Connected, Parts, AnswerServed \/ FrameServed \/ ParseFails
  PROVE  Parts'
<1>1. CASE AnswerServed
  BY <1>1, ServedStep
<1>2. CASE FrameServed
  BY <1>2, DropStep DEF FrameServed, Receives, session, request, Tracked
<1>3. CASE ParseFails
  <2>1. CASE Shutdown
    BY <2>1, ShutdownStep
  <2>2. CASE toClient' = Tail(toClient)
             /\ UNCHANGED <<dialog, active, replot, view, running, paused, session, wanted,
                            socket, toServer, subscribed, sends, bounds>>
    <3>1. toClient # << >> /\ Head(toClient).cmd \notin Tracked
      BY <1>3 DEF ParseFails, Tracked
    <3>2. QED BY <2>2, <3>1, DropStep DEF session, request
  <2>3. QED BY <1>3, <2>1, <2>2 DEF ParseFails
<1>4. QED BY <1>1, <1>2, <1>3

LEMMA InvStep == IInv /\ [Next]_vars => IInv'
<1> SUFFICES ASSUME IInv, [Next]_vars PROVE IInv'
  OBVIOUS
<1>1. TypeOK /\ Connected /\ Parts
  BY DEF IInv, Parts
<1>2. TypeOK' /\ Connected'
  BY <1>1, TypeStep, ConnectedStep
<1>3. Parts'
  <2>1. CASE UNCHANGED vars
    BY <1>1, <2>1, QuietStep DEF vars, session, link, request, stream
  <2>2. CASE Next
    BY <1>1, <2>2, UserStep, LinkStep, ServeStep DEF Next
  <2>3. QED BY <2>1, <2>2
<1>4. QED BY <1>2, <1>3 DEF IInv, Parts

\* What plugin and server have told each other stays consistent, over any
\* number of connections.
THEOREM Invariant == Spec => []IInv
<1>1. Init => IInv
  BY InitInv
<1>2. QED BY <1>1, InvStep, PTL DEF Spec

\* While req_in_flight is set, the answer it waits for is on its way or was ignored,
\* and no other answer can be taken for it (onTextMessageReceived).
THEOREM RepliesAlwaysDue == Spec => []ReplyDue
<1>1. IInv => ReplyDue
  BY DEF IInv
<1>2. QED BY <1>1, Invariant, PTL

\* In Data mode the plugin's topics and parsers are those the server sends; unless
\* the answer to the subscription was ignored frames find their parser, and no
\* session leaves anything to the next.
THEOREM StreamAlwaysAgreed == Spec => []StreamAgreed
<1>1. ASSUME IInv PROVE StreamAgreed
  <2>1. mode = "Data" => parsers = topics /\ topics = subscribed
    BY <1>1 DEF IInv, Known
  <2>2. ~running => mode = "Close" /\ topics = {} /\ parsers = {} /\ ~polling /\ ~beating
    BY <1>1 DEF IInv, Known, Connected, TypeOK
  <2>3. ASSUME toClient # << >>, Head(toClient).cmd = "frame"
        PROVE  IF ignored THEN parsers = {} ELSE Head(toClient).topics \subseteq parsers
    <3>1. Head(toClient) = toClient[1] /\ 1 \in 1 .. Len(toClient)
      BY <1>1, <2>3, Taken DEF IInv, TypeOK
    <3>2. toClient[1].topics \subseteq subscribed /\ Confirmed(1)
      BY <1>1, <2>3, <3>1 DEF IInv, FramesLast
    <3>3. CASE ~ignored
      <4>1. mode = "Data"
        BY <3>2, <3>3 DEF Confirmed
      <4>2. QED BY <2>1, <3>1, <3>2, <3>3, <4>1
    <3>4. CASE ignored
      BY <1>1, <3>4 DEF IInv, ReplyDue, Known
    <3>5. QED BY <3>3, <3>4
  <2>4. QED BY <2>1, <2>2, <2>3 DEF StreamAgreed
<1>2. QED BY <1>1, Invariant, PTL

-----------------------------------------------------------------------------
\* The refinement of DataStreamer.

\* A step that leaves the session as it is, and keeps nothing new.
Stays == mode' = mode /\ wanted' = wanted /\ Kept' \subseteq Kept

\* One that ends it, if there is one.
Ends == mode' = "Close" /\ wanted' = wanted /\ Kept' = {}

\* Every step is one of five kinds for the session.
SessionStep ==
  \/ Stays
  \/ Ends
  \/ ~SessionOpen /\ SessionOpen' /\ Kept' \subseteq wanted' /\ wanted' # {}
  \/ ~SessionOpen /\ ~SessionOpen' /\ Kept' = {}
  \/ SessionOpen /\ SessionOpen' /\ wanted' = wanted /\ Kept' \subseteq Kept

\* Shutdown ends it.
LEMMA ShutdownEnds ==
  ASSUME Shutdown, wanted' = wanted PROVE Stays \/ Ends
<1>1. CASE running
  BY <1>1 DEF Shutdown, ResetState, Settled, Ends, Kept
<1>2. CASE ~running
  BY <1>2 DEF Shutdown, session, stream, Stays, Kept
<1>3. QED BY <1>1, <1>2

\* What the user does to it.
LEMMA UserSession ==
  ASSUME TypeOK, Connected, Known,
         StartClicked \/ Connect \/ Disconnect \/ Select \/ Accept \/ Cancel \/ Escape
           \/ StopClicked \/ PauseClicked
  PROVE  SessionStep
<1>1. CASE StartClicked \/ Connect \/ Select \/ Escape \/ PauseClicked
  BY <1>1 DEF StartClicked, Connect, Select, Escape, PauseClicked, session, stream, Stays, Kept,
     SessionStep
<1>2. CASE Disconnect
  BY <1>2 DEF Disconnect, ResetState, Settled, Ends, Kept, SessionStep
<1>3. CASE Cancel \/ StopClicked
  BY <1>3, ShutdownEnds DEF Cancel, StopClicked, SessionStep
<1>4. CASE Accept
  <2>1. mode = "GetTopics" /\ parsers = {}
    BY <1>4 DEF Accept, Known
  <2>2. mode' = "Subscribe" /\ Kept' = wanted' /\ wanted' # {}
    BY <1>4, <2>1 DEF Accept, Kept
  <2>3. QED BY <2>1, <2>2 DEF SessionStep, SessionOpen
<1>5. QED BY <1>1, <1>2, <1>3, <1>4

\* What timers, connection and server do to it.
LEMMA LinkSession ==
  ASSUME TypeOK, Connected, Known,
         Poll \/ HeartBeat \/ Replot \/ Opened \/ Disconnected \/ ServerAnswers \/ ServerSends
  PROVE  SessionStep
<1>1. CASE Poll \/ HeartBeat \/ Replot \/ ServerAnswers \/ ServerSends
  BY <1>1 DEF Poll, HeartBeat, Replot, ServerAnswers, ServerSends, session, stream, Stays, Kept,
     SessionStep
<1>2. CASE Opened
  <2>1. mode = "Close" /\ Kept = {}
    BY <1>2 DEF Opened, Connected, Known, Kept
  <2>2. mode' = "GetTopics" /\ Kept' = Kept
    BY <1>2 DEF Opened, stream, Kept
  <2>3. QED BY <2>1, <2>2 DEF SessionStep, SessionOpen
<1>3. CASE Disconnected
  <2>1. CASE running
    BY <1>3, <2>1 DEF Disconnected, ResetState, Settled, Ends, Kept, SessionStep
  <2>2. CASE ~running
    BY <1>3, <2>2 DEF Disconnected, session, stream, Stays, Kept, SessionStep
  <2>3. QED BY <2>1, <2>2
<1>4. QED BY <1>1, <1>2, <1>3

\* What messages do to it.
LEMMA ServeSession ==
  ASSUME TypeOK, Connected, Parts, AnswerServed \/ FrameServed \/ ParseFails
  PROVE  SessionStep
<1>1. CASE AnswerServed
  <2> DEFINE a == Head(toClient)
  <2>1. /\ pendingMode \in {"GetTopics", "Subscribe"} => pendingMode = mode
        /\ mode # "Data" => parsers = {}
        /\ mode = "GetTopics" => topics = {}
    BY DEF Connected, Parts, ReplyDue, Known, TypeOK
  <2>2. CASE Ignored(a) \/ UNCHANGED <<mode, timers, stream, choice>>
    BY <2>2 DEF Ignored, stream, choice, Stays, Kept, SessionStep
  <2>3. CASE Refused
    BY <2>3 DEF Refused, stream, choice, Stays, Kept, SessionStep
  <2>4. CASE pendingMode = "GetTopics" /\ TopicsListed(a.topics)
    <3>1. mode = "GetTopics" /\ mode' = mode /\ Kept' = {}
      BY <2>1, <2>4 DEF TopicsListed, stream, Kept
    <3>2. QED BY <3>1 DEF SessionStep, SessionOpen
  <2>5. CASE pendingMode = "Subscribe" /\ Subscribed(a.topics)
    <3>1. mode = "Subscribe" /\ mode' = "Data" /\ wanted' = wanted
      BY <2>1, <2>5 DEF Subscribed, choice
    <3>2. Kept' \subseteq Kept
      BY <2>5 DEF Subscribed, Kept
    <3>3. QED BY <3>1, <3>2 DEF SessionStep, SessionOpen
  <2>6. CASE SubscribedNone
    BY <2>6 DEF SubscribedNone, choice, Stays, Kept, SessionStep
  <2>7. QED BY <1>1, <2>2, <2>3, <2>4, <2>5, <2>6, ServedCases
<1>2. CASE FrameServed
  BY <1>2 DEF FrameServed, session, stream, Stays, Kept, SessionStep
<1>3. CASE ParseFails
  <2>1. CASE Shutdown /\ UNCHANGED wanted
    BY <2>1, ShutdownEnds DEF SessionStep
  <2>2. CASE UNCHANGED <<session, wanted>>
    BY <2>2 DEF session, stream, Stays, Kept, SessionStep
  <2>3. QED BY <1>3, <2>1, <2>2 DEF ParseFails
<1>4. QED BY <1>1, <1>2, <1>3

LEMMA AnySession == ASSUME IInv, [Next]_vars PROVE SessionStep
<1>1. TypeOK /\ Connected /\ Parts /\ Known
  BY DEF IInv, Parts
<1>2. CASE UNCHANGED vars
  BY <1>2 DEF vars, session, stream, Stays, Kept, SessionStep
<1>3. CASE Next
  BY <1>1, <1>3, UserSession, LinkSession, ServeSession DEF Next
<1>4. QED BY <1>2, <1>3

\* KeptRight is kept by each kind, and each is a step of DataStreamer, or none.
LEMMA StreamerStep ==
  ASSUME SessionStep, KeptRight, wanted' \subseteq Topics
  PROVE  KeptRight' /\ [Streamer!ANext]_Streamer!avars
<1> USE DEF KeptRight, SessionOpen, Streamer!ANext, Streamer!avars
<1>1. CASE Stays
  <2>1. KeptRight'
    BY <1>1 DEF Stays
  <2>2. CASE SessionOpen
    BY <1>1, <2>2 DEF Stays, Streamer!Keep
  <2>3. CASE ~SessionOpen
    <3>1. Kept' = Kept
      BY <1>1, <2>3 DEF Stays
    <3>2. QED BY <1>1, <2>1, <3>1 DEF Stays
  <2>4. QED BY <2>1, <2>2, <2>3
<1>2. CASE Ends
  <2>1. CASE SessionOpen
    BY <1>2, <2>1 DEF Ends, Streamer!Close
  <2>2. CASE ~SessionOpen
    BY <1>2, <2>2 DEF Ends
  <2>3. QED BY <2>1, <2>2
<1>3. CASE ~SessionOpen /\ SessionOpen' /\ Kept' \subseteq wanted' /\ wanted' # {}
  <2>1. KeptRight'
    BY <1>3
  <2>2. wanted' \in (SUBSET Topics) \ {{}}
    <3>1. wanted' # {}
      BY <1>3
    <3>2. wanted' \in SUBSET Topics
      OBVIOUS
    <3>3. QED BY ONLY <3>1, <3>2, Zenon
  <2>3. SessionOpen' = TRUE
    BY <1>3
  <2>4. Streamer!Open
    BY <1>3, <2>2, <2>3 DEF Streamer!Open
  <2>5. QED BY <2>1, <2>4
<1>4. CASE ~SessionOpen /\ ~SessionOpen' /\ Kept' = {}
  BY <1>4 DEF Streamer!Choose
<1>5. CASE SessionOpen /\ SessionOpen' /\ wanted' = wanted /\ Kept' \subseteq Kept
  BY <1>5 DEF Streamer!Keep
<1>6. QED BY <1>1, <1>2, <1>3, <1>4, <1>5 DEF SessionStep

\* What is kept was selected for this session.
LEMMA AlwaysKeptRight == Spec => []KeptRight
<1>1. Init => KeptRight
  BY DEF Init, KeptRight, Kept
<1>2. IInv /\ IInv' /\ KeptRight /\ [Next]_vars => KeptRight'
  BY AnySession, StreamerStep DEF IInv, TypeOK
<1>3. QED BY <1>1, <1>2, Invariant, PTL DEF Spec

\* This plugin is a DataStreamer too: a session is open from the subscription to its
\* end, and whoever ends it clears everything in one step (websocket_client.cpp).
THEOREM StreamerRefined == Spec => IsDataStreamer
<1>1. Init => Streamer!AInit
  BY DEF Init, SessionOpen, Kept, Streamer!AInit
<1>2. IInv /\ IInv' /\ KeptRight /\ [Next]_vars => [Streamer!ANext]_Streamer!avars
  BY AnySession, StreamerStep DEF IInv, TypeOK
<1>3. QED BY <1>1, <1>2, Invariant, AlwaysKeptRight, PTL DEF Spec, IsDataStreamer, Streamer!ASpec
=============================================================================
