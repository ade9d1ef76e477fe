------------------------ MODULE MosaicoFetchProofs -------------------------
(***************************************************************************)
(* Theorems about MosaicoFetch for any topics, any number of blocks,       *)
(* downloads, clients and threads, checked by TLAPS.                       *)
(***************************************************************************)
EXTENDS MosaicoFetch, SequenceTheorems, FiniteSetTheorems, TLAPS

-----------------------------------------------------------------------------
\* Type correctness.

\* A request or an event is added at the end.
LEMMA Appended ==
  ASSUME NEW S, NEW s \in Seq(S), NEW e \in S
  PROVE  /\ Append(s, e) \in Seq(S) /\ Len(Append(s, e)) = Len(s) + 1
         /\ \A i \in 1 .. Len(s) : Append(s, e)[i] = s[i]
         /\ Append(s, e)[Len(s) + 1] = e
  BY AppendProperties

\* The oldest one is taken.
LEMMA Taken ==
  ASSUME NEW S, NEW s \in Seq(S), s # << >>
  PROVE  /\ Tail(s) \in Seq(S) /\ Len(s) >= 1 /\ Len(Tail(s)) = Len(s) - 1
         /\ Head(s) = s[1] /\ Head(s) \in S
         /\ \A i \in 1 .. (Len(s) - 1) : Tail(s)[i] = s[i + 1]
  BY HeadTailProperties, LenProperties, ElementOfSeq

\* Requests and events have their types.
LEMMA Posted ==
  /\ \A op \in {"client", "sequences", "topics"} : [op |-> op, topics |-> {}] \in Requests
  /\ \A S \in SUBSET Topics : [op |-> "pull", topics |-> S] \in Requests
  /\ \A ev \in {"list", "sequences", "topics", "error"} : Event(ev, NoTopic, 0) \in Events
  /\ \A ev \in TopicEvents, t \in Topics, n \in Nat : Event(ev, t, n) \in Events
  /\ \A e \in Events : /\ e.topic = NoTopic => e.ev \notin TopicEvents
                       /\ e.ev \in TopicEvents => e.topic \in Topics
                       /\ e.number \in Nat
  BY MosaicoAssumption DEF Requests, Events, Event, TopicEvents

\* A queue that gets one more or loses its oldest keeps its type.
LEMMA QueueType ==
  ASSUME NEW S, NEW s \in Seq(S)
  PROVE  /\ \A e \in S : Append(s, e) \in Seq(S)
         /\ s # << >> => Tail(s) \in Seq(S) /\ Head(s) \in S
<1>1. \A e \in S : Append(s, e) \in Seq(S)
  BY Appended
<1>2. s # << >> => Tail(s) \in Seq(S) /\ Head(s) \in S
  BY Taken
<1>3. QED BY <1>1, <1>2

\* A click or a thread adds to the queues what they are for.
LEMMA RequestType ==
  ASSUME requests \in Seq(Requests)
  PROVE  /\ \A op \in {"client", "sequences", "topics"} :
              Request(op) => requests' \in Seq(Requests)
         /\ \A S \in SUBSET Topics :
              Append(requests, [op |-> "pull", topics |-> S]) \in Seq(Requests)
<1>1. \A e \in Requests : Append(requests, e) \in Seq(Requests)
  BY QueueType
<1>2. QED BY <1>1, Posted DEF Request

LEMMA EventType ==
  ASSUME events \in Seq(Events)
  PROVE  /\ \A ev \in {"list", "sequences", "topics", "error"} :
              Post(ev) => events' \in Seq(Events)
         /\ \A ev \in TopicEvents, t \in Topics, n \in Nat :
              Append(events, Event(ev, t, n)) \in Seq(Events)
<1>1. \A e \in Events : Append(events, e) \in Seq(Events)
  BY QueueType
<1>2. QED BY <1>1, Posted DEF Post

\* The window starts with values of its types.
LEMMA InitType == Init => TypeOK
<1> SUFFICES ASSUME Init PROVE TypeOK
  OBVIOUS
<1>1. requests \in Seq(Requests) /\ events \in Seq(Events)
  BY EmptySeq DEF Init
<1>2. staged \subseteq Blocks /\ plotted \in [Topics -> SUBSET Blocks]
  BY DEF Init
<1>3. QED BY <1>1, <1>2 DEF Init, TypeOK, Waits, Widgets

\* Clicks keep the types.
LEMMA ClickType == ASSUME TypeOK, Click PROVE TypeOK'
<1> USE DEF TypeOK, window, fetch, toolbox, thread, pulls, inputs, history, Waits, Widgets
<1>1. requests \in Seq(Requests)
  OBVIOUS
<1>2. CASE ConnectClicked
  BY <1>1, <1>2, RequestType DEF ConnectClicked
<1>3. CASE RefreshClicked
  BY <1>1, <1>3, RequestType DEF RefreshClicked
<1>4. CASE SequenceSelected
  BY <1>1, <1>4, RequestType DEF SequenceSelected
<1>5. CASE TopicsSelected
  BY <1>5 DEF TopicsSelected
<1>6. CASE CancelClicked
  BY <1>6 DEF CancelClicked
<1>7. CASE FetchClicked
  <2>1. Cardinality(selected) \in Nat
    BY MosaicoAssumption, FS_Subset, FS_CardinalityType
  <2>2. requests' \in Seq(Requests)
    <3>1. requests' = Append(requests, [op |-> "pull", topics |-> selected])
      BY <1>7 DEF FetchClicked
    <3>2. QED BY <1>1, <3>1, RequestType
  <2>3. on' \subseteq Widgets /\ pending' \in Nat /\ download' \in Nat
    BY <1>7, <2>1 DEF FetchClicked
  <2>4. asked' = selected /\ completed' = {} /\ outcome' = "none" /\ context' = "Fetch"
        /\ cancelling' = FALSE /\ flag' = FALSE
        /\ gone' = {}
        /\ UNCHANGED <<gui, rows, attempted, client, selected, toolbox, worker, taken, pulled,
                       pulls, events, lists, untimed, mixed>>
    BY <1>7 DEF FetchClicked
  <2>5. QED BY <2>2, <2>3, <2>4
<1>8. QED BY <1>2, <1>3, <1>4, <1>5, <1>6, <1>7 DEF Click

\* The worker and its threads keep the types.
LEMMA ThreadType == ASSUME TypeOK, Work \/ Pull \/ ClientHandedOver PROVE TypeOK'
<1> USE DEF TypeOK, window, fetch, toolbox, thread, pulls, inputs, history, Waits, Widgets
<1>1. requests \in Seq(Requests) /\ events \in Seq(Events)
  OBVIOUS
<1>2. CASE Take
  <2>1. requests' \in Seq(Requests) /\ Head(requests) \in Requests
    BY <1>2, QueueType DEF Take
  <2>2. CASE Head(requests).op = "client"
    BY <1>2, <2>1, <2>2 DEF Take
  <2>3. CASE Head(requests).op = "pull"
    BY <1>2, <2>1, <2>3 DEF Take
  <2>4. CASE Head(requests).op \notin {"client", "pull"}
    BY <1>2, <2>1, <2>4 DEF Take, Requests
  <2>5. QED BY <2>2, <2>3, <2>4
<1>3. CASE Listed
  BY <1>1, <1>3, EventType DEF Listed
<1>4. CASE Answered
  BY <1>1, <1>4, EventType DEF Answered
<1>5. CASE PullEnds
  BY <1>5 DEF PullEnds
<1>6. CASE ClientHandedOver
  BY <1>1, <1>6, RequestType DEF ClientHandedOver
<1>7. ASSUME NEW t \in Topics, Pick(t) PROVE TypeOK'
  BY <1>7 DEF Pick
<1>8. ASSUME NEW t \in Topics, PullStep(t) PROVE TypeOK'
  <2>1. ASSUME NEW ev \in TopicEvents, Deliver(t, ev)
        PROVE  events' \in Seq(Events) /\ pull' \in [Topics -> {"none", "ready", "drain", "open",
                 "reading", "waiting", "reported"}] /\ sent' \in [Topics -> Nat]
    BY <1>1, <2>1, EventType DEF Deliver
  <2>2. ASSUME NEW ev \in TopicEvents, Report(t, ev)
        PROVE  events' \in Seq(Events) /\ pull' \in [Topics -> {"none", "ready", "drain", "open",
                 "reading", "waiting", "reported"}] /\ sent' \in [Topics -> Nat]
    BY <1>1, <2>2, EventType DEF Report
  <2>3. "schema" \in TopicEvents /\ "block" \in TopicEvents /\ "finished" \in TopicEvents
        /\ "failed" \in TopicEvents
    BY DEF TopicEvents
  <2>4. /\ events' \in Seq(Events) /\ sent' \in [Topics -> Nat]
        /\ pull' \in [Topics -> {"none", "ready", "drain", "open", "reading", "waiting", "reported"}]
    BY <1>8, <2>1, <2>2, <2>3 DEF PullStep
  <2>5. QED BY <1>8, <2>4 DEF PullStep
<1>9. QED BY <1>2, <1>3, <1>4, <1>5, <1>6, <1>7, <1>8 DEF Work, Pull

\* Topics as events name them.
LEMMA HeadType ==
  ASSUME TypeOK, events # << >>
  PROVE  /\ Tail(events) \in Seq(Events) /\ Head(events) \in Events
         /\ Head(events).ev \in TopicEvents => Head(events).topic \in Topics
         /\ Head(events).number \in Nat
<1>1. Tail(events) \in Seq(Events) /\ Head(events) \in Events
  BY QueueType DEF TypeOK
<1>2. QED BY <1>1, Posted

\* The end of a topic, and that of the download, keep the types.
LEMMA FinishType ==
  ASSUME TypeOK, NEW t \in Topics \cup {NoTopic}, NEW left \in SUBSET Topics, FinishTopic(t, left)
  PROVE  /\ on' \subseteq Widgets /\ context' \in {"None", "Connect", "Fetch"}
         /\ selected' \subseteq Topics /\ pending' \in Nat /\ completed' \subseteq Topics
         /\ cancelling' \in BOOLEAN /\ imports' \subseteq Topics /\ staged' \subseteq Blocks
         /\ plotted' \in [Topics -> SUBSET Blocks] /\ flag' \in BOOLEAN
         /\ outcome' \in {"none", "imported", "discarded"}
<1> USE DEF TypeOK, Widgets, FinishTopic, fetch
<1>1. Imported \in [Topics -> SUBSET Blocks]
  BY DEF Imported
<1>2. pending > 0 => pending - 1 \in Nat
  OBVIOUS
<1>3. CASE t \in completed
  BY <1>3
<1>4. CASE t \notin completed
  <2>1. pending' \in Nat /\ completed' \subseteq Topics /\ selected' \subseteq Topics
    BY <1>2, <1>4
  <2>2. CASE FinishBatch(left)
    <3>1. on' \subseteq Widgets
      BY <2>2 DEF FinishBatch
    <3>2. QED BY <1>1, <2>1, <2>2, <3>1 DEF FinishBatch
  <2>3. CASE ~FinishBatch(left)
    BY <1>4, <2>1, <2>3
  <2>4. QED BY <2>2, <2>3
<1>5. QED BY <1>3, <1>4

\* So does a block, staged or given up.
LEMMA BlockType ==
  ASSUME TypeOK, BlockServed
  PROVE  /\ plotted' \in [Topics -> SUBSET Blocks] /\ imports' \subseteq Topics
         /\ staged' \subseteq Blocks /\ gone' \subseteq Blocks
<1> DEFINE t == Head(events).topic
           b == <<t, pulled, Head(events).number>>
<1>1. t \in Topics /\ Head(events).number \in Nat
  BY HeadType DEF BlockServed, Serving, TopicEvents
<1>2. b \in Blocks
  BY <1>1 DEF Blocks, TypeOK
<1>3. Emptied(t) \in [Topics -> SUBSET Blocks]
  BY DEF Emptied, TypeOK
<1>4. CASE cancelling
  BY <1>4 DEF BlockServed, TypeOK, toolbox
<1>5. CASE ~cancelling
  <2>1. AppendBlock(t, b)
    BY <1>5 DEF BlockServed
  <2>2. /\ plotted' \in {plotted, Emptied(t)} /\ imports' \in {imports, imports \union {t}}
        /\ staged' \in {staged, staged \union {b}} /\ gone' \in {{}, gone, gone \union {b}}
    BY <2>1 DEF AppendBlock, BeginImport, GivenUp, toolbox
  <2>3. QED BY <1>1, <1>2, <1>3, <2>2 DEF TypeOK
<1>6. QED BY <1>4, <1>5

\* Serving an event keeps the types.
LEMMA ServeType == ASSUME TypeOK, Serve PROVE TypeOK'
<1> USE DEF TypeOK, window, fetch, toolbox, thread, pulls, inputs, history, Waits, Widgets
<1>1. requests \in Seq(Requests) /\ events \in Seq(Events)
  OBVIOUS
<1>2. events' \in Seq(Events)
  BY HeadType DEF Serve, ListServed, SequencesServed, TopicsServed, SchemaServed, BlockServed,
     TopicServed, ErrorServed, Serving
<1>3. CASE ListServed
  BY <1>2, <1>3 DEF ListServed
<1>4. CASE SequencesServed
  BY <1>2, <1>4 DEF SequencesServed
<1>5. CASE TopicsServed
  BY <1>2, <1>5 DEF TopicsServed
<1>6. \A t \in Topics : Emptied(t) \in [Topics -> SUBSET Blocks]
  BY DEF Emptied
<1>7. CASE SchemaServed
  <2>1. Head(events).topic \in Topics
    BY <1>7, HeadType DEF SchemaServed, Serving, TopicEvents
  <2>2. plotted' \in [Topics -> SUBSET Blocks] /\ imports' \subseteq Topics
    BY <1>6, <1>7, <2>1 DEF SchemaServed, BeginImport
  <2>3. QED BY <1>2, <1>7, <2>1, <2>2 DEF SchemaServed, Released
<1>8. CASE BlockServed
  <2>1. Head(events).topic \in Topics
    BY <1>8, HeadType DEF BlockServed, Serving, TopicEvents
  <2>2. /\ plotted' \in [Topics -> SUBSET Blocks] /\ imports' \subseteq Topics
        /\ staged' \subseteq Blocks /\ gone' \subseteq Blocks
    BY <1>8, BlockType
  <2>3. QED BY <1>2, <1>8, <2>1, <2>2 DEF BlockServed, Released
<1>9. CASE TopicServed
  <2>1. Head(events).topic \in Topics
    BY <1>9, HeadType DEF TopicServed, Serving, TopicEvents
  <2>2. PICK left \in SUBSET Topics : FinishTopic(Head(events).topic, left)
    BY <1>9 DEF TopicServed
  <2>3. QED BY <1>2, <1>9, <2>1, <2>2, FinishType DEF TopicServed
<1>10. CASE ErrorServed
  <2>1. Imported \in [Topics -> SUBSET Blocks] /\ (pending > 0 => pending - 1 \in Nat)
    BY DEF Imported
  <2>2. CASE FinishBatch(imports)
    <3>1. on' \subseteq Widgets
      BY <2>2 DEF FinishBatch
    <3>2. requests' = requests \/ Request("client")
      BY <1>10 DEF ErrorServed
    <3>3. requests' \in Seq(Requests)
      BY <1>1, <3>2, RequestType
    <3>4. /\ gui' \in {"idle"} \union Waits /\ attempted' \in BOOLEAN /\ mixed' \in BOOLEAN
          /\ gone' \subseteq Blocks
          /\ pending' \in Nat /\ completed' \subseteq Topics
          /\ selected' \subseteq Topics /\ UNCHANGED <<rows, client, worker, taken, pulled, pulls, inputs, asked>>
      <4>1. CASE context = "Fetch"
        BY <1>10, <2>1, <4>1 DEF ErrorServed
      <4>2. CASE context # "Fetch"
        BY <1>10, <4>2 DEF ErrorServed
      <4>3. QED BY <4>1, <4>2
    <3>5. QED BY <1>2, <2>1, <2>2, <3>1, <3>3, <3>4 DEF FinishBatch
  <2>3. CASE ~FinishBatch(imports)
    BY <1>1, <1>2, <1>10, <2>1, <2>3, RequestType DEF ErrorServed
  <2>4. QED BY <2>2, <2>3
<1>11. QED BY <1>3, <1>4, <1>5, <1>7, <1>8, <1>9, <1>10 DEF Serve

\* Types are kept by every step.
LEMMA TypeStep == ASSUME TypeOK, [Next]_vars PROVE TypeOK'
<1>1. CASE UNCHANGED vars
  BY <1>1 DEF vars, window, fetch, toolbox, thread, pulls, inputs, history, TypeOK
<1>2. CASE Next
  BY <1>2, ClickType, ThreadType, ServeType DEF Next
<1>3. QED BY <1>1, <1>2

\* Every variable keeps its type, whatever the server and the user do.
THEOREM TypeCorrect == Spec => []TypeOK
<1>1. Init => TypeOK
  BY InitType
<1>2. TypeOK /\ [Next]_vars => TypeOK'
  BY TypeStep
<1>3. QED BY <1>1, <1>2, PTL DEF Spec

-----------------------------------------------------------------------------
\* Steps that are about no topic.

SafeParts == OneQueued /\ OnePlace /\ Counted /\ LastSent /\ EmptiedFirst /\ Shown

\* The queue of the worker gets or loses nothing, or a request that is no
\* download.
QueueQuiet ==
  \/ requests' = requests
  \/ requests # << >> /\ Head(requests).op # "pull" /\ requests' = Tail(requests)
  \/ \E r \in Requests : r.op # "pull" /\ r.topics = {} /\ requests' = Append(requests, r)

\* Nothing is posted or served, or an event about no topic is.
EventsQuiet ==
  \/ events' = events
  \/ \E e \in Events : e.topic = NoTopic /\ events' = Append(events, e)
  \/ events # << >> /\ Head(events).topic = NoTopic /\ events' = Tail(events)

SameDownload ==
  /\ (context' = "Fetch") <=> (context = "Fetch")
  /\ UNCHANGED <<asked, gone, completed, download, untimed, pulled>>

\* Another request leaves the download where it is.
LEMMA QueuedKept ==
  ASSUME TypeOK, SameDownload, QueueQuiet
  PROVE  (PullQueued' <=> PullQueued) /\ (OneQueued => OneQueued') /\ Due' = Due
<1> USE DEF SameDownload
<1>1. PullQueued' <=> PullQueued
  <2>1. CASE requests' = requests
    BY <2>1 DEF PullQueued
  <2>2. ASSUME NEW r \in Requests, r.op # "pull", requests' = Append(requests, r)
        PROVE  PullQueued' <=> PullQueued
    <3>1. /\ Len(requests') = Len(requests) + 1 /\ requests'[Len(requests) + 1] = r
          /\ \A i \in 1 .. Len(requests) : requests'[i] = requests[i]
          /\ Len(requests) \in Nat
      BY <2>2, Appended, LenProperties DEF TypeOK
    <3>2. QED BY <2>2, <3>1 DEF PullQueued
  <2>3. CASE requests # << >> /\ Head(requests).op # "pull" /\ requests' = Tail(requests)
    <3>1. /\ Len(requests) \in Nat /\ Len(requests) >= 1 /\ Len(requests') = Len(requests) - 1
          /\ requests[1].op # "pull"
          /\ \A i \in 1 .. (Len(requests) - 1) : requests'[i] = requests[i + 1]
      BY <2>3, Taken, LenProperties DEF TypeOK
    <3>2. \A i \in 1 .. Len(requests) : requests[i].op = "pull" =>
            i - 1 \in 1 .. Len(requests') /\ requests'[i - 1] = requests[i]
      BY <3>1
    <3>3. \A i \in 1 .. Len(requests') : i + 1 \in 1 .. Len(requests) /\ requests'[i] = requests[i + 1]
      BY <3>1
    <3>4. QED BY <3>2, <3>3 DEF PullQueued
  <2>4. QED BY <2>1, <2>2, <2>3 DEF QueueQuiet
<1>2. OneQueued => OneQueued'
  <2>1. CASE requests' = requests
    BY <1>1, <2>1 DEF OneQueued
  <2>2. ASSUME NEW r \in Requests, r.op # "pull", r.topics = {}, requests' = Append(requests, r),
               OneQueued
        PROVE  OneQueued'
    <3>1. /\ Len(requests') = Len(requests) + 1 /\ requests'[Len(requests) + 1] = r
          /\ \A i \in 1 .. Len(requests) : requests'[i] = requests[i]
          /\ Len(requests) \in Nat
      BY <2>2, Appended, LenProperties DEF TypeOK
    <3>2. \A i \in 1 .. Len(requests') :
            i \in 1 .. Len(requests) \/ (i = Len(requests) + 1 /\ requests'[i] = r)
      BY <3>1
    <3>3. QED BY <1>1, <2>2, <3>1, <3>2 DEF OneQueued
  <2>3. ASSUME requests # << >>, Head(requests).op # "pull", requests' = Tail(requests), OneQueued
        PROVE  OneQueued'
    <3>1. /\ Len(requests) \in Nat /\ Len(requests) >= 1 /\ Len(requests') = Len(requests) - 1
          /\ \A i \in 1 .. (Len(requests) - 1) : requests'[i] = requests[i + 1]
      BY <2>3, Taken, LenProperties DEF TypeOK
    <3>2. \A i \in 1 .. Len(requests') : i + 1 \in 1 .. Len(requests) /\ requests'[i] = requests[i + 1]
      BY <3>1
    <3>3. QED BY <1>1, <2>3, <3>1, <3>2 DEF OneQueued
  <2>4. QED BY <2>1, <2>2, <2>3 DEF QueueQuiet
<1>3. QED BY <1>1, <1>2 DEF Due

\* What the queue of events says of topics stays the same.
LEMMA SameAbout ==
  ASSUME TypeOK, EventsQuiet
  PROVE  /\ \A i \in 1 .. Len(events) : events[i].topic # NoTopic =>
              \E j \in 1 .. Len(events') : events'[j] = events[i]
         /\ \A j \in 1 .. Len(events') : events'[j].topic # NoTopic =>
              \E i \in 1 .. Len(events) : events'[j] = events[i]
         /\ (\A i, j \in 1 .. Len(events) :
                events[i].topic = events[j].topic /\ events[i].topic # NoTopic => i = j)
            => \A i, j \in 1 .. Len(events') :
                 events'[i].topic = events'[j].topic /\ events'[i].topic # NoTopic => i = j
<1>1. CASE events' = events
  BY <1>1
<1>2. ASSUME NEW e \in Events, e.topic = NoTopic, events' = Append(events, e)
      PROVE  \A j \in 1 .. Len(events') :
               \/ events'[j].topic = NoTopic
               \/ j \in 1 .. Len(events) /\ events'[j] = events[j]
  <2>1. /\ Len(events') = Len(events) + 1 /\ events'[Len(events) + 1] = e
        /\ \A i \in 1 .. Len(events) : events'[i] = events[i]
        /\ Len(events) \in Nat
    BY <1>2, Appended, LenProperties DEF TypeOK
  <2>2. QED BY <1>2, <2>1
<1>3. ASSUME NEW e \in Events, e.topic = NoTopic, events' = Append(events, e)
      PROVE  Len(events) \in Nat /\ Len(events') = Len(events) + 1
             /\ \A i \in 1 .. Len(events) : events'[i] = events[i]
  BY <1>3, Appended, LenProperties DEF TypeOK
<1>4. CASE events # << >> /\ Head(events).topic = NoTopic /\ events' = Tail(events)
  <2>1. /\ Len(events) \in Nat /\ Len(events) >= 1 /\ Len(events') = Len(events) - 1
        /\ events[1].topic = NoTopic
        /\ \A i \in 1 .. (Len(events) - 1) : events'[i] = events[i + 1]
    BY <1>4, Taken, LenProperties DEF TypeOK
  <2>2. \A i \in 1 .. Len(events) : events[i].topic # NoTopic =>
          i - 1 \in 1 .. Len(events') /\ events'[i - 1] = events[i]
    BY <2>1
  <2>3. \A j \in 1 .. Len(events') : j + 1 \in 1 .. Len(events) /\ events'[j] = events[j + 1]
    BY <2>1
  <2>4. QED BY <2>1, <2>2, <2>3
<1>5. CASE \E e \in Events : e.topic = NoTopic /\ events' = Append(events, e)
  BY <1>2, <1>3, <1>5
<1>6. QED BY <1>1, <1>4, <1>5 DEF EventsQuiet

\* So the places of the topics do.
LEMMA PlacesKept ==
  ASSUME TypeOK, Due' = Due, UNCHANGED <<pull, sent>>, EventsQuiet
  PROVE  /\ OnePlace => OnePlace' /\ (LastSent => LastSent')
         /\ \A t \in Topics : Begun(t)' => Begun(t)
         /\ UNCHANGED <<staged, gone, download>> => \A t \in Topics : \A k \in Nat : Kept(t, k) => Kept(t, k)'
<1>1. \A i \in 1 .. Len(events) : events[i] \in Events
  BY ElementOfSeq DEF TypeOK
<1>2. /\ \A i \in 1 .. Len(events) : events[i].ev \in TopicEvents => events[i].topic # NoTopic
      /\ NoTopic \notin Topics
  BY <1>1, Posted, MosaicoAssumption
<1>3. ASSUME OnePlace PROVE OnePlace'
  <2>1. /\ \A t \in Topics \ Due' : pull'[t] \in {"none", "reported"}
        /\ \A t \in Due' : pull'[t] # "none"
    BY <1>3 DEF OnePlace
  <2>2. \A t \in Due' : pull'[t] \in {"waiting", "reported"} =>
          \E i \in 1 .. Len(events') : events'[i].topic = t
    <3>1. Due \subseteq Topics
      BY DEF Due, TypeOK
    <3>2. QED BY <1>2, <1>3, <3>1, SameAbout DEF OnePlace
  <2>3. \A i \in 1 .. Len(events') : events'[i].topic # NoTopic =>
          /\ events'[i].topic \in Due'
          /\ pull'[events'[i].topic] =
               IF events'[i].ev \in {"schema", "block"} THEN "waiting" ELSE "reported"
    BY <1>3, SameAbout DEF OnePlace
  <2>4. \A i, j \in 1 .. Len(events') :
          events'[i].topic = events'[j].topic /\ events'[i].topic # NoTopic => i = j
    BY <1>3, SameAbout DEF OnePlace
  <2>5. QED BY <2>1, <2>2, <2>3, <2>4 DEF OnePlace
<1>4. events' \in Seq(Events)
  <2>1. \A e \in Events : Append(events, e) \in Seq(Events)
    BY QueueType DEF TypeOK
  <2>2. events # << >> => Tail(events) \in Seq(Events)
    BY QueueType DEF TypeOK
  <2>3. events \in Seq(Events)
    BY DEF TypeOK
  <2>4. QED BY <2>1, <2>2, <2>3 DEF EventsQuiet
<1>5. \A i \in 1 .. Len(events') : events'[i].ev \in TopicEvents => events'[i].topic # NoTopic
  BY <1>2, <1>4, ElementOfSeq, Posted
<1>6. LastSent => LastSent'
  BY <1>5, SameAbout DEF LastSent, TopicEvents
<1>7. \A t \in Topics : Begun(t)' => Begun(t)
  BY <1>2, SameAbout DEF Begun, TopicEvents
<1>8. UNCHANGED <<staged, gone, download>> => \A t \in Topics : \A k \in Nat : Kept(t, k) => Kept(t, k)'
  BY <1>2, SameAbout DEF Kept, TopicEvents
<1>9. QED BY <1>3, <1>6, <1>7, <1>8

\* A step that is about no topic keeps every part of the invariant.
LEMMA QuietStep ==
  ASSUME TypeOK, TypeOK', SafeParts, SameDownload, QueueQuiet, EventsQuiet,
         UNCHANGED <<pending, staged, plotted, pull, sent, outcome>>, cancelling => cancelling'
  PROVE  SafeParts'
<1>1. (PullQueued' <=> PullQueued) /\ OneQueued' /\ Due' = Due
  BY QueuedKept DEF SafeParts
<1>2. OnePlace' /\ LastSent' /\ \A t \in Topics : Begun(t)' => Begun(t)
  BY <1>1, PlacesKept DEF SafeParts
<1>3. \A t \in Topics : \A k \in Nat : Kept(t, k) => Kept(t, k)'
  BY <1>1, PlacesKept DEF SameDownload
<1>4. Counted'
  BY DEF SafeParts, Counted, SameDownload
<1>5. EmptiedFirst'
  <2>1. asked' = asked /\ asked \subseteq Topics /\ sent \in [Topics -> Nat]
    BY DEF SameDownload, TypeOK
  <2>2. context' = "Fetch" /\ ~PullQueued' /\ ~cancelling' =>
          \A t \in asked' : /\ Begun(t)' /\ t \notin untimed' => plotted'[t] = {}
                           /\ \A k \in 1 .. (sent'[t] - 1) : Kept(t, k)'
    BY <1>1, <1>2, <1>3, <2>1 DEF SafeParts, EmptiedFirst, SameDownload
  <2>3. QED BY <1>1, <2>2 DEF SafeParts, EmptiedFirst, SameDownload
<1>6. Shown'
  BY DEF SafeParts, Shown, SameDownload
<1>7. QED BY <1>1, <1>2, <1>4, <1>5, <1>6 DEF SafeParts

\* Clicks that start no download leave it alone.
LEMMA ClickQuiet ==
  ASSUME TypeOK, TypeOK', SafeParts, gui = "connect" => context = "None",
         \/ ConnectClicked \/ ClientHandedOver \/ RefreshClicked
         \/ SequenceSelected \/ TopicsSelected \/ CancelClicked
  PROVE  SafeParts'
<1> USE DEF SameDownload, QueueQuiet, EventsQuiet, window, fetch, toolbox, thread, pulls, inputs, history
<1>1. \A op \in {"client", "sequences", "topics"} : Request(op) => QueueQuiet
  BY Posted DEF Request
<1>2. CASE ConnectClicked
  BY <1>1, <1>2, QuietStep DEF ConnectClicked
<1>3. CASE ClientHandedOver
  BY <1>1, <1>3, QuietStep DEF ClientHandedOver
<1>4. CASE RefreshClicked
  BY <1>1, <1>4, QuietStep DEF RefreshClicked
<1>5. CASE SequenceSelected
  BY <1>1, <1>5, QuietStep DEF SequenceSelected
<1>6. CASE TopicsSelected
  BY <1>6, QuietStep DEF TopicsSelected
<1>7. CASE CancelClicked
  BY <1>7, QuietStep DEF CancelClicked
<1>8. QED BY <1>2, <1>3, <1>4, <1>5, <1>6, <1>7

\* So do the answers to other requests that are not mixed with a download.
LEMMA AnswerQuiet ==
  ASSUME TypeOK, TypeOK', SafeParts, ~mixed, ~mixed',
         \/ Listed \/ Answered \/ PullEnds
         \/ ListServed \/ SequencesServed \/ TopicsServed \/ ErrorServed
  PROVE  SafeParts'
<1> USE DEF SameDownload, QueueQuiet, EventsQuiet, window, fetch, toolbox, thread, pulls, inputs, history
<1>1. \A op \in {"client", "sequences", "topics"} : Request(op) => QueueQuiet
  BY Posted DEF Request
<1>2. \A ev \in {"list", "sequences", "topics", "error"} : Post(ev) => EventsQuiet
  BY Posted DEF Post, Event
<1>3. \A ev \in {"list", "sequences", "topics", "error"} :
        Serving(ev) => events # << >> /\ Head(events).topic = NoTopic /\ events' = Tail(events)
  <2>1. events # << >> => Head(events) \in Events
    BY HeadType
  <2>2. \A e \in Events : e.ev \in {"list", "sequences", "topics", "error"} => e.topic = NoTopic
    BY DEF Events, TopicEvents
  <2>3. QED BY <2>1, <2>2 DEF Serving
<1>4. CASE Listed
  BY <1>2, <1>4, QuietStep DEF Listed
<1>5. CASE Answered
  BY <1>2, <1>5, QuietStep DEF Answered
<1>6. CASE PullEnds
  BY <1>6, QuietStep DEF PullEnds
<1>7. CASE ListServed
  BY <1>3, <1>7, QuietStep DEF ListServed
<1>8. CASE SequencesServed
  BY <1>3, <1>8, QuietStep DEF SequencesServed
<1>9. CASE TopicsServed
  BY <1>3, <1>9, QuietStep DEF TopicsServed
<1>10. CASE ErrorServed
  <2>1. context # "Fetch"
    BY <1>10 DEF ErrorServed
  <2>2. ~Serving("failed")
    <3>1. Due = {}
      BY <2>1 DEF Due
    <3>2. events # << >> => Len(events) \in Nat /\ Len(events) >= 1 /\ Head(events) = events[1]
      BY Taken, LenProperties DEF TypeOK
    <3>3. events # << >> => Head(events).topic = NoTopic
      BY <3>1, <3>2 DEF SafeParts, OnePlace
    <3>4. events # << >> /\ Head(events).ev = "failed" => Head(events).topic \in Topics
      BY HeadType DEF TopicEvents
    <3>5. QED BY <3>3, <3>4, MosaicoAssumption DEF Serving
  <2>3. EventsQuiet
    BY <1>3, <1>10, <2>2 DEF ErrorServed
  <2>4. context' # "Fetch"
    BY <1>10, <2>1 DEF ErrorServed
  <2>5. /\ UNCHANGED <<fetch, toolbox, outcome, asked, gone, pulls, pulled, download, untimed>>
        /\ requests' = requests \/ Request("client")
    BY <1>10, <2>1 DEF ErrorServed
  <2>6. QED BY <1>1, <2>1, <2>3, <2>4, <2>5, QuietStep
<1>11. QED BY <1>4, <1>5, <1>6, <1>7, <1>8, <1>9, <1>10


-----------------------------------------------------------------------------
\* The steps of a download.

\* It begins with nothing due and nothing staged.
LEMMA FetchStep ==
  ASSUME TypeOK, TypeOK', SafeParts, FetchClicked
  PROVE  SafeParts'
<1> USE DEF FetchClicked, SafeParts
<1>1. ~PullQueued /\ download = pulled /\ Due = {} /\ staged = {}
  BY DEF OneQueued, EmptiedFirst, Due
<1>2. /\ Len(requests) \in Nat /\ Len(requests') = Len(requests) + 1
      /\ \A i \in 1 .. Len(requests) : requests'[i] = requests[i]
      /\ requests'[Len(requests) + 1] = [op |-> "pull", topics |-> selected]
  <2>1. [op |-> "pull", topics |-> selected] \in Requests
    BY Posted DEF TypeOK
  <2>2. QED BY <2>1, Appended, LenProperties DEF TypeOK
<1>3. PullQueued'
  BY <1>2 DEF PullQueued
<1>4. OneQueued'
  <2>1. \A i \in 1 .. Len(requests') :
          \/ i \in 1 .. Len(requests) /\ requests'[i] = requests[i] /\ requests[i].op # "pull"
          \/ i = Len(requests) + 1
    BY <1>1, <1>2 DEF PullQueued
  <2>2. download' = pulled' + 1 /\ completed' = {} /\ context' = "Fetch" /\ asked' = selected
    BY <1>1
  <2>3. \A i \in 1 .. Len(requests') :
          requests'[i].topics = IF requests'[i].op = "pull" THEN asked' ELSE {}
    BY <1>2, <2>1, <2>2 DEF OneQueued
  <2>4. QED BY <1>2, <1>3, <2>1, <2>2, <2>3 DEF OneQueued
<1>5. Due' = {}
  BY <1>3 DEF Due
<1>6. OnePlace' /\ LastSent'
  BY <1>1, <1>5 DEF OnePlace, LastSent, pulls
<1>7. Counted'
  <2>1. IsFiniteSet(selected) /\ selected # {} /\ selected \ {} = selected
    BY MosaicoAssumption, FS_Subset DEF TypeOK
  <2>2. Cardinality(selected) \in Nat /\ Cardinality(selected) # 0
    BY <2>1, FS_CardinalityType, FS_EmptySet
  <2>3. QED BY <2>1, <2>2 DEF Counted
<1>8. EmptiedFirst'
  <2>1. \A t \in Topics : plotted[t] \subseteq Blocks
    BY DEF TypeOK
  <2>2. \A t \in Topics : \A x \in plotted[t] : x[2] \in Nat /\ x[2] < download + 1
    BY <2>1 DEF EmptiedFirst, Blocks, TypeOK
  <2>3. QED BY <1>1, <1>3, <2>2 DEF EmptiedFirst, toolbox, TypeOK
<1>9. Shown'
  BY DEF Shown
<1>10. QED BY <1>4, <1>6, <1>7, <1>8, <1>9

\* The worker takes the download, or drains one that is cancelled.
LEMMA TakeStep ==
  ASSUME TypeOK, TypeOK', SafeParts, Take
  PROVE  SafeParts'
<1> USE DEF SafeParts
<1>1. /\ Len(requests) \in Nat /\ Len(requests) >= 1 /\ Len(requests') = Len(requests) - 1
      /\ Head(requests) = requests[1] /\ requests' = Tail(requests)
      /\ \A i \in 1 .. (Len(requests) - 1) : requests'[i] = requests[i + 1]
  BY Taken, LenProperties DEF TypeOK, Take
<1>2. CASE Head(requests).op # "pull"
  <2>1. QueueQuiet
    BY <1>2 DEF QueueQuiet, Take
  <2>2. SameDownload /\ EventsQuiet /\ UNCHANGED <<pending, staged, plotted, pull, sent, outcome, cancelling>>
    BY <1>2 DEF Take, SameDownload, EventsQuiet, window, fetch, toolbox, inputs, history, pulls
  <2>3. QED BY <2>1, <2>2, QuietStep
<1>3. CASE Head(requests).op = "pull"
  <2>1. /\ pull' = [t \in Topics |-> IF t \notin Head(requests).topics THEN "none"
                                   ELSE IF flag THEN "drain" ELSE "ready"]
        /\ sent' = [t \in Topics |-> 0] /\ pulled' = pulled + 1
        /\ UNCHANGED <<context, completed, pending, cancelling, staged, plotted, events, download,
                       untimed, asked, gone, outcome>>
    BY <1>3 DEF Take, window, fetch, toolbox, inputs, history
  <2>2. PullQueued /\ context = "Fetch" /\ completed = {} /\ download = pulled + 1
        /\ Head(requests).topics = asked /\ Due = {}
    BY <1>1, <1>3 DEF OneQueued, PullQueued, Due
  <2>3. \A i \in 1 .. Len(requests') : requests'[i].op # "pull"
    BY <1>1, <1>3 DEF OneQueued
  <2>4. ~PullQueued' /\ Due' = asked
    BY <2>1, <2>2, <2>3 DEF PullQueued, Due
  <2>5. OneQueued'
    BY <1>1, <2>1, <2>2, <2>3, <2>4 DEF OneQueued, TypeOK
  <2>6. \A i \in 1 .. Len(events) : events[i].topic = NoTopic
    BY <2>2 DEF OnePlace
  <2>7. \A i \in 1 .. Len(events) : events[i].ev \notin TopicEvents
    BY <2>6, ElementOfSeq, Posted, MosaicoAssumption DEF TypeOK
  <2>8. OnePlace' /\ LastSent'
    <3>1. asked \subseteq Topics
      BY DEF TypeOK
    <3>2. \A t \in Topics : pull'[t] # "reading"
      BY <2>1
    <3>3. QED BY <2>1, <2>2, <2>4, <2>6, <2>7, <3>1, <3>2 DEF OnePlace, LastSent, TopicEvents
  <2>9. Counted' /\ Shown'
    BY <2>1, <2>2 DEF Counted, Shown
  <2>10. EmptiedFirst'
    <3>1. \A t \in asked : sent'[t] = 0
      BY <2>1 DEF TypeOK
    <3>2. \A t \in asked : ~Begun(t)'
      BY <3>1 DEF Begun
    <3>3. QED BY <2>1, <2>2, <3>1, <3>2 DEF EmptiedFirst
  <2>11. QED BY <2>5, <2>8, <2>9, <2>10
<1>4. QED BY <1>2, <1>3

\* What does not change while the threads of a pull run.
Steady ==
  UNCHANGED <<context, asked, gone, completed, download, untimed, pulled, requests, pending,
              cancelling, staged, plotted, outcome>>

LEMMA SteadyKept ==
  ASSUME SafeParts, Steady
  PROVE  Due' = Due /\ (PullQueued' <=> PullQueued) /\ OneQueued' /\ Counted'
  BY DEF SafeParts, Steady, Due, PullQueued, OneQueued, Counted

\* A thread that is about to read has a topic that is due and no event.
LEMMA Reading ==
  ASSUME TypeOK, SafeParts, NEW t \in Topics, pull[t] \in {"ready", "drain", "open", "reading"}
  PROVE  /\ t \in Due /\ context = "Fetch" /\ ~PullQueued /\ t \in asked
         /\ \A i \in 1 .. Len(events) : events[i].topic # t
<1>1. t \in Due
  BY DEF SafeParts, OnePlace
<1>2. \A i \in 1 .. Len(events) : events[i].topic # t
  BY MosaicoAssumption DEF SafeParts, OnePlace
<1>3. QED BY <1>1, <1>2 DEF Due

\* It goes on without a word.
LEMMA GoesOn ==
  ASSUME TypeOK, TypeOK', SafeParts, Steady, UNCHANGED <<events, sent>>,
         NEW t \in Topics, pull[t] \in {"ready", "open"},
         NEW v \in {"open", "reading"}, pull' = [pull EXCEPT ![t] = v],
         v = "reading" => sent[t] > 0
  PROVE  SafeParts'
<1> USE DEF SafeParts
<1>1. t \in Due /\ \A i \in 1 .. Len(events) : events[i].topic # t
  BY Reading
<1>2. Due' = Due /\ (PullQueued' <=> PullQueued) /\ OneQueued' /\ Counted'
  BY SteadyKept
<1>3. \A u \in Topics : pull'[u] = IF u = t THEN v ELSE pull[u]
  BY DEF TypeOK
<1>4. Due \subseteq Topics
  BY DEF Due, TypeOK
<1>5. OnePlace'
  BY <1>1, <1>2, <1>3, <1>4 DEF OnePlace
<1>6. LastSent' /\ Shown'
  BY <1>3 DEF LastSent, Shown, Steady
<1>7. EmptiedFirst'
  BY <1>2 DEF EmptiedFirst, Steady, Begun, Kept
<1>8. QED BY <1>2, <1>5, <1>6, <1>7

\* It posts an event and waits, or reports and ends.
LEMMA Posts ==
  ASSUME TypeOK, TypeOK', SafeParts, Steady,
         NEW t \in Topics, pull[t] \in {"drain", "open", "reading"}, NEW ev \in TopicEvents,
         NEW n \in Nat, events' = Append(events, Event(ev, t, n)),
         pull' = [pull EXCEPT ![t] = IF ev \in {"schema", "block"} THEN "waiting" ELSE "reported"],
         IF ev \in {"schema", "block"} THEN sent' = [sent EXCEPT ![t] = n + 1] /\ n = sent[t]
           ELSE sent' = sent,
         ev = "schema" => sent[t] = 0, ev = "block" => sent[t] > 0
  PROVE  SafeParts'
<1> USE DEF SafeParts
<1>1. t \in Due /\ t # NoTopic /\ context = "Fetch" /\ ~PullQueued
      /\ \A i \in 1 .. Len(events) : events[i].topic # t
  BY Reading, MosaicoAssumption
<1>2. Due' = Due /\ (PullQueued' <=> PullQueued) /\ OneQueued' /\ Counted'
  BY SteadyKept
<1>3. /\ Len(events) \in Nat /\ Len(events') = Len(events) + 1
      /\ \A i \in 1 .. Len(events) : events'[i] = events[i]
      /\ events'[Len(events) + 1] = [ev |-> ev, topic |-> t, number |-> n]
  <2>1. Event(ev, t, n) \in Events
    BY Posted
  <2>2. QED BY <2>1, Appended, LenProperties DEF TypeOK, Event
<1>4. \A i \in 1 .. Len(events') :
        i \in 1 .. Len(events) \/ (i = Len(events) + 1 /\ events'[i].topic = t)
  BY <1>3
<1>5. \A i \in 1 .. Len(events) : i \in 1 .. Len(events')
  BY <1>3
<1>6. /\ \A u \in Topics : u # t => pull'[u] = pull[u] /\ sent'[u] = sent[u]
      /\ pull'[t] = IF ev \in {"schema", "block"} THEN "waiting" ELSE "reported"
      /\ sent'[t] = IF ev \in {"schema", "block"} THEN n + 1 ELSE sent[t]
  BY DEF TypeOK
<1>7. Due \subseteq Topics /\ asked \subseteq Topics
  BY DEF Due, TypeOK
<1>8. OnePlace'
  <2>1. /\ \A u \in Topics \ Due' : pull'[u] \in {"none", "reported"}
        /\ \A u \in Due' : pull'[u] # "none"
    BY <1>1, <1>2, <1>6, <1>7 DEF OnePlace
  <2>2. \A u \in Due' : pull'[u] \in {"waiting", "reported"} =>
          \E i \in 1 .. Len(events') : events'[i].topic = u
    <3>1. Len(events) + 1 \in 1 .. Len(events') /\ events'[Len(events) + 1].topic = t
      BY <1>3
    <3>2. \A u \in Due : u # t /\ pull'[u] \in {"waiting", "reported"} =>
            \E i \in 1 .. Len(events) : events[i].topic = u
      BY <1>6, <1>7 DEF OnePlace
    <3>3. QED BY <1>2, <1>3, <1>5, <3>1, <3>2
  <2>3. \A i \in 1 .. Len(events') : events'[i].topic # NoTopic =>
          /\ events'[i].topic \in Due'
          /\ pull'[events'[i].topic] =
               IF events'[i].ev \in {"schema", "block"} THEN "waiting" ELSE "reported"
    BY <1>1, <1>2, <1>3, <1>4, <1>6, <1>7 DEF OnePlace
  <2>4. \A i, j \in 1 .. Len(events') :
          events'[i].topic = events'[j].topic /\ events'[i].topic # NoTopic => i = j
    BY <1>1, <1>3, <1>4 DEF OnePlace
  <2>5. QED BY <2>1, <2>2, <2>3, <2>4 DEF OnePlace
<1>9. LastSent'
  <2>1. \A i \in 1 .. Len(events) : events[i].ev \in TopicEvents => events[i].topic \in Topics
    BY ElementOfSeq, Posted DEF TypeOK
  <2>2. \A i \in 1 .. Len(events) :
          events[i].ev \in {"schema", "block"} => sent'[events[i].topic] = sent[events[i].topic]
    BY <1>1, <1>6, <2>1 DEF TopicEvents
  <2>3. \A u \in Topics : pull'[u] = "reading" => sent'[u] > 0
    BY <1>6 DEF LastSent
  <2>4. QED BY <1>3, <1>4, <1>6, <2>2, <2>3 DEF LastSent
<1>10. Shown'
  BY <1>1 DEF Shown, Steady
<1>11. EmptiedFirst'
  <2>1. \A u \in asked : Begun(u)' => Begun(u)
    <3>1. \A u \in asked : u # t => (Begun(u)' => Begun(u))
      BY <1>3, <1>5, <1>6, <1>7 DEF Begun
    <3>2. Begun(t)' => Begun(t)
      <4>1. CASE ev = "schema"
        BY <1>3, <4>1 DEF Begun
      <4>2. CASE ev # "schema"
        <5>1. sent'[t] > 0 => sent[t] > 0
          BY <1>6, <4>2
        <5>2. QED BY <1>3, <1>5, <5>1 DEF Begun
      <4>3. QED BY <4>1, <4>2
    <3>3. QED BY <3>1, <3>2
  <2>2. \A u \in asked : \A k \in Nat : Kept(u, k) => Kept(u, k)'
    BY <1>3, <1>5 DEF Kept, Steady
  <2>3. ev = "block" => Kept(t, n)'
    <3>1. Len(events) + 1 \in 1 .. Len(events')
      BY <1>3
    <3>2. QED BY <1>3, <3>1 DEF Kept
  <2>4. ~cancelling => \A u \in asked : \A k \in 1 .. (sent'[u] - 1) : Kept(u, k)'
    <3>1. SUFFICES ASSUME ~cancelling, NEW u \in asked, NEW k \in 1 .. (sent'[u] - 1)
                   PROVE  Kept(u, k)'
      OBVIOUS
    <3>2. sent[u] \in Nat /\ sent'[u] \in Nat /\ u \in Topics
      BY <1>7 DEF TypeOK
    <3>3. CASE k \in 1 .. (sent[u] - 1)
      BY <1>1, <2>2, <3>1, <3>3 DEF EmptiedFirst
    <3>4. CASE k \notin 1 .. (sent[u] - 1)
      <4>1. u = t /\ ev = "block" /\ k = n
        BY <1>6, <3>2, <3>4
      <4>2. QED BY <2>3, <4>1
    <3>5. QED BY <3>3, <3>4
  <2>5. UNCHANGED <<asked, context, cancelling, staged, plotted, download, untimed>>
    BY DEF Steady
  <2>6. \A x \in staged' : x[2] = download' /\ (cancelling' \/ plotted'[x[1]] = {})
    BY <2>5 DEF EmptiedFirst
  <2>7. context' = "Fetch" /\ ~PullQueued' /\ ~cancelling' =>
       \A u \in asked' : /\ Begun(u)' /\ u \notin untimed' => plotted'[u] = {}
                        /\ \A k \in 1 .. (sent'[u] - 1) : Kept(u, k)'
    BY <1>1, <2>1, <2>4, <2>5 DEF EmptiedFirst
  <2>8. /\ staged' # {} => context' = "Fetch"
        /\ \A u \in Topics : \A x, y \in plotted'[u] : x[2] = y[2]
        /\ \A u \in Topics : \A x \in plotted'[u] :
             x[2] <= download' /\ (context' = "Fetch" => x[2] < download')
    BY <2>5 DEF EmptiedFirst
  <2>9. QED BY <2>6, <2>7, <2>8 DEF EmptiedFirst
<1>12. QED BY <1>2, <1>8, <1>9, <1>10, <1>11

\* So every step of a thread keeps the invariant.
LEMMA PullStepKept ==
  ASSUME TypeOK, TypeOK', SafeParts, Pull
  PROVE  SafeParts'
<1> USE DEF Steady, window, fetch, toolbox, thread, inputs, history
<1>1. ASSUME NEW t \in Topics, Pick(t) PROVE SafeParts'
  BY <1>1, GoesOn DEF Pick
<1>2. ASSUME NEW t \in Topics, PullStep(t) PROVE SafeParts'
  <2>1. Steady /\ sent[t] \in Nat
    BY <1>2 DEF PullStep, TypeOK
  <2>2. ASSUME Deliver(t, "schema"), pull[t] = "open", sent[t] = 0 PROVE SafeParts'
    <3>1. sent' = [sent EXCEPT ![t] = sent[t] + 1]
      BY <2>2 DEF Deliver
    <3>2. QED BY <2>1, <2>2, <3>1, Posts DEF Deliver, TopicEvents
  <2>3. ASSUME Deliver(t, "block"), pull[t] = "reading", sent[t] > 0 PROVE SafeParts'
    <3>1. sent' = [sent EXCEPT ![t] = sent[t] + 1]
      BY <2>3 DEF Deliver
    <3>2. QED BY <2>1, <2>3, <3>1, Posts DEF Deliver, TopicEvents
  <2>4. ASSUME NEW ev \in {"finished", "failed"}, Report(t, ev),
               pull[t] \in {"open", "reading", "drain"}
        PROVE  SafeParts'
    BY <2>1, <2>4, Posts DEF Report, TopicEvents
  <2>5. ASSUME pull[t] = "open", sent[t] > 0, pull' = [pull EXCEPT ![t] = "reading"], UNCHANGED <<events, sent>>
        PROVE  SafeParts'
    BY <2>1, <2>5, GoesOn
  <2>6. pull[t] = "reading" => sent[t] > 0
    BY DEF SafeParts, LastSent
  <2>7. QED BY <1>2, <2>1, <2>2, <2>3, <2>4, <2>5, <2>6 DEF PullStep
<1>3. QED BY <1>1, <1>2 DEF Pull

\* The event that is served was the only one about its topic.
LEMMA HeadAbout ==
  ASSUME TypeOK, SafeParts, NEW t, NEW ev \in TopicEvents, Serving(ev), t = Head(events).topic
  PROVE  /\ t \in Topics /\ t \in Due /\ context = "Fetch" /\ ~PullQueued /\ t \in asked \ completed
         /\ pull[t] = IF ev \in {"schema", "block"} THEN "waiting" ELSE "reported"
         /\ Len(events) \in Nat /\ Len(events) >= 1 /\ Len(events') = Len(events) - 1
         /\ events[1] = Head(events) /\ events[1].ev = ev
         /\ \A j \in 1 .. Len(events') :
              j + 1 \in 1 .. Len(events) /\ events'[j] = events[j + 1] /\ events'[j].topic # t
         /\ \A i \in 1 .. Len(events) :
              i = 1 \/ (i - 1 \in 1 .. Len(events') /\ events'[i - 1] = events[i])
<1>1. /\ Len(events) \in Nat /\ Len(events) >= 1 /\ Len(events') = Len(events) - 1
      /\ events[1] = Head(events) /\ events[1].ev = ev
      /\ \A j \in 1 .. (Len(events) - 1) : events'[j] = events[j + 1]
  BY Taken, LenProperties DEF TypeOK, Serving
<1>2. t \in Topics /\ t # NoTopic
  BY HeadType, MosaicoAssumption DEF Serving
<1>3. /\ t \in Due
      /\ pull[t] = IF ev \in {"schema", "block"} THEN "waiting" ELSE "reported"
  BY <1>1, <1>2 DEF SafeParts, OnePlace
<1>4. \A i \in 1 .. Len(events) : events[i].topic = t => i = 1
  BY <1>1, <1>2 DEF SafeParts, OnePlace
<1>5. \A j \in 1 .. Len(events') :
        j + 1 \in 1 .. Len(events) /\ events'[j] = events[j + 1] /\ events'[j].topic # t
  BY <1>1, <1>4
<1>6. \A i \in 1 .. Len(events) :
        i = 1 \/ (i - 1 \in 1 .. Len(events') /\ events'[i - 1] = events[i])
  BY <1>1
<1>7. QED BY <1>1, <1>2, <1>3, <1>5, <1>6 DEF Due

\* The schema or a block is served, and its thread goes on.
LEMMA ReleasedPlace ==
  ASSUME TypeOK, TypeOK', SafeParts, NEW t, NEW ev \in {"schema", "block"}, Serving(ev),
         t = Head(events).topic, Released(t),
         UNCHANGED <<context, asked, completed, download, pulled, requests, pending>>
  PROVE  /\ (PullQueued' <=> PullQueued) /\ OneQueued' /\ OnePlace' /\ Counted' /\ LastSent'
         /\ \A u \in asked : u # t => (Begun(u)' => Begun(u))
<1> USE DEF SafeParts
<1>1. ev \in TopicEvents
  BY DEF TopicEvents
<1>2. /\ t \in Topics /\ t \in Due
      /\ \A j \in 1 .. Len(events') :
           j + 1 \in 1 .. Len(events) /\ events'[j] = events[j + 1] /\ events'[j].topic # t
      /\ \A i \in 1 .. Len(events) :
           i = 1 \/ (i - 1 \in 1 .. Len(events') /\ events'[i - 1] = events[i])
      /\ events[1].topic = t /\ Len(events) \in Nat /\ Len(events') \in Nat
  BY <1>1, HeadAbout
<1>3. (PullQueued' <=> PullQueued) /\ OneQueued' /\ Due' = Due /\ Counted'
  BY DEF PullQueued, OneQueued, Due, Counted
<1>4. \A u \in Topics : pull'[u] = IF u = t THEN "open" ELSE pull[u]
  BY DEF TypeOK, Released
<1>5. Due \subseteq Topics
  BY DEF Due, TypeOK
<1>6. OnePlace'
  <2>1. /\ \A u \in Topics \ Due' : pull'[u] \in {"none", "reported"}
        /\ \A u \in Due' : pull'[u] # "none"
    BY <1>2, <1>3, <1>4, <1>5 DEF OnePlace
  <2>2. \A u \in Due' : pull'[u] \in {"waiting", "reported"} =>
          \E i \in 1 .. Len(events') : events'[i].topic = u
    <3>1. \A u \in Due : u # t /\ pull[u] \in {"waiting", "reported"} =>
            \E i \in 1 .. Len(events) : i # 1 /\ events[i].topic = u
      BY <1>2 DEF OnePlace
    <3>2. QED BY <1>2, <1>3, <1>4, <1>5, <3>1
  <2>3. \A i \in 1 .. Len(events') : events'[i].topic # NoTopic =>
          /\ events'[i].topic \in Due'
          /\ pull'[events'[i].topic] =
               IF events'[i].ev \in {"schema", "block"} THEN "waiting" ELSE "reported"
    <3>1. \A i \in 1 .. Len(events) : events[i].topic \notin {NoTopic, t} =>
            /\ events[i].topic \in Due
            /\ pull'[events[i].topic] =
                 IF events[i].ev \in {"schema", "block"} THEN "waiting" ELSE "reported"
      BY <1>4, <1>5 DEF OnePlace
    <3>2. QED BY <1>2, <1>3, <3>1
  <2>4. \A i, j \in 1 .. Len(events') :
          events'[i].topic = events'[j].topic /\ events'[i].topic # NoTopic => i = j
    BY <1>2 DEF OnePlace
  <2>5. QED BY <2>1, <2>2, <2>3, <2>4 DEF OnePlace
<1>7. LastSent'
  BY <1>2, <1>4 DEF LastSent, Released
<1>8. \A u \in asked : u # t => (Begun(u)' => Begun(u))
  BY <1>2 DEF Begun, Released
<1>9. QED BY <1>3, <1>6, <1>7, <1>8

\* Series are emptied, and never filled, by the schema and the blocks.
LEMMA EmptiedSeries ==
  ASSUME TypeOK, NEW t \in Topics
  PROVE  /\ Emptied(t)[t] = {}
         /\ \A u \in Topics : Emptied(t)[u] \in {{}, plotted[u]}
  BY MosaicoAssumption DEF Emptied, TypeOK

LEMMA SchemaStep ==
  ASSUME TypeOK, TypeOK', SafeParts, SchemaServed
  PROVE  SafeParts'
<1> DEFINE t == Head(events).topic
<1> USE DEF SafeParts
<1>1. /\ Serving("schema") /\ Released(t)
      /\ UNCHANGED <<context, asked, completed, download, pulled, requests, pending, staged,
                     cancelling, gone, untimed, outcome>>
      /\ plotted' \in {plotted, Emptied(t)}
      /\ cancelling \/ t \in untimed \/ plotted' = Emptied(t)
  BY DEF SchemaServed, BeginImport, window, fetch, thread, inputs, history
<1>2. (PullQueued' <=> PullQueued) /\ OneQueued' /\ OnePlace' /\ Counted' /\ LastSent'
      /\ \A u \in asked : u # t => (Begun(u)' => Begun(u))
  BY <1>1, ReleasedPlace
<1>3. t \in Topics /\ context = "Fetch" /\ ~PullQueued
      /\ events[1].ev = "schema"
      /\ \A i \in 1 .. Len(events) :
           i = 1 \/ (i - 1 \in 1 .. Len(events') /\ events'[i - 1] = events[i])
  BY <1>1, HeadAbout DEF TopicEvents
<1>4. \A u \in Topics : plotted'[u] \in {{}, plotted[u]}
  BY <1>1, <1>3, EmptiedSeries
<1>5. ~cancelling /\ t \notin untimed => plotted'[t] = {}
  BY <1>1, <1>3, EmptiedSeries
<1>6. \A u \in asked : \A k \in Nat : Kept(u, k) => Kept(u, k)'
  BY <1>1, <1>3 DEF Kept
<1>7. EmptiedFirst'
  <2>1. \A x \in staged' : x[2] = download' /\ (cancelling' \/ plotted'[x[1]] = {})
    <3>1. \A x \in staged : x[1] \in Topics
      BY DEF TypeOK, Blocks
    <3>2. QED BY <1>1, <1>4, <3>1 DEF EmptiedFirst
  <2>2. ~cancelling =>
       \A u \in asked : /\ Begun(u)' /\ u \notin untimed' => plotted'[u] = {}
                       /\ \A k \in 1 .. (sent'[u] - 1) : Kept(u, k)'
    <3>1. asked \subseteq Topics /\ sent' = sent /\ sent \in [Topics -> Nat]
      BY <1>1 DEF TypeOK, Released
    <3>2. ~cancelling => \A u \in asked : Begun(u)' /\ u \notin untimed' => plotted'[u] = {}
      BY <1>1, <1>2, <1>3, <1>4, <1>5, <3>1 DEF EmptiedFirst
    <3>3. ~cancelling => \A u \in asked : \A k \in 1 .. (sent[u] - 1) : Kept(u, k)'
      BY <1>3, <1>6, <3>1 DEF EmptiedFirst
    <3>4. QED BY <3>1, <3>2, <3>3
  <2>3. /\ \A u \in Topics : \A x, y \in plotted'[u] : x[2] = y[2]
        /\ \A u \in Topics : \A x \in plotted'[u] : x[2] <= download' /\ x[2] < download'
    <3>1. \A u \in Topics : \A x \in plotted'[u] : x \in plotted[u]
      BY <1>4
    <3>2. QED BY <1>1, <1>3, <3>1 DEF EmptiedFirst
  <2>4. QED BY <1>1, <1>3, <2>1, <2>2, <2>3 DEF EmptiedFirst
<1>8. Shown'
  BY <1>1, <1>3 DEF Shown
<1>9. QED BY <1>2, <1>7, <1>8

LEMMA BlockStep ==
  ASSUME TypeOK, TypeOK', ~mixed, imports \intersect untimed = {}, SafeParts, BlockServed
  PROVE  SafeParts'
<1> DEFINE t == Head(events).topic
           n == Head(events).number
<1> USE DEF SafeParts
<1>1. /\ Serving("block") /\ Released(t)
      /\ UNCHANGED <<context, asked, completed, download, pulled, requests, pending,
                     cancelling, untimed, outcome>>
      /\ plotted' \in {plotted, Emptied(t)}
      /\ cancelling => UNCHANGED <<staged, plotted>>
      /\ staged' \in {staged, staged \union {<<t, pulled, n>>}}
      /\ t \in untimed => staged' = staged
      /\ gone \subseteq gone'
      /\ ~cancelling => <<t, pulled, n>> \in staged' \union gone'
  BY DEF BlockServed, AppendBlock, BeginImport, GivenUp, window, fetch, toolbox, thread, inputs,
     history
<1>2. (PullQueued' <=> PullQueued) /\ OneQueued' /\ OnePlace' /\ Counted' /\ LastSent'
      /\ \A u \in asked : u # t => (Begun(u)' => Begun(u))
  BY <1>1, ReleasedPlace
<1>3. t \in Topics /\ t \in asked /\ context = "Fetch" /\ ~PullQueued
      /\ events[1].ev = "block" /\ events[1] = Head(events) /\ 1 \in 1 .. Len(events)
      /\ \A i \in 1 .. Len(events) :
           i = 1 \/ (i - 1 \in 1 .. Len(events') /\ events'[i - 1] = events[i])
  BY <1>1, HeadAbout DEF TopicEvents
<1>4. download = pulled
  BY <1>3 DEF OneQueued
<1>5. \A u \in Topics : plotted'[u] \in {{}, plotted[u]}
  BY <1>1, <1>3, EmptiedSeries
<1>6. Begun(t)
  <2>1. sent[t] = n + 1 /\ n > 0 /\ n \in Nat
    BY <1>3, HeadType DEF LastSent
  <2>2. \A i \in 1 .. Len(events) : events[i].topic = t => i = 1
    BY <1>3, MosaicoAssumption DEF OnePlace
  <2>3. QED BY <1>3, <2>1, <2>2 DEF Begun
<1>7. ~cancelling /\ t \notin untimed => plotted[t] = {}
  BY <1>3, <1>6 DEF EmptiedFirst
<1>8. ~cancelling => \A u \in asked : \A k \in Nat : Kept(u, k) => Kept(u, k)'
  <2>1. ASSUME ~cancelling, NEW u \in asked, NEW k \in Nat, Kept(u, k) PROVE Kept(u, k)'
    <3>1. CASE <<u, download, k>> \in staged \union gone
      BY <1>1, <2>1, <3>1 DEF Kept
    <3>2. ASSUME NEW i \in 1 .. Len(events), events[i].ev = "block", events[i].topic = u,
                 events[i].number = k
          PROVE  Kept(u, k)'
      <4>1. CASE i = 1
        BY <1>1, <1>3, <1>4, <2>1, <3>2, <4>1 DEF Kept
      <4>2. CASE i # 1
        BY <1>3, <3>2, <4>2 DEF Kept
      <4>3. QED BY <4>1, <4>2
    <3>3. QED BY <2>1, <3>1, <3>2 DEF Kept
  <2>2. QED BY <2>1
<1>9. EmptiedFirst'
  <2>1. \A x \in staged' : x[2] = download' /\ (cancelling' \/ plotted'[x[1]] = {})
    <3>1. \A x \in staged : x[1] \in Topics
      BY DEF TypeOK, Blocks
    <3>2. \A x \in staged : x[2] = download /\ (cancelling \/ plotted'[x[1]] = {})
      BY <1>5, <3>1 DEF EmptiedFirst
    <3>3. ~cancelling /\ t \notin untimed => plotted'[t] = {}
      BY <1>3, <1>5, <1>7
    <3>4. QED BY <1>1, <1>4, <3>2, <3>3
  <2>2. ~cancelling =>
       \A u \in asked : /\ Begun(u)' /\ u \notin untimed' => plotted'[u] = {}
                       /\ \A k \in 1 .. (sent'[u] - 1) : Kept(u, k)'
    <3>1. asked \subseteq Topics /\ sent' = sent /\ sent \in [Topics -> Nat]
      BY <1>1 DEF TypeOK, Released
    <3>2. ~cancelling => \A u \in asked : Begun(u)' /\ u \notin untimed' => plotted'[u] = {}
      BY <1>1, <1>2, <1>3, <1>5, <1>7, <3>1 DEF EmptiedFirst
    <3>3. ~cancelling => \A u \in asked : \A k \in 1 .. (sent[u] - 1) : Kept(u, k)'
      BY <1>3, <1>8, <3>1 DEF EmptiedFirst
    <3>4. QED BY <3>1, <3>2, <3>3
  <2>3. /\ \A u \in Topics : \A x, y \in plotted'[u] : x[2] = y[2]
        /\ \A u \in Topics : \A x \in plotted'[u] : x[2] <= download' /\ x[2] < download'
    <3>1. \A u \in Topics : \A x \in plotted'[u] : x \in plotted[u]
      BY <1>5
    <3>2. QED BY <1>1, <1>3, <3>1 DEF EmptiedFirst
  <2>4. QED BY <1>1, <1>3, <2>1, <2>2, <2>3 DEF EmptiedFirst
<1>10. Shown'
  BY <1>1, <1>3 DEF Shown
<1>11. QED BY <1>2, <1>9, <1>10

\* A topic is reported; with the last one the download ends.
LEMMA TopicStep ==
  ASSUME TypeOK, TypeOK', SafeParts, TopicServed
  PROVE  SafeParts'
<1> DEFINE t == Head(events).topic
<1> USE DEF SafeParts
<1>1. PICK ev \in {"finished", "failed"} : Serving(ev)
  BY DEF TopicServed
<1>2. PICK left \in SUBSET Topics : FinishTopic(t, left)
  <2>1. imports \subseteq Topics /\ imports \ {t} \subseteq Topics
    BY DEF TypeOK
  <2>2. QED BY <2>1 DEF TopicServed
<1>3. UNCHANGED <<download, untimed, pulled, requests, pull, sent, asked, gone>>
  BY DEF TopicServed, thread, pulls, inputs
<1>4. /\ t \in Topics /\ t \in Due /\ context = "Fetch" /\ ~PullQueued /\ t \in asked \ completed
      /\ pull[t] = "reported" /\ Len(events) \in Nat /\ Len(events') \in Nat
      /\ events[1].topic = t /\ events[1].ev \in {"finished", "failed"}
      /\ \A j \in 1 .. Len(events') :
           j + 1 \in 1 .. Len(events) /\ events'[j] = events[j + 1] /\ events'[j].topic # t
      /\ \A i \in 1 .. Len(events) :
           i = 1 \/ (i - 1 \in 1 .. Len(events') /\ events'[i - 1] = events[i])
  <2>1. ev \in TopicEvents /\ ev \notin {"schema", "block"}
    BY <1>1 DEF TopicEvents
  <2>2. /\ t \in Topics /\ t \in Due /\ context = "Fetch" /\ ~PullQueued /\ t \in asked \ completed
        /\ pull[t] = IF ev \in {"schema", "block"} THEN "waiting" ELSE "reported"
        /\ Len(events) \in Nat /\ Len(events) >= 1 /\ Len(events') = Len(events) - 1
        /\ events[1] = Head(events) /\ events[1].ev = ev
        /\ \A j \in 1 .. Len(events') :
             j + 1 \in 1 .. Len(events) /\ events'[j] = events[j + 1] /\ events'[j].topic # t
        /\ \A i \in 1 .. Len(events) :
             i = 1 \/ (i - 1 \in 1 .. Len(events') /\ events'[i - 1] = events[i])
    BY <1>1, <2>1, HeadAbout
  <2>3. Len(events') \in Nat
    BY <2>2
  <2>4. pull[t] = "reported"
    BY <2>1, <2>2
  <2>5. QED BY <1>1, <2>2, <2>3, <2>4
<1>5. Due = asked \ completed /\ Due \subseteq Topics /\ t # NoTopic
  BY <1>4, MosaicoAssumption DEF Due, TypeOK
<1>6. /\ completed' = completed \union {t} /\ pending' = pending - 1
      /\ IF pending' = 0 THEN FinishBatch(left)
         ELSE UNCHANGED <<context, cancelling, staged, plotted, outcome>>
  BY <1>2, <1>4, <1>5 DEF FinishTopic, Counted
<1>7. asked' \ completed' = Due \ {t}
  BY <1>3, <1>5, <1>6
<1>8. Cardinality(Due \ {t}) = pending - 1
  <2>1. IsFiniteSet(Due)
    BY <1>5, MosaicoAssumption, FS_Subset
  <2>2. Cardinality(Due) = pending
    BY <1>4, <1>5 DEF Counted
  <2>3. QED BY <1>4, <2>1, <2>2, FS_RemoveElement
<1>9. PullQueued' <=> PullQueued
  BY <1>3 DEF PullQueued
<1>10. context' = IF pending' = 0 THEN "None" ELSE "Fetch"
  BY <1>4, <1>6 DEF FinishBatch
<1>11. Due' = Due \ {t}
  <2>1. CASE pending' = 0
    <3>1. Due \ {t} = {}
      <4>1. IsFiniteSet(Due \ {t})
        BY <1>5, MosaicoAssumption, FS_Subset
      <4>2. QED BY <1>6, <1>8, <2>1, <4>1, FS_EmptySet
    <3>2. QED BY <1>10, <2>1, <3>1 DEF Due
  <2>2. CASE pending' # 0
    BY <1>4, <1>7, <1>9, <1>10, <2>2 DEF Due
  <2>3. QED BY <2>1, <2>2
<1>12. OneQueued'
  BY <1>3, <1>4, <1>9 DEF OneQueued
<1>13. Counted'
  <2>1. pending \in Nat /\ pending' \in Nat
    BY DEF TypeOK
  <2>2. Cardinality(asked' \ completed') = pending'
    BY <1>6, <1>7, <1>8
  <2>3. pending' # 0 => pending' > 0
    BY <2>1
  <2>4. QED BY <1>10, <2>2, <2>3 DEF Counted
<1>14. OnePlace'
  <2>1. /\ \A u \in Topics \ Due' : pull'[u] \in {"none", "reported"}
        /\ \A u \in Due' : pull'[u] # "none"
    BY <1>3, <1>4, <1>11 DEF OnePlace
  <2>2. \A u \in Due' : pull'[u] \in {"waiting", "reported"} =>
          \E i \in 1 .. Len(events') : events'[i].topic = u
    <3>1. \A u \in Due : u # t /\ pull[u] \in {"waiting", "reported"} =>
            \E i \in 1 .. Len(events) : i # 1 /\ events[i].topic = u
      BY <1>4 DEF OnePlace
    <3>2. QED BY <1>3, <1>4, <1>5, <1>11, <3>1
  <2>3. \A i \in 1 .. Len(events') : events'[i].topic # NoTopic =>
          /\ events'[i].topic \in Due'
          /\ pull'[events'[i].topic] =
               IF events'[i].ev \in {"schema", "block"} THEN "waiting" ELSE "reported"
    BY <1>3, <1>4, <1>11 DEF OnePlace
  <2>4. \A i, j \in 1 .. Len(events') :
          events'[i].topic = events'[j].topic /\ events'[i].topic # NoTopic => i = j
    <3>1. TAKE i, j \in 1 .. Len(events')
    <3>2. /\ i \in Int /\ j \in Int
          /\ i + 1 \in 1 .. Len(events) /\ events'[i] = events[i + 1]
          /\ j + 1 \in 1 .. Len(events) /\ events'[j] = events[j + 1]
      BY <1>4
    <3>3. events[i + 1].topic = events[j + 1].topic /\ events[i + 1].topic # NoTopic
            => i + 1 = j + 1
      BY <3>2 DEF OnePlace
    <3>4. QED BY <3>2, <3>3
  <2>5. QED BY <2>1, <2>2, <2>3, <2>4 DEF OnePlace
<1>15. LastSent'
  BY <1>3, <1>4 DEF LastSent
<1>16. \A u \in asked : \A k \in Nat : Kept(u, k) =>
         <<u, download, k>> \in staged \union gone
           \/ \E i \in 1 .. Len(events') :
                events'[i].ev = "block" /\ events'[i].topic = u /\ events'[i].number = k
  <2>1. SUFFICES ASSUME NEW u \in asked, NEW k \in Nat, NEW i \in 1 .. Len(events),
                        events[i].ev = "block", events[i].topic = u, events[i].number = k
                 PROVE  \E j \in 1 .. Len(events') :
                          events'[j].ev = "block" /\ events'[j].topic = u /\ events'[j].number = k
    BY DEF Kept
  <2>2. i - 1 \in 1 .. Len(events') /\ events'[i - 1] = events[i]
    BY <1>4, <2>1
  <2>3. QED BY <2>1, <2>2
<1>17. CASE pending' # 0
  <2>1. UNCHANGED <<context, cancelling, staged, plotted, outcome>>
    BY <1>6, <1>17
  <2>2. Shown'
    BY <1>4, <2>1 DEF Shown
  <2>3. \A u \in asked : (Begun(u)' => Begun(u)) /\ \A k \in Nat : Kept(u, k) => Kept(u, k)'
    <3>1. \A u \in asked : Begun(u)' => Begun(u)
      BY <1>3, <1>4 DEF Begun
    <3>2. QED BY <1>3, <1>16, <2>1, <3>1 DEF Kept
  <2>4. EmptiedFirst'
    <3>1. \A u \in asked : sent[u] \in Nat
      BY DEF TypeOK
    <3>2. context' = "Fetch" /\ ~PullQueued' /\ ~cancelling' =>
           \A u \in asked' : /\ Begun(u)' /\ u \notin untimed' => plotted'[u] = {}
                            /\ \A k \in 1 .. (sent'[u] - 1) : Kept(u, k)'
      BY <1>3, <1>4, <2>1, <2>3, <3>1 DEF EmptiedFirst
    <3>3. QED BY <1>3, <2>1, <3>2 DEF EmptiedFirst
  <2>5. QED BY <1>12, <1>13, <1>14, <1>15, <2>2, <2>4
<1>18. CASE pending' = 0
  <2>1. /\ context' = "None" /\ staged' = {}
        /\ IF cancelling THEN outcome' = "discarded" /\ plotted' = plotted
           ELSE outcome' = "imported" /\ plotted' = Imported
    BY <1>6, <1>18 DEF FinishBatch
  <2>2. Due' = {}
    BY <2>1 DEF Due
  <2>3. \A i \in 1 .. Len(events') : events'[i].topic = NoTopic
    BY <1>14, <2>2 DEF OnePlace
  <2>4. \A i \in 1 .. Len(events') : events'[i].ev # "block"
    <3>1. \A i \in 1 .. Len(events') : events'[i] \in Events
      BY ElementOfSeq DEF TypeOK
    <3>2. QED BY <2>3, <3>1, Posted DEF TopicEvents
  <2>5. ~cancelling => \A u \in asked : \A k \in 1 .. (sent[u] - 1) :
          <<u, download, k>> \in staged \union gone
    <3>1. \A u \in asked : sent[u] \in Nat
      BY DEF TypeOK
    <3>2. QED BY <1>4, <1>16, <2>4, <3>1 DEF EmptiedFirst
  <2>6. \A u \in Topics : Imported[u] = plotted[u] \union {b \in staged : b[1] = u}
    BY DEF Imported
  <2>7. ~cancelling => \A u \in Topics :
          {b \in staged : b[1] = u} = {} \/ plotted[u] = {}
    BY DEF EmptiedFirst
  <2>8. Shown'
    <3>1. asked \subseteq Topics
      BY DEF TypeOK
    <3>2. ~cancelling => \A u \in asked : \A k \in 1 .. (sent[u] - 1) :
            <<u, download, k>> \in plotted'[u] \union gone
      BY <2>1, <2>5, <2>6, <3>1
    <3>3. cancelling => \A u \in Topics : \A x \in plotted'[u] : x[2] # download
      <4>1. \A u \in Topics : \A x \in plotted[u] : x[2] \in Nat
        BY DEF TypeOK, Blocks
      <4>2. download \in Nat
        BY DEF TypeOK
      <4>3. \A u \in Topics : \A x \in plotted[u] : x[2] < download
        BY <1>4 DEF EmptiedFirst
      <4>4. QED BY <2>1, <4>1, <4>2, <4>3
    <3>4. QED BY <1>3, <2>1, <3>2, <3>3 DEF Shown
  <2>9. EmptiedFirst'
    <3>1. \A u \in Topics : \A x, y \in plotted'[u] : x[2] = y[2]
      BY <2>1, <2>6, <2>7 DEF EmptiedFirst
    <3>2. \A u \in Topics : \A x \in plotted'[u] : x[2] <= download
      BY <2>1, <2>6 DEF EmptiedFirst, TypeOK
    <3>3. QED BY <1>3, <2>1, <3>1, <3>2 DEF EmptiedFirst
  <2>10. QED BY <1>12, <1>13, <1>14, <1>15, <2>8, <2>9
<1>19. QED BY <1>17, <1>18

-----------------------------------------------------------------------------
\* The invariant and what follows from it.

LEMMA InitInv == Init => IInv
<1> SUFFICES ASSUME Init PROVE IInv
  OBVIOUS
<1>1. TypeOK
  BY InitType
<1>2. Len(requests) = 0 /\ Len(events) = 0 /\ ~PullQueued
  BY DEF Init, PullQueued
<1>3. Due = {}
  BY DEF Init, Due
<1>4. OneQueued /\ OnePlace /\ Counted /\ LastSent /\ EmptiedFirst /\ Shown
  BY <1>2, <1>3 DEF Init, OneQueued, OnePlace, Counted, LastSent, EmptiedFirst, Shown
<1>5. QED BY <1>1, <1>4 DEF Init, IInv, WaitsFor, Waits

\* The request of a client stays in the queue until the worker takes the client.
LEMMA RequestKept ==
  ASSUME TypeOK, NEW i \in 1 .. Len(requests), requests[i].op = "client",
         UNCHANGED requests \/ Take
  PROVE  \/ taken' = client + 1
         \/ \E j \in 1 .. Len(requests') : requests'[j].op = "client"
<1>1. requests \in Seq(Requests)
  BY DEF TypeOK
<1>2. CASE UNCHANGED requests
  BY <1>2
<1>3. CASE Take /\ i = 1
  <2>1. Head(requests).op = "client"
    BY <1>1, <1>3, Taken DEF Take
  <2>2. QED BY <1>3, <2>1 DEF Take
<1>4. CASE Take /\ i # 1
  <2>1. requests' = Tail(requests) /\ requests # << >>
    BY <1>4 DEF Take
  <2>2. /\ Len(requests) \in Nat /\ Len(requests') = Len(requests) - 1
        /\ requests'[i - 1] = requests[i]
    BY <1>1, <1>4, <2>1, Taken, LenProperties
  <2>3. i - 1 \in 1 .. Len(requests')
    BY <1>4, <2>2
  <2>4. QED BY <2>2, <2>3
<1>5. QED BY <1>2, <1>3, <1>4

\* The GUI thread waits for a client with its request in the queue, until the
\* client is taken.
LEMMA WaitsStep ==
  ASSUME TypeOK, WaitsFor, [Next]_vars PROVE WaitsFor'
<1> USE DEF WaitsFor, Waits
<1>1. requests \in Seq(Requests) /\ gui \in {"idle", "connect", "fallback"}
  BY DEF TypeOK
<1>2. ASSUME Request("client")
      PROVE  \E j \in 1 .. Len(requests') : requests'[j].op = "client"
  <2>1. [op |-> "client", topics |-> {}] \in Requests
    BY Posted
  <2>2. Len(requests) + 1 \in 1 .. Len(requests') /\ requests'[Len(requests) + 1].op = "client"
    BY <1>1, <1>2, <2>1, Appended, LenProperties DEF Request
  <2>3. QED BY <2>2
<1>3. CASE UNCHANGED vars
  BY <1>3 DEF vars, window, thread
<1>4. CASE ConnectClicked
  <2>1. "connect" # "fallback" /\ gui' = "connect" /\ Request("client")
    BY <1>4 DEF ConnectClicked
  <2>2. QED BY <1>2, <1>4, <2>1 DEF ConnectClicked
<1>5. CASE RefreshClicked \/ SequenceSelected \/ TopicsSelected \/ CancelClicked \/ FetchClicked
  BY <1>5 DEF RefreshClicked, SequenceSelected, TopicsSelected, CancelClicked, FetchClicked
<1>6. CASE ClientHandedOver
  BY <1>6 DEF ClientHandedOver
<1>7. CASE Work \/ Pull
  <2>1. UNCHANGED <<gui, context, client>>
    BY <1>7 DEF Work, Take, Listed, Answered, PullEnds, Pull, Pick, PullStep, window
  <2>2. CASE gui = "idle"
    BY <2>1, <2>2
  <2>3. CASE taken = client + 1
    <3>1. taken' = client + 1
      BY <1>7, <2>3 DEF Work, Take, Listed, Answered, PullEnds, Pull, Pick, PullStep, thread
    <3>2. QED BY <2>1, <3>1
  <2>4. CASE \E i \in 1 .. Len(requests) : requests[i].op = "client"
    <3>1. PICK i \in 1 .. Len(requests) : requests[i].op = "client"
      BY <2>4
    <3>2. UNCHANGED requests \/ Take
      BY <1>7 DEF Work, Listed, Answered, PullEnds, Pull, Pick, PullStep, thread
    <3>3. \/ taken' = client + 1
          \/ \E j \in 1 .. Len(requests') : requests'[j].op = "client"
      BY <3>1, <3>2, RequestKept
    <3>4. QED BY <2>1, <3>3
  <2>5. QED BY <1>1, <2>2, <2>3, <2>4
<1>8. CASE Serve /\ ~ErrorServed
  BY <1>8 DEF Serve, ListServed, SequencesServed, TopicsServed, SchemaServed, BlockServed,
     TopicServed, Serving, window
<1>9. CASE ErrorServed
  <2>1. gui = "idle"
    BY <1>9 DEF ErrorServed, Serving
  <2>2. CASE gui' = "idle"
    BY <2>2
  <2>3. CASE gui' # "idle"
    <3>1. context = "Connect" /\ gui' = "fallback" /\ Request("client") /\ UNCHANGED context
      BY <1>9, <2>1, <2>3 DEF ErrorServed
    <3>2. QED BY <1>2, <3>1
  <2>4. QED BY <2>2, <2>3
<1>10. QED BY <1>3, <1>4, <1>5, <1>6, <1>7, <1>8, <1>9 DEF Next, Click, Serve

\* Only topics with a timestamp column are registered for import.
LEMMA ImportsStep ==
  ASSUME imports \intersect untimed = {}, [Next]_vars
  PROVE  imports' \intersect untimed' = {}
<1>1. CASE UNCHANGED vars
  BY <1>1 DEF vars, toolbox, inputs
<1>2. CASE Click \/ ClientHandedOver \/ Work \/ Pull
  BY <1>2 DEF Click, ConnectClicked, RefreshClicked, SequenceSelected, TopicsSelected, CancelClicked,
     FetchClicked, ClientHandedOver, Work, Take, Listed, Answered, PullEnds, Pull, Pick, PullStep,
     toolbox, inputs
<1>3. CASE Serve
  <2>1. CASE ListServed \/ SequencesServed \/ TopicsServed
    BY <2>1 DEF ListServed, SequencesServed, TopicsServed, toolbox, inputs
  <2>2. CASE SchemaServed
    BY <2>2 DEF SchemaServed, BeginImport, inputs
  <2>3. CASE BlockServed
    BY <2>3 DEF BlockServed, AppendBlock, BeginImport, toolbox, inputs
  <2>4. CASE TopicServed
    BY <2>4 DEF TopicServed, FinishTopic, FinishBatch, inputs
  <2>5. CASE ErrorServed
    BY <2>5 DEF ErrorServed, FinishBatch, toolbox, inputs
  <2>6. QED BY <1>3, <2>1, <2>2, <2>3, <2>4, <2>5 DEF Serve
<1>4. QED BY <1>1, <1>2, <1>3 DEF Next

LEMMA InvStep == ASSUME IInv, [Next]_vars PROVE IInv'
<1>1. TypeOK /\ TypeOK'
  BY TypeStep DEF IInv
<1>2. taken' \in {client', client' + 1}
  <2>1. CASE UNCHANGED vars
    BY <2>1 DEF IInv, vars, window, thread
  <2>2. CASE ClientHandedOver
    BY <1>1, <2>2 DEF IInv, ClientHandedOver, TypeOK
  <2>3. CASE Take
    BY <2>3 DEF IInv, Take, window, thread
  <2>4. CASE Next /\ ~ClientHandedOver /\ ~Take
    BY <2>4 DEF IInv, Next, Click, ConnectClicked, RefreshClicked, SequenceSelected, TopicsSelected,
       CancelClicked, FetchClicked, Serve, ListServed, SequencesServed, TopicsServed, SchemaServed,
       BlockServed, TopicServed, ErrorServed, Work, Listed, Answered, PullEnds, Pull, Pick, PullStep,
       window, thread
  <2>5. QED BY <2>1, <2>2, <2>3, <2>4
<1>3. WaitsFor'
  BY <1>1, WaitsStep DEF IInv
<1>4. ~mixed' => SafeParts'
  <2>1. SUFFICES ASSUME ~mixed' PROVE SafeParts'
    OBVIOUS
  <2>2. ~mixed
    BY <1>1, <2>1 DEF vars, history, Next, Click, ConnectClicked, RefreshClicked, SequenceSelected,
       TopicsSelected, CancelClicked, FetchClicked, ClientHandedOver, Serve, ListServed,
       SequencesServed, TopicsServed, SchemaServed, BlockServed, TopicServed, ErrorServed, Work, Take,
       Listed, Answered, PullEnds, Pull, Pick, PullStep
  <2>3. SafeParts
    BY <2>2 DEF IInv, SafeParts
  <2>4. CASE UNCHANGED vars
    <3>1. SameDownload /\ QueueQuiet /\ EventsQuiet
          /\ UNCHANGED <<pending, staged, plotted, pull, sent, outcome, cancelling>>
      BY <2>4 DEF vars, window, fetch, toolbox, thread, pulls, inputs, history, SameDownload,
         QueueQuiet, EventsQuiet
    <3>2. QED BY <1>1, <2>3, <3>1, QuietStep
  <2>5. CASE Click \/ ClientHandedOver
    BY <1>1, <2>3, <2>5, ClickQuiet, FetchStep DEF Click, IInv, WaitsFor
  <2>6. CASE Work
    BY <1>1, <2>1, <2>2, <2>3, <2>6, TakeStep, AnswerQuiet DEF Work
  <2>7. CASE Pull
    BY <1>1, <2>3, <2>7, PullStepKept
  <2>8. CASE Serve
    BY <1>1, <2>1, <2>2, <2>3, <2>8, AnswerQuiet, SchemaStep, BlockStep, TopicStep DEF Serve, IInv
  <2>9. QED BY <2>4, <2>5, <2>6, <2>7, <2>8 DEF Next
<1>5. imports' \intersect untimed' = {}
  BY ImportsStep DEF IInv
<1>6. QED BY <1>1, <1>2, <1>3, <1>4, <1>5 DEF IInv, SafeParts

\* The inductive invariant of a download.
THEOREM Invariant == Spec => []IInv
<1>1. Init => IInv
  BY InitInv
<1>2. IInv /\ [Next]_vars => IInv'
  BY InvStep
<1>3. QED BY <1>1, <1>2, PTL DEF Spec

\* Series never show blocks of two downloads, and nothing of an earlier one is
\* staged: the promise of fetchCancelled and of beginTopicImport.
THEOREM AlwaysOneDownload == Spec => []OneDownload
<1>1. IInv => OneDownload
  BY DEF IInv, EmptiedFirst, OneDownload
<1>2. QED BY <1>1, Invariant, PTL

\* A download that ended is shown with every block appendRecordBatchToSeries did
\* not give up, or not at all: finishFetchBatch hands over what all the threads
\* have delivered.
THEOREM AlwaysWholeOrNothing == Spec => []WholeOrNothing
<1>1. IInv => WholeOrNothing
  BY DEF IInv, EmptiedFirst, Shown, WholeOrNothing
<1>2. QED BY <1>1, Invariant, PTL

\* pending_fetches_ is the number of topics whose report is still due.
THEOREM ReportsAlwaysDue == Spec => []ReportsDue
<1>1. ASSUME IInv, ~mixed PROVE ReportsDue
  <2>1. OneQueued /\ OnePlace /\ Counted /\ TypeOK
    BY <1>1 DEF IInv
  <2>2. UNION {requests[i].topics : i \in DOMAIN requests} = IF PullQueued THEN asked ELSE {}
    <3>1. DOMAIN requests = 1 .. Len(requests)
      BY <2>1, LenProperties DEF TypeOK
    <3>2. QED BY <2>1, <3>1 DEF OneQueued, PullQueued
  <2>3. {events[i].topic : i \in DOMAIN events} \ {NoTopic}
          = {t \in Due : pull[t] \in {"waiting", "reported"}}
    <3>1. DOMAIN events = 1 .. Len(events) /\ NoTopic \notin Due
      BY <2>1, LenProperties, MosaicoAssumption DEF TypeOK, Due
    <3>2. QED BY <2>1, <3>1 DEF OnePlace
  <2>4. {t \in Topics : Pulling(t) \/ pull[t] \in {"ready", "drain"}}
          = {t \in Due : pull[t] \notin {"none", "reported"}}
    <3>1. \A t \in Topics : pull[t] \in {"none", "ready", "drain", "open", "reading", "waiting", "reported"}
      BY <2>1 DEF TypeOK
    <3>2. Due \subseteq Topics
      BY <2>1 DEF TypeOK, Due
    <3>3. QED BY <2>1, <3>1, <3>2 DEF OnePlace, Pulling
  <2>5. \A t \in Due : pull[t] # "none"
    BY <2>1 DEF OnePlace
  <2>6. Outstanding = Due \union (IF PullQueued THEN asked ELSE {})
    BY <2>2, <2>3, <2>4, <2>5 DEF Outstanding
  <2>7. PullQueued => context = "Fetch" /\ completed = {}
    BY <2>1 DEF OneQueued
  <2>8. Outstanding = IF context = "Fetch" THEN asked \ completed ELSE {}
    BY <2>6, <2>7 DEF Due
  <2>9. QED BY <2>1, <2>8 DEF Counted, ReportsDue
<1>2. IInv => ReportsDue
  BY <1>1 DEF ReportsDue
<1>3. QED BY <1>2, Invariant, PTL

\* The worker and the threads of a pull only use a client that lives.
THEOREM ClientAlwaysAlive == Spec => []ClientAlive
<1>1. IInv => ClientAlive
  BY DEF IInv, TypeOK, ClientAlive
<1>2. QED BY <1>1, Invariant, PTL

\* The hand-over of a client never deadlocks: connectToServer blocks the GUI thread
\* on a worker that has the request, and that waits for no event to be served.
THEOREM HandOverAlwaysEnds == Spec => []HandOverEnds
<1>1. ASSUME IInv, gui # "idle" PROVE HandOverEnds
  <2>1. gui \in Waits /\ context # "Fetch"
    BY <1>1 DEF IInv, TypeOK, WaitsFor, Waits
  <2>2. ~mixed => \A t \in Topics : pull[t] \in {"none", "reported"}
    BY <1>1, <2>1 DEF IInv, OnePlace, Due
  <2>3. QED BY <1>1, <2>1, <2>2 DEF IInv, WaitsFor, HandOverEnds
<1>2. IInv => HandOverEnds
  BY <1>1 DEF HandOverEnds
<1>3. QED BY <1>2, Invariant, PTL
=============================================================================
