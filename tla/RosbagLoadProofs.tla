-------------------------- MODULE RosbagLoadProofs --------------------------
(***************************************************************************)
(* Theorems about RosbagLoad for any bag, checked by TLAPS.                *)
(***************************************************************************)
EXTENDS RosbagLoad, FiniteSetTheorems, TLAPS

\* Messages can be counted.
LEMMA Counts ==
  ASSUME NEW S \in SUBSET Messages
  PROVE  IsFiniteSet(S) /\ Cardinality(S) \in Nat
  BY BagAssumption, FS_Subset, FS_CardinalityType

\* Messages counted twice as many are the same.
LEMMA SameCount ==
  ASSUME NEW S \in SUBSET Messages, NEW T \in SUBSET S, Cardinality(S) = Cardinality(T)
  PROVE  S = T
  BY Counts, FS_Subset

\* The counts of a control record are numbers.
LEMMA CountTypes ==
  ASSUME TypeOK
  PROVE  /\ Cardinality(Of(requested)) \in Nat
         /\ Cardinality(Of(chosen)) \in Nat
         /\ Cardinality(written) \in Nat
         /\ Emitted(pass, written) \in Nat
<1>1. Of(requested) \in SUBSET Messages /\ Of(chosen) \in SUBSET Messages
  BY DEF Of
<1>2. written \in SUBSET Messages /\ written \cap bag.decodable \in SUBSET Messages
  BY DEF TypeOK
<1>3. Cardinality(written) \in Nat /\ Cardinality(written \cap bag.decodable) \in Nat
  BY <1>2, Counts
<1>4. QED BY <1>1, <1>3, Counts DEF Emitted

\* Reading the standard output keeps the types of the decoder.
LEMMA OutputTypes ==
  ASSUME TypeOK, ReadsOutput
  PROVE  got' \subseteq Messages /\ finished' \in BOOLEAN /\ data' \in [Messages -> Nat]
<1>1. \A m \in Messages : data[m] + In(m, (written \ got) \cap Decodes(pass)) \in Nat
  BY DEF TypeOK, In
<1>2. QED BY <1>1 DEF TypeOK, ReadsOutput

\* Reading the standard error keeps the types of the records.
LEMMA ControlTypes ==
  ASSUME TypeOK, ReadsControl
  PROVE  control' \in Controls /\ warned' \in BOOLEAN
<1>1. Cardinality(Of(requested)) \in Int /\ Cardinality(written) \in Int /\ Emitted(pass, written) \in Int
  BY CountTypes
<1>2. control' \in Controls
  BY <1>1 DEF TypeOK, ReadsControl, Controls
<1>3. QED BY <1>2 DEF TypeOK, ReadsControl

\* The initial state satisfies the invariant.
LEMMA InitInv == Init => IInv
<1> SUFFICES ASSUME Init PROVE IInv
  OBVIOUS
<1>1. TypeOK
  <2>1. control \in Controls
    BY DEF Init, Controls
  <2>2. data \in [Messages -> Nat] /\ merged \in [Messages -> Nat]
    BY DEF Init
  <2>3. QED BY <2>1, <2>2 DEF Init, TypeOK, Stages, Workers
<1>2. PassInv
  BY DEF Init, PassInv
<1>3. ReadyInv
  BY DEF Init, ReadyInv, Before
<1>4. TurnInv /\ AcceptInv /\ ReturnInv /\ EndInv
  BY DEF Init, TurnInv, Turning, AcceptInv, ReturnInv, EndInv
<1>5. QED BY <1>1, <1>2, <1>3, <1>4 DEF IInv

-----------------------------------------------------------------------------
\* Steps keep the types.

\* The worker.
LEMMA WorkerType == ASSUME TypeOK, Worker PROVE TypeOK'
<1> USE DEF TypeOK, stage, decoder, result, Workers
<1>1. CASE WorkerInforms
  BY <1>1 DEF WorkerInforms
<1>2. CASE WorkerWrites
  BY <1>2 DEF WorkerWrites, Yield, Of
<1>3. CASE WorkerCloses
  BY <1>3 DEF WorkerCloses
<1>4. CASE WorkerReports
  BY <1>4 DEF WorkerReports
<1>5. CASE WorkerExits
  BY <1>5 DEF WorkerExits
<1>6. CASE WorkerFails
  BY <1>6 DEF WorkerFails
<1>7. QED BY <1>1, <1>2, <1>3, <1>4, <1>5, <1>6 DEF Worker

\* The loader's loop.
LEMMA LoaderType == ASSUME TypeOK, Loader PROVE TypeOK'
<1>1. CASE StartWorker
  BY <1>1 DEF TypeOK, StartWorker, stage, process, decoder, Workers, Stages
<1>2. CASE ReadOutput
  <2>1. got' \subseteq Messages /\ finished' \in BOOLEAN /\ data' \in [Messages -> Nat]
    BY <1>2, OutputTypes DEF ReadOutput, TypeOK
  <2>2. noticed' \in BOOLEAN /\ error' \in BOOLEAN
    BY <1>2 DEF ReadOutput, TypeOK
  <2>3. QED BY <1>2, <2>1, <2>2 DEF TypeOK, ReadOutput, stage, process, Stages
<1>3. CASE ReadControl
  <2>1. control' \in Controls /\ warned' \in BOOLEAN
    BY <1>3, ControlTypes DEF ReadControl
  <2>2. QED BY <1>3, <2>1 DEF TypeOK, ReadControl, stage, process, decoder, Stages
<1>4. CASE Check
  BY <1>4 DEF TypeOK, Check, Killed, stage, decoder, Workers, Stages
<1>5. CASE Drain
  <2>1. got' \subseteq Messages /\ finished' \in BOOLEAN /\ data' \in [Messages -> Nat]
    BY <1>5, OutputTypes DEF Drain, TypeOK
  <2>2. control' \in Controls /\ warned' \in BOOLEAN
    BY <1>5, ControlTypes DEF Drain
  <2>3. error' \in BOOLEAN /\ pc' \in Stages
    BY <1>5 DEF TypeOK, Drain, Stages
  <2>4. QED BY <1>5, <2>1, <2>2, <2>3 DEF TypeOK, Drain, stage, process
<1>6. CASE Reject
  BY <1>6 DEF TypeOK, Reject, stage, process, decoder, Stages
<1>7. CASE Accept
  <2>1. control' \in Controls
    BY <1>7, CountTypes DEF Accept, Controls, TypeOK
  <2>2. warned' \in BOOLEAN
    BY <1>7 DEF Accept, RawWarns, TypeOK
  <2>3. QED BY <1>7, <2>1, <2>2 DEF TypeOK, Accept, stage, process, decoder, Stages
<1>8. CASE FallBack
  <2>1. Failed \subseteq Topics
    BY BagAssumption DEF Failed, Unknown
  <2>2. QED BY <1>8, <2>1 DEF TypeOK, FallBack, process, decoder, Protocols, Stages
<1>9. QED BY <1>1, <1>2, <1>3, <1>4, <1>5, <1>6, <1>7, <1>8 DEF Loader

\* Every step.
LEMMA NextType == ASSUME TypeOK, [Next]_vars PROVE TypeOK'
<1>1. CASE Worker
  BY <1>1, WorkerType
<1>2. CASE Loader
  BY <1>2, LoaderType
<1>3. CASE Inspect
  <2>1. chosen' \subseteq Topics /\ requested' \subseteq Topics
    BY <1>3, BagAssumption DEF Inspect, TypeOK
  <2>2. QED BY <1>3, <2>1 DEF TypeOK, Inspect, process, decoder, result, Stages
<1>4. CASE Cancel
  BY <1>4 DEF TypeOK, Cancel, stage, process, decoder, result
<1>5. CASE Finish
  BY <1>5 DEF TypeOK, Finish, stage, process, decoder, result, Stages
<1>6. CASE UNCHANGED vars
  BY <1>6 DEF TypeOK, vars, stage, process, decoder, result
<1>7. QED BY <1>1, <1>2, <1>3, <1>4, <1>5, <1>6 DEF Next

-----------------------------------------------------------------------------
\* Steps keep the rest of the invariant.

\* What depends on the bag and the pass only.
LEMMA SameStage ==
  ASSUME UNCHANGED bag, UNCHANGED stage
  PROVE  /\ Of(requested)' = Of(requested)
         /\ Yield' = Yield
         /\ Decodes(pass)' = Decodes(pass)
         /\ \A m \in Messages : Before(m)' = Before(m)
         /\ Failed' = Failed
         /\ PassInv' <=> PassInv
  BY DEF stage, Of, Topic, Yield, Decodes, Before, In, Failed, Unknown, PassInv

\* What is decoded depends on what was read as well.
LEMMA SameData ==
  ASSUME UNCHANGED bag, UNCHANGED stage, UNCHANGED got, UNCHANGED data
  PROVE  DataInv' <=> DataInv
  BY SameStage DEF DataInv, In

\* What a load that succeeds knows.
LEMMA SameDone ==
  ASSUME UNCHANGED bag, UNCHANGED stage, UNCHANGED got, UNCHANGED data, UNCHANGED worker
  PROVE  DoneInv' <=> DoneInv
  BY SameStage, SameData DEF DoneInv, stage

\* A worker runs in the loader's loop, or after a load that fails.
LEMMA WorkerInv == ASSUME IInv, Worker PROVE IInv'
<1>1. worker = "running" /\ UNCHANGED <<bag, pc, stage, decoder, result, outcome, merged>>
  BY DEF Worker, WorkerInforms, WorkerWrites, WorkerCloses, WorkerReports, WorkerExits, WorkerFails
<1>2. TypeOK'
  BY WorkerType DEF IInv
<1>3. PassInv'
  BY <1>1, SameStage DEF IInv
<1>4. ReadyInv' /\ AcceptInv'
  BY <1>1 DEF IInv, ReadyInv, AcceptInv
<1>5. ~DoneInv
  BY <1>1 DEF DoneInv
<1>6. ReturnInv' /\ EndInv'
  BY <1>1, <1>5 DEF IInv, ReturnInv, EndInv, result
<1>7. ASSUME pc \in Turning \cup {"accept"} PROVE (PipeInv /\ DataInv)'
  <2>1. PipeInv /\ DataInv
    BY <1>7 DEF IInv, TurnInv
  <2>2. DataInv'
    BY <1>1, <2>1, SameData DEF decoder, result
  <2>3. Yield' = Yield /\ UNCHANGED <<got, finished>>
    BY <1>1, SameStage DEF decoder
  <2> USE DEF PipeInv
  <2>4. CASE WorkerInforms
    BY <2>1, <2>2, <2>3, <2>4 DEF WorkerInforms
  <2>5. CASE WorkerWrites
    BY <2>1, <2>2, <2>3, <2>5 DEF WorkerWrites
  <2>6. CASE WorkerCloses
    BY <2>1, <2>2, <2>3, <2>6 DEF WorkerCloses
  <2>7. CASE WorkerReports
    BY <2>1, <2>2, <2>3, <2>7 DEF WorkerReports
  <2>8. CASE WorkerExits
    BY <2>1, <2>2, <2>3, <2>8 DEF WorkerExits
  <2>9. CASE WorkerFails
    BY <2>1, <2>2, <2>3, <2>9 DEF WorkerFails
  <2>10. QED BY <2>2, <2>4, <2>5, <2>6, <2>7, <2>8, <2>9 DEF Worker
<1>8. TurnInv'
  BY <1>1, <1>7 DEF TurnInv
<1>9. QED BY <1>2, <1>3, <1>4, <1>6, <1>8 DEF IInv

\* A worker starts with empty pipes.
LEMMA StartInv == ASSUME IInv, StartWorker PROVE IInv'
<1>1. TypeOK'
  BY LoaderType DEF IInv, Loader
<1>2. pc = "start" /\ UNCHANGED <<bag, stage, data, outcome, merged>>
  BY DEF StartWorker
<1>3. PassInv'
  BY <1>2, SameStage DEF IInv
<1>4. ReadyInv' /\ AcceptInv' /\ ReturnInv' /\ EndInv'
  BY <1>2 DEF StartWorker, IInv, ReadyInv, AcceptInv, ReturnInv, EndInv
<1>5. ASSUME pc' \in Turning \cup {"accept"} PROVE (PipeInv /\ DataInv)'
  <2>1. /\ worker' = "running" /\ written' = {} /\ got' = {}
        /\ ~closed' /\ ~finished' /\ end' = "none"
    BY <1>5 DEF StartWorker, Turning
  <2>2. \A m \in Messages : data'[m] = Before(m)'
    BY <1>2, SameStage DEF IInv, ReadyInv
  <2>3. DataInv'
    <3>1. \A m \in Messages : Before(m)' \in Int /\ In(m, got \cap Decodes(pass))' = 0
      BY <2>1 DEF Before, In
    <3>2. QED BY <2>2, <3>1 DEF DataInv
  <2>4. QED BY <2>1, <2>3 DEF PipeInv
<1>6. QED BY <1>1, <1>3, <1>4, <1>5 DEF IInv, TurnInv

\* What is read off the standard output has been decoded, or is invalid.
LEMMA OutputInv ==
  ASSUME TypeOK, PipeInv, DataInv, ReadsOutput,
         UNCHANGED bag, UNCHANGED stage, UNCHANGED written
  PROVE  DataInv'
<1>1. ASSUME NEW m \in Messages
      PROVE  data'[m] = Before(m)' + In(m, got \cap Decodes(pass))'
  <2>1. data[m] = Before(m) + In(m, got \cap Decodes(pass))
    BY DEF DataInv
  <2>2. data'[m] = data[m] + In(m, (written \ got) \cap Decodes(pass))
    BY DEF ReadsOutput
  <2>3. In(m, written \cap Decodes(pass)) =
          In(m, got \cap Decodes(pass)) + In(m, (written \ got) \cap Decodes(pass))
    BY DEF PipeInv, In
  <2>4. In(m, got \cap Decodes(pass))' = In(m, written \cap Decodes(pass))
    BY SameStage DEF ReadsOutput, In
  <2>5. Before(m) \in Int /\ Before(m)' = Before(m)
    BY SameStage DEF Before, In
  <2>6. /\ In(m, got \cap Decodes(pass)) \in Int
        /\ In(m, (written \ got) \cap Decodes(pass)) \in Int
    BY DEF In
  <2>7. QED BY <2>1, <2>2, <2>3, <2>4, <2>5, <2>6
<1>2. QED BY <1>1 DEF DataInv

\* One turn of the loop.
LEMMA ReadInv == ASSUME IInv, ReadOutput PROVE IInv'
<1>1. TypeOK'
  BY LoaderType DEF IInv, Loader
<1>2. /\ pc = "read" /\ pc' = "control"
      /\ UNCHANGED <<bag, stage, process, outcome, merged>>
  BY DEF ReadOutput
<1>3. PipeInv /\ DataInv
  BY <1>2 DEF IInv, TurnInv, Turning
<1>4. DataInv'
  <2>1. CASE ReadsOutput
    BY <1>2, <1>3, <2>1, OutputInv DEF IInv, process
  <2>2. CASE UNCHANGED <<got, finished, data>>
    BY <1>2, <1>3, <2>2, SameData
  <2>3. QED BY <2>1, <2>2 DEF ReadOutput
<1>5. PipeInv'
  <2>1. Yield' = Yield
    BY <1>2, SameStage
  <2>2. QED BY <1>2, <1>3, <2>1 DEF ReadOutput, ReadsOutput, PipeInv, process
<1>6. PassInv'
  BY <1>2, SameStage DEF IInv
<1>7. ReadyInv' /\ AcceptInv' /\ ReturnInv' /\ EndInv'
  BY <1>2 DEF IInv, ReadyInv, AcceptInv, ReturnInv, EndInv
<1>8. QED BY <1>1, <1>4, <1>5, <1>6, <1>7 DEF IInv, TurnInv

\* The two steps of a turn that read no output.
LEMMA TurnStep == ASSUME IInv, ReadControl \/ Check PROVE IInv'
<1>1. TypeOK'
  BY LoaderType DEF IInv, Loader
<1>2. /\ pc \in {"control", "check"} /\ pc' \in Turning
      /\ UNCHANGED <<bag, stage, decoder, written, closed, info, end, data, outcome, merged>>
      /\ worker' = worker \/ (worker = "running" /\ worker' = "killed")
  BY DEF ReadControl, Check, Killed, Turning, process
<1>3. PipeInv /\ DataInv
  BY <1>2 DEF IInv, TurnInv, Turning
<1>4. DataInv'
  BY <1>2, <1>3, SameData DEF decoder
<1>5. PipeInv'
  <2>1. Yield' = Yield
    BY <1>2, SameStage
  <2>2. QED BY <1>2, <1>3, <2>1 DEF PipeInv, decoder
<1>6. PassInv'
  BY <1>2, SameStage DEF IInv
<1>7. ReadyInv' /\ AcceptInv' /\ ReturnInv' /\ EndInv'
  BY <1>2 DEF IInv, ReadyInv, AcceptInv, ReturnInv, EndInv, Turning
<1>8. QED BY <1>1, <1>4, <1>5, <1>6, <1>7 DEF IInv, TurnInv

\* The drain: a worker that exited has closed its stream, of which all is read.
LEMMA DrainInv == ASSUME IInv, Drain PROVE IInv'
<1>1. TypeOK'
  BY LoaderType DEF IInv, Loader
<1>2. /\ pc = "drain" /\ pc' \in {"return", "accept"}
      /\ UNCHANGED <<bag, stage, process, canceled, outcome, merged>>
  BY DEF Drain
<1>3. PipeInv /\ DataInv
  BY <1>2 DEF IInv, TurnInv, Turning
<1>4. DataInv'
  <2>1. CASE ReadsOutput
    BY <1>2, <1>3, <2>1, OutputInv DEF IInv, process
  <2>2. CASE UNCHANGED <<got, finished, data>>
    BY <1>2, <1>3, <2>2, SameData
  <2>3. QED BY <2>1, <2>2 DEF Drain
<1>5. PipeInv'
  <2>1. Yield' = Yield
    BY <1>2, SameStage
  <2>2. QED BY <1>2, <1>3, <2>1 DEF Drain, ReadsOutput, PipeInv, process
<1>6. PassInv'
  BY <1>2, SameStage DEF IInv
<1>7. AcceptInv'
  <2> SUFFICES ASSUME pc' = "accept"
               PROVE  /\ worker' = "exited" /\ got' = written'
                      /\ control'.info = Cardinality(Of(requested)')
                      /\ control'.messages = Cardinality(written')
    BY DEF AcceptInv
  <2>1. ~error /\ worker = "exited"
    BY <1>2 DEF Drain
  <2>2. end = "DONE" /\ info
    BY <1>3, <2>1 DEF PipeInv
  <2>3. ReadsOutput /\ ReadsControl
    BY <2>1 DEF Drain
  <2>4. control'.info = Cardinality(Of(requested)) /\ control'.messages = Cardinality(written)
    BY <2>2, <2>3 DEF ReadsControl
  <2>5. Of(requested)' = Of(requested)
    BY <1>2, SameStage
  <2>6. QED BY <1>2, <2>1, <2>3, <2>4, <2>5 DEF process, ReadsOutput
<1>8. ReturnInv'
  BY <1>2 DEF Drain, ReturnInv
<1>9. ReadyInv' /\ EndInv'
  BY <1>2 DEF IInv, ReadyInv, EndInv
<1>10. QED BY <1>1, <1>4, <1>5, <1>6, <1>7, <1>8, <1>9 DEF IInv, TurnInv

\* What Complete proves: the reader yielded all that the index counts.
LEMMA CompleteReads ==
  ASSUME IInv, pc = "accept", Complete
  PROVE  /\ worker = "exited" /\ DataInv
         /\ got = Of(requested) /\ got \subseteq bag.readable
<1>1. worker = "exited" /\ got = written /\ written \subseteq Yield /\ DataInv
  BY DEF IInv, AcceptInv, TurnInv, PipeInv
<1>2. Cardinality(Of(requested)) = Cardinality(written)
  BY DEF Complete, IInv, AcceptInv
<1>3. Of(requested) \in SUBSET Messages /\ written \in SUBSET Of(requested)
  BY <1>1 DEF Of, Yield
<1>4. written = Of(requested)
  BY <1>2, <1>3, SameCount
<1>5. QED BY <1>1, <1>4 DEF Yield

\* The loader rejects or accepts what it has read.
LEMMA VerdictInv == ASSUME IInv, Reject \/ Accept PROVE IInv'
<1>1. TypeOK'
  BY LoaderType DEF IInv, Loader
<1>2. /\ pc = "accept" /\ pc' = "return"
      /\ UNCHANGED <<bag, stage, process, decoder, canceled, data, outcome, merged>>
  BY DEF Reject, Accept
<1>3. PassInv'
  BY <1>2, SameStage DEF IInv
<1>4. ReadyInv' /\ TurnInv' /\ AcceptInv' /\ EndInv'
  BY <1>2 DEF IInv, ReadyInv, TurnInv, Turning, AcceptInv, EndInv
<1>5. ReturnInv'
  <2>1. CASE Reject
    BY <2>1 DEF Reject, ReturnInv
  <2>2. CASE Accept
    <3>1. DoneInv
      BY <1>2, <2>2, CompleteReads DEF Accept, DoneInv
    <3>2. DoneInv'
      BY <1>2, <3>1, SameDone DEF process, decoder
    <3>3. QED BY <3>2 DEF ReturnInv
  <2>3. QED BY <2>1, <2>2
<1>6. QED BY <1>1, <1>3, <1>4, <1>5 DEF IInv

\* The fallback starts from a complete first pass.
LEMMA FallBackInv == ASSUME IInv, FallBack PROVE IInv'
<1>1. TypeOK'
  BY LoaderType DEF IInv, Loader
<1>2. /\ pc = "accept" /\ pc' = "start" /\ pass = "raw" /\ pass' = "binary"
      /\ requested' = Failed
      /\ UNCHANGED <<bag, protocol, chosen, process, decoder, data, outcome, merged>>
  BY DEF FallBack
<1>3. pass = protocol /\ requested = chosen
  BY <1>2 DEF IInv, PassInv
<1>4. worker = "exited" /\ DataInv /\ got = Of(chosen) /\ got \subseteq bag.readable
  BY <1>2, <1>3, CompleteReads DEF FallBack
<1>5. PassInv'
  <2>1. requested' = {Wire[TopicOf[c]] : c \in {d \in Connections \ bag.known : TopicOf[d] \in chosen}}
    BY <1>2, <1>3 DEF Failed, Unknown
  <2>2. Of(chosen)' = Of(chosen)
    BY <1>2 DEF Of, Topic
  <2>3. QED BY <1>2, <1>3, <1>4, <2>1, <2>2 DEF PassInv
<1>6. ReadyInv'
  <2>1. ASSUME NEW m \in Messages PROVE data'[m] = Before(m)'
    <3>1. data[m] = In(m, Of(chosen) \cap Decodes("raw"))
      BY <1>2, <1>3, <1>4 DEF DataInv, Before, In
    <3>2. Before(m)' = In(m, Of(chosen) \cap bag.readable \cap Decodes("raw"))
      BY <1>2, <1>3 DEF Before, In, Of, Topic, Decodes
    <3>3. QED BY <1>2, <1>4, <3>1, <3>2 DEF In
  <2>2. QED BY <1>2, <1>4, <2>1 DEF ReadyInv, process
<1>7. TurnInv' /\ AcceptInv' /\ ReturnInv' /\ EndInv'
  BY <1>2 DEF IInv, TurnInv, Turning, AcceptInv, ReturnInv, EndInv
<1>8. QED BY <1>1, <1>5, <1>6, <1>7 DEF IInv

\* The choice of topics starts a load, or there is none.
LEMMA InspectInv == ASSUME IInv, Inspect PROVE IInv'
<1>1. TypeOK'
  BY NextType DEF IInv, Next
<1>2. /\ pc = "inspect" /\ pc' \in {"start", "end"}
      /\ UNCHANGED <<bag, protocol, pass, process, decoder, result, merged>>
  BY DEF Inspect
<1>3. pass = protocol /\ outcome = "none" /\ worker \in {"none", "exited"}
  BY <1>2 DEF IInv, ReadyInv, EndInv
<1>4. PassInv'
  <2>1. CASE UNCHANGED <<chosen, requested>>
    BY <1>2, <1>3, <2>1, SameStage DEF IInv, stage
  <2>2. CASE requested' = chosen'
    BY <1>2, <1>3, <2>2 DEF PassInv
  <2>3. QED BY <2>1, <2>2 DEF Inspect
<1>5. ReadyInv'
  <2>1. \A m \in Messages : data[m] = 0
    BY <1>2, <1>3 DEF IInv, ReadyInv, Before
  <2>2. \A m \in Messages : Before(m)' = 0
    BY <1>2, <1>3 DEF Before
  <2>3. QED BY <1>2, <1>3, <2>1, <2>2 DEF ReadyInv, process, result
<1>6. TurnInv' /\ AcceptInv' /\ ReturnInv'
  BY <1>2 DEF TurnInv, Turning, AcceptInv, ReturnInv
<1>7. EndInv'
  BY <1>2, <1>3 DEF Inspect, IInv, EndInv
<1>8. QED BY <1>1, <1>4, <1>5, <1>6, <1>7 DEF IInv

\* Only a load that the loader accepted is merged.
LEMMA FinishInv == ASSUME IInv, Finish PROVE IInv'
<1>1. TypeOK'
  BY NextType DEF IInv, Next
<1>2. /\ pc = "return" /\ pc' = "end"
      /\ UNCHANGED <<bag, stage, process, decoder, result>>
  BY DEF Finish
<1>3. PassInv'
  BY <1>2, SameStage DEF IInv
<1>4. ReadyInv' /\ TurnInv' /\ AcceptInv' /\ ReturnInv'
  BY <1>2 DEF ReadyInv, TurnInv, Turning, AcceptInv, ReturnInv
<1>5. outcome = "none"
  BY <1>2 DEF IInv, EndInv
<1>6. outcome' # "none" /\ (outcome' # "loaded" => UNCHANGED merged)
  BY DEF Finish
<1>7. ASSUME outcome' = "loaded" PROVE DoneInv' /\ merged' = data'
  <2>1. ~canceled /\ ~error /\ merged' = data
    BY <1>7 DEF Finish
  <2>2. DoneInv
    BY <1>2, <2>1 DEF IInv, ReturnInv
  <2>3. DoneInv'
    BY <1>2, <2>2, SameDone DEF process, decoder, result
  <2>4. QED BY <1>2, <2>1, <2>3 DEF result
<1>8. EndInv'
  BY <1>2, <1>5, <1>6, <1>7 DEF IInv, EndInv
<1>9. QED BY <1>1, <1>3, <1>4, <1>8 DEF IInv

\* A step that leaves all but the flag of the Cancel button alone.
LEMMA IdleInv == ASSUME IInv, Cancel \/ UNCHANGED vars PROVE IInv'
<1>1. TypeOK'
  BY NextType DEF IInv, Next
<1>2. UNCHANGED <<bag, pc, stage, process, decoder, result, outcome, merged>>
  BY DEF Cancel, vars
<1>3. PassInv'
  BY <1>2, SameStage DEF IInv
<1>4. Yield' = Yield /\ Of(requested)' = Of(requested)
  BY <1>2, SameStage
<1>5. (DataInv' <=> DataInv) /\ (DoneInv' <=> DoneInv)
  BY <1>2, SameData, SameDone DEF process, decoder, result
<1>6. PipeInv' <=> PipeInv
  BY <1>2, <1>4 DEF PipeInv, process, decoder
<1>7. ReadyInv'
  BY <1>2, SameStage DEF IInv, ReadyInv, process, result, stage
<1>8. AcceptInv'
  BY <1>2, <1>4 DEF IInv, AcceptInv, process, decoder, result
<1>9. TurnInv' /\ ReturnInv' /\ EndInv'
  BY <1>2, <1>5, <1>6 DEF IInv, TurnInv, ReturnInv, EndInv, result
<1>10. QED BY <1>1, <1>3, <1>7, <1>8, <1>9 DEF IInv

\* The invariant is inductive.
LEMMA NextInv == ASSUME IInv, [Next]_vars PROVE IInv'
<1>1. CASE Worker
  BY <1>1, WorkerInv
<1>2. CASE Loader
  BY <1>2, StartInv, ReadInv, TurnStep, DrainInv, VerdictInv, FallBackInv DEF Loader
<1>3. CASE Inspect
  BY <1>3, InspectInv
<1>4. CASE Finish
  BY <1>4, FinishInv
<1>5. CASE Cancel \/ UNCHANGED vars
  BY <1>5, IdleInv
<1>6. QED BY <1>1, <1>2, <1>3, <1>4, <1>5 DEF Next

-----------------------------------------------------------------------------
\* Theorems.

\* Every reachable state satisfies the invariant: runWorkerProcess keeps track of
\* what the worker wrote, and of what the first of two passes decoded.
THEOREM Invariant == Spec => []IInv
<1>1. Init => IInv
  BY InitInv
<1>2. IInv /\ [Next]_vars => IInv'
  BY NextInv
<1>3. QED BY <1>1, <1>2, PTL DEF Spec

\* The variables of the loader, its worker and the GUI keep their types.
THEOREM TypeCorrect == Spec => []TypeOK
<1>1. IInv => TypeOK
  BY DEF IInv
<1>2. QED BY <1>1, Invariant, PTL

\* A failed or cancelled readDataFromFile never merges anything.
THEOREM MergesAllOrNothing == Spec => []AllOrNothing
<1>1. IInv => AllOrNothing
  BY DEF IInv, EndInv, AllOrNothing
<1>2. QED BY <1>1, Invariant, PTL

\* What the data of the two passes adds up to, message by message, in a load
\* that succeeded.
LEMMA MergedIs ==
  ASSUME IInv, outcome = "loaded", NEW m \in Messages
  PROVE  /\ merged[m] = Before(m) + In(m, got \cap Decodes(pass))
         /\ got = Of(requested) /\ got \subseteq bag.readable
         /\ pass = "raw" => Failed = {}
  BY DEF IInv, EndInv, DoneInv, DataInv

\* A successful load has merged every message of the chosen topics that the index
\* counts and that can be decoded.
THEOREM NothingEverLost == Spec => []NothingLost
<1>1. ASSUME IInv, outcome = "loaded", PlainNames, NEW m \in Of(chosen)
      PROVE  m \in bag.readable /\ (Decodable(m) => merged[m] > 0)
  <2>1. m \in Messages /\ Topic(m) \in chosen
    BY DEF Of
  <2>2. ConnectionOf[m] \in Connections /\ Topic(m) = TopicOf[ConnectionOf[m]]
    BY <2>1, BagAssumption DEF Topic
  <2>3. /\ merged[m] = Before(m) + In(m, got \cap Decodes(pass))
        /\ got = Of(requested) /\ got \subseteq bag.readable
        /\ pass = "raw" => Failed = {}
    BY <1>1, <2>1, MergedIs
  <2>4. CASE pass = protocol /\ requested = chosen
    <3>1. m \in got /\ m \in bag.readable
      BY <1>1, <2>3, <2>4
    <3>2. pass = "raw" => ConnectionOf[m] \in bag.known
      BY <2>1, <2>2, <2>3, <2>4 DEF Failed, Unknown
    <3>3. Decodable(m) => m \in Decodes(pass)
      BY <2>1, <2>4, <3>2 DEF Decodable, Decodes, IInv, TypeOK, Bags
    <3>4. Before(m) = 0
      BY <2>4 DEF Before
    <3>5. QED BY <2>3, <3>1, <3>3, <3>4 DEF In
  <2>5. CASE /\ protocol = "raw" /\ pass = "binary" /\ Of(chosen) \subseteq bag.readable
             /\ requested = {Wire[TopicOf[c]] : c \in {d \in Connections \ bag.known : TopicOf[d] \in chosen}}
    <3>1. m \in bag.readable
      BY <1>1, <2>5
    <3>2. CASE ConnectionOf[m] \in bag.known
      <4>1. Decodable(m) => Before(m) = 1
        BY <1>1, <2>1, <2>5, <3>1, <3>2 DEF Decodable, Before, In, Decodes
      <4>2. In(m, got \cap Decodes(pass)) \in {0, 1}
        BY DEF In
      <4>3. QED BY <2>3, <3>1, <4>1, <4>2
    <3>3. CASE ConnectionOf[m] \notin bag.known
      <4>1. Wire[Topic(m)] = Topic(m)
        BY <1>1, <2>1 DEF PlainNames
      <4>2. Topic(m) \in requested
        BY <2>1, <2>2, <2>5, <3>3, <4>1
      <4>3. m \in got
        BY <2>1, <2>3, <4>2 DEF Of
      <4>4. Decodable(m) => In(m, got \cap Decodes(pass)) = 1
        BY <2>5, <3>3, <4>3 DEF Decodable, Decodes, In
      <4>5. Before(m) \in {0, 1}
        BY DEF Before, In
      <4>6. QED BY <2>3, <3>1, <4>4, <4>5
    <3>4. QED BY <3>2, <3>3
  <2>6. QED BY <1>1, <2>4, <2>5 DEF IInv, PassInv
<1>2. IInv => NothingLost
  BY <1>1 DEF NothingLost
<1>3. QED BY <1>2, Invariant, PTL

\* The two passes together merge a message at most once, and none of a topic that
\* was not chosen.
THEOREM AlwaysOnceEach == Spec => []OnceEach
<1>1. ASSUME IInv, PlainNames, SameSchemas, NEW m \in Messages
      PROVE  merged[m] <= 1 /\ (merged[m] = 1 => m \in Of(chosen))
  <2>1. CASE outcome # "loaded"
    BY <1>1, <2>1 DEF IInv, EndInv
  <2>2. CASE outcome = "loaded"
    <3>1. /\ merged[m] = Before(m) + In(m, got \cap Decodes(pass))
          /\ got = Of(requested)
      BY <1>1, <2>2, MergedIs
    <3>2. In(m, got \cap Decodes(pass)) \in {0, 1} /\ Before(m) \in {0, 1}
      BY DEF In, Before
    <3>3. CASE pass = protocol /\ requested = chosen
      <4>1. Before(m) = 0
        BY <3>3 DEF Before
      <4>2. In(m, got \cap Decodes(pass)) = 1 => m \in Of(chosen)
        BY <3>1, <3>3 DEF In
      <4>3. QED BY <3>1, <3>2, <4>1, <4>2
    <3>4. CASE /\ protocol = "raw" /\ pass = "binary"
               /\ requested = {Wire[TopicOf[c]] : c \in {d \in Connections \ bag.known : TopicOf[d] \in chosen}}
      <4>1. Before(m) = 1 => m \in Of(chosen) /\ ConnectionOf[m] \in bag.known
        BY <3>4 DEF Before, In, Decodes
      <4>2. ASSUME In(m, got \cap Decodes(pass)) = 1
            PROVE  m \in Of(chosen) /\ ConnectionOf[m] \notin bag.known
        <5>1. Topic(m) \in requested
          BY <3>1, <4>2 DEF In, Of
        <5>2. PICK c \in Connections : /\ c \notin bag.known /\ TopicOf[c] \in chosen
                                       /\ Topic(m) = Wire[TopicOf[c]]
          BY <3>4, <5>1
        <5>3. Topic(m) = TopicOf[c]
          BY <1>1, <5>2 DEF PlainNames
        <5>4. m \in Of(chosen)
          BY <5>2, <5>3 DEF Of
        <5>5. ConnectionOf[m] \in Connections /\ TopicOf[ConnectionOf[m]] = TopicOf[c]
          BY <5>3, BagAssumption DEF Topic
        <5>6. ConnectionOf[m] \notin bag.known
          BY <1>1, <5>2, <5>5 DEF SameSchemas
        <5>7. QED BY <5>4, <5>6
      <4>3. QED BY <3>1, <3>2, <4>1, <4>2
    <3>5. QED BY <1>1, <3>3, <3>4 DEF IInv, PassInv
  <2>3. QED BY <2>1, <2>2
<1>2. IInv => OnceEach
  BY <1>1 DEF OnceEach
<1>3. QED BY <1>2, Invariant, PTL

\* A load comes to an end: what of it is a safety property.

\* A loader that starts another turn has not noticed the end of its worker yet, and
\* has no error.
TurnKnown ==
  /\ pc = "read" => ~noticed
  /\ pc \in {"inspect", "start", "read", "accept"} => ~error

LEMMA TurnKnownStep == ASSUME TypeOK, TurnKnown, [Next]_vars PROVE TurnKnown'
<1> USE DEF TurnKnown
<1>1. CASE Loader
  <2>1. CASE StartWorker
    BY <2>1 DEF StartWorker
  <2>2. CASE ReadOutput \/ ReadControl
    BY <2>2 DEF ReadOutput, ReadControl
  <2>3. CASE Check
    BY <2>3 DEF Check, decoder
  <2>4. CASE Drain
    BY <2>4 DEF Drain
  <2>5. CASE Reject \/ Accept \/ FallBack
    BY <2>5 DEF Reject, Accept, FallBack
  <2>6. QED BY <1>1, <2>1, <2>2, <2>3, <2>4, <2>5 DEF Loader
<1>2. CASE Worker
  BY <1>2 DEF Worker, WorkerInforms, WorkerWrites, WorkerCloses, WorkerReports, WorkerExits,
     WorkerFails, decoder, result
<1>3. CASE Inspect \/ Cancel \/ Finish \/ UNCHANGED vars
  BY <1>3 DEF Inspect, Cancel, Finish, vars, decoder, result
<1>4. QED BY <1>1, <1>2, <1>3 DEF Next

\* Each step of the loader, and the end of the load, are a descent.
LEMMA LoaderDescends ==
  ASSUME TypeOK, TurnKnown, cancel \/ worker # "running", Loader \/ Finish
  PROVE  StepsLeft' < StepsLeft
<1> USE DEF TypeOK, StepsLeft, StepsOfPass, TurnsLeft, Pending, stage
<1>1. CASE StartWorker
  BY <1>1 DEF StartWorker
<1>2. CASE ReadOutput
  <2>1. /\ pc = "read" /\ pc' = "control" /\ UNCHANGED <<cancel, pass, worker, written, closed>>
        /\ noticed' \in BOOLEAN /\ error' \in BOOLEAN
        /\ ~Pending' \/ error'
        /\ ~Pending /\ worker # "running" => noticed' \/ error'
    BY <1>2 DEF ReadOutput, ReadsOutput, process
  <2>2. TurnsLeft' <= TurnsLeft
    BY <2>1
  <2>3. TurnsLeft \in 0 .. 2 /\ TurnsLeft' \in 0 .. 2
    OBVIOUS
  <2>4. StepsOfPass' = 5 + 3 * TurnsLeft' /\ StepsOfPass = 6 + 3 * TurnsLeft
    BY <2>1
  <2>5. QED BY <2>1, <2>2, <2>3, <2>4
<1>3. CASE ReadControl
  BY <1>3 DEF ReadControl, process, decoder
<1>4. CASE Check
  <2>1. pc = "check" /\ UNCHANGED <<cancel, pass, error, noticed, got, written, finished, closed>>
    BY <1>4 DEF Check, decoder
  <2>2. CASE cancel \/ error \/ noticed
    <3>1. pc' = "drain" /\ TurnsLeft = 0
      BY <1>4, <2>1, <2>2 DEF Check
    <3>2. QED BY <2>1, <3>1
  <2>3. CASE ~(cancel \/ error \/ noticed)
    <3>1. pc' = "read" /\ Pending' = Pending
      BY <1>4, <2>1, <2>3 DEF Check
    <3>2. TurnsLeft = (IF Pending THEN 2 ELSE 1) /\ TurnsLeft' = (IF Pending THEN 1 ELSE 0)
      BY <2>1, <2>3, <3>1
    <3>3. QED BY <2>1, <3>1, <3>2
  <2>4. QED BY <2>2, <2>3
<1>5. CASE Drain
  BY <1>5 DEF Drain
<1>6. CASE Reject \/ Accept
  BY <1>6 DEF Reject, Accept
<1>7. CASE FallBack
  BY <1>7 DEF FallBack
<1>8. CASE Finish
  BY <1>8 DEF Finish
<1>9. QED BY <1>1, <1>2, <1>3, <1>4, <1>5, <1>6, <1>7, <1>8 DEF Loader

\* The worker that is still written off by a cancellation, the dialog and another
\* click of Cancel do not send the loader back.
LEMMA OthersDescend ==
  ASSUME TypeOK, TurnKnown, cancel \/ worker # "running",
         Worker \/ Inspect \/ Cancel \/ UNCHANGED vars
  PROVE  StepsLeft' <= StepsLeft
<1> USE DEF TypeOK, StepsLeft, StepsOfPass, TurnsLeft, Pending, stage, process, decoder, result
<1>1. CASE Worker
  BY <1>1 DEF Worker, WorkerInforms, WorkerWrites, WorkerCloses, WorkerReports, WorkerExits, WorkerFails
<1>2. CASE Inspect
  BY <1>2 DEF Inspect
<1>3. CASE Cancel \/ UNCHANGED vars
  BY <1>3 DEF Cancel, vars
<1>4. QED BY <1>1, <1>2, <1>3

\* A loader that is cancelled, or whose worker is gone, is never sent back: it returns
\* after the steps StepsLeft counts.
THEOREM LoadAlwaysDescends == Spec => LoadDescends
<1>1. Init => TurnKnown
  BY DEF Init, TurnKnown
<1>2. TypeOK /\ TurnKnown /\ [Next]_vars => TurnKnown'
  BY TurnKnownStep
<1>3. TypeOK /\ TypeOK' /\ TurnKnown /\ [Next]_vars =>
        [cancel \/ worker # "running" =>
           /\ StepsLeft' <= StepsLeft
           /\ Loader \/ Finish => StepsLeft' < StepsLeft]_vars
  <2> SUFFICES ASSUME TypeOK, TypeOK', TurnKnown, Next, cancel \/ worker # "running"
               PROVE  /\ StepsLeft' <= StepsLeft
                      /\ Loader \/ Finish => StepsLeft' < StepsLeft
    OBVIOUS
  <2>1. StepsLeft \in Int
    BY DEF TypeOK, Stages, StepsLeft, StepsOfPass, TurnsLeft
  <2>2. StepsLeft' \in Int
    BY DEF TypeOK, Stages, StepsLeft, StepsOfPass, TurnsLeft
  <2>3. CASE Loader \/ Finish
    BY <2>1, <2>2, <2>3, LoaderDescends
  <2>4. CASE Worker \/ Inspect \/ Cancel
    BY <2>4, LoaderDescends, OthersDescend
  <2>5. QED BY <2>3, <2>4 DEF Next
<1>4. QED BY <1>1, <1>2, <1>3, TypeCorrect, PTL DEF Spec, LoadDescends

-----------------------------------------------------------------------------
\* A worker that failed or was killed is not started over, and the load that ran
\* it does not succeed.
THEOREM FailureAlwaysFinal == Spec => FailureIsFinal
<1>1. ASSUME IInv, [Next]_vars, worker \in {"failed", "killed"}
      PROVE  worker' = worker /\ outcome' # "loaded"
  <2>1. pc \notin {"inspect", "start", "accept"} /\ ~DoneInv
    BY <1>1 DEF IInv, ReadyInv, AcceptInv, DoneInv
  <2>2. outcome # "loaded"
    BY <1>1, <2>1 DEF IInv, EndInv
  <2>3. CASE Worker
    BY <1>1, <2>3 DEF Worker, WorkerInforms, WorkerWrites, WorkerCloses, WorkerReports,
                      WorkerExits, WorkerFails
  <2>4. CASE Loader
    BY <1>1, <2>1, <2>2, <2>4 DEF Loader, StartWorker, ReadOutput, ReadControl, Check, Killed,
                                  Drain, Reject, Accept, FallBack, process
  <2>5. CASE Finish
    <3>1. worker' = worker
      BY <2>5 DEF Finish, process
    <3>2. outcome' # "loaded"
      BY <1>1, <2>1, <2>5 DEF Finish, IInv, ReturnInv
    <3>3. QED BY <3>1, <3>2
  <2>6. CASE Inspect \/ Cancel \/ UNCHANGED vars
    BY <2>1, <2>2, <2>6 DEF Inspect, Cancel, vars, process
  <2>7. QED BY <1>1, <2>3, <2>4, <2>5, <2>6 DEF Next
<1>2. IInv /\ [Next]_vars =>
        [(worker \in {"failed", "killed"}) => (worker' = worker /\ outcome' # "loaded")]_vars
  BY <1>1
<1>3. QED BY <1>2, Invariant, PTL DEF Spec, FailureIsFinal

-----------------------------------------------------------------------------
\* The refinement of AtomicLoad.

\* A message of a topic asked of the second pass has a connection without a
\* parser, and belongs to a topic that was chosen.
LEMMA AskedAgain ==
  ASSUME BagAssumption, PlainNames, SameSchemas, NEW m \in Messages,
         requested = {Wire[TopicOf[c]] : c \in {d \in Connections \ bag.known : TopicOf[d] \in chosen}}
  PROVE  m \in Of(requested) <=> m \in Of(chosen) /\ ConnectionOf[m] \notin bag.known
<1>1. ConnectionOf[m] \in Connections /\ Topic(m) = TopicOf[ConnectionOf[m]]
  BY BagAssumption DEF Topic
<1>2. ASSUME m \in Of(chosen), ConnectionOf[m] \notin bag.known
      PROVE  m \in Of(requested)
  <2>1. Topic(m) \in chosen
    BY <1>2 DEF Of
  <2>2. Wire[Topic(m)] = Topic(m)
    BY <2>1 DEF PlainNames
  <2>3. Topic(m) \in requested
    BY <1>1, <1>2, <2>1, <2>2
  <2>4. QED BY <2>3 DEF Of
<1>3. ASSUME m \in Of(requested)
      PROVE  m \in Of(chosen) /\ ConnectionOf[m] \notin bag.known
  <2>1. Topic(m) \in requested
    BY <1>3 DEF Of
  <2>2. PICK c \in Connections : /\ c \notin bag.known /\ TopicOf[c] \in chosen
                                 /\ Topic(m) = Wire[TopicOf[c]]
    BY <2>1
  <2>3. Topic(m) = TopicOf[c]
    BY <2>2 DEF PlainNames
  <2>4. m \in Of(chosen)
    BY <2>2, <2>3 DEF Of
  <2>5. ConnectionOf[m] \notin bag.known
    BY <1>1, <2>2, <2>3 DEF SameSchemas
  <2>6. QED BY <2>4, <2>5
<1>4. QED BY <1>2, <1>3

\* What one pass of the protocol selected decodes of the topics chosen is what
\* can be decoded of them.
LEMMA OnePassDecodes ==
  ASSUME TypeOK, DoneInv, pass = protocol, requested = chosen, NEW m \in Of(chosen)
  PROVE  m \in Decodes(pass) <=> Decodable(m)
<1>1. m \in Messages /\ ConnectionOf[m] \in Connections /\ TopicOf[ConnectionOf[m]] \in chosen
  BY BagAssumption DEF Of, Topic
<1>2. pass = "raw" => ConnectionOf[m] \in bag.known
  BY <1>1 DEF DoneInv, Failed, Unknown
<1>3. QED BY <1>1, <1>2 DEF Decodes, Decodable, TypeOK, Bags

\* The data of a load that is about to succeed: once what can be decoded of what
\* was chosen, and nothing else.
LEMMA DataIsExact ==
  ASSUME TypeOK, PassInv, DoneInv
  PROVE  /\ Of(chosen) \subseteq bag.readable
         /\ PlainNames /\ SameSchemas =>
              data = [m \in Messages |->
                        IF m \in Of(chosen) \cap {n \in Messages : Decodable(n)} THEN 1 ELSE 0]
<1>1. Of(chosen) \subseteq bag.readable
  BY DEF PassInv, DoneInv
<1>2. ASSUME PlainNames, SameSchemas, NEW m \in Messages
      PROVE  data[m] = IF m \in Of(chosen) /\ Decodable(m) THEN 1 ELSE 0
  <2>1. data[m] = Before(m) + In(m, Of(requested) \cap Decodes(pass))
    BY DEF DoneInv, DataInv
  <2>2. CASE pass = protocol /\ requested = chosen
    <3>1. Before(m) = 0
      BY <2>2 DEF Before
    <3>2. m \in Of(chosen) => (m \in Decodes(pass) <=> Decodable(m))
      BY <2>2, OnePassDecodes
    <3>3. QED BY <2>1, <2>2, <3>1, <3>2 DEF In
  <2>3. CASE /\ protocol = "raw" /\ pass = "binary"
             /\ requested = {Wire[TopicOf[c]] : c \in {d \in Connections \ bag.known : TopicOf[d] \in chosen}}
    <3>1. m \in Of(requested) <=> m \in Of(chosen) /\ ConnectionOf[m] \notin bag.known
      BY <1>2, <2>3, AskedAgain, BagAssumption
    <3>2. Before(m) = In(m, Of(chosen) \cap Decodes("raw"))
      BY <1>1, <2>3 DEF Before, In
    <3>3. CASE ConnectionOf[m] \in bag.known
      <4>1. In(m, Of(requested) \cap Decodes(pass)) = 0
        BY <3>1, <3>3 DEF In
      <4>2. m \in Decodes("raw") <=> Decodable(m)
        BY <2>3, <3>3 DEF Decodes, Decodable, TypeOK, Bags
      <4>3. QED BY <2>1, <3>2, <4>1, <4>2 DEF In
    <3>4. CASE ConnectionOf[m] \notin bag.known
      <4>1. Before(m) = 0
        BY <3>2, <3>4 DEF In, Decodes
      <4>2. m \in Decodes(pass) <=> Decodable(m)
        BY <2>3, <3>4 DEF Decodes, Decodable
      <4>3. QED BY <2>1, <3>1, <3>4, <4>1, <4>2 DEF In
    <3>5. QED BY <3>3, <3>4
  <2>4. QED BY <2>2, <2>3 DEF PassInv
<1>3. data = [m \in Messages |-> data[m]]
  BY DEF TypeOK
<1>4. QED BY <1>1, <1>2, <1>3

\* A step that neither chooses nor ends the load is not seen.
LEMMA Unseen ==
  ASSUME UNCHANGED <<bag, protocol, chosen, outcome, merged>>
  PROVE  UNCHANGED Promise!avars
  BY DEF Promise!avars, Of, Topic, PlainNames, SameSchemas, Decodable

\* The choice of topics, or the end of a load without one.
LEMMA InspectRefines == ASSUME IInv, Inspect PROVE Promise!Choose \/ Promise!GiveUp
<1>1. /\ outcome = "none" /\ Of(chosen) = {}
      /\ UNCHANGED <<bag, protocol, merged>>
  BY DEF Inspect, IInv, EndInv, ReadyInv, Of
<1>2. {m \in Messages : Decodable(m)}' = {m \in Messages : Decodable(m)}
  BY <1>1 DEF Decodable
<1>3. CASE UNCHANGED chosen /\ outcome' \in {"failed", "cancelled"}
  <2>1. Of(chosen)' = Of(chosen) /\ (PlainNames /\ SameSchemas)' = (PlainNames /\ SameSchemas)
    BY <1>1, <1>3 DEF Of, Topic, PlainNames, SameSchemas
  <2>2. QED BY <1>1, <1>2, <1>3, <2>1 DEF Promise!GiveUp
<1>4. CASE UNCHANGED outcome
  <2>1. Of(chosen)' \in SUBSET Messages
    BY DEF Of
  <2>2. (PlainNames /\ SameSchemas)' \in BOOLEAN
    OBVIOUS
  <2>3. QED BY <1>1, <1>2, <1>4, <2>1, <2>2 DEF Promise!Choose
<1>5. QED BY <1>3, <1>4 DEF Inspect

\* The end of a load, with its data or without.
LEMMA FinishRefines == ASSUME IInv, Finish PROVE Promise!Load \/ Promise!GiveUp
<1>1. /\ pc = "return" /\ outcome = "none"
      /\ UNCHANGED <<bag, protocol, chosen>>
  BY DEF Finish, IInv, EndInv, stage
<1>2. /\ Of(chosen)' = Of(chosen)
      /\ (PlainNames /\ SameSchemas)' = (PlainNames /\ SameSchemas)
      /\ {m \in Messages : Decodable(m)}' = {m \in Messages : Decodable(m)}
  BY <1>1 DEF Of, Topic, PlainNames, SameSchemas, Decodable
<1>3. CASE outcome' \in {"failed", "cancelled"} /\ UNCHANGED merged
  BY <1>1, <1>2, <1>3 DEF Promise!GiveUp
<1>4. CASE ~canceled /\ ~error /\ outcome' = "loaded" /\ merged' = data
  <2>1. TypeOK /\ PassInv /\ DoneInv
    BY <1>1, <1>4 DEF IInv, ReturnInv
  <2>2. merged' \in [Messages -> Nat]
    BY <1>4, <2>1 DEF TypeOK
  <2>3. QED BY <1>1, <1>2, <1>4, <2>1, <2>2, DataIsExact DEF Promise!Load
<1>5. QED BY <1>3, <1>4 DEF Finish

LEMMA InitRefines == Init => Promise!AInit
<1> SUFFICES ASSUME Init PROVE Promise!AInit
  OBVIOUS
<1>1. Of(chosen) = {} /\ (PlainNames /\ SameSchemas) \in BOOLEAN
  BY DEF Init, Of
<1>2. bag.readable \subseteq Messages /\ {m \in Messages : Decodable(m)} \subseteq Messages
  BY DEF Init, Bags
<1>3. QED BY <1>1, <1>2 DEF Init, Promise!AInit

\* A load is atomic: the readDataFromFile of any bag merges each message chosen
\* that can be decoded once, or nothing, in one step, through both passes and
\* whatever fails.
THEOREM LoadIsAtomic == Spec => IsAtomicLoad
<1>1. IInv /\ [Next]_vars => [Promise!ANext]_Promise!avars
  <2> SUFFICES ASSUME IInv, [Next]_vars PROVE [Promise!ANext]_Promise!avars
    OBVIOUS
  <2>1. CASE Worker
    BY <2>1, Unseen DEF Worker, WorkerInforms, WorkerWrites, WorkerCloses, WorkerReports,
                        WorkerExits, WorkerFails, stage
  <2>2. CASE Loader
    BY <2>2, Unseen DEF Loader, StartWorker, ReadOutput, ReadControl, Check, Drain, Reject,
                        Accept, FallBack, stage
  <2>3. CASE Inspect
    BY <2>3, InspectRefines DEF Promise!ANext
  <2>4. CASE Finish
    BY <2>4, FinishRefines DEF Promise!ANext
  <2>5. CASE Cancel \/ UNCHANGED vars
    BY <2>5, Unseen DEF Cancel, vars, stage
  <2>6. QED BY <2>1, <2>2, <2>3, <2>4, <2>5 DEF Next
<1>2. QED BY <1>1, InitRefines, Invariant, PTL DEF Spec, IsAtomicLoad, Promise!ASpec

=============================================================================
