SPECIFICATION FairSpec
CONSTANTS
  m1 = m1
  m2 = m2
  c1 = c1
  c2 = c2
  t1 = t1
  t2 = t2
  stripped = stripped
  Messages = {m1, m2}
  Connections = {c1, c2}
  Topics = {t1, t2, stripped}
  ConnectionOf <- ConnectionOfEach
  TopicOf <- TopicOfEach
  Wire <- Unchanged
CONSTRAINT OneOfTwins
CHECK_DEADLOCK FALSE
INVARIANTS
  NothingLost
PROPERTIES
  IsAtomicLoad
  FailureIsFinal
  LoadEnds
  CancelHonoured
