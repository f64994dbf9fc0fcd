SPECIFICATION FairSpec
CONSTANTS
  Messages = {m1, m2}
  Consumers = {c1, c2}
  MaxRedeliverCount = 1
  MaxDisconnects = 1
  None = None
INVARIANTS
  TypeOK
  SentTwiceOnlyByFault
PROPERTIES
  ImplementsMailDelivery
  EveryMailSettled
