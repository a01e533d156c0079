SPECIFICATION FairSpec
CONSTANTS
  Txns = {t1, t2, t3}
  b1 = b1
  b2 = b2
  k1 = k1
  Bodies = {b1, b2}
  Keys = {k1}
  NoKey = NoKey
  None = None
  Requests <- MCRequests
INVARIANTS
  TypeOK
  AcknowledgedSaveStored
  OneAuthorPerVersion
  RevisionsExact
  AppliedOncePerKey
  ReceiptsTruthful
  MinutesNeedTranscript
PROPERTIES
  RetryNeverSelfConflicts
  ForwardOnly
  ImplementsAtomicContent
  EveryRequestAnswered
