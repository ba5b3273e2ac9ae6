CONSTANTS
  Nyms = {n1, n2}
  MaxMsgs = 2
  Tokens = {t1, t2}
  Refused = {2}
  MaxCrashes = 1
  None = None
SPECIFICATION FairSpec
INVARIANT QueueSound
PROPERTIES ImplementsOutbox EventuallySent
