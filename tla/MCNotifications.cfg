\* Every message may be delivered or gone, so the system may stop.
SPECIFICATION FairSpec
CONSTANTS
  Notes = {n1, n2}
  Retries = 1
INVARIANTS SentWasSent SkippedIsSilent
PROPERTIES DeletedIsSilent QueuedEnds
CHECK_DEADLOCK FALSE
