SPECIFICATION FairSpec
CONSTANTS
  None = None
  SubId <- TwoSubs
  Outcomes <- HostAnswers
  Value = {"v"}
  Dest = {"mail", "host"}
  Mailbox = {"mail"}
  MaxRows = 3
  MaxMatches = 2
  MaxBatch = 1
  MaxFailures = 2
  BackoffBase = 2
  BackoffMax = 4
  Burst = 1
  Elapsed = {2}
  MaxEdits = 1
  MaxFaults = 1
INVARIANTS NotifiedWasAcknowledged NoNeedlessRedelivery FailuresBounded OvertakenOnce
PROPERTIES EventuallyNotified BackoffRespected
