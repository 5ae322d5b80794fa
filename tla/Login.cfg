SPECIFICATION Spec
CONSTANTS
  Request = {r1, r2}
  Email = {e1, e2}
  LinkAge = 1
  SessionAge = 1
  MaxLinks = 2
  MaxTime = 2
  MaxFaults = 1
SYMMETRY Interchangeable
INVARIANTS LinkSignsInOnce OnlyNewestLinkWorks SessionsOfMailboxOwner RefusedForGood LinkLostOnlyByFault WorksUntilExpiry
