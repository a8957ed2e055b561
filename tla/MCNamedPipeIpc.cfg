SPECIFICATION FairSpec
CONSTANTS
  Clients = {c1, c2}
  MaxTries = 2
  MaxRequests = 2
  MaxSessions = 2
  MaxCrashes = 1
INVARIANTS AnswerTruthful ServedIsAnswered QuietAfterStop
PROPERTIES SendReturns StopReturnsUnlessCreating
