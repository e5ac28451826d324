SPECIFICATION FairSystemSpec
CONSTANTS
  c1 = c1
  c2 = c2
  v1 = v1
  v2 = v2
  a = a
  b = b
  r1 = r1
  None = None
  Conn <- TwoSessions
  VoterIds <- OneVoter
  Eleitores <- OneVoter
  Candidates <- OneCandidate
  Receipts <- OneReceipt
  DbFaults = FALSE
  MaxRequests = 1
  MaxStops = 1
PROPERTIES
  SessionConcludes
  SessionReleasesItsThread
CHECK_DEADLOCK FALSE
