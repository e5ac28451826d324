SPECIFICATION FairSpec
CONSTANTS
  c1 = c1
  c2 = c2
  c3 = c3
  v1 = v1
  v2 = v2
  a = a
  b = b
  r1 = r1
  r2 = r2
  None = None
  Conn <- TwoConns
  VoterIds <- OneVoter
  Eleitores <- OneVoter
  Candidates <- OneCandidate
  Receipts <- OneReceipt
  DbFaults = FALSE
  MaxRequests = 2
  MaxStops = 1
PROPERTIES
  DisconnectNoticed
  RequestsAnswered
CHECK_DEADLOCK FALSE
