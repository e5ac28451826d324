SPECIFICATION SystemSpec
CONSTANTS
  c1 = c1
  c2 = c2
  v1 = v1
  v2 = v2
  a = a
  b = b
  r1 = r1
  None = None
  Conn <- TwoSessions
  VoterIds <- TwoVoters
  Eleitores <- OneVoter
  Candidates <- TwoCandidates
  Receipts <- OneReceipt
  DbFaults = FALSE
  MaxRequests = 1
  MaxStops = 1
SYMMETRY SessionSymmetry
INVARIANTS
  SystemTypeOK
  ReceiptIsMyVote
  OneReceiptPerVoter
  RefusedSessionHasNoVote
CHECK_DEADLOCK FALSE
