SPECIFICATION Spec
CONSTANTS
  c1 = c1
  c2 = c2
  c3 = c3
  v1 = v1
  v2 = v2
  a = a
  b = b
  r1 = r1
  r2 = r2
  None = None
  Conn <- ThreeConns
  VoterIds <- OneVoter
  Eleitores <- OneVoter
  Candidates <- OneCandidate
  Receipts <- TwoReceipts
  DbFaults = TRUE
  MaxRequests = 1
  MaxStops = 1
SYMMETRY ConnSymmetry
INVARIANTS
  OneVotePerVoter
  AckedIsRecorded
  AckedOnce
CHECK_DEADLOCK FALSE
