SPECIFICATION Spec
CONSTANTS
  c1 = c1
  c2 = c2
  c3 = c3
  v1 = v1
  v2 = v2
  a = a
  b = b
  r1 = r1
  r2 = r2
  None = None
  Conn <- TwoConns
  VoterIds <- TwoVoters
  Eleitores <- OneVoter
  Candidates <- TwoCandidates
  Receipts <- OneReceipt
  DbFaults = FALSE
  MaxRequests = 2
  MaxStops = 1
SYMMETRY ConnSymmetry
INVARIANTS
  TypeOK
  OnlyEleitoresVote
  AckedIsRecorded
  RefusalIsJustified
  TallyNeverAhead
  CountersAgree
PROPERTIES
  ImplementsElection
CHECK_DEADLOCK FALSE
