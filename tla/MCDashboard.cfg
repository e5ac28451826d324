SPECIFICATION DashboardSpec
CONSTANTS
  c1 = c1
  c2 = c2
  v1 = v1
  v2 = v2
  a = a
  b = b
  r1 = r1
  other = other
  long = long
  long24 = long24
  None = None
  Conn <- OneConn
  VoterIds <- TwoVoters
  Eleitores <- TwoVoters
  Candidates <- TwoCandidates
  Receipts <- OneReceipt
  DbFaults = FALSE
  MaxRequests = 2
  MaxStops = 1
  Passwords <- ThreePasswords
  Entry <- FirstColumns
INVARIANTS
  DashboardTypeOK
  VotesShownCoverAcks
  SnapshotCoherent
  ResultsAddUp
  EachWindowIsAuthorized
PROPERTIES
  SavedVotesReachTheScreen
CHECK_DEADLOCK FALSE
