SPECIFICATION Spec
CONSTANTS
  old = old
  new = new
  a = a
  b = b
  None = None
  NoName = NoName
  CAs <- TwoCAs
  Candidates <- TwoCandidates
  NameLength = 10
  MaxLen = 63
  Typed <- TypedIds
INVARIANTS
  EndsReleaseEverything
  ShutdownOnOpenSocket
  ConnectedIsVerified
  VoteIsWhatWasChosen
PROPERTIES
  ConnectReturns
CHECK_DEADLOCK FALSE
