CONSTANTS
  k1 = k1
  n1 = n1
  n2 = n2
  None = None
  Conns = {c1, c2, b1, b2}
  Slots = {c1, c2}
  BackendSlots = {b1, b2}
  Split = TRUE
  Clients = {k1}
  KeepAlive = {k1}
  Requests <- MCRequests
  MaxCalls <- MCMaxCalls
  Nodes = {n1, n2}
  CandidateLists <- MCCandidateLists
  Codes = {200}
  RawAsks <- MCRawAsks
  ReplyLen = 1
SPECIFICATION FairSpec
INVARIANTS ResultsAreAnswers AnswersInOrder RoutedByItsKey
PROPERTIES AnsweredIsOver CallsReturn
CHECK_DEADLOCK FALSE
