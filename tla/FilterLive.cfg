SPECIFICATION FairSpec
CONSTANTS
  Results <- ValidResults
  Responses <- AllResponses
  Formats <- AllFormats
  MaxChain = 2
PROPERTY CallReturns
PROPERTY LegalCompletes
\* Upstream stops when everything was sent or the request failed.
CHECK_DEADLOCK FALSE
