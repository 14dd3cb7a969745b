SPECIFICATION FairRequestSpec
CONSTANTS
  Results <- MCResults
  Responses <- MCResponses
  Formats <- MCFormats
  MaxChain = 1
  BufSize = 3
  LongestText = 40
INVARIANT DeliveredWhole
PROPERTY KeepsPromise
PROPERTY LegalDelivered
\* Upstream stops when everything was sent or the request failed.
CHECK_DEADLOCK FALSE
