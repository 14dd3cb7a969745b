SPECIFICATION Spec
CONSTANTS
  Results <- AllResults
  Responses <- AllResponses
  Formats <- AllFormats
  MaxChain = 3
INVARIANT TypeOK
INVARIANT JsonIsPrefix
INVARIANT DoneIsComplete
INVARIANT LegalNeverFails
INVARIANT InStep
INVARIANT OneHeaderFirst
INVARIANT HeaderSentExact
INVARIANT RefusedIsAnswered
INVARIANT NeverMixed
\* Upstream stops when everything was sent or the request failed.
CHECK_DEADLOCK FALSE
