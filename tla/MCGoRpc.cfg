SPECIFICATION FairSpec
CONSTANTS
  Client <- MCClient
  Goroutine <- MCGoroutine
  ClientOf <- MCClientOf
  HasResult <- MCHasResult
  Program <- MCProgram
CHECK_DEADLOCK FALSE
INVARIANT TypeOK
INVARIANT ExecutedInOrder
INVARIANT AnswersOwn
PROPERTY EveryCallAnswered
