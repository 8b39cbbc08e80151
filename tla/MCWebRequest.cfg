SPECIFICATION Spec
CONSTANTS
  Names = {"a", "a_", ".._", "_"}
  trimmed <- MCTrimmed
  MaxParts = 5
  MaxHeaders = 2
  MaxBody = 3
  U32 = 8
  Asked <- MCAsked
INVARIANTS ResolvesAsWalk PagesGetWholeRequests
PROPERTIES RequestsAnswered
CHECK_DEADLOCK FALSE
