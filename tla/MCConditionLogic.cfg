CONSTANTS
  NumConditions = 4
  MaxTokens = 11

SPECIFICATION Spec
CHECK_DEADLOCK FALSE

INVARIANTS
  OnlyValueError
  DocumentedMeaning
