SPECIFICATION AnswerSpec
CONSTANTS
  Chains <- MCChains
  MaxDocs = 1
INVARIANT ValidationAnswer
CHECK_DEADLOCK FALSE
