\* An int that is narrower than the counter.
SPECIFICATION ResponsesSpec
CONSTANTS
  Null = Null
  LongMax = 7
  IntMax = 3
  MaxUnanswered = 2
INVARIANT IdsAgree
