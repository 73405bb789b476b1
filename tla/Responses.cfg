\* Answers and publications, ids that come round; the counter and the
\* int a request keeps its id in have the same width.
SPECIFICATION ResponsesSpec
CONSTANTS
  Null = Null
  LongMax = 4
  IntMax = 4
  MaxUnanswered = 3
INVARIANTS
  TypeOK
  AnswersResolved
  AnsweredForgotten
  IdsDistinct
  Understood
