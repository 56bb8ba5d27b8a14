SPECIFICATION Spec
CONSTANTS
  Ids = {1, 2, 3, 4}
  Answers <- MCAnswers
INVARIANT DeadlineEndsWaiting
CHECK_DEADLOCK FALSE
