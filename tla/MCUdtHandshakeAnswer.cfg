SPECIFICATION Spec
CONSTANTS
  Clients <- OneClient
  MaxData = 1
INVARIANT SecondAnswerMeansConnected
CHECK_DEADLOCK FALSE
