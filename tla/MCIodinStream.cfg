SPECIFICATION Spec
CONSTANTS
  Requests <- MCRequests
  RawBodies <- MCRawBodies
  Answers <- MCAnswers
  BufLen = 6
  MaxDo = 4
INVARIANTS
  TypeOK
  StepKept
  ExecAsSent
  ResponseIsAnswer
  StatusIsNew
  SucceedsInStep
  NoMutualWait
CHECK_DEADLOCK FALSE
