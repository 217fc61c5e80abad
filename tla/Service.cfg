SPECIFICATION ProbesSpec
CONSTANTS
  MaxDeliveries = 2
  MaxConns = 1
INVARIANTS ProbeSafe NoSendOnClosed ExitTellsFailure ReadyAnswerHonest
PROPERTIES DeadInstanceExits ShutdownCompletes
CHECK_DEADLOCK FALSE
