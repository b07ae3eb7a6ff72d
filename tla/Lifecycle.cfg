SPECIFICATION Spec
CONSTANTS
  MaxData = 2
  MaxVisits = 2
  MaxKeys = 1
INVARIANTS
  WorkAddsUp
  RunsWhileGuarded
  NoLostWakeup
  NoLostData
  SocketIsIdle
  NeverStuck
  StopsOnlyIfTyped
PROPERTIES
  KeepsTransfer
  AnswerArrives
  QuitReturns
CHECK_DEADLOCK FALSE
