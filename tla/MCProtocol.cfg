SPECIFICATION Spec
CONSTANTS
  Base = 6
  Width = 2
  Commands <- SomeCommands
  Malformed <- Malformations
  Answers <- SomeAnswers
  MaxMsg = 12
  MaxArgs = 2
  TooBig <- TooBigError
  HardMin = 4
  WorthIt = 8
  ReadMax = 5
  MaxReqs = 2
  Pipes <- SomePipes
INVARIANT BuffersSound
PROPERTIES ImplementsExchange ClientEnds
CHECK_DEADLOCK FALSE
