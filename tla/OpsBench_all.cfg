CONSTANTS
  Bytes = 1
  Endpoints = 2
  Half = 4
  Statements <- MCStatements
  Texts <- MCTexts
SPECIFICATION Spec
INVARIANTS
  TypeOK
  ExitTrue
PROPERTIES
  ArgumentsTrue
  SnapshotTrue
CHECK_DEADLOCK FALSE
