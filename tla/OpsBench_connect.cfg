CONSTANTS
  Bytes = 1
  Endpoints = 2
  Half = 4
  Statements <- MCStatements
  Texts <- FewTexts
SPECIFICATION Spec
INVARIANTS
  FailsOnlyIfAllFail
CHECK_DEADLOCK FALSE
