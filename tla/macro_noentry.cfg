CONSTANTS
  u1 = u1
  u2 = u2
  u3 = u3
  Units <- MCUnits
  Primary <- MCPrimary
  MaxOps <- MCMaxOps
  ByOffsetResults <- MCByOffsetAny
SPECIFICATION Spec
INVARIANT ListExamined
CHECK_DEADLOCK FALSE
