CONSTANTS
  u1 = u1
  u2 = u2
  u3 = u3
  Units <- MCUnits
  Primary <- MCPrimary
  MaxOps <- MCMaxOps
  ByOffsetResults <- MCByOffsetFound
SPECIFICATION Spec
INVARIANT ImportsExamined
INVARIANT ContextReleased
PROPERTY Terminates
CHECK_DEADLOCK FALSE
