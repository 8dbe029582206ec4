CONSTANTS
  Fns <- MCExampled
  MaxCount <- MCMaxCount
  LineBound <- MCLineBound
SPECIFICATION Spec
PROPERTY Terminates
CHECK_DEADLOCK FALSE
