CONSTANTS
  Fns <- MCBothFns
  MaxCount <- MCMaxCount
  LineBound <- MCLineBound
SPECIFICATION Spec
INVARIANT NoUseAfterDealloc
INVARIANT DeallocOnce
CHECK_DEADLOCK FALSE
