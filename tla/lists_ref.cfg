CONSTANTS
  Fns <- MCFns
  MaxCount <- MCMaxCount
SPECIFICATION Spec
INVARIANT NoUseAfterDealloc
INVARIANT ReleasedOnSuccess
CHECK_DEADLOCK FALSE
