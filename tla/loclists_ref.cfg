CONSTANT MaxCount <- MCMaxCount
SPECIFICATION Spec
INVARIANT HandlesReleasedOnReturn
INVARIANT NoUseAfterRelease
PROPERTY Terminates
CHECK_DEADLOCK FALSE
