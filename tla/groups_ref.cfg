CONSTANTS
  Count = 4
  SectionChoices <- MCSectionChoices
  HeapJunk <- MCHeapJunk
INIT Init
NEXT Next
INVARIANT
  ComdatNumbersDense
PROPERTIES
  GroupNumberStable
  ImplementsAbs
CHECK_DEADLOCK FALSE
