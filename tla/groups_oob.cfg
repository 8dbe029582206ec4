CONSTANTS
  Count = 4
  SectionChoices <- TableEndChoices
  HeapJunk <- MCHeapJunkAny
INIT Init
NEXT Next
INVARIANT GroupMembersInTable
CHECK_DEADLOCK FALSE
