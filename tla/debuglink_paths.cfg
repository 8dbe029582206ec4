CONSTANTS
  Fns <- MCDebuglink
  MaxEntries <- MCMaxEntries
  MaxBuildId <- MCMaxBuildId
  MaxPaths <- MCMaxPaths
SPECIFICATION Spec
INVARIANT AllPathsPrinted
CHECK_DEADLOCK FALSE
