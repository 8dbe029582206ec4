CONSTANTS
  Fns <- MCSecGroup
  MaxEntries <- MCMaxEntries
  MaxBuildId <- MCMaxBuildId
  MaxPaths <- MCMaxPaths
SPECIFICATION Spec
INVARIANT BuffersFreedOnReturn
CHECK_DEADLOCK FALSE
