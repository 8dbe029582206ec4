CONSTANT SecLen <- MCSecLen
SPECIFICATION Spec
INVARIANT ListFreedBeforeNextCall
PROPERTY Terminates
CHECK_DEADLOCK FALSE
