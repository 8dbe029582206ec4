CONSTANTS
  MaxCount <- MCMaxCount
  MaxOffsets <- MCMaxOffsets
  MaxSpan <- MCMaxSpan
  RleLengths <- MCRleLengths
SPECIFICATION Spec
INVARIANT HeadReleasedOnReturn
PROPERTY Terminates
CHECK_DEADLOCK FALSE
