\* Every sequence of up to three frames of five kinds, in reads of any size.
CONSTANTS
  Scripts <- ScriptsToCheck
  MaxRead = 27
SPECIFICATION Spec
INVARIANTS
  TypeOK
  FramesProcessed
CHECK_DEADLOCK FALSE
