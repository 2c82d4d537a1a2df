\* Three rules files, with failures to open the file.
CONSTANTS
  x = x
  y = y
  NoName = NoName
  Text = Text
  NoData = NoData
  NoFile = NoFile
  Topics = {x, y}
  MaxNumber = 0
  RuleFiles <- Files
  FileFails = TRUE
  MaxTriggers = 1
  MaxWrites = 0
SPECIFICATION Spec
INVARIANTS
  TypeOK
  EngineIsOneFile
PROPERTIES
  FreedUsedOnlyInReload
  ReadsAreSnapshots
CHECK_DEADLOCK FALSE
