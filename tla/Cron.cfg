\* Two minutes and a half over New Year.
CONSTANTS
  Lists <- ListsToCheck
  Calendar <- NewYear
  FirstTicks = {590, 1197}
  LastTick = 1225
  Delays = {0, 5, 6}
SPECIFICATION Spec
INVARIANTS
  TypeOK
  OncePerMinute
  StartsAsWritten
  NoMinuteMissed
CHECK_DEADLOCK FALSE
