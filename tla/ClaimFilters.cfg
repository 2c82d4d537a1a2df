\* The filter "aa/#" with names of one level: it takes "ab".
CONSTANTS
  MaxFilter = 4
  MaxName = 2
  SubNames <- FilterToRefute
  PubNames <- LevelsToRefute
SPECIFICATION Spec
INVARIANT
  FiltersAsSpecified
CHECK_DEADLOCK FALSE
