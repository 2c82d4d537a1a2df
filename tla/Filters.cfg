\* Every filter of up to five characters with every name of up to four.
CONSTANTS
  MaxFilter = 5
  MaxName = 4
  SubNames <- FiltersToCheck
  PubNames <- NamesToCheck
SPECIFICATION Spec
INVARIANTS
  TypeOK
  ExactNames
  WildcardsMatch
CHECK_DEADLOCK FALSE
