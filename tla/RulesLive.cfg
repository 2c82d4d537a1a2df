\* One rules file, loaded again and again, under the fairness of the threads.
CONSTANTS
  x = x
  y = y
  NoName = NoName
  Text = Text
  NoData = NoData
  NoFile = NoFile
  Topics = {x, y}
  MaxNumber = 0
  RuleFiles <- OneFile
  FileFails = FALSE
  MaxTriggers = 1
  MaxWrites = 0
SPECIFICATION FairSpec
PROPERTIES
  QuestionsEnd
  TriggersServed
  ReloadEndsUnlessAsked
  StopsUnlessAsked
CHECK_DEADLOCK FALSE
