SPECIFICATION Spec
CONSTANTS
  Words <- AllWords
  Projects <- AllProjects
  Settings <- AllSettings
  Selections <- AllSelections
INVARIANTS
  TypeOK
  EveryDependencyIsBuilt
  ReadsAreDependencies
  CleanGraphIsAcyclic
  NothingIsLost
  InlineAssertionsGuardTheirTable
  GatesWaitForInlineAssertions
  SelectionIsWhatWasAsked
CHECK_DEADLOCK FALSE
