SPECIFICATION Spec
CONSTANTS
  Words <- AllWords
  Projects <- PolicyProject
  Settings <- SuffixedOnly
  Selections <- OnlyA
INVARIANT StatementsNameTargets
CHECK_DEADLOCK FALSE
