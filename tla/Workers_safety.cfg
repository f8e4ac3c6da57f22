SPECIFICATION FairSpec
CONSTANTS
  Job <- AllJobs
  Body = {"main", "incremental", "regular"}
  MaxAsks = 2
  CliVersion <- CliOne
  MaxSymlinkHops = 6
  CopyDirectory <- TemporaryDirectory
INVARIANTS
  TypeOK
  NothingIsLeftBehind
  AnswerIsTheChilds
  EveryRequestIsOnItsWay
  CopyCompilesTheProject
  NotesHelp
PROPERTY
  SettlesInTime
CHECK_DEADLOCK FALSE
