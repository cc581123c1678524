CONSTANTS
  first = first
  second = second
  work = work
  home = home
  workFile = workFile
  homeFile = homeFile
  Runs <- TwoRuns
  Items <- TwoItems
  Files <- TwoFiles
  Sanitize <- EachItsOwn
  MaxStarts = 3
  MaxChanges = 1
  LoginPolls = 2
  FallbackPolls = 1
  ManualPolls = 3
  SlackPolls = 1
  NoRun = none
  MaxFollowed = 2
SPECIFICATION FairSpec
INVARIANTS SignInTypeOK ConsentGranted
PROPERTIES RefusedOnlyIfDisturbed EveryRunEnds
CHECK_DEADLOCK FALSE
