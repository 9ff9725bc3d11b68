SPECIFICATION FairSpec
CONSTANTS
  t1 = t1
  t2 = t2
  Threads = {t1, t2}
  NoThread = NoThread
  Ids <- TwoIds
  Default = "default"
  Enabled <- SomeLevels
  Programs <- TwoPrograms
  Arguments <- SomeArguments
  Format <- TwoFormats
  Values <- SomeValues
  Customs <- OneCustom
  Callbacks = {"file", "own"}
  Flags = {"MultiLoggerSupport"}
  LoggingLevel = "Global"
  ThreadSafe = FALSE
  KMax = 3
  MaxLevel = 9
  Matches <- SomeMatches
  NoLevel = NoLevel
INVARIANT DispatchIsExclusive
