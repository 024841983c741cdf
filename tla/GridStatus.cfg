SPECIFICATION FairSpec
CONSTANTS
  HistoryCount = 3
  SkipCount = 2
  LoadsSettings = TRUE
  MaxCrashes = 2
  MaxDay = 2
INVARIANTS HistoryAlternates ToldTheState
PROPERTIES BatteryOncePerDay WarningsSpaced GridReported
