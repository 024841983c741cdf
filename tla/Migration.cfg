SPECIFICATION FairSpec
CONSTANTS
  N = 17
  Alters <- MCAlters
  Rewrites <- MCRewrites
  Needs <- MCNeeds
INVARIANTS RecordedPrefix TablesComeFirst RunsMigrated
PROPERTIES GetsToRun
