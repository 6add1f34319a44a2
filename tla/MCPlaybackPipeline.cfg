SPECIFICATION FairSpec
CONSTANTS Calls = {"Play", "Pause", "Stop", "Seek", "RateZero", "RateOne"}
          MaxCalls = 2
          MaxProgress = 2
          MaxTroubles = 1
INVARIANTS TypeOK FreedLast DisposedQuietly StateAgrees
PROPERTIES StatusInOrder StallEnds DisposeEnds
CHECK_DEADLOCK FALSE
