SPECIFICATION UFairSpec
CONSTANTS Threads = {t1, t2, t3}
          AllowNull = FALSE
          FxOvertakes = FALSE
          MaxCalls = 6
INVARIANTS AtMostOneInFlight LastUpdateShown
PROPERTIES EventuallyLatest
CHECK_DEADLOCK FALSE
