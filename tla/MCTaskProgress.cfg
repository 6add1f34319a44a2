SPECIFICATION Spec
CONSTANTS Threads = {t1, t2}
          Amounts <- SomeAmounts
          NaN = NaN
          MaxCalls = 3
INVARIANTS NotTorn WorkBounded
CHECK_DEADLOCK FALSE
