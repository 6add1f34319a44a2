SPECIFICATION SSpec
CONSTANTS Tasks = {t1, t2}
          None = None
          CancelSites = {"event"}
          CallSites = {"event", "stateListener", "valueListener"}
          AnyThread = FALSE
INVARIANT StateAgreesWithFuture
CHECK_DEADLOCK FALSE
