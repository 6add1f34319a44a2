SPECIFICATION TFairSpec
CONSTANTS Tasks = {t1}
          CancelSites = {"background", "event", "stateListener", "runningListener", "valueListener", "handler"}
INVARIANTS OutcomeAvailable StateAgreesWithFuture HandlersTold
PROPERTIES InOrder Concludes
CHECK_DEADLOCK FALSE
