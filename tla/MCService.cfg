SPECIFICATION SFairSpec
CONSTANTS Tasks = {t1, t2}
          None = None
          CancelSites = {}
          CallSites = {"event"}
          AnyThread = TRUE
INVARIANTS NoOrphan BoundTogether
PROPERTIES ServiceInOrder ServiceConcludes
CHECK_DEADLOCK FALSE
