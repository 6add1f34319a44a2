SPECIFICATION TSpec
CONSTANTS Tasks = {t1}
          CancelSites = {"background"}
PROPERTY EndIsFinal
CHECK_DEADLOCK FALSE
