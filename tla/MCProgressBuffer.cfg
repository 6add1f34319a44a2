SPECIFICATION Spec
CONSTANTS Size = 3
          MaxSeeks = 2
          Tolerances = {0, 1}
          PushResults = {"ok", "eos"}
          Truncates = TRUE
          SeekAnswers = {TRUE, FALSE}
          RefusalLoses = FALSE
INVARIANTS DataIntact InSequence EosAtEnd NoLostWakeup
PROPERTIES NoStrandedData LoopStops
CHECK_DEADLOCK FALSE
