SPECIFICATION Spec
CONSTANTS Size = 4
          MaxSeeks = 1
          Tolerances = {0}
          PushResults = {"ok"}
          Truncates = FALSE
          SeekAnswers = {FALSE}
          RefusalLoses = TRUE
INVARIANTS DataIntact
CHECK_DEADLOCK FALSE
