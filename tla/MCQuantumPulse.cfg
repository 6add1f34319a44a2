SPECIFICATION Spec
CONSTANTS Scenes = {s1}
          Synchronous = {s1}
          Vsync = TRUE
          Happens = {"change", "animation", "window", "hide", "deviceLost", "exit"}
          None = None
INVARIANTS OnePulse DirtyAgrees
CHECK_DEADLOCK FALSE
