SPECIFICATION FairSpec
CONSTANTS Scenes = {s1, s2}
          Synchronous = {}
          Vsync = FALSE
          Happens = {"change", "exit"}
          None = None
INVARIANTS PaintingHasJob LatchCovered FullRepaintKept
PROPERTIES WaitEnds ChangesArePainted
CHECK_DEADLOCK FALSE
