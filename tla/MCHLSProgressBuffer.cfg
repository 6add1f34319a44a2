SPECIFICATION Spec
CONSTANTS NumOfCachedSegments = 2
          Segments = 3
          SegmentSize = 1
          MaxSeeks = 2
          MaxFaults = 1
INVARIANTS InOrder FileClaimed EosAfterData
PROPERTIES AllDelivered FlushEnds
CHECK_DEADLOCK FALSE
