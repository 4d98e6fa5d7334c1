SPECIFICATION FairSpec
CONSTANTS
    MaxSeq = 6
    MaxFrame = 3
    max_buffered = 2
INVARIANT DeliveredInOrder
INVARIANT NothingStranded
INVARIANT BufferBounded
INVARIANT GapIsExact
PROPERTY GapsClose
