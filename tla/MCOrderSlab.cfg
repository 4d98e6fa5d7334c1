SPECIFICATION SlabSpec
CONSTANTS
    Ids = {o1, o2, o3, o4}
    Meta = {m1, m2}
    NoMeta = NoMeta
INVARIANT IndexSound
INVARIANT NoSlotLeak
PROPERTY ImplementsMap
