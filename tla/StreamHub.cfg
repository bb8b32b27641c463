SPECIFICATION Spec
CONSTANTS
    VideoIds = {v1, v2}
    AudioIds = {}
    Slots = {s1, s2}
    Producers = {p1}
    Callers = {t1, t2}
    Cap = 2
    IdrCacheSize = 1
    Kinds = {"delta", "idr", "bareIdr"}
    MaxFrames = 3
    NoSlot = NoSlot
    NoFrame = NoFrame
INVARIANTS
    NoBroadcastOnClosed
    DropsExact
    EveryConsumerOffered
    DeltasInOrder
    DrainHasOwner
SYMMETRY Symmetry
