SPECIFICATION FairSpec
CONSTANTS
    VideoIds = {v1}
    AudioIds = {a1}
    Slots = {s1, s2}
    Producers = {p1, p2}
    Callers = {t1}
    Cap = 1
    IdrCacheSize = 1
    Kinds = {"idr", "audio"}
    MaxFrames = 2
    NoSlot = NoSlot
    NoFrame = NoFrame
PROPERTIES BroadcastReturns UnsubscribeReturns
