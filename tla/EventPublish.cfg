CONSTANTS
    p1 = p1  p2 = p2
    data = data  stop = stop
    Publishers = {p1, p2}
    Events = {data, stop}
    NoEvent = NoEvent
    Kind <- MCKind
    Asked <- MCAsked
    QueueSize = 2
    MaxSequence = 2
    MaxBoots = 1
SPECIFICATION Spec
INVARIANTS ResultIsReal UnpublishedIsInert AppliedInOrder
CHECK_DEADLOCK FALSE
