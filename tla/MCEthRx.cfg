SPECIFICATION TrafficSpec
CONSTANTS
    NRx = 3
    Frames = {f1, f2}
    Nothing = Nothing
    Burst = 1
INVARIANT RingInStep
PROPERTIES DeliversInOrder EveryFrameHandled
