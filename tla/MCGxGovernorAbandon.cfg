CONSTANTS
    StintMs = 3
    HoldMs = 4
    FirstProbeMs = 2
    HitchMs = 2
    MinFrames = 3
    MaxVoided = 2
    FrameMs = {1, 2, 3}
SPECIFICATION GovernorSpec
INVARIANT DirectOnlyIfFaster
