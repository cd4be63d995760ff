CONSTANTS
    vb = vb
    ib = ib
    st = st
    Scenarios <- MCScenarios
    Pieces = 2
    Data = {d1}
    Zero = Zero
    None = None
    ArenaBlocks = 1
    MaxFramesInFlight = 1
    FrameWord = 3
SPECIFICATION FairSpec
INVARIANTS NoStaleLoss SwitchIsSafe
PROPERTIES CallOrder ShadowIsCopy PresentReturns
