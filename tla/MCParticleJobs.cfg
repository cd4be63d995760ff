CONSTANTS
    NWorkers = 2
    GenWord = 2
    Scenarios <- MCScenarios
    MinParticles = 2
    MinPerChunk = 2
    Learn = 1
    Resample = 2
    Odd = odd
SPECIFICATION FairSpec
CHECK_DEADLOCK FALSE
INVARIANTS OneFiller NoSleepThrough
PROPERTIES FillIsClients JobEnds StopEnds
