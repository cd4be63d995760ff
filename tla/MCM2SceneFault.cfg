CONSTANTS
    RootWorkers = {1, 2}
    KidWorkers = {3, 4}
    MainThread = main
    Client = client
    MinParallel = 3
    MaxRoots = 5
    MaxTasks = 3
    SerialPasses = 1
    ProbeEvery = 3
    ProbeEnough = 1
    Sessions <- FaultSessions
SPECIFICATION SceneSpec
CHECK_DEADLOCK FALSE
INVARIANTS JoinMeansDone
