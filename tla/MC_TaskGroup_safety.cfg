CONSTANTS
    Tasks <- MCTasks
    GroupOf <- MCGroupOf
    MainShutsDown = TRUE
    JoinTimeout = TRUE
    Wasm = FALSE
    Pollers <- MCPollers
    Spawner <- MCSpawner
SPECIFICATION FairSpec
INVARIANT TypeOK
INVARIANT JoinReportsPanics
INVARIANT JoinWaitsForSpawned
PROPERTY RootTasksStop
