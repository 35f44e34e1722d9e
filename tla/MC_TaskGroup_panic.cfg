CONSTANTS
    Tasks <- MCTasksRoot
    GroupOf <- MCGroupOfRoot
    MainShutsDown = FALSE
    JoinTimeout = FALSE
    Wasm = FALSE
    Pollers <- MCNoPollers
    Spawner <- MCSpawnerRoot
SPECIFICATION FairSpec
PROPERTY PanicShutsDownGroup
