CONSTANTS
    Tasks <- MCTasksSmall
    GroupOf <- MCGroupOfSmall
    MainShutsDown = TRUE
    JoinTimeout = TRUE
    Wasm = FALSE
    Pollers <- MCNoPollers
    Spawner <- MCSpawnerSmall
SPECIFICATION FairSpec
PROPERTY SubgroupFollowsParent
