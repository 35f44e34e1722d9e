\* shutdown_join_all(None), as the unit test calls it, with t1 spawning t2
\* from its body: join_all holds the join lock while it awaits t1, and t1
\* waits for that lock to push t2's handle.  Both stop for good, so
\* deadlock is the expected end and not reported as such.
CONSTANTS
    Tasks <- MCTasks
    GroupOf <- MCGroupOf
    MainShutsDown = TRUE
    JoinTimeout = FALSE
    Wasm = FALSE
    Pollers <- MCPollers
    Spawner <- MCSpawner
SPECIFICATION FairSpec
CHECK_DEADLOCK FALSE
PROPERTY RootTasksStop
