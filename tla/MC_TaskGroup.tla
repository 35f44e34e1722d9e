---------------------------- MODULE MC_TaskGroup ----------------------------
(* Two tasks in the root group and one in the subgroup; t2 is spawned by   *)
(* t1's body and polls is_shutting_down instead of registering.            *)
EXTENDS TaskGroup

MCTasks == {"t1", "t2", "t3"}
MCGroupOf == [t \in MCTasks |-> IF t = "t3" THEN "sub" ELSE "root"]
MCSpawner == [t \in MCTasks |-> IF t = "t2" THEN "t1" ELSE "main"]
MCPollers == {"t2"}
(* The same tasks, all spawned by main, for the wasm build.                *)
MCSpawnerMain == [t \in MCTasks |-> "main"]

(* One root task and one subgroup task, for the violation runs.            *)
MCTasksSmall == {"t1", "t3"}
MCGroupOfSmall == [t \in MCTasksSmall |-> IF t = "t3" THEN "sub" ELSE "root"]
MCSpawnerSmall == [t \in MCTasksSmall |-> "main"]
(* Two root tasks and no subgroup task, for the panic runs.               *)
MCTasksRoot == {"t1", "t2"}
MCGroupOfRoot == [t \in MCTasksRoot |-> "root"]
MCSpawnerRoot == [t \in MCTasksRoot |-> "main"]
MCNoPollers == {}
====
