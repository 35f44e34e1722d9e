----------------------------- MODULE TaskGroup -----------------------------
(***************************************************************************)
(* The cooperative task group of src/fedimint-core/src/task.rs.            *)
(*                                                                         *)
(* A root group and one subgroup made from it with make_subgroup.  The     *)
(* processes are                                                           *)
(*   - main: spawns the tasks, makes the subgroup, then either calls       *)
(*     shutdown_join_all on the root (as the unit test does) or only       *)
(*     join_all, and finally join_all on the subgroup;                     *)
(*   - signal: the task spawned by install_kill_handler, which calls       *)
(*     shutdown on the root once a signal arrives;                         *)
(*   - one process per spawned task, whose body is the unit test's:        *)
(*     make_shutdown_rx, then wait for it; or, for a task in Pollers, a    *)
(*     loop on TaskHandle::is_shutting_down.  A task whose Spawner is     *)
(*     another task is spawned by that task's body, into the same group,   *)
(*     before it registers.                                                *)
(* Wasm selects the wasm build, where imp::spawn returns no JoinHandle.    *)
(* shutdown is a call that can nest (the subgroup handler calls shutdown   *)
(* again), so each caller keeps a stack of frames: the group being shut   *)
(* down and the handler it popped and has not yet run.                     *)
(***************************************************************************)
EXTENDS Naturals, Sequences, FiniteSets

CONSTANTS
    Tasks,          \* the tasks main spawns
    GroupOf,        \* [Tasks -> Groups]: the group each task is spawned in
    MainShutsDown,  \* main ends with shutdown_join_all rather than join_all
    JoinTimeout,    \* join_all is given Some(timeout)
    Wasm,           \* target_family = "wasm"
    Pollers,        \* the tasks that poll is_shutting_down
    Spawner         \* [Tasks -> Tasks \cup {"main"}]: who spawns each task

Groups == {"root", "sub"}

\* The handler registered by make_subgroup; the others are the
\* make_shutdown_rx handlers, identified by their task.
SubProp == "subprop"
Handlers == Tasks \cup {SubProp}
NoHandler == "none"
NoTask == "notask"

Callers == {"main", "signal"}

ASSUME /\ GroupOf \in [Tasks -> Groups]
       /\ MainShutsDown \in BOOLEAN
       /\ JoinTimeout \in BOOLEAN
       /\ Wasm \in BOOLEAN
       /\ Pollers \subseteq Tasks
       /\ Spawner \in [Tasks -> Tasks \cup {"main"}]
       \* a task spawns at most one task, into its own group, and only on
       \* the native build (the child spawn is not modelled for wasm)
       /\ \A u, v \in Tasks : Spawner[u] = Spawner[v] /\ Spawner[u] # "main" => u = v
       /\ \A u \in Tasks : Spawner[u] # "main" => GroupOf[u] = GroupOf[Spawner[u]] /\ ~Wasm

VARIABLES
    flag,       \* [Groups -> BOOLEAN]: is_shutting_down
    handlers,   \* [Groups -> Seq(Handlers)]: the on_shutdown Vec (a stack)
    join,       \* [Groups -> Seq(Tasks)]: the join VecDeque
    frames,     \* [Callers -> Seq(frame)]: the shutdown calls in progress
    ran,        \* [Handlers -> Nat]: how often each handler has run
    tpc,        \* [Tasks -> ...]: where each task is
    subMade,    \* make_subgroup has returned
    mpc,        \* where main is
    mtask,      \* the task main is pushing or awaiting
    mgrp,       \* the group main is joining
    errs,       \* join_all's errors vector, as a count
    elapsed,    \* [Groups -> BOOLEAN]: a join of that group timed out
    result,     \* [Groups -> {"pending", "ok", "err"}]: join_all's result
    spc,        \* where the signal task is
    missed      \* history, [Groups -> SUBSET Tasks]: the tasks running and
                \* not in the queue when join_all of that group returned

vars == <<flag, handlers, join, frames, ran, tpc, subMade, mpc, mtask, mgrp,
          errs, elapsed, result, spc, missed>>

Frame == [grp : Groups, h : Handlers \cup {NoHandler}]
RootTasks == {t \in Tasks : GroupOf[t] = "root"}
Finished(t) == tpc[t] \in {"done", "panicked"}
Running(t) == tpc[t] \notin {"unspawned", "done", "panicked"}
\* the task t spawns in its body, if any
Children(t) == {u \in Tasks : Spawner[u] = t}
SpawnedChildren(t) == \A u \in Children(t) : tpc[u] # "unspawned"

-----------------------------------------------------------------------------
(* TaskGroupInner::shutdown and the handlers it runs.                      *)

\* Mutant: the flag is not stored on entry.
CallShutdownNoFlag(c, g, fs) ==
    /\ flag' = flag
    /\ frames' = [frames EXCEPT ![c] = Append(fs, [grp |-> g, h |-> NoHandler])]

\* c enters shutdown(g) with the call stack fs: the flag is stored before
\* any handler is popped.
CallShutdown(c, g, fs) ==
    /\ flag' = [flag EXCEPT ![g] = TRUE]
    /\ frames' = [frames EXCEPT ![c] = Append(fs, [grp |-> g, h |-> NoHandler])]

\* The group make_subgroup's handler shuts down: `let new_tg = self.clone()`
\* shadows the new group, so it is the parent itself.
SubgroupHandlerTarget == "root"

Top(c) == frames[c][Len(frames[c])]

\* One turn of the loop: lock, pop, unlock; an empty stack ends the call.
ShutdownPop(c) ==
    /\ frames[c] # <<>>
    /\ Top(c).h = NoHandler
    /\ LET g == Top(c).grp IN
       IF handlers[g] = <<>>
       THEN /\ frames' = [frames EXCEPT ![c] = SubSeq(@, 1, Len(@) - 1)]
            /\ UNCHANGED handlers
       ELSE /\ frames' = [frames EXCEPT ![c][Len(frames[c])].h =
                             handlers[g][Len(handlers[g])]]
            /\ handlers' = [handlers EXCEPT ![g] = SubSeq(@, 1, Len(@) - 1)]
    /\ UNCHANGED <<flag, join, ran, tpc, subMade, mpc, mtask, mgrp, errs,
                   elapsed, result, spc, missed>>

\* f().await on the popped handler: a make_shutdown_rx handler sends on its
\* oneshot; the subgroup handler calls shutdown on its target.
ShutdownRunHandler(c) ==
    /\ frames[c] # <<>>
    /\ Top(c).h # NoHandler
    /\ LET h == Top(c).h
           done == [frames[c] EXCEPT ![Len(frames[c])].h = NoHandler]
       IN /\ ran' = [ran EXCEPT ![h] = @ + 1]
          /\ IF h = SubProp
             THEN CallShutdown(c, SubgroupHandlerTarget, done)
             ELSE /\ frames' = [frames EXCEPT ![c] = done]
                  /\ UNCHANGED flag
    /\ UNCHANGED <<handlers, join, tpc, subMade, mpc, mtask, mgrp, errs,
                   elapsed, result, spc, missed>>

\* TaskHandle::on_shutdown(h) called by c on group g, atomic under the
\* on_shutdown lock: run h now if the group is shutting down, else push it.
\* Running the subgroup handler now is a nested shutdown call by c.
OnShutdown(c, g, h) ==
    IF flag[g]
    THEN /\ ran' = [ran EXCEPT ![h] = @ + 1]
         /\ handlers' = handlers
         /\ IF h = SubProp
            THEN CallShutdown(c, SubgroupHandlerTarget, frames[c])
            ELSE UNCHANGED <<flag, frames>>
    ELSE /\ handlers' = [handlers EXCEPT ![g] = Append(@, h)]
         /\ UNCHANGED <<ran, flag, frames>>

-----------------------------------------------------------------------------
(* main                                                                     *)

MainIdle == frames["main"] = <<>>

\* imp::spawn and imp::spawn_local return Some(JoinHandle) from tokio on
\* the native build; on wasm they hand the future to
\* wasm_bindgen_futures::spawn_local and return None.
ImpSpawnReturnsHandle == ~Wasm

\* TaskGroup::spawn, first half: imp::spawn starts the task.  When it
\* returns Some(handle) (native) the handle is pushed next; when it returns
\* None (wasm) nothing is pushed and the guard is disarmed at once.
MainSpawn(t) ==
    /\ mpc = "setup"
    /\ MainIdle
    /\ Spawner[t] = "main"
    /\ tpc[t] = "unspawned"
    /\ GroupOf[t] = "sub" => subMade
    /\ tpc' = [tpc EXCEPT ![t] = "register"]
    /\ mpc' = IF ImpSpawnReturnsHandle THEN "push" ELSE "setup"
    /\ mtask' = IF ImpSpawnReturnsHandle THEN t ELSE mtask
    /\ UNCHANGED <<flag, handlers, join, frames, ran, subMade, mgrp, errs,
                   elapsed, result, spc, missed>>

\* TaskGroup::spawn, second half: the handle is pushed under the join lock,
\* and the panic guard is disarmed (completed = true) before it drops.
MainPushHandle ==
    /\ mpc = "push"
    /\ join' = [join EXCEPT ![GroupOf[mtask]] = Append(@, mtask)]
    /\ mpc' = "setup"
    /\ mtask' = NoTask
    /\ UNCHANGED <<flag, handlers, frames, ran, tpc, subMade, mgrp, errs,
                   elapsed, result, spc, missed>>

\* TaskGroup::make_subgroup: registers the propagation handler on the root.
MainMakeSubgroup ==
    /\ mpc = "setup"
    /\ MainIdle
    /\ ~subMade
    /\ OnShutdown("main", "root", SubProp)
    /\ subMade' = TRUE
    /\ UNCHANGED <<join, tpc, mpc, mtask, mgrp, errs, elapsed, result, spc, missed>>

\* After setup: shutdown_join_all(root) or join_all(root).
MainFinishSetup ==
    /\ mpc = "setup"
    /\ MainIdle
    /\ subMade
    /\ \A t \in Tasks : Spawner[t] = "main" => tpc[t] # "unspawned"
    /\ IF MainShutsDown THEN CallShutdown("main", "root", frames["main"])
                        ELSE UNCHANGED <<flag, frames>>
    /\ mpc' = "join"
    /\ mgrp' = "root"
    /\ UNCHANGED <<handlers, join, ran, tpc, subMade, mtask, errs, elapsed,
                   result, spc, missed>>

\* `while let Some(..) = self.inner.join.lock().await.pop_front()`: the
\* MutexGuard is a temporary of the scrutinee, so it lives through the loop
\* body.  main holds the join lock of the group it is draining for as long
\* as it awaits the popped task, and releases it when that await ends.
JoinLockHeld(g) == mpc = "await" /\ mgrp = g

\* Mutant: front() where pop_front() is meant; the handle stays queued.
JoinAllNextPeek ==
    /\ mpc = "join"
    /\ MainIdle
    /\ IF join[mgrp] = <<>>
       THEN /\ result' = [result EXCEPT ![mgrp] = IF errs = 0 THEN "ok" ELSE "err"]
            /\ errs' = 0
            /\ mpc' = IF mgrp = "root" THEN "join" ELSE "done"
            /\ mgrp' = "sub"
            /\ missed' = [missed EXCEPT ![mgrp] =
                             {t \in Tasks : GroupOf[t] = mgrp /\ Running(t)}]
            /\ UNCHANGED <<join, mtask>>
       ELSE /\ mtask' = Head(join[mgrp])
            /\ mpc' = "await"
            /\ UNCHANGED <<join, result, errs, mgrp, missed>>
    /\ UNCHANGED <<flag, handlers, frames, ran, tpc, subMade, elapsed, spc>>

\* join_all's loop head: pop_front under the join lock, which stays held
\* (JoinLockHeld) while the popped task is awaited.  When the queue is
\* empty the guard is dropped with the loop, and the result is Ok iff no
\* error was collected; main then joins the subgroup, and is done after
\* that.  The history records the group's tasks that were running,
\* unawaited, at that moment.
JoinAllNext ==
    /\ mpc = "join"
    /\ MainIdle
    /\ IF join[mgrp] = <<>>
       THEN /\ result' = [result EXCEPT ![mgrp] = IF errs = 0 THEN "ok" ELSE "err"]
            /\ errs' = 0
            /\ mpc' = IF mgrp = "root" THEN "join" ELSE "done"
            /\ mgrp' = "sub"
            /\ missed' = [missed EXCEPT ![mgrp] =
                             {t \in Tasks : GroupOf[t] = mgrp /\ Running(t)}]
            /\ UNCHANGED <<join, mtask>>
       ELSE /\ mtask' = Head(join[mgrp])
            /\ join' = [join EXCEPT ![mgrp] = Tail(@)]
            /\ mpc' = "await"
            /\ UNCHANGED <<result, errs, mgrp, missed>>
    /\ UNCHANGED <<flag, handlers, frames, ran, tpc, subMade, elapsed, spc>>

\* Mutant: a panicked task is not pushed on errors.
JoinAllAwaitNoErr ==
    /\ mpc = "await"
    /\ Finished(mtask)
    /\ errs' = errs
    /\ mpc' = "join"
    /\ mtask' = NoTask
    /\ UNCHANGED <<flag, handlers, join, frames, ran, tpc, subMade, mgrp,
                   elapsed, result, spc, missed>>

\* The join future completes: Ok(Ok) for a task that returned, Ok(Err) for
\* one that panicked, which is pushed on errors.  The loop body ends and
\* the join lock is released.
JoinAllAwait ==
    /\ mpc = "await"
    /\ Finished(mtask)
    /\ errs' = IF tpc[mtask] = "panicked" THEN errs + 1 ELSE errs
    /\ mpc' = "join"
    /\ mtask' = NoTask
    /\ UNCHANGED <<flag, handlers, join, frames, ran, tpc, subMade, mgrp,
                   elapsed, result, spc, missed>>

\* With a timeout, Err(Elapsed) only logs a warning and the loop goes on;
\* the task is left running.
JoinAllElapsed ==
    /\ mpc = "await"
    /\ JoinTimeout
    /\ ~Finished(mtask)
    /\ elapsed' = [elapsed EXCEPT ![mgrp] = TRUE]
    /\ mpc' = "join"
    /\ mtask' = NoTask
    /\ UNCHANGED <<flag, handlers, join, frames, ran, tpc, subMade, mgrp,
                   errs, result, spc, missed>>

-----------------------------------------------------------------------------
(* The signal task and the spawned tasks.                                  *)

\* install_kill_handler: on ctrl-c or SIGTERM, shutdown() on the root.
KillSignal ==
    /\ spc = "idle"
    /\ spc' = "done"
    /\ CallShutdown("signal", "root", frames["signal"])
    /\ UNCHANGED <<handlers, join, ran, tpc, subMade, mpc, mtask, mgrp, errs,
                   elapsed, result, missed>>

\* A task's body calls TaskGroup::spawn on a clone of its group: the child
\* runs as soon as tokio::spawn returns, and the spawner then awaits the
\* join lock.
TaskSpawn(t) ==
    /\ tpc[t] = "register"
    /\ \E u \in Children(t) :
          /\ tpc[u] = "unspawned"
          /\ tpc' = [tpc EXCEPT ![u] = "register", ![t] = "push"]
    /\ UNCHANGED <<flag, handlers, join, frames, ran, subMade, mpc, mtask, mgrp,
                   errs, elapsed, result, spc, missed>>

\* Mutant: the child's handle is dropped instead of pushed.
TaskPushHandleNoPush(t) ==
    /\ tpc[t] = "push"
    /\ ~JoinLockHeld(GroupOf[t])
    /\ tpc' = [tpc EXCEPT ![t] = "register"]
    /\ UNCHANGED <<flag, handlers, join, frames, ran, subMade, mpc, mtask, mgrp,
                   errs, elapsed, result, spc, missed>>

\* The spawner's push_back of the child's handle, after which its body goes
\* on.  self.inner.join.lock().await waits while join_all holds the lock,
\* which it does while it awaits any task of the group, the spawner itself
\* included.
TaskPushHandle(t) ==
    /\ tpc[t] = "push"
    /\ ~JoinLockHeld(GroupOf[t])
    /\ join' = [join EXCEPT ![GroupOf[t]] =
                    Append(@, CHOOSE u \in Children(t) : TRUE)]
    /\ tpc' = [tpc EXCEPT ![t] = "register"]
    /\ UNCHANGED <<flag, handlers, frames, ran, subMade, mpc, mtask, mgrp,
                   errs, elapsed, result, spc, missed>>

\* The task body calls make_shutdown_rx on its group.  A task never nests a
\* shutdown call, so no frame is needed for it.
TaskMakeShutdownRx(t) ==
    /\ tpc[t] = "register"
    /\ t \notin Pollers
    /\ SpawnedChildren(t)
    /\ OnShutdown("main", GroupOf[t], t)
    /\ tpc' = [tpc EXCEPT ![t] = "wait"]
    /\ UNCHANGED <<join, subMade, mpc, mtask, mgrp, errs, elapsed, result, spc, missed>>

\* The shutdown receiver fires once the handler has sent on it.
TaskFinish(t) ==
    /\ tpc[t] = "wait"
    /\ ran[t] > 0
    /\ tpc' = [tpc EXCEPT ![t] = "done"]
    /\ UNCHANGED <<flag, handlers, join, frames, ran, subMade, mpc, mtask,
                   mgrp, errs, elapsed, result, spc, missed>>

\* A polling task's loop reads is_shutting_down (a SeqCst load) and returns
\* once it is set; a false read only loops again.
TaskPollShutdown(t) ==
    /\ tpc[t] = "register"
    /\ t \in Pollers
    /\ SpawnedChildren(t)
    /\ flag[GroupOf[t]]
    /\ tpc' = [tpc EXCEPT ![t] = "done"]
    /\ UNCHANGED <<flag, handlers, join, frames, ran, subMade, mpc, mtask, mgrp,
                   errs, elapsed, result, spc, missed>>

\* A task panics.  The panic unwinds inside the tokio task; the spawn's
\* TaskPanicGuard was disarmed already, so nothing is stored in the flag.
TaskPanic(t) ==
    /\ tpc[t] \in {"register", "wait"}
    /\ tpc' = [tpc EXCEPT ![t] = "panicked"]
    /\ UNCHANGED <<flag, handlers, join, frames, ran, subMade, mpc, mtask,
                   mgrp, errs, elapsed, result, spc, missed>>

\* The process exits once main returns.
Terminated ==
    /\ mpc = "done"
    /\ UNCHANGED vars

-----------------------------------------------------------------------------

Init ==
    /\ flag = [g \in Groups |-> FALSE]
    /\ handlers = [g \in Groups |-> <<>>]
    /\ join = [g \in Groups |-> <<>>]
    /\ frames = [c \in Callers |-> <<>>]
    /\ ran = [h \in Handlers |-> 0]
    /\ tpc = [t \in Tasks |-> "unspawned"]
    /\ subMade = FALSE
    /\ mpc = "setup"
    /\ mtask = NoTask
    /\ mgrp = "root"
    /\ errs = 0
    /\ elapsed = [g \in Groups |-> FALSE]
    /\ result = [g \in Groups |-> "pending"]
    /\ spc = "idle"
    /\ missed = [g \in Groups |-> {}]

MainStep ==
    \/ \E t \in Tasks : MainSpawn(t)
    \/ MainPushHandle
    \/ MainMakeSubgroup
    \/ MainFinishSetup
    \/ JoinAllNext
    \/ JoinAllAwait
    \/ JoinAllElapsed

ShutdownStep(c) == ShutdownPop(c) \/ ShutdownRunHandler(c)

TaskStep(t) ==
    \/ TaskSpawn(t) \/ TaskPushHandle(t)
    \/ TaskMakeShutdownRx(t) \/ TaskPollShutdown(t) \/ TaskFinish(t)

Next ==
    \/ MainStep
    \/ \E c \in Callers : ShutdownStep(c)
    \/ \E t \in Tasks : TaskStep(t) \/ TaskPanic(t)
    \/ KillSignal
    \/ Terminated

Spec == Init /\ [][Next]_vars

\* tokio polls every runnable task, and a join timeout eventually fires.
\* A signal and a panic need not happen.
Fairness ==
    /\ WF_vars(MainStep)
    /\ \A c \in Callers : WF_vars(ShutdownStep(c))
    /\ \A t \in Tasks : WF_vars(TaskStep(t))

FairSpec == Spec /\ Fairness

-----------------------------------------------------------------------------
(* Properties                                                              *)

\* The states are well formed: in particular join_all's errors vector holds
\* at most one entry per task, because each handle is popped (not peeked)
\* and awaited once.
TypeOK ==
    /\ flag \in [Groups -> BOOLEAN]
    /\ \A g \in Groups : handlers[g] \in Seq(Handlers) /\ join[g] \in Seq(Tasks)
    /\ \A c \in Callers : frames[c] \in Seq(Frame)
    /\ ran \in [Handlers -> Nat]
    /\ tpc \in [Tasks -> {"unspawned", "register", "push", "wait", "done", "panicked"}]
    /\ mpc \in {"setup", "push", "join", "await", "done"}
    /\ mtask \in Tasks \cup {NoTask}
    /\ errs \in 0..Cardinality(Tasks)
    /\ result \in [Groups -> {"pending", "ok", "err"}]

\* After shutdown_join_all on the root, every task of the root that has
\* been spawned stops: one waiting on make_shutdown_rx is woken whether it
\* registered before shutdown, while handlers were being popped, or after
\* the last pop, and one polling is_shutting_down reads the flag; a task
\* that spawns a child while join_all awaits it is blocked on the join lock
\* and goes on only when join_all stops awaiting it.
RootTasksStop == \A t \in RootTasks : (tpc[t] # "unspawned") ~> Finished(t)

\* join_all returns Ok only if no task it awaited to completion panicked.
JoinReportsPanics ==
    \A g \in Groups :
        (result[g] = "ok" /\ ~elapsed[g])
            => \A t \in Tasks : GroupOf[t] = g => tpc[t] # "panicked"

\* join_all pops handles until the queue is empty, and a task spawned by a
\* running task is pushed before its spawner goes on: so an Ok without a
\* timeout means no task of the group was still running unawaited, even
\* when a task spawns into the group while join_all is draining it.
JoinWaitsForSpawned ==
    \A g \in Groups : (result[g] = "ok" /\ ~elapsed[g]) => missed[g] = {}

\* make_subgroup's documentation: the parent propagates the shutdown signal
\* to the subgroup.
SubgroupFollowsParent == (flag["root"] /\ subMade) ~> flag["sub"]

\* TaskGroupInner's documentation: shutdown is requested externally or due
\* to the failure of any task.  A task that panics should lead to its
\* group shutting down.
PanicShutsDownGroup ==
    \A t \in Tasks : tpc[t] = "panicked" ~> flag[GroupOf[t]]

====
