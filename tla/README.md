# TLA+ models of the fedimint peer networking core and its neighbours

This directory holds TLA+ models of parts of the repository under `src/`. They
are checked with TLC. `PROJECT.json` lists the components, the runs, the
mutants, the source line map, the findings and the hazards. This README
explains them.

## 1. Inventory

### 1.1 Peer connection manager (`src/fedimint-server/src/net/peers.rs`)

This is the core. Each federation server keeps one link to every other peer.

| Part | State | Operations |
|---|---|---|
| `ReconnectP2PConnections` (connection set) | map peer → `P2PConnection`; the router task's `connection_senders` | `new` (spawns one state machine per peer, binds the listener, spawns the router), `send`, `try_send`, `receive` |
| listener/router task (`new`, lines 77–102) | the listener stream; one `bounded(4)` new-connection channel per peer | forwards each accepted `(peer, transport)` to that peer's channel and blocks while it is full |
| `P2PConnection` (peer link) | `outgoing` and `incoming` channels, `bounded(1024)` each | `send` (blocks when full), `try_send` (drops when full), `receive` |
| `P2PConnectionStateMachine` | `Disconnected(FibonacciBackoff)` or `Connected(transport)`; the status watch channel | `state_transition` runs in a loop: it publishes the status, then races the branches of the current state |

How they interact:

- The application (consensus) calls `send`, `try_send` and `receive` on the
  connection set. These only touch the channels.
- Each state machine owns its transport. It drains `outgoing`, fills
  `incoming`, and reads its new-connection channel.
- The connector (not under `src/`) dials out. On the other peer, the dialled
  connection comes out of the listener stream and goes through that peer's router.

Branches of the state machine:

- **Disconnected** has two branches. (a) An incoming connection arrives: do the
  Ping handshake. (b) The backoff timer fires, only when `our_id < peer_id`:
  `connector.connect` is called, and a failure keeps the same backoff.
- **Connected** has four branches. (a) An outgoing message: `send_message`.
  (b) A new connection: drop the old transport and handshake on the new one.
  (c) `transport.receive`: a Message goes to `incoming`, a Ping is ignored, an
  error disconnects. (d) A 10 s sleep: send a Ping.
- `disconnect()` always returns `Disconnected` with a fresh backoff.

What makes it hard:

- Each link has two state machines, one per end, plus two routers, two
  applications and the network, all running at once.
- Transports break, with or without an error reaching the ends. Connects fail.
- Connections that are accepted late can supersede newer ones.
- The transport `send` and the `incoming_sender.send` are awaited *outside*
  the `select!`. While the task waits there, it does nothing else.
- Channels are bounded.

Properties that make it correct:

- There is never more than one live transport per link.
- Messages are never reordered or duplicated. Loss is allowed.
- After faults stop, every link comes up and stays up.
- The task never waits forever in a send.
- The status channel reports the state.

### 1.2 Task group (`src/fedimint-core/src/task.rs`)

State:

- `is_shutting_down` flag.
- A mutex-protected stack of `on_shutdown` handlers.
- A mutex-protected queue of join handles.

Operations: `shutdown` (set the flag, then pop and run handlers until the
stack is empty), `on_shutdown` (run now if shutting down, else push, both
under the lock), `make_subgroup`, `spawn`, `join_all` (pop handles and await
each one, with an optional deadline), `TaskPanicGuard`.

Hazards: shutdown racing a registration, subgroup propagation, and the
deadline arithmetic in `join_all`.

Properties: every handler registered before or during shutdown runs exactly
once, and shutting down a parent shuts down its subgroups.

### 1.3 Funding verification (`src/fedimint-server/src/consensus/transaction.rs`)

`FundingVerifier` holds three `Amount`s (u64 msat). `add_input` and
`add_output` use `checked_add`. `verify_funding` accepts when inputs equal
outputs plus fees, and from consensus version 2.1 on also when inputs are
larger. `process_transaction_with_dbtx` verifies all inputs, processes them in
order, checks the signatures, then processes the outputs.

Properties:

- The verifier accepts exactly the balanced, or over-funded (version ≥ 2.1),
  transactions whose sums fit in u64.
- An overflow is never accepted.

### 1.4 Port allocator (`src/utils/portalloc/src/data/dto.rs`)

`RootData` holds `next` and a map from range start to `(size, expires)`.
Operations: `get_free_port_range`, `reclaim`, `contains` and `insert`.

Properties:

- Reserved ranges never overlap.
- `contains` agrees with a reference definition of overlap.
- The u16 arithmetic does not overflow.

### 1.5 Dummy client funds (`src/modules/fedimint-dummy-client/src/lib.rs`)

The only state is the `DummyClientFundsKeyV1` balance.
`create_final_inputs_and_outputs` subtracts from it, and `receive_money_hack`
overwrites it.

It is not modelled. The subtraction runs inside a database transaction that
must be isolated, so its interleavings are the database's, and the database
is not under `src/`. The overwrite is documented in the code as a hack. The
state machines that credit and refund funds (`states.rs`) are not under
`src/` either.

### 1.6 Not modelled

These parts change no state, or are pure I/O:

- the mint common types
- backup request signing
- the endpoint and version constants
- the gateway RPC client and its CLI
- the Esplora client. Its one loop, `get_script_history`, pages through
  the server's history by the last txid seen and stops at
  `MAX_TX_HISTORY`. Which transactions a page holds, and how pages change
  while the chain moves, is the Esplora server's behaviour. That server is
  not in this repository, and the spec does not describe it. A model would
  check assumptions about the server, not the code.
- the `fedimintd` main
- the migration test

## 2. Plan

The most important behaviour comes first.

1. **`P2PConnections`** (done): the two ends of a link, their routers, the
   applications' channel operations and a faulty network. It has a safety
   run, a liveness run, and two violation runs.
2. **`PeerSet`** (done, section 8): one node with a link to each of its
   peers, three peers in all. It covers the sequential broadcast
   (`Recipient::Everyone`), the router's head-of-line blocking, and
   `receive`'s `select_all`.
3. **`TaskGroup`** (done): shutdown, `on_shutdown`, `make_subgroup`, `spawn`,
   `join_all`, the kill handler. How a state machine ends
   when its channels close is in `PeerSet`. The task group's cancellation of
   the link tasks goes through `spawn_cancellable`, which is not under
   `src/`.
4. **An abstract link specification** `LinkSpec` (done). It holds just the link's
   up/down state and a FIFO of delivered message ids, where loss is allowed.
   `P2PConnections` will be shown to implement it through `INSTANCE ... WITH`
   a refinement mapping.
5. **`FundingVerifier`** (done): `process_transaction_with_dbtx` per peer, and
   the u64 checked arithmetic, checked against a reference definition over all
   small inputs.
6. **`PortAlloc`** (done): the allocator over a scaled-down port space,
   no abstract specification: a lease table refined through the map's
   unexpired entries turned out to restate `NoDoubleAllocation`.
7. **`DummyFunds`**: dropped. The funds' concurrency lies in the database and the client executor, outside `src/` (section 1.5).

## 3. The model `P2PConnections`

### 3.1 State

| Variable | Code |
|---|---|
| `at[p, q]` | where the task of p's link to q is: `Disconnected` or `Connected` (waiting in the select of that state), `Sending` (awaiting `connection.send` inside `connect()` or `send_message()`), `Delivering` (awaiting `incoming_sender.send`) |
| `conn[p, q]` | the transport held (index into `tr`) |
| `pending[p, q]` | the envelope being sent or the message being delivered (the local of the awaiting call) |
| `status[p, q]` | the last value sent on the status watch channel |
| `tr` | every transport: initiator, acceptor, `closed`, `silent`, and one FIFO wire per receiving end |
| `backlog[q]` | connections q's listener accepted and its router has not yet forwarded |
| `newConns[q, p]` | q's `bounded(4)` new-connection channel for p |
| `outgoing`, `incoming` | the `bounded(1024)` channels of each link, with small capacities |
| `sent`, `lastRecv`, `faults` | history and bounds: message ids sent per link, last id received per link, faults so far |

Application messages are the natural numbers `1..MaxMsgs`, in the order one
application sends them to one peer. That is all the data the properties need.

### 3.2 Actions

There is one action per select branch, per awaited call, and per application
operation:

- `DisconnectedIncoming`, `DisconnectedReconnect`
- `ConnectedSendMessage`, `ConnectedNewConnection`, `ConnectedReceive`,
  `ConnectedKeepalive`
- `TransportSendOk`, `TransportSendFail`, `Deliver`
- `RouteIncoming`
- `AppSend`, `AppTrySend`, `AppReceive`
- `Break`, the network fault

Status publication is done by `Resume`. The code's loop
`while let Some(sm) = state_transition().await` publishes synchronously when
it starts each iteration, so `Resume` publishes in the same step that returns
the new state.

Timers are modelled by what they race, not by their duration:

- The backoff sleep fires only when no incoming connection is queued.
- The 10 s keepalive sleep is created anew at every select. So it fires only
  when no other branch is ready: nothing to receive, no error to report, no
  outgoing message, no new connection.
- Backoff values have no effect on any property, so `FibonacciBackoff` is not
  represented.

The transport (not under `src/`) is modelled from the spec:

- A send waits while the other direction's buffer (`WireCap`) is full.
- A send on a closed transport may be accepted, and the bytes lost, or it may
  fail.
- A receive yields buffered data, then an error, unless the break was silent.
- `Break` consumes one of `MaxFaults`, as does a failed connect.

Shutdown through closed channels (the `.ok()?` exits) is modelled in
`PeerSet` (section 8).

### 3.3 Runs

| Run | Config | Checks | Bounds |
|---|---|---|---|
| `link_refines_spec` | `MC_P2PLinkRefinement.cfg` | `TypeOK`, `AtMostOneLiveTransport`, and the refinement of section 7 | peers {0,1}, 1 fault, 3 transports, 2 messages each way, wire 3, outgoing 2, incoming 1 |
| `link_liveness` | `MC_P2PConnections_live.cfg` | `LinksEventuallyUp` under `FairSpec` | 2 faults, 3 transports, 1 message each way, wire 2 |
| `status_inverted` | `MC_P2PConnections_status.cfg` | `StatusMatchesState` (expected violation) | small |
| `send_blocks_both_ends` | `MC_P2PConnections_sendblock.cfg` | `SendCompletes` (expected violation) | no faults, 2 messages each way, wire 2 |

Why the bounds are enough:

- The safety invariants are checked in the refinement run, with one fault.
  One fault gives a failed connect or a broken transport, silent or not,
  and with it a reconnection, a stale accepted connection superseding the
  live one, and a message lost with a failed send. Each safety mutant is
  caught there. Two faults, in the liveness run, give a failed connect
  followed by a broken transport, or two breaks.
- Three transports are one more than faults can force, and the liveness run
  confirms this: no behaviour gets stuck at the bound.
- Two messages per direction let a message be queued behind one that was lost
  with a failed transport. That is the case where a retry would reorder.
- An incoming capacity of 1 makes the "state machine blocked on a full
  incoming channel" case reachable.
- The liveness run uses one message per direction to keep the graph small.
  With 2 it takes about ten minutes.
- In the liveness run, the wire holds more than either end can send while it
  still has data to read, so the mutual-write deadlock of
  `send_blocks_both_ends` cannot arise there. `SendCompletes` is therefore
  checked only in the violation run, where it fails.

Results:

- **`AtMostOneLiveTransport`** (spec invariant 1, stated for the whole link).
  It holds because only the lower id dials, and it dials only after its own
  transport failed. The mutant without the `our_id < peer_id` guard breaks it.
- **`LinksEventuallyUp`**. Once faults stop, every link reaches and keeps a
  shared live transport. This depends on the keepalive: without it, a
  silently broken transport is never noticed.
- **`status_inverted`**: `state_transition` publishes `Connected` while
  Disconnected and `Disconnected` while Connected (`peers.rs:246-255`). This
  is a code bug.
- **`send_blocks_both_ends`**: both ends wait in `connection.send` with full
  buffers and never read again. Deadlock freedom here rests on the
  transport's buffering. The spec does not address it.

### 3.4 Fairness

- tokio runs every task, and `tokio::select!` polls the ready branches in
  random order. So each branch action gets weak fairness.
- A send on a dead transport may be accepted for a while, but the transport's
  own timeout eventually fails it. That is why `TransportSendFail` gets strong
  fairness.
- The consensus loop always calls `receive()`, so `AppReceive` gets weak
  fairness. Application sends have no fairness.
- Faults are bounded, so they stop.

## 4. The model `TaskGroup`

### 4.1 State and processes

The model has a root group and one subgroup made from it by `make_subgroup`.

| Variable | Code |
|---|---|
| `flag[g]` | `is_shutting_down` |
| `handlers[g]` | the `on_shutdown` `Vec`, used as a stack (`push`/`pop`) |
| `join[g]` | the `join` `VecDeque` of handles (`push_back`/`pop_front`) |
| `frames[c]` | the `shutdown` calls that caller `c` is inside. Each frame holds the group and the handler it popped but has not yet run. The subgroup handler calls `shutdown` again, so calls nest. |
| `ran[h]` | how often handler `h` has run (history) |
| `tpc[t]` | where task `t` is: not yet spawned, running its body (`register`), inside `spawn` for its child waiting on the join lock (`push`), waiting on the receiver, done, or panicked |
| `mpc`, `mtask`, `mgrp`, `errs`, `elapsed`, `result` | main's location and the locals of `spawn` and `join_all` |
| `spc` | the task spawned by `install_kill_handler` |
| `missed[g]` | history: the tasks of `g` that were running, and not queued, when `join_all(g)` returned |

Constants choose the program:

- `Wasm` selects the wasm build. No run sets it (section 4.4).
- `Pollers` are the tasks whose body loops on `TaskHandle::is_shutting_down`
  instead of `make_shutdown_rx`. The doc comment of `TaskGroup` allows both.
- `Spawner[t]` is `"main"` or the task whose body spawns `t` into its own group.

The processes:

- **main.** It spawns the tasks and makes the subgroup, in any order. It then
  calls `shutdown_join_all` on the root, as the unit test does, or only
  `join_all` when `MainShutsDown` is FALSE. Last, it calls `join_all` on the
  subgroup, as the doc comment of `make_subgroup` requires of its caller.
- **signal.** The kill handler. It calls `shutdown` on the root at most once,
  and at any time.
- **Tasks.** Each first spawns its child, if it has one. Then it runs the
  body from the unit test, `make_shutdown_rx().await.await`, or, for a
  poller, loops until `is_shutting_down()` is true. It may panic.

How the code's steps become actions:

- `shutdown` stores the flag on entry (`CallShutdown`). Each turn of its loop
  is two steps. `ShutdownPop` locks, pops and unlocks. `ShutdownRunHandler`
  runs the popped handler.
- `on_shutdown` takes the lock, checks the flag, and then either pushes the
  handler or releases the lock and runs it. This is one action, `OnShutdown`.
  The flag store in `shutdown` is not under the lock, but the check happens
  while the lock is held. So whether the store comes just before the check or
  just after, the outcome is the same as one of the interleavings with an
  atomic action.
- `spawn` is two steps on the native build: `tokio::spawn` (`MainSpawn`, or
  `TaskSpawn` from a task's body), then the push under the join lock
  (`MainPushHandle`, `TaskPushHandle`). On wasm, `imp::spawn` returns `None`
  (`ImpSpawnReturnsHandle`), so `MainSpawn` takes no push step. The wasm
  `spawn` (lines 218–246) is otherwise the native one. `TaskPushHandle`
  waits while `join_all` holds the group's join lock (`JoinLockHeld`).
- A poller's loop is one action, `TaskPollShutdown`, enabled once the flag is
  set. A read of `false` only loops again.
- `join_all` has three actions. `JoinAllNext` is the `pop_front` loop head and
  the final `Ok`/`Err`. `JoinAllAwait` is `Ok(Ok)` or `Ok(Err)`.
  `JoinAllElapsed` is `Err(Elapsed)`. Time is not modelled, so a timeout is a
  nondeterministic `Elapsed` while the task has not finished.
- The join lock's scope follows the code. In `while let Some(..) =
  self.inner.join.lock().await.pop_front()` (line 253) the `MutexGuard` is
  a temporary of the scrutinee, and it lives until the end of the loop
  body. So `join_all` holds the lock while it awaits the popped task:
  `JoinLockHeld(g)` is `mpc = "await"` on group `g`. It is released when
  `JoinAllAwait` or `JoinAllElapsed` ends the body, and when the empty
  queue ends the loop.

### 4.2 Runs

| Run | Config | Checks |
|---|---|---|
| `taskgroup_shutdown` | `MC_TaskGroup_safety.cfg` | `TypeOK`, `JoinReportsPanics`, `JoinWaitsForSpawned`, `RootTasksStop`, with a join timeout |
| `join_all_lock_deadlock` | `MC_TaskGroup_nojoin.cfg` | `RootTasksStop` with `join_all(None)` (expected violation) |
| `subgroup_not_shut_down` | `MC_TaskGroup_subgroup.cfg` | `SubgroupFollowsParent` (expected violation) |
| `panic_does_not_shut_down` | `MC_TaskGroup_panic.cfg` | `PanicShutsDownGroup` (expected violation) |

Bounds: two tasks in the root and one in the subgroup, with both callers of
`shutdown`. That gives one task that registers before the handler loop
starts, one that registers during or after it, a nested `shutdown` from the
subgroup handler, and two callers popping the same stack. In the safety run
`t2` is spawned by `t1`'s body and polls the flag. `t1` may still be in its
body when `join_all(root)` starts, so the child's spawn can race the join.
The safety run gives `join_all` a timeout. The deadlock run uses the
same tasks without a timeout. The other violation runs use smaller sets.

Results:

- **`TypeOK`** holds. Beyond the types, it bounds `join_all`'s errors
  vector by the number of tasks: each handle is popped, not peeked, and
  awaited once. The mutant that uses `front()` for `pop_front()` breaks it.
- **`RootTasksStop`** holds on the native build with a join timeout. After
  `shutdown_join_all`, every spawned root task stops. A task waiting on `make_shutdown_rx` is
  woken whether it registered before the flag, during the loop, or after the
  last pop, and a poller reads the flag. The mutant that does not store
  the flag on entry breaks it: a registration after the last pop is pushed and
  never run. When `t1` spawns `t2` while `join_all` awaits `t1`, `t1` is
  blocked on the join lock until the join times out. Only then can it
  push and go on.
- **`JoinReportsPanics`** holds. `join_all` returns `Ok` only if no awaited
  task panicked. A timeout is the documented exception. The mutant that drops
  `errors.push` breaks it.
- **`JoinWaitsForSpawned`** holds. When `join_all` returns `Ok` without a
  timeout, no task of the group is running unawaited. This covers a task
  spawned by another task while `join_all` drains the queue
  (`task.rs:188`). It holds because the spawner is itself running, so it is
  queued or being awaited until it has pushed the child's handle. If it is
  being awaited, its push waits for the join lock, and only a timeout
  (which the property excludes) gets `join_all` past it. The mutant that
  drops the child's handle breaks it.
- **`join_all_lock_deadlock`** is a code bug. Because the lock is held
  across the await, a task that spawns into its own group while `join_all`
  awaits it waits at `spawn`'s `self.inner.join.lock().await`
  (`task.rs:188`) for a lock that `join_all` releases only when that same
  task finishes. With `shutdown_join_all(None)`, the unit test's call, TLC
  shows `main` awaiting `t1` with the lock held and `t1` stuck pushing
  `t2`'s handle, for ever.
- **`subgroup_not_shut_down`** is a code bug. In `make_subgroup`,
  `let new_tg = self.clone();` shadows the new group (`task.rs:101`). So the
  registered handler shuts down the parent again, and the subgroup never learns
  of the shutdown. Its tasks wait forever, and `join_all` on it without a
  timeout never returns.
- **`panic_does_not_shut_down`** is a divergence from the doc comment. The doc
  comment says the group shuts down on the failure of any task. But
  `TaskPanicGuard` only guards `spawn` itself: it is disarmed at `task.rs:190`.
  A panicking task only shows up as an `Err` from `join_all`.

### 4.3 Fairness

- Weak fairness applies to main, to each caller's shutdown steps, and to each
  task's steps. These are all tokio tasks, and tokio polls every runnable task.
  A join timeout eventually fires.
- The kill signal and a task panic are not fair: neither need ever happen.

### 4.4 Not modelled

- `spawn_local` on the native build does the same steps as `spawn`, without
  a result.
- The wasm build. There `imp::spawn` returns `None` (`task.rs:438`), so no
  handle is queued and `join_all` returns `Ok` at once. By construction it
  neither waits for the tasks nor sees their panics. The model can express
  this (`Wasm`), but no run checks it.
- Durations and the deadline arithmetic are not modelled. After the deadline,
  each remaining task still gets 10 ms; that only changes when `Elapsed`
  happens.
- A task spawns at most one task, into its own group, and only on the
  native build. A task that spawns into another group, which `join_all` of
  that group does not wait for, is not modelled.

## 5. The model `FundingVerifier`

### 5.1 State and actions

Each peer runs `process_transaction_with_dbtx` on the same transaction `tx`
at the same consensus `version`. Per peer, the model keeps:

- `pc`: where in the function the peer is;
- `idx`: the loop index;
- `verifier`: the `FundingVerifier`, three `Amount`s;
- `result`: the returned result.

A transaction holds:

- inputs, each a `TransactionItemAmount` (`amount`, `fee`) plus whether its
  module's `verify_input` and `process_input` succeed;
- outputs, each an amount and fee plus whether `process_output` succeeds;
- whether the signatures are valid.

A module's answer depends on the item, so it is the same on every peer.

There is one action per step of the function:

- `VerifyInputs`: the parallel `try_for_each`. It reports any one failing
  input.
- `ProcessInput`: one turn of the inputs loop, `process_input` then
  `add_input`.
- `ValidateSignatures`
- `ProcessOutput`: one turn of the outputs loop.
- `FundingCheck`: `verify_funding`.

`AddInput`, `AddOutput`, `VerifyFunding` and `CheckedAdd` translate
`FundingVerifier`.

`Amount` is a u64. The model gives it `Width` bits: 2 in the runs, so values
are 0..3. The arithmetic is the same, and every overflow boundary is reached
with two items.

### 5.2 Runs

| Run | Config | Checks |
|---|---|---|
| `funding` | `MC_FundingVerifier.cfg` | `TypeOK`, `NoInflation`, `FundingMatchesReference` over every transaction of 0–2 inputs and 0–2 outputs with amounts 0..3 and fees 0..1, at versions 2.0 (unsigned) and 2.1, on one peer whose modules may reject items (2.8 million states, about 25 s) |

- **`NoInflation`**: an accepted transaction's inputs, summed without a
  width, cover its outputs and fees. The mutant that lets the output sum wrap
  breaks it.
- **`FundingMatchesReference`**: the item-by-item checked arithmetic gives the
  reference verdict, computed from the plain sums:
  - overflow if any sum exceeds the width;
  - balanced is accepted;
  - over-funded is accepted only from 2.1 on;
  - anything else is unbalanced.

  The mutant that requires a version strictly above 2.1 breaks it.
- Peers need not be compared. Every verification error is mapped to the
  one variant `InvalidWitnessLength` (see the comment at
  `transaction.rs:24`), so the order in which rayon finds failing inputs
  cannot show in the result. The run therefore uses a single peer.

### 5.3 Not modelled

- The modules' own validation, and their database writes.
- The `on_commit` metrics hook.
- The rollback of a failed transaction's writes, which belongs to the caller.

## 6. The model `PortAlloc`

### 6.1 State and actions

`PortAlloc.tla` models `RootData` (`dto.rs`). It assumes one caller at a
time: loading and saving the file under its lock is outside `src/`.

| Variable | Code |
|---|---|
| `next` | `RootData.next` |
| `keys` | `RootData.keys`, a function from start port to `[size, expires]` |
| `now` | `now_ts()`, in seconds |
| `pc`, `size`, `base`, `port`, `fails` | the call to `get_free_port_range` in progress: its `range_size`, `base_port`, the port of the bind loop, and the bind failures so far |
| `live`, `grants` | history: the ranges returned whose lease has not yet expired, each numbered by `grants`, the count of grants so far, so that a range granted twice within one second counts twice |

The actions:

- `GetFreePortRange(sz)`: the entry to the function. It reclaims expired
  reservations, then sets `base_port = next`.
- `Retry`: one turn of the `'retry` loop. Past `HIGH`, it reclaims and wraps
  to `LOW`. If `contains` finds a conflict, it jumps past it; otherwise the
  bind loop starts.
- `Bind`: one port of the `for` loop. Either the bind succeeds, or, while the
  failure bound allows, it fails and retries from `port + 1`.
- `Allocate`: `insert` and the return. Its `assert!` cannot fail here,
  because `keys` does not change between `contains` and `insert`.
- `Tick`: one second passes.

`Contains`, `Insert` and `Reclaim` are operators with the code's semantics.
`Contains` returns 0 for `None`; no range ends at port 0, because `LOW > 0`.

### 6.2 Bounds

Ports have 3 bits and `LOW..HIGH` is `1..4`. Ranges have 1 or 2 ports, so a
range ends at 6 at most. This keeps the code's relation `HIGH + size <=
u16::MAX` for realistic sizes. `TTL` is 3 and the clock runs to 4, so leases
both expire and outlive the wrap. One bind failure is allowed. In these
bounds the port space fills, wraps past `HIGH`, and holds two or more
reservations below a range's end, which is the case `contains` must get
right.

### 6.3 Runs

- **`portalloc_safety`** (pass) checks three properties:
  - `TypeOK`: every port fits in the width. Dropping the wrap at line 64
    breaks it.
  - `NoDoubleAllocation`: two unexpired ranges that were handed out never
    share a port. A `contains` that inspects the first reservation below the
    end, instead of the last, breaks it.
  - `ContainsAgreesWithOverlap`: `contains`, which inspects one entry, agrees
    with a check of every reservation, for every query in every reachable
    map. This generalises `root_data_sanity`. The `..=` off-by-one breaks it.
- **`portalloc_zero_size`** (violation): with `range_size` 0, `insert`
  overwrites a live reservation that starts at the same port. That port is
  then handed out again within its lease (finding at `dto.rs:136`).

### 6.4 Not modelled

- Termination of the retry loop. It has no bound in the code; it ends only
  once leases expire or other processes release their ports.
- The file lock and the serialisation of `RootData`.

## 7. The refinement `P2PConnections` ⇒ `LinkSpec`

`LinkSpec.tla` states what `IP2PConnections` gives the consensus, per
ordered pair of peers. `Send` covers `send` and `try_send` (`try_send` may
drop the message at once), `Receive` takes the oldest message, and `Lose`
loses any messages in flight, on any links at once. Nothing is ever
duplicated or reordered.

`P2PLinkRefinement.tla` maps the concrete state onto `chan`. The messages
from `p` to `q`, oldest first, are:

1. `q`'s incoming channel;
2. the message `q`'s state machine is delivering;
3. the messages on the wires to `q`, oldest transport first;
4. the message `p`'s state machine is sending;
5. `p`'s outgoing channel.

`sent` and `lastRecv` map to themselves.

The run **`link_refines_spec`** checks `ImplementsLinkSpec == Link!Spec`,
together with the link's safety invariants (section 3.3). Only one network
fault is allowed (a broken transport or a failed connect), so that the run
takes about a minute instead of several. One fault is enough to reach a
reconnection, a stale accepted connection superseding the live one, and a
message lost with a failed send.

It passes. This is stronger than the spec, which promises FIFO only within
one Connected session (spec, "Ordering guarantees"). The code loses the
message in hand when a send fails and never resends it, so across
reconnections the messages of a link arrive as an in-order subsequence of
what was sent. A send branch that only peeks at the outgoing channel breaks
the refinement at once (its mutant).

A retry of the failed message at the front of the outgoing channel would
keep the refinement, since the message keeps its place in the order.
Appending it at the back does not: the message would overtake the ones
queued behind it.

## 8. The model `PeerSet`

`P2PConnections` has two ends of one link. `PeerSet.tla` has one node, `Me`,
with a link to every other peer. It checks the two places where the links of
one node wait on each other: the router task and a send to everyone. It
also checks how the node's tasks end when the application drops the
connection set. Spec, "Termination": the loop ends the first time a raced
channel reports closed.

### 8.1 State and actions

| Variable | Code |
|---|---|
| `sm[q]` | the state machine of the link to `q`: `disconnected`, `connected`, `delivering` (awaiting `incoming_sender.send`, line 285), or `ended` (the task's loop is over) |
| `outgoing[q]`, `incoming[q]` | fill levels of the link's `bounded(1024)` channels |
| `newConns[q]` | fill level of the link's `bounded(4)` new-connection channel |
| `router` | `{q}` while the router awaits `connection_senders[q].send` (lines 85–93) |
| `pending` | the links that a running `send` call has still to enqueue to, in id order (lines 112–115) |
| `appOpen` | the `ReconnectP2PConnections`, which owns every link's outgoing sender and incoming receiver, is alive |
| `routerUp` | the router task runs, and holds every new-connection sender |
| `accepted`, `arrived`, `sends`, `faults` | bounded counts of the environment's inputs |

Channels carry no payload here. Ordering is already checked by
`P2PConnections` and `LinkSpec`, and here only the fill level matters.

Actions:

- **Router.** `ListenerAccept(q)` takes a connection from a lower peer
  (only `our_id < peer_id` dials, line 352). `RouterForward` puts it into
  `q`'s channel once there is room. Until then the router accepts nothing.
  If `q`'s task has ended, the send fails and the router breaks out of its
  loop (line 90).
- **Link.** These are the arms of `transition_connected` and
  `transition_disconnected`:
  - `AcceptConn`: the connection arm in both states, and the handshake
    may fail;
  - `Reconnect`;
  - `SendOutgoing`: the message leaves the channel, and the transport may
    break;
  - `ReceiveMessage` then `Deliver`: the await outside the `select!`;
  - `TransportFail`;
  - `Keepalive`;
  - `ConnectedClosed`: the `.ok()?` exits of the Connected state. The
    outgoing channel is closed and drained, the new-connection channel is
    closed and drained, or the incoming receiver is gone while delivering;
  - `DisconnectedClosed`: the Disconnected state races only the
    new-connection channel, so only the router's end stops it.
- **Application.**
  - `SendCall(r)` starts `send`. `LinkSend` then enqueues to the next link
    in id order, blocking while its channel is full.
  - `TrySend(r)` enqueues to every target at once and drops when full
    (`TryEnqueue`).
  - A recipient that is not a peer only logs a warning.
  - `Receive` takes from the lowest peer that has a message, because
    `select_all` polls the futures in `BTreeMap` order.
  - `AppDrop` drops the set at any time, together with a `send` in
    progress.

### 8.2 Runs

| Run | Cfg | Properties | Result |
|---|---|---|---|
| `peerset` | `MC_PeerSet.cfg` | `TypeOK`, `SendReturns`, `RouterHandsOver`, `TasksOutliveSet`, `TasksEnd` | pass, 140,930 states, 30 s |

The run does not check deadlock (`CHECK_DEADLOCK FALSE`). Once every task
has ended the node really stops: no step is left.

- **Peers.** The run has three peers, `{0, 1, 2}`, and is node 1. Peer 0
  dials in through the router, and node 1 dials peer 2, so every link
  action fires, `Reconnect` included.
- **Bounds.** Every channel holds one item. A full channel then takes a
  single message instead of 1024 or 4, and the code's behaviour at the bound
  is the same.
- **Why these bounds.** Three connections per peer, two messages per peer
  and two faults reach the interesting cases:
  - the router holds peer 0's connection while that link's channel is full;
  - a state machine waits in `incoming_sender.send` while its outgoing
    channel is full and a broadcast waits on it.
- **What smaller bounds miss.** With smaller bounds, the mutants below go
  unnoticed.
- **What larger bounds cost.** Node 2 has two dialling peers, so another
  peer's connection would wait behind the router. That takes a minute for
  `RouterHandsOver` alone, and seven with four peers. It passes too, but it
  is not part of the run.

All the properties hold:

- **`RouterHandsOver`:** no state machine waits on the router, and each
  drains its new-connection channel in both states.
- **`SendReturns`:** a broadcast stalled behind a full link resumes. That
  link reconnects and drains, and the application keeps receiving, which
  unblocks a state machine that is waiting to deliver.
  - **The mutants.** Dropping the connection arm from the Connected state
    breaks `RouterHandsOver`, since the router then blocks forever. A
    `receive` that polls only the first link breaks `SendReturns`.
- **`TasksOutliveSet`:** no task of the set ends while the set is alive.
  A link task ends only on a closed channel. The router ends only after a
  link task has ended. So the first end needs the application's drop.
  A router that used `try_send`, and broke out on a full channel, would
  end early and take the Disconnected links with it (its mutant).
- **`TasksEnd`:** after the drop, every link task and the router end.
  - A higher peer's link reconnects and then sees its closed outgoing
    channel.
  - A lower peer's link waits for the peer's redial.
  - The router ends when a redial reaches an ended link.
  - A state machine that took a closed outgoing channel for a lost
    connection would loop forever through reconnections (its mutant).
  - **The lowest node.** With `Me = 0` nobody dials in, so the router
    never ends and `TasksEnd` fails. Only cancellation stops those tasks,
    and it is not modelled (section 8.4).

### 8.3 Fairness

The fairness is weak fairness on:

- each link's drain steps (`AcceptConn`, `Reconnect`, `SendOutgoing`,
  `Deliver`);
- the router;
- `LinkSend`;
- `Receive`;
- each link's closed-channel exits (a closed channel stays closed, so its
  arm stays ready);
- a lower peer's dial while the link is down or its task has ended. The
  peer's transport then fails, and it redials.

The code justifies this:

- `tokio::select!` picks a ready branch at random, and the tasks are
  polled.
- The Fibonacci backoff never stops retrying.
- The application, which is the consensus layer, keeps calling `receive`.

The model does not require messages, sends, faults or the drop to happen.

### 8.4 Not modelled

- **Starvation in `receive`.** With an endless stream from a lower peer,
  `receive` starves the higher ones, because `select_all` is biased. The
  model bounds each peer's messages, so it cannot show this. The hazard at
  `peers.rs:145` records it.
- **The status watch channel.** `P2PConnections` models it.
- **Backoff timings.** They are not modelled.
- **The listener ending.** `ListenerAccept` always finds the stream open. In
  the code, `.expect("Listener closed")` at `peers.rs:83` would panic the
  router if the stream ended, and the `Err` arm at 95–97 only logs. So
  `TasksOutliveSet` assumes a listener that never fails.
- **Cancellation.** The router and the link tasks are spawned with
  `spawn_cancellable`, which is not under `src/`, so the task group's
  cancellation is not modelled. The model only shows how the tasks end by
  themselves.
