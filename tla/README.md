# AgentArk: TLA+ models and proofs

AgentArk is an autonomous assistant: one Rust process (several may share a
PostgreSQL database) that talks to users over many channels, runs tools, and
works in the background: scheduled tasks, watchers, learning, reflection. What
makes it hard to get right is not the text it produces but the coordination
around it: leases in a database table, state kept in memory and saved later by
other tasks, timeouts that drop a future at any `await`, and restarts. That
coordination is what these modules describe.

Paths below are relative to the repository's `src/` crate directory unless they
say otherwise. `PROJECT.json` gives, for every definition, the source lines it
stands for.

## 1. Inventory

| Component | State | Operations | Talks to | What is hard | What makes it correct |
|---|---|---|---|---|---|
| KV leases (`storage/repositories/kv_leases.rs`) | one row per lease key: owner, expiry, fence token | acquire, refresh, release, guarded transactions | every background job | `SELECT FOR UPDATE` locks nothing when the row is gone; expiry; crash of a holder | writes under a lost lease are refused; a decision is taken on the row as it is; a dead holder blocks for a bounded time |
| Learning candidates (`core/knowledge/learning.rs`, `storage/repositories/memory.rs`) | lease guard, `lease_alive`, heartbeat task, candidates | `run_candidate_generation`, guarded upserts, review | KV leases | heartbeat against main task, takeover in the middle of an item | only the current holder writes; release is final; every run ends |
| Reflect caches (`channels/http/automation_api/reflect_control.rs`) | one kv value per cache | leased read-modify-write | KV leases | concurrent passes, failed load, unguarded save | no pass loses another's verdicts |
| Watchers (`core/automation/watcher.rs`) | map in memory, table `watchers`, `change_notify` | add, upsert, cancel, pause, resume, run now, extend, delete, poll bookkeeping, expiry, cleanup | Sentinel, HTTP API, agent tools | memory changes first, rows follow in no order; users against polls in flight | no deadline is slept through; one-shot watchers fire once; verdicts are final |
| Sentinel (`sentinel/mod.rs`) | background loops, job leases, job status | watcher poller, scheduler, sync, pulse, learning, housekeeping | everything | job timeout drops a tick at any `await`; lease refused; busy deferral | each job goes on; a dropped tick loses nothing that was promised |
| Task queue and scheduler (`core/agent/runtime/task_runtime.rs`, `storage/repositories/automation.rs`, `core/automation/task.rs`) | tasks in memory and in rows, claim lease, attempts, supervisor states | recover, scan, claim, spawn, run supervised, retry, finish; pause, resume, cancel, retry, replace | Sentinel, HTTP API, runs | queue and rows are changed apart; recovery of a task that is running; nothing looks at the claim again after it | one execution at a time, within the attempts; no claim lasts for ever; queue and table agree |
| Automation runs (`core/automation/runs.rs`) | supervisor state per task, attempt, retry date | sync, record | tasks | recovery reads a state older than the queue | a running task is not taken for stale |
| Webhooks (`channels/http/integration_api/webhooks.rs`, `storage/repositories/webhooks.rs`) | event rows with an outcome, dispatch queue in memory | receive, reserve, enqueue, dispatch, record | task queue, senders | redelivery beside the first delivery; full queue; shutdown and restart | nothing is dispatched twice; outcomes are true; what is accepted is dispatched |
| Pipelines (`core/orchestration/pipeline.rs`, `runtime/action_runtime/runtime/pipeline_runtime.rs`) | compiled order, outputs and failures of a run, idempotency records, trace | compile, execute with retries, record | agent turn loop, action runtime | a failed node and all behind it; two runs at one record | order kept; the trace is true; a repeat has a cause |
| Self-evolution (`core/self_evolve`, `channels/http/automation_api/evolution_control.rs`) | stable bundle, candidate, canary state, rollback snapshot, snapshot ring, deployment ledger: one key each | evolve, import, accept, stop, roll back, judge | turns, HTTP API, background judge | every operation reads and writes several keys with no lock | a canary can be undone; a regressing one does not stay |
| Background sessions (`core/automation/background_session.rs`) | session with child tasks and watchers | pause, resume, cancel, delete | tasks, watchers | children are changed one by one; one of them fails | not modelled, see section 7 |
| Companion devices (`core/connectivity/channels/companion.rs`, `channels/http/app_api/companion_control.rs`) | pairings, grants, devices, commands and the list of a device's commands: one key each | create, decide, dispatch, report; pair, rotate, revoke | control panel, a device over its WebSocket | every write of a command reads the list and writes it back; decisions overlap | an approval is spent once; what is queued and listed is dispatched |
| Swarm, orchestration, pending flows, model failover, outbound limits, abuse tracker | see section 7 | | | | not modelled |

The remaining parts (agent turn loop, tool execution, memory and document
search, browser, auth profiles, gateway, ArkOrbit, configuration, action
runtime, security guards, crypto, MCP and plugins, executor and workspace
services, front end, clients, bridges, CLI and telemetry) are text, ranking,
numeric or I/O code; `PROJECT.json` lists each with the reason it is left out.

The hazards found on the way, each at its line, are in `PROJECT.json` under
`hazards`; the properties below are aimed at them.

## 2. Modules

```
KvLease  <--- LearningGeneration  <--- MCLearningGeneration
   ^               |  implements
   |               +------------> FencedWriters
   +------- PlanCacheWriter       <--- MCPlanCacheWriter, MCServices
   ^
KvLease_proofs <--- LeaseUsers_proofs (also extends LearningGeneration and
                                       PlanCacheWriter)

WatcherManager <--- SentinelWatchers <--- MCSentinelWatchers,
                                          SentinelWatchers_proofs

TaskQueue       <--- MCTaskQueue,       TaskQueue_proofs
   |  implements
   +------------> TaskLifecycle
WebhookDelivery <--- MCWebhookDelivery, WebhookDelivery_proofs
   |  implements
   +------------> EventDelivery
Pipelines       <--- MCServices,        Pipelines_proofs
PromptRollout   <--- MCServices,        PromptRollout_proofs
CompanionCommands <--- MCServices,      CompanionCommands_proofs
```

`MCServices` extends four modules, so three of them prefix the names that every
specification has: `PlanInit`, `PlanNext`, `PlanSpec`; `RolloutInit`, ...;
`CommandInit`, ....

### KvLease

The lease row of `kv_store` and the transactions on it. Every lease operation in
`kv_leases.rs` runs the same three statements, and the module keeps them apart:

| Module | Code |
|---|---|
| `row` | the row: present or not, `KvLeaseRecord` (owner, `expires_at`, `fence_token`) |
| `lock`, `txn[s]` | PostgreSQL: who holds the row lock, how far the transaction of session `s` is, what its read returned and the time read after it |
| `ensure_kv_row_exists_txn` | `INSERT ... ON CONFLICT DO NOTHING`; waits for another session's uncommitted insert |
| `WaitForRowLock`, `get_kv_for_update_txn` | `SELECT ... FOR UPDATE` |
| `AcquireGranted`, `AcquireRefused` | the decision of `acquire_kv_lease_guard` |
| `RefreshOk`, `GuardLost`, `GuardedCommit` | `refresh_kv_lease_guard`, `require_kv_lease_guard_txn` |
| `release_kv_lease_guard` | deletes the row if owner and fence match |
| `AbortTxn`, `Rollback` | a failed statement or a dropped future |

The behaviour that matters is PostgreSQL's at READ COMMITTED: a session that
waits in `SELECT FOR UPDATE` for a row whose holder deletes it gets *no row* and
*no lock*, even if a new row is inserted before it wakes up. `delete_kv_txn`
moves such waiters on with an absent read. The last statement and the commit are
one step: whoever gets there holds the row lock, or has only one upsert to do
(which waits for the lock). The clock is one for all processes.

### LearningGeneration

`run_candidate_generation` as two tasks per run. `phase` is where the main task
is; `beat` where the heartbeat is; `guard` the fence token of `lease_guard`;
`left` and `written` count guarded writes. An item may take several guarded
writes without a look at `lease_alive` in between, as
`supersede_stale_draft_candidates` does. Errors of any statement, crashes of a
run, and expiry are actions. An owner id is a fresh UUID, so a run is an owner
and never comes back. What a candidate says is left out.

### FencedWriters

What the lease promises to the data: writers are granted the fence one after the
other, each at most once, and only the current one writes. It has no clock, row
or transaction. `LearningGeneration` implements it with `current <- row.owner`
and `granted <- {r : guard[r] # 0}`.

### PlanCacheWriter

`update_reflect_followup_plan_cache_guarded`: acquire, load, merge, save with a
plain upsert, release. `pass` is where a pass is and `token` the fence token of
its `lease_guard`; a pass is an owner of the lease with one session, `Conn`. A
pass's verdicts are the pass itself. `LoadFails` says whether a failed load
(which yields an empty cache) is part of the instance. The lease acquisition may
commit and still be timed out by `REFLECT_DB_TIMEOUT` (`PassAcquires`).

### WatcherManager

| Module | Code |
|---|---|
| `watchers` | the map under the `RwLock` |
| `rows` | the table `watchers` |
| `op[p]` | what is left of the operation task `p` is in: snapshots to take, rows to write or delete, `notify_changed` |
| `permit` | the stored permit of `change_notify` |
| `add`, `upsert_similar`, `cancel`, `pause`, `resume`, `pause_all`, `resume_all`, `run_now`, `extend_timeout`, `Rebind`, `delete` | operations of users: change under the write lock, then persist, then notify |
| `begin_poll`, `record_poll_success`, `record_poll_error`, `mark_triggered`, `push_notification_attempt`, `expire_watchers`, `cleanup` | operations of the poller: change, then persist |
| `Snapshot`, `SnapshotAll`, `DropNext`, `WriteRow`, `notify_changed` | `persist_one`, `persist`, `delete_persisted`, `persist_watcher_snapshot` |
| `new` | `WatcherManager::new` after a restart |

An operation is a change followed by separate steps because the code gives the
write lock up before it takes its snapshot, and awaits the database after that.
The steps of one operation belong to it and happen in its order; other tasks run
between them. A watcher keeps what decides its life: status, whether it repeats,
creation, timeout, last poll, `next_poll_not_before`, consecutive failures,
latest notification, and the number of its definition, so that a replaced
watcher can be told from the one before. Which watchers are similar, whether an
error text looks transient, and the result of a poll are left open.

### SentinelWatchers

The watcher poller of `sentinel::start` and `run_watchers`, together with the
users, the follow-up tasks it spawns and restarts.

| Step of `pc` | Code |
|---|---|
| `asleep`, `napping` | `tokio::select!` with the timer of `watcher_sleep_duration`, or the fixed one while autonomy is paused |
| `woken` | the head of the loop: the autonomy switch, `run_leased_loop_with_timeout` |
| `expire`, `notice` | `expire_watchers` and its notifications |
| `poll`, `external` | `get_due_watchers`, `begin_poll`, the poll, its validation and condition |
| `matched`, `triggered` | `mark_triggered`, then the spawn of the follow-up |
| `cleanup` is the action after the last poll; `plan` | `next_wakeup_at` |

`DropTick` is the job timeout: the future of `run_watchers` is dropped at
whatever `await` it is in, with the writes it had not done. It cannot strike
between the return of `mark_triggered` and the spawn, where nothing is awaited.
`TickRefused` is a lease held elsewhere or a failed acquisition; the lease
protocol itself is `KvLease`. `spawned` is a history variable: whether a
definition's follow-up was spawned never, by this process or by an earlier one.

### TaskQueue

| Module | Code |
|---|---|
| `mem` | the queue in memory, under its lock |
| `row` | the table `task`: status, date, attempt (stored in the arguments), claim lease |
| `sup` | the supervisor state of a task, as the age of `last_run_at` |
| `todo[a]` | the row statements writer `a` has still to issue, in order |
| `sched` | the pass: what `recover_stale_in_progress_tasks` read, the claim candidates, the copies `take_due_tasks` returns |
| `run[w]` | an execution: spawned and waiting for a permit, running, or writing its end |
| `StartPass` ... `WriteStalled` | `recover_stale_in_progress_tasks` |
| `Scan`, `try_claim_task`, `MarkClaimed`, `ReturnDue` | `take_due_tasks` |
| `Spawn`, `EndPass`, `DropPass` | `run_scheduler`, and its job timeout |
| `Begin`, `Succeed`, `AskForInput`, `FailForGood`, `reschedule_task_retry`, `Close` | `execute_task_supervised_shared`, `finalize_task` |
| `pause_task` ... `UpdateSimilar` | the HTTP handlers and `add_or_update_similar_task` |
| `Restart` | the queue is loaded from the rows |

Every writer changes the queue under its lock and issues its statements later,
one by one, so that those of different writers interleave. A claim is one
conditional `UPDATE`; the queue learns of it in a later step.

`TaskLifecycle` is what the queue promises, with no table, claims or passes: a
waiting task is started while it has attempts left; an execution ends in a retry,
a question, the end of the task or its next release; nothing else ends one, and a
task that ended or asked is not started before a user releases it. `TaskQueue`
maps to it by what its entry says (`LifecycleState`): a task in progress that
nobody executes is waiting, also when a claim or a dropped pass left it so, so
that `Recover`, which puts such a task back, is no step of the contract. It would
be a wrong one for a task that was settled or paused since. `GiveUp` is `Scan`,
which ends the one-shot reminders that are long overdue, all in one step.

### WebhookDelivery

One webhook source. `work[a]` is where the handler of a delivery, or the worker,
is; `row` the outcome stored for the event; `jobs` and `hand` the bounded channel
and the job the worker has; `tried` counts hand-overs to the task queue. `Reserve`
is one transaction in the code and one action here; everything before and after
is apart. Two kinds of replay key are told apart: an event with a delivery id is
a duplicate for ever, one without inside the dedupe window (`Bucket`).
`Shutdown` closes the channel, `Restart` empties it, and any statement may fail.

`EventDelivery` is what a source promises about a delivery, with no table,
channel, handlers or clock: a delivery is new, admitted, accepted, and in the end
refused, dispatched or lost. Whoever is admitted spends a replay key that was not
spent yet; no key is ever given back; the three ends are final; and accepted jobs
get lost only in one step, all of them. `WebhookDelivery` maps to it by `Fate`,
which reads it off the hand-overs, the queue, the worker and the stage of the
handler, and by the replay keys of the reserved rows (`ReplayKeyOf`). What is
stored as the outcome of an event plays no part: it may be stale or missing.

### Pipelines

`compile_pipeline` as Kahn's algorithm, one `Pop` per pass of its loop, and any
number of runs of the compiled order. `outputs` and `failed` are the maps of
`execute_pipeline_run`; `store` is the idempotency record of a node, which runs
share; `trace` the stored outcome. The record is read, the action executed with
its retries, and the record written, in three steps that other runs come
between. `done` and `causes` are history: successful executions of a node, and
what may have made it run again.

### PromptRollout

The keys of one prompt surface and the operations on them, each as its sequence
of single reads and writes: an evolution or an import that starts a canary
(`EvolveRead` to `Replay`), a user who accepts, stops or rolls back, the judge.
`proc[p]` holds what an operation has read and writes back later. A verdict is
what the experience of turns says of a candidate. `changed` is history, kept
apart for the evolution in progress and for the one of the active canary: the
stable bundle was changed since that evolution read it.

### CompanionCommands

| Module | Code |
|---|---|
| `status`, `index` | the values under `command_key` and `command_index_key` of one device |
| `work[a]` | where a request of the panel, or the connection of the device, is: the command it is about to store, the list it has read, what it has looked at and found queued |
| `held` | what the device has received and not reported |
| `Create`, `Decide`, `Report` | `create_command`, `approve_command`, `complete_command`, up to their write |
| `WriteValue`, `LoadIndex`, `StoreIndex` | `write_command`: the value, then `append_index` |
| `Pulse`, `LookUp`, `Take` | `dispatch_next_command`: `list_commands` value by value, then the first queued command, which is refused if it no longer fits the token |
| `Send` | `send_next_command` |
| `BreakOff` | a failing statement, a lost connection or a restart |

`Succeeded` and `Failed` are one status; `Cancelled` is never written. Which
commands fit the token is left open at each look. `approved` and `sent` are
history.

### MCServices

`PlanCacheWriter`, `Pipelines`, `PromptRollout` and `CompanionCommands` share no
state. This module explores them side by side: a behaviour is about one of them and the others stay
as they start.

## 3. Runs

| Run | Instance | Shows |
|---|---|---|
| `learning_lease` | 2 runs, 4 sessions, fair | types; a locked read stays the row; a lease blocks for at most `Ttl`; a released lease does not come back; accepted writes are fenced (refinement); an active lease is lost only to an acquisition that read no row; every run ends |
| `plan_cache_clobber` | 3 passes | **violation**: verdicts are lost (finding 1) |
| `watchers` | 2 watchers of any shape, 3 calls, dropped ticks | types; no lost wakeup; polls keep interval and backoff; Triggered and TimedOut are final |
| `watchers_end` | 1 one-shot watcher, failing statements, a restart, fair | a one-shot definition fires at most once in the life of a process; no watcher stays active past its timeout unless autonomy is paused for good |
| `watcher_poll_start_lost` | 1 watcher, 2 calls, a restart | **violation** (finding 2) |
| `task_queue_faults` | 1 task, 2 executions, any one request, any one fault, any delays | a waiting row carries no claim lease |
| `task_queue_live` | a reminder and a recurring task with stall timeouts, 2 executions, fair | types; one execution at a time; within the attempts, which are counted exactly for one-shot tasks; queue and table agree when nothing goes on; `TaskLifecycle` is implemented (refinement); a due task is settled; no claim lasts |
| `task_run_again_while_running` | 1 task without a stall timeout | **violation** (finding 3) |
| `webhooks` | an event delivered twice and another one, one fault, fair | types; nothing is dispatched twice; outcomes are true; what is accepted is dispatched unless the process goes down; `EventDelivery` is implemented (refinement) |
| `webhook_retry_lost` | the same, no fault | **violation** (finding 4) |
| `services` | 2 planning passes; every pipeline of 3 nodes that leaves none to itself, with 2 runs; a rollout with 2 candidates, an evolver, a user and the judge; a companion device with a risky and a harmless command; fair | no pass loses the lease while it writes, and no verdicts are lost; pipelines are refused or ordered rightly, runs keep the order, traces are true, repeats have a cause, runs end; an undisturbed canary can be undone and a regressing one is reverted; an approval is spent once, and a command that is queued and listed does not stay so |
| `prompt_regression_stays` | a rollout that starts without a stored bundle | **violation** (finding 5) |

### Bounds

- `learning_lease`: `Ttl = 1`, `MaxTime = 2`, so that a lease can be active, can
  expire under its holder and be taken over, and the takeover can expire; each
  run writes once or loses its lease before it writes. The six safety
  properties are proved for any number of runs; the run is there to find them
  false cheaply and for `EveryRunEnds`. A blind acquisition by somebody else
  needs three owners and is shown by `plan_cache_clobber`.
- Plan cache: `Ttl = 2`, `MaxTime = 1`: no lease expires. A pass that outlives
  its 60 s lease is not protected by anything, because its save is not guarded;
  with `MaxTime > Ttl` or `LoadFails = TRUE` even two passes lose verdicts. Both
  are listed as hazards. The violation needs neither.
- Watchers: `PauseAfter` is 5 in the code and 2 here, so that one failure backs
  off and the second pauses; the backoff is 2 ticks against an interval of 1, so
  that the two differ; `MaxTimeout` is two timeouts, so that an extension makes
  a difference. `FailCap` stops the count where it no longer matters. Two
  watchers and three calls allow a replacement with a duplicate, or a creation
  and two operations against a poll in flight; with `MaxTime = 1` that run asks
  about orders inside one tick. `watchers_end` has `MaxTime = 2`, which reaches
  interval, timeout, backoff and retention. A second restart finds the same
  kinds of row as the first.
- `TaskQueue`: two executions are what a second one of a task needs. The faulty
  run lets statements and executions wait as long as they like (`Prompt`
  FALSE), with one request and one fault: two writers of a row besides the
  scheduler and an execution. The fair run has two attempts, so that one failure
  is retried and the second is final, and one round of a recurring task after
  its first date. Its deadlock check is on: the scheduler loop never stops.
- `WebhookDelivery`: `Capacity = 1` makes a full queue, `Window = 1` with
  `MaxTime = 2` makes a delivery inside and one outside of the window; one of
  the two keys is a delivery id.
- `Pipelines`: every dependency function of three nodes that leaves none to
  itself, cycles of one, two and three nodes among them, and every order of
  emptying the queue. One node
  stops a run when it fails, two have idempotency records, one of them the
  stopping one. Two attempts, and one fault (a run that breaks off, or a record
  that expires).
- `PromptRollout`: two candidates, one evolution at a time, one request of a
  user and one operation cut short: an operation of each kind beside an
  evolution, and a second evolution beside the canary of the first. A third
  candidate lets an evolution start after one that met a request;
  `RevertOnlyEndsTheTest` is proved for any number of them.
- `CompanionCommands`: two panel requests that overlap each other and the
  connection, three requests (both commands created and one decided, or one
  decided twice), one operation cut short. Four requests were checked as well.
  `DispatchesAreApproved` is proved for any number.
- `CHECK_DEADLOCK FALSE` where the system may really stop: runs, passes,
  deliveries and pipelines end, and the poller sleeps past the end of the
  model's clock once the calls are used up.
- Symmetry is used in safety runs only, over watcher ids and executions, which
  are model values that no definition tells apart.

### Fairness

`LearningGeneration`: strong fairness of the main task, of the heartbeat's steps
and of its stop. PostgreSQL queues the waiters of a row lock and tokio polls
every ready task. Strong rather than weak, because a row lock comes and goes:
a step waiting for it is enabled again and again, not continuously. A heartbeat
that is back in its `select!` with a stop pending finds the channel ready and a
new 60 s timer not. Errors, crashes and the heartbeat timer are given none.

`SentinelWatchers`: weak fairness of the loop's own steps, of what is left of any
operation, and of the clock. Strong fairness of `TickStart` and `Expire`: the job
lease is not refused for ever (a holder releases it or it expires), and neither
the 90 s job timeout nor the autonomy switch strikes before the first statement
of every single tick. `TimedOutWatchersEnd` is stated for autonomy that is not
paused for good.

`TaskQueue`: weak fairness of the scheduler loop, of each execution's start, end
and close, of every writer's statements and of dates passing. The loop ticks for
ever, executions end (their tools have timeouts), a permit that is held is given
back. Users and faults are given none.

`WebhookDelivery`: weak fairness of each handler and of the worker, which tokio
polls as long as they are ready. Deliveries, time, shutdown and restart are given
none.

`Pipelines`: weak fairness of the compilation and of each run; an action ends one
way or the other, since `execute_action_with_retry` gives up. Faults are given
none.

`PromptRollout`: weak fairness of what was begun, and of the judge, which comes
back whenever the installation has been idle for an hour. A candidate that was
measured to be worse is therefore looked at again and again.

`CompanionCommands`: weak fairness of the connection alone. The device sends a
pulse every few seconds (at least 5, `desktop-agent/src/main.rs:216`) and each
looks for the next command. Users are given none, nor is the rest of a panel
request that was begun. A revoked device is not asked about.

## 4. Findings

1. **Two holders of one lease** (`plan_cache_clobber`). A release deletes the
   row while two acquirers wait for its lock; both read no row, take the lease
   for free and are granted it one after the other. No lease expires and nothing
   fails. Guarded writes are still safe, because the later upsert replaces the
   owner and `require_kv_lease_guard_txn` refuses the earlier one: this is
   `FencedSpec`, proved below. A client that only relies on holding the lease is
   not, against its own comment.
2. **A started poll forgotten** (`watcher_poll_start_lost`). Snapshots are
   written in no order; an older one lands after the one of `begin_poll`.
3. **A running task executed again** (`task_run_again_while_running`). With the
   default stall timeout of 0 recovery takes a task for stale a second after its
   start, and every pass executes it again, past `max_attempts`.
4. **A retry refused** (`webhook_retry_lost`). A delivery that meets a full
   queue is told to retry later and is a duplicate when it does.
5. **A regression that stays** (`prompt_regression_stays`). An installation that
   runs on the built-in bundle has no snapshot when its first canary starts; the
   judge's rollback fails before it touches the canary, at every tick.

The models also show behaviour that is worth knowing, most of which no text of
the repository rules out, and which is therefore not stated as a property:

- A poll in flight turns a Cancelled watcher into Triggered or Paused, and a
  result of a replaced definition is applied to the new one.
- The status Triggered is set and its row awaited before the follow-up is
  spawned (`sentinel/mod.rs:5008`); a tick dropped in between, or a restart,
  leaves a triggered watcher whose follow-up nobody runs. `run_now` does not
  clear `next_poll_not_before`, so a watcher in backoff is not run now.
- A recurring task keeps the attempt count of its last retry
  (`task_runtime.rs:2656`), and a manual retry keeps the one of the failure. A
  task that is cancelled while its execution waits for a permit is executed, and
  one cancelled during a failing execution is retried. A pause that arrives
  between the claim of its task and the mark in the queue is written over
  (`task_runtime.rs:1922`) and the task is executed. A claim that is followed
  by a restart before the first supervisor state is never recovered: `Stale`
  looks at tasks that have one.
- A webhook worker may write its outcome before the handler writes `accepted`
  over it; a valid delivery after one with a bad signature in the same window is
  a duplicate of it; without a delivery id the window is measured at the
  reservation, not at the receipt.
- `compile_pipeline` trims node ids but not the ids in its queue, so a padded id
  is reported as a dependency cycle. A run that read an expired idempotency
  record deletes by key, also the fresh record of another run.
- An acceptance may install a bundle that an evolution offered in between, not
  the candidate its canary names. The canary state is written back whole, so a
  canary activated in between is closed unseen, and the judge may close one it
  never measured. An evolution that overlaps an acceptance keeps the stable
  bundle it read minutes earlier as the snapshot; a later revert takes the
  acceptance back. Two evolutions that overlap share the key of the candidate: the
  bundle of one may be served under the canary of the other. Prompt mode does not
  push what it replaces into the snapshot ring.
- A companion command that is created while another one is dispatched or reported
  may be lost from the list (`append_index`); its value stays, queued, and no
  dispatch finds it. Two decisions about one command may both be written: an
  approval that comes late queues a command again that already ran, and a denial
  that comes late is written over the status of one that is running. A connection
  that breaks between the write and the send leaves a command running for ever;
  two connections of one device at the same time may both dispatch a queued
  command. A report is stored whatever the status is by then.

## 5. Proofs

All theorems hold for every value of the constants that the named assumptions
allow, with `Spec` (no fairness).

### The lease and candidate generation (`KvLease_proofs`, `LeaseUsers_proofs`)

| Theorem | Statement |
|---|---|
| `Inductive` | `Spec => []IInv` |
| `TypeCorrect` | `Spec => []TypeOK` |
| `Isolation` | `Spec => []LockedReadIsStable` |
| `Takeover` | `Spec => []TakeoverBounded` |
| `ReleaseIsFinal` | `Spec => []ReleasedLeaseIsGone` |
| `Fencing` | `Spec => FencedSpec`: it implements `FencedWriters` |
| `ActiveLease` | `Spec => ActiveLeaseOnlyLostToBlindAcquire` |

Assumptions: `Nobody` is no owner, `NoSession` no session, `Ttl` a positive
number, `MaxTime` and `Items` numbers, and the sessions
include `Owner \X {"main", "beat"}`.

The inductive invariant `IInv` has two halves. `StoreInv` is about the row alone
and is proved once per statement in `KvLease_proofs`: the lock has one holder,
who inserted the row or read it (`LockHolder`, `FreshTxn`); a read that returned
a row is still the row (`LockedReadIsStable`); a read without a row carries
nothing (`ReadShape`); expiry is at most `Ttl` away (`TakeoverBounded`). The
other half ties the row to the runs: the main task is in a transaction only
where its code is (`MainTxnInPhase`); a run has no guard before its grant
(`GuardAfterGrant`), so that a grant is a *first* grant, as `FencedWriters`
demands; the row names the guard of its owner (`RowNamesGuard`), so that a
guarded commit, whose read is locked or absent, comes from the run the row names
now; and a release that read no row has nothing left to release
(`BlindRelease`), which is what `ReleasedLeaseIsGone` needs when the row was
deleted by nobody but the releaser. The refinement step splits on whether the
owner of the row changes (`OwnerStep`) and whether a write was accepted
(`WriteStep`).

### The plan cache (`LeaseUsers_proofs`)

| Theorem | Statement |
|---|---|
| `PlanTypeCorrect` | `PlanSpec => []PlanTypeOK` |
| `VerdictsAreKeptWithTheLease` | `~LoadFails`: `PlanSpec /\ LeaseIsKept => []NoClobberedVerdicts` |
| `ActiveLeaseIsLostBlindly` | `PlanSpec => [][...]_planVars`: an unexpired lease goes to another pass only by an acquisition that read no row |
| `TwoPassesKeepTheLease` | `TwoPasses`, `InTime`: `PlanSpec => LeaseIsKept` |
| `TwoPassesKeepVerdicts` | `TwoPasses`, `InTime`, `~LoadFails`: `PlanSpec => []NoClobberedVerdicts` |

The comment of the code claims `NoClobberedVerdicts` of any number of passes, and
finding 1 is that three lose verdicts. The theorems say where the claim holds and
what it hangs on.

The first half is about any number of passes, clocks and expiries: as long as no
pass is granted the lease while another one that the row names is between its
load and its save (`LeaseIsKept`), the unguarded save is safe. `KeepInv` says
why: the pass that writes is the one the row names (`LoaderIsOwner`), so it is
alone and what it loaded is still the cache (`LoadedIsCache`). A failed load
breaks the second conjunct by itself, hence `~LoadFails`.

The second half is when the lease is kept. `ActiveLeaseIsLostBlindly` needs no
assumption on passes or time: a read that returned a row is still the row
(`LockedReadIsStable`), so whoever saw an active lease was refused. What remains is
expiry, which `InTime` excludes (the clock does not reach the end of a lease), and
an acquirer that reads no row (`Unseen`). Only a release
deletes the row, a pass releases once and does nothing after that, so with one
other pass an acquirer that finds no row finds everybody else done:
`UnseenIsAlone`. With a third pass the two that waited for the deleted row are
both `Unseen` and both granted; this is the violation of `plan_cache_clobber`, and
TLC finds `LeaseIsKept` and `UnseenIsAlone` false there.

### Watchers (`SentinelWatchers_proofs`)

| Theorem | Statement |
|---|---|
| `TypeCorrect` | `Spec => []TypeOK` |
| `WakeupsAreNotLost` | `Spec => []NoLostWakeup` |
| `PollsKeepTheirDistance` | `Spec => PollsAreSpaced` |
| `VerdictsStay` | `Spec => VerdictsAreFinal` |
| `OneShotsFireOnce` | `Spec => []OneShotFiresOnce` |

Assumptions: times and bounds are numbers, `PauseAfter` is positive and within
`FailCap`, the poller is none of the callers and no watcher id. Any number of
watchers and callers, failing statements and restarts are covered.

Only `NoLostWakeup` is inductive given the types; it needs that the next wakeup
of a watcher does not come nearer by waiting (`WakeupMonotone`). The others are
about a poller that acts on what it read earlier. `PollInv` carries the key,
`CopiesAgree`: wherever a copy of a watcher lies (the map, a row, a snapshot on
its way to a row, the clone in `poll`), the number of its definition belongs to
one id and one value of `repeat`, and an id that was never used has no copy at
all. A restart only moves copies, so a row written late cannot break this.
`DueAreRested` keeps what `get_due_watchers` found true of everything still to be
polled, through any edit of a user: an edit takes a date away or creates a
watcher under an unused id, which is not due. `VerdictOpen` says that no other
task can end the watcher being polled. `FiredInv` says that what may still fire
has not fired, and counts the watcher being polled among these whatever its
status, because a failing poll pauses even a cancelled watcher.

Each step is first reduced to what it does to watchers, snapshots and rows
(`UserEffect`, `PollerEffect`, `SweepEffect`, `PersistEffect`,
`IdlingWatchers`), and the invariants are proved from these effects.

### Tasks (`TaskQueue_proofs`)

| Theorem | Statement |
|---|---|
| `TypeCorrect` | `Spec => []TypeOK` |
| `WaitingRowsCanBeClaimed` | `Spec => []PendingRowUnleased`: under every fault, request and delay |
| `OneExecution` | `Supervised => (Spec => []SingleRun)` |
| `AttemptsAreKept` | `Supervised /\ NoRestart => (Spec => []ExecutionsWithinAttempts)` |
| `AttemptsAreExact` | `Supervised /\ NoRestart /\ OnlyPauses => (Spec => []AttemptsCounted)` |
| `TableFollowsQueue` | `Supervised /\ Undisturbed => (Spec => []QuietAgreement)` |
| `QueueImplementsLifecycle` | `Supervised /\ NoRestart /\ NoHolds => (Spec => LifecycleSpec)` |

Every one holds for any number of tasks, executions, users and attempts.
`Supervised` says that every task has a stall timeout, that executions start and
statements are issued before the next tick, and that no user cancels; finding 3
is what happens without the first, and the other two exclude behaviours listed
in section 4. Nothing between the claim and the end of an execution looks at the
claim again, so `SingleRun` rests on `RunInv`: the queue says InProgress for
every task that is executed (`BusyIsMarked`), no pass has it among its
candidates (`BusyIsNotTaken`), and recovery, which is the only one to put a task
in progress back, sees a fresh supervisor state for it (`RunningIsFresh`,
`RecoverySeesFresh`). `AttemptsInv` follows the attempt from the row through the
copy the pass makes to the execution; the bound it keeps is an inequality, since a
recurring task may have fewer attempts than its entry says (section 4).

For a one-shot task the count is exact: the attempt it is executed with is the
number of its executions. `ExactInv` is that equation at each place the attempt
lies: the entry of a task that waits, the copies of the pass, the execution.
`NoRestart` (and a policy of at least one attempt, to which `runs.rs:502` clamps
it) is needed because a restart forgets an attempt that was not written yet (it
loads the entry from the row), and `OnlyPauses` because resume, retry and
update start a new release and keep the attempt in the entry.

`QuietAgreement` says nothing while a pass, an execution or a statement is under
way, so `QuietInv` says what they owe. A statement that is decided and not issued
repeats what the queue says (`UnwrittenRepeats`), and a column that no such
statement will write is as the queue has it (`RowFollows`). Both need the order in
which the scheduler works: it claims only after the statements of its recovery are
issued, and only tasks that are due (`PassIsOrdered`), and an execution has
statements to issue only when it is over and its task is not due
(`RunsAreOrdered`). `Undisturbed` leaves out what makes the two differ in the code:
requests, failing statements and dropped passes. Restarts are covered.

The refinement has one lemma for each kind of step: `StateStays` and `Unseen` for
those that the contract does not see, `OneSeen` for those that change what it says
of one task, `RunEnds` for the end of an execution. `SingleRun` is what makes the
state of a task change when its execution ends, and `AttemptsInv` gives the guards
of `Start` and `Retry`. `TakenIsPending` says that what the pass has claimed and
not marked yet still waits; a pause in between makes it false, which is why
`NoHolds` excludes pauses (section 4). Resumes, retries, updates, failing
statements and dropped passes are covered.

### Webhooks (`WebhookDelivery_proofs`)

| Theorem | Statement |
|---|---|
| `TypeCorrect` | `Spec => []TypeOK` |
| `NothingDispatchedTwice` | `Spec => []DispatchedOnce` |
| `OutcomesStayTrue` | `Spec => []OutcomesTellTruth` |
| `SourceImplementsEvents` | `Spec => EventSpec`: it implements `EventDelivery` |

Assumptions: the worker is no delivery and `NoJob` neither, every delivery has a
key, `Window` is positive and the bounds are numbers. Deliveries, the size of the
queue and the number of faults are arbitrary.

`Dispatch` looks at no row. The invariant says that a delivery that was not
dispatched is in one hand at a time: its handler, the queue (where it is once,
`QueueInv`) or the worker (`HandlerInv`, `WorkerInv`); that whatever is in a hand
after the handler has a reserved row (`HeldIsReserved`); and that reserved rows
never share a replay key (`ReservedOnce`), which is what the transaction of
`Reserve` gives and no other step takes.

The refinement needs two more facts: what is lost is in no hand and was
decided on (`LostIsGone`), so that no later step changes its fate, and receipts lie
within the clock (`InTime`), so that replay keys are among the ones the contract
knows. `ReplayKeys` is the lemma that two deliveries are duplicates of each other
exactly when the value of their key is the same, with the division of the window
in it. A step of the source moves the fate of at most one delivery (`OneTurns`) or
none (`NoneTurns`), except for `Shutdown` and `Restart`, which are `Stop`
(`LostStep`): every accepted delivery is lost and the handlers cut short are
refused. There is one lemma per action of the contract: `Admission`, where
`ReservedOnce` and the guard of `Reserve` make the key a fresh one, `Refusal`,
`Acceptance` and `HandOver`; and `SpentStays` says that no other step spends a key
or gives one back, although rows are overwritten all the time.

### Pipelines (`Pipelines_proofs`)

| Theorem | Statement |
|---|---|
| `Inductive`, `TypeCorrect` | `Spec => []IInv`, `Spec => []TypeOK` |
| `CompilerSound` | `Spec => []CompileSound` |
| `OrderKept` | `Spec => []RunsAfterDependencies` |
| `TracesTrue` | `Spec => []TraceTellsTruth` |
| `RepeatsCaused` | `Spec => []RepeatsHaveACause` |

Assumption: finitely many nodes and runs, at least one attempt. The compiler's
invariant: the in-degree of a node is the number of its dependencies that are not
listed yet; a node is queued or listed exactly when that is zero; and no member
of a set of nodes that wait for each other is ever queued. An empty queue with
nodes left then is such a set, and a full list has none. A run's invariant says
that its outputs and failures together are the nodes before its place, that an
output's dependencies have outputs, and that no failed node stops a run that goes
on. Repeats are an account: successful executions and runs under way at a node
never exceed its causes by more than one as long as its record is not live.

### Prompt rollouts (`PromptRollout_proofs`)

| Theorem | Statement |
|---|---|
| `TypeCorrect` | `Setting => (RolloutSpec => []RolloutTypeOK)` |
| `RevertsOnlyEndTheTest` | `Setting /\ OneEvolver => (RolloutSpec => []RevertOnlyEndsTheTest)` |

`Setting` keeps the names apart and demands that a bundle is stored at the start
(finding 5 is what happens otherwise); `OneEvolver` that evolutions do not
overlap. Any number of candidates, users, requests and cuts is covered.

Stable bundle, snapshot, candidate and canary state are written one by one, so
the property holds only when everything is idle, and the invariant says what the
operations under way owe. `HoldInv` is about each of them: what its kind may do,
and that it never writes back a version it did not read. `UndoInv` follows one
evolution: the stable bundle is what it read (`ReadIsStable`) and then the
baseline of its canary (`BaselineIsStable`), and the same of the snapshot
(`ReadIsKept`, `BaselineIsKept`) unless an acceptance that is under way has
written its own (`UserPending`), which its installation will record in `changed`.
The next evolution may overwrite the snapshot of an active canary: what it writes
is what it read, and that is still the baseline, unless `changed` says
otherwise (`ChangedIsOrdered`).

### Companion commands (`CompanionCommands_proofs`)

| Theorem | Statement |
|---|---|
| `Inductive` | `Setting /\ OneSocket => (CommandSpec => []IInv)` |
| `TypeCorrect` | `Setting /\ OneSocket => (CommandSpec => []CommandTypeOK)` |
| `ApprovalsAreSpentOnce` | `Setting /\ OneSocket => (CommandSpec => []DispatchesAreApproved)` |

`Setting` keeps panel and connection apart; `OneSocket` says that a device has one
connection at a time (with two the property is false, see section 4). Any number
of commands, requests and failures is covered.

The invariant is an account per command. An approval is on its way from the
moment the value is queued: found by the connection, stored as running, sent. Late
decisions may queue a command that is stored as running and not sent yet, so up
to two approvals are under way at once, and `Covered` keeps one in hand for each
of `Due` and `OnItsWay`. For a command that needs no approval `CreatedOnce` says
that only the request that creates it ever queues it, before any connection has
seen it.

### Only model-checked

Liveness (`EveryRunEnds`, `TimedOutWatchersEnd`, `DueTaskSettles`, `ClaimsEnd`,
`AcceptedIsDispatched`, `RunsEnd`, `RegressionsAreReverted`,
`ListedIsDispatched`) is out of the prover's reach. `ServicesTypeOK` is the
conjunction of the four type invariants of `MCServices`, each of which is proved of
its own specification (`PlanTypeCorrect` and the three theorems `TypeCorrect`).
Every other invariant and action property of a passing run, and each of the three
refinements, is a theorem.

## 6. Abstractions

- Watchers, tasks and the webhook queue are those of one process. A second
  process has a map and queues of its own over the same rows; the job lease keeps
  their pollers apart, not their users.
- A user's request on watchers or tasks runs to its end; a future dropped by a
  client that goes away is modelled for rollouts and webhooks only.
- Clocks only go forward.
- `Interval` is the same for all watchers, and counts and payloads of polls are
  left out. A follow-up is a task that ends in one notification attempt or in
  its timeout; two follow-ups of one definition of a repeating watcher that are
  queued at the same time are one, and so are several notification attempts in a
  row.
- Tasks: dates are whether they have passed, ages whether twice the stall timeout
  has. Approvals are left out because `normalized_task_approval` turns every one
  into Auto. With `Prompt`, executions start and statements are issued before
  the next tick, or before the earliest date of a retry; the faulty run does not
  assume it. A request that meets the end of an execution leaves queue and row
  different in the code and in the model; `QuietAgreement` is checked and
  proved without requests. Deletion and the repair of rows at startup are left out.
- Webhooks: one source; a failing statement is an error of the handler or of the
  worker's job. Normalisation, matching rules and signatures are inputs.
- Pipelines: the queue of `compile_pipeline` is emptied in any order, the code's
  among them. Node ids are trimmed, distinct and known; what an action does is
  whether it succeeds. Key templates are one record per node.
- Rollouts: one surface; a verdict, once there, is kept (the judge's first
  eligible one); the ring does not reach its cap; statements that fail silently
  (`let _ =`, `.ok()`) are left out, those that end the operation are `Cut`.

- Companion commands: one device, one connection at a time, and a device that
  reports what it received, once. Ids are new.

## 7. Not modelled

- **Background sessions.** A session lists tasks and watchers and changes them
  one by one, with `?` after each; an item may be listed by two sessions when two
  requests attach it, and re-attaching the only item of a session closes the
  session. There is no invariant between session and children that the handlers
  keep beyond what one of them does by itself.
- **Pairing, grants, tokens and revocation of companion devices**, **model
  failover**, **auth profiles**: JSON values of the key-value table, read and
  written whole without a lock. The code promises little about overlapping
  requests, and a model would only show that one of two writes is lost.
- **Swarm**: a delegation is a straight line of awaits per specialist.
- **Outbound rate limit**: what could go wrong in it is a matter of durations.
  Waits for the window are not counted in the 30 s retry budget, and a delay the
  provider asked for is capped to what is left of the budget.
- **Reviews of learning candidates**: unguarded writes by construction.
- **Integration sync, pulse, housekeeping**: loops around calls of services.
- **Agent turn loop, tools, memory, search, routing, conversation**: driven by the
  text of a model.
- **Providers, browsers, gateway, channels, MCP, plugins, executor, workspace,
  front end, clients, bridges**: I/O and other languages.
- **Crypto, embeddings, ranking, scoring**: numeric.
