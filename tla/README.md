# JayNet orchestrator: TLA+ verification project

JayNet is a self-hosted agent harness: one FastAPI/asyncio process that plays
model turns, dispatches tools, serves a chat UI over SSE, starts and stops
model servers on the GPUs, and runs unattended work (schedules, goals, evals).
This directory holds TLA+ models of its stateful parts, the TLC configurations
that check them on small instances, and proofs checked by TLAPS.

All paths below are relative to the repository root (`src/` in PROJECT.json).

## 1. The system

### Layers

| layer | what it holds |
|---|---|
| `runtime/` | the harness core: the agent loop and its rails, budgets, model client, stores for schedules, work items, presets, evals; never imports the web layer |
| `web/` | FastAPI routes and SSE, users, chats, goals, the scheduled runner, the managed processes |
| `tools/` | tool implementations found by discovery; a tool sees a `ToolContext` only |
| `plugins/`, `skills/`, `evals/`, `scripts/` | optional bundles, prompts, test cases, operator scripts |

One process runs everything on one asyncio loop. Endpoints are `async def`, so
a piece of code without an `await` is atomic with respect to the other
coroutines; only a crash comes between its commits. Blocking work (model HTTP,
subprocess waits, tool bodies) goes to threads or awaits.

### Components, their state and operations

| component | state | operations | talks to | hard behaviour |
|---|---|---|---|---|
| Schedule definitions `runtime/scheduler.py` | `schedules.json` (atomic replace) | add, remove, due, `mark_fired` (compare-and-set), `set_enabled`, `set_status`, `remove_owner` | admin routes, `schedule.*` tools, the tick | stale due snapshot, consumed one-shots |
| Work store and outbox `runtime/work_store.py` | `work_items`, `work_attempts`, `work_effects` in `chats.db` | enqueue, claim, launch, finish, apply/fail an effect, cancel, prune, recover | the scheduled runner | crash between commits, no-overlap, retention against the unique key |
| Scheduled runner `web/scheduler_runtime.py` | tasks in memory | tick, dispatch, execute, deliver, start (recovery) | the two stores, `ChatStore`, `AgentRuntime.run` | interleaving of dispatchers, ticks and the outbox; escapes |
| arXiv watches `web/trigger_runtime.py`, `runtime/trigger_store.py` | `trigger_events`, `trigger_decisions` | poll (fetch, record, notify) | the tick | the only await inside a tick |
| Goals `web/goals.py`, `web/routes_run.py` | the goal record of a user in `users.db`, supervisor tasks | `/goal`, pause, resume, stop, kick, supervise (run, check, judge) | runs, users, chats | read-modify-write of the record across awaits |
| Managed processes `runtime/process_manager.py` | process table, restart counters, keep-alive tasks | start_one, stop_one, stop_all, run loop, kill | the boot hooks, `/api/procs` | start during a stop's awaits, swallowed cancellation |
| Model swap `tools/model/catalog.py`, `runtime/serving.py` | served records, pinned GPUs and ports | plan_eviction, evict, serve, restore | `serve.*` tools, delegation, boot posture | one eviction or launch of several failing |
| Delegation `tools/specialist/delegate.py`, spawning `runtime/spawn_service.py` | the evicted set, child runs, child budgets | route, evict brain, spawn, restore, clamp budget | model swap, agent loop | early returns between evict and restore; 0 means unlimited |
| Agent loop `runtime/loop.py`, `run_state.py`, `dispatch_guards.py`, `turn_guards.py`, `final_guards.py` | `RunState`, message list, guard counters | model turn, tool dispatch, guards, verify, final answer, cancel | model client, tools, confirm, event bus | bounce caps, cancellation, stalls |
| Budgets `runtime/budget.py` | per-run counters | add, extend, exceeded | the loop | zero, extension against wall clock |
| Confirmation `runtime/confirm.py` | pending requests | ask, answer, timeout | the loop, web route | answer racing the timeout |
| Event bus `runtime/events.py` | replay buffer of 500, subscriber queues of 1000 | publish, subscribe, unsubscribe, forget | the loop, SSE | slow subscriber, reconnection |
| Eval suites `runtime/eval_runner.py`, `web/routes_eval.py`, `tools/eval/run.py` | the run lock, the cancel flag, the fallback tag, recording stubs in the tool registry, results in `eval.db` | start, tick, cancel, run a case, retry invalid ones | the loop, the tool registry | suites beside the lock, a start racing a tick, a failing store |
| Experiments and brain overlays `runtime/harness_experiments.py`, `brain_overlays.py`, `web/routes_brain_overlays.py` | proposals in `eval.db`, versions in `presets.db`, the loaded configuration | run the arms, propose, accept, reject, roll back, reload | eval suites, presets | two databases without a common commit, evidence that goes stale |
| Trace `runtime/trace.py` | `trace.db` | record | the loop | none: no decision reads it |
| Cloud gate `runtime/cloud_gate.py` | taint of a conversation | allow, block | model client, tools | taint that arrives during a run |
| Detached jobs `tools/job/runner.py` | a directory per job: `meta.json`, `exit_code`, logs | start, status, wait, cancel, the feed of finished jobs | the loop, the chat page | pids that change hands, a shell that writes beside its readers, a start that is cut off |
| Chats `web/store.py`, users `web/auth.py`, projects, connectors, uploads, Studio, pages | SQLite rows and files | CRUD | routes | whole-chat upsert |

### What makes the scheduled prompts hard

`tick` takes a due snapshot, queues each occurrence in SQLite, advances the
JSON definition and spawns a dispatcher; the dispatcher claims, validates,
marks launched, awaits the agent run, finishes the attempt with an outbox
effect, and posts the effect to the chat. These are two stores and a chat with
no common transaction, so safety rests on the order of commits and on three
idempotence keys: the unique `occurrence_key`, the `launched_at` mark, and the
`run_id` of a chat turn. The system is correct when

* an occurrence starts at most one agent run (a run has effects on the world and
  is never replayed),
* a schedule has at most one unfinished item and at most one run in memory,
* a result is posted exactly once,
* no firing is consumed without a durable item,
* an item is never stranded while the process runs,
* a pause, removal or revocation that lands at any await is honoured,
* due work, queued work and pending effects are eventually processed.

## 2. The modules and the code

| module | what it models | used by |
|---|---|---|
| `OccurrenceReports` | the promise of scheduled prompts, without the code: an occurrence is started at most once, its report is posted at most once, and a committed report is posted in the end | refined by `ScheduledWork` |
| `ScheduledWork` | `runtime/scheduler.py`, `runtime/work_store.py`, `web/scheduler_runtime.py`, the await of an arXiv watch, the admin operations on accounts and schedules | `MC_ScheduledWork`, the proofs |
| `ScheduledWorkProofs` | the theorems about it, the refinement of `OccurrenceReports` among them | |
| `GoalSupervisor` | the goal record and its supervisor (`web/goals.py`, the slash commands of `web/routes_run.py`) | the proofs |
| `GoalSupervisorProofs` | the theorems about it | |
| `ManagedProcess` | one slot of `runtime/process_manager.py` | `ServerSlot` |
| `ServerSlot` | nothing of its own: the instance `Slot` of `ManagedProcess` under names that `ModelSwap` leaves free | the run `slot`, the proofs |
| `ModelSwap` | `model.use` with its eviction and restore (`tools/model/catalog.py`) and `specialist.delegate` around it (`tools/specialist/delegate.py`) | `MC_ModelSwap`, the proofs |
| `ModelSwapProofs` | the theorems about it, and those about `ManagedProcess` as `ServerSlot` instantiates it | |
| `RunTree` | budgets and cancellation of a tree of agent runs (`runtime/spawn_service.py`, `runtime/budget.py`) | the proofs |
| `RunTreeProofs` | the theorems about it | |
| `AgentLoop` | one run: turns, dispatch gates, batch accounting, answer guards, verifier, exits (`runtime/loop.py` and the guard modules) | `MC_AgentLoop`, the proofs |
| `AgentLoopProofs` | the theorems about it | |
| `RunStream` | event bus, SSE streams and confirmations (`runtime/events.py`, `web/routes_run.py`, `runtime/confirm.py`) | the proofs |
| `RunStreamProofs` | the theorems about it | |
| `EvalSuites` | the run lock, schedules, cancellation and cases of eval suites (`web/routes_eval.py`, `runtime/eval_runner.py`, `tools/eval/run.py`) | `MC_EvalSuites`, the proofs |
| `EvalSuitesProofs` | the theorems about it, and those about `BrainOverlays` as `EvalLessons` instantiates it | |
| `BrainOverlays` | from matched experiments to stored overlay versions (`runtime/harness_experiments.py`, `runtime/brain_overlays.py`, `web/routes_brain_overlays.py`) | `EvalLessons` |
| `EvalLessons` | nothing of its own: the instance `Brain` of `BrainOverlays` under names that `EvalSuites` leaves free | the run `overlays`, the proofs |
| `DetachedJobs` | shells that outlive a run (`tools/job/runner.py`) and the feed of finished ones | `MC_DetachedJobs`, the proofs |
| `DetachedJobsProofs` | the theorems about it | |

Throughout, a step is what the code does between two awaits, or between two
commits where a crash matters; a `Crash` action exists only where something is
durable. Variables marked as history in the modules record what happened so
that a property can speak of it; no guard reads them, except to bound a run.

### ScheduledWork

`clock` is the time; `sched[s]` is an entry of `schedules.json` (`life`, `enabled`, `next`, the
fire time it expects); `work[o]` joins the rows `work_items`, `work_attempts`,
`work_effects` of the occurrence `o = <<schedule, fire time>>` (the
`occurrence_key`); `owner` is the account; `turns` holds the chat turns, by the
occurrence (their `run_id`). In memory: `loop` says where the one synchronous
segment is (tick, recovery, an admin operation, a dispatcher), `batch` is the
due snapshot of the tick, `polling` the await of an arXiv fetch, `exec` the
agent runs in flight, `ready` and `outbox` the tasks spawned and not yet resumed. Because
endpoints are `async def`, `loop` is a lock that
only a crash breaks: between two of its steps lies a commit, never another
coroutine. Ready tasks are resumed in any order.

Every transaction of `WorkStore` is one action: enqueue with the no-overlap
check and the prune, claim, mark launched, finish with the effect, apply and
fail of an effect, cancel, recover. `mark_fired` is the compare-and-set of the
definition. Prompts, times and cron expressions are reduced to the fire times
they produce; a schedule is a recurrence, a cron or a one-shot.

### GoalSupervisor

`rec` is the JSON record in `users.db`; `sup` is the supervisor task with the
await it is at (`launch`, `run`, `verify`) and the copy of the record it holds
over that await, which is what makes the read-modify-write visible. Every slash
command, an ordinary message (a pause), the end of a launch, of a run and of a
check, and a restart of the process are actions.

### ManagedProcess

The fields of `ManagedProcess` (`_stopping`, `restarts`, `_task`, `proc`), the
position of the run loop, the callers of `stop_one` and `start_one`, the
servers the kernel runs. The cancellation that `_read_output` swallows, the
other exceptions it takes for the end of the output (`ReadFails`), and the joined
loop of `stop_one`, are modelled as they are.

### ModelSwap

`armed` and `up` are the slots with a run loop and with a live server (what
`ManagedProcess` details), `served` and `loading` the serve registry, `cache`
the live-slot cache. Each delegation is a stack `todo[d]` of the calls it has
still to make, because `restore_evicted` calls `model.use`, whose rollback calls
`restore_evicted`. A call ends at its await, so other delegations, the servers
and `/api/cancel` come between. An eviction record is what `plan_eviction` makes:
a slot with the preset that is really on it, or a preset of the registry.
`dropped` is a list of stopped servers that a refused load, an error return or
a cancellation lost; `displaced` is what the stops of a restore took down, the
one thing a restore may take and not give back. Card memory is counted in units and compared as
`plan_eviction`, `model.use` and `ServeStart` compare it; `Known` says whether
`need_shares` has a number. Not modelled: host memory, CPU, remote and
port-less presets, `models.swap_back: false`, the margin `min_free_vram_gib`
(part of the units), the awaits inside `plan_eviction` (545, 614), which is one step
here. The registry records the path of a launcher's preset (`lifecycle.py:202`), and a
restore passes that to `model.use`, which looks it up among the names of the catalog:
in the shipped configuration they differ, and what was served is reported as failed to
restore. `Catalogued` is the presets for which they agree, in the run all but one; a
server is identified by its preset where the code uses the server's name.

### RunTree

`at[r]` is where a run is, `ceil[r]` and `spent[r]` the token dimension of its
budget (the spend of finished children included, as the reconciliation charges
it), `pending` the runs a CancelledError is to be thrown into: children run in
the task of their parent, which `/api/cancel` cancels once. A turn charges 1 to `MaxTurn` tokens, the
tools of a turn at most `MaxTools` on models of their own, charged when the batch is
recorded. A ceiling of 0 is what the code takes it for: none. The iteration count and
the context window are not modelled: any check may find one exhausted
(`LastTurn`), also where the tokens are, since the iterations are tested first;
the run then takes a turn no ceiling is checked for (`FinalSynthesis`).

### AgentLoop

`st` is the settings resolved once per run, `rs` the fields of `RunState` the
guards read, `plans` the batch in hand with `at` the call being worked on, and
`phase` the place in `AgentRuntime.run`. The model is free: each turn it
answers in one of the shapes the parser tells apart, or issues any batch. A
call passes the dispatch gates in the order of the code (barred tools, the hard stop, repeated
errors, j-space openers, strength walls, repeats, confirmation), then its result is recorded,
which is also where a loaded j-space begins to be watched (`badge_watch`),
then the batch is settled: progress, the stall ladder, auto-delegation. A final
answer meets the bounce guards with their caps, then the verifier. Every
exception exit and a cancellation at each await are actions. Left out: message
texts, compaction's effect on text, nudges that only add text, the window of
20 remembered calls (no batch here fills it).

### RunStream

`buffer` and `queue[c]` are the bus (the code's 500 and 1000, shrunk to 2 and
3 so that both overflow), `stream[c]`, `last[c]` and `seen[c]` an SSE client
that drops, resumes after the last id it got, or reloads. `future`, `said` and
`verdict` are the question of a confirmation, what the endpoint acknowledged and
what the run did. Ids are doubled, so that a notice at a fraction has an id.

### EvalSuites

`lock`, `running` and `cancelling` are `_RUN_LOCK` and `_SUITE_STATE`;
`job[j]` is a suite's coroutine with its place in a case. `eval.run` takes no
lock, as in the code. `tag` and `log` are the ledger of fallback turns by which
a case learns that another model answered for it (the last `LogSize` turns, 200
in the code, of suites and chats together, `ChatFallsBack`), `stubs` the recording tools
it puts in the shared registry, `ledger[j]` what is recorded; a row whose writes
were all refused stays in the summary with its status (`GivenUp`), as in the code. Left out: scoring
of answers, statistics, the report pages.

### BrainOverlays

`exps[e]` runs its arms one case at a time and compares the fingerprint of the
runtime before and after each; `inbox` is the proposals of `eval.db`,
`versions` and `active` the append-only history of `presets.db`, `loaded` the
configuration of the process. An accept writes one database, then the other,
then reloads; a restart may fall between, a reload may fail. Left out: what a
lesson says, the statistics of an experiment's verdict.

### DetachedJobs

`shell[s]` runs beside the loop: command, then the opening and the writing of
`exit_code` (two steps, so a reader may see an empty file), then a zombie until
reaped. `meta[d]` and `file[d]` are a job's directory, `look` the two steps in
which a status is derived, `cancel[c]` a `job.cancel` in its grace period,
`page` the chat page that polls the feed. A reaped pid may go to a stranger
process, also between the system calls of one cancel, each of which is an action: the
look at the command line (`Cancel`, `Escalate`), `getpgid` (`Aim`), the signal
(`Terminate`, `Kill`, or `Raises`). `Ours` is the code's test, a
directory's name that is part of a command line: a stranger that names the job passes,
a shell that its command replaced does not (`Execs`). SIGTERM takes effect
later, SIGKILL at once. `Feed` is the cut of the feed to its newest (20 in the
code); `Others` are jobs of which only the end is modelled. A run may be cancelled at the
await of the spawn, and the orchestrator restarted.

## 3. What the runs check

| run | instance | states | properties |
|---|---|---|---|
| `scheduled_one` | one one-shot, fire times 1..2, 1 crash, 1 failing delivery | 40 k | `AtMostOneStart`, `ReportPostedOnce`, `NoStrandedAttempt`, `OneShotIsNotPaused`, `QueuedWorkResolves`, `PromiseKeptFairly` (the refinement of `OccurrenceReports`) |
| `scheduled_two` | a planted arXiv watch every 2 units and the owner's cron entry, fire times 1..3, retention of 1, 1 crash, 1 escaping exception | 3.6 M | `NoOverlap`, `FiredWasQueued`, `OnlyEnabledAdvances` |
| `goal` | 2 goals of 2 turns, with and without a check command, 1 crash, 1 failing launch, 1 escaping cancellation | 5 k | `HaltHonoured`, `NewestOnRecord`, `GoalSettles` |
| `goal_stale` (violation) | one goal, the judge on | | `HaltSticks` |
| `slot` | 2 callers, 5 calls, 3 failures, 1 slow kill, 1 reading that raises, retry cap 1 | 37 k | `OneServer`, `LastCallWins`, `ComesUp` |
| `swap` | 2 cards, 6 presets, 3 slots of which 2 share a card, 2 delegations one after the other, any 2 of 7 mishaps | 73 k | `EvictionsAccounted`, `BrainBack`, `BrainSpared`, `UnknownAlone`, `DelegationEnds` |
| `tree` | 4 runs, depth 2, batches of 2, requests below and above the remainder | 320 k | `OverrunBounded`, `CancelStops`, `TreeEnds` |
| `loop` | nine settings, each aimed at one rail; 2 to 6 iterations, batches of at most 2, 1 cancellation, 4 exceptions | 1.2 M | `OpenersFirst`, `OkMeansVerifiedInLoop`, `RunEnds` |
| `stream` | 2 clients, buffer 2, queue 3, 4 events, 2 connections each | | `NothingBufferedIsMissed`, `InOrderOnce`, `RunsOnlyApproved`, `FinishIsSeen` |
| `suites` | a posted, a called and two scheduled suites, 2 starts and 3 intervals in all, a log of 2, 1 mishap of 6 kinds or a restart | 658 k | `OneSuite`, `SummaryIsRecorded`, `AloneVerdictsRight`, `OncePerInterval`, `SuitesEnd` |
| `overlays` | 2 experiments, 1 ordinary run, 2 edits, 2 versions, 2 foreign changes, 1 mishap | 2.1 M | `AcceptedIsStored`, `ExperimentEvidence` |
| `jobs` | one job and the end of another, a feed of 1, 1 pid, 1 stranger, 2 cancelling runs, 1 restart | 704 k | `SuccessIsReal`, `StrangersSpared`, `FinishAnnounced` |

The modules define more than the runs list: `TypeOK` of each, the inductive
invariants, and `NoConcurrentRuns`, `PromiseKept`, `DueFires`, `TurnCeiling`,
`ActiveSupervised`, `AttemptsBounded`, `StopReturns`, `CeilingInherited`,
`TreeOverrunBounded`, `RefusalsEnd`, `RepeatsEnd`, `MatchedAtEnds`,
`CancelIsForTheRunning`, `SpendBounded`, `StubsLeave`, `CancelledIsOver`. They
hold on the same instances and can be added to the `.cfg` of their module; the
runs keep the properties that say most.

### What they show

* **Scheduled prompts.** Whatever a crash does between any two commits, an
  occurrence starts at most one run, a schedule keeps one unfinished item, the
  report is in the chat exactly once and the item is not marked completed
  before. `OneShotIsNotPaused`: `mark_fired` disables a one-shot before its run,
  and the launch-time check does not take that for a pause.
  `OnlyEnabledAdvances`: a schedule paused, removed or disabled while the tick
  awaits an arXiv fetch keeps its fire time (it is not about an owner whose access
  was withdrawn meanwhile: that the launch asks for). Three fire times are enough
  for the overlap and the retention to meet (an item of the first occurrence
  is terminal, or not, when the second is queued, and is pruned by it). Two
  crashes, the second in the recovery of the first, were tried on a cron entry
  with two fire times; the theorems cover any number.
* **Goals.** A pause or a stop lands at every await. The re-read after a run
  makes it stick; `HaltHonoured` and `NewestOnRecord` say where it does not (a
  goal with a check command, a launch that raised), and `goal_stale` shows it.
  Two goals are enough for a supervisor to hold the record of one while the
  other is on record.
* **Slots.** With starts only between stops the last call wins, and a slot
  somebody wants up comes up. `OneServer` and the second half of `StopSticks`
  count the servers left behind: one at most for each kill that outlived its five
  seconds and each reading that raised. The loop takes either for the end of the server,
  and what it spawns next runs beside it; no stop finds the one it no longer names.
* **Swaps.** One delegation at a time: a failed load, a refused stop, a server
  that comes up late, a mute specialist, a cancellation. `EvictionsAccounted`: what
  was live is live again, noted as failed, or was stopped by a restore to make room,
  unless an early return, a refusal or a cancellation dropped the list of it.
  `BrainBack`: the brain is not among what a restore displaces, and `BrainSpared`:
  only a delegation's own swap stops it, no restore does, although restores evict
  and load. `UnknownAlone`: a preset of unknown need that a delegation's own swap loads
  has its cards to itself, whatever refused to stop; of a preset of known need the
  code does not make sure of as much (`NoOverload` in the next subsection). Two specialists on one card are where a
  restore displaces; a second delegation finds the first one's newcomer loaded, when
  that was cancelled, and has it to restore. What the excuses stand for is in the table
  of the next subsection.
* **Run trees.** A cancellation stops the whole tree although a child's handler
  swallows it; a bounded tree ends; without batches it outspends its ceiling by
  at most the turn its ceiling still allowed, the model calls of that turn's tools and
  the last turn nobody checks, and a turn and a batch of tools for each level below
  (11 tokens with the bounds of the run, and not 10). Depth 2 has a run that is both child and parent; batches of 2
  are the smallest in which two children are carved from one remainder.
* **The agent loop.** However calls, refusals and failures interleave, nothing
  but the ledger is written and nothing delegated, by the model or by the harness,
  between the batch that loads j-space and the badge (`OpenersFirst`; the batch of the
  load itself is judged before there is a watch, and loading another skill that asks
  for a badge ends it); an `ok` of a run with a check to pass
  means that it passed, but where the plan gate ended the run or its answer was
  synthesized (`OkMeansVerifiedInLoop`); every run ends. Batches of two are where a refusal
  and an execution share one turn's accounting; each setting turns on one rail
  and those that meet it, because all of them at once is beyond TLC.
* **Streams.** A client that resumes gets every event still buffered, each once
  and in order, whatever the bus dropped between; a call a person was asked
  about runs only after an acknowledged yes; a page that stays sees the end.
* **Eval suites.** At most one suite holds the machine among those that take
  the lock, a verdict of a case that ran alone is about its own turns, unless turns of others
  flushed the log before it was reached, what a summary counts is recorded or was refused
  every time, an
  interval starts its suite at most once, and every suite ends with its summary
  even when a case raises. A start racing a tick needs two schedules and an
  administrator; the agent's suite is the one beside the lock.
* **Brain overlays.** An accepted lesson of an experiment extends exactly the
  snapshot all arms ran under, whatever was edited, accepted, rolled back or
  restarted meanwhile, and a proposal marked accepted is in the history. Two
  experiments are where one's accept makes the other's evidence stale.
* **Detached jobs.** A status of success is a command that exited with zero,
  although the file is written beside its reader (the job may have been cancelled: a
  shell that traps SIGTERM may still write a zero); a signal of `job.cancel` reaches a
  process that has nothing to do with the job and does not name it only if that took the
  pid between the look at the command line and the signal, never because it took it
  before the call or in the grace period; an end the page has not seen is
  announced once it polls, unless as many newer ends as the feed holds came before the
  poll. One pid is the one that is recycled, a feed of one the smallest that another
  job's end can push the first out of. Two full jobs exceed TLC's time.

Larger instances that were tried and are not listed for their time: `swap` with
two overlapping delegations and one mishap (7.2 M states, for `BrainSpared` and
`BrainBack`), and with three mishaps (`EvictionsAccounted` and the others, 176 k
states on slightly different sizes).

### Where the code and its documentation part

One disagreement is kept as a run. `goal_stale`: a `/goal stop` or pause given while
the check command or the judge answers is overwritten by the record read before
it, which `web/goals.py:333` says must survive.

The others are hazards in PROJECT.json,
each with its line and a note; each can be reproduced by checking the
definition named here, which then fails:

| module | definition | how | what TLC shows |
|---|---|---|---|
| `ServerSlot` | `LastCallWins` | `StartsOverlap = TRUE` | `start_one` during another caller's `stop_one` reports success and the slot stays down |
| `RunTree` | `OverrunBounded`, `CeilingInherited` | `0` in `Requests` | a spawn that asks for a budget of 0 has no ceiling under a bounded parent |
| `RunTree` | `BatchesBounded` | as in `MC_tree.cfg` | the children of one batch are each given the whole remainder (`tools/agent/fanout.py:16-17`: "8 children × their sub-budgets is your ceiling, not 8 new ones") |
| `ModelSwap` | `BrainFirst` | no mishap | the records name the slots in the order of the process table, which has the brain first, so in reverse it is restored last (`catalog.py:650`, `docs/model-placement.md:73`) |
| `ModelSwap` | `CleanSwap` | no mishap | what stands in the way of a slot is planned before the newcomer is stopped: of two specialists on one card, restoring the one stops the other, which the same restore has just brought back and noted as restored |
| `ModelSwap` | `HandedBack` | `Slots` without `specialist2`, `research` larger than both cards, no mishap | `model.use` evicts before it compares the size of the newcomer with the memory, and its refusal does not say what it stopped; the same loss after a failed load was fixed (`catalog.py:1014`) |
| `ModelSwap` | `HandedBack` | `Slots` without `specialist2`, the mishap `"early"` | an error return of `specialist.delegate` between the swap and the child skips the restore, which is in the `finally` of the child |
| `ModelSwap` | `EvictionsAccounted` | `Overlap = TRUE`, no mishap | of two delegations at once the one loses what the other stopped |
| `ModelSwap` | `NoOverload` | `helper` of `Units(2, 1)`, on both cards | a slot that a restore gave up on comes up between the plan of a load and the load, and what is compared with the need is the room of all the preset's cards together (`catalog.py:997-999`): the server is launched where it does not fit |
| `ModelSwap` | `PatientSwap` | the mishap `"slow"` | the poll for a swapped-in model reads a cached miss for as long as it polls |
| `AgentLoop` | `SpecialistFirst` | as in `MC_loop.cfg` | a delegation that a gate refused opens the strength wall: the next write goes through with no delegation made |
| `AgentLoop` | `HandoverContinues` | as in `MC_loop.cfg` | a wrap-up that one refusal of a batch ordered outlives the hand-over the next one made |
| `AgentLoop` | `OkMeansVerified` | as in `MC_loop.cfg` | the answer recovered after a context overflow, or of a plan, is `ok` without its check |
| `RunStream` | `InOrderOnce` | `Notice = TRUE` | a notice emitted at a fraction of an id arrives out of order after a resume |
| `RunStream` | `AcknowledgedCounts` | as in `MC_stream.cfg` | an answer the endpoint accepted lost to the time-out |
| `EvalSuites` | `LockIsReleased`, `VerdictsRight` | as in `MC_suites.cfg` | a failing store or stamp in the tick leaves the lock held by nobody; suites side by side share the fallback tag |
| `BrainOverlays` | `EveryEvidence` | as in `MC_overlays.cfg` | the lesson of an ordinary run is filed under an overlay that was activated during it (`admin.md:467`) |
| `DetachedJobs` | `Manageable` | as in `MC_jobs.cfg` | a job whose start was cut off runs without a record (`runner.py:11`) |
| `DetachedJobs` | `EndedLeftNoCode`, `RunningRuns`, `AnnouncedOnce` | as in `MC_jobs.cfg` | a code written between the look at the file and the look at the pid makes a finished job `ended`; a stranger with the pid makes a dead one `running`; a code read while it was written is announced as failed, then as succeeded |
| `DetachedJobs` | `FinishAnnounced` | without its last disjunct | of more ends than the feed holds between two polls the oldest is never announced (`routes_chats.py:259`) |
| `DetachedJobs` | `NothingLeft` | as in `MC_jobs.cfg` | a child that ignores SIGTERM outlives the cancel (`catalog.md:186`) |
| `DetachedJobs` | `SuccessIsReal` | `Dir <- SameSecond`, `Starts = {1, 2}` | two jobs of one second and label share a directory |

## 4. Fairness

* `ScheduledWork`: weak fairness of the synchronous segment and of a restart;
  strong fairness of each ready task and of each await that ends, because the
  loop resumes its tasks in turn but none is continuously enabled while another
  segment runs. The arXiv fetch has a timeout and an agent run a budget, so both
  end. A failing delivery is bounded (`MaxFaults`), and
  its backoff expires.
* `GoalSupervisor`: a spawned task is resumed, launches and runs end by their
  budgets, the check command has a timeout, the judge is one call with a
  timeout; the service manager restarts the process. Nothing is assumed of the
  user.
* `ManagedProcess`: the loop steps, a killed server dies, the wait of a kill
  ends (it has a timeout).
* `ModelSwap`: each await of a delegation ends (stops, probes and waits have
  deadlines, the child has a budget); a server that fits its cards comes up. A
  loading server need not.
* `RunTree`: each run steps; a turn charges at least one token, as a prompt is
  never empty.
* `AgentLoop`: `WF(Run)`: a turn, a confirmation and a tool have time-outs, so
  each await ends; nothing is assumed of what the model says.
* `RunStream`: the question is answered or times out, the run finishes, the bus
  forgets it, and an open stream receives or is told that the run is unknown.
  Nothing is assumed of a client that dropped.
* `EvalSuites`: while a suite can go on, one does, as its turns, its containers and
  its judge have time-outs. The suites' starts are bounded, so none waits for ever.
* `BrainOverlays`: none; its properties are safety.
* `DetachedJobs`: an open page polls (every 30 s) and a look at a pid that was
  begun, or a signal that was aimed, is finished. The poll is strongly fair: whatever else the
  loop is busy with, it serves the request in its turn. Nothing is assumed of the shells.

## 5. What is proved

Each theorem holds for every value of the constants that satisfies the
assumptions of its module: any number of schedules, goals, callers, runs,
suites or jobs, any bounds. An action property is proved from the same inductive
invariant as the state properties. Every `IInv` was checked by TLC first on the
run of its module. Where a theorem needs a hypothesis that the code does not
give for nothing, it is stated in the theorem, and the table at the end of
section 3, or the text below, says what happens without it.

### Scheduled prompts

`ScheduledWorkProofs`, under `ConstantsAssumption`
(types; the set of schedules is finite).

| theorem | statement |
|---|---|
| `TypeCorrect`, `Invariance` | `Spec => []TypeOK`, `Spec => []IInv` |
| `OneStart` | `Spec => []AtMostOneStart` |
| `NoOverlaps` | `Spec => [](NoOverlap /\ NoConcurrentRuns)` |
| `OnePost` | `Spec => []ReportPostedOnce` |
| `NoStranding` | `Spec => []NoStrandedAttempt` |
| `KeptInvariance` | `Spec => []IInvKept` |
| `PromiseIsKept` | `Spec => PromiseKept`: the scheduler implements `OccurrenceReports` |
| `FiringsAreQueued` | `Spec => []FiredWasQueued` |
| `OnlyEnabledAdvance` | `Spec => OnlyEnabledAdvances`, an action property |
| `OneShotsRun` | `Spec => OneShotIsNotPaused`, an action property |

`AtMostOneStart` is not inductive: the unique `occurrence_key` that forbids a
second start disappears when retention prunes the row. `StartsAccounted` is the
strengthening: a started occurrence keeps its launched mark until its row is
pruned, and by then the recurrence has moved past it, so the tick cannot queue
it again. That needs `RowsNotAhead` (rows are queued in the order of time, up to
the next fire time), `BatchCurrent` (the snapshot agrees with the definitions
while the segment holds it), `RowsOK` (item, attempt and effect move together)
and `LaunchPoint` (between the mark and the start of the run nothing else
happens). `NoConcurrentRuns` follows from `ExecBacked` (a run in memory has a
running attempt) and `NoOverlap`; `ReportPostedOnce` from `AckPoint` (a turn in
the chat without an applied effect is a pending effect that will find it);
`HoldsNothing` carries the conjuncts over a crash.

The refinement maps an occurrence's pending or retried effect to `reported`, the
deletion of the account to `gone`. Most steps stutter; a launch is `Start`, the
finishing transaction with an effect `Report`, the append of the turn `Post`,
the commit after it `Acknowledge`, and the deletion of an account with its
stores `Delete`, `ForgetTurns` and `ForgetReports`. `IInvKept` adds what these steps need: `TurnsAccounted` (an awaited run was
started; a posted turn has its committed report until it is pruned),
`RunsDropped` (a run that outlives its account finds no row to finish),
`TickPoint` and `OneShots` (what the tick holds when it queues, advances or
disables), and `FiredWasQueued` itself.

### Goals

`GoalSupervisorProofs`, under `GoalAssumption`.

| theorem | statement |
|---|---|
| `TypeCorrect`, `Invariance` | `Spec => []TypeOK`, `Spec => []IInv` |
| `HaltIsHonoured` | `~Judge` gives `Spec => []HaltHonoured` |
| `NewestIsOnRecord` | `~Judge` gives `Spec => []NewestOnRecord` |
| `TurnsBounded` | `Spec => []TurnCeiling` |
| `GoalsSupervised` | `Spec => []ActiveSupervised` |

With the judge on, the record is written back after an await without being
read again, whatever the goal: that is `goal_stale`. Without it only goals with
a check command are exposed, and the properties say so. `VerifyHeld` (only
a check command, or the judge, keeps the supervisor at its last await) makes both
inductive, with `GoalsNamed` (whoever is active names a goal that was set);
`LaunchesCounted` relates the launches of a goal to the turn in the record and
in every stale copy of it, so that a stale write cannot win turns back.

### Managed processes

The last section of `ModelSwapProofs`, on the instance `Slot` of `ServerSlot`,
each with the hypothesis `~StartsOverlap`: no `start_one` during another caller's
`stop_one`.

| theorem | statement |
|---|---|
| `SlotTypeCorrect`, `SlotInvariance` | `Slot!Spec => []Slot!TypeOK`, `Slot!Spec => []Slot!IInv` |
| `OneServerRuns` | `Slot!Spec => []OneServer` |
| `StartsStick`, `StopsStick` | `Slot!Spec => []Slot!StartSticks`, `Slot!Spec => []Slot!StopSticks` |
| `LastCallHolds` | `Slot!Spec => []LastCallWins` |
| `RetriesBounded` | `Slot!Spec => []Slot!AttemptsBounded` |

`StopsHold`: a `stop_one` in its awaits has told the loop to stop, and nothing
undoes that. `LoopAwaited`: a loop that should be gone remains only while a
`stop_one` awaits it. `LeftBehind`: the servers whose output no loop reads are
no more than the slow kills and the readings that raised; before a spawn, one that has
exited but is still waited for counts too, because the stop that waits for it will take
the newer server for its own. `AttemptsPaid`: each attempt
but the first was paid for by a counted failure.

### Model swaps

`ModelSwapProofs`, under `SwapAssumption` (types; servers that run together at the
beginning listen on different ports). Any hardware, any presets and sizes, any
number of slots and delegations, any mishaps.

| theorem | statement |
|---|---|
| `SwapTyped` | `Spec => []Typed`: `TypeOK` and the shape of the stacks |
| `BrainIsSpared` | `Spec => BrainSpared`, an action property; delegations may overlap |
| `EvictionsAreAccounted` | `~Overlap` gives `Spec => []EvictionsAccounted` |
| `BrainComesBack` | `~Overlap` and `BrainApart` give `Spec => []BrainBack` |

`BrainIsSpared` needs `BrainKept`: while a restore is on a delegation's stack the
call on top may not stop the brain, and has no record of it left to stop. The
stacks matter, because the restore of a server calls `model.use`, which plans
anew, and its rollback restores again.

`EvictionsAccounted` speaks of the end of a delegation; in between, a preset that
was live at the beginning is safe or somebody owes it (`Owes`): a restore with its
record, the call that starts or loads it, or the delegation that has its record in
a list it will hand to `restore_evicted`. `Accounted` says so, and the other parts
of `OneSwap` are what a step needs to pass a debt on. A record made by
`plan_eviction` brings back what was on the slot only if `live_slot` was right
(`PlanSound`), so its cache is right or about to be forgotten
(`CacheTrue`), which takes that two live servers never share a port
(`DistinctPorts`). `RetFits` says that the result a restore reads is that of its own `model.use`,
`Untouched` that a delegation plans before it stops anything.

`BrainApart`: no server of the registry runs the brain's preset and no delegation
asks for it. Then only its slot ever serves it (`BrainHome`), and with `BrainKept`
no restore displaces it.

`~Overlap` is not what the code ensures: two delegations of different chats have no
lock between them. `EvictionsAccounted` fails without it (the table at the end of section 3).
`BrainSpared` is proved without it. For `BrainBack` with it TLC finds no
counterexample on the instance of `swap` with one mishap, but the proof goes
through `OneSwap`.

### Run trees

`RunTreeProofs`, under `TreeAssumption`.

| theorem | statement |
|---|---|
| `TypeCorrect`, `ShapeInvariance` | `Spec => []TypeOK`, `Spec => []Shape` |
| `SpendingInvariance` | `0 \notin Requests` gives `Spec => [](Shape /\ Spending)` |
| `CeilingsInherited` | `0 \notin Requests` gives `Spec => []CeilingInherited` |
| `OverrunIsBounded` | `0 \notin Requests` gives `Spec => []OverrunBounded` |
| `CancelledTreeIsStill` | `Spec => CancelStops`, an action property |

`Shape` is what a tree looks like: runs are numbered in the order of
their spawns, the parent of a live child waits, and after a cancellation every live run is about to be
told or waits for one that is (`CancelReaches`). `Spending` carries
`ChildCarved` along a chain: what a parent has spent and its child's ceiling
fit in the parent's ceiling, so what a child is beyond its own ceiling its parent is
at most beyond its own, and `OverrunAt` says how much that may be where a run is. A request of 0 is taken for no ceiling, the
hazard at `runtime/spawn_service.py`.

### Agent loop

`AgentLoopProofs`, under `CallsAssumption` and `SettingsAssumption` (types: the
calls a run may make are calls, its limits are numbers). Nothing is assumed of
what the model answers, which tools fail or how large a batch is.

| theorem | statement |
|---|---|
| `TypeCorrect`, `Invariance` | `Spec => []TypeOK`, `Spec => []IInv` |
| `OpenersComeFirst` | `Spec => []OpenersFirst` |
| `LoopVerifies` | `Spec => []OkMeansVerifiedInLoop` |
| `RefusalsAreBounded` | `Spec => []RefusalsEnd`: refusals exceed `guard_max` by the rest of a batch at most |

`OpenersFirst` speaks of calls that ran, but they are judged for the whole batch
before any of them is accounted for. `Opening` therefore relates three moments:
the gate is open for a badge only (`GateBadged`), a call of the present batch
that was let through to write or delegate under the watch found it open (`PassedGate`;
the watch does not end while a batch is judged, `Watching`), and what
ran before is badged. `EndsChecked` says the same of the two places where a run
can leave the loop without a check. `Refused` is why refusals are bounded in the
middle of a batch: before the limit each refusal is one of the batch's calls
judged so far; at the limit one hand-over is tried, and the count can
only stand at the limit with the tools on if that hand-over worked. The lemmas
about a run state (`HandOverFacts`, `EscalatedFacts`, `RecordFacts`) say of each
helper of the loop that it goes on with the same run, counts no refusal it should
not, and opens no gate; the steps of the gates cite them.

### Streams and confirmations

`RunStreamProofs`, under `SizesAssumption`.

| theorem | statement |
|---|---|
| `TypeCorrect`, `Invariance` | `Spec => []TypeOK`, `Spec => []IInv` |
| `BufferedIsSeen` | `Spec => []NothingBufferedIsMissed` |
| `InOrderAndOnce` | `~Notice` gives `Spec => []InOrderOnce` |
| `ApprovedRuns` | `~OnTimeout` gives `Spec => []RunsOnlyApproved` |

The buffer and every queue are ends of one sequence, cut at different places by
their different sizes. `Aligned` says so: an open queue ends like the buffer, and
what the buffer has beyond it the page has shown. `ResumeSafe` is the
same for pages that are away: what a client does not ask for when it resumes, its
page has shown. For the order of a page the invariant must also say that it
is at the last event it got and that its queue is newer (`UpToLast`). A notice has
no id of its own, so this fails with one (`Notice`, a cleared model override),
and so does the property: see the hazard at `web/routes_run.py`. `OneAnswer`
ties the question to its answer: a resolved future was answered once, and the
answer is acknowledged before the call resumes. `~OnTimeout` is the default of
`WebConfirmationProvider`; with it set, a time-out is meant to run the call.

### Eval suites

`EvalSuitesProofs`, under the assumptions on jobs, plans and caps, for a log of any
size.

| theorem | statement |
|---|---|
| `TypeCorrect`, `Invariance` | `Spec => []TypeOK`, `Spec => []IInv` |
| `OneSuiteAtATime` | `Spec => []OneSuite` |
| `IntervalsStartOnce` | `Spec => []OncePerInterval` |
| `SummariesAreRecorded` | `Spec => []SummaryIsRecorded` |
| `AloneVerdictsAreRight` | `Spec => []AloneVerdictsRight` |

`LockHeld` (who took the lock and is active has it) and `DueIsUnused` (an
interval that is due was not used) strengthen the first two. A verdict is right
when the log of fallback turns has the tag of this attempt at this case and no
older one. So `TagsBegun` orders the tags: one that is in the log, current, or
kept by a suite is of an attempt that began, hence the tag of the next attempt
is new; `AloneIsOwn` says that a case nobody ran beside has its own tag current
throughout, and that when its turns fell back its tag is in the log below the
`noise` entries made since, as long as these are fewer than the log holds. `Positions`
says which rows a suite has at each place, the retries of invalid results
included, which is what the summary is compared with.

### Brain overlays

The second half of `EvalSuitesProofs`, on the instance `Brain` of `EvalLessons`,
for every set of edits and every bound.

| theorem | statement |
|---|---|
| `EvidenceHolds` | `BrainSpec => []ExperimentEvidence` |
| `AcceptedHolds` | `BrainSpec => []AcceptedIsStored` |

`ExperimentEvidence` speaks of a stored version, but what makes it true happened
while an experiment ran. The strengthening `IInv` carries the evidence along:
`RunningEvidence` (a running experiment's arms all ran under its base, because
the fingerprint of every case is compared with the first), `DoneEvidence` (so
did those of a finished one), `InboxEvidence` (and of the proposal it filed).
At the accept, the guard that the active version is the proposal's base, with
versions that are only ever appended, gives the new version's predecessor.

### Detached jobs

`DetachedJobsProofs`.

| theorem | statement |
|---|---|
| `TypeCorrect` | `Spec => []TypeOK` |
| `StrangersAreSpared` | `Spec => []StrangersSpared` |
| `SuccessesAreReal` | `OwnDirs` gives `Spec => []SuccessIsReal` |

`PidsOwned` (a pid that is taken has one owner) carries the types of a reused
pid. `AimedRight` is what a `job.cancel` knows between two system calls: as long as
the pid was not given to somebody (`kept`), whoever has it is not a stranger to the job, or
names it. It is made true by each look at the command line, again before
SIGKILL; whatever else happens to the processes keeps it or clears `kept`.
So what the theorem leaves to chance is one window: from a look to the signal after it.
`CodeAtEnd` and `ZerosAreReal` follow a zero from the shell through the
file to whoever reads it. `OwnDirs`: no two jobs share a directory, which the
label and the second of the start do not ensure.

### Only model-checked

* Everything under fairness (`QueuedWorkResolves`, `PromiseKeptFairly` beyond its
  safety, `GoalSettles`, `ComesUp`, `DelegationEnds`, `TreeEnds`, `RunEnds`,
  `FinishIsSeen`, `SuitesEnd`, `FinishAnnounced`): liveness and `ENABLED` are
  outside the prover.
* `UnknownAlone`, `NoOverload`. The first is checked with one delegation at a time, also
  with a helper of the registry on both cards; two at once break it. The second
  depends on the sizes, as the code compares a need with the memory of all the cards
  together (`RefusesLoad`): with those of `MC_ModelSwap` it holds.

## 6. Not modelled, and why

PROJECT.json lists every component. The definitions map to about nine per cent
of the implementation's lines. The rest is, for the larger part, code whose
behaviour is not a matter of states and orders: request handlers that read and
write one row, tools that do one I/O operation, parsers, importers, prompt
assembly, wording, the statistics of evals, the browser client. Of the modelled
components, each subsection of section 2 says what was left out.

Excuses inside properties (`escapes = 0`, `faults > 0`, `rec.check`,
`slow`, `torn`, `dropped`, `~wide`, `alone`) each stand for a hazard of the list,
with the line where it bites.

## 7. Plan

The order was: the unattended work first (it persists, it crashes, it acts on
the world without a user), then what the user relies on to stop it (goals), the
servers everything needs (slots, swaps), the spending of run trees; then the
agent loop itself, what a person sees and answers of it, the suites that judge
it, the lessons that change it, and the jobs it leaves behind. All of these are
written.

Still to be modelled:

1. `TriggerStore`: the rows behind an arXiv watch, their unique key and the
   decision that follows, composed with the tick.
2. The wall-clock dimension of budgets with its extensions; the cloud gate's
   taint while a call is in flight.
3. The process table (`stop_all`, add, remove at run time), with
   `ManagedProcess` as the detail of the slots of `ModelSwap`: a refinement
   that maps a slot's server to `up` and its loop to `armed`.
4. Whole-chat saves of a browser against turns appended meanwhile
   (`web/store.py:133`).

Of the safety and action properties the passing runs check all but `UnknownAlone` have
a theorem. Next: that nothing is displaced where no two slots share a card, from
`OneSwap` and a lemma that a restore then has nothing but the newcomer to stop;
`BrainBack` without `~Overlap`; `RepeatsEnd` of `AgentLoop` from its invariant.
