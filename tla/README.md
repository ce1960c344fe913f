# A verification of devrix's orchestration core

devrix is a Go platform that runs LLM agents for chat channels. A message goes

    Adapter -> CommunicationGateway -> SessionOrchestrator.ProcessMessage
      -> TurnState.WaitTurn, classification, routing
      -> RunSessionTurnLoop  (BeginTurn ... rounds ... EndTurn)
           -> ItemPipelineRunner -> executePlanDAG -> DAGExecutor.RunPlanDAG
                -> WaveScheduler -> SubAgentRunner -> RunBackground -> LLM gateway

and every arrow after the second crosses goroutines. The project models the
parts in which goroutines, cancellation and shared tables meet: the wave
scheduler, the plan executor above it, the sub-agent runner and the background
registry below it, the gateway and the gate that serialise the turns of a
session, and the circuit breaker every LLM call goes through. It also models what
outlives a turn: the work tree of a session, with its file and restarts, the
spawn policy, the loop that works the tree off, and the private conversation of a
work item, which every execution reads from its file and appends to. The wording of
prompts, parsing, formatting and transport are data here, or left out.

Contents: 1 inventory, 2 modules and their correspondence with the code, 3 runs,
bounds and fairness, 4 what is proved, 5 what the code does against its own
comments, 6 what is not modelled, 7 plan.

## 1. Inventory

Paths are under `src/internal/layers/` unless they start with `bootstrap`.

| Component | State | Operations | What makes it right |
|---|---|---|---|
| Wave scheduler, `orchestration/wavescheduler` | `waves` per session; per wave a task graph, handles, context, `doneCh`; shared: pool, conflict guard, artifact store, one wake-up channel | `Start` (with reentry), `dispatchLoop`, `dispatchOne`, worker goroutine + `completeTask`, `CancelWorker`, `AbortSession`, `CancelAll`, `AwaitDone` | a node starts once and after its dependencies; capacity; no two conflicting workers; no slot lost; results visible before states; waits end |
| DAG executor, `wavescheduler/dag_executor.go` | per call: emitted set, failed set, output channel | convert, poll, drain, abort and walk, final row | one row per node, none after the final one, the channel closes |
| Plan round, `sessionorchestrator/execute_plan_dag.go` | dedup table, outcomes, verdict | range over the channel, fold, build the round | the verdict says what happened to the nodes |
| Session turns, `sessionorchestrator/turn_state.go`, `session_turn_loop.go` | a handle per session | `WaitTurn`, `BeginTurn`, `EndTurn` | one turn at a time; whoever waits gets on |
| Background tasks, `contextengine/enforce`, `wavescheduler/runners/subagent.go` | registry entries with status, cancel func, done channel | `RunBackground`, `Cancel`, `Complete`, `SubAgentRunner.Run` and its watcher, `task_stop` | the status is decided once; no notification of a cancelled task; the runner returns |
| Circuit breaker, `llmgateway/protect/circuit_breaker.go`, `stream/gateway.go` | per provider: state, failure count, half-open counters | `Allow`, `RecordSuccess`, `RecordFailure`, under `Gateway.Stream` and the retry chain | open is timed; the half-open window holds probes only; it recovers |
| Work tree, `orchestration/workmodel/work_tree.go` | the items of a session: kind, parent, status, lock, blockers, rollup flag; the same in a file | `EnsureGoal`, `Create`, `UpsertChecklist`, `PromoteChecklist`, `UpdateStatus`, `AddDependency`, `Remove`, `SetNeedsRollup`, `ReopenForRollup`, restart | locks agree with statuses; no cycle, no orphan, no blocker that is gone, whatever is lost by a failed save |
| Spawn policy and rollups, `workmodel/spawn_*.go`, `rollup_*.go`, `resolve.go` | retry counters and the last round of an item | `Evaluate`, `ApplySpawnPolicy`, `ReevaluateParentAfterChild`, the rollup gates | depth, budget and retries are bounded; no parent ends over open children; failed work never passes |
| Session loop, `sessionorchestrator/session_turn_loop.go`, `item_pipeline.go` | the focus, the round in progress | tick, round, tools of a round, exit | every turn ends; an item that was split has somebody to wait for |
| Item execution, `sessionorchestrator/workitem_executor.go`, `contextengine/materialize`, `contextengine/prepare/conversation`, `turn_invoke.go` | the file of an item's private chain; per execution the messages it is given and those it adds | `ExecuteWorkItem`, materialise, prepare, rounds of LLM and tools, append; `RepairToolMessageChain`, `compressMessages` | a prompt pairs every call with its answer; every round is kept once; what a model is shown is recent and whole |
| Communication gateway, `communication/capture` | the cancel func of a session's active process | `RouteInbound`, its reader, `unregisterProcess`, `/stop` | a running turn can be stopped; a cancelled one ends |
| Escape and hardening | depth, budget and error counters | arbitration | nothing installs the engine |
| Execution flow | hub subscriptions, session queues | enqueue, drain | no command lost |
| Channels | permission prompts, adapters, rate limits, event bus | deliver, prompt, throttle | order, bounded queues |
| Context engine | session transcripts, asynchronous compaction, tools, permissions, persistence | prepare, compact, run tools | nothing lost by a compaction that races with new messages |
| Multi-agent | agent runs, external sessions | spawn, stop, collect | a run ends once |
| LLM gateway | routes, budgets, rate limiter | stream | budgets hold |
| Observability, evolution, bootstrap, CLI | metrics, wiring | | no state others read |

What is hard: waves replaced while their loop is dispatching; `completeTask`
publishing one result in four steps; aborts that work on snapshots; results that
arrive after the state they belong to is gone; check-then-act gates; channels
closed by whoever comes first; counters given back by the wrong call; table entries
deleted by name and not by owner; a tree that several callers change between the
steps of a round, and whose file may be older than it; a conversation file that an
interrupted append leaves with half a round, and a budget that cuts into it. The
`hazards` of `PROJECT.json` list them at their lines.

## 2. Modules

| Module | Models | Uses |
|---|---|---|
| `WaveScheduler` | scheduler, pool, guard, graph, artifact store | `ExclusiveSlots` (refined) |
| `ExclusiveSlots` | the promise about parallelism: begin once, capacity, no conflict | |
| `DAGExecutor` | `RunPlanDAG` and its consumer | EXTENDS `WaveScheduler` |
| `PlanExecution` | `executePlanDAG`: dedup, verdicts, rollup | EXTENDS `DAGExecutor` |
| `CircuitBreaker` | the breaker under concurrent `Gateway.Stream` calls | |
| `SessionTurns` | the messages of one session | |
| `Gateway` | `RouteInbound`, its reader and `/stop` around the turns | EXTENDS `SessionTurns` (refined) |
| `WorkItems` | the items of a work tree and the operators on them | |
| `WorkTree` | the methods of `WorkTree`, its file, restarts | EXTENDS `WorkItems` |
| `SpawnDecision` | the spawn policy, a pure function | |
| `SessionLoop` | the loop, its rounds and their tools, workers, reviews, crashes | EXTENDS `WorkItems`, `SpawnDecision` |
| `PrivateChain` | the messages of a private chain: pairing, repair, compression | |
| `ItemExecution` | the executions of one work item, its file, faults of the append | EXTENDS `PrivateChain` |
| `BackgroundTasks` | one task: runner, watcher, work, `task_stop` | `WorkerContract` (refined) |
| `WorkerContract` | what `WorkerRunner` promises the scheduler | |
| `MC*` | instances for TLC | |
| `*Proofs` | theorems and proofs | |

**WaveScheduler.** A wave is one call of `Start`; `pc[w]` is its goroutine, from
`Start` into `dispatchLoop` and `dispatchOne`. Steps are the critical sections
and atomic operations on shared memory: `StartRead` / `StartStore` /
`StartCancelCtx` / `StartCancelWorkers` are the four parts of a reentry, which
release the scheduler's lock in between; `LoopSnapshot` takes `ReadyNodes`,
`Acquire` a slot, `Register` / `Reject` are the guard's atomic check,
`SetRunning` and `StartWorker` are apart because the handle is inserted after
the state is set. `completeTask` is `PutArtifact`, `FreeSlot`, `SetTerminal`,
`DropHandle`, in the code's order, and reads the state before the first of
them. `AbortSession` reads the wave, then cancels the context, the workers that
have a handle, and the pending nodes. A slot id is fresh for every `Acquire`,
so the slot is named by wave and node. File scopes are a relation `Overlaps`
between nodes. What runs inside `runner.Run` is an outcome: ok, error, or
canceled, the last only for a cancelled worker; `BackgroundTasks` justifies it.

**DAGExecutor** adds the consumer goroutine: a tick drains new terminals, then
checks failures, then `AllTerminal`, drains again, and emits the final row;
an abort calls `AbortSession`, rescans, walks the nodes and closes the channel.
The channel's content is the sequence `out[w]`. **PlanExecution** adds the
reader: `MarkAndCheck` drops a segment seen before, `SegmentVerdict` and `Rollup`
fold the kept rows, `FinishRound` builds the round.

**CircuitBreaker** reduces the clock to "OpenDuration has passed since
`openedAt`". A call is admitted, goes through its attempts on two models, streams,
and records one result or none. `leave` and `lost` are history: through which
state a call was admitted, and how many probes of the present half-open period
ended with their context's error.

**SessionTurns** has `WaitTurn` in two steps (read the handle, be woken), `BeginTurn`,
a loop whose rounds emit on a buffered channel, and `EndTurn` before
`close(out)`, the order of the deferred calls. Classification, which may take
seconds between gate and `BeginTurn`, is `Route`. **Gateway** adds what is
around it: a message registers its cancel func and cancels the one it finds; its
goroutine reads events until the channel is closed or the context done, then deletes
the session's entry, whosoever it is, and cancels. `lost` is history: whose entry was
deleted by another. In SessionTurns alone any message may be cancelled and somebody
reads; here both are actions of the gateway.

**WorkItems / WorkTree.** A tree is a function from ids to items; an id is given out
once. `kind` tells goals, work items (implement, explore, review) and checklist
entries apart; "erased" is a removed item that the file may still hold, "none" one
that never was. Every method is one action, since each holds the tree's mutex
from end to end. `Persist` writes `Persistent(tree)`, what of an item survives
serialisation, or fails unnoticed. `Reach` is the walk of `AddDependency`.

**SpawnDecision** is `SpawnPolicyEvaluator.Evaluate` as a total function of the findings
of a round and of the tree around the item, gate by gate in the code's order (R0 to
R2, resolution report, rollup, verdict with the strategy of the plan's kind).

**SessionLoop.** `pc` walks through a tick: focus, `StartRound`, the observation, the
execution with the tools it calls (`TodoWrite`, `Delegate`), `RoundEnds`, `Spawn`,
`Parent`, `Exit`. What an LLM may say is any finding of `Findings`; of those only what
the loop reacts to is kept (`Outcome`), and an outcome that is worse than a pass costs
one of `MaxSetbacks`. Delegated workers end in between (`RunEnds`), a user approves a
review (`Approve`), and `Crash` reads the tree back from its file. A tick that waits
for a child in progress changes nothing and is a stutter.

**PrivateChain / ItemExecution.** A message is its role, the calls it makes or the call it
answers, and the round it stems from; it costs one unit of the budget, and a line of the
file is one message. Call ids start again in every round (`call_0`, ...), as some providers
have it, which is why an answer may meet the calls of another round.
`RepairToolMessageChain` and `filterEphemeralExecuteMessages` are recursive functions over
the positions of the messages, `compressMessages` picks the first segment from which the rest
fits, with the code's order and boundaries. An execution reads the file, repairs and compresses
what it read, asks the model, which may call tools whatever it was offered, runs the calls
one after the other (every production loop is "loop first"), and appends what it added.
The append writes line by line and its error is dropped: a fault leaves a prefix of the
lines, or half a line, to which the next append is glued. `ragged`, `scar`, `glued`
and `owed` are history: the last append was cut, something was appended behind a cut, a line
was glued to half of another, and the rounds of the executions that ended and were saved.

**BackgroundTasks** is one registry entry. `Register`, `SetTaskCancel` and
`Spawn` are apart because `task_list_background` shows the entry from the first
on. `Cancel` is three steps, mark under the lock, `cancel()`, `close(done)`;
`Complete` likewise. A second close panics: the tool loop recovers
(`safeExecuteOne`), the two goroutines do not, and the process is over.
The watcher's `select` may take either case when both are ready.

Mutants: operators named `XMutant`, directly before `X`, are `X` with a plausible
bug. Each property is violated when its mutant is put in place of `X`.

## 3. Runs

| Run | Instance | Shows |
|---|---|---|
| `wave_reentry` | 2 waves of one session, plan a -> b, 2 slots for a, no runner for b; one worker stopped, one caller waits | dependencies, results, `ExclusiveSlots` and the end of the replaced wave survive reentry at every point |
| `wave_shared` | 2 sessions, 3 nodes, of which one pair shares a type with 1 slot, one a group and one a file; one wave aborted, its caller may cancel | capacity, conflicts, slots |
| `plan_free` | 1 wave, 2 independent nodes, 2 slots, cancelled caller | rows and verdict of a round |
| `plan_chain` | 1 wave, a -> b, each stopped once, cancelled caller | the round ends, the slots come back |
| `breaker` | 3 calls, thresholds 2/2, 1 probe, 2 models, 2 attempts, one caller may cancel | the window, the timer, recovery |
| `gateway` | 3 messages, channel of 1, 1 `/stop` | one turn; waiters get on; a cancelled message ends although its reader left; a turn is in reach of `/stop` unless an older message took its entry |
| `tasks` | 2 `task_stop` calls and the watcher | tombstone, contract, ends |
| `work_tree` | 3 items, depth 2, 1 blocker per item, 1 failed save | locks, cycles, orphans, blockers, through restarts from an older file |
| `session_loop` | 4 items, depth 2, 2 messages, 1 setback, todo list, delegation and crash, splits of 2 | no step ends an item over open work or opens work under an ended one, failed work never passes, every turn ends or is in one of three named cycles |
| `item_execution` | 3 executions of one item, rounds of 1 or 2 calls, 2 rounds each, budget 4, 2 faults | prompts are valid unless an append was cut; what the saved executions completed is read back whole, once and in order; a retry sees every stored round there is room for |
| `task_panic`, `turn_ends` | small ones of the same | section 5 |

Bounds. `Stoppable`, `Interrupted`, `Aborting`, `Waiting` (WaveScheduler) and
`Cancelling` bound what callers do; everything else is bounded by the sets. Two
waves are the smallest number with a reentry and with a conflict across
sessions, two nodes the smallest with a dependency or a race of two
completions; a third wave could only replace the second as the second replaces
the first. Three calls give the breaker a late result, a probe and a newcomer;
three messages a turn, a waiter and one that overtakes it; with a channel of one the
turn blocks on a reader that is gone. Three items are a goal, a child and either a
grandchild or a sibling, and the longest cycle of blockers that needs a walk; four
give the loop a parent, two children and what a round adds to them. The limits of
the spawn policy (`MaxInline`, `MaxRollup`, `MaxIndeterminate`) are configuration;
1 makes each of them reached. Three executions are one whose append is cut, one that
appends behind the cut, and one that reads the result; with a budget of 4 a conversation fits
exactly, is too long by one round, and consists of one round that is too large. For the safety of the scheduler, the breaker, the turns,
the gateway, the tasks, the work tree, the spawn policy, the session loop, the executions of an
item and the rows and verdict of a plan section 4 removes the bounds.

Deadlock is not checked: a wave, a round, a message, a task or a session may be over. That
they do not stop before is what the liveness properties say.

Fairness. Weak fairness of goroutine steps: the Go scheduler runs what can run. A
runner whose context is cancelled returns (`types.go`: a runner "must listen to
ctx.Done()"; `RunReturns` shows it of the sub-agent runner, for which the work is
taken to return once its own context is done). A `select` with two ready cases
picks at random, hence strong fairness for a cancelled caller (`CallerDone`). The
gateway reads a turn's channel as long as the context lives: `Process(m)` and
`GatewayStep(m)` are fair for each message, and nothing makes the gateway read after
its context ended. In `SessionLoop` the loop or a worker goes on while either can
(`WF(Turn \/ RunEnds)`); users, tools and crashes are free. LLM calls keep coming and time passes.
Nothing makes a caller start, cancel, abort or wait, and nothing makes an uncancelled
runner return.

## 4. Proofs

Checked by tlapm from nothing; each theorem is for every value of the constants
that satisfies the module's ASSUMEs.

* `WaveSchedulerProofs` - `TypeCorrect`, `NoLeak`, `ConflictExclusion`,
  `PoolSafe`. The invariant that carries them says who owns a slot at each
  program point (a loop from `Acquire` to the start of the worker, then the worker
  up to `FreeSlot`) and that exactly the registered slots are inside
  the guard, pairwise without conflict and counted against the capacity.
  `PoolRespected` alone is not inductive: an executing worker must be known to
  hold a slot. `ConflictAssumption` (overlap is symmetric) is needed; finite waves
  and tasks are needed to count. A second invariant on `wpc`, `state` and
  the outcome of a worker gives `OrderedByDependency` (`DependenciesFirst`),
  `ResultStored` (`ResultBeforeState`) and `DispatchedOnce` (a node starts at most once). `KeepsPromise` is the refinement of
  `ExclusiveSlots`: every step begins or ends one node as the promise allows, or
  changes nothing it speaks of.
* `PlanExecutionProofs` - `RunsScheduler` and `RunsExecutor` are the composition: under the
  consumer the scheduler still behaves as `WaveScheduler` says, and under `executePlanDAG` the
  executor as `DAGExecutor`, so that the theorems below hold above. For any waves
  and aborts: `DagTypeCorrect`, `RowsDistinct` (`OneRowPerNode`; the emitted map is what is on
  the channel) and `CountedOnce` (`ChildCountsOnce`). The others assume `Alone`: one wave per
  session and nobody who stops single workers, as in `plan_free`; section 5 says what happens
  without. `AllSent` and `QuietWhenFinal` need that an unaborted wave ends its nodes in
  `completeTask` only (`AloneInv`); `PassIsTrue` (`PassMeansCompleted`) needs `OutcomeInv`, which
  follows an outcome from the worker over the artifact to the row, and a failure from the row to the
  abort it causes; `RetryIsTrue` (`RetryOnlyIfCancelled`) needs `CancelInv`: contexts are cancelled
  for an abort or with the caller. It is about plans with nodes: the fold of no rows is
  Indeterminate. `RoundInv` says that the kept rows are the rows sent, one per task.
* `CircuitBreakerProofs` - `TypeCorrect`, `WindowSound`, `OpenTimed`. The window
  argument: outside half-open nothing is taken; inside, a place is taken with the
  probe that holds it, and given back at most once by each call; what a cancelled
  probe keeps is counted in `lost`.
* `GatewayProofs` - of `SessionTurns` alone `TypeCorrect` and `OneTurn`: the handle and the
  program counters agree, so `EndTurn`, which drops whatever handle it finds, only ever
  finds its own. Of the gateway `GatewayTypeCorrect`, `ImplementsTurns` (a step of the composition is a
  step of `SessionTurns` or a stutter), hence `OneTurnUnderGateway`; `TurnInReachHolds`
  from `InReach`, which extends the claim from running turns to every message
  that has arrived; `ActiveIsLiveHolds`.
* `WorkTreeProofs` - `TypeCorrect`, `LockedIffTerminalHolds`, `AcyclicHolds`, `RootedHolds`,
  `NoLostBlockerHolds`, `EndedStaysEndedHolds`. The invariant says the same of the tree and of
  the file (`Good`), which is what a restart needs. Acyclicity is the statement that every
  set of items has one without a blocker in the set; an edge that `Reach` does not
  see backwards keeps it. The bound on items is arbitrary.
* `SessionLoopProofs` - first of the decision, for every finding and context: `AnswerIsAPolicy`,
  `RunningChildIsAwaited`, `SplitWithinBudget` (no split at full depth or over the day's
  children), `OwedIsNotFinished` (an item that owes its deliverable is finished only by a failed
  round), `InPlaceIsBounded` (no retry in place beyond `MaxInline` for a committed plan, unless
  the next round only synthesises), `RollupIsBounded` (an exhausted rollup escalates or ends).
  Then of the loop: `EndedStaysClosed` (`EndedGetsNoOpenWork`), `FailedNeverPasses`
  (`AllFailedNeverPasses`), `SplitIsWaitedFor` (`SplitHasChildren`), for any tree, limits and
  findings, any number of messages, delegates and crashes. They stand on `LoopInvariant`: each
  item is in order by itself (`ItemOK`: lock, rollup flag, retries and last round agree with
  its status and its children), and the round in progress may rely on what it has read although
  workers end and reviews are approved between its steps. What carries that argument is that a
  delegate is a leaf: it never has children, is never the item of a round and is never opened
  again, so the end of a worker changes a delegate, its parent and, where the parent gives
  stuck siblings up, those, and each of these only in ways that `RoundOK` allows for the item of
  the round. An item whose rollup was not asked for is started only over delegates of which one still
  runs. `SplitInv` adds for `SplitHasChildren` that the children of a recorded split are
  there or are created by the very next step.
* `ItemExecutionProofs` - `PromptIsPaired` (`PromptPaired`), `RoundsAreKept` (`RoundsKept`),
  `EvidenceIsSeen` (`EvidenceSeen`), for any budget, number of executions, iterations, calls and
  faults. They stand on `ItemInvariant`. A conversation is *tidy* if every answer stands right
  behind the calls it belongs to, at the place of its id, and a round is *whole* if all its
  calls are answered there. As long as nothing was glued, the file is tidy, its rounds rise, every
  owed round is whole, and what the running execution has added is whole and newer than all of
  it; as long as nothing was appended behind a cut, at most the last round of the file is not
  whole. Tidiness has to be in the invariant since repair tells rounds apart by the ids alone,
  which start again in every round: only on tidy conversations does it do what its comment
  says (`RepairFacts`: it takes off an unfinished last round and nothing else). Compression
  cuts before a segment, so what it leaves is tidy again and no whole round is torn
  (`CompressFacts`). The recursive functions are followed by descent to the first position
  where they would differ from what is claimed of them (`ScanTidy`, `KeptFacts`), which needs
  no induction theorem with an operator parameter, and that `WithoutHints` has a value at all
  is `Recursion`.
* `BackgroundTasksProofs` - `TypeCorrect`, `TombstoneHolds`, `ClosedTerminal`,
  `Implements`. Strengthening: at most one `Cancel` is past its critical section,
  every close has an author, and status and stage of the work agree.
  `Implements` is the refinement of `WorkerContract`: every step is a step of
  the contract or a stutter.

Only model-checked: every liveness property (fairness and ENABLED are out of the prover's
reach), and rows and verdicts where a session has several waves or single workers are stopped,
of which the first three theorems of `PlanExecutionProofs` say what holds anyway.

## 5. Where the code differs from its comments

With a run each:

* `task_panic`: `Cancel` and `Complete` close the same channel.
* `turn_ends`: a finished goal with a todo list is reopened by the rollup fallback
  whenever the loop would end; the turn never ends.

Seen while modelling, without a run of their own:

*Waves and rounds.* `dispatchOne` sets an aborted node Running and starts it, and
`CancelWorker` with a handle read earlier turns a completed node into a cancelled one,
against "Terminal reports whether the state is final"; a failure seen only by the drains
before the final row is sent and IsFinal follows it; a `CancelWorker` between
`SetState(Running)` and the insertion of the handle is lost; `completeTask` may
overwrite Cancelled by Completed; a superseded loop drops the handle of a worker it
has just started, which nobody can cancel any more; a node that fails between the
rescan and the walk of an abort gets no row; a consumer aborts whatever wave its
session has; artifacts of an earlier wave are sent again by the next; the dedup
table drops the IsFinal row, so `finalSummary` stays empty.

*LLM calls.* A probe whose context ends while it streams is not recorded; its place is never
given back and the breaker refuses every call from then on, against "Reset() ... Not
needed; state auto-recovers via Half-Open" in `openspec/specs/d3-llm-gateway/layer-delta.md`.
`Recovers` is stated for providers that lost no probe. Errors of the caller's own context inside the retry chain count against the
provider; a late result gives back the place of a probe in flight, admitting one too
many. The breaker's observer is never attached (`WithObserver` returns the concrete type,
which the assertion in the wiring does not match).

*Turns and gateway.* Two messages may pass `WaitTurn` together, and the second gets an
error; `EndTurn` runs before `close(out)`, so "fully drain its out channel" in the comment of
`WaitTurn` does not hold; `TurnNo` is always 1. An interrupted message that unregisters
late deletes the entry of the message that replaced it: `/stop` then reports success and
cancels nothing, and a third message does not interrupt the second; the `stoppedSessions`
flag it leaves may hide the error of a later turn, and `TurnTracker.EndTurn` drops the newer
turn's record. `Entry.Cancel` calls an `InterruptHandler` that was given no cancelers.

*Tasks.* A task whose watcher takes `stopWatcher` stays "running"; a task stopped by
`task_stop` is a success to the scheduler.

*Item executions.* An append that is cut between two lines leaves an incomplete round, and
the next execution appends behind it; `RepairToolMessageChain`, which "removes orphan tool
results and incomplete tool rounds", drops only a trailing one, so every later prompt
is invalid. Cut within a line, the next line is glued to it and lost, and answers may be
paired with the calls of the torn round. `compressMessages` keeps the last segment
whatever its size (its truncation cannot be reached) and drops the directive first;
`MaterializeForMUPS` then finds messages and system prompt over the same budget, and the execution runs
degraded, without tools and history. `TurnToolExecutor` drops the results of calls that ran
when a later one's round fails; `dedupeToolCalls` drops a second call with
the same id, and the answer to a call without an id does not match the id it is given.

*Session loop.* After a crash, or an error of the child's round, a focus whose child is in
progress without a run is gone round for ever; so is a rollup of failed work that waits
for the review it asked for; an escalation at full depth always fails, since the
review would be one level too deep; a crash between the record of a split and the
creation of the children leaves an item that waits for nobody;
`MaybePromotePendingSingleChildRollups` and `findExhaustedRollupParent` cannot apply; a round
asks for the synthesis of its item, then a delegate of the item's parent ends and its callback
gives the item up and ends the parent, and `ApplySpawnPolicy`, which reads the item's status
again but does not hold the parent's mutex, reopens the item under the ended parent
(`EndedGetsNoOpenWork` names this one step, which the proof showed to be the only one); the
callback of a delegated run and `ResolveAwaiter` both reevaluate the parent.

## 6. Not modelled

Adapters, renderers, persistence, prompts, provider streams, metrics and the CLI are I/O
or formatting: they keep no state that the modelled parts read. Context assembly
(`ContextResolver`) is its dependency on an upstream artifact only. The glob test
of file scopes is a parameter. Worker events (text for the card) are left out.
`BackgroundWaiter` reads only: what it is woken by is `ClosedMeansTerminal` and
`TerminalCloses`. Rate limits, budgets and routes of the LLM gateway, and the
sequential path of a plan without a DAG, are not in the models.

Code that no production path reaches is not modelled either: the event bus (`SetEventBus`
has no caller), the escape engine (`WithEscapeEngine` has none), the permission manager,
`AsyncLearner`, the `Cancel` of the run registry, and parallel batches of tool calls with their
sibling abort (`IsLoopFirst` is always true, so `TurnToolExecutor` hands every call alone to
`ExecuteRound`). Of persistence, the tree's file and the private chain are modelled;
session transcripts and the SQLite stores are not: what reads them is not modelled either.

## 7. Plan

Done, in this order: `WaveScheduler`, `DAGExecutor`, `PlanExecution`, `CircuitBreaker`,
`SessionTurns`, `BackgroundTasks`, `WorkItems` and `WorkTree`, `SpawnDecision`, `SessionLoop`,
`Gateway`, `PrivateChain` and `ItemExecution`; proofs of all of them.

Next:

1. Compaction of a session's transcript while the turn goes on and the transcript grows.
2. Multi-agent runs, external sessions, and `SessionQueue`: a run ends once, whoever stops it.
3. File scopes: `globOverlap` and `globStem` against the set of paths two patterns share.
4. Proofs: the rows of a session with several waves.
