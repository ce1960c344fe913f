--------------------------- MODULE WaveScheduler ---------------------------
(***************************************************************************)
(* The wave scheduler of orchestration/wavescheduler: Start, the dispatch   *)
(* loop of every wave, the workers and completeTask, CancelWorker,          *)
(* AbortSession and WaitForCompletion, over the worker pool, the conflict   *)
(* guard, the task graph and the artifact store they share.                 *)
(*                                                                          *)
(* Goroutines interleave at their shared-memory steps.  A wave is one call  *)
(* of Start; its goroutine first runs Start and then the dispatch loop.  A  *)
(* slot id is fresh for every Acquire and a node is acquired by one loop    *)
(* only, so the slot held for node t of wave w is written <<w, t>>.         *)
(***************************************************************************)
EXTENDS Naturals, FiniteSets

CONSTANTS
  Session, Wave, Task, Type, Group,
  NoWave, NoTask, NoGroup,
  SessionOf,      \* the session each wave is started for
  Nodes,          \* the nodes of each wave's graph
  TypeOf,         \* WorkerType of a node
  DependsOn,      \* DependsOn of a node
  Upstream,       \* UpstreamTaskID of a node whose policy is "upstream"
  Rank,           \* the order of SortReadyNodes / of the ids
  GroupOf,        \* ConflictGroup of a node
  ReadOnly,       \* the nodes with ReadOnly set
  Overlaps,       \* pairs of nodes for which scopesIntersect holds
  Capacity,       \* the pool's capacity per worker type
  Runners,        \* worker types with a registered runner
  Stoppable,      \* bound: the tasks CancelWorker is called for, once each
  Interrupted,    \* bound: the waves whose caller's context may be cancelled
  Aborting,       \* bound: the waves whose owner may call AbortSession
  Waiting         \* bound: the waves whose owner calls WaitForCompletion

ASSUME SetsAssumption ==
  /\ NoWave \notin Wave /\ NoTask \notin Task /\ NoGroup \notin Group
  /\ IsFiniteSet(Wave) /\ IsFiniteSet(Task)

ASSUME GraphAssumption ==
  /\ SessionOf \in [Wave -> Session]
  /\ Nodes \in [Wave -> SUBSET Task]
  /\ TypeOf \in [Task -> Type]
  /\ DependsOn \in [Task -> SUBSET Task]
  /\ Upstream \in [Task -> Task \cup {NoTask}]
  /\ Rank \in [Task -> Nat]
  /\ \A s, t \in Task : Rank[s] = Rank[t] => s = t

ASSUME ConflictAssumption ==
  /\ GroupOf \in [Task -> Group \cup {NoGroup}]
  /\ ReadOnly \subseteq Task
  /\ Overlaps \subseteq Task \X Task
  /\ \A s, t \in Task : <<s, t>> \in Overlaps => <<t, s>> \in Overlaps

ASSUME PoolAssumption ==
  /\ Capacity \in [Type -> Nat]
  /\ Runners \subseteq Type
  /\ Stoppable \subseteq Wave \X Task
  /\ Interrupted \subseteq Wave /\ Aborting \subseteq Wave
  /\ Waiting \subseteq Wave

Slot == Wave \X Task

TaskState == {"pending", "running", "completed", "failed", "cancelled"}

Terminal(s) == s \in {"completed", "failed", "cancelled"}

\* Artifact.ExitCode: 0, -1 and -2; "none" before the runner returns.
ExitCode == {"none", "ok", "error", "canceled"}

NoArtifact == [wave |-> NoWave, exit |-> "none"]

Artifact == [wave : Wave \cup {NoWave}, exit : ExitCode]

VARIABLES
  waves,       \* s.waves
  pc,          \* where the goroutine of each wave is
  prior,       \* the local "existing" of Start
  todo,        \* the nodes of the ReadyNodes snapshot not yet tried
  cur,         \* the node dispatchOne is working on
  ctxErr,      \* waves whose context is cancelled
  done,        \* waves whose doneCh is closed
  state,       \* TaskGraph.states of each wave
  handles,     \* the handles maps
  cancelled,   \* tasks whose context is cancelled, until completeTask ends
  wpc,         \* where the worker, or completeTask, of each node is
  exit,        \* ExitCode of the artifact the worker built
  terminal,    \* the local "terminal" of completeTask
  owners,      \* slots the pool has handed out
  running,     \* slots registered with the conflict guard
  artifacts,   \* ArtifactStore.bySess
  cancelling,  \* CancelWorker calls that have read a handle
  cancels,     \* the CancelWorker calls there have been
  abort,       \* the AbortSession call of each wave's owner
  waited       \* waves whose WaitForCompletion has returned

loopVars == <<waves, pc, prior, todo, cur, ctxErr, done>>
taskVars == <<state, handles, cancelled, wpc, exit, terminal>>
slotVars == <<owners, running>>
clientVars == <<cancelling, cancels, abort, waited>>
vars == <<loopVars, taskVars, slotVars, artifacts, clientVars>>

PC == {"idle", "store", "cancelCtx", "cancelWorkers", "top", "dispatch",
       "register", "release", "run", "handle", "inline", "select", "exit"}
WPC == {"idle", "run", "put", "free", "set", "drop", "done"}
APC == {"idle", "ctx", "workers", "pending", "done"}

\* Every variable stays in its range: a worker, a slot and a handle exist for
\* nodes of their own wave only.
TypeOK ==
  /\ waves \in [Session -> Wave \cup {NoWave}]
  /\ pc \in [Wave -> PC]
  /\ prior \in [Wave -> Wave \cup {NoWave}]
  /\ todo \in [Wave -> SUBSET Task]
  /\ cur \in [Wave -> Task \cup {NoTask}]
  /\ ctxErr \subseteq Wave
  /\ done \subseteq Wave
  /\ state \in [Slot -> TaskState]
  /\ handles \subseteq Slot
  /\ cancelled \subseteq Slot
  /\ wpc \in [Slot -> WPC]
  /\ exit \in [Slot -> ExitCode]
  /\ terminal \in [Slot -> TaskState]
  /\ owners \subseteq Slot
  /\ running \subseteq Slot
  /\ artifacts \in [Session -> [Task -> Artifact]]
  /\ cancelling \subseteq Slot
  /\ cancels \subseteq Slot
  /\ abort \in [Wave -> [pc : APC, target : Wave \cup {NoWave}]]
  /\ waited \subseteq Wave

Init ==
  /\ waves = [s \in Session |-> NoWave]
  /\ pc = [w \in Wave |-> "idle"]
  /\ prior = [w \in Wave |-> NoWave]
  /\ todo = [w \in Wave |-> {}]
  /\ cur = [w \in Wave |-> NoTask]
  /\ ctxErr = {}
  /\ done = {}
  /\ state = [x \in Slot |-> "pending"]
  /\ handles = {}
  /\ cancelled = {}
  /\ wpc = [x \in Slot |-> "idle"]
  /\ exit = [x \in Slot |-> "none"]
  /\ terminal = [x \in Slot |-> "pending"]
  /\ owners = {}
  /\ running = {}
  /\ artifacts = [s \in Session |-> [t \in Task |-> NoArtifact]]
  /\ cancelling = {}
  /\ cancels = {}
  /\ abort = [w \in Wave |-> [pc |-> "idle", target |-> NoWave]]
  /\ waited = {}

-----------------------------------------------------------------------------
(* The components the goroutines share.                                     *)

\* WorkerPool: the slots of one type that are out, and Acquire's test.
InUse(k) == {x \in owners : TypeOf[x[2]] = k}

HasSlotMutant(k) == Cardinality(InUse(k)) <= Capacity[k]
HasSlot(k) == Cardinality(InUse(k)) < Capacity[k]

\* TaskGraph.AllTerminal
AllTerminal(w) == \A t \in Nodes[w] : Terminal(state[<<w, t>>])

\* TaskGraph.ReadyNodes: pending, with every dependency completed.
ReadyNodesMutant(w) ==
  {t \in Nodes[w] : /\ state[<<w, t>>] = "pending"
                    /\ \A d \in DependsOn[t] :
                         d \in Nodes[w] /\ Terminal(state[<<w, d>>])}
ReadyNodesMutant2(w) ==
  {t \in Nodes[w] : /\ ~Terminal(state[<<w, t>>])
                    /\ \A d \in DependsOn[t] :
                         d \in Nodes[w] /\ state[<<w, d>>] = "completed"}
ReadyNodes(w) ==
  {t \in Nodes[w] : /\ state[<<w, t>>] = "pending"
                    /\ \A d \in DependsOn[t] :
                         d \in Nodes[w] /\ state[<<w, d>>] = "completed"}

\* conflictBetween: same group, or two writers whose scopes intersect.
ConflictBetween(a, b) ==
  \/ GroupOf[a] # NoGroup /\ GroupOf[a] = GroupOf[b]
  \/ a \notin ReadOnly /\ b \notin ReadOnly /\ <<a, b>> \in Overlaps

\* ConflictGuard.AllowAndRegister's check.  The mutant forgets the scopes.
AllowedMutant(t) ==
  \A r \in running : GroupOf[t] = NoGroup \/ GroupOf[t] # GroupOf[r[2]]
Allowed(t) == \A r \in running : ~ConflictBetween(t, r[2])

\* ArtifactStore.Get looks a task up whatever its session.
Stored(t) == \E s \in Session : artifacts[s][t] # NoArtifact

\* ContextResolver.Resolve fails only for a missing upstream artifact.
Resolvable(t) == Upstream[t] # NoTask => Stored(Upstream[t])

HandlesOf(w) == {x \in handles : x[1] = w}

\* markWaveDone: closes doneCh once and drops the handles.
MarkWaveDone(w) ==
  /\ done' = done \cup {w}
  /\ handles' = IF w \in done THEN handles ELSE handles \ HandlesOf(w)

-----------------------------------------------------------------------------
(* Start                                                                    *)

\* Start reads the existing wave and unlocks.
StartRead(w) ==
  /\ pc[w] = "idle"
  /\ prior' = [prior EXCEPT ![w] = waves[SessionOf[w]]]
  /\ pc' = [pc EXCEPT ![w] = "store"]
  /\ UNCHANGED <<waves, todo, cur, ctxErr, done, taskVars, slotVars,
                 artifacts, clientVars>>

\* The prior wave is cancelled only when there is one.
AfterStore(w) == IF prior[w] = NoWave THEN "top" ELSE "cancelCtx"

\* It locks again and stores the new wave, whatever is there by now.
StartStore(w) ==
  /\ pc[w] = "store"
  /\ waves' = [waves EXCEPT ![SessionOf[w]] = w]
  /\ pc' = [pc EXCEPT ![w] = AfterStore(w)]
  /\ UNCHANGED <<prior, todo, cur, ctxErr, done, taskVars, slotVars,
                 artifacts, clientVars>>

\* Reentry: the prior wave's context is cancelled ...
StartCancelCtx(w) ==
  /\ pc[w] = "cancelCtx"
  /\ ctxErr' = ctxErr \cup {prior[w]}
  /\ pc' = [pc EXCEPT ![w] = "cancelWorkers"]
  /\ UNCHANGED <<waves, prior, todo, cur, done, taskVars, slotVars,
                 artifacts, clientVars>>

\* ... and then the workers whose handles are in its map at this moment.
StartCancelWorkers(w) ==
  /\ pc[w] = "cancelWorkers"
  /\ cancelled' = cancelled \cup HandlesOf(prior[w])
  /\ prior' = [prior EXCEPT ![w] = NoWave]
  /\ pc' = [pc EXCEPT ![w] = "top"]
  /\ UNCHANGED <<waves, todo, cur, ctxErr, done, state, handles, wpc,
                 exit, terminal, slotVars, artifacts, clientVars>>

-----------------------------------------------------------------------------
(* The dispatch loop                                                        *)

\* The mutant forgets markWaveDone.
LoopSupersededMutant(w) ==
  /\ pc[w] = "top" /\ waves[SessionOf[w]] # w
  /\ pc' = [pc EXCEPT ![w] = "exit"]
  /\ UNCHANGED <<waves, prior, todo, cur, ctxErr, done, taskVars, slotVars,
                 artifacts, clientVars>>

\* A newer wave took the session: leave without cancelling anything.
LoopSuperseded(w) ==
  /\ pc[w] = "top" /\ waves[SessionOf[w]] # w
  /\ MarkWaveDone(w)
  /\ pc' = [pc EXCEPT ![w] = "exit"]
  /\ UNCHANGED <<waves, prior, todo, cur, ctxErr, state, cancelled, wpc, exit,
                 terminal, slotVars, artifacts, clientVars>>

\* Every node is terminal.
LoopFinished(w) ==
  /\ pc[w] = "top" /\ waves[SessionOf[w]] = w
  /\ AllTerminal(w)
  /\ MarkWaveDone(w)
  /\ pc' = [pc EXCEPT ![w] = "exit"]
  /\ UNCHANGED <<waves, prior, todo, cur, ctxErr, state, cancelled, wpc, exit,
                 terminal, slotVars, artifacts, clientVars>>

\* The mutant leaves without cancelWaveLocked.
LoopCancelledMutant(w) ==
  /\ \/ pc[w] = "top" /\ waves[SessionOf[w]] = w /\ ~AllTerminal(w)
     \/ pc[w] = "select"
  /\ w \in ctxErr
  /\ MarkWaveDone(w)
  /\ pc' = [pc EXCEPT ![w] = "exit"]
  /\ UNCHANGED <<waves, prior, todo, cur, ctxErr, state, cancelled, wpc, exit,
                 terminal, slotVars, artifacts, clientVars>>

\* The wave's context is cancelled, seen at the top or in the select.
LoopCancelled(w) ==
  /\ \/ pc[w] = "top" /\ waves[SessionOf[w]] = w /\ ~AllTerminal(w)
     \/ pc[w] = "select"
  /\ w \in ctxErr
  /\ cancelled' = cancelled \cup HandlesOf(w)
  /\ MarkWaveDone(w)
  /\ pc' = [pc EXCEPT ![w] = "exit"]
  /\ UNCHANGED <<waves, prior, todo, cur, ctxErr, state, wpc, exit, terminal,
                 slotVars, artifacts, clientVars>>

\* Otherwise a snapshot of the ready nodes is taken.
LoopSnapshot(w) ==
  /\ pc[w] = "top" /\ waves[SessionOf[w]] = w
  /\ ~AllTerminal(w) /\ w \notin ctxErr
  /\ todo' = [todo EXCEPT ![w] = ReadyNodes(w)]
  /\ pc' = [pc EXCEPT ![w] = "dispatch"]
  /\ UNCHANGED <<waves, prior, cur, ctxErr, done, taskVars, slotVars,
                 artifacts, clientVars>>

\* The next node of the snapshot, in the order of SortReadyNodes.
NextReady(w, t) ==
  t \in todo[w] /\ \A u \in todo[w] : Rank[t] <= Rank[u]

\* WorkerPool.Acquire succeeds.
Acquire(w, t) ==
  /\ pc[w] = "dispatch" /\ NextReady(w, t)
  /\ HasSlot(TypeOf[t])
  /\ owners' = owners \cup {<<w, t>>}
  /\ cur' = [cur EXCEPT ![w] = t]
  /\ todo' = [todo EXCEPT ![w] = @ \ {t}]
  /\ pc' = [pc EXCEPT ![w] = "register"]
  /\ UNCHANGED <<waves, prior, ctxErr, done, taskVars, running, artifacts,
                 clientVars>>

\* WorkerPool.Acquire finds no free slot of the type: try the next node.
SkipNoSlot(w, t) ==
  /\ pc[w] = "dispatch" /\ NextReady(w, t)
  /\ ~HasSlot(TypeOf[t])
  /\ todo' = [todo EXCEPT ![w] = @ \ {t}]
  /\ UNCHANGED <<waves, pc, prior, cur, ctxErr, done, taskVars, slotVars,
                 artifacts, clientVars>>

Dispatchable(t) == TypeOf[t] \in Runners /\ Resolvable(t)

\* completeTask's choice of the terminal state for an exit code, from the
\* node's state at that moment.
TerminalFor(x, code) ==
  IF code = "ok" THEN "completed"
  ELSE IF code = "canceled" \/ state[x] = "cancelled" THEN "cancelled"
  ELSE "failed"

\* No runner or no context: the loop itself runs completeTask with an error.
FailFast(w, t) ==
  /\ pc[w] = "register" /\ cur[w] = t
  /\ ~Dispatchable(t)
  /\ exit' = [exit EXCEPT ![<<w, t>>] = "error"]
  /\ terminal' = [terminal EXCEPT ![<<w, t>>] = TerminalFor(<<w, t>>, "error")]
  /\ wpc' = [wpc EXCEPT ![<<w, t>>] = "put"]
  /\ pc' = [pc EXCEPT ![w] = "inline"]
  /\ UNCHANGED <<waves, prior, todo, cur, ctxErr, done, state, handles,
                 cancelled, slotVars, artifacts, clientVars>>

FailFastReturn(w) ==
  /\ pc[w] = "inline" /\ wpc[<<w, cur[w]>>] = "done"
  /\ cur' = [cur EXCEPT ![w] = NoTask]
  /\ pc' = [pc EXCEPT ![w] = "dispatch"]
  /\ UNCHANGED <<waves, prior, todo, ctxErr, done, taskVars, slotVars,
                 artifacts, clientVars>>

\* AllowAndRegister succeeds.
Register(w, t) ==
  /\ pc[w] = "register" /\ cur[w] = t
  /\ Dispatchable(t) /\ Allowed(t)
  /\ running' = running \cup {<<w, t>>}
  /\ pc' = [pc EXCEPT ![w] = "run"]
  /\ UNCHANGED <<waves, prior, todo, cur, ctxErr, done, taskVars, owners,
                 artifacts, clientVars>>

\* AllowAndRegister is refused: dispatchOne returns false ...
Reject(w, t) ==
  /\ pc[w] = "register" /\ cur[w] = t
  /\ Dispatchable(t) /\ ~Allowed(t)
  /\ pc' = [pc EXCEPT ![w] = "release"]
  /\ UNCHANGED <<waves, prior, todo, cur, ctxErr, done, taskVars, slotVars,
                 artifacts, clientVars>>

\* ... and the loop gives the slot back.  The mutant forgets to.
ReleaseRejectedMutant(w) ==
  /\ pc[w] = "release"
  /\ cur' = [cur EXCEPT ![w] = NoTask]
  /\ pc' = [pc EXCEPT ![w] = "dispatch"]
  /\ UNCHANGED <<waves, prior, todo, ctxErr, done, taskVars, slotVars,
                 artifacts, clientVars>>
ReleaseRejected(w) ==
  /\ pc[w] = "release"
  /\ owners' = owners \ {<<w, cur[w]>>}
  /\ cur' = [cur EXCEPT ![w] = NoTask]
  /\ pc' = [pc EXCEPT ![w] = "dispatch"]
  /\ UNCHANGED <<waves, prior, todo, ctxErr, done, taskVars, running,
                 artifacts, clientVars>>

\* SetState(Running), without looking at the present state.
SetRunning(w, t) ==
  /\ pc[w] = "run" /\ cur[w] = t
  /\ state' = [state EXCEPT ![<<w, t>>] = "running"]
  /\ pc' = [pc EXCEPT ![w] = "handle"]
  /\ UNCHANGED <<waves, prior, todo, cur, ctxErr, done, handles, cancelled,
                 wpc, exit, terminal, slotVars, artifacts, clientVars>>

\* The handle becomes visible and the worker goroutine starts.
StartWorker(w, t) ==
  /\ pc[w] = "handle" /\ cur[w] = t
  /\ handles' = handles \cup {<<w, t>>}
  /\ wpc' = [wpc EXCEPT ![<<w, t>>] = "run"]
  /\ cur' = [cur EXCEPT ![w] = NoTask]
  /\ pc' = [pc EXCEPT ![w] = "dispatch"]
  /\ UNCHANGED <<waves, prior, todo, ctxErr, done, state, cancelled, exit,
                 terminal, slotVars, artifacts, clientVars>>

\* The snapshot is exhausted: wait in the select.
LoopWait(w) ==
  /\ pc[w] = "dispatch" /\ todo[w] = {}
  /\ pc' = [pc EXCEPT ![w] = "select"]
  /\ UNCHANGED <<waves, prior, todo, cur, ctxErr, done, taskVars, slotVars,
                 artifacts, clientVars>>

\* A wakeup or the 20 ms ticker; the ticker is always about to fire.
LoopTick(w) ==
  /\ pc[w] = "select"
  /\ pc' = [pc EXCEPT ![w] = "top"]
  /\ UNCHANGED <<waves, prior, todo, cur, ctxErr, done, taskVars, slotVars,
                 artifacts, clientVars>>

-----------------------------------------------------------------------------
(* The worker goroutine and completeTask                                    *)

\* runner.Run returns, or panics, and completeTask picks the terminal state.
\* Only a cancelled context makes a runner return context.Canceled.
WorkerReturn(w, t, code) ==
  /\ wpc[<<w, t>>] = "run"
  /\ code = "canceled" => <<w, t>> \in cancelled
  /\ exit' = [exit EXCEPT ![<<w, t>>] = code]
  /\ terminal' = [terminal EXCEPT ![<<w, t>>] = TerminalFor(<<w, t>>, code)]
  /\ wpc' = [wpc EXCEPT ![<<w, t>>] = "put"]
  /\ UNCHANGED <<loopVars, state, handles, cancelled, slotVars, artifacts,
                 clientVars>>

\* artifacts.Put.  The mutants: an artifact without a session id; the state
\* set together with it.
PutArtifactMutant(w, t) ==
  /\ wpc[<<w, t>>] = "put"
  /\ wpc' = [wpc EXCEPT ![<<w, t>>] = "free"]
  /\ UNCHANGED <<loopVars, state, handles, cancelled, exit, terminal,
                 slotVars, artifacts, clientVars>>
PutArtifactMutant2(w, t) ==
  /\ wpc[<<w, t>>] = "put"
  /\ artifacts' = [artifacts EXCEPT ![SessionOf[w]][t] =
                     [wave |-> w, exit |-> exit[<<w, t>>]]]
  /\ state' = [state EXCEPT ![<<w, t>>] = terminal[<<w, t>>]]
  /\ wpc' = [wpc EXCEPT ![<<w, t>>] = "free"]
  /\ UNCHANGED <<loopVars, handles, cancelled, exit, terminal, slotVars,
                 clientVars>>
PutArtifact(w, t) ==
  /\ wpc[<<w, t>>] = "put"
  /\ artifacts' = [artifacts EXCEPT ![SessionOf[w]][t] =
                     [wave |-> w, exit |-> exit[<<w, t>>]]]
  /\ wpc' = [wpc EXCEPT ![<<w, t>>] = "free"]
  /\ UNCHANGED <<loopVars, state, handles, cancelled, exit, terminal,
                 slotVars, clientVars>>

\* guard.Unregister and pool.Release
FreeSlot(w, t) ==
  /\ wpc[<<w, t>>] = "free"
  /\ running' = running \ {<<w, t>>}
  /\ owners' = owners \ {<<w, t>>}
  /\ wpc' = [wpc EXCEPT ![<<w, t>>] = "set"]
  /\ UNCHANGED <<loopVars, state, handles, cancelled, exit, terminal,
                 artifacts, clientVars>>

\* graph.SetState(terminal), whatever the state is by now
SetTerminal(w, t) ==
  /\ wpc[<<w, t>>] = "set"
  /\ state' = [state EXCEPT ![<<w, t>>] = terminal[<<w, t>>]]
  /\ wpc' = [wpc EXCEPT ![<<w, t>>] = "drop"]
  /\ UNCHANGED <<loopVars, handles, cancelled, exit, terminal, slotVars,
                 artifacts, clientVars>>

\* The handle, if still in the map, is cancelled and removed.  The runner, the
\* only reader of the context, is gone, so the context leaves the model here.
DropHandle(w, t) ==
  /\ wpc[<<w, t>>] = "drop"
  /\ handles' = handles \ {<<w, t>>}
  /\ cancelled' = cancelled \ {<<w, t>>}
  /\ wpc' = [wpc EXCEPT ![<<w, t>>] = "done"]
  /\ UNCHANGED <<loopVars, state, exit, terminal, slotVars, artifacts,
                 clientVars>>

-----------------------------------------------------------------------------
(* Calls from outside the scheduler                                         *)

\* The context given to Start is cancelled: a user interrupt, a timeout.
CallerCancel(w) ==
  /\ w \in Interrupted
  /\ pc[w] # "idle"
  /\ w \notin ctxErr
  /\ ctxErr' = ctxErr \cup {w}
  /\ UNCHANGED <<waves, pc, prior, todo, cur, done, taskVars, slotVars,
                 artifacts, clientVars>>

\* CancelWorker reads the handle under the lock and unlocks.
CancelWorkerRead(w, t) ==
  /\ waves[SessionOf[w]] = w /\ <<w, t>> \in handles
  /\ <<w, t>> \in Stoppable \ cancels
  /\ cancels' = cancels \cup {<<w, t>>}
  /\ cancelling' = cancelling \cup {<<w, t>>}
  /\ UNCHANGED <<loopVars, taskVars, slotVars, artifacts, abort, waited>>

\* It marks the node and cancels the worker's context.
CancelWorkerMark(w, t) ==
  /\ <<w, t>> \in cancelling
  /\ state' = [state EXCEPT ![<<w, t>>] = "cancelled"]
  /\ cancelled' =
       IF wpc[<<w, t>>] = "done" THEN cancelled ELSE cancelled \cup {<<w, t>>}
  /\ cancelling' = cancelling \ {<<w, t>>}
  /\ UNCHANGED <<loopVars, handles, wpc, exit, terminal, slotVars, artifacts,
                 cancels, abort, waited>>

\* AbortSession, called for the session of wave w, finds the current wave.
AbortRead(w) ==
  /\ w \in Aborting
  /\ abort[w].pc = "idle"
  /\ pc[w] \notin {"idle", "store"}
  /\ abort' = [abort EXCEPT ![w] =
       [pc |-> IF waves[SessionOf[w]] = NoWave THEN "done" ELSE "ctx",
        target |-> waves[SessionOf[w]]]]
  /\ UNCHANGED <<loopVars, taskVars, slotVars, artifacts, cancelling,
                 cancels, waited>>

\* state.cancel()
AbortCtx(w) ==
  /\ abort[w].pc = "ctx"
  /\ ctxErr' = ctxErr \cup {abort[w].target}
  /\ abort' = [abort EXCEPT ![w].pc = "workers"]
  /\ UNCHANGED <<waves, pc, prior, todo, cur, done, taskVars, slotVars,
                 artifacts, cancelling, cancels, waited>>

\* cancelWaveLocked
AbortWorkers(w) ==
  /\ abort[w].pc = "workers"
  /\ cancelled' = cancelled \cup HandlesOf(abort[w].target)
  /\ abort' = [abort EXCEPT ![w].pc = "pending"]
  /\ UNCHANGED <<loopVars, state, handles, wpc, exit, terminal, slotVars,
                 artifacts, cancelling, cancels, waited>>

\* TaskGraph.CancelPending
AbortPending(w) ==
  /\ abort[w].pc = "pending"
  /\ state' = [x \in Slot |->
                 IF x[1] = abort[w].target /\ state[x] = "pending"
                   THEN "cancelled" ELSE state[x]]
  /\ abort' = [abort EXCEPT ![w].pc = "done"]
  /\ UNCHANGED <<loopVars, handles, cancelled, wpc, exit, terminal, slotVars,
                 artifacts, cancelling, cancels, waited>>

\* CancelAll: the workers with a handle now; pending nodes are left to run.
CancelAll(s) ==
  /\ waves[s] # NoWave
  /\ cancelled' = cancelled \cup HandlesOf(waves[s])
  /\ UNCHANGED <<loopVars, state, handles, wpc, exit, terminal, slotVars,
                 artifacts, clientVars>>

\* WaitForCompletion returns the session's artifacts and forgets the wave.
WaitReturn(w) ==
  /\ w \in Waiting
  /\ w \in done \ waited
  /\ waited' = waited \cup {w}
  /\ waves' = [waves EXCEPT ![SessionOf[w]] = IF @ = w THEN NoWave ELSE @]
  /\ UNCHANGED <<pc, prior, todo, cur, ctxErr, done, taskVars, slotVars,
                 artifacts, cancelling, cancels, abort>>

-----------------------------------------------------------------------------
(* The specification                                                        *)

StartStep(w) ==
  StartRead(w) \/ StartStore(w) \/ StartCancelCtx(w) \/ StartCancelWorkers(w)

LoopStep(w) ==
  \/ LoopSuperseded(w) \/ LoopFinished(w) \/ LoopCancelled(w)
  \/ LoopSnapshot(w) \/ LoopWait(w) \/ LoopTick(w)
  \/ FailFastReturn(w) \/ ReleaseRejected(w)
  \/ \E t \in Nodes[w] :
       \/ Acquire(w, t) \/ SkipNoSlot(w, t) \/ FailFast(w, t)
       \/ Register(w, t) \/ Reject(w, t)
       \/ SetRunning(w, t) \/ StartWorker(w, t)

CompleteTask(w, t) ==
  PutArtifact(w, t) \/ FreeSlot(w, t) \/ SetTerminal(w, t) \/ DropHandle(w, t)

AbortStep(w) == AbortCtx(w) \/ AbortWorkers(w) \/ AbortPending(w)

\* What the scheduler does of its own accord.
SchedulerStep(w) ==
  \/ StartStep(w)
  \/ LoopStep(w)
  \/ \E t \in Nodes[w] :
       \/ CompleteTask(w, t)
       \/ \E code \in {"ok", "error", "canceled"} : WorkerReturn(w, t, code)

\* What its callers may ask for at any moment.
ClientStep(w) ==
  \/ CallerCancel(w) \/ AbortRead(w) \/ AbortStep(w) \/ WaitReturn(w)
  \/ \E t \in Nodes[w] : CancelWorkerRead(w, t) \/ CancelWorkerMark(w, t)

Next ==
  \/ \E w \in Wave : SchedulerStep(w) \/ ClientStep(w)
  \/ \E s \in Session : CancelAll(s)

Spec == Init /\ [][Next]_vars

\* A goroutine that can run does run; a runner whose context is cancelled
\* returns, as the contract of WorkerRunner demands.  Nothing makes a caller
\* start, cancel or wait, and nothing makes an uncancelled runner return.
Fairness ==
  \A w \in Wave :
    /\ WF_vars(pc[w] # "idle" /\ StartStep(w))
    /\ WF_vars(LoopStep(w))
    /\ WF_vars(AbortStep(w))
    /\ \A t \in Nodes[w] :
         /\ WF_vars(CompleteTask(w, t))
         /\ WF_vars(CancelWorkerMark(w, t))
         /\ WF_vars(<<w, t>> \in cancelled /\ WorkerReturn(w, t, "canceled"))

FairSpec == Spec /\ Fairness

-----------------------------------------------------------------------------
(* Safety                                                                   *)

Executing == {x \in Slot : wpc[x] = "run"}

\* However many waves, sessions and orphaned loops there are, no more workers
\* of a type are inside runner.Run than the pool has slots for that type
\* (Acquire, Release, completeTask).
PoolRespected ==
  \A k \in Type :
    Cardinality({x \in Executing : TypeOf[x[2]] = k}) <= Capacity[k]

\* Two tasks of one conflict group, or two writers of intersecting scopes, are
\* never inside runner.Run together, across waves and sessions: the guard is
\* told before the worker starts and forgets it only after the worker returned.
NoConflictingWorkers ==
  \A x, y \in Executing : x # y => ~ConflictBetween(x[2], y[2])

\* No task is started, or failed fast, before each of its dependencies has
\* succeeded in the same wave and its completeTask has published the success,
\* even when the dependency's node is marked cancelled later.
DependenciesFirst ==
  \A w \in Wave : \A t \in Nodes[w] :
    wpc[<<w, t>>] # "idle" =>
      \A d \in DependsOn[t] :
        exit[<<w, d>>] = "ok" /\ wpc[<<w, d>>] \in {"drop", "done"}

\* Every slot that is out has somebody who will give it back: a loop in the
\* middle of dispatchOne or a worker that has not passed pool.Release.
NoSlotLeak ==
  \A x \in owners :
    \/ wpc[x] \in {"run", "put", "free"}
    \/ cur[x[1]] = x[2] /\ pc[x[1]] \in {"register", "release", "run", "handle"}

\* A node seen completed or failed has its artifact in the session's store, so
\* that a waiter woken by AllTerminal finds it (completeTask puts it first).
ResultBeforeState ==
  \A x \in Slot :
    state[x] \in {"completed", "failed"} =>
      artifacts[SessionOf[x[1]]][x[2]] # NoArtifact

\* A node is dispatched once: no reentry, abort or tick starts a second worker
\* for a node whose worker or failure has already begun.
StartedOnce ==
  [][\A x \in Slot : wpc[x] # "idle" /\ wpc[x] # "run" => wpc'[x] # "run"]_vars

\* The abstract promise: see ExclusiveSlots.  A slot is active while it is
\* registered with the guard; a node begins once.
Promise == INSTANCE ExclusiveSlots WITH
  active <- running,
  begun <- {x \in Slot : wpc[x] # "idle"} \cup running
Exclusive == Promise!Spec

(* Liveness                                                                 *)

\* Once AbortSession has returned, its wave is marked done, its loop leaves and
\* every slot it held comes back, although the loop may be in the middle of
\* dispatching a worker that the abort could not see.
AbortFreesSlots ==
  \A w \in Wave :
    (abort[w] = [pc |-> "done", target |-> w]) ~>
      (w \in done /\ pc[w] = "exit" /\ \A x \in owners : x[1] # w)

\* A wave replaced by a newer one is closed: whoever waits on it wakes up.
SupersededEnds ==
  \A w \in Wave :
    (pc[w] \notin {"idle", "store"} /\ waves[SessionOf[w]] # w) ~> (w \in done)
=============================================================================
