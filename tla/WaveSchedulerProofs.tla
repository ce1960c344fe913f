------------------------ MODULE WaveSchedulerProofs ------------------------
(***************************************************************************)
(* Theorems about WaveScheduler for every set of sessions, waves, nodes,    *)
(* worker types and capacities, and every plan over them.                   *)
(***************************************************************************)
EXTENDS WaveScheduler, FiniteSetTheorems, TLAPS

-----------------------------------------------------------------------------
(* Type correctness                                                         *)

\* Start cancels a prior wave only when it read one.
PriorOK ==
  \A w \in Wave : pc[w] \in {"cancelCtx", "cancelWorkers"} => prior[w] \in Wave

\* AbortSession goes on only with the wave it found.
AbortOK ==
  \A w \in Wave : abort[w].pc \in {"ctx", "workers", "pending"}
                    => abort[w].target \in Wave

TypeInv == TypeOK /\ PriorOK /\ AbortOK

\* The terminal state completeTask picks is a terminal state of the graph.
LEMMA TerminalForType ==
  ASSUME NEW x, NEW code
  PROVE  TerminalFor(x, code) \in {"completed", "failed", "cancelled"}
BY DEF TerminalFor

\* The initial state of NewWaveScheduler is well typed.
LEMMA InitType == Init => TypeInv
BY SetsAssumption DEF Init, TypeInv, TypeOK, PriorOK, AbortOK, PC, WPC, APC,
  TaskState, ExitCode, Artifact, NoArtifact, Slot

\* Start keeps the types: a prior wave it cancels is a wave.
LEMMA StartType ==
  ASSUME TypeInv, NEW w \in Wave, StartStep(w)
  PROVE  TypeInv'
<1> USE GraphAssumption, SetsAssumption
    DEF TypeInv, TypeOK, PC, PriorOK, AbortOK, taskVars, slotVars, clientVars
<1>1. CASE StartRead(w)
  BY <1>1 DEF StartRead
<1>2. CASE StartStore(w)
  BY <1>2 DEF StartStore, AfterStore
<1>3. CASE StartCancelCtx(w)
  BY <1>3 DEF StartCancelCtx
<1>4. CASE StartCancelWorkers(w)
  BY <1>4 DEF StartCancelWorkers, HandlesOf
<1> QED BY <1>1, <1>2, <1>3, <1>4 DEF StartStep

\* The dispatch loop keeps the types.
LEMMA LoopType ==
  ASSUME TypeInv, NEW w \in Wave, LoopStep(w)
  PROVE  TypeInv'
<1> USE GraphAssumption, SetsAssumption
    DEF TypeInv, TypeOK, PC, PriorOK, AbortOK, Slot, taskVars, slotVars,
        clientVars
<1>1. CASE LoopSuperseded(w)
  BY <1>1 DEF LoopSuperseded, MarkWaveDone
<1>2. CASE LoopFinished(w)
  BY <1>2 DEF LoopFinished, MarkWaveDone
<1>3. CASE LoopCancelled(w)
  BY <1>3 DEF LoopCancelled, MarkWaveDone, HandlesOf
<1>4. CASE LoopSnapshot(w)
  <2>1. ReadyNodes(w) \subseteq Task
    BY DEF ReadyNodes
  <2> QED BY <1>4, <2>1 DEF LoopSnapshot
<1>5. CASE LoopWait(w)
  BY <1>5 DEF LoopWait
<1>6. CASE LoopTick(w)
  BY <1>6 DEF LoopTick
<1>7. CASE FailFastReturn(w)
  BY <1>7 DEF FailFastReturn
<1>8. CASE ReleaseRejected(w)
  BY <1>8 DEF ReleaseRejected
<1>9. ASSUME NEW t \in Nodes[w],
             \/ Acquire(w, t) \/ SkipNoSlot(w, t) \/ FailFast(w, t)
             \/ Register(w, t) \/ Reject(w, t)
             \/ SetRunning(w, t) \/ StartWorker(w, t)
      PROVE  TypeInv'
  <2>0. t \in Task /\ <<w, t>> \in Slot
    OBVIOUS
  <2>1. CASE Acquire(w, t)
    BY <2>0, <2>1 DEF Acquire
  <2>2. CASE SkipNoSlot(w, t)
    BY <2>0, <2>2 DEF SkipNoSlot
  <2>3. CASE FailFast(w, t)
    BY <2>0, <2>3, TerminalForType DEF FailFast, ExitCode, WPC, TaskState
  <2>4. CASE Register(w, t)
    BY <2>0, <2>4 DEF Register
  <2>5. CASE Reject(w, t)
    BY <2>5 DEF Reject
  <2>6. CASE SetRunning(w, t)
    BY <2>0, <2>6 DEF SetRunning, TaskState
  <2>7. CASE StartWorker(w, t)
    BY <2>0, <2>7 DEF StartWorker, WPC
  <2> QED BY <1>9, <2>1, <2>2, <2>3, <2>4, <2>5, <2>6, <2>7
<1> QED BY <1>1, <1>2, <1>3, <1>4, <1>5, <1>6, <1>7, <1>8, <1>9 DEF LoopStep

\* A worker's return and completeTask keep the types.
LEMMA WorkerType ==
  ASSUME TypeInv, NEW w \in Wave, NEW t \in Nodes[w],
         \/ CompleteTask(w, t)
         \/ \E code \in {"ok", "error", "canceled"} : WorkerReturn(w, t, code)
  PROVE  TypeInv'
<1> USE GraphAssumption, SetsAssumption
    DEF TypeInv, TypeOK, PriorOK, AbortOK, loopVars, slotVars, clientVars, WPC
<1>0. t \in Task /\ <<w, t>> \in Slot
  BY DEF Slot
<1>1. CASE PutArtifact(w, t)
  BY <1>0, <1>1 DEF PutArtifact, Artifact
<1>2. CASE FreeSlot(w, t)
  BY <1>0, <1>2 DEF FreeSlot
<1>3. CASE SetTerminal(w, t)
  BY <1>0, <1>3 DEF SetTerminal
<1>4. CASE DropHandle(w, t)
  BY <1>0, <1>4 DEF DropHandle
<1>5. ASSUME NEW code \in {"ok", "error", "canceled"}, WorkerReturn(w, t, code)
      PROVE  TypeInv'
  BY <1>0, <1>5, TerminalForType DEF WorkerReturn, ExitCode, TaskState
<1> QED BY <1>1, <1>2, <1>3, <1>4, <1>5 DEF CompleteTask

\* Callers keep the types: AbortSession aborts a wave only if it found one.
LEMMA ClientType ==
  ASSUME TypeInv, NEW w \in Wave, ClientStep(w)
  PROVE  TypeInv'
<1> USE GraphAssumption, SetsAssumption, PoolAssumption
    DEF TypeInv, TypeOK, PriorOK, loopVars, taskVars, slotVars
<1>0. ASSUME NEW p \in APC, abort[w].pc \in {"ctx", "workers", "pending"},
             abort' = [abort EXCEPT ![w].pc = p]
      PROVE  /\ abort' \in [Wave -> [pc : APC, target : Wave \cup {NoWave}]]
             /\ AbortOK'
  <2>1. /\ abort \in [Wave -> [pc : APC, target : Wave \cup {NoWave}]]
        /\ abort[w].target \in Wave
    BY <1>0 DEF AbortOK
  <2>2. /\ [abort[w] EXCEPT !.pc = p].target = abort[w].target
        /\ [abort[w] EXCEPT !.pc = p] \in [pc : APC, target : Wave \cup {NoWave}]
    BY <1>0, <2>1
  <2>3. abort' = [abort EXCEPT ![w] = [abort[w] EXCEPT !.pc = p]]
    BY <1>0
  <2> QED BY <2>1, <2>2, <2>3 DEF AbortOK
<1>1. CASE CallerCancel(w)
  BY <1>1 DEF CallerCancel, clientVars, AbortOK
<1>2. CASE AbortRead(w)
  BY <1>2 DEF AbortRead, AbortOK, APC
<1>3. CASE AbortCtx(w)
  <2>1. abort[w].target \in Wave
    BY <1>3 DEF AbortCtx, AbortOK
  <2>2. /\ abort' \in [Wave -> [pc : APC, target : Wave \cup {NoWave}]]
        /\ AbortOK'
    BY <1>0, <1>3 DEF AbortCtx, APC
  <2> QED BY <1>3, <2>1, <2>2 DEF AbortCtx
<1>4. CASE AbortWorkers(w)
  <2>1. /\ abort' \in [Wave -> [pc : APC, target : Wave \cup {NoWave}]]
        /\ AbortOK'
    BY <1>0, <1>4 DEF AbortWorkers, APC
  <2> QED BY <1>4, <2>1 DEF AbortWorkers, HandlesOf
<1>5. CASE AbortPending(w)
  <2>1. state' \in [Slot -> TaskState]
    BY <1>5 DEF AbortPending, TaskState
  <2>2. /\ abort' \in [Wave -> [pc : APC, target : Wave \cup {NoWave}]]
        /\ AbortOK'
    BY <1>0, <1>5 DEF AbortPending, APC
  <2> QED BY <1>5, <2>1, <2>2 DEF AbortPending
<1>6. CASE WaitReturn(w)
  BY <1>6 DEF WaitReturn, AbortOK
<1>7. ASSUME NEW t \in Nodes[w],
             CancelWorkerRead(w, t) \/ CancelWorkerMark(w, t)
      PROVE  TypeInv'
  <2>0. <<w, t>> \in Slot
    BY DEF Slot
  <2>1. CASE CancelWorkerRead(w, t)
    BY <2>0, <2>1, SMTT(30) DEF CancelWorkerRead, Slot, AbortOK
  <2>2. CASE CancelWorkerMark(w, t)
    BY <2>0, <2>2 DEF CancelWorkerMark, TaskState, AbortOK
  <2> QED BY <1>7, <2>1, <2>2
<1> QED BY <1>1, <1>2, <1>3, <1>4, <1>5, <1>6, <1>7 DEF ClientStep, AbortStep

\* Every step keeps the types.
LEMMA NextType == TypeInv /\ [Next]_vars => TypeInv'
<1> SUFFICES ASSUME TypeInv, [Next]_vars PROVE TypeInv'
  OBVIOUS
<1>1. CASE UNCHANGED vars
  BY <1>1 DEF vars, loopVars, taskVars, slotVars, clientVars, TypeInv, TypeOK,
     PriorOK, AbortOK
<1>2. ASSUME NEW w \in Wave, SchedulerStep(w) PROVE TypeInv'
  BY <1>2, StartType, LoopType, WorkerType DEF SchedulerStep
<1>3. ASSUME NEW w \in Wave, ClientStep(w) PROVE TypeInv'
  BY <1>3, ClientType
<1>4. ASSUME NEW s \in Session, CancelAll(s) PROVE TypeInv'
  BY <1>4 DEF CancelAll, HandlesOf, TypeInv, TypeOK, PriorOK, AbortOK,
     loopVars, slotVars, clientVars
<1> QED BY <1>1, <1>2, <1>3, <1>4 DEF Next

\* The scheduler's state is always well typed: in particular Start never
\* cancels a prior wave it did not read, and completeTask never publishes a
\* state outside the graph's.
THEOREM TypeCorrect == Spec => []TypeOK
<1>1. TypeInv => TypeOK
  BY DEF TypeInv
<1> QED BY <1>1, InitType, NextType, PTL DEF Spec

-----------------------------------------------------------------------------
(* Exclusion: slots, guard and capacity                                     *)

\* The loop of x's wave is at x, at one of the given places.
At(x, places) == cur[x[1]] = x[2] /\ pc[x[1]] \in places

\* A loop has a current node exactly while it is inside dispatchOne.
CursorOK ==
  \A w \in Wave :
    IF pc[w] \in {"register", "release", "run", "handle", "inline"}
      THEN cur[w] \in Task ELSE cur[w] = NoTask

\* A node still pending has no worker; it may be failing fast.
PendingOK ==
  \A x \in Slot :
    state[x] = "pending" =>
      \/ wpc[x] = "idle" /\ ~At(x, {"handle"})
      \/ wpc[x] \in {"put", "free", "set"} /\ At(x, {"inline"})

\* Between the return of a runner and SetState the terminal state is chosen.
ChosenOK ==
  \A x \in Slot : wpc[x] \in {"put", "free", "set"} => terminal[x] # "pending"

\* The rest of a snapshot and the current node have never been dispatched.
SnapshotOK ==
  \A w \in Wave : \A t \in todo[w] : wpc[<<w, t>>] = "idle" /\ cur[w] # t

CurrentOK ==
  \A x \in Slot : At(x, {"register", "release", "run", "handle"})
                    => wpc[x] = "idle"

\* A slot is out exactly while a loop or a worker is bound to return it.
OwnerOK ==
  \A x \in Slot :
    x \in owners <=> \/ wpc[x] \in {"run", "put", "free"}
                     \/ At(x, {"register", "release", "run", "handle"})

\* A task is registered from AllowAndRegister to the return of its worker.
GuardOK ==
  \A x \in Slot :
    /\ x \in running => \/ wpc[x] \in {"run", "put", "free"}
                        \/ At(x, {"run", "handle"})
    /\ wpc[x] = "run" \/ At(x, {"run", "handle"}) => x \in running

ConflictOK ==
  \A x, y \in running : x # y => ~ConflictBetween(x[2], y[2])

CapacityOK == \A k \in Type : Cardinality(InUse(k)) <= Capacity[k]

\* The inductive invariant.
ControlInv ==
  CursorOK /\ PendingOK /\ ChosenOK /\ SnapshotOK /\ CurrentOK /\ OwnerOK
    /\ GuardOK

IndInv == TypeInv /\ ControlInv /\ ConflictOK /\ CapacityOK

\* The initial state satisfies the invariant: nothing is out.
LEMMA InitInd == Init => IndInv
<1> SUFFICES ASSUME Init PROVE IndInv
  OBVIOUS
<1>1. TypeInv
  BY InitType
<1>2. ControlInv
  BY SetsAssumption DEF Init, ControlInv, CursorOK, PendingOK, ChosenOK,
     SnapshotOK, CurrentOK, OwnerOK, GuardOK, At, Slot
<1>3. ConflictOK
  BY DEF Init, ConflictOK
<1>4. ASSUME NEW k \in Type PROVE Cardinality(InUse(k)) <= Capacity[k]
  <2>1. InUse(k) = {}
    BY DEF Init, InUse
  <2> QED BY <2>1, FS_EmptySet, PoolAssumption
<1> QED BY <1>1, <1>2, <1>3, <1>4 DEF IndInv, CapacityOK

\* Start touches neither the loop's cursor nor a slot.
LEMMA StartControl ==
  ASSUME IndInv, NEW w \in Wave, StartStep(w)
  PROVE  ControlInv'
<1> USE DEF IndInv, TypeInv, TypeOK, ControlInv, CursorOK, PendingOK, ChosenOK,
        SnapshotOK, CurrentOK, OwnerOK, GuardOK, At, Slot, taskVars, slotVars
<1>1. CASE StartRead(w)
  BY <1>1 DEF StartRead
<1>2. CASE StartStore(w)
  BY <1>2 DEF StartStore, AfterStore
<1>3. CASE StartCancelCtx(w)
  BY <1>3 DEF StartCancelCtx
<1>4. CASE StartCancelWorkers(w)
  BY <1>4 DEF StartCancelWorkers
<1> QED BY <1>1, <1>2, <1>3, <1>4 DEF StartStep

\* A node that fails fast keeps its slot and is not registered.
LEMMA FailFastControl ==
  ASSUME IndInv, NEW w \in Wave, NEW t \in Nodes[w], FailFast(w, t)
  PROVE  ControlInv'
<1> DEFINE X == <<w, t>>
<1>0. X \in Slot /\ X[1] = w /\ X[2] = t /\ t \in Task
  BY GraphAssumption DEF Slot
<1>1. /\ pc[w] = "register" /\ cur[w] = t
      /\ pc' = [pc EXCEPT ![w] = "inline"]
      /\ wpc' = [wpc EXCEPT ![X] = "put"]
      /\ terminal' = [terminal EXCEPT ![X] = TerminalFor(X, "error")]
      /\ UNCHANGED <<cur, todo, state, owners, running>>
  BY DEF FailFast, slotVars
<1>2. /\ pc \in [Wave -> PC] /\ cur \in [Wave -> Task \cup {NoTask}]
      /\ todo \in [Wave -> SUBSET Task]
      /\ wpc \in [Slot -> WPC] /\ terminal \in [Slot -> TaskState]
  BY DEF IndInv, TypeInv, TypeOK
<1>3. \A x \in Slot : x # X =>
        /\ wpc'[x] = wpc[x] /\ terminal'[x] = terminal[x]
        /\ x[1] = w => cur[x[1]] # x[2]
  BY <1>0, <1>1, <1>2 DEF Slot
<1>4. wpc[X] = "idle" /\ wpc'[X] = "put" /\ terminal'[X] # "pending"
  BY <1>0, <1>1, <1>2, TerminalForType DEF IndInv, ControlInv, CurrentOK, At
<1>5. \A x \in Slot : \A places :
        At(x, places)' <=> IF x = X THEN "inline" \in places ELSE At(x, places)
  BY <1>0, <1>1, <1>2, <1>3 DEF At, Slot
<1>6. X \in owners /\ X \notin running
  BY <1>0, <1>1, <1>4 DEF IndInv, ControlInv, OwnerOK, GuardOK, At
<1>7. CursorOK'
  BY <1>0, <1>1, <1>2 DEF IndInv, ControlInv, CursorOK
<1>8. PendingOK'
  BY <1>1, <1>3, <1>4, <1>5 DEF IndInv, ControlInv, PendingOK
<1>9. ChosenOK'
  BY <1>3, <1>4 DEF IndInv, ControlInv, ChosenOK
<1>10. SnapshotOK'
  <2> SUFFICES ASSUME NEW v \in Wave, NEW u \in todo[v]
               PROVE  wpc'[<<v, u>>] = "idle" /\ cur[v] # u
    BY <1>1 DEF SnapshotOK
  <2>1. wpc[<<v, u>>] = "idle" /\ cur[v] # u
    BY DEF IndInv, ControlInv, SnapshotOK
  <2>2. <<v, u>> # X
    BY <1>1, <2>1
  <2>3. <<v, u>> \in Slot
    BY <1>2 DEF Slot
  <2> QED BY <1>3, <2>1, <2>2, <2>3
<1>11. CurrentOK'
  BY <1>3, <1>4, <1>5 DEF IndInv, ControlInv, CurrentOK
<1>12. OwnerOK'
  BY <1>1, <1>3, <1>4, <1>5, <1>6 DEF IndInv, ControlInv, OwnerOK
<1>13. GuardOK'
  BY <1>1, <1>3, <1>4, <1>5, <1>6 DEF IndInv, ControlInv, GuardOK
<1> QED BY <1>7, <1>8, <1>9, <1>10, <1>11, <1>12, <1>13 DEF ControlInv

\* When the inline completeTask is over, the node is no longer pending.
LEMMA FailFastReturnControl ==
  ASSUME IndInv, NEW w \in Wave, FailFastReturn(w)
  PROVE  ControlInv'
<1> DEFINE X == <<w, cur[w]>>
<1>1. /\ pc[w] = "inline" /\ wpc[X] = "done"
      /\ pc' = [pc EXCEPT ![w] = "dispatch"]
      /\ cur' = [cur EXCEPT ![w] = NoTask]
      /\ UNCHANGED <<todo, wpc, terminal, state, owners, running>>
  BY DEF FailFastReturn, slotVars, taskVars
<1>2. /\ pc \in [Wave -> PC] /\ cur \in [Wave -> Task \cup {NoTask}]
      /\ todo \in [Wave -> SUBSET Task]
  BY DEF IndInv, TypeInv, TypeOK
<1>3. cur[w] \in Task /\ X \in Slot /\ X[1] = w /\ X[2] = cur[w]
  BY <1>1, <1>2 DEF IndInv, ControlInv, CursorOK, Slot
<1>4. \A x \in Slot : x[1] \in Wave /\ x[2] \in Task
                        /\ (x[1] = w /\ x[2] = cur[w] => x = X)
  BY DEF Slot
<1>5. \A x \in Slot : \A places :
        At(x, places)' <=> x[1] # w /\ At(x, places)
  BY <1>1, <1>2, <1>4, SetsAssumption DEF At
<1>6. \A x \in Slot : \A places :
        "inline" \notin places /\ At(x, places) => x[1] # w
  BY <1>1 DEF At
<1>7. CursorOK'
  BY <1>1, <1>2 DEF IndInv, ControlInv, CursorOK
<1>8. PendingOK'
  <2> SUFFICES ASSUME NEW x \in Slot, state[x] = "pending"
               PROVE  \/ wpc[x] = "idle" /\ ~At(x, {"handle"})'
                      \/ wpc[x] \in {"put", "free", "set"} /\ At(x, {"inline"})'
    BY <1>1 DEF PendingOK
  <2>1. \/ wpc[x] = "idle" /\ ~At(x, {"handle"})
        \/ wpc[x] \in {"put", "free", "set"} /\ At(x, {"inline"})
    BY DEF IndInv, ControlInv, PendingOK
  <2>2. At(x, {"inline"}) /\ x[1] = w => x = X
    BY <1>4 DEF At
  <2> QED BY <1>1, <1>5, <2>1, <2>2, SMTT(60)
<1>9. ChosenOK'
  BY <1>1 DEF IndInv, ControlInv, ChosenOK
<1>10. SnapshotOK'
  <2> SUFFICES ASSUME NEW v \in Wave, NEW u \in todo[v]
               PROVE  wpc[<<v, u>>] = "idle" /\ cur'[v] # u
    BY <1>1 DEF SnapshotOK
  <2>1. wpc[<<v, u>>] = "idle" /\ cur[v] # u /\ u \in Task
    BY <1>2 DEF IndInv, ControlInv, SnapshotOK
  <2>2. cur'[v] = IF v = w THEN NoTask ELSE cur[v]
    BY <1>1, <1>2
  <2> QED BY <2>1, <2>2, SetsAssumption
<1>11. CurrentOK'
  BY <1>1, <1>5, <1>6 DEF IndInv, ControlInv, CurrentOK
<1>12. OwnerOK'
  BY <1>1, <1>5, <1>6 DEF IndInv, ControlInv, OwnerOK
<1>13. GuardOK'
  BY <1>1, <1>5, <1>6 DEF IndInv, ControlInv, GuardOK
<1> QED BY <1>7, <1>8, <1>9, <1>10, <1>11, <1>12, <1>13 DEF ControlInv

\* The loop moves one node at a time from the snapshot to a worker.
LEMMA LoopControl ==
  ASSUME IndInv, NEW w \in Wave, LoopStep(w)
  PROVE  ControlInv'
<1> USE SetsAssumption, GraphAssumption
    DEF IndInv, TypeInv, TypeOK, ControlInv, CursorOK, PendingOK, ChosenOK,
        SnapshotOK, CurrentOK, OwnerOK, GuardOK, At, Slot, taskVars, slotVars
<1>1. CASE LoopSuperseded(w)
  BY <1>1 DEF LoopSuperseded
<1>2. CASE LoopFinished(w)
  BY <1>2 DEF LoopFinished
<1>3. CASE LoopCancelled(w)
  BY <1>3 DEF LoopCancelled
<1>4. CASE LoopSnapshot(w)
  <2>1. \A t \in ReadyNodes(w) : t \in Task /\ state[<<w, t>>] = "pending"
    BY DEF ReadyNodes
  <2>2. \A t \in ReadyNodes(w) : wpc[<<w, t>>] = "idle" /\ cur[w] # t
    BY <1>4, <2>1 DEF LoopSnapshot
  <2> QED BY <1>4, <2>2 DEF LoopSnapshot
<1>5. CASE LoopWait(w)
  BY <1>5 DEF LoopWait
<1>6. CASE LoopTick(w)
  BY <1>6 DEF LoopTick
<1>7. CASE FailFastReturn(w)
  BY <1>7, FailFastReturnControl
<1>8. CASE ReleaseRejected(w)
  BY <1>8 DEF ReleaseRejected
<1>9. ASSUME NEW t \in Nodes[w],
             \/ Acquire(w, t) \/ SkipNoSlot(w, t) \/ FailFast(w, t)
             \/ Register(w, t) \/ Reject(w, t)
             \/ SetRunning(w, t) \/ StartWorker(w, t)
      PROVE  ControlInv'
  <2>0. t \in Task /\ <<w, t>> \in Slot
    OBVIOUS
  <2>1. CASE Acquire(w, t)
    BY <2>0, <2>1 DEF Acquire, NextReady
  <2>2. CASE SkipNoSlot(w, t)
    BY <2>0, <2>2 DEF SkipNoSlot
  <2>3. CASE FailFast(w, t)
    BY <2>3, FailFastControl
  <2>4. CASE Register(w, t)
    BY <2>0, <2>4 DEF Register
  <2>5. CASE Reject(w, t)
    BY <2>0, <2>5 DEF Reject
  <2>6. CASE SetRunning(w, t)
    BY <2>0, <2>6 DEF SetRunning
  <2>7. CASE StartWorker(w, t)
    BY <2>0, <2>7 DEF StartWorker
  <2> QED BY <1>9, <2>1, <2>2, <2>3, <2>4, <2>5, <2>6, <2>7
<1> QED BY <1>1, <1>2, <1>3, <1>4, <1>5, <1>6, <1>7, <1>8, <1>9 DEF LoopStep

\* A worker keeps its slot until FreeSlot and its node until SetTerminal.
LEMMA WorkerControl ==
  ASSUME IndInv, NEW w \in Wave, NEW t \in Nodes[w],
         \/ CompleteTask(w, t)
         \/ \E code \in {"ok", "error", "canceled"} : WorkerReturn(w, t, code)
  PROVE  ControlInv'
<1> DEFINE X == <<w, t>>
<1>0. X \in Slot /\ X[1] = w /\ X[2] = t
  BY GraphAssumption DEF Slot
<1>a. /\ UNCHANGED <<pc, cur, todo>>
      /\ wpc \in [Slot -> WPC] /\ state \in [Slot -> TaskState]
      /\ terminal \in [Slot -> TaskState]
      /\ owners \subseteq Slot /\ running \subseteq Slot
  BY DEF IndInv, TypeInv, TypeOK, CompleteTask, PutArtifact, FreeSlot,
     SetTerminal, DropHandle, WorkerReturn, loopVars
<1>b. CursorOK'
  BY <1>a DEF IndInv, ControlInv, CursorOK
<1>c. wpc[X] # "idle" /\ wpc' = [wpc EXCEPT ![X] = wpc'[X]] /\ wpc'[X] # "idle"
  BY <1>0, <1>a DEF CompleteTask, PutArtifact, FreeSlot, SetTerminal,
     DropHandle, WorkerReturn
<1>d. SnapshotOK'
  BY <1>a, <1>c DEF IndInv, ControlInv, SnapshotOK, TypeInv, TypeOK, Slot
<1>e. CurrentOK'
  BY <1>0, <1>a, <1>c DEF IndInv, ControlInv, CurrentOK, At
<1>f. ~At(X, {"register", "release", "run", "handle"})
  BY <1>0, <1>c DEF IndInv, ControlInv, CurrentOK
<1>g. ControlInv => \A x \in Slot :
        /\ wpc[x] \in {"put", "free", "set"} => terminal[x] # "pending"
        /\ state[x] = "pending" =>
             \/ wpc[x] = "idle" /\ ~At(x, {"handle"})
             \/ wpc[x] \in {"put", "free", "set"} /\ At(x, {"inline"})
        /\ x \in owners <=> \/ wpc[x] \in {"run", "put", "free"}
                     \/ At(x, {"register", "release", "run", "handle"})
        /\ x \in running => \/ wpc[x] \in {"run", "put", "free"}
                        \/ At(x, {"run", "handle"})
        /\ wpc[x] = "run" \/ At(x, {"run", "handle"}) => x \in running
  BY DEF ControlInv, ChosenOK, PendingOK, OwnerOK, GuardOK
<1>h. \A x, places : At(x, places)' <=> At(x, places)
  BY <1>a DEF At
<1>i. ControlInv /\ X \in Slot
  BY <1>0 DEF IndInv
<1>1. CASE PutArtifact(w, t)
  BY <1>1, <1>a, <1>b, <1>c, <1>d, <1>e, <1>g, <1>h, <1>i
     DEF PutArtifact, ControlInv, PendingOK, ChosenOK, OwnerOK, GuardOK,
         slotVars
<1>2. CASE FreeSlot(w, t)
  BY <1>2, <1>a, <1>b, <1>c, <1>d, <1>e, <1>f, <1>g, <1>h, <1>i
     DEF FreeSlot, ControlInv, PendingOK, ChosenOK, OwnerOK, GuardOK, At
<1>3. CASE SetTerminal(w, t)
  BY <1>3, <1>a, <1>b, <1>c, <1>d, <1>e, <1>g, <1>h, <1>i
     DEF SetTerminal, ControlInv, PendingOK, ChosenOK, OwnerOK, GuardOK,
         slotVars
<1>4. CASE DropHandle(w, t)
  BY <1>4, <1>a, <1>b, <1>c, <1>d, <1>e, <1>g, <1>h, <1>i
     DEF DropHandle, ControlInv, PendingOK, ChosenOK, OwnerOK, GuardOK,
         slotVars
<1>5. ASSUME NEW code \in {"ok", "error", "canceled"}, WorkerReturn(w, t, code)
      PROVE  ControlInv'
  <2>1. TerminalFor(X, code) # "pending"
    BY TerminalForType
  <2> QED BY <1>5, <1>a, <1>b, <1>c, <1>d, <1>e, <1>g, <1>h, <1>i, <2>1
     DEF WorkerReturn, ControlInv, PendingOK, ChosenOK, OwnerOK, GuardOK,
         slotVars
<1> QED BY <1>1, <1>2, <1>3, <1>4, <1>5 DEF CompleteTask

\* Callers change contexts and node states, never a slot or a cursor.
LEMMA ClientControl ==
  ASSUME IndInv, NEW w \in Wave, ClientStep(w)
  PROVE  ControlInv'
<1> USE DEF IndInv, TypeInv, TypeOK, ControlInv, CursorOK, PendingOK, ChosenOK,
        SnapshotOK, CurrentOK, OwnerOK, GuardOK, At, Slot, loopVars, taskVars,
        slotVars
<1>1. CASE CallerCancel(w)
  BY <1>1 DEF CallerCancel
<1>2. CASE AbortRead(w)
  BY <1>2 DEF AbortRead
<1>3. CASE AbortCtx(w)
  BY <1>3 DEF AbortCtx
<1>4. CASE AbortWorkers(w)
  BY <1>4 DEF AbortWorkers
<1>5. CASE AbortPending(w)
  BY <1>5 DEF AbortPending
<1>6. CASE WaitReturn(w)
  BY <1>6 DEF WaitReturn
<1>7. ASSUME NEW t \in Nodes[w],
             CancelWorkerRead(w, t) \/ CancelWorkerMark(w, t)
      PROVE  ControlInv'
  <2>1. CASE CancelWorkerRead(w, t)
    BY <2>1 DEF CancelWorkerRead
  <2>2. CASE CancelWorkerMark(w, t)
    BY <2>2, GraphAssumption DEF CancelWorkerMark
  <2> QED BY <1>7, <2>1, <2>2
<1> QED BY <1>1, <1>2, <1>3, <1>4, <1>5, <1>6, <1>7 DEF ClientStep, AbortStep

\* The control invariant is preserved by every step.
LEMMA NextControl == IndInv /\ [Next]_vars => ControlInv'
<1> SUFFICES ASSUME IndInv, [Next]_vars PROVE ControlInv'
  OBVIOUS
<1>1. CASE UNCHANGED vars
  BY <1>1 DEF vars, loopVars, taskVars, slotVars, IndInv, ControlInv, CursorOK,
     PendingOK, ChosenOK, SnapshotOK, CurrentOK, OwnerOK, GuardOK, At
<1>2. ASSUME NEW w \in Wave, SchedulerStep(w) PROVE ControlInv'
  BY <1>2, StartControl, LoopControl, WorkerControl DEF SchedulerStep
<1>3. ASSUME NEW w \in Wave, ClientStep(w) PROVE ControlInv'
  BY <1>3, ClientControl
<1>4. ASSUME NEW s \in Session, CancelAll(s) PROVE ControlInv'
  BY <1>4 DEF CancelAll, loopVars, taskVars, slotVars, IndInv, ControlInv,
     CursorOK, PendingOK, ChosenOK, SnapshotOK, CurrentOK, OwnerOK, GuardOK, At
<1> QED BY <1>1, <1>2, <1>3, <1>4 DEF Next

\* What a step may do to the slots and the guard.
LEMMA SlotSteps ==
  ASSUME IndInv, [Next]_vars
  PROVE  \/ UNCHANGED <<owners, running>>
         \/ \E w \in Wave : \E t \in Nodes[w] :
              \/ Acquire(w, t) \/ Register(w, t) \/ FreeSlot(w, t)
         \/ \E w \in Wave : ReleaseRejected(w)
<1> USE DEF slotVars
<1>1. CASE UNCHANGED vars
  BY <1>1 DEF vars
<1>2. ASSUME NEW w \in Wave, StartStep(w) PROVE UNCHANGED <<owners, running>>
  BY <1>2 DEF StartStep, StartRead, StartStore, StartCancelCtx,
     StartCancelWorkers
<1>3. ASSUME NEW w \in Wave, LoopStep(w)
      PROVE  \/ UNCHANGED <<owners, running>>
             \/ \E t \in Nodes[w] : Acquire(w, t) \/ Register(w, t)
             \/ ReleaseRejected(w)
  BY <1>3 DEF LoopStep, LoopSuperseded, LoopFinished, LoopCancelled,
     LoopSnapshot, LoopWait, LoopTick, FailFastReturn, SkipNoSlot, FailFast,
     Reject, SetRunning, StartWorker
<1>4. ASSUME NEW w \in Wave, NEW t \in Nodes[w],
             \/ CompleteTask(w, t)
             \/ \E code \in {"ok", "error", "canceled"} :
                  WorkerReturn(w, t, code)
      PROVE  UNCHANGED <<owners, running>> \/ FreeSlot(w, t)
  BY <1>4 DEF CompleteTask, PutArtifact, SetTerminal, DropHandle, WorkerReturn
<1>5. ASSUME NEW w \in Wave, ClientStep(w) PROVE UNCHANGED <<owners, running>>
  BY <1>5 DEF ClientStep, AbortStep, CallerCancel, AbortRead, AbortCtx,
     AbortWorkers, AbortPending, WaitReturn, CancelWorkerRead, CancelWorkerMark
<1>6. ASSUME NEW s \in Session, CancelAll(s) PROVE UNCHANGED <<owners, running>>
  BY <1>6 DEF CancelAll
<1> QED BY <1>1, <1>2, <1>3, <1>4, <1>5, <1>6 DEF Next, SchedulerStep

\* The guard never holds two conflicting tasks: AllowAndRegister compares the
\* candidate with every registered one, and ConflictBetween is symmetric.
LEMMA NextConflict == IndInv /\ [Next]_vars => ConflictOK'
<1> SUFFICES ASSUME IndInv, [Next]_vars PROVE ConflictOK'
  OBVIOUS
<1>1. CASE UNCHANGED <<owners, running>>
  BY <1>1 DEF IndInv, ConflictOK
<1>2. ASSUME NEW w \in Wave, NEW t \in Nodes[w], Acquire(w, t)
      PROVE  ConflictOK'
  BY <1>2 DEF Acquire, IndInv, ConflictOK
<1>3. ASSUME NEW w \in Wave, NEW t \in Nodes[w], Register(w, t)
      PROVE  ConflictOK'
  <2>1. \A x \in running : ~ConflictBetween(t, x[2])
    BY <1>3 DEF Register, Allowed
  <2>2. \A x \in running : ~ConflictBetween(x[2], t)
    BY <2>1, ConflictAssumption, GraphAssumption
    DEF ConflictBetween, IndInv, TypeInv, TypeOK, Slot
  <2> QED BY <1>3, <2>1, <2>2 DEF Register, IndInv, ConflictOK
<1>4. ASSUME NEW w \in Wave, NEW t \in Nodes[w], FreeSlot(w, t)
      PROVE  ConflictOK'
  BY <1>4 DEF FreeSlot, IndInv, ConflictOK
<1>5. ASSUME NEW w \in Wave, ReleaseRejected(w) PROVE ConflictOK'
  BY <1>5 DEF ReleaseRejected, IndInv, ConflictOK
<1> QED BY <1>1, <1>2, <1>3, <1>4, <1>5, SlotSteps

\* The slots that are out are finitely many.
LEMMA OwnersFinite ==
  ASSUME TypeInv
  PROVE  IsFiniteSet(owners) /\ \A k : IsFiniteSet(InUse(k))
<1>1. IsFiniteSet(Slot)
  BY SetsAssumption, FS_Product DEF Slot
<1>2. IsFiniteSet(owners)
  BY <1>1, FS_Subset DEF TypeInv, TypeOK
<1>3. \A k : InUse(k) \subseteq owners
  BY DEF InUse
<1> QED BY <1>2, <1>3, FS_Subset

\* The pool never hands out more slots of a type than its capacity.
LEMMA NextCapacity == IndInv /\ [Next]_vars => CapacityOK'
<1> SUFFICES ASSUME IndInv, [Next]_vars, NEW k \in Type
             PROVE  Cardinality(InUse(k)') <= Capacity[k]
  BY DEF CapacityOK
<1>0. /\ IsFiniteSet(InUse(k)) /\ Cardinality(InUse(k)) \in Nat
      /\ Cardinality(InUse(k)) <= Capacity[k] /\ Capacity[k] \in Nat
  BY OwnersFinite, FS_CardinalityType, PoolAssumption DEF IndInv, CapacityOK
<1>1. CASE InUse(k)' \subseteq InUse(k)
  BY <1>0, <1>1, FS_Subset, FS_CardinalityType
<1>2. ASSUME NEW w \in Wave, NEW t \in Nodes[w], Acquire(w, t),
             TypeOf[t] = k
      PROVE  Cardinality(InUse(k)') <= Capacity[k]
  <2>1. Cardinality(InUse(k)) < Capacity[k]
    BY <1>2 DEF Acquire, HasSlot
  <2>2. InUse(k)' = InUse(k) \cup {<<w, t>>}
    BY <1>2 DEF Acquire, InUse
  <2>3. Cardinality(InUse(k) \cup {<<w, t>>}) =
          IF <<w, t>> \in InUse(k) THEN Cardinality(InUse(k))
          ELSE Cardinality(InUse(k)) + 1
    BY <1>0, FS_AddElement
  <2> QED BY <1>0, <2>1, <2>2, <2>3
<1>3. CASE owners' \subseteq owners
  BY <1>1, <1>3 DEF InUse
<1>4. ASSUME NEW w \in Wave, NEW t \in Nodes[w], Acquire(w, t),
             TypeOf[t] # k
      PROVE  InUse(k)' \subseteq InUse(k)
  BY <1>4 DEF Acquire, InUse
<1>5. \/ owners' \subseteq owners
      \/ \E w \in Wave : \E t \in Nodes[w] : Acquire(w, t)
  BY SlotSteps DEF Register, FreeSlot, ReleaseRejected
<1> QED BY <1>1, <1>2, <1>3, <1>4, <1>5

\* The inductive invariant holds in every reachable state.
LEMMA Inductive == Spec => []IndInv
<1>1. IndInv /\ [Next]_vars => IndInv'
  BY NextType, NextControl, NextConflict, NextCapacity DEF IndInv
<1> QED BY <1>1, InitInd, PTL DEF Spec

\* Every slot that is out has a loop or a worker that will give it back.
THEOREM NoLeak == Spec => []NoSlotLeak
<1>1. IndInv => NoSlotLeak
  BY DEF IndInv, TypeInv, TypeOK, ControlInv, OwnerOK, NoSlotLeak, At
<1> QED BY <1>1, Inductive, PTL

\* Conflicting tasks are never inside runner.Run together, in whatever waves
\* and sessions they are.
THEOREM ConflictExclusion == Spec => []NoConflictingWorkers
<1>1. IndInv => NoConflictingWorkers
  BY DEF IndInv, ControlInv, GuardOK, ConflictOK, NoConflictingWorkers,
     Executing
<1> QED BY <1>1, Inductive, PTL

\* No more workers of a type are inside runner.Run than the pool has slots.
THEOREM PoolSafe == Spec => []PoolRespected
<1>1. ASSUME IndInv PROVE PoolRespected
  <2> SUFFICES ASSUME NEW k \in Type
               PROVE  Cardinality({x \in Executing : TypeOf[x[2]] = k})
                        <= Capacity[k]
    BY DEF PoolRespected
  <2> DEFINE E == {x \in Executing : TypeOf[x[2]] = k}
  <2>1. E \subseteq InUse(k)
    BY <1>1 DEF IndInv, ControlInv, OwnerOK, Executing, InUse
  <2>2. IsFiniteSet(InUse(k)) /\ Cardinality(InUse(k)) \in Nat
    BY <1>1, OwnersFinite, FS_CardinalityType DEF IndInv
  <2>3. Cardinality(E) <= Cardinality(InUse(k)) /\ Cardinality(E) \in Nat
    BY <2>1, <2>2, FS_Subset, FS_CardinalityType
  <2>4. Cardinality(InUse(k)) <= Capacity[k] /\ Capacity[k] \in Nat
    BY <1>1, PoolAssumption DEF IndInv, CapacityOK
  <2> HIDE DEF E
  <2> QED BY <2>2, <2>3, <2>4 DEF E
<1> QED BY <1>1, Inductive, PTL

-----------------------------------------------------------------------------
(* Order: dependencies, results and states                                  *)

\* completeTask has published the success of x.
Published(x) == exit[x] = "ok" /\ wpc[x] \in {"drop", "done"}

\* The terminal state chosen for a node is "completed" only for a success.
OutcomeOK ==
  \A x \in Slot :
    wpc[x] \in {"put", "free", "set"} /\ terminal[x] = "completed"
      => exit[x] = "ok"

\* A node is completed or failed only after its SetTerminal.
StateOK ==
  \A x \in Slot :
    /\ state[x] \in {"completed", "failed"} => wpc[x] \in {"drop", "done"}
    /\ state[x] = "completed" => Published(x)

\* The artifact of a worker past PutArtifact is in its session's store.
StoredOK ==
  \A x \in Slot :
    wpc[x] \in {"free", "set", "drop", "done"}
      => artifacts[SessionOf[x[1]]][x[2]] # NoArtifact

\* A node that is in a snapshot, under dispatch or started has dependencies
\* whose success is published.
DepsOK ==
  \A w \in Wave : \A t \in Nodes[w] :
    t \in todo[w] \/ cur[w] = t \/ wpc[<<w, t>>] # "idle"
      => \A d \in DependsOn[t] : Published(<<w, d>>)

OrderInv == OutcomeOK /\ StateOK /\ StoredOK /\ DepsOK

\* What the control invariant says of the node a loop is dispatching.
LEMMA CurrentIdle ==
  ASSUME IndInv, NEW w \in Wave, NEW t \in Nodes[w], cur[w] = t,
         pc[w] \in {"register", "release", "run", "handle"}
  PROVE  wpc[<<w, t>>] = "idle" /\ t \in Task /\ <<w, t>> \in Slot
BY GraphAssumption DEF IndInv, ControlInv, CurrentOK, At, Slot

\* A published success stays published: only a node that is idle, or inside
\* its runner, gets a new exit code.
LEMMA PublishedStable ==
  ASSUME IndInv, [Next]_vars, NEW x \in Slot, Published(x)
  PROVE  Published(x)'
<1> USE DEF Published, IndInv, TypeInv, TypeOK
<1>1. CASE UNCHANGED vars
  BY <1>1 DEF vars, taskVars
<1>2. ASSUME NEW w \in Wave, StartStep(w) PROVE Published(x)'
  BY <1>2 DEF StartStep, StartRead, StartStore, StartCancelCtx,
     StartCancelWorkers, taskVars
<1>3. ASSUME NEW w \in Wave, LoopStep(w) PROVE Published(x)'
  <2>1. ASSUME NEW t \in Nodes[w], FailFast(w, t) \/ StartWorker(w, t)
        PROVE  Published(x)'
    <3>1. wpc[<<w, t>>] = "idle"
      BY <2>1, CurrentIdle DEF FailFast, StartWorker
    <3> QED BY <2>1, <3>1 DEF FailFast, StartWorker
  <2>2. CASE ~\E t \in Nodes[w] : FailFast(w, t) \/ StartWorker(w, t)
    BY <1>3, <2>2 DEF LoopStep, LoopSuperseded, LoopFinished, LoopCancelled,
       LoopSnapshot, LoopWait, LoopTick, FailFastReturn, ReleaseRejected,
       Acquire, SkipNoSlot, Register, Reject, SetRunning, taskVars
  <2> QED BY <2>1, <2>2
<1>4. ASSUME NEW w \in Wave, NEW t \in Nodes[w],
             \/ CompleteTask(w, t)
             \/ \E code \in {"ok", "error", "canceled"} :
                  WorkerReturn(w, t, code)
      PROVE  Published(x)'
  BY <1>4 DEF CompleteTask, PutArtifact, FreeSlot, SetTerminal, DropHandle,
     WorkerReturn
<1>5. ASSUME NEW w \in Wave, ClientStep(w) PROVE Published(x)'
  BY <1>5 DEF ClientStep, AbortStep, CallerCancel, AbortRead, AbortCtx,
     AbortWorkers, AbortPending, WaitReturn, CancelWorkerRead,
     CancelWorkerMark, taskVars
<1>6. ASSUME NEW s \in Session, CancelAll(s) PROVE Published(x)'
  BY <1>6 DEF CancelAll
<1> QED BY <1>1, <1>2, <1>3, <1>4, <1>5, <1>6 DEF Next, SchedulerStep

\* The initial state satisfies the order invariant: nothing has started.
LEMMA InitOrder == Init => OrderInv
<1> SUFFICES ASSUME Init PROVE OrderInv
  OBVIOUS
<1>0. \A x \in Slot : wpc[x] = "idle" /\ state[x] = "pending"
  BY DEF Init
<1>1. OutcomeOK /\ StateOK /\ StoredOK
  BY <1>0 DEF OutcomeOK, StateOK, StoredOK
<1>2. ASSUME NEW w \in Wave, NEW t \in Nodes[w]
      PROVE  t \notin todo[w] /\ cur[w] # t /\ wpc[<<w, t>>] = "idle"
  <2>1. t \in Task /\ <<w, t>> \in Slot
    BY GraphAssumption DEF Slot
  <2> QED BY <2>1, SetsAssumption DEF Init
<1> QED BY <1>1, <1>2 DEF OrderInv, DepsOK

\* What a step may do to a worker, its node and its artifact.
WorkerSteps(w, t) ==
  \/ FailFast(w, t) \/ StartWorker(w, t) \/ SetRunning(w, t)
  \/ CompleteTask(w, t)
  \/ \E code \in {"ok", "error", "canceled"} : WorkerReturn(w, t, code)
  \/ CancelWorkerMark(w, t)

\* Only these steps touch what the order invariant speaks of.
LEMMA TaskSteps ==
  ASSUME [Next]_vars
  PROVE  \/ UNCHANGED <<state, wpc, exit, terminal, artifacts>>
         \/ \E w \in Wave : \E t \in Nodes[w] : WorkerSteps(w, t)
         \/ \E w \in Wave : AbortPending(w)
<1> USE DEF taskVars
<1>1. CASE UNCHANGED vars
  BY <1>1 DEF vars
<1>2. ASSUME NEW w \in Wave, StartStep(w)
      PROVE  UNCHANGED <<state, wpc, exit, terminal, artifacts>>
  BY <1>2 DEF StartStep, StartRead, StartStore, StartCancelCtx,
     StartCancelWorkers
<1>3. ASSUME NEW w \in Wave, LoopStep(w)
      PROVE  \/ UNCHANGED <<state, wpc, exit, terminal, artifacts>>
             \/ \E t \in Nodes[w] : WorkerSteps(w, t)
  BY <1>3 DEF LoopStep, WorkerSteps, LoopSuperseded, LoopFinished,
     LoopCancelled, LoopSnapshot, LoopWait, LoopTick, FailFastReturn,
     ReleaseRejected, Acquire, SkipNoSlot, Register, Reject
<1>4. ASSUME NEW w \in Wave, ClientStep(w)
      PROVE  \/ UNCHANGED <<state, wpc, exit, terminal, artifacts>>
             \/ \E t \in Nodes[w] : WorkerSteps(w, t)
             \/ AbortPending(w)
  BY <1>4 DEF ClientStep, WorkerSteps, AbortStep, CallerCancel, AbortRead,
     AbortCtx, AbortWorkers, WaitReturn, CancelWorkerRead
<1>5. ASSUME NEW s \in Session, CancelAll(s)
      PROVE  UNCHANGED <<state, wpc, exit, terminal, artifacts>>
  BY <1>5 DEF CancelAll
<1> QED BY <1>1, <1>2, <1>3, <1>4, <1>5 DEF Next, SchedulerStep, WorkerSteps

\* The steps of one worker keep the order of artifact, slot and node state.
LEMMA WorkerOrder ==
  ASSUME IndInv, OrderInv, NEW w \in Wave, NEW t \in Nodes[w],
         WorkerSteps(w, t)
  PROVE  OutcomeOK' /\ StateOK' /\ StoredOK'
<1> DEFINE X == <<w, t>>
<1>0. X \in Slot /\ X[1] = w /\ X[2] = t /\ t \in Task /\ SessionOf[w] \in Session
  BY GraphAssumption DEF Slot
<1> USE <1>0 DEF IndInv, TypeInv, TypeOK, OrderInv, OutcomeOK, StateOK,
        StoredOK, Published
<1>1. CASE FailFast(w, t)
  <2>1. wpc[X] = "idle"
    BY <1>1, CurrentIdle DEF FailFast
  <2> QED BY <1>1, <2>1 DEF FailFast, TerminalFor
<1>2. CASE StartWorker(w, t)
  <2>1. wpc[X] = "idle"
    BY <1>2, CurrentIdle DEF StartWorker
  <2> QED BY <1>2, <2>1 DEF StartWorker
<1>3. CASE SetRunning(w, t)
  BY <1>3 DEF SetRunning
<1>4. CASE PutArtifact(w, t)
  <2>1. artifacts'[SessionOf[w]][t] # NoArtifact
    BY <1>4, SetsAssumption DEF PutArtifact, NoArtifact
  <2>2. \A x \in Slot : artifacts[SessionOf[x[1]]][x[2]] # NoArtifact
                          => artifacts'[SessionOf[x[1]]][x[2]] # NoArtifact
    BY <1>4, <2>1 DEF PutArtifact
  <2> QED BY <1>4, <2>1, <2>2 DEF PutArtifact
<1>5. CASE FreeSlot(w, t)
  BY <1>5 DEF FreeSlot
<1>6. CASE SetTerminal(w, t)
  BY <1>6 DEF SetTerminal
<1>7. CASE DropHandle(w, t)
  BY <1>7 DEF DropHandle
<1>8. ASSUME NEW code \in {"ok", "error", "canceled"}, WorkerReturn(w, t, code)
      PROVE  OutcomeOK' /\ StateOK' /\ StoredOK'
  BY <1>8 DEF WorkerReturn, TerminalFor
<1>9. CASE CancelWorkerMark(w, t)
  BY <1>9 DEF CancelWorkerMark
<1> QED BY <1>1, <1>2, <1>3, <1>4, <1>5, <1>6, <1>7, <1>8, <1>9
        DEF WorkerSteps, CompleteTask

\* A loop looks at a node only after it found its dependencies completed.
LEMMA NextDeps ==
  ASSUME IndInv, OrderInv, [Next]_vars
  PROVE  DepsOK'
<1> USE DEF taskVars
<1> DEFINE Deps(w, t) == \A d \in DependsOn[t] : Published(<<w, d>>)
           Seen(w, t) == t \in todo[w] \/ cur[w] = t \/ wpc[<<w, t>>] # "idle"
<1>1. ASSUME NEW w \in Wave, NEW t \in Nodes[w], Deps(w, t)
      PROVE  Deps(w, t)'
  <2>1. \A d \in DependsOn[t] : <<w, d>> \in Slot
    BY GraphAssumption DEF Slot
  <2> QED BY <1>1, <2>1, PublishedStable
<1>2. ASSUME NEW w \in Wave, NEW t \in Nodes[w], Seen(w, t)'
      PROVE  Seen(w, t) \/ (LoopSnapshot(w) /\ t \in ReadyNodes(w))
  <2>0. /\ t \in Task /\ t # NoTask /\ <<w, t>> \in Slot
        /\ cur \in [Wave -> Task \cup {NoTask}]
        /\ todo \in [Wave -> SUBSET Task] /\ wpc \in [Slot -> WPC]
        /\ \A v \in Wave : pc[v] \in {"register", "release", "run", "handle"}
                             => cur[v] \in Task
    BY GraphAssumption, SetsAssumption DEF Slot, IndInv, TypeInv, TypeOK,
       ControlInv, CursorOK
  <2>1. CASE UNCHANGED vars
    BY <1>2, <2>1 DEF vars, loopVars
  <2>2. ASSUME NEW v \in Wave, StartStep(v) PROVE Seen(w, t)
    BY <1>2, <2>2 DEF StartStep, StartRead, StartStore, StartCancelCtx,
       StartCancelWorkers
  <2>3. ASSUME NEW v \in Wave, LoopStep(v)
        PROVE  Seen(w, t) \/ (LoopSnapshot(w) /\ t \in ReadyNodes(w))
    <3>1. CASE LoopSnapshot(v)
      BY <1>2, <2>0, <3>1 DEF LoopSnapshot
    <3>2. ASSUME NEW u \in Nodes[v],
                 Acquire(v, u) \/ FailFast(v, u) \/ StartWorker(v, u)
          PROVE  Seen(w, t)
      <4>1. u \in Task /\ <<v, u>> \in Slot /\ v \in Wave
        BY GraphAssumption DEF Slot
      <4>2. CASE Acquire(v, u)
        BY <1>2, <2>0, <4>1, <4>2 DEF Acquire, NextReady
      <4>3. CASE FailFast(v, u)
        BY <1>2, <2>0, <4>1, <4>3 DEF FailFast
      <4>4. CASE StartWorker(v, u)
        BY <1>2, <2>0, <4>1, <4>4 DEF StartWorker
      <4> QED BY <3>2, <4>2, <4>3, <4>4
    <3>3. CASE ~LoopSnapshot(v)
               /\ ~\E u \in Nodes[v] :
                    Acquire(v, u) \/ FailFast(v, u) \/ StartWorker(v, u)
      BY <1>2, <2>0, <2>3, <3>3 DEF LoopStep, LoopSuperseded, LoopFinished,
         LoopCancelled, LoopWait, LoopTick, FailFastReturn, ReleaseRejected,
         SkipNoSlot, Register, Reject, SetRunning
    <3> QED BY <3>1, <3>2, <3>3
  <2>4. ASSUME NEW v \in Wave, NEW u \in Nodes[v],
               \/ CompleteTask(v, u)
               \/ \E code \in {"ok", "error", "canceled"} :
                    WorkerReturn(v, u, code)
        PROVE  Seen(w, t)
    BY <1>2, <2>0, <2>4 DEF CompleteTask, PutArtifact, FreeSlot, SetTerminal,
       DropHandle, WorkerReturn, loopVars
  <2>5. ASSUME NEW v \in Wave, ClientStep(v) PROVE Seen(w, t)
    BY <1>2, <2>5 DEF ClientStep, AbortStep, CallerCancel, AbortRead, AbortCtx,
       AbortWorkers, AbortPending, WaitReturn, CancelWorkerRead,
       CancelWorkerMark, loopVars
  <2>6. ASSUME NEW s \in Session, CancelAll(s) PROVE Seen(w, t)
    BY <1>2, <2>6 DEF CancelAll, loopVars
  <2> QED BY <2>1, <2>2, <2>3, <2>4, <2>5, <2>6 DEF Next, SchedulerStep
<1>3. ASSUME NEW w \in Wave, NEW t \in ReadyNodes(w) PROVE Deps(w, t)
  <2>1. \A d \in DependsOn[t] : <<w, d>> \in Slot /\ state[<<w, d>>] = "completed"
    BY GraphAssumption DEF ReadyNodes, Slot
  <2> QED BY <2>1 DEF OrderInv, StateOK
<1>4. \A w \in Wave : \A t \in Nodes[w] : Seen(w, t) => Deps(w, t)
  BY DEF OrderInv, DepsOK
<1> QED BY <1>1, <1>2, <1>3, <1>4 DEF DepsOK

\* The order invariant is preserved by every step.
LEMMA NextOrder == IndInv /\ OrderInv /\ [Next]_vars => OrderInv'
<1> SUFFICES ASSUME IndInv, OrderInv, [Next]_vars PROVE OrderInv'
  OBVIOUS
<1>1. DepsOK'
  BY NextDeps
<1>2. CASE UNCHANGED <<state, wpc, exit, terminal, artifacts>>
  BY <1>1, <1>2 DEF OrderInv, OutcomeOK, StateOK, StoredOK, Published
<1>3. ASSUME NEW w \in Wave, NEW t \in Nodes[w], WorkerSteps(w, t)
      PROVE  OrderInv'
  BY <1>1, <1>3, WorkerOrder DEF OrderInv
<1>4. ASSUME NEW w \in Wave, AbortPending(w) PROVE OrderInv'
  BY <1>1, <1>4 DEF AbortPending, OrderInv, OutcomeOK, StateOK, StoredOK,
     Published
<1> QED BY <1>2, <1>3, <1>4, TaskSteps

\* The order invariant holds along every behaviour, with the control invariant.
LEMMA InductiveOrder == Spec => [](IndInv /\ OrderInv)
<1>1. IndInv /\ [Next]_vars => IndInv'
  BY NextType, NextControl, NextConflict, NextCapacity DEF IndInv
<1> QED BY <1>1, InitInd, InitOrder, NextOrder, PTL DEF Spec

\* No task starts, or fails fast, before the success of each of its
\* dependencies is published: a loop trusts a snapshot it took earlier, and a
\* CancelWorker that overwrites a node's state in between changes nothing.
THEOREM OrderedByDependency == Spec => []DependenciesFirst
<1>1. OrderInv => DependenciesFirst
  BY DEF OrderInv, DepsOK, Published, DependenciesFirst
<1> QED BY <1>1, InductiveOrder, PTL

\* A node seen completed or failed has its artifact in the session's store.
THEOREM ResultStored == Spec => []ResultBeforeState
<1>1. OrderInv => ResultBeforeState
  BY DEF OrderInv, StateOK, StoredOK, ResultBeforeState
<1> QED BY <1>1, InductiveOrder, PTL

-----------------------------------------------------------------------------
(* Refinement: the scheduler keeps the promise of ExclusiveSlots            *)

\* A node is dispatched once: StartWorker, the only step into the runner, is
\* taken for a node that has never begun.
THEOREM DispatchedOnce == Spec => StartedOnce
<1>1. ASSUME IndInv, [Next]_vars, NEW x \in Slot, wpc[x] # "idle", wpc[x] # "run"
      PROVE  wpc'[x] # "run"
  <2> USE <1>1 DEF IndInv, TypeInv, TypeOK
  <2>1. CASE UNCHANGED <<state, wpc, exit, terminal, artifacts>>
    BY <2>1
  <2>2. ASSUME NEW w \in Wave, NEW t \in Nodes[w], WorkerSteps(w, t)
        PROVE  wpc'[x] # "run"
    <3>1. CASE StartWorker(w, t)
      <4>1. wpc[<<w, t>>] = "idle"
        BY <3>1, CurrentIdle DEF StartWorker
      <4> QED BY <3>1, <4>1 DEF StartWorker
    <3>2. CASE ~StartWorker(w, t)
      BY <2>2, <3>2 DEF WorkerSteps, FailFast, SetRunning, CompleteTask,
         PutArtifact, FreeSlot, SetTerminal, DropHandle, WorkerReturn,
         CancelWorkerMark
    <3> QED BY <3>1, <3>2
  <2>3. ASSUME NEW w \in Wave, AbortPending(w) PROVE wpc'[x] # "run"
    BY <2>3 DEF AbortPending
  <2> QED BY <2>1, <2>2, <2>3, TaskSteps
<1>2. IndInv /\ [Next]_vars
        => [\A x \in Slot : wpc[x] # "idle" /\ wpc[x] # "run"
                               => wpc'[x] # "run"]_vars
  BY <1>1
<1> QED BY <1>2, Inductive, PTL DEF Spec, StartedOnce

\* The slots that have begun, as Promise sees them.
Begun == {x \in Slot : wpc[x] # "idle"} \cup running

\* The scheduler is abstractly idle at first.
LEMMA InitPromise == Init => Promise!Init
BY DEF Init, Promise!Init

\* AllowAndRegister is the abstract Begin: the pool slot taken before makes
\* room, the guard has no conflict, and the node has never begun.
LEMMA RegisterBegins ==
  ASSUME IndInv, NEW w \in Wave, NEW t \in Nodes[w], Register(w, t)
  PROVE  Promise!Begin(<<w, t>>)
<1> DEFINE X == <<w, t>>
           k == TypeOf[t]
           Active == {y \in running : TypeOf[y[2]] = k}
<1>1. X \in Slot /\ wpc[X] = "idle" /\ t \in Task /\ k \in Type
  BY CurrentIdle, GraphAssumption DEF Register
<1>2. X \in owners /\ X \notin running
  BY <1>1 DEF Register, IndInv, ControlInv, OwnerOK, GuardOK, At
<1>3. Promise!Room(TypeOf[X[2]])
  <2>1. Active \subseteq InUse(k) \ {X}
    BY <1>2 DEF IndInv, TypeInv, TypeOK, ControlInv, OwnerOK, GuardOK, InUse, At
  <2>2. IsFiniteSet(InUse(k)) /\ Cardinality(InUse(k)) <= Capacity[k]
    BY <1>1, OwnersFinite DEF IndInv, CapacityOK
  <2>3. X \in InUse(k)
    BY <1>2 DEF InUse
  <2>4. /\ Cardinality(InUse(k) \ {X}) = Cardinality(InUse(k)) - 1
        /\ IsFiniteSet(InUse(k) \ {X})
    BY <2>2, <2>3, FS_RemoveElement
  <2>5. Cardinality(Active) <= Cardinality(InUse(k) \ {X})
    BY <2>1, <2>4, FS_Subset
  <2>6. /\ Cardinality(Active) \in Nat /\ Cardinality(InUse(k)) \in Nat
        /\ Capacity[k] \in Nat
    BY <1>1, <2>1, <2>2, <2>4, FS_Subset, FS_CardinalityType, PoolAssumption
  <2>7. Cardinality(Active) < Capacity[k]
    BY <2>2, <2>4, <2>5, <2>6
  <2> QED BY <2>7 DEF Promise!Room, Promise!Cardinality, Cardinality
<1>4. \A y \in running : ~ConflictBetween(X[2], y[2])
  BY DEF Register, Allowed
<1>5. running' = running \cup {X} /\ Begun' = Begun \cup {X} /\ X \notin Begun
  BY <1>1, <1>2 DEF Register, Begun, taskVars
<1> QED BY <1>3, <1>4, <1>5 DEF Promise!Begin, Begun

\* Failing fast is the abstract Refuse; giving a registered slot back is the
\* abstract End; every other step leaves both sets alone.
LEMMA StepPromise ==
  ASSUME IndInv, [Next]_vars
  PROVE  [Promise!Next]_<<running, Begun>>
<1> USE DEF IndInv, TypeInv, TypeOK, Begun
<1>1. CASE UNCHANGED <<running, wpc>>
  BY <1>1
<1>2. ASSUME NEW w \in Wave, NEW t \in Nodes[w], Register(w, t)
      PROVE  Promise!Next
  BY <1>2, RegisterBegins, GraphAssumption DEF Promise!Next
<1>3. ASSUME NEW w \in Wave, NEW t \in Nodes[w], FailFast(w, t)
      PROVE  Promise!Next
  <2>1. <<w, t>> \in Slot /\ wpc[<<w, t>>] = "idle" /\ <<w, t>> \notin running
    BY <1>3, CurrentIdle DEF FailFast, ControlInv, GuardOK, At
  <2>2. /\ running' = running /\ <<w, t>> \notin Begun
        /\ \A x \in Slot : wpc'[x] # "idle" <=> wpc[x] # "idle" \/ x = <<w, t>>
    BY <1>3, <2>1 DEF FailFast, slotVars
  <2>3. Begun' = Begun \cup {<<w, t>>}
    BY <2>1, <2>2
  <2>4. Promise!Refuse(<<w, t>>)
    BY <2>2, <2>3 DEF Promise!Refuse
  <2> QED BY <2>1, <2>4 DEF Promise!Next, Slot
<1>4. ASSUME NEW w \in Wave, NEW t \in Nodes[w], StartWorker(w, t)
      PROVE  UNCHANGED <<running, Begun>>
  <2>1. <<w, t>> \in Slot /\ wpc[<<w, t>>] = "idle" /\ <<w, t>> \in running
    BY <1>4, CurrentIdle DEF StartWorker, ControlInv, GuardOK, At
  <2> QED BY <1>4, <2>1 DEF StartWorker, slotVars
<1>5. ASSUME NEW w \in Wave, NEW t \in Nodes[w], FreeSlot(w, t)
      PROVE  Promise!Next \/ UNCHANGED <<running, Begun>>
  <2>1. <<w, t>> \in Slot /\ wpc[<<w, t>>] = "free"
    BY <1>5, GraphAssumption DEF FreeSlot, Slot
  <2>2. running' = running \ {<<w, t>>} /\ Begun' = Begun
    BY <1>5, <2>1 DEF FreeSlot
  <2>3. CASE <<w, t>> \in running
    BY <2>1, <2>2, <2>3 DEF Promise!End, Promise!Next, Slot
  <2> QED BY <2>2, <2>3
<1>6. ASSUME NEW w \in Wave, NEW t \in Nodes[w],
             \/ PutArtifact(w, t) \/ SetTerminal(w, t) \/ DropHandle(w, t)
             \/ \E code \in {"ok", "error", "canceled"} :
                  WorkerReturn(w, t, code)
      PROVE  UNCHANGED <<running, Begun>>
  <2>1. <<w, t>> \in Slot
    BY GraphAssumption DEF Slot
  <2>2. /\ running' = running
        /\ \A x \in Slot : wpc'[x] # "idle" <=> wpc[x] # "idle"
    BY <1>6, <2>1 DEF PutArtifact, SetTerminal, DropHandle, WorkerReturn,
       slotVars
  <2> QED BY <2>2
<1>7. \/ UNCHANGED <<running, wpc>>
      \/ \E w \in Wave : \E t \in Nodes[w] :
           \/ Register(w, t) \/ FailFast(w, t) \/ StartWorker(w, t)
           \/ CompleteTask(w, t)
           \/ \E code \in {"ok", "error", "canceled"} : WorkerReturn(w, t, code)
  <2> USE DEF taskVars, slotVars
  <2>1. CASE UNCHANGED vars
    BY <2>1 DEF vars
  <2>2. ASSUME NEW w \in Wave, StartStep(w) PROVE UNCHANGED <<running, wpc>>
    BY <2>2 DEF StartStep, StartRead, StartStore, StartCancelCtx,
       StartCancelWorkers
  <2>3. ASSUME NEW w \in Wave, LoopStep(w)
        PROVE  \/ UNCHANGED <<running, wpc>>
               \/ \E t \in Nodes[w] :
                    Register(w, t) \/ FailFast(w, t) \/ StartWorker(w, t)
    BY <2>3 DEF LoopStep, LoopSuperseded, LoopFinished, LoopCancelled,
       LoopSnapshot, LoopWait, LoopTick, FailFastReturn, ReleaseRejected,
       Acquire, SkipNoSlot, Reject, SetRunning
  <2>4. ASSUME NEW w \in Wave, ClientStep(w) PROVE UNCHANGED <<running, wpc>>
    BY <2>4 DEF ClientStep, AbortStep, CallerCancel, AbortRead, AbortCtx,
       AbortWorkers, AbortPending, WaitReturn, CancelWorkerRead,
       CancelWorkerMark
  <2>5. ASSUME NEW s \in Session, CancelAll(s) PROVE UNCHANGED <<running, wpc>>
    BY <2>5 DEF CancelAll
  <2> QED BY <2>1, <2>2, <2>3, <2>4, <2>5 DEF Next, SchedulerStep
<1> QED BY <1>1, <1>2, <1>3, <1>4, <1>5, <1>6, <1>7 DEF CompleteTask

\* The scheduler implements ExclusiveSlots: whatever waves replace, abort and
\* outlive each other, a task begins once, with room in its pool and the
\* guard's consent, and is active until its worker has returned.
THEOREM KeepsPromise == Spec => Exclusive
<1>1. IndInv /\ [Next]_vars => [Promise!Next]_<<running, Begun>>
  BY StepPromise
<1>2. Init => Promise!Init
  BY InitPromise
<1> QED BY <1>1, <1>2, Inductive, PTL DEF Spec, Exclusive, Promise!Spec, Begun
=============================================================================
