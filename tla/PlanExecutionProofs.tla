------------------------ MODULE PlanExecutionProofs ------------------------
(***************************************************************************)
(* Theorems about DAGExecutor and PlanExecution: they drive the scheduler   *)
(* as WaveScheduler allows, and what the channel carries, for every plan    *)
(* and every number of waves; the rows of a finished wave and the verdict   *)
(* built from them, when the wave is alone in its session and nobody stops  *)
(* single workers.                                                          *)
(***************************************************************************)
EXTENDS PlanExecution, WaveSchedulerProofs, SequenceTheorems

-----------------------------------------------------------------------------
(* Composition: every step of the executor is one the scheduler allows      *)

\* The consumer's steps that change nothing but its own variables.
OwnStep(w) ==
  \/ SpawnConsumer(w) \/ Tick(w) \/ CallerDone(w)
  \/ CheckFailure(w) \/ CheckTerminal(w) \/ Redrain(w) \/ EmitFinal(w)
  \/ AbortReturned(w) \/ Rescan(w) \/ AbortClose(w)
  \/ \E t \in Nodes[w] : WalkNode(w, t)

\* The steps of the scheduler the executor causes or lets happen.
BelowStep(w) ==
  \/ SchedulerStep(w)
  \/ cpc[w] = "abort" /\ (AbortRead(w) \/ AbortStep(w))
  \/ \E t \in Nodes[w] : CancelWorkerRead(w, t) \/ CancelWorkerMark(w, t)

\* A step belongs to the consumer or to the scheduler, or the caller goes.
LEMMA StepKinds ==
  ASSUME [DagNext]_allVars
  PROVE  \/ UNCHANGED allVars
         \/ \E w \in Wave : OwnStep(w) /\ UNCHANGED vars
         \/ \E w \in Wave : BelowStep(w) /\ UNCHANGED dagVars
         \/ \E w \in Wave : CallerGone(w)
<1>1. ASSUME NEW w \in Wave, ConsumerStep(w)
      PROVE  \/ OwnStep(w) /\ UNCHANGED vars
             \/ BelowStep(w) /\ UNCHANGED dagVars
  <2>1. CASE AbortBegin(w) \/ AbortContinue(w)
    BY <2>1 DEF AbortBegin, AbortContinue, BelowStep
  <2>2. CASE \E t \in Nodes[w] : WalkNode(w, t)
    BY <2>2 DEF WalkNode, OwnStep
  <2>3. CASE Tick(w) \/ CallerDone(w) \/ Redrain(w) \/ Rescan(w)
    BY <2>3 DEF Tick, CallerDone, Redrain, Rescan, OwnStep
  <2>4. CASE SpawnConsumer(w) \/ CheckFailure(w) \/ CheckTerminal(w)
               \/ AbortReturned(w) \/ AbortClose(w) \/ EmitFinal(w)
    BY <2>4 DEF SpawnConsumer, CheckFailure, CheckTerminal, AbortReturned,
       AbortClose, EmitFinal, OwnStep
  <2> QED BY <1>1, <2>1, <2>2, <2>3, <2>4 DEF ConsumerStep
<1>2. ASSUME NEW w \in Wave,
             \/ SchedulerStep(w) /\ UNCHANGED dagVars
             \/ \E t \in Nodes[w] :
                  /\ CancelWorkerRead(w, t) \/ CancelWorkerMark(w, t)
                  /\ UNCHANGED dagVars
      PROVE  BelowStep(w) /\ UNCHANGED dagVars
  BY <1>2 DEF BelowStep
<1> QED BY <1>1, <1>2 DEF DagNext

\* A step of the executor is a step of the scheduler or a stutter.
LEMMA SchedulerSees ==
  ASSUME [DagNext]_allVars
  PROVE  [Next]_vars
<1>1. CASE UNCHANGED vars
  BY <1>1
<1>2. ASSUME NEW w \in Wave, BelowStep(w) PROVE Next
  BY <1>2 DEF BelowStep, Next, ClientStep
<1>3. ASSUME NEW w \in Wave, CallerGone(w) PROVE [Next]_vars
  <2>1. CASE w \in ctxErr
    BY <1>3, <2>1 DEF CallerGone, vars, loopVars
  <2>2. CASE w \notin ctxErr
    BY <1>3, <2>2 DEF CallerGone, CallerCancel, ClientStep, Next
  <2> QED BY <2>1, <2>2
<1> QED BY <1>1, <1>2, <1>3, StepKinds DEF allVars

\* Under RunPlanDAG and its consumer the scheduler behaves as WaveScheduler
\* says: the theorems about it hold of the composition.
THEOREM RunsScheduler == DagSpec => Spec
<1>1. DagInit => Init
  BY DEF DagInit
<1>2. [DagNext]_allVars => [Next]_vars
  BY SchedulerSees
<1> QED BY <1>1, <1>2, PTL DEF DagSpec, Spec

\* The invariants of the scheduler, under the executor.
LEMMA SchedulerInv == DagSpec => [](IndInv /\ OrderInv)
BY RunsScheduler, InductiveOrder, PTL

-----------------------------------------------------------------------------
(* Type correctness of the consumer                                         *)

\* A worker that has returned has an exit code, and so has every artifact.
ExitOK ==
  /\ \A x \in Slot : wpc[x] \in {"put", "free", "set", "drop", "done"}
                       => exit[x] # "none"
  /\ \A s \in Session : \A t \in Task :
       artifacts[s][t] # NoArtifact => artifacts[s][t].exit # "none"

\* Exit codes are chosen before an artifact is built from them.
LEMMA NextExit ==
  ASSUME IndInv, ExitOK, [Next]_vars
  PROVE  ExitOK'
<1> USE DEF IndInv, TypeInv, TypeOK, ExitOK
<1>1. CASE UNCHANGED <<state, wpc, exit, terminal, artifacts>>
  BY <1>1
<1>2. ASSUME NEW w \in Wave, AbortPending(w) PROVE ExitOK'
  BY <1>2 DEF AbortPending
<1>3. ASSUME NEW w \in Wave, NEW t \in Nodes[w], WorkerSteps(w, t)
      PROVE  ExitOK'
  <2>0. <<w, t>> \in Slot /\ t \in Task /\ SessionOf[w] \in Session
    BY GraphAssumption DEF Slot
  <2>1. CASE PutArtifact(w, t)
    <3>1. exit[<<w, t>>] # "none"
      BY <2>0, <2>1 DEF PutArtifact
    <3> QED BY <2>0, <2>1, <3>1 DEF PutArtifact
  <2>2. CASE FailFast(w, t)
    BY <2>0, <2>2 DEF FailFast
  <2>3. CASE StartWorker(w, t)
    BY <2>0, <2>3 DEF StartWorker
  <2>4. CASE SetRunning(w, t) \/ CancelWorkerMark(w, t)
    BY <2>0, <2>4 DEF SetRunning, CancelWorkerMark
  <2>5. CASE FreeSlot(w, t) \/ SetTerminal(w, t) \/ DropHandle(w, t)
    BY <2>0, <2>5 DEF FreeSlot, SetTerminal, DropHandle
  <2>6. ASSUME NEW code \in {"ok", "error", "canceled"},
               WorkerReturn(w, t, code)
        PROVE  ExitOK'
    BY <2>0, <2>6 DEF WorkerReturn
  <2> QED BY <1>3, <2>1, <2>2, <2>3, <2>4, <2>5, <2>6
          DEF WorkerSteps, CompleteTask
<1> QED BY <1>1, <1>2, <1>3, TaskSteps

\* The consumer's own variables are well typed.
ConsumerOK ==
  /\ cpc \in [Wave -> CPC]
  /\ callerErr \subseteq Wave
  /\ emitted \in [Wave -> SUBSET Task]
  /\ failedIDs \in [Wave -> SUBSET Task]
  /\ unwalked \in [Wave -> SUBSET Task]
  /\ out \in [Wave -> Seq(SegmentEmit)]

\* A permutation of a finite set lists each of its elements once.
LEMMA Permutation ==
  ASSUME NEW S, IsFiniteSet(S), NEW order \in SetToSeqs(S)
  PROVE  /\ order \in Seq(S)
         /\ Len(order) = Cardinality(S) /\ Len(order) \in Nat
         /\ DOMAIN order = 1 .. Len(order)
         /\ \A i, j \in 1 .. Len(order) : i # j => order[i] # order[j]
         /\ \A x \in S : \E i \in 1 .. Len(order) : order[i] = x
<1> DEFINE n == Cardinality(S)
<1>1. n \in Nat
  BY FS_CardinalityType
<1>2. order \in [1 .. n -> S] /\ \A i, j \in 1 .. n : i # j => order[i] # order[j]
  BY DEF SetToSeqs
<1>3. order \in Seq(S) /\ Len(order) = n /\ DOMAIN order = 1 .. n
  BY <1>1, <1>2, SeqDef
<1>4. \A x \in S : \E i \in 1 .. n : order[i] = x
  <2>1. order \in Injection(1 .. n, S)
    BY <1>2 DEF Injection, IsInjective
  <2>2. IsFiniteSet(1 .. n) /\ Cardinality(1 .. n) = n
    BY <1>1, FS_Interval
  <2>3. order \in Surjection(1 .. n, S)
    BY <2>1, <2>2, FS_Injection
  <2> QED BY <2>3 DEF Surjection
<1> QED BY <1>1, <1>2, <1>3, <1>4

\* The tasks of some rows, and rows that are sent to a wave's channel.
TasksOf(rows) == {rows[i].task : i \in DOMAIN rows}

Sends(w, rows) ==
  /\ out' = [out EXCEPT ![w] = @ \o rows]
  /\ emitted' = [emitted EXCEPT ![w] = @ \cup TasksOf(rows)]

\* A row that repeats the outcome of an artifact of the session.
Truthful(w, row) ==
  /\ artifacts[SessionOf[w]][row.task] # NoArtifact
  /\ row.exit = artifacts[SessionOf[w]][row.task].exit

\* Drain sends one regular row for each new terminal task.
LEMMA DrainSends ==
  ASSUME IndInv, ExitOK, ConsumerOK, NEW w \in Wave, Drain(w)
  PROVE  \E rows \in Seq(SegmentEmit) :
           /\ Sends(w, rows)
           /\ TasksOf(rows) = NewTerminals(w)
           /\ \A i \in DOMAIN rows : ~rows[i].final /\ Truthful(w, rows[i])
           /\ \A i, j \in DOMAIN rows : i # j => rows[i].task # rows[j].task
<1> DEFINE new == NewTerminals(w)
           art(t) == artifacts[SessionOf[w]][t]
<1>1. IsFiniteSet(new)
  BY SetsAssumption, FS_Subset DEF NewTerminals
<1>2. PICK order \in SetToSeqs(new) :
        out' = [out EXCEPT ![w] = @ \o
                  [i \in DOMAIN order |->
                     ArtifactToEmit(order[i], art(order[i]), FALSE)]]
  BY DEF Drain
<1> DEFINE rows == [i \in DOMAIN order |->
                      ArtifactToEmit(order[i], art(order[i]), FALSE)]
<1> HIDE DEF new
<1>3. /\ order \in Seq(new) /\ Len(order) \in Nat
      /\ DOMAIN order = 1 .. Len(order)
      /\ \A i \in 1 .. Len(order) : order[i] \in new
      /\ \A i, j \in 1 .. Len(order) : i # j => order[i] # order[j]
      /\ \A x \in new : \E i \in 1 .. Len(order) : order[i] = x
  BY <1>1, Permutation, ElementOfSeq
<1>4. ASSUME NEW t \in new
      PROVE  ArtifactToEmit(t, art(t), FALSE) \in SegmentEmit
  <2>1. t \in Task /\ SessionOf[w] \in Session /\ art(t) # NoArtifact
    BY GraphAssumption DEF new, NewTerminals
  <2>2. art(t) \in Artifact /\ art(t).exit # "none"
    BY <2>1 DEF ExitOK, IndInv, TypeInv, TypeOK
  <2> QED BY <2>1, <2>2 DEF ArtifactToEmit, SegmentEmit, Artifact
<1>5. rows \in [1 .. Len(order) -> SegmentEmit]
  BY <1>3, <1>4
<1>6. \A i \in 1 .. Len(order) : /\ rows[i].task = order[i] /\ ~rows[i].final
                                   /\ Truthful(w, rows[i])
  BY <1>3 DEF ArtifactToEmit, Truthful, new, NewTerminals
<1>7. out' = [out EXCEPT ![w] = @ \o rows]
  BY <1>2
<1> HIDE DEF rows
<1>8. rows \in Seq(SegmentEmit) /\ DOMAIN rows = 1 .. Len(order)
  BY <1>3, <1>5, SeqDef
<1>9. TasksOf(rows) = new
  BY <1>3, <1>6, <1>8 DEF TasksOf
<1>10. Sends(w, rows)
  BY <1>7, <1>9 DEF Sends, Drain, new
<1> QED BY <1>3, <1>6, <1>8, <1>9, <1>10 DEF new

\* Regular rows of tasks not sent before, each once.
Fresh(w, rows) ==
  /\ \A i \in DOMAIN rows : ~rows[i].final /\ rows[i].task \notin emitted[w]
  /\ \A i, j \in DOMAIN rows : i # j => rows[i].task # rows[j].task

\* What a step of the consumer does to its channel: a row that is not made from
\* an artifact is a cancel row of the walk.
SendsRegular(w) ==
  \E rows \in Seq(SegmentEmit) :
    /\ Sends(w, rows) /\ Fresh(w, rows)
    /\ \/ \A i \in DOMAIN rows : Truthful(w, rows[i])
       \/ cpc[w] = "walk" /\ \A i \in DOMAIN rows : rows[i].exit = "canceled"

SendsFinal(w) ==
  /\ cpc[w] = "final" /\ cpc'[w] = "closed"
  /\ \E row \in SegmentEmit :
       row.final /\ Truthful(w, row) /\ Sends(w, <<row>>)

\* A row of one message is a sequence of rows.
LEMMA OneRow ==
  ASSUME NEW row \in SegmentEmit
  PROVE  /\ <<row>> \in Seq(SegmentEmit)
         /\ DOMAIN <<row>> = {1} /\ <<row>>[1] = row
         /\ TasksOf(<<row>>) = {row.task}
<1>1. <<row>> \in Seq(SegmentEmit) /\ DOMAIN <<row>> = {1} /\ <<row>>[1] = row
  BY DEF SegmentEmit
<1> QED BY <1>1 DEF TasksOf

\* The consumer sends fresh regular rows, or the final row, or nothing.
LEMMA OwnSends ==
  ASSUME IndInv, ExitOK, ConsumerOK, NEW w \in Wave, OwnStep(w)
  PROVE  /\ cpc[w] # "closed"
         /\ \A v \in Wave \ {w} : cpc'[v] = cpc[v]
         /\ \/ UNCHANGED <<emitted, out>>
            \/ SendsRegular(w) \/ SendsFinal(w)
<1>0. out[w] \in Seq(SegmentEmit)
  BY DEF ConsumerOK
<1> USE DEF ConsumerOK
<1>1. ASSUME Drain(w) PROVE SendsRegular(w)
  <2>1. PICK rows \in Seq(SegmentEmit) :
           /\ Sends(w, rows)
           /\ TasksOf(rows) = NewTerminals(w)
           /\ \A i \in DOMAIN rows : ~rows[i].final /\ Truthful(w, rows[i])
           /\ \A i, j \in DOMAIN rows : i # j => rows[i].task # rows[j].task
    BY <1>1, DrainSends
  <2>2. \A i \in DOMAIN rows : rows[i].task \notin emitted[w]
    BY <2>1 DEF TasksOf, NewTerminals
  <2> QED BY <2>1, <2>2 DEF SendsRegular, Fresh
<1>2. CASE Tick(w) \/ CallerDone(w) \/ Redrain(w) \/ Rescan(w)
  BY <1>1, <1>2 DEF Tick, CallerDone, Redrain, Rescan
<1>3. CASE SpawnConsumer(w) \/ CheckFailure(w) \/ CheckTerminal(w)
             \/ AbortReturned(w) \/ AbortClose(w)
  BY <1>3 DEF SpawnConsumer, CheckFailure, CheckTerminal, AbortReturned,
     AbortClose
<1>4. CASE EmitFinal(w)
  <2>1. ASSUME NEW t \in FinalCandidates(w),
               emitted' = [emitted EXCEPT ![w] = @ \cup {t}],
               out' = [out EXCEPT ![w] = Append(@,
                 ArtifactToEmit(t, artifacts[SessionOf[w]][t], TRUE))]
        PROVE  \E row \in SegmentEmit :
                 row.final /\ Truthful(w, row) /\ Sends(w, <<row>>)
    <3> DEFINE art == artifacts[SessionOf[w]][t]
               row == ArtifactToEmit(t, art, TRUE)
    <3>1. t \in Task /\ SessionOf[w] \in Session /\ art # NoArtifact
      BY GraphAssumption DEF FinalCandidates
    <3>2. art \in Artifact /\ art.exit # "none"
      BY <3>1 DEF ExitOK, IndInv, TypeInv, TypeOK
    <3>3. row \in SegmentEmit /\ row.task = t /\ row.final /\ Truthful(w, row)
      BY <3>1, <3>2 DEF ArtifactToEmit, SegmentEmit, Artifact, Truthful
    <3>4. Append(out[w], row) = out[w] \o <<row>>
      BY <1>0, <3>3, AppendIsConcat
    <3> HIDE DEF row
    <3> QED BY <2>1, <3>3, <3>4, OneRow DEF Sends, row
  <2> QED BY <1>4, <2>1 DEF EmitFinal, SendsFinal
<1>5. ASSUME NEW t \in Nodes[w], WalkNode(w, t)
      PROVE  /\ cpc[w] # "closed"
             /\ \A v \in Wave \ {w} : cpc'[v] = cpc[v]
             /\ UNCHANGED <<emitted, out>> \/ SendsRegular(w)
  <2>1. CASE NeedsCancelRow(w, t)
    <3> DEFINE row == CancelRow(t)
    <3>1. t \in Task
      BY GraphAssumption
    <3>2. row \in SegmentEmit /\ row.task = t /\ ~row.final
          /\ row.exit = "canceled"
      BY <3>1 DEF CancelRow, SegmentEmit, ExitCode
    <3>3. /\ emitted' = [emitted EXCEPT ![w] = @ \cup {t}]
          /\ out' = [out EXCEPT ![w] = Append(@, row)]
          /\ t \notin emitted[w]
      BY <1>5, <2>1 DEF WalkNode, NeedsCancelRow
    <3>4. Append(out[w], row) = out[w] \o <<row>>
      BY <1>0, <3>2, AppendIsConcat
    <3> HIDE DEF row
    <3>5. Sends(w, <<row>>) /\ Fresh(w, <<row>>)
      BY <3>2, <3>3, <3>4, OneRow DEF Sends, Fresh
    <3>6. \A i \in DOMAIN <<row>> : <<row>>[i].exit = "canceled"
      BY <3>2, OneRow
    <3>7. <<row>> \in Seq(SegmentEmit) /\ cpc[w] = "walk" /\ cpc' = cpc
      BY <1>5, <3>2, OneRow DEF WalkNode
    <3>8. SendsRegular(w)
      BY <3>5, <3>6, <3>7 DEF SendsRegular
    <3> QED BY <3>7, <3>8
  <2>2. CASE ~NeedsCancelRow(w, t)
    BY <1>5, <2>2 DEF WalkNode
  <2> QED BY <2>1, <2>2
<1> QED BY <1>2, <1>3, <1>4, <1>5 DEF OwnStep

\* What is in a channel after rows were sent to it.
LEMMA SentRows ==
  ASSUME ConsumerOK, NEW w \in Wave, NEW rows \in Seq(SegmentEmit),
         Sends(w, rows)
  PROVE  /\ out' \in [Wave -> Seq(SegmentEmit)]
         /\ emitted' \in [Wave -> SUBSET Task]
         /\ \A v \in Wave \ {w} : out'[v] = out[v] /\ emitted'[v] = emitted[v]
         /\ emitted'[w] = emitted[w] \cup TasksOf(rows)
         /\ \A i \in DOMAIN out[w] :
              i \in DOMAIN out'[w] /\ out'[w][i] = out[w][i]
         /\ \A i \in DOMAIN rows :
              /\ i + Len(out[w]) \in DOMAIN out'[w]
              /\ out'[w][i + Len(out[w])] = rows[i]
         /\ \A i \in DOMAIN out'[w] :
              \/ i \in DOMAIN out[w]
              \/ i - Len(out[w]) \in DOMAIN rows
<1>1. /\ out[w] \in Seq(SegmentEmit)
      /\ Len(out[w]) \in Nat /\ DOMAIN out[w] = 1 .. Len(out[w])
      /\ Len(rows) \in Nat /\ DOMAIN rows = 1 .. Len(rows)
  BY LenProperties DEF ConsumerOK
<1>2. /\ out'[w] = out[w] \o rows /\ out'[w] \in Seq(SegmentEmit)
      /\ DOMAIN out'[w] = 1 .. Len(out[w]) + Len(rows)
      /\ \A i \in 1 .. Len(out[w]) + Len(rows) :
           out'[w][i] = IF i <= Len(out[w]) THEN out[w][i]
                        ELSE rows[i - Len(out[w])]
  <2>1. out'[w] = out[w] \o rows
    BY DEF Sends, ConsumerOK
  <2>2. out'[w] \in Seq(SegmentEmit) /\ Len(out'[w]) = Len(out[w]) + Len(rows)
    BY <1>1, <2>1, ConcatProperties
  <2>3. \A i \in 1 .. Len(out[w]) + Len(rows) :
           out'[w][i] = IF i <= Len(out[w]) THEN out[w][i]
                        ELSE rows[i - Len(out[w])]
    BY <1>1, <2>1, ConcatProperties
  <2> QED BY <2>1, <2>2, <2>3, LenProperties
<1>3. out' \in [Wave -> Seq(SegmentEmit)]
  <2> DEFINE longer == out[w] \o rows
  <2>1. out' = [out EXCEPT ![w] = longer] /\ longer \in Seq(SegmentEmit)
    BY <1>2 DEF Sends
  <2> HIDE DEF longer
  <2> QED BY <2>1 DEF ConsumerOK
<1>4. TasksOf(rows) \subseteq Task
  <2>1. \A i \in DOMAIN rows : rows[i] \in SegmentEmit
    BY <1>1, ElementOfSeq
  <2>2. \A row \in SegmentEmit : row.task \in Task
    BY DEF SegmentEmit
  <2> QED BY <2>1, <2>2 DEF TasksOf
<1>5. /\ emitted' \in [Wave -> SUBSET Task]
      /\ emitted'[w] = emitted[w] \cup TasksOf(rows)
      /\ \A v \in Wave \ {w} : out'[v] = out[v] /\ emitted'[v] = emitted[v]
  BY <1>4 DEF Sends, ConsumerOK
<1>6. ASSUME NEW i \in DOMAIN rows
      PROVE  /\ i + Len(out[w]) \in DOMAIN out'[w]
             /\ out'[w][i + Len(out[w])] = rows[i]
  <2>1. i \in 1 .. Len(rows) /\ i + Len(out[w]) \in 1 .. Len(out[w]) + Len(rows)
    BY <1>1
  <2>2. ~(i + Len(out[w]) <= Len(out[w])) /\ (i + Len(out[w])) - Len(out[w]) = i
    BY <1>1, <2>1
  <2> QED BY <1>2, <2>1, <2>2
<1> QED BY <1>1, <1>2, <1>3, <1>5, <1>6

\* The types are kept by every step: a row is built from an artifact that is
\* there, so it has a task, a wave and an exit code.
LEMMA NextConsumer ==
  ASSUME IndInv, ExitOK, ConsumerOK, [DagNext]_allVars
  PROVE  ConsumerOK'
<1>1. CASE UNCHANGED dagVars
  BY <1>1 DEF dagVars, ConsumerOK
<1>2. ASSUME NEW w \in Wave, CallerGone(w) PROVE ConsumerOK'
  BY <1>2 DEF CallerGone, ConsumerOK
<1>3. ASSUME NEW w \in Wave, OwnStep(w) PROVE ConsumerOK'
  <2>1. out' \in [Wave -> Seq(SegmentEmit)] /\ emitted' \in [Wave -> SUBSET Task]
    <3>1. CASE UNCHANGED <<emitted, out>>
      BY <3>1 DEF ConsumerOK
    <3>2. CASE SendsRegular(w)
      BY <3>2, SentRows DEF SendsRegular
    <3>3. CASE SendsFinal(w)
      BY <3>3, SentRows, OneRow DEF SendsFinal
    <3> QED BY <1>3, <3>1, <3>2, <3>3, OwnSends
  <2>2. NewTerminals(w) \subseteq Task /\ Nodes[w] \in SUBSET Task
    BY GraphAssumption DEF NewTerminals
  <2> USE DEF ConsumerOK, CPC
  <2>3. CASE Tick(w) \/ CallerDone(w) \/ Redrain(w) \/ Rescan(w)
    <3>1. ASSUME Drain(w) PROVE failedIDs' \in [Wave -> SUBSET Task]
      <4>1. PICK new \in SUBSET Task :
              failedIDs' = [failedIDs EXCEPT ![w] = @ \cup new]
        BY <2>2, <3>1 DEF Drain
      <4> QED BY <4>1
    <3>2. cpc' \in [Wave -> CPC] /\ unwalked' \in [Wave -> SUBSET Task]
      BY <2>2, <2>3 DEF Tick, CallerDone, Redrain, Rescan
    <3> QED BY <2>1, <2>3, <3>1, <3>2 DEF Tick, CallerDone, Redrain, Rescan
  <2>4. CASE SpawnConsumer(w) \/ CheckFailure(w) \/ CheckTerminal(w)
               \/ AbortReturned(w) \/ AbortClose(w) \/ EmitFinal(w)
    BY <2>1, <2>4 DEF SpawnConsumer, CheckFailure, CheckTerminal,
       AbortReturned, AbortClose, EmitFinal
  <2>5. CASE \E t \in Nodes[w] : WalkNode(w, t)
    BY <2>1, <2>5 DEF WalkNode
  <2> QED BY <1>3, <2>3, <2>4, <2>5 DEF OwnStep
<1> QED BY <1>1, <1>2, <1>3, StepKinds DEF allVars

\* The invariants so far, of scheduler and consumer together.
BaseInv == IndInv /\ OrderInv /\ ExitOK /\ ConsumerOK

\* Nothing has started and nothing was sent.
LEMMA InitBase == DagInit => BaseInv
<1> SUFFICES ASSUME DagInit PROVE BaseInv
  OBVIOUS
<1>1. IndInv /\ OrderInv
  BY InitInd, InitOrder DEF DagInit
<1>2. ExitOK
  BY DEF DagInit, Init, ExitOK, Slot
<1>3. ConsumerOK
  BY DEF DagInit, ConsumerOK, CPC
<1> QED BY <1>1, <1>2, <1>3 DEF BaseInv

\* They hold along every behaviour.
LEMMA InductiveBase == DagSpec => []BaseInv
<1>1. BaseInv /\ [DagNext]_allVars => BaseInv'
  <2> SUFFICES ASSUME BaseInv, [DagNext]_allVars PROVE BaseInv'
    OBVIOUS
  <2>1. [Next]_vars
    BY SchedulerSees
  <2>2. IndInv'
    BY <2>1, NextType, NextControl, NextConflict, NextCapacity
       DEF BaseInv, IndInv
  <2> QED BY <2>1, <2>2, NextOrder, NextExit, NextConsumer DEF BaseInv
<1> QED BY <1>1, InitBase, PTL DEF DagSpec

\* The state of scheduler and consumer is well typed; what is sent on the
\* channel always has a task of the plan's universe and an exit code, although
\* rows are built from artifacts of whatever wave left them in the session.
THEOREM DagTypeCorrect == DagSpec => []DagTypeOK
<1>1. BaseInv => DagTypeOK
  BY DEF BaseInv, IndInv, TypeInv, ConsumerOK, DagTypeOK
<1> QED BY <1>1, InductiveBase, PTL

-----------------------------------------------------------------------------
(* The rows of every wave                                                   *)

\* "emitted" is what was sent, and the final row is the last thing sent.
SentOK ==
  \A w \in Wave :
    /\ emitted[w] = TasksOf(out[w])
    /\ HasFinal(w) => cpc[w] = "closed"

RowsInv == SentOK /\ OneRowPerNode

\* A step of the consumer keeps the rows in order.
LEMMA OwnRows ==
  ASSUME BaseInv, RowsInv, NEW w \in Wave, OwnStep(w)
  PROVE  RowsInv'
<1>1. ConsumerOK /\ cpc[w] # "closed" /\ ~HasFinal(w)
  BY OwnSends DEF BaseInv, RowsInv, SentOK
<1>2. \A v \in Wave \ {w} : cpc'[v] = cpc[v]
  BY OwnSends DEF BaseInv
<1>3. CASE UNCHANGED <<emitted, out>>
  BY <1>1, <1>2, <1>3 DEF RowsInv, SentOK, OneRowPerNode, HasFinal
<1>4. ASSUME NEW rows \in Seq(SegmentEmit), Sends(w, rows)
      PROVE  /\ emitted'[w] = TasksOf(out'[w])
             /\ \A v \in Wave \ {w} : out'[v] = out[v] /\ emitted'[v] = emitted[v]
             /\ Len(out[w]) \in Nat /\ DOMAIN out[w] = 1 .. Len(out[w])
             /\ DOMAIN rows \subseteq Nat
             /\ DOMAIN out'[w] \subseteq Nat
             /\ \A i \in DOMAIN out'[w] :
                  \/ i \in DOMAIN out[w] /\ out'[w][i] = out[w][i]
                  \/ /\ i - Len(out[w]) \in DOMAIN rows
                     /\ out'[w][i] = rows[i - Len(out[w])]
  <2>1. /\ out[w] \in Seq(SegmentEmit) /\ Len(out[w]) \in Nat
        /\ DOMAIN out[w] = 1 .. Len(out[w])
        /\ DOMAIN rows = 1 .. Len(rows) /\ DOMAIN rows \subseteq Nat
    BY <1>1, LenProperties DEF ConsumerOK
  <2>2. /\ out' \in [Wave -> Seq(SegmentEmit)]
        /\ \A v \in Wave \ {w} : out'[v] = out[v] /\ emitted'[v] = emitted[v]
        /\ emitted'[w] = emitted[w] \cup TasksOf(rows)
    BY <1>1, <1>4, SentRows
  <2>3. /\ \A i \in DOMAIN out[w] :
             i \in DOMAIN out'[w] /\ out'[w][i] = out[w][i]
        /\ \A i \in DOMAIN rows :
             /\ i + Len(out[w]) \in DOMAIN out'[w]
             /\ out'[w][i + Len(out[w])] = rows[i]
        /\ \A i \in DOMAIN out'[w] :
             i \in DOMAIN out[w] \/ i - Len(out[w]) \in DOMAIN rows
    BY <1>1, <1>4, SentRows
  <2>4. DOMAIN out'[w] = 1 .. Len(out'[w]) /\ DOMAIN out'[w] \subseteq Nat
    BY <2>2, LenProperties
  <2>5. ASSUME NEW i \in DOMAIN out'[w], i \notin DOMAIN out[w]
        PROVE  /\ i - Len(out[w]) \in DOMAIN rows
               /\ out'[w][i] = rows[i - Len(out[w])]
    <3>1. i - Len(out[w]) \in DOMAIN rows
      BY <2>3, <2>5
    <3>2. (i - Len(out[w])) + Len(out[w]) = i
      BY <2>1, <2>4
    <3> QED BY <2>3, <3>1, <3>2
  <2>6. TasksOf(out'[w]) = TasksOf(out[w]) \cup TasksOf(rows)
    BY <2>3, <2>5 DEF TasksOf
  <2>7. emitted[w] = TasksOf(out[w])
    BY DEF RowsInv, SentOK
  <2> QED BY <2>1, <2>2, <2>3, <2>4, <2>5, <2>6, <2>7
<1>5. CASE SendsRegular(w)
  <2>1. PICK rows \in Seq(SegmentEmit) : Sends(w, rows) /\ Fresh(w, rows)
    BY <1>5 DEF SendsRegular
  <2> DEFINE n == Len(out[w])
             New(i) == i - n \in DOMAIN rows /\ out'[w][i] = rows[i - n]
             Old(i) == i \in DOMAIN out[w] /\ out'[w][i] = out[w][i]
  <2>2. \A i \in DOMAIN out'[w] : Old(i) \/ New(i)
    BY <1>4, <2>1
  <2>3. ASSUME NEW i \in DOMAIN out'[w], New(i)
        PROVE  ~out'[w][i].final /\ out'[w][i].task \notin TasksOf(out[w])
    BY <2>1, <2>3 DEF Fresh, RowsInv, SentOK
  <2>4. \A i \in DOMAIN out'[w] : Old(i) => ~out'[w][i].final
    BY <1>1 DEF HasFinal
  <2>5. ~HasFinal(w)'
    BY <2>2, <2>3, <2>4 DEF HasFinal
  <2>6. ASSUME NEW i \in DOMAIN out'[w], NEW j \in DOMAIN out'[w], i # j
        PROVE  out'[w][i].task # out'[w][j].task
    <3>1. CASE Old(i) /\ Old(j)
      BY <1>1, <2>6, <3>1 DEF RowsInv, OneRowPerNode, HasFinal
    <3>2. CASE (Old(i) /\ New(j)) \/ (New(i) /\ Old(j))
      BY <2>3, <3>2 DEF TasksOf
    <3>3. CASE New(i) /\ New(j)
      <4>1. i \in Nat /\ j \in Nat /\ n \in Nat
        BY <1>4, <2>1
      <4>2. i - n # j - n
        BY <2>6, <4>1
      <4> QED BY <2>1, <3>3, <4>2 DEF Fresh
    <3> QED BY <2>2, <3>1, <3>2, <3>3
  <2>7. SentOK'
    BY <1>2, <1>4, <2>1, <2>5 DEF SentOK, RowsInv, HasFinal
  <2> HIDE DEF n, New, Old
  <2>8. OneRowPerNode'
    BY <1>4, <2>1, <2>6 DEF OneRowPerNode, RowsInv
  <2> QED BY <2>7, <2>8 DEF RowsInv
<1>6. CASE SendsFinal(w)
  <2>1. PICK row \in SegmentEmit : row.final /\ Sends(w, <<row>>)
    BY <1>6 DEF SendsFinal
  <2>2. /\ <<row>> \in Seq(SegmentEmit) /\ DOMAIN <<row>> = {1}
        /\ <<row>>[1] = row
    BY OneRow
  <2>3. /\ emitted'[w] = TasksOf(out'[w]) /\ cpc'[w] = "closed"
        /\ \A v \in Wave \ {w} : out'[v] = out[v] /\ emitted'[v] = emitted[v]
        /\ \A i \in DOMAIN out'[w] :
             \/ i \in DOMAIN out[w] /\ out'[w][i] = out[w][i]
             \/ out'[w][i].final
    BY ZenonT(60), <1>4, <1>6, <2>1, <2>2 DEF SendsFinal
  <2>4. SentOK'
    BY <1>2, <2>3 DEF SentOK, RowsInv, HasFinal
  <2>5. ASSUME NEW i \in DOMAIN out'[w], NEW j \in DOMAIN out'[w], i # j,
               ~out'[w][i].final, ~out'[w][j].final
        PROVE  out'[w][i].task # out'[w][j].task
    BY <2>3, <2>5 DEF OneRowPerNode, RowsInv
  <2>6. OneRowPerNode'
    BY <2>3, <2>5 DEF OneRowPerNode, RowsInv
  <2> QED BY <2>4, <2>6 DEF RowsInv
<1> QED BY <1>3, <1>5, <1>6, OwnSends DEF BaseInv

\* So do all others, which do not touch the channels.
LEMMA NextRows ==
  ASSUME BaseInv, RowsInv, [DagNext]_allVars
  PROVE  RowsInv'
<1>1. CASE UNCHANGED dagVars
  BY <1>1 DEF dagVars, RowsInv, SentOK, OneRowPerNode, HasFinal, TasksOf
<1>2. ASSUME NEW w \in Wave, CallerGone(w) PROVE RowsInv'
  BY <1>2 DEF CallerGone, RowsInv, SentOK, OneRowPerNode, HasFinal, TasksOf
<1> QED BY <1>1, <1>2, StepKinds, OwnRows DEF allVars

\* The channels are empty at first.
LEMMA InitRows == DagInit => RowsInv
BY DEF DagInit, RowsInv, SentOK, OneRowPerNode, HasFinal, TasksOf

\* Both invariants hold along every behaviour.
LEMMA InductiveRows == DagSpec => [](BaseInv /\ RowsInv)
<1>1. RowsInv /\ BaseInv /\ [DagNext]_allVars => RowsInv'
  BY NextRows
<1> QED BY <1>1, InitRows, InductiveBase, PTL DEF DagSpec

\* No node gets two regular rows from one consumer, in whatever order drains,
\* the rescan and the walk of an abort meet the workers, with any number of
\* waves in the session.
THEOREM RowsDistinct == DagSpec => []OneRowPerNode
<1>1. RowsInv => OneRowPerNode
  BY DEF RowsInv
<1> QED BY <1>1, InductiveRows, PTL

-----------------------------------------------------------------------------
(* The rows of a finished wave that is alone in its session                 *)

\* No session gets a second wave and nobody stops single workers: either may
\* end a node without an artifact, or end it twice.
Alone ==
  /\ Stoppable = {}
  /\ \A v, w \in Wave : SessionOf[v] = SessionOf[w] => v = w

\* Nobody but a wave's own consumer can reach it.
ReachOK ==
  /\ cancelling = {}
  /\ \A w \in Wave : /\ waves[SessionOf[w]] \in {NoWave, w}
                     /\ abort[w].target \in {NoWave, w}

\* A wave whose consumer has not aborted it ends a node in completeTask only.
EndedOK(w) ==
  abort[w].pc = "idle" =>
    \A t \in Nodes[w] : Terminal(state[<<w, t>>])
                          => wpc[<<w, t>>] \in {"drop", "done"}

\* Until the final row and after it the consumer has not aborted the wave.
UnabortedOK(w) ==
  /\ cpc[w] \in {"idle", "poll", "check", "redrain", "final"} \/ HasFinal(w)
       => abort[w].pc = "idle"
  /\ cpc[w] \in {"rescan", "walk"} => abort[w].pc # "idle"

\* The consumer closes its channel, and has not aborted the wave.
ClosedUnaborted(w) == cpc[w] = "closed" /\ abort[w].pc = "idle"

\* From the moment the consumer saw all nodes terminal they stay so, ...
FinishedOK(w) ==
  cpc[w] \in {"redrain", "final"} \/ ClosedUnaborted(w) => AllTerminal(w)

\* ... every row is out when the last drain found nothing, and stays out.
CompleteOK(w) ==
  /\ cpc[w] = "final" \/ ClosedUnaborted(w) => Nodes[w] \subseteq emitted[w]
  /\ HasFinal(w) => \A t \in Nodes[w] : \E i \in DOMAIN out[w] :
                      out[w][i].task = t /\ ~out[w][i].final

WaveOK(w) == EndedOK(w) /\ UnabortedOK(w) /\ FinishedOK(w) /\ CompleteOK(w)

AloneInv == ReachOK /\ \A w \in Wave : WaveOK(w)

\* Without an abort, a node ends once, and in completeTask.
LEMMA EndsOnce ==
  ASSUME Alone, BaseInv, AloneInv, [Next]_vars,
         NEW w \in Wave, NEW t \in Nodes[w], abort[w].pc = "idle"
  PROVE  /\ Terminal(state[<<w, t>>]) =>
              /\ state'[<<w, t>>] = state[<<w, t>>]
              /\ wpc'[<<w, t>>] \in {"drop", "done"}
         /\ Terminal(state'[<<w, t>>]) => wpc'[<<w, t>>] \in {"drop", "done"}
<1> DEFINE X == <<w, t>>
           Goal == /\ Terminal(state[X]) =>
                        state'[X] = state[X] /\ wpc'[X] \in {"drop", "done"}
                   /\ Terminal(state'[X]) => wpc'[X] \in {"drop", "done"}
<1>0. /\ X \in Slot /\ X[1] = w /\ IndInv /\ w # NoWave
      /\ state \in [Slot -> TaskState] /\ wpc \in [Slot -> WPC]
      /\ Terminal(state[X]) => wpc[X] \in {"drop", "done"}
  BY GraphAssumption, SetsAssumption DEF Slot, BaseInv, IndInv, TypeInv,
     TypeOK, AloneInv, WaveOK, EndedOK
<1>1. CASE UNCHANGED <<state, wpc, exit, terminal, artifacts>>
  BY <1>0, <1>1
<1>2. ASSUME NEW u \in Wave, AbortPending(u) PROVE Goal
  <2>1. abort[u].target \in {NoWave, u} /\ u # w
    BY <1>2 DEF AbortPending, AloneInv, ReachOK
  <2>2. state'[X] = state[X] /\ wpc' = wpc
    BY <1>0, <1>2, <2>1 DEF AbortPending
  <2> QED BY <1>0, <2>2
<1>3. ASSUME NEW u \in Wave, NEW s \in Nodes[u], WorkerSteps(u, s) PROVE Goal
  <2>0. <<u, s>> \in Slot
    BY GraphAssumption DEF Slot
  <2>1. ~CancelWorkerMark(u, s)
    BY DEF CancelWorkerMark, AloneInv, ReachOK
  <2>2. CASE FailFast(u, s) \/ StartWorker(u, s) \/ SetRunning(u, s)
    <3>1. wpc[<<u, s>>] = "idle"
      BY <1>0, <2>2, CurrentIdle DEF FailFast, StartWorker, SetRunning
    <3>2. CASE FailFast(u, s) \/ StartWorker(u, s)
      BY <1>0, <2>0, <3>1, <3>2 DEF FailFast, StartWorker
    <3>3. CASE SetRunning(u, s)
      BY <1>0, <2>0, <3>1, <3>3 DEF SetRunning, Terminal
    <3> QED BY <2>2, <3>2, <3>3
  <2>3. CASE PutArtifact(u, s) \/ FreeSlot(u, s) \/ DropHandle(u, s)
    BY <1>0, <2>0, <2>3 DEF PutArtifact, FreeSlot, DropHandle
  <2>4. CASE SetTerminal(u, s)
    BY <1>0, <2>0, <2>4 DEF SetTerminal
  <2>5. ASSUME NEW code \in {"ok", "error", "canceled"},
               WorkerReturn(u, s, code)
        PROVE  Goal
    BY <1>0, <2>0, <2>5 DEF WorkerReturn
  <2> QED BY <1>3, <2>1, <2>2, <2>3, <2>4, <2>5 DEF WorkerSteps, CompleteTask
<1> QED BY <1>1, <1>2, <1>3, TaskSteps

\* Only a consumer that aborts its wave takes the steps of AbortSession.
LEMMA AbortReach ==
  ASSUME Alone, BaseInv, AloneInv, NEW w \in Wave, BelowStep(w)
  PROVE  /\ ReachOK'
         /\ \A v \in Wave : \/ abort'[v] = abort[v]
                            \/ v = w /\ cpc[w] = "abort" /\ abort'[w].pc # "idle"
<1> USE DEF ReachOK, AloneInv, BaseInv, IndInv, TypeInv, TypeOK, taskVars,
            slotVars, clientVars, loopVars
<1>1. CASE StartStep(w)
  <2>1. CASE StartStore(w)
    <3>1. \A v \in Wave : waves'[SessionOf[v]] =
                            IF v = w THEN w ELSE waves[SessionOf[v]]
      BY <2>1, GraphAssumption DEF StartStore, Alone
    <3> QED BY <2>1, <3>1 DEF StartStore
  <2>2. CASE StartRead(w) \/ StartCancelCtx(w) \/ StartCancelWorkers(w)
    BY <2>2 DEF StartRead, StartCancelCtx, StartCancelWorkers
  <2> QED BY <1>1, <2>1, <2>2 DEF StartStep
<1>2. CASE LoopStep(w)
  BY <1>2 DEF LoopStep, LoopSuperseded, LoopFinished,
     LoopCancelled, LoopSnapshot, LoopWait, LoopTick, FailFastReturn,
     ReleaseRejected, Acquire, SkipNoSlot, FailFast, Register, Reject,
     SetRunning, StartWorker
<1>3. ASSUME NEW t \in Nodes[w],
             \/ CompleteTask(w, t)
             \/ \E code \in {"ok", "error", "canceled"} :
                  WorkerReturn(w, t, code)
      PROVE  UNCHANGED <<waves, abort, cancelling>>
  BY <1>3 DEF CompleteTask, PutArtifact, FreeSlot, SetTerminal, DropHandle,
     WorkerReturn
<1>4. CASE cpc[w] = "abort" /\ AbortRead(w)
  BY <1>4 DEF AbortRead
<1>5. CASE cpc[w] = "abort" /\ AbortStep(w)
  <2>1. PICK p \in APC \ {"idle"} : abort' = [abort EXCEPT ![w].pc = p]
    BY <1>5 DEF AbortStep, AbortCtx, AbortWorkers, AbortPending, APC
  <2>2. UNCHANGED <<waves, cancelling>>
    BY <1>5 DEF AbortStep, AbortCtx, AbortWorkers, AbortPending
  <2>3. /\ abort \in [Wave -> [pc : APC, target : Wave \cup {NoWave}]]
        /\ abort'[w].target = abort[w].target /\ abort'[w].pc # "idle"
        /\ \A v \in Wave \ {w} : abort'[v] = abort[v]
    BY <2>1
  <2> QED BY <1>5, <2>2, <2>3
<1>6. ASSUME NEW t \in Nodes[w],
             CancelWorkerRead(w, t) \/ CancelWorkerMark(w, t)
      PROVE  FALSE
  BY <1>6 DEF CancelWorkerRead, CancelWorkerMark, Alone
<1> QED BY <1>1, <1>2, <1>3, <1>4, <1>5, <1>6 DEF BelowStep, SchedulerStep

\* The scheduler's steps: they cannot disturb a wave that is over.
LEMMA BelowAlone ==
  ASSUME Alone, BaseInv, RowsInv, AloneInv, NEW w \in Wave, BelowStep(w),
         UNCHANGED dagVars
  PROVE  AloneInv'
<1>0. [Next]_vars
  BY DEF BelowStep, Next, ClientStep
<1>1. /\ ReachOK'
      /\ \A v \in Wave : \/ abort'[v] = abort[v]
                         \/ v = w /\ cpc[w] = "abort" /\ abort'[w].pc # "idle"
  BY AbortReach
<1>2. ASSUME NEW v \in Wave PROVE WaveOK(v)'
  <2>1. /\ cpc'[v] = cpc[v] /\ out'[v] = out[v] /\ emitted'[v] = emitted[v]
        /\ HasFinal(v)' <=> HasFinal(v)
    BY DEF dagVars, HasFinal
  <2>2. WaveOK(v) /\ (HasFinal(v) => cpc[v] = "closed")
    BY DEF AloneInv, RowsInv, SentOK
  <2>3. UnabortedOK(v)'
    BY <1>1, <2>1, <2>2 DEF WaveOK, UnabortedOK
  <2>4. abort'[v].pc = "idle" => abort[v].pc = "idle"
    BY <1>1
  <2>5. EndedOK(v)'
    BY <1>0, <2>4, EndsOnce DEF EndedOK
  <2>6. FinishedOK(v)'
    <3>1. ASSUME cpc[v] \in {"redrain", "final"} \/ ClosedUnaborted(v)'
          PROVE  AllTerminal(v) /\ abort[v].pc = "idle"
      BY <2>1, <2>2, <2>4, <3>1 DEF WaveOK, FinishedOK, UnabortedOK,
         ClosedUnaborted
    <3> QED BY <1>0, <2>1, <3>1, EndsOnce DEF FinishedOK, AllTerminal
  <2>7. CompleteOK(v)'
    BY <2>1, <2>2, <2>4 DEF WaveOK, CompleteOK, ClosedUnaborted
  <2> QED BY <2>3, <2>5, <2>6, <2>7 DEF WaveOK
<1> QED BY <1>1, <1>2 DEF AloneInv

\* A node that is terminal without an abort has its artifact in the store.
LEMMA EndedHasArtifact ==
  ASSUME BaseInv, NEW w \in Wave, EndedOK(w), abort[w].pc = "idle",
         NEW t \in Nodes[w], Terminal(state[<<w, t>>])
  PROVE  artifacts[SessionOf[w]][t] # NoArtifact
<1>1. <<w, t>> \in Slot /\ wpc[<<w, t>>] \in {"drop", "done"}
  BY GraphAssumption DEF Slot, EndedOK
<1> QED BY <1>1 DEF BaseInv, OrderInv, StoredOK

\* The consumer's steps: the last drain finds nothing only when every node has
\* been sent, and the final row comes on top of them.
LEMMA OwnAlone ==
  ASSUME BaseInv, RowsInv, AloneInv, NEW w \in Wave, OwnStep(w),
         UNCHANGED vars
  PROVE  AloneInv'
<1>0. /\ ConsumerOK /\ WaveOK(w) /\ ~HasFinal(w)
      /\ emitted[w] = TasksOf(out[w]) /\ cpc[w] # "closed"
  BY OwnSends DEF BaseInv, AloneInv, RowsInv, SentOK
<1>1. UNCHANGED <<state, wpc, abort, waves, cancelling, artifacts>>
  BY DEF vars, loopVars, taskVars, clientVars
<1>2. ReachOK'
  BY <1>1 DEF AloneInv, ReachOK
<1>3. \A v \in Wave : EndedOK(v)'
  BY <1>1 DEF AloneInv, WaveOK, EndedOK
<1>4. \A v \in Wave : HasFinal(v)' => cpc'[v] = "closed"
  BY OwnRows DEF RowsInv, SentOK
<1>5. ASSUME NEW v \in Wave \ {w} PROVE WaveOK(v)'
  <2>1. cpc'[v] = cpc[v]
    BY OwnSends DEF BaseInv
  <2>2. out'[v] = out[v] /\ emitted'[v] = emitted[v]
    <3>1. CASE UNCHANGED <<emitted, out>>
      BY <3>1
    <3>2. CASE SendsRegular(w)
      BY <1>0, <3>2 DEF SendsRegular, Sends, ConsumerOK
    <3>3. CASE SendsFinal(w)
      BY <1>0, <3>3 DEF SendsFinal, Sends, ConsumerOK
    <3> QED BY <3>1, <3>2, <3>3, OwnSends DEF BaseInv
  <2> QED BY <1>1, <1>3, <2>1, <2>2 DEF AloneInv, WaveOK, UnabortedOK,
          FinishedOK, CompleteOK, ClosedUnaborted, HasFinal, AllTerminal
<1>6. WaveOK(w)'
  <2> USE DEF WaveOK, UnabortedOK, FinishedOK, CompleteOK, ClosedUnaborted
  <2>0. AllTerminal(w)' <=> AllTerminal(w)
    BY <1>1 DEF AllTerminal
  <2>1. CASE cpc'[w] \in {"poll", "check", "abort", "rescan", "walk"}
    <3>1. \/ cpc[w] \in {"idle", "poll", "check"} /\ cpc'[w] \notin {"rescan", "walk"}
          \/ cpc'[w] = "abort"
          \/ cpc'[w] \in {"rescan", "walk"} /\ abort[w].pc # "idle"
      BY <1>0, <2>1 DEF ConsumerOK, OwnStep, SpawnConsumer, Tick, CallerDone,
         CheckFailure, CheckTerminal, Redrain, EmitFinal, AbortReturned,
         Rescan, AbortClose, WalkNode
    <3> QED BY <1>0, <1>1, <1>3, <1>4, <2>1, <3>1
  <2>2. CASE CheckTerminal(w) /\ AllTerminal(w)
    BY <1>0, <1>1, <1>3, <1>4, <2>0, <2>2 DEF CheckTerminal, ConsumerOK
  <2>3. CASE Redrain(w)
    <3>1. cpc[w] = "redrain" /\ abort[w].pc = "idle" /\ AllTerminal(w)
      BY <1>0, <2>3 DEF Redrain
    <3>2. \/ cpc'[w] = "redrain"
          \/ cpc'[w] = "final" /\ NewTerminals(w) = {}
      BY <1>0, <2>3, <3>1 DEF Redrain, ConsumerOK
    <3>3. emitted'[w] = emitted[w] \cup NewTerminals(w)
      BY <1>0, <2>3 DEF Redrain, Drain, ConsumerOK
    <3>4. NewTerminals(w) = {} => Nodes[w] \subseteq emitted'[w]
      <4>1. \A t \in Nodes[w] : t \in Task /\ artifacts[SessionOf[w]][t] # NoArtifact
        BY <1>0, <3>1, EndedHasArtifact, GraphAssumption DEF AllTerminal
      <4> QED BY <3>3, <4>1 DEF NewTerminals
    <3> QED BY <1>1, <1>3, <1>4, <2>0, <3>1, <3>2, <3>4
  <2>4. CASE EmitFinal(w)
    <3>1. /\ cpc[w] = "final" /\ cpc'[w] = "closed" /\ abort[w].pc = "idle"
          /\ AllTerminal(w)
      BY <1>0, <2>4 DEF EmitFinal, ConsumerOK
    <3>2. ASSUME NEW t \in Nodes[w]
          PROVE  \E i \in DOMAIN out[w] : out[w][i].task = t /\ ~out[w][i].final
      BY <1>0, <3>1 DEF TasksOf, HasFinal
    <3>3. /\ \A i \in DOMAIN out[w] :
               i \in DOMAIN out'[w] /\ out'[w][i] = out[w][i]
          /\ emitted[w] \subseteq emitted'[w]
      <4>1. CASE UNCHANGED <<emitted, out>>
        BY <4>1
      <4>2. CASE SendsRegular(w)
        BY <1>0, <4>2, SentRows DEF SendsRegular
      <4>3. CASE SendsFinal(w)
        BY <1>0, <4>3, OneRow, SentRows DEF SendsFinal
      <4> QED BY <4>1, <4>2, <4>3, OwnSends DEF BaseInv
    <3>4. Nodes[w] \subseteq emitted'[w]
      BY <1>0, <3>1, <3>3
    <3> QED BY <1>1, <1>3, <2>0, <3>1, <3>2, <3>3, <3>4
  <2>5. CASE AbortClose(w)
    BY <1>0, <1>1, <1>3, <2>5 DEF AbortClose, ConsumerOK, HasFinal
  <2> QED BY <1>0, <2>1, <2>2, <2>3, <2>4, <2>5 DEF OwnStep, SpawnConsumer,
          Tick, CallerDone, CheckFailure, CheckTerminal, AbortReturned, Rescan,
          WalkNode, ConsumerOK
<1> QED BY <1>2, <1>5, <1>6 DEF AloneInv

\* The invariant of a wave that is alone in its session holds at all times.
LEMMA InductiveAlone ==
  ASSUME Alone
  PROVE  DagSpec => [](BaseInv /\ RowsInv /\ AloneInv)
<1>1. DagInit => AloneInv
  BY SetsAssumption, GraphAssumption DEF DagInit, Init, AloneInv, ReachOK,
     WaveOK, EndedOK, UnabortedOK, FinishedOK, CompleteOK, ClosedUnaborted,
     HasFinal, Terminal, Slot
<1>2. ASSUME BaseInv, RowsInv, AloneInv, [DagNext]_allVars PROVE AloneInv'
  <2>1. CASE UNCHANGED allVars
    BY <1>2, <2>1 DEF allVars, dagVars, vars, loopVars, taskVars, clientVars,
       AloneInv, ReachOK, WaveOK, EndedOK, UnabortedOK, FinishedOK, CompleteOK,
       ClosedUnaborted, HasFinal, AllTerminal
  <2>2. ASSUME NEW w \in Wave, OwnStep(w), UNCHANGED vars PROVE AloneInv'
    BY <1>2, <2>2, OwnAlone
  <2>3. ASSUME NEW w \in Wave, BelowStep(w), UNCHANGED dagVars PROVE AloneInv'
    BY <1>2, <2>3, BelowAlone
  <2>4. ASSUME NEW w \in Wave, CallerGone(w) PROVE AloneInv'
    BY <1>2, <2>4 DEF CallerGone, taskVars, clientVars, AloneInv, ReachOK,
       WaveOK, EndedOK, UnabortedOK, FinishedOK, CompleteOK, ClosedUnaborted,
       HasFinal, AllTerminal
  <2> QED BY <1>2, <2>1, <2>2, <2>3, <2>4, StepKinds
<1>3. AloneInv /\ BaseInv /\ RowsInv /\ [DagNext]_allVars => AloneInv'
  BY <1>2
<1> QED BY <1>1, <1>3, InductiveRows, PTL DEF DagSpec

\* A wave alone in its session, of which no worker is stopped, is announced as
\* finished only after a row for every node of the plan: the drain that finds
\* nothing new comes after all nodes were seen terminal, and completeTask puts
\* the artifact before the state.
THEOREM AllSent ==
  ASSUME Alone
  PROVE  DagSpec => []FinalMeansAllSent
<1>1. AloneInv => FinalMeansAllSent
  BY DEF AloneInv, WaveOK, CompleteOK, FinalMeansAllSent
<1> QED BY <1>1, InductiveAlone, PTL

\* When such a wave's last segment is announced, none of its nodes is inside its
\* runner or holds a slot, and no dispatch of one is under way.
THEOREM QuietWhenFinal ==
  ASSUME Alone
  PROVE  DagSpec => []FinalMeansQuiet
<1>1. ASSUME BaseInv, RowsInv, AloneInv, NEW w \in Wave, HasFinal(w),
             NEW t \in Nodes[w]
      PROVE  wpc[<<w, t>>] # "run" /\ <<w, t>> \notin owners
  <2>1. <<w, t>> \in Slot /\ wpc[<<w, t>>] \in {"drop", "done"}
    BY <1>1, GraphAssumption DEF Slot, AloneInv, WaveOK, EndedOK, UnabortedOK,
       FinishedOK, ClosedUnaborted, AllTerminal, RowsInv, SentOK
  <2> QED BY <1>1, <2>1 DEF BaseInv, IndInv, ControlInv, OwnerOK, CurrentOK
<1>2. BaseInv /\ RowsInv /\ AloneInv => FinalMeansQuiet
  BY <1>1 DEF FinalMeansQuiet
<1> QED BY <1>2, InductiveAlone, PTL

-----------------------------------------------------------------------------
(* What the rows of such a wave say of its nodes                            *)

\* The exit code of a worker that has published its artifact is settled.
Settled(x) == wpc[x] \in {"free", "set", "drop", "done"}

\* An artifact in a session is that of its wave's node.
ArtifactOK ==
  \A w \in Wave : \A t \in Task :
    artifacts[SessionOf[w]][t] # NoArtifact =>
      /\ Settled(<<w, t>>)
      /\ artifacts[SessionOf[w]][t].exit = exit[<<w, t>>]

\* A success is about to make its node completed, ...
SuccessOK ==
  \A x \in Slot : exit[x] = "ok" /\ wpc[x] \in {"put", "free", "set"}
                    => terminal[x] = "completed"

\* ... and makes it so, unless the wave is aborted.
CompletedOK(w) ==
  abort[w].pc = "idle" =>
    \A t \in Nodes[w] : exit[<<w, t>>] = "ok" /\ wpc[<<w, t>>] \in {"drop", "done"}
                          => state[<<w, t>>] = "completed"

\* A row says what became of its node, or is a cancel row of an abort.
RowOK(w) ==
  \A i \in DOMAIN out[w] :
    \/ /\ Settled(<<w, out[w][i].task>>)
       /\ out[w][i].exit = exit[<<w, out[w][i].task>>]
    \/ out[w][i].exit = "canceled" /\ ~out[w][i].final /\ abort[w].pc # "idle"

\* A failure the consumer knows of has been sent.
FailureOK(w) ==
  failedIDs[w] # {} => \E i \in DOMAIN out[w] :
                         out[w][i].exit = "error" /\ ~out[w][i].final

\* An abort has a reason.
ReasonOK(w) ==
  abort[w].pc # "idle" \/ cpc[w] = "abort"
    => failedIDs[w] # {} \/ w \in callerErr

OutcomeInv ==
  /\ ArtifactOK /\ SuccessOK
  /\ \A w \in Wave : CompletedOK(w) /\ RowOK(w) /\ FailureOK(w) /\ ReasonOK(w)

\* What is settled stays settled.
LEMMA SettledStays ==
  ASSUME IndInv, [Next]_vars, NEW x \in Slot, Settled(x)
  PROVE  Settled(x)' /\ exit'[x] = exit[x]
<1> USE DEF Settled, IndInv, TypeInv, TypeOK
<1>1. CASE UNCHANGED <<state, wpc, exit, terminal, artifacts>>
  BY <1>1
<1>2. ASSUME NEW w \in Wave, AbortPending(w)
      PROVE  Settled(x)' /\ exit'[x] = exit[x]
  BY <1>2 DEF AbortPending
<1>3. ASSUME NEW w \in Wave, NEW t \in Nodes[w], WorkerSteps(w, t)
      PROVE  Settled(x)' /\ exit'[x] = exit[x]
  <2>1. CASE FailFast(w, t) \/ StartWorker(w, t)
    <3>1. wpc[<<w, t>>] = "idle"
      BY <2>1, CurrentIdle DEF FailFast, StartWorker
    <3> QED BY <2>1, <3>1 DEF FailFast, StartWorker
  <2>2. CASE SetRunning(w, t) \/ CancelWorkerMark(w, t)
    BY <2>2 DEF SetRunning, CancelWorkerMark
  <2>3. CASE CompleteTask(w, t)
    BY <2>3 DEF CompleteTask, PutArtifact, FreeSlot, SetTerminal, DropHandle
  <2>4. ASSUME NEW code \in {"ok", "error", "canceled"}, WorkerReturn(w, t, code)
        PROVE  Settled(x)' /\ exit'[x] = exit[x]
    BY <2>4 DEF WorkerReturn
  <2> QED BY <1>3, <2>1, <2>2, <2>3, <2>4 DEF WorkerSteps
<1> QED BY <1>1, <1>2, <1>3, TaskSteps

\* The scheduler keeps artifacts true to the exit codes of their workers.
LEMMA NextArtifact ==
  ASSUME Alone, IndInv, ArtifactOK, SuccessOK, [Next]_vars
  PROVE  ArtifactOK' /\ SuccessOK'
<1> USE DEF IndInv, TypeInv, TypeOK
<1>1. CASE UNCHANGED <<state, wpc, exit, terminal, artifacts>>
  BY <1>1 DEF ArtifactOK, SuccessOK, Settled
<1>2. ASSUME NEW w \in Wave, AbortPending(w) PROVE ArtifactOK' /\ SuccessOK'
  BY <1>2 DEF AbortPending, ArtifactOK, SuccessOK, Settled
<1>3. ASSUME NEW w \in Wave, NEW t \in Nodes[w], WorkerSteps(w, t)
      PROVE  ArtifactOK' /\ SuccessOK'
  <2>0. <<w, t>> \in Slot /\ t \in Task /\ SessionOf[w] \in Session
    BY GraphAssumption DEF Slot
  <2>1. ArtifactOK'
    <3>1. ASSUME NEW v \in Wave, NEW s \in Task,
                 artifacts[SessionOf[v]][s] # NoArtifact,
                 artifacts'[SessionOf[v]][s] = artifacts[SessionOf[v]][s]
          PROVE  /\ Settled(<<v, s>>)'
                 /\ artifacts'[SessionOf[v]][s].exit = exit'[<<v, s>>]
      <4>1. <<v, s>> \in Slot
        BY DEF Slot
      <4> QED BY <3>1, <4>1, SettledStays DEF ArtifactOK
    <3>2. CASE PutArtifact(w, t)
      <4>1. /\ artifacts'[SessionOf[w]][t].exit = exit'[<<w, t>>]
            /\ Settled(<<w, t>>)'
        BY <2>0, <3>2 DEF PutArtifact, Settled
      <4>2. ASSUME NEW v \in Wave, NEW s \in Task, v # w \/ s # t
            PROVE  artifacts'[SessionOf[v]][s] = artifacts[SessionOf[v]][s]
        <5>1. SessionOf[v] \in Session /\ (SessionOf[v] = SessionOf[w] => v = w)
          BY GraphAssumption DEF Alone
        <5> QED BY <2>0, <3>2, <4>2, <5>1 DEF PutArtifact
      <4> QED BY ZenonT(60), <3>1, <4>1, <4>2 DEF ArtifactOK
    <3>3. CASE ~PutArtifact(w, t)
      <4>1. artifacts' = artifacts
        BY <1>3, <3>3 DEF WorkerSteps, FailFast, StartWorker, SetRunning,
           CompleteTask, FreeSlot, SetTerminal, DropHandle, WorkerReturn,
           CancelWorkerMark
      <4> QED BY <3>1, <4>1 DEF ArtifactOK
    <3> QED BY <3>2, <3>3
  <2>2. SuccessOK'
    <3> USE DEF SuccessOK
    <3>1. CASE FailFast(w, t)
      BY <2>0, <3>1 DEF FailFast
    <3>2. CASE StartWorker(w, t)
      BY <2>0, <3>2 DEF StartWorker
    <3>3. CASE SetRunning(w, t) \/ CancelWorkerMark(w, t)
      BY <3>3 DEF SetRunning, CancelWorkerMark
    <3>4. CASE CompleteTask(w, t)
      BY <2>0, <3>4 DEF CompleteTask, PutArtifact, FreeSlot, SetTerminal,
         DropHandle
    <3>5. ASSUME NEW code \in {"ok", "error", "canceled"},
                 WorkerReturn(w, t, code)
          PROVE  SuccessOK'
      BY <2>0, <3>5 DEF WorkerReturn, TerminalFor
    <3> QED BY <1>3, <3>1, <3>2, <3>3, <3>4, <3>5 DEF WorkerSteps
  <2> QED BY <2>1, <2>2
<1> QED BY <1>1, <1>2, <1>3, TaskSteps

\* Without an abort, a success is completed and stays so.
LEMMA NextCompleted ==
  ASSUME Alone, BaseInv, AloneInv, OutcomeInv, [Next]_vars, NEW w \in Wave,
         abort[w].pc = "idle", NEW t \in Nodes[w],
         exit'[<<w, t>>] = "ok", wpc'[<<w, t>>] \in {"drop", "done"}
  PROVE  state'[<<w, t>>] = "completed"
<1> DEFINE X == <<w, t>>
<1>0. X \in Slot /\ IndInv /\ state \in [Slot -> TaskState] /\ wpc \in [Slot -> WPC]
  BY GraphAssumption DEF Slot, BaseInv, IndInv, TypeInv, TypeOK
<1>1. CASE wpc[X] \in {"drop", "done"}
  <2>1. exit[X] = "ok"
    BY <1>0, <1>1, SettledStays DEF Settled
  <2>2. state[X] = "completed"
    BY <1>1, <2>1 DEF OutcomeInv, CompletedOK
  <2> QED BY <2>2, EndsOnce DEF Terminal
<1>2. CASE wpc[X] \notin {"drop", "done"}
  <2>1. SetTerminal(w, t)
    <3>1. ASSUME NEW u \in Wave, NEW s \in Nodes[u], WorkerSteps(u, s)
          PROVE  SetTerminal(w, t)
      <4>0. <<u, s>> \in Slot
        BY GraphAssumption DEF Slot
      <4>1. CASE SetTerminal(u, s)
        BY <1>0, <1>2, <4>0, <4>1 DEF SetTerminal
      <4>2. CASE ~SetTerminal(u, s)
        BY <1>0, <1>2, <3>1, <4>0, <4>2 DEF WorkerSteps, FailFast, StartWorker,
           SetRunning, CompleteTask, PutArtifact, FreeSlot, DropHandle,
           WorkerReturn, CancelWorkerMark
      <4> QED BY <4>1, <4>2
    <3>2. ASSUME NEW u \in Wave, AbortPending(u) PROVE FALSE
      BY <1>2, <3>2 DEF AbortPending
    <3> QED BY <1>2, <3>1, <3>2, TaskSteps
  <2>2. /\ state'[X] = terminal[X] /\ exit[X] = "ok" /\ wpc[X] = "set"
    BY <1>0, <2>1 DEF SetTerminal
  <2> QED BY <1>0, <2>2 DEF OutcomeInv, SuccessOK
<1> QED BY <1>1, <1>2

\* The scheduler's steps keep what the rows say.
LEMMA BelowOutcome ==
  ASSUME Alone, BaseInv, AloneInv, OutcomeInv, NEW w \in Wave, BelowStep(w),
         UNCHANGED dagVars
  PROVE  OutcomeInv'
<1>0. [Next]_vars
  BY DEF BelowStep, Next, ClientStep
<1>1. UNCHANGED <<cpc, callerErr, failedIDs, out>>
  BY DEF dagVars
<1>2. ArtifactOK' /\ SuccessOK'
  BY <1>0, NextArtifact DEF OutcomeInv, BaseInv
<1>3. ASSUME NEW v \in Wave
      PROVE  CompletedOK(v)' /\ RowOK(v)' /\ FailureOK(v)' /\ ReasonOK(v)'
  <2>1. \/ abort'[v] = abort[v]
        \/ cpc[v] = "abort" /\ abort'[v].pc # "idle"
    BY AbortReach
  <2>2. CompletedOK(v)'
    BY <1>0, <2>1, NextCompleted DEF CompletedOK
  <2>3. RowOK(v)'
    <3>1. ASSUME NEW i \in DOMAIN out[v]
          PROVE  <<v, out[v][i].task>> \in Slot
      <4>1. out[v] \in Seq(SegmentEmit)
        BY DEF BaseInv, ConsumerOK
      <4>2. out[v][i] \in SegmentEmit
        BY <4>1, LenProperties, ElementOfSeq
      <4> QED BY <4>2 DEF SegmentEmit, Slot
    <3> QED BY <1>0, <1>1, <2>1, <3>1, SettledStays
            DEF RowOK, OutcomeInv, BaseInv
  <2>4. FailureOK(v)' /\ ReasonOK(v)'
    BY <1>1, <2>1 DEF OutcomeInv, FailureOK, ReasonOK
  <2> QED BY <2>2, <2>3, <2>4
<1> QED BY <1>2, <1>3 DEF OutcomeInv

\* The consumer's steps send what the artifacts say.
LEMMA OwnOutcome ==
  ASSUME BaseInv, AloneInv, OutcomeInv, NEW w \in Wave, OwnStep(w),
         UNCHANGED vars
  PROVE  OutcomeInv'
<1>1. UNCHANGED <<state, wpc, exit, terminal, abort, artifacts>>
  BY DEF vars, taskVars, clientVars
<1>2. ConsumerOK /\ \A v \in Wave \ {w} : cpc'[v] = cpc[v]
  BY OwnSends DEF BaseInv
<1>3. ArtifactOK' /\ SuccessOK' /\ \A v \in Wave : CompletedOK(v)'
  BY <1>1 DEF OutcomeInv, ArtifactOK, SuccessOK, CompletedOK, Settled
<1>5. ASSUME NEW rows \in Seq(SegmentEmit), Sends(w, rows)
      PROVE  /\ \A v \in Wave \ {w} : out'[v] = out[v]
             /\ \A i \in DOMAIN out[w] :
                  i \in DOMAIN out'[w] /\ out'[w][i] = out[w][i]
             /\ \A i \in DOMAIN rows : \E k \in DOMAIN out'[w] :
                  out'[w][k] = rows[i]
             /\ \A k \in DOMAIN out'[w] :
                  \/ k \in DOMAIN out[w] /\ out'[w][k] = out[w][k]
                  \/ \E i \in DOMAIN rows : out'[w][k] = rows[i]
  <2>1. /\ \A v \in Wave \ {w} : out'[v] = out[v]
        /\ \A i \in DOMAIN out[w] :
             i \in DOMAIN out'[w] /\ out'[w][i] = out[w][i]
        /\ \A i \in DOMAIN rows :
             /\ i + Len(out[w]) \in DOMAIN out'[w]
             /\ out'[w][i + Len(out[w])] = rows[i]
        /\ \A i \in DOMAIN out'[w] :
             i \in DOMAIN out[w] \/ i - Len(out[w]) \in DOMAIN rows
        /\ out' \in [Wave -> Seq(SegmentEmit)]
    BY <1>2, <1>5, SentRows
  <2>2. /\ Len(out[w]) \in Nat /\ DOMAIN out'[w] = 1 .. Len(out'[w])
    BY <1>2, <2>1, LenProperties DEF ConsumerOK
  <2>3. ASSUME NEW k \in DOMAIN out'[w], k \notin DOMAIN out[w]
        PROVE  \E i \in DOMAIN rows : out'[w][k] = rows[i]
    <3>1. k - Len(out[w]) \in DOMAIN rows /\ (k - Len(out[w])) + Len(out[w]) = k
      BY <2>1, <2>2, <2>3
    <3> QED BY <2>1, <3>1
  <2> QED BY <2>1, <2>3
<1>6. /\ \A v \in Wave \ {w} : out'[v] = out[v]
      /\ \A i \in DOMAIN out[w] :
           i \in DOMAIN out'[w] /\ out'[w][i] = out[w][i]
      /\ \A k \in DOMAIN out'[w] :
           \/ k \in DOMAIN out[w] /\ out'[w][k] = out[w][k]
           \/ Truthful(w, out'[w][k]) /\ out'[w][k].task \in Task
           \/ /\ out'[w][k].exit = "canceled" /\ ~out'[w][k].final
              /\ cpc[w] = "walk"
  <2>0. \A row \in SegmentEmit : row.task \in Task
    BY DEF SegmentEmit
  <2>1. CASE UNCHANGED <<emitted, out>>
    BY <2>1
  <2>2. CASE SendsRegular(w)
    <3>1. PICK rows \in Seq(SegmentEmit) :
            /\ Sends(w, rows) /\ Fresh(w, rows)
            /\ \/ \A i \in DOMAIN rows : Truthful(w, rows[i])
               \/ /\ cpc[w] = "walk"
                  /\ \A i \in DOMAIN rows : rows[i].exit = "canceled"
      BY <2>2 DEF SendsRegular
    <3>2. \A i \in DOMAIN rows : rows[i].task \in Task
      BY <2>0, LenProperties, ElementOfSeq
    <3>3. /\ \A v \in Wave \ {w} : out'[v] = out[v]
          /\ \A i \in DOMAIN out[w] :
               i \in DOMAIN out'[w] /\ out'[w][i] = out[w][i]
          /\ \A k \in DOMAIN out'[w] :
               \/ k \in DOMAIN out[w] /\ out'[w][k] = out[w][k]
               \/ \E i \in DOMAIN rows : out'[w][k] = rows[i]
      BY <1>5, <3>1
    <3>4. \A i \in DOMAIN rows :
            \/ Truthful(w, rows[i])
            \/ rows[i].exit = "canceled" /\ ~rows[i].final /\ cpc[w] = "walk"
      BY <3>1 DEF Fresh
    <3> HIDE DEF Truthful
    <3> QED BY <3>2, <3>3, <3>4
  <2>3. CASE SendsFinal(w)
    <3>1. PICK row \in SegmentEmit :
            row.final /\ Truthful(w, row) /\ Sends(w, <<row>>)
      BY <2>3 DEF SendsFinal
    <3>2. <<row>> \in Seq(SegmentEmit) /\ \A i \in DOMAIN <<row>> : <<row>>[i] = row
      BY OneRow
    <3>3. /\ \A v \in Wave \ {w} : out'[v] = out[v]
          /\ \A i \in DOMAIN out[w] :
               i \in DOMAIN out'[w] /\ out'[w][i] = out[w][i]
          /\ \A k \in DOMAIN out'[w] :
               \/ k \in DOMAIN out[w] /\ out'[w][k] = out[w][k]
               \/ \E i \in DOMAIN <<row>> : out'[w][k] = <<row>>[i]
      BY <1>5, <3>1, <3>2
    <3>4. \A k \in DOMAIN out'[w] :
            \/ k \in DOMAIN out[w] /\ out'[w][k] = out[w][k]
            \/ out'[w][k] = row
      BY <3>2, <3>3
    <3> QED BY <2>0, <3>1, <3>3, <3>4
  <2> QED BY <2>1, <2>2, <2>3, OwnSends DEF BaseInv
<1>7. \A v \in Wave : RowOK(v)'
  <2>1. \A t \in Task : artifacts[SessionOf[w]][t] # NoArtifact
          => /\ Settled(<<w, t>>)
             /\ artifacts[SessionOf[w]][t].exit = exit[<<w, t>>]
    BY DEF OutcomeInv, ArtifactOK
  <2>2. cpc[w] = "walk" => abort[w].pc # "idle"
    BY DEF AloneInv, WaveOK, UnabortedOK
  <2>3. \A v \in Wave : RowOK(v)
    BY DEF OutcomeInv
  <2>4. RowOK(w)'
    BY <1>1, <1>6, <2>1, <2>2, <2>3 DEF RowOK, Settled, Truthful
  <2>5. ASSUME NEW v \in Wave \ {w} PROVE RowOK(v)'
    BY <1>1, <1>6, <2>3 DEF RowOK, Settled
  <2> QED BY <2>4, <2>5
<1>8. \A v \in Wave : FailureOK(v)' /\ failedIDs[v] \subseteq failedIDs'[v]
  <2>1. CASE Drain(w)
    <3>1. PICK rows \in Seq(SegmentEmit) :
            /\ Sends(w, rows)
            /\ TasksOf(rows) = NewTerminals(w)
            /\ \A i \in DOMAIN rows : ~rows[i].final /\ Truthful(w, rows[i])
      BY <2>1, DrainSends DEF BaseInv
    <3>2. /\ failedIDs'[w] = failedIDs[w] \cup
               {t \in NewTerminals(w) :
                  IsFailureArtifact(artifacts[SessionOf[w]][t])}
          /\ \A v \in Wave \ {w} : failedIDs'[v] = failedIDs[v]
      BY <1>2, <2>1 DEF Drain, ConsumerOK
    <3>3. ASSUME NEW t \in NewTerminals(w),
                 IsFailureArtifact(artifacts[SessionOf[w]][t])
          PROVE  FailureOK(w)'
      <4>1. PICK i \in DOMAIN rows : rows[i].task = t
        BY <3>1 DEF TasksOf
      <4>2. rows[i].exit = "error" /\ ~rows[i].final
        BY <3>1, <3>3, <4>1 DEF Truthful, IsFailureArtifact
      <4> QED BY <1>5, <3>1, <4>2 DEF FailureOK
    <3>4. failedIDs[w] # {} => FailureOK(w)'
      BY <1>6 DEF OutcomeInv, FailureOK
    <3>5. FailureOK(w)'
      BY <3>2, <3>3, <3>4 DEF FailureOK
    <3> QED BY <1>6, <3>2, <3>5 DEF OutcomeInv, FailureOK
  <2>2. CASE ~Drain(w)
    <3>1. failedIDs' = failedIDs
      BY <2>2 DEF OwnStep, SpawnConsumer, Tick, CallerDone, CheckFailure,
         CheckTerminal, Redrain, EmitFinal, AbortReturned, Rescan, AbortClose,
         WalkNode
    <3> QED BY <1>6, <3>1 DEF OutcomeInv, FailureOK
  <2> QED BY <2>1, <2>2
<1>9. \A v \in Wave : ReasonOK(v)'
  <2>1. \A v \in Wave : ReasonOK(v) /\ callerErr' = callerErr
    BY DEF OutcomeInv, OwnStep, SpawnConsumer, Tick, CallerDone, CheckFailure,
       CheckTerminal, Redrain, EmitFinal, AbortReturned, Rescan, AbortClose,
       WalkNode
  <2>2. cpc'[w] = "abort" => failedIDs[w] # {} \/ w \in callerErr
    BY <1>2, <2>1 DEF ConsumerOK, OwnStep, SpawnConsumer, Tick, CallerDone,
       CheckFailure, AbortDue, CheckTerminal, Redrain, EmitFinal,
       AbortReturned, Rescan, AbortClose, WalkNode, ReasonOK
  <2> QED BY <1>1, <1>2, <1>8, <2>1, <2>2 DEF ReasonOK
<1> QED BY <1>3, <1>7, <1>8, <1>9 DEF OutcomeInv

\* What the rows say holds along every behaviour.
LEMMA InductiveOutcome ==
  ASSUME Alone
  PROVE  DagSpec => [](BaseInv /\ RowsInv /\ AloneInv /\ OutcomeInv)
<1>1. DagInit => OutcomeInv
  BY SetsAssumption, GraphAssumption DEF DagInit, Init, OutcomeInv, ArtifactOK,
     SuccessOK, CompletedOK, RowOK, FailureOK, ReasonOK, Slot
<1>2. ASSUME BaseInv, AloneInv, OutcomeInv, [DagNext]_allVars
      PROVE  OutcomeInv'
  <2> USE DEF OutcomeInv, ArtifactOK, SuccessOK, CompletedOK, RowOK, FailureOK,
          ReasonOK, Settled
  <2>1. CASE UNCHANGED allVars
    BY <1>2, <2>1 DEF allVars, dagVars, vars, taskVars, clientVars
  <2>2. ASSUME NEW w \in Wave, OwnStep(w), UNCHANGED vars PROVE OutcomeInv'
    BY <1>2, <2>2, OwnOutcome
  <2>3. ASSUME NEW w \in Wave, BelowStep(w), UNCHANGED dagVars
        PROVE  OutcomeInv'
    BY <1>2, <2>3, BelowOutcome
  <2>4. ASSUME NEW w \in Wave, CallerGone(w) PROVE OutcomeInv'
    BY <1>2, <2>4 DEF CallerGone, taskVars, clientVars
  <2> QED BY <1>2, <2>1, <2>2, <2>3, <2>4, StepKinds
<1>3. OutcomeInv /\ BaseInv /\ RowsInv /\ AloneInv /\ [DagNext]_allVars
        => OutcomeInv'
  BY <1>2
<1> QED BY <1>1, <1>3, InductiveAlone, PTL DEF DagSpec

-----------------------------------------------------------------------------
(* Why a node of such a wave is cancelled                                   *)

\* The wave was aborted or its caller went away.
Gone(w) == abort[w].pc # "idle" \/ w \in callerErr

\* A Start finds no prior wave in the session, ...
NoPrior(w) ==
  /\ prior[w] = NoWave
  /\ pc[w] \notin {"cancelCtx", "cancelWorkers"}
  /\ pc[w] \in {"idle", "store"} => waves[SessionOf[w]] = NoWave

\* ... so that contexts are cancelled, and runners return context.Canceled,
\* for one of two reasons.
CancelOK(w) ==
  /\ w \in ctxErr => Gone(w)
  /\ \A t \in Task :
       <<w, t>> \in cancelled \/ exit[<<w, t>>] = "canceled" => Gone(w)

CancelInv == \A w \in Wave : NoPrior(w) /\ CancelOK(w)

\* The scheduler cancels nothing of its own accord.
LEMMA BelowCancel ==
  ASSUME Alone, BaseInv, AloneInv, CancelInv, NEW w \in Wave, BelowStep(w),
         UNCHANGED dagVars
  PROVE  CancelInv'
<1>0. \A v \in Wave : Gone(v) => Gone(v)'
  BY AbortReach DEF Gone, dagVars
<1> USE DEF CancelInv, NoPrior, CancelOK, BaseInv, IndInv, TypeInv, TypeOK,
            taskVars, slotVars, clientVars, loopVars
<1>1. CASE StartStep(w)
  <2>1. CASE StartRead(w)
    BY <1>0, <2>1 DEF StartRead
  <2>2. CASE StartStore(w)
    <3>1. \A v \in Wave \ {w} : waves'[SessionOf[v]] = waves[SessionOf[v]]
      BY <2>2, GraphAssumption DEF StartStore, Alone
    <3> QED BY <1>0, <2>2, <3>1 DEF StartStore, AfterStore
  <2>3. CASE StartCancelCtx(w) \/ StartCancelWorkers(w)
    BY <2>3 DEF StartCancelCtx, StartCancelWorkers
  <2> QED BY <1>1, <2>1, <2>2, <2>3 DEF StartStep
<1>2. CASE LoopCancelled(w)
  BY <1>0, <1>2 DEF LoopCancelled, HandlesOf
<1>3. ASSUME NEW t \in Nodes[w], FailFast(w, t) PROVE CancelInv'
  BY <1>0, <1>3 DEF FailFast
<1>4. CASE LoopStep(w) /\ ~LoopCancelled(w)
             /\ ~\E t \in Nodes[w] : FailFast(w, t)
  <2>1. /\ UNCHANGED <<waves, prior, ctxErr, cancelled, exit>>
        /\ \A v \in Wave : pc'[v] = pc[v]
             \/ pc'[v] \notin {"idle", "store", "cancelCtx", "cancelWorkers"}
    BY <1>4 DEF LoopStep, LoopSuperseded, LoopFinished, LoopSnapshot, LoopWait,
       LoopTick, FailFastReturn, ReleaseRejected, Acquire, SkipNoSlot,
       Register, Reject, SetRunning, StartWorker
  <2> QED BY <1>0, <2>1
<1>5. ASSUME NEW t \in Nodes[w], CompleteTask(w, t) PROVE CancelInv'
  BY <1>0, <1>5 DEF CompleteTask, PutArtifact, FreeSlot, SetTerminal,
     DropHandle
<1>6. ASSUME NEW t \in Nodes[w], NEW code \in {"ok", "error", "canceled"},
             WorkerReturn(w, t, code)
      PROVE  CancelInv'
  <2>1. <<w, t>> \in Slot
    BY GraphAssumption DEF Slot
  <2> QED BY <1>0, <1>6, <2>1, GraphAssumption DEF WorkerReturn
<1>7. CASE cpc[w] = "abort" /\ AbortRead(w)
  BY <1>0, <1>7 DEF AbortRead
<1>8. CASE cpc[w] = "abort" /\ AbortStep(w)
  <2>1. abort[w].pc # "idle" /\ abort[w].target \in {NoWave, w}
    BY <1>8 DEF AbortStep, AbortCtx, AbortWorkers, AbortPending, AloneInv,
       ReachOK
  <2>2. Gone(w)' /\ w # NoWave /\ NoWave \notin Wave
    BY <1>0, <2>1, SetsAssumption DEF Gone
  <2> QED BY <1>0, <1>8, <2>1, <2>2 DEF AbortStep, AbortCtx, AbortWorkers,
          AbortPending, HandlesOf
<1>9. ASSUME NEW t \in Nodes[w],
             CancelWorkerRead(w, t) \/ CancelWorkerMark(w, t)
      PROVE  FALSE
  BY <1>9 DEF CancelWorkerRead, CancelWorkerMark, Alone, AloneInv, ReachOK
<1> QED BY <1>1, <1>2, <1>3, <1>4, <1>5, <1>6, <1>7, <1>8, <1>9
        DEF BelowStep, SchedulerStep

\* It holds along every behaviour.
LEMMA InductiveCancel ==
  ASSUME Alone
  PROVE  DagSpec => []CancelInv
<1>1. DagInit => CancelInv
  BY GraphAssumption DEF DagInit, Init, CancelInv, NoPrior, CancelOK, Slot
<1>2. ASSUME BaseInv, AloneInv, CancelInv, [DagNext]_allVars
      PROVE  CancelInv'
  <2> USE DEF CancelInv, NoPrior, CancelOK, Gone
  <2>1. CASE UNCHANGED allVars
    BY <1>2, <2>1 DEF allVars, dagVars, vars, loopVars, taskVars, clientVars
  <2>2. ASSUME NEW w \in Wave, OwnStep(w), UNCHANGED vars PROVE CancelInv'
    <3>1. callerErr' = callerErr
      BY <2>2 DEF OwnStep, SpawnConsumer, Tick, CallerDone, CheckFailure,
         CheckTerminal, Redrain, EmitFinal, AbortReturned, Rescan, AbortClose,
         WalkNode
    <3> QED BY <1>2, <2>2, <3>1 DEF vars, loopVars, taskVars, clientVars
  <2>3. ASSUME NEW w \in Wave, BelowStep(w), UNCHANGED dagVars
        PROVE  CancelInv'
    BY <1>2, <2>3, BelowCancel
  <2>4. ASSUME NEW w \in Wave, CallerGone(w) PROVE CancelInv'
    BY <1>2, <2>4 DEF CallerGone, taskVars, clientVars
  <2> QED BY <1>2, <2>1, <2>2, <2>3, <2>4, StepKinds
<1>3. CancelInv /\ (BaseInv /\ RowsInv /\ AloneInv) /\ [DagNext]_allVars
        => CancelInv'
  BY <1>2
<1> QED BY <1>1, <1>3, InductiveAlone, PTL DEF DagSpec

-----------------------------------------------------------------------------
(* The round                                                                *)

\* The round takes rows and leaves the executor alone: what holds of waves and
\* channels holds under executePlanDAG.
THEOREM RunsExecutor == PlanSpec => DagSpec
<1>1. PlanInit => DagInit
  BY DEF PlanInit
<1>2. [PlanNext]_planVars => [DagNext]_allVars
  BY DEF PlanNext, RoundStep, Receive, FinishRound, planVars
<1> QED BY <1>1, <1>2, PTL DEF PlanSpec, DagSpec

RoundTypeOK ==
  /\ received \in [Wave -> Nat]
  /\ outcomes \in [Wave -> Seq(SegmentEmit)]
  /\ DOMAIN round = Wave

\* Every kept row was sent, and every task of a taken row has a kept row.
KeptOK(w) ==
  /\ received[w] <= Len(out[w])
  /\ \A k \in DOMAIN outcomes[w] : \E i \in 1 .. received[w] :
       outcomes[w][k] = out[w][i]
  /\ \A i \in 1 .. received[w] : \E k \in DOMAIN outcomes[w] :
       outcomes[w][k].task = out[w][i].task

\* A round is the fold of all rows of a closed channel.
VerdictOK(w) ==
  round[w] # NoRound =>
    /\ cpc[w] = "closed" /\ received[w] = Len(out[w])
    /\ round[w].kind = Rollup({SegmentVerdict(outcomes[w][i]) :
                                 i \in DOMAIN outcomes[w]})

RoundInv ==
  /\ RoundTypeOK /\ ChildCountsOnce
  /\ \A w \in Wave : KeptOK(w) /\ VerdictOK(w)

\* An interval from 1 that lies in another one is no longer than it.
LEMMA IntervalFits ==
  ASSUME NEW m \in Nat, NEW n \in Nat, \A i \in 1 .. m : i \in 1 .. n
  PROVE  m <= n
<1>1. CASE m = 0
  BY <1>1
<1>2. CASE m # 0
  <2>1. m \in 1 .. m
    BY <1>2
  <2>2. m \in 1 .. n
    BY <2>1
  <2> QED BY <2>2
<1> QED BY <1>1, <1>2

\* A channel grows at its end, and not after it is closed.
LEMMA ChannelGrows ==
  ASSUME BaseInv, [DagNext]_allVars, NEW w \in Wave
  PROVE  /\ Len(out[w]) \in Nat /\ Len(out[w]) <= Len(out'[w])
         /\ \A i \in 1 .. Len(out[w]) : out'[w][i] = out[w][i]
         /\ cpc[w] = "closed" => cpc'[w] = "closed" /\ out'[w] = out[w]
<1>1. /\ out[w] \in Seq(SegmentEmit) /\ Len(out[w]) \in Nat
      /\ DOMAIN out[w] = 1 .. Len(out[w])
  BY LenProperties DEF BaseInv, ConsumerOK
<1>2. CASE cpc'[w] = cpc[w] /\ out'[w] = out[w]
  BY <1>1, <1>2
<1>3. ASSUME NEW v \in Wave, OwnStep(v), ~(cpc'[w] = cpc[w] /\ out'[w] = out[w])
      PROVE  /\ Len(out[w]) <= Len(out'[w])
             /\ \A i \in 1 .. Len(out[w]) : out'[w][i] = out[w][i]
             /\ cpc[w] # "closed"
  <2>1. CASE UNCHANGED <<emitted, out>>
    BY <1>1, <1>3, <2>1, OwnSends DEF BaseInv
  <2>2. ASSUME NEW rows \in Seq(SegmentEmit), Sends(v, rows)
        PROVE  /\ Len(out[w]) <= Len(out'[w])
               /\ \A i \in 1 .. Len(out[w]) : out'[w][i] = out[w][i]
               /\ cpc[w] # "closed"
    <3>1. /\ out' \in [Wave -> Seq(SegmentEmit)]
          /\ w # v => out'[w] = out[w]
          /\ w = v => \A i \in DOMAIN out[w] :
                        i \in DOMAIN out'[w] /\ out'[w][i] = out[w][i]
      BY <2>2, SentRows DEF BaseInv
    <3>2. /\ DOMAIN out'[w] = 1 .. Len(out'[w]) /\ Len(out'[w]) \in Nat
      BY <3>1, LenProperties
    <3>3. w = v
      BY <1>3, <3>1, OwnSends DEF BaseInv
    <3>4. Len(out[w]) <= Len(out'[w])
      <4>1. \A i \in DOMAIN out[w] : i \in DOMAIN out'[w]
        BY <3>1, <3>3
      <4>2. \A i \in 1 .. Len(out[w]) : i \in 1 .. Len(out'[w])
        BY <1>1, <3>2, <4>1
      <4> QED BY <1>1, <3>2, <4>2, IntervalFits
    <3>5. cpc[w] # "closed"
      BY <1>3, <3>3, OwnSends DEF BaseInv
    <3> QED BY <1>1, <3>1, <3>3, <3>4, <3>5
  <2>3. CASE SendsRegular(v)
    BY <2>2, <2>3 DEF SendsRegular
  <2>4. CASE SendsFinal(v)
    BY <2>2, <2>4, OneRow DEF SendsFinal
  <2> QED BY <1>3, <2>1, <2>3, <2>4, OwnSends DEF BaseInv
<1>4. ASSUME NEW v \in Wave, CallerGone(v)
      PROVE  cpc'[w] = cpc[w] /\ out'[w] = out[w]
  BY <1>4 DEF CallerGone
<1>5. ASSUME UNCHANGED dagVars PROVE cpc'[w] = cpc[w] /\ out'[w] = out[w]
  BY <1>5 DEF dagVars
<1> QED BY <1>1, <1>2, <1>3, <1>4, <1>5, StepKinds DEF allVars

\* The executor's steps keep the round's invariant.
LEMMA BelowRound ==
  ASSUME BaseInv, RoundInv, [DagNext]_allVars, UNCHANGED roundVars
  PROVE  RoundInv'
<1>1. RoundTypeOK' /\ ChildCountsOnce'
  BY DEF RoundInv, RoundTypeOK, ChildCountsOnce, roundVars
<1>2. ASSUME NEW w \in Wave PROVE KeptOK(w)' /\ VerdictOK(w)'
  <2>1. /\ Len(out[w]) \in Nat /\ Len(out[w]) <= Len(out'[w])
        /\ \A i \in 1 .. Len(out[w]) : out'[w][i] = out[w][i]
        /\ cpc[w] = "closed" => cpc'[w] = "closed" /\ out'[w] = out[w]
    BY ChannelGrows
  <2>2. /\ received[w] \in Nat /\ KeptOK(w) /\ VerdictOK(w)
        /\ Len(out'[w]) \in Nat
    <3>1. out'[w] \in Seq(SegmentEmit)
      BY NextConsumer DEF BaseInv, ConsumerOK
    <3> QED BY <3>1, LenProperties DEF RoundInv, RoundTypeOK
  <2>3. \A i \in 1 .. received[w] : out'[w][i] = out[w][i]
    BY <2>1, <2>2 DEF KeptOK
  <2>4. received[w] <= Len(out'[w])
    BY <2>1, <2>2 DEF KeptOK
  <2>5. KeptOK(w)'
    <3>1. received' = received /\ outcomes' = outcomes
      BY DEF roundVars
    <3>2. \A k \in DOMAIN outcomes[w] : \E i \in 1 .. received[w] :
            outcomes[w][k] = out'[w][i]
      BY <2>2, <2>3 DEF KeptOK
    <3>3. \A i \in 1 .. received[w] : \E k \in DOMAIN outcomes[w] :
            outcomes[w][k].task = out'[w][i].task
      BY ZenonT(60), <2>2, <2>3 DEF KeptOK
    <3> QED BY <2>4, <3>1, <3>2, <3>3 DEF KeptOK
  <2>6. VerdictOK(w)'
    BY <2>1, <2>2 DEF VerdictOK, roundVars
  <2> QED BY <2>5, <2>6
<1> QED BY <1>1, <1>2 DEF RoundInv

\* Taking a row keeps it: the dedup table drops it only for a kept one.
LEMMA ReceiveRound ==
  ASSUME BaseInv, RoundInv, NEW w \in Wave, Receive(w)
  PROVE  RoundInv'
<1> DEFINE e == out[w][received[w] + 1]
           n == received[w]
           old == outcomes[w]
<1>1. /\ out[w] \in Seq(SegmentEmit) /\ Len(out[w]) \in Nat
      /\ old \in Seq(SegmentEmit) /\ Len(old) \in Nat
      /\ DOMAIN old = 1 .. Len(old) /\ n \in Nat /\ n < Len(out[w])
  BY LenProperties DEF BaseInv, ConsumerOK, RoundInv, RoundTypeOK, Receive
<1>2. e \in SegmentEmit
  BY <1>1, ElementOfSeq
<1>3. /\ received' = [received EXCEPT ![w] = n + 1]
      /\ outcomes' = [outcomes EXCEPT ![w] =
                        IF MarkAndCheck(w, e) THEN Append(old, e) ELSE old]
      /\ UNCHANGED <<cpc, out, round>> /\ round[w] = NoRound
  BY DEF Receive, RoundInv, RoundTypeOK, allVars, dagVars
<1>4. /\ Append(old, e) \in Seq(SegmentEmit)
      /\ DOMAIN Append(old, e) = 1 .. Len(old) + 1
      /\ \A k \in 1 .. Len(old) : Append(old, e)[k] = old[k]
      /\ Append(old, e)[Len(old) + 1] = e
  BY <1>1, <1>2, AppendProperties
<1> HIDE DEF e
<1>5. RoundTypeOK'
  <2>1. received' \in [Wave -> Nat]
    BY <1>1, <1>3 DEF RoundInv, RoundTypeOK
  <2>2. (IF MarkAndCheck(w, e) THEN Append(old, e) ELSE old) \in Seq(SegmentEmit)
    BY <1>1, <1>4
  <2>3. outcomes' \in [Wave -> Seq(SegmentEmit)]
    BY <1>3, <2>2 DEF RoundInv, RoundTypeOK
  <2> QED BY <1>3, <2>1, <2>3 DEF RoundInv, RoundTypeOK
<1>6. /\ received'[w] = n + 1
      /\ outcomes'[w] = IF MarkAndCheck(w, e) THEN Append(old, e) ELSE old
      /\ \A v \in Wave \ {w} : received'[v] = received[v]
                               /\ outcomes'[v] = outcomes[v]
  BY <1>3 DEF RoundInv, RoundTypeOK
<1>7. ChildCountsOnce'
  <2>1. \A v \in Wave \ {w} : \A i, j \in DOMAIN outcomes'[v] :
          i # j => outcomes'[v][i].task # outcomes'[v][j].task
    BY <1>6 DEF RoundInv, ChildCountsOnce
  <2>2. \A i, j \in DOMAIN old : i # j => old[i].task # old[j].task
    BY DEF RoundInv, ChildCountsOnce
  <2>3. CASE MarkAndCheck(w, e)
    <3>1. \A i \in 1 .. Len(old) : old[i].task # e.task
      BY <1>1, <2>3 DEF MarkAndCheck
    <3>2. outcomes'[w] = Append(old, e)
      BY <1>6, <2>3
    <3>3. ASSUME NEW i \in 1 .. Len(old) + 1, NEW j \in 1 .. Len(old) + 1, i # j
          PROVE  outcomes'[w][i].task # outcomes'[w][j].task
      <4>1. CASE i \in 1 .. Len(old) /\ j \in 1 .. Len(old)
        BY <1>1, <1>4, <2>2, <3>2, <3>3, <4>1
      <4>2. CASE i = Len(old) + 1 /\ j \in 1 .. Len(old)
        BY <1>4, <3>1, <3>2, <4>2
      <4>3. CASE j = Len(old) + 1 /\ i \in 1 .. Len(old)
        BY <1>4, <3>1, <3>2, <4>3
      <4>4. /\ i \in 1 .. Len(old) \/ i = Len(old) + 1
            /\ j \in 1 .. Len(old) \/ j = Len(old) + 1
        <5>1. Len(old) \in Nat
          BY <1>1
        <5> QED BY <5>1
      <4> QED BY <3>3, <4>1, <4>2, <4>3, <4>4
    <3>4. DOMAIN outcomes'[w] = 1 .. Len(old) + 1
      BY <1>4, <3>2
    <3> QED BY <2>1, <3>3, <3>4 DEF ChildCountsOnce
  <2>4. CASE ~MarkAndCheck(w, e)
    BY <1>6, <2>1, <2>2, <2>4 DEF ChildCountsOnce
  <2> QED BY <2>3, <2>4
<1>8. KeptOK(w)'
  <2>1. n + 1 <= Len(out[w]) /\ out' = out /\ e = out[w][n + 1]
    BY <1>1, <1>3 DEF e
  <2>2. KeptOK(w)
    BY DEF RoundInv
  <2>3. \A i \in 1 .. n : i \in 1 .. n + 1
    BY <1>1
  <2>4. n + 1 \in 1 .. n + 1 /\ \A i \in 1 .. n + 1 : i \in 1 .. n \/ i = n + 1
    BY <1>1
  <2>5. CASE MarkAndCheck(w, e)
    <3>1. outcomes'[w] = Append(old, e) /\ Len(old) + 1 \in 1 .. Len(old) + 1
      BY <1>1, <1>6, <2>5
    <3>2. /\ DOMAIN outcomes'[w] = 1 .. Len(old) + 1
          /\ \A k \in DOMAIN old : k \in 1 .. Len(old) + 1
                                   /\ outcomes'[w][k] = old[k]
          /\ outcomes'[w][Len(old) + 1] = e
          /\ \A k \in 1 .. Len(old) + 1 : k \in DOMAIN old \/ k = Len(old) + 1
      BY <1>1, <1>4, <3>1
    <3>3. \A k \in DOMAIN outcomes'[w] : \E i \in 1 .. n + 1 :
            outcomes'[w][k] = out[w][i]
      BY ZenonT(60), <2>1, <2>2, <2>3, <2>4, <3>2 DEF KeptOK
    <3>4. \A i \in 1 .. n + 1 : \E k \in DOMAIN outcomes'[w] :
            outcomes'[w][k].task = out[w][i].task
      BY ZenonT(60), <2>1, <2>2, <2>4, <3>1, <3>2 DEF KeptOK
    <3> QED BY <1>6, <2>1, <3>3, <3>4 DEF KeptOK
  <2>6. CASE ~MarkAndCheck(w, e)
    <3>1. outcomes'[w] = old /\ received'[w] = n + 1 /\ out' = out
      BY <1>6, <2>1, <2>6
    <3>2. \E k \in DOMAIN old : old[k].task = e.task
      BY <2>6 DEF MarkAndCheck
    <3>3. \A k \in DOMAIN old : \E i \in 1 .. n + 1 : old[k] = out[w][i]
      BY <2>2, <2>3 DEF KeptOK
    <3>4. \A i \in 1 .. n + 1 : \E k \in DOMAIN old :
            old[k].task = out[w][i].task
      <4>1. \A i \in 1 .. n : \E k \in DOMAIN old :
              old[k].task = out[w][i].task
        BY <2>2 DEF KeptOK
      <4> QED BY <2>1, <2>4, <3>2, <4>1
    <3>5. received'[w] <= Len(out'[w])
      BY <2>1, <3>1
    <3>6. \A k \in DOMAIN outcomes'[w] : \E i \in 1 .. received'[w] :
            outcomes'[w][k] = out'[w][i]
      BY <3>1, <3>3
    <3>7. \A i \in 1 .. received'[w] : \E k \in DOMAIN outcomes'[w] :
            outcomes'[w][k].task = out'[w][i].task
      BY <3>1, <3>4
    <3> QED BY <3>5, <3>6, <3>7 DEF KeptOK
  <2> QED BY <2>5, <2>6
<1>9. ASSUME NEW v \in Wave \ {w} PROVE KeptOK(v)'
  <2>1. received'[v] = received[v] /\ outcomes'[v] = outcomes[v] /\ out' = out
    BY <1>3, <1>6
  <2>2. KeptOK(v)
    BY DEF RoundInv
  <2>3. received'[v] <= Len(out'[v])
    BY <2>1, <2>2 DEF KeptOK
  <2>4. \A k \in DOMAIN outcomes'[v] : \E i \in 1 .. received'[v] :
          outcomes'[v][k] = out'[v][i]
    BY <2>1, <2>2 DEF KeptOK
  <2>5. \A i \in 1 .. received'[v] : \E k \in DOMAIN outcomes'[v] :
          outcomes'[v][k].task = out'[v][i].task
    BY <2>1, <2>2 DEF KeptOK
  <2> QED BY <2>3, <2>4, <2>5 DEF KeptOK
<1>10. ASSUME NEW v \in Wave PROVE VerdictOK(v)'
  <2>1. CASE v = w
    BY <1>3, <2>1 DEF VerdictOK
  <2>2. CASE v # w
    <3>1. /\ received'[v] = received[v] /\ outcomes'[v] = outcomes[v]
          /\ UNCHANGED <<cpc, out, round>>
      BY <1>3, <1>6, <2>2
    <3>2. VerdictOK(v)
      BY DEF RoundInv
    <3> QED BY <3>1, <3>2 DEF VerdictOK, SegmentVerdict
  <2> QED BY <2>1, <2>2
<1> QED BY <1>5, <1>7, <1>8, <1>9, <1>10 DEF RoundInv

\* So does the fold.
LEMMA FinishRoundInv ==
  ASSUME RoundInv, NEW w \in Wave, FinishRound(w)
  PROVE  RoundInv'
<1>1. UNCHANGED <<cpc, out, received, outcomes>>
  BY DEF FinishRound, allVars, dagVars
<1>2. RoundTypeOK' /\ ChildCountsOnce' /\ \A v \in Wave : KeptOK(v)'
  BY <1>1 DEF RoundInv, RoundTypeOK, ChildCountsOnce, KeptOK, FinishRound
<1>3. \A v \in Wave \ {w} : round'[v] = round[v]
  BY DEF RoundInv, RoundTypeOK, FinishRound
<1>4. VerdictOK(w)'
  BY <1>1 DEF RoundInv, RoundTypeOK, FinishRound, VerdictOK, SegmentVerdict
<1>5. \A v \in Wave \ {w} : VerdictOK(v)'
  BY <1>1, <1>3 DEF RoundInv, VerdictOK, SegmentVerdict
<1> QED BY <1>2, <1>4, <1>5 DEF RoundInv

\* The round's invariant holds along every behaviour.
LEMMA InductiveRound == PlanSpec => [](BaseInv /\ RoundInv)
<1>1. PlanInit => RoundInv
  BY DEF PlanInit, DagInit, RoundInv, RoundTypeOK, ChildCountsOnce, KeptOK,
     VerdictOK
<1>2. ASSUME BaseInv, RoundInv, [PlanNext]_planVars PROVE RoundInv'
  <2>1. CASE UNCHANGED planVars
    BY <1>2, <2>1, BelowRound DEF planVars
  <2>2. CASE DagNext /\ UNCHANGED roundVars
    BY <1>2, <2>2, BelowRound
  <2>3. ASSUME NEW w \in Wave, RoundStep(w) PROVE RoundInv'
    BY <1>2, <2>3, ReceiveRound, FinishRoundInv DEF RoundStep
  <2> QED BY <1>2, <2>1, <2>2, <2>3 DEF PlanNext
<1>3. RoundInv /\ BaseInv /\ [PlanNext]_planVars => RoundInv'
  BY <1>2
<1> QED BY <1>1, <1>3, RunsExecutor, InductiveBase, PTL DEF PlanSpec

\* Every child counts once in the rollup, whatever the executor sends twice.
THEOREM CountedOnce == PlanSpec => []ChildCountsOnce
<1>1. RoundInv => ChildCountsOnce
  BY DEF RoundInv
<1> QED BY <1>1, InductiveRound, PTL

\* What a round's verdict is folded from: the rows sent, none left out.
LEMMA FoldedRows ==
  ASSUME BaseInv, RoundInv, NEW w \in Wave, round[w] # NoRound
  PROVE  /\ cpc[w] = "closed"
         /\ round[w].kind = Rollup({SegmentVerdict(outcomes[w][i]) :
                                      i \in DOMAIN outcomes[w]})
         /\ \A k \in DOMAIN outcomes[w] :
              /\ outcomes[w][k] \in SegmentEmit
              /\ \E i \in DOMAIN out[w] : outcomes[w][k] = out[w][i]
         /\ \A i \in DOMAIN out[w] : \E k \in DOMAIN outcomes[w] :
              outcomes[w][k].task = out[w][i].task
<1>1. /\ cpc[w] = "closed" /\ received[w] = Len(out[w])
      /\ round[w].kind = Rollup({SegmentVerdict(outcomes[w][i]) :
                                   i \in DOMAIN outcomes[w]})
  BY DEF RoundInv, VerdictOK
<1>2. /\ DOMAIN out[w] = 1 .. Len(out[w])
      /\ \A i \in DOMAIN out[w] : out[w][i] \in SegmentEmit
  <2>1. out[w] \in Seq(SegmentEmit)
    BY DEF BaseInv, ConsumerOK
  <2> QED BY <2>1, LenProperties, ElementOfSeq
<1>3. /\ \A k \in DOMAIN outcomes[w] : \E i \in DOMAIN out[w] :
           outcomes[w][k] = out[w][i]
      /\ \A i \in DOMAIN out[w] : \E k \in DOMAIN outcomes[w] :
           outcomes[w][k].task = out[w][i].task
  BY <1>1, <1>2 DEF RoundInv, KeptOK
<1> QED BY <1>1, <1>2, <1>3

\* An aborted wave whose caller is there makes its round fail: the failure that
\* is the reason has been sent, the dedup table keeps it, and the fold puts it
\* before all others.
LEMMA AbortedFails ==
  ASSUME BaseInv, RowsInv, AloneInv, OutcomeInv, RoundInv, NEW w \in Wave,
         round[w] # NoRound, w \notin callerErr, abort[w].pc # "idle"
  PROVE  round[w].kind = "fail"
<1>1. PICK i \in DOMAIN out[w] : out[w][i].exit = "error" /\ ~out[w][i].final
  BY DEF OutcomeInv, ReasonOK, FailureOK
<1>2. PICK k \in DOMAIN outcomes[w] : outcomes[w][k].task = out[w][i].task
  BY FoldedRows
<1>3. PICK j \in DOMAIN out[w] : outcomes[w][k] = out[w][j]
  BY FoldedRows
<1>4. ~out[w][j].final
  BY DEF AloneInv, WaveOK, UnabortedOK, HasFinal
<1>5. i = j
  BY <1>1, <1>2, <1>3, <1>4 DEF RowsInv, OneRowPerNode
<1>6. SegmentVerdict(outcomes[w][k]) = "fail"
  BY <1>1, <1>3, <1>5 DEF SegmentVerdict
<1> QED BY <1>6, FoldedRows DEF Rollup

\* On a wave that was not aborted every node has ended and has a kept row, and
\* all kept rows say how their nodes' workers ended.
LEMMA UnabortedRows ==
  ASSUME BaseInv, RowsInv, AloneInv, OutcomeInv, RoundInv, NEW w \in Wave,
         round[w] # NoRound, abort[w].pc = "idle"
  PROVE  /\ \A t \in Nodes[w] :
              /\ wpc[<<w, t>>] \in {"drop", "done"}
              /\ \E k \in DOMAIN outcomes[w] : outcomes[w][k].task = t
         /\ \A k \in DOMAIN outcomes[w] :
              outcomes[w][k].exit = exit[<<w, outcomes[w][k].task>>]
<1>1. ASSUME NEW t \in Nodes[w]
      PROVE  /\ wpc[<<w, t>>] \in {"drop", "done"}
             /\ \E k \in DOMAIN outcomes[w] : outcomes[w][k].task = t
  <2>1. t \in emitted[w] /\ wpc[<<w, t>>] \in {"drop", "done"}
    BY FoldedRows DEF AloneInv, WaveOK, EndedOK, FinishedOK, CompleteOK,
       ClosedUnaborted, AllTerminal
  <2>2. \E i \in DOMAIN out[w] : out[w][i].task = t
    BY <2>1 DEF RowsInv, SentOK, TasksOf
  <2> QED BY <2>1, <2>2, FoldedRows
<1>2. ASSUME NEW k \in DOMAIN outcomes[w]
      PROVE  outcomes[w][k].exit = exit[<<w, outcomes[w][k].task>>]
  BY ZenonT(60), FoldedRows DEF OutcomeInv, RowOK
<1> QED BY <1>1, <1>2

\* A round of a wave alone in its session is reported as passed only if every
\* node completed or the caller left: a pass means that no kept row is an error
\* or a cancellation, hence no abort, and a row for each node.
THEOREM PassIsTrue ==
  ASSUME Alone
  PROVE  PlanSpec => []PassMeansCompleted
<1>1. ASSUME BaseInv, RowsInv, AloneInv, OutcomeInv, RoundInv, NEW w \in Wave,
             round[w] # NoRound, round[w].kind = "pass", w \notin callerErr
      PROVE  \A t \in Nodes[w] : state[<<w, t>>] = "completed"
  <2>1. abort[w].pc = "idle"
    BY <1>1, AbortedFails
  <2>2. ASSUME NEW t \in Nodes[w] PROVE state[<<w, t>>] = "completed"
    <3>1. PICK k \in DOMAIN outcomes[w] : outcomes[w][k].task = t
      BY <1>1, <2>1, UnabortedRows
    <3>2. SegmentVerdict(outcomes[w][k]) = "pass"
      BY <1>1, FoldedRows DEF Rollup, SegmentVerdict, SegmentEmit, ExitCode
    <3>3. outcomes[w][k].exit = "ok"
      <4>1. outcomes[w][k].exit \in ExitCode \ {"none"}
        BY <1>1, FoldedRows DEF SegmentEmit
      <4> QED BY <3>2, <4>1 DEF SegmentVerdict, ExitCode
    <3>4. exit[<<w, t>>] = "ok" /\ wpc[<<w, t>>] \in {"drop", "done"}
      BY <1>1, <2>1, <3>1, <3>3, UnabortedRows
    <3> QED BY <2>1, <3>4, <1>1 DEF OutcomeInv, CompletedOK
  <2> QED BY <2>2
<1>2. BaseInv /\ RowsInv /\ AloneInv /\ OutcomeInv /\ RoundInv
        => PassMeansCompleted
  BY <1>1 DEF PassMeansCompleted, Finished
<1> QED BY <1>2, InductiveRound, InductiveOutcome, RunsExecutor, PTL

\* A round of such a wave, of a plan that has nodes, asks for a retry only if
\* its caller went away: without an abort no worker is cancelled, and the
\* cancellations of an abort are outvoted by the failure that caused it.
THEOREM RetryIsTrue ==
  ASSUME Alone, \A w \in Wave : Nodes[w] # {}
  PROVE  PlanSpec => []RetryOnlyIfCancelled
<1>1. ASSUME BaseInv, RowsInv, AloneInv, OutcomeInv, CancelInv, RoundInv,
             NEW w \in Wave,
             round[w] # NoRound, round[w].kind = "indeterminate"
      PROVE  w \in callerErr
  <2>1. SUFFICES ASSUME w \notin callerErr PROVE FALSE
    OBVIOUS
  <2>2. abort[w].pc = "idle"
    BY <1>1, <2>1, AbortedFails
  <2>3. PICK t \in Nodes[w] : TRUE
    OBVIOUS
  <2>4. PICK k \in DOMAIN outcomes[w] : outcomes[w][k].task = t
    BY <1>1, <2>2, UnabortedRows
  <2>5. ASSUME NEW i \in DOMAIN outcomes[w]
        PROVE  SegmentVerdict(outcomes[w][i]) # "indeterminate"
    <3>1. /\ outcomes[w][i] \in SegmentEmit
          /\ outcomes[w][i].exit = exit[<<w, outcomes[w][i].task>>]
      BY <1>1, <2>2, FoldedRows, UnabortedRows
    <3>2. outcomes[w][i].task \in Task
      BY <3>1 DEF SegmentEmit
    <3>3. outcomes[w][i].exit # "canceled"
      BY <1>1, <2>1, <2>2, <3>1, <3>2 DEF CancelInv, CancelOK, Gone
    <3> QED BY <3>1, <3>3 DEF SegmentVerdict, SegmentEmit, ExitCode
  <2>6. {SegmentVerdict(outcomes[w][i]) : i \in DOMAIN outcomes[w]} # {}
    BY <2>4
  <2>7. "indeterminate" \notin
          {SegmentVerdict(outcomes[w][i]) : i \in DOMAIN outcomes[w]}
    BY <2>5
  <2> QED BY <1>1, <2>6, <2>7, FoldedRows DEF Rollup
<1>2. BaseInv /\ RowsInv /\ AloneInv /\ OutcomeInv /\ CancelInv /\ RoundInv
        => RetryOnlyIfCancelled
  BY <1>1 DEF RetryOnlyIfCancelled, Finished
<1> QED BY <1>2, InductiveRound, InductiveOutcome, InductiveCancel,
        RunsExecutor, PTL

=============================================================================
