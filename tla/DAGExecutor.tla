---------------------------- MODULE DAGExecutor ----------------------------
(***************************************************************************)
(* wavescheduler/dag_executor.go: RunPlanDAG starts a wave and spawns a     *)
(* consumer that polls the artifact store, emits one SegmentEmit per result *)
(* on a channel, and aborts the wave on a failure or when its caller's      *)
(* context is cancelled.  Wave w stands for one RunPlanDAG call, its        *)
(* consumer included; the sends never block, the channel being buffered.    *)
(***************************************************************************)
EXTENDS WaveScheduler, Sequences, SequencesExt

VARIABLES
  cpc,        \* where the consumer of each wave is
  callerErr,  \* waves whose caller's context is cancelled
  emitted,    \* the consumer's "emitted" map
  failedIDs,  \* the consumer's "failedIDs"
  unwalked,   \* the node ids abortAndDrain has still to walk
  out         \* what was sent on the channel so far

dagVars == <<cpc, callerErr, emitted, failedIDs, unwalked, out>>
allVars == <<vars, dagVars>>

CPC == {"idle", "poll", "check", "redrain", "final", "abort", "rescan", "walk",
        "closed"}

\* SegmentEmit: the node, the wave that produced the artifact (NoWave for a
\* row the executor makes up), its ExitCode and IsFinal.
SegmentEmit ==
  [task : Task, wave : Wave \cup {NoWave}, exit : ExitCode \ {"none"},
   final : BOOLEAN]

\* The consumer's state is well typed.
DagTypeOK ==
  /\ TypeOK
  /\ cpc \in [Wave -> CPC]
  /\ callerErr \subseteq Wave
  /\ emitted \in [Wave -> SUBSET Task]
  /\ failedIDs \in [Wave -> SUBSET Task]
  /\ unwalked \in [Wave -> SUBSET Task]
  /\ out \in [Wave -> Seq(SegmentEmit)]

DagInit ==
  /\ Init
  /\ cpc = [w \in Wave |-> "idle"]
  /\ callerErr = {}
  /\ emitted = [w \in Wave |-> {}]
  /\ failedIDs = [w \in Wave |-> {}]
  /\ unwalked = [w \in Wave |-> {}]
  /\ out = [w \in Wave |-> <<>>]

-----------------------------------------------------------------------------
\* isFailureArtifact: neither success nor cancellation.
IsFailureArtifact(art) == art.exit = "error"

\* artifactToEmit
ArtifactToEmit(t, art, final) ==
  [task |-> t, wave |-> art.wave, exit |-> art.exit, final |-> final]

\* The tasks of the session with an artifact this consumer has not emitted.
NewTerminals(w) ==
  {t \in Task : artifacts[SessionOf[w]][t] # NoArtifact} \ emitted[w]

\* drainAnyNewTerminals emits them in map order and collects the failures.
Drain(w) ==
  LET new == NewTerminals(w)
      art(t) == artifacts[SessionOf[w]][t]
  IN /\ emitted' = [emitted EXCEPT ![w] = @ \cup new]
     /\ failedIDs' = [failedIDs EXCEPT ![w] =
                        @ \cup {t \in new : IsFailureArtifact(art(t))}]
     /\ \E order \in SetToSeqs(new) :
          out' = [out EXCEPT ![w] = @ \o
                    [i \in DOMAIN order |->
                       ArtifactToEmit(order[i], art(order[i]), FALSE)]]

\* RunPlanDAG spawns the consumer once scheduler.Start has returned.
SpawnConsumer(w) ==
  /\ cpc[w] = "idle"
  /\ pc[w] \notin {"idle", "store", "cancelCtx", "cancelWorkers"}
  /\ cpc' = [cpc EXCEPT ![w] = "poll"]
  /\ UNCHANGED <<vars, callerErr, emitted, failedIDs, unwalked, out>>

\* A tick drains the store first.
Tick(w) ==
  /\ cpc[w] = "poll"
  /\ Drain(w)
  /\ cpc' = [cpc EXCEPT ![w] = "check"]
  /\ UNCHANGED <<vars, callerErr, unwalked>>

\* The select sees the caller's cancellation: drain, then abort.
CallerDone(w) ==
  /\ cpc[w] = "poll" /\ w \in callerErr
  /\ Drain(w)
  /\ cpc' = [cpc EXCEPT ![w] = "abort"]
  /\ UNCHANGED <<vars, callerErr, unwalked>>

\* A failure drained so far aborts the wave.  The mutant forgets to look.
AbortDueMutant(w) == FALSE
AbortDue(w) == failedIDs[w] # {}

CheckFailure(w) ==
  /\ cpc[w] = "check" /\ AbortDue(w)
  /\ cpc' = [cpc EXCEPT ![w] = "abort"]
  /\ UNCHANGED <<vars, callerErr, emitted, failedIDs, unwalked, out>>

\* Otherwise all nodes terminal means drain again, and if not, the next tick.
CheckTerminal(w) ==
  /\ cpc[w] = "check" /\ ~AbortDue(w)
  /\ cpc' = [cpc EXCEPT ![w] = IF AllTerminal(w) THEN "redrain" ELSE "poll"]
  /\ UNCHANGED <<vars, callerErr, emitted, failedIDs, unwalked, out>>

\* Drain until a pass emits nothing new.  The mutant stops at once.
RedrainMutant(w) ==
  /\ cpc[w] = "redrain"
  /\ cpc' = [cpc EXCEPT ![w] = "final"]
  /\ UNCHANGED <<vars, callerErr, emitted, failedIDs, unwalked, out>>
Redrain(w) ==
  /\ cpc[w] = "redrain"
  /\ Drain(w)
  /\ cpc' = [cpc EXCEPT ![w] = IF NewTerminals(w) = {} THEN "final" ELSE @]
  /\ UNCHANGED <<vars, callerErr, unwalked>>

\* emitFinalIfMissing: one of the completed nodes (the one that ended last; end
\* times are not modelled) is sent again with IsFinal; then the channel closes.
FinalCandidates(w) ==
  {t \in Nodes[w] : /\ artifacts[SessionOf[w]][t] # NoArtifact
                    /\ state[<<w, t>>] = "completed"}

EmitFinal(w) ==
  /\ cpc[w] = "final"
  /\ \/ FinalCandidates(w) = {} /\ UNCHANGED <<emitted, out>>
     \/ \E t \in FinalCandidates(w) :
          /\ emitted' = [emitted EXCEPT ![w] = @ \cup {t}]
          /\ out' = [out EXCEPT ![w] = Append(@,
               ArtifactToEmit(t, artifacts[SessionOf[w]][t], TRUE))]
  /\ cpc' = [cpc EXCEPT ![w] = "closed"]
  /\ UNCHANGED <<vars, callerErr, failedIDs, unwalked>>

-----------------------------------------------------------------------------
(* abortAndDrain                                                            *)

\* It calls AbortSession, which looks the session's current wave up ...
AbortBegin(w) ==
  /\ cpc[w] = "abort" /\ AbortRead(w)
  /\ UNCHANGED dagVars

\* ... and whose steps it takes.
AbortContinue(w) ==
  /\ cpc[w] = "abort" /\ AbortStep(w)
  /\ UNCHANGED dagVars

AbortReturned(w) ==
  /\ cpc[w] = "abort" /\ abort[w].pc = "done"
  /\ cpc' = [cpc EXCEPT ![w] = "rescan"]
  /\ UNCHANGED <<vars, callerErr, emitted, failedIDs, unwalked, out>>

\* It drains once more and takes the node ids.
Rescan(w) ==
  /\ cpc[w] = "rescan"
  /\ Drain(w)
  /\ unwalked' = [unwalked EXCEPT ![w] = Nodes[w]]
  /\ cpc' = [cpc EXCEPT ![w] = "walk"]
  /\ UNCHANGED <<vars, callerErr>>

\* A node neither emitted nor completed nor failed gets a cancel row.
NeedsCancelRowMutant(w, t) == state[<<w, t>>] = "cancelled"
NeedsCancelRow(w, t) ==
  t \notin emitted[w] /\ state[<<w, t>>] \notin {"completed", "failed"}

CancelRow(t) == [task |-> t, wave |-> NoWave, exit |-> "canceled",
                 final |-> FALSE]

WalkNode(w, t) ==
  /\ cpc[w] = "walk" /\ t \in unwalked[w]
  /\ unwalked' = [unwalked EXCEPT ![w] = @ \ {t}]
  /\ IF NeedsCancelRow(w, t)
       THEN /\ emitted' = [emitted EXCEPT ![w] = @ \cup {t}]
            /\ out' = [out EXCEPT ![w] = Append(@, CancelRow(t))]
       ELSE UNCHANGED <<emitted, out>>
  /\ UNCHANGED <<vars, cpc, callerErr, failedIDs>>

\* The walk is over; the deferred close runs.
AbortClose(w) ==
  /\ cpc[w] = "walk" /\ unwalked[w] = {}
  /\ cpc' = [cpc EXCEPT ![w] = "closed"]
  /\ UNCHANGED <<vars, callerErr, emitted, failedIDs, unwalked, out>>

-----------------------------------------------------------------------------
ConsumerStep(w) ==
  \/ SpawnConsumer(w) \/ Tick(w) \/ CallerDone(w)
  \/ CheckFailure(w) \/ CheckTerminal(w) \/ Redrain(w) \/ EmitFinal(w)
  \/ AbortBegin(w) \/ AbortContinue(w) \/ AbortReturned(w)
  \/ Rescan(w) \/ AbortClose(w)
  \/ \E t \in Nodes[w] : WalkNode(w, t)

\* The caller's context is cancelled, and the wave's with it.
CallerGone(w) ==
  /\ w \in Interrupted \ callerErr
  /\ pc[w] # "idle"
  /\ callerErr' = callerErr \cup {w}
  /\ ctxErr' = ctxErr \cup {w}
  /\ UNCHANGED <<waves, pc, prior, todo, cur, done, taskVars, slotVars,
                 artifacts, clientVars, cpc, emitted, failedIDs, unwalked, out>>

DagNext ==
  \E w \in Wave :
    \/ SchedulerStep(w) /\ UNCHANGED dagVars
    \/ ConsumerStep(w)
    \/ CallerGone(w)
    \/ \E t \in Nodes[w] :
         (CancelWorkerRead(w, t) \/ CancelWorkerMark(w, t)) /\ UNCHANGED dagVars

DagSpec == DagInit /\ [][DagNext]_allVars

\* Goroutines run and a cancelled runner returns.  At a select with both cases
\* ready Go picks at random, so a cancelled caller is eventually noticed.
DagFairness ==
  \A w \in Wave :
    /\ WF_allVars(pc[w] # "idle" /\ StartStep(w) /\ UNCHANGED dagVars)
    /\ WF_allVars(LoopStep(w) /\ UNCHANGED dagVars)
    /\ WF_allVars(ConsumerStep(w))
    /\ SF_allVars(CallerDone(w))
    /\ \A t \in Nodes[w] :
         /\ WF_allVars(CompleteTask(w, t) /\ UNCHANGED dagVars)
         /\ WF_allVars(CancelWorkerMark(w, t) /\ UNCHANGED dagVars)
         /\ WF_allVars(/\ <<w, t>> \in cancelled
                       /\ WorkerReturn(w, t, "canceled")
                       /\ UNCHANGED dagVars)

-----------------------------------------------------------------------------
HasFinal(w) == \E i \in DOMAIN out[w] : out[w][i].final

\* Where a wave is alone in its session and no worker is stopped (without that
\* a node may end without an artifact), a wave declared finished has sent a row
\* for every node of its plan: the executor never announces the last segment while another one is missing,
\* although completeTask publishes artifacts and states in separate steps.
FinalMeansAllSent ==
  \A w \in Wave :
    HasFinal(w) => \A t \in Nodes[w] : \E i \in DOMAIN out[w] :
                     out[w][i].task = t /\ ~out[w][i].final

\* No node gets two regular rows, however drains, the abort's rescan and its walk
\* interleave with the workers and with other waves of the session.
OneRowPerNode ==
  \A w \in Wave : \A i, j \in DOMAIN out[w] :
    (i # j /\ ~out[w][i].final /\ ~out[w][j].final)
      => out[w][i].task # out[w][j].task

\* When such a wave's last segment is announced, nothing of the plan is running
\* and it holds no slot: the rollup starts on a quiet wave.
FinalMeansQuiet ==
  \A w \in Wave :
    HasFinal(w) => \A t \in Nodes[w] :
                     wpc[<<w, t>>] # "run" /\ <<w, t>> \notin owners
=============================================================================
