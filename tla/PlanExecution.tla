--------------------------- MODULE PlanExecution ---------------------------
(***************************************************************************)
(* sessionorchestrator/execute_plan_dag.go: executePlanDAG ranges over the  *)
(* channel of RunPlanDAG, drops the rows whose segment it has already seen, *)
(* keeps an outcome for every other row and, when the channel closes, folds *)
(* the outcomes into the verdict of the round.  Round w is the round whose  *)
(* RunPlanDAG call is wave w.                                               *)
(***************************************************************************)
EXTENDS DAGExecutor

VARIABLES
  received,  \* how many rows of out[w] the round has taken
  outcomes,  \* the rows it kept
  round      \* the round it returned, or NoRound: a verdict (pass, fail or
             \* indeterminate), the artifact of a task, and a summary or none

roundVars == <<received, outcomes, round>>
planVars == <<allVars, roundVars>>

NoRound == [kind |-> "none"]

PlanInit ==
  /\ DagInit
  /\ received = [w \in Wave |-> 0]
  /\ outcomes = [w \in Wave |-> <<>>]
  /\ round = [w \in Wave |-> NoRound]

-----------------------------------------------------------------------------
\* EmitDedup.MarkAndCheck: the key is the session and the segment, and every
\* kept row has marked its own.  The mutant has no dedup table.
MarkAndCheckMutant(w, e) == TRUE
MarkAndCheck(w, e) == \A i \in DOMAIN outcomes[w] : outcomes[w][i].task # e.task

\* buildSegmentVerdictFromEmit.  The mutant takes an error for a success.
SegmentVerdictMutant(e) == IF e.exit = "canceled" THEN "indeterminate" ELSE "pass"
SegmentVerdict(e) ==
  [ok |-> "pass", canceled |-> "indeterminate", error |-> "fail"][e.exit]

\* SynthesizeRollupVerdict.  The mutant looks for cancellations first.
RollupMutant(kinds) ==
  IF kinds = {} \/ "indeterminate" \in kinds THEN "indeterminate"
  ELSE IF "fail" \in kinds THEN "fail"
  ELSE "pass"
Rollup(kinds) ==
  IF "fail" \in kinds THEN "fail"
  ELSE IF kinds = {} \/ "indeterminate" \in kinds THEN "indeterminate"
  ELSE "pass"

\* One turn of the range loop.
Receive(w) ==
  /\ round[w] = NoRound
  /\ received[w] < Len(out[w])
  /\ received' = [received EXCEPT ![w] = @ + 1]
  /\ LET e == out[w][received[w] + 1] IN
       outcomes' = [outcomes EXCEPT ![w] =
                      IF MarkAndCheck(w, e) THEN Append(@, e) ELSE @]
  /\ UNCHANGED <<allVars, round>>

\* finalSummary was set by a kept row with IsFinal (summaries are not empty).
FinalKept(w) == {i \in DOMAIN outcomes[w] : outcomes[w][i].final}

\* ArtifactID: the IsFinal row's segment, else the last kept row's, if any.
ArtifactID(w) ==
  IF outcomes[w] = <<>> THEN NoTask
  ELSE IF FinalKept(w) # {}
    THEN outcomes[w][CHOOSE i \in FinalKept(w) :
                       \A j \in FinalKept(w) : i <= j].task
  ELSE Last(outcomes[w]).task

\* The channel is closed and empty: the round is built.
FinishRound(w) ==
  /\ round[w] = NoRound
  /\ cpc[w] = "closed" /\ received[w] = Len(out[w])
  /\ round' = [round EXCEPT ![w] =
       [kind |-> Rollup({SegmentVerdict(outcomes[w][i]) :
                           i \in DOMAIN outcomes[w]}),
        artifact |-> ArtifactID(w),
        summary |-> FinalKept(w) # {}]]
  /\ UNCHANGED <<allVars, received, outcomes>>

RoundStep(w) == Receive(w) \/ FinishRound(w)

PlanNext ==
  \/ DagNext /\ UNCHANGED roundVars
  \/ \E w \in Wave : RoundStep(w)

PlanSpec == PlanInit /\ [][PlanNext]_planVars

PlanFairSpec == PlanSpec /\ DagFairness
                  /\ \A w \in Wave : WF_planVars(RoundStep(w))

-----------------------------------------------------------------------------
Finished(w) == round[w] # NoRound

\* A plan nobody interfered with is reported as passed only if every node of it
\* completed: no failure is lost between the worker, the artifact store, the
\* channel, the dedup table and the fold.
PassMeansCompleted ==
  \A w \in Wave :
    (Finished(w) /\ round[w].kind = "pass" /\ w \notin callerErr)
      => \A t \in Nodes[w] : state[<<w, t>>] = "completed"

\* A round of such a plan, if it has nodes, asks for a retry (Indeterminate) only
\* if its caller went away: the cancellations that follow a failure never hide the failure.
RetryOnlyIfCancelled ==
  \A w \in Wave :
    (Finished(w) /\ round[w].kind = "indeterminate") => w \in callerErr

\* Every child counts once in the rollup and the final row does not count
\* again, so that the evidence handed to Learn is not doubled.
ChildCountsOnce ==
  \A w \in Wave : \A i, j \in DOMAIN outcomes[w] :
    i # j => outcomes[w][i].task # outcomes[w][j].task

\* A failed segment or a cancelled caller ends the round: executePlanDAG does
\* not hang on the channel.
TroubleEndsRound ==
  \A w \in Wave :
    (cpc[w] # "idle" /\ (w \in callerErr
                          \/ \E t \in Nodes[w] : state[<<w, t>>] = "failed"))
      ~> Finished(w)
=============================================================================
