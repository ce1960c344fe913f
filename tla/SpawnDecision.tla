--------------------------- MODULE SpawnDecision ---------------------------
(***************************************************************************)
(* workmodel.SpawnPolicyEvaluator: what happens to a work item after a      *)
(* round, from what the round found (r) and from the tree around the item   *)
(* (c).  A pure function: SessionLoop calls it, SessionLoopProofs proves     *)
(* what it may never answer.                                                *)
(***************************************************************************)
EXTENDS Naturals

CONSTANTS
  MaxInline,         \* DefaultMaxInlineRetriesAtMaxDepth
  MaxRollup,         \* DefaultMaxRollupRetries
  MaxIndeterminate   \* DefaultMaxIndeterminateRetries

ASSUME LimitsAssumption ==
  /\ MaxInline \in Nat \ {0}
  /\ MaxRollup \in Nat \ {0}
  /\ MaxIndeterminate \in Nat \ {0}

PlanKind == {"commitment", "protocol", "scenario", "exploration"}
Verdict == {"pass", "partial", "fail", "indeterminate"}

\* "na": no deliverable contract applies; "waived": one applies and the round
\* says it does not; "owed": one applies and is not complete.
Deliverable == {"na", "waived", "owed", "complete"}

Policy == {"none", "inline", "decompose", "await", "escalate", "explore", "gate"}

\* u is the uncertainty: below RollupSynthThreshold, from there up to the
\* decompose threshold, or at least that.  report is what the ResolutionReport
\* holds: nothing, a sub worktree, or a strong observation without one.
Round == [plan : PlanKind, verdict : Verdict, deliv : Deliverable,
          u : {"low", "mid", "high"}, tools : Nat, scope : BOOLEAN,
          report : {"nothing", "subtree", "gate"}]

\* running and kids: children that are not terminal, and children at all.
Context == [running : BOOLEAN, kids : BOOLEAN, atDepth : BOOLEAN, daily : BOOLEAN,
            can : BOOLEAN, rollup : BOOLEAN, rr : Nat, inl : Nat, indet : Nat]

Owed(r) == r.deliv = "owed"
Applicable(r) == r.deliv # "na"
Exploratory(r) == r.plan \in {"scenario", "exploration"}

\* EvidenceProgress, in tenths.
EvidenceProgress(r, c) ==
    (IF r.tools >= 2 THEN 4 ELSE IF r.tools = 1 THEN 2 ELSE 0)
  + (IF r.scope THEN 2 ELSE 0)
  + (IF c.kids /\ ~c.running THEN 3 ELSE 0)

RollupExhausted(c) == c.rollup /\ c.rr >= MaxRollup
InlineWouldExhaust(c) == c.inl + 1 >= MaxInline

RollupSynthEligible(r, c) ==
  /\ Owed(r)
  /\ r.u = "low"
  /\ ~c.running
  /\ ~RollupExhausted(c)
  /\ EvidenceProgress(r, c) >= 5

Continuation(r, c) ==
  IF RollupSynthEligible(r, c) \/ ~InlineWouldExhaust(c) THEN "inline" ELSE "escalate"

\* The budget gates R0, R0.5, R1 and R2 that are not asked what the verdict is.
BudgetFiresMutant(r, c) ==
  (Applicable(r) /\ ~Owed(r)) \/ c.atDepth \/ c.daily
BudgetFires(r, c) ==
  c.running \/ (Applicable(r) /\ ~Owed(r)) \/ c.atDepth \/ c.daily
Budget(r, c) ==
  IF c.running THEN "await"
  ELSE IF Applicable(r) /\ ~Owed(r) THEN "none"
  ELSE IF c.atDepth
  THEN IF Owed(r) THEN Continuation(r, c)
       ELSE IF InlineWouldExhaust(c) THEN "escalate" ELSE "inline"
  ELSE "escalate"

FirstSplit(c) == c.can /\ ~c.kids

ByPass(r, c) == IF Owed(r) THEN Continuation(r, c) ELSE "none"
ByPartial(r, c) ==
  IF Exploratory(r) THEN IF FirstSplit(c) THEN "decompose" ELSE "inline"
  ELSE IF r.u = "high" THEN "decompose"
  ELSE IF Owed(r) THEN Continuation(r, c) ELSE "none"
ByFail(r, c) ==
  IF r.plan = "scenario" THEN "explore"
  ELSE IF r.plan = "exploration"
  THEN IF FirstSplit(c) THEN "decompose" ELSE "inline"
  ELSE "none"
ByIndeterminate(r, c) ==
  IF c.indet < MaxIndeterminate THEN "inline"
  ELSE IF (Exploratory(r) \/ r.u = "high") /\ FirstSplit(c) THEN "decompose"
  ELSE "escalate"

ByVerdict(r, c) ==
  IF r.verdict = "pass" THEN ByPass(r, c)
  ELSE IF r.verdict = "partial" THEN ByPartial(r, c)
  ELSE IF r.verdict = "fail" THEN ByFail(r, c)
  ELSE ByIndeterminate(r, c)

\* The strategy of the plan's kind has the last word about the verdict; the one
\* for protocols never speaks.
CommitmentEnds(r) ==
  r.plan = "commitment" /\ r.verdict \in {"partial", "fail"} /\ ~Owed(r)
ScenarioEnds(r) == r.plan = "scenario" /\ r.verdict = "fail"
ExplorationSplits(r) == r.plan = "exploration" /\ r.verdict = "pass"

VerdictDirection(r, c) ==
  IF CommitmentEnds(r) \/ ScenarioEnds(r) THEN "none"
  ELSE IF ExplorationSplits(r) THEN "decompose"
  ELSE ByVerdict(r, c)

\* The mutant lets a rollup try again for ever.
SpawnPolicyMutant(r, c) ==
  IF BudgetFires(r, c) THEN Budget(r, c)
  ELSE IF r.report = "subtree" THEN "decompose"
  ELSE IF r.report = "gate" THEN "gate"
  ELSE IF c.rollup /\ r.verdict # "pass" THEN "inline"
  ELSE VerdictDirection(r, c)
SpawnPolicy(r, c) ==
  IF BudgetFires(r, c) THEN Budget(r, c)
  ELSE IF r.report = "subtree" THEN "decompose"
  ELSE IF r.report = "gate" THEN "gate"
  ELSE IF c.rollup /\ r.verdict # "pass"
  THEN IF c.rr >= MaxRollup THEN "escalate" ELSE "inline"
  ELSE VerdictDirection(r, c)

\* round.RollupSynthRequested: the item's next round only puts its findings
\* together.
SynthRequested(r, c) == SpawnPolicy(r, c) = "inline" /\ RollupSynthEligible(r, c)
============================================================================
