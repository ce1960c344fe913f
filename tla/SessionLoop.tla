---------------------------- MODULE SessionLoop ----------------------------
(***************************************************************************)
(* RunSessionTurnLoop over the work tree of one session: it takes the focus, *)
(* runs a round on it (ItemPipelineRunner.Run), applies the spawn policy,    *)
(* looks at the parent again, and decides whether the turn goes on.  Beside  *)
(* it run the tools of the round (todo_write and delegation), the workers they *)
(* started, the user who approves a review, and a crash.                     *)
(*                                                                           *)
(* Left out: dependencies (nothing in the loop adds one), so an open item    *)
(* that asks for a rollup is always ready, and the two answers to an empty   *)
(* focus that need one which is not ready, MaybePromotePendingSingleChild-    *)
(* Rollups and findExhaustedRollupParent, never apply; indeterminate verdicts *)
(* and resolution reports, which no verifier or planner produces; the escape  *)
(* engine, which nothing installs (WithEscapeEngine has no caller), and the    *)
(* DAG rounds of executePlanDAG, which PlanExecution models.                   *)
(***************************************************************************)
EXTENDS WorkItems, SpawnDecision

CONSTANTS
  MaxMessages,   \* bound: messages to the session
  MaxSetbacks,   \* bound: rounds that find less than they could
  MaxTodos,      \* bound: todo_write calls
  MaxDelegates,  \* bound: delegate_* calls
  MaxCrashes,    \* bound: crashes
  MaxSplit       \* bound: children of one decomposition

ASSUME LoopAssumption ==
  /\ MaxMessages \in Nat /\ MaxSetbacks \in Nat /\ MaxTodos \in Nat
  /\ MaxDelegates \in Nat /\ MaxCrashes \in Nat /\ MaxSplit \in Nat \ {0}

VARIABLES
  tree,     \* the work items
  created,  \* how many ids have been given out
  last,     \* LastRound of each item: policy, deliverable, rollup retries
  inl,      \* InlineRetriesAtMaxDepth of each item
  running,  \* items with a worker's run that has not ended
  pc,       \* where the loop is
  cur,      \* what the loop holds of the round it is in
  used      \* how much of each bound is spent

vars == <<tree, created, last, inl, running, pc, cur, used>>

NoRound == [policy |-> "noround", deliv |-> "na", rr |-> 0]
Idle == [item |-> NoItem, rollup |-> FALSE, parent |-> FALSE, synth |-> FALSE]

Init ==
  /\ tree = EmptyTree
  /\ created = 0
  /\ last = [i \in Id |-> NoRound]
  /\ inl = [i \in Id |-> 0]
  /\ running = {}
  /\ pc = "idle"
  /\ cur = Idle
  /\ used = [messages |-> 0, setbacks |-> 0, todos |-> 0, delegates |-> 0, crashes |-> 0]

Spend(what, bound) ==
  used[what] < bound /\ used' = [used EXCEPT ![what] = @ + 1]

(***************************************************************************)
(* What the loop reads from the tree                                       *)
(***************************************************************************)

Busy(t, p) == {c \in WorkChildren(t, p) : t[c].status \notin Terminal}
Broken(t, p) == {c \in WorkChildren(t, p) : t[c].status \in {"failed", "cancelled"}}
HadSplit(l, i) == l[i].policy \in {"decompose", "await"}

RootGoals(t) == {i \in Present(t) : t[i].kind = "goal" /\ t[i].parent = NoItem}
OpenGoals(t) == {i \in RootGoals(t) : ~t[i].locked}

\* GetPipelineFocus: a ready item, else one that owes what it can try again.
PipelineFocus(t) ==
  IF GetFocus(t) # {} THEN GetFocus(t)
  ELSE {i \in Open(t) : /\ t[i].status = "in_progress"
                        /\ last[i].policy = "inline" /\ last[i].deliv = "owed"}

HasOpenWork(t) ==
  \/ PipelineFocus(t) # {}
  \/ \E i \in RootGoals(t) : t[i].rollup
  \/ Open(t) # {}

\* subtreeDeliverableInlineStuck: the least set of waiting parents all of whose
\* open children are stuck; depth bounds the walk.
OwesInPlace(i) == last[i].policy \in {"inline", "none"} /\ last[i].deliv = "owed"
SubtreeStuck(t) ==
  LET s[i \in Id] ==
        /\ Busy(t, i) # {}
        /\ \A c \in Busy(t, i) :
             IF t[c].await THEN c > i /\ s[c] ELSE OwesInPlace(c)
  IN  s

NoForwardProgress(t) ==
  /\ Open(t) # {}
  /\ \A i \in Open(t) :
       IF t[i].await THEN SubtreeStuck(t)[i]
       ELSE OwesInPlace(i) /\ (last[i].policy = "inline" => inl[i] >= MaxInline)

(***************************************************************************)
(* Rollups                                                                 *)
(***************************************************************************)

RequestRollup(t, i) ==
  LET r == WithRollup(t, i, TRUE)
  IN  IF t[i].status \in Terminal /\ CanReopen(r, i) THEN WithReopened(r, i) ELSE r

\* TryPromoteSingleChildDeliverable takes the deliverable of an only child.
Promotable(t, p) ==
  /\ HadSplit(last, p) /\ Mutable(t, p)
  /\ \E c \in Id :
       /\ WorkChildren(t, p) = {c}
       /\ t[c].status = "completed" /\ last[c].deliv = "complete"
Promoted(t, p) ==
  LET clean == WithRollup([t EXCEPT ![p].await = FALSE], p, FALSE)
  IN  TryStatus(TryStatus(clean, p, "in_progress"), p, "completed")

\* MaybeSiblingBestEffortRollup: the siblings that are out of retries fail.
\* A pending one cannot fail, and the refusal is ignored.  None is the parent,
\* so the rollup may be requested before or after.
Stuck(t, p) == {c \in Busy(t, p) : inl[c] >= MaxInline}
BestEffortDue(t, p) ==
  /\ ~t[p].rollup /\ HadSplit(last, p)
  /\ \E c \in WorkChildren(t, p) :
       t[c].status = "completed" /\ last[c].policy # "noround" /\ last[c].deliv # "owed"
  /\ Stuck(t, p) # {}
GivenUp(t, S) ==
  [i \in Id |-> IF i \in S THEN TryStatus(t, i, "failed")[i] ELSE t[i]]
BestEffort(t, p) == GivenUp(RequestRollup(t, p), Stuck(t, p))

ShouldRollup(t, p) == ~t[p].rollup /\ WorkChildren(t, p) # {} /\ HadSplit(last, p)

\* The parent of children that have all ended.
Settled(t, p) ==
  IF ShouldRollup(t, p) THEN RequestRollup(t, p)
  ELSE IF Broken(t, p) # {} THEN TryStatus(t, p, "failed")
  ELSE IF WorkChildren(t, p) # {} THEN TryStatus(t, p, "completed")
  ELSE t

\* ReevaluateParentAfterChild, under the parent's own mutex.  It may promote
\* when the child's deliverable can be presented, which is left open.
ReevaluateParent(t, p) ==
  LET saved == IF Busy(t, p) # {} /\ BestEffortDue(t, p) THEN BestEffort(t, p) ELSE t
      awake == TryStatus(saved, p, "in_progress")
  IN  IF p \notin Present(t)
      THEN tree' = t /\ UNCHANGED last
      ELSE IF Busy(saved, p) # {}
      THEN tree' = saved /\ UNCHANGED last
      ELSE \/ tree' = Settled(IF saved[p].status = "pending" THEN awake ELSE saved, p)
              /\ UNCHANGED last
           \/ /\ ShouldRollup(saved, p) /\ Promotable(saved, p)
              /\ tree' = Promoted(saved, p)
              /\ last' = [last EXCEPT ![p] =
                            [policy |-> "none", deliv |-> "complete", rr |-> 0]]

\* MaybeParentRollup: the deepest parent whose children have ended.
Overdue(t) ==
  {i \in Present(t) : /\ t[i].kind # "checklist" /\ ShouldRollup(t, i)
                      /\ Busy(t, i) = {}}
DeepestOverdue(t) ==
  {i \in Overdue(t) : \A j \in Overdue(t) : Depth(t)[j] <= Depth(t)[i]}

\* MaybeRootRollupFallback: the first root goal had a todo list and ended.
FirstGoal(t) == {i \in RootGoals(t) : \A j \in RootGoals(t) : i <= j}
FallbackDue(t) ==
  {i \in FirstGoal(t) :
     /\ ~t[i].rollup /\ last[i].policy # "noround"
     /\ Busy(t, i) = {} /\ Checklist(t, i) # {}
     /\ last[i].policy = "none" \/ t[i].status = "failed"}
FallbackReopens(t, i) == t[i].status \in {"completed", "failed"}

(***************************************************************************)
(* A turn                                                                  *)
(***************************************************************************)

ToTick == pc' = "tick" /\ cur' = Idle
ToIdle == pc' = "idle" /\ cur' = Idle

\* ProcessMessage and the start of the loop: EnsureGoal.
Message ==
  /\ pc = "idle"
  /\ Spend("messages", MaxMessages)
  /\ IF OpenGoals(tree) # {} THEN UNCHANGED <<tree, created>>
     ELSE /\ created < MaxItems
          /\ tree' = [tree EXCEPT ![created + 1] = NewItem("goal", NoItem)]
          /\ created' = created + 1
  /\ pc' = "tick"
  /\ UNCHANGED <<last, inl, running, cur>>

ContextDone ==
  /\ pc = "tick"
  /\ ToIdle
  /\ UNCHANGED <<tree, created, last, inl, running, used>>

\* The three things that keep a turn going when it would end, tried in order.
OverdueRollup ==
  /\ \E i \in DeepestOverdue(tree) : tree' = RequestRollup(tree, i)
  /\ ToTick
Fallback ==
  /\ Overdue(tree) = {}
  /\ \E i \in FallbackDue(tree) :
       /\ tree' = RequestRollup(tree, i)
       /\ IF FallbackReopens(tree, i) THEN ToTick ELSE ToIdle
\* The mutant goes round again.
FinishMutant ==
  /\ Overdue(tree) = {}
  /\ ToTick
  /\ UNCHANGED tree
Finish ==
  /\ Overdue(tree) = {}
  /\ ToIdle
  /\ UNCHANGED tree

NoFocus ==
  /\ pc = "tick"
  /\ PipelineFocus(tree) = {}
  /\ OverdueRollup \/ Fallback \/ (FallbackDue(tree) = {} /\ Finish)
  /\ UNCHANGED <<created, last, inl, running, used>>

\* A pending human review is announced, and the turn is over.
AskForReview ==
  /\ pc = "tick"
  /\ \E i \in PipelineFocus(tree) : tree[i].kind = "review" /\ tree[i].status = "pending"
  /\ ToIdle
  /\ UNCHANGED <<tree, created, last, inl, running, used>>

\* A focus with a child in progress is not run: the loop waits for the child's
\* run, or, if it has none, goes round again at once.  Neither changes anything.
Blocked(i) == \E c \in WorkChildren(tree, i) : tree[c].status = "in_progress"

StartRound ==
  /\ pc = "tick"
  /\ \E i \in PipelineFocus(tree) :
       /\ ~(tree[i].kind = "review" /\ tree[i].status = "pending")
       /\ ~Blocked(i)
       /\ tree' = [tree EXCEPT ![i].await = FALSE]
       /\ cur' = [item |-> i, rollup |-> tree[i].rollup,
                  parent |-> tree[i].rollup /\ WorkChildren(tree, i) # {}, synth |-> FALSE]
  /\ pc' = "observe"
  /\ UNCHANGED <<created, last, inl, running, used>>

Execute ==
  /\ pc = "observe"
  /\ pc' = "exec"
  /\ UNCHANGED <<tree, created, last, inl, running, cur, used>>

\* A planner, executor or learner that fails, or a tree that is locked by the
\* time the round is recorded.
RoundError ==
  /\ pc = "exec"
  /\ ToIdle
  /\ UNCHANGED <<tree, created, last, inl, running, used>>

\* The observation already is the answer: no plan, no execution.
FastAnswer ==
  /\ pc = "observe"
  /\ ~cur.rollup /\ Mutable(tree, cur.item)
  /\ tree' = TryStatus(TryStatus(tree, cur.item, "in_progress"), cur.item, "completed")
  /\ last' = [last EXCEPT ![cur.item] = [policy |-> "answer", deliv |-> "na", rr |-> 0]]
  /\ pc' = "spawn"
  /\ UNCHANGED <<created, inl, running, cur, used>>

TodoWrite ==
  /\ pc = "exec"
  /\ Spend("todos", MaxTodos)
  /\ created < MaxItems
  /\ \E p \in IF GetFocus(tree) # {} THEN GetFocus(tree) ELSE OpenGoals(tree) :
       /\ Mutable(tree, p)
       /\ tree' = WithChecklist(tree, p, [i \in {created + 1} |-> "pending"])
  /\ created' = created + 1
  /\ UNCHANGED <<last, inl, running, pc, cur>>

\* delegate_*: an item under the open goal, in progress, with a run of its own.
Delegate ==
  /\ pc = "exec"
  /\ Spend("delegates", MaxDelegates)
  /\ created < MaxItems
  /\ \E g \in OpenGoals(tree) :
       tree' = [tree EXCEPT ![created + 1] =
                  [NewItem("implement", g) EXCEPT !.status = "in_progress"]]
  /\ created' = created + 1
  /\ running' = running \cup {created + 1}
  /\ UNCHANGED <<last, inl, pc, cur>>

\* The run ends, at once or much later: its callback sets the item's status and
\* looks at the parent again.
RunEnds(i) ==
  /\ i \in running
  /\ running' = running \ {i}
  /\ \E s \in {"completed", "failed"} :
       ReevaluateParent(TryStatus(tree, i, s), tree[i].parent)
  /\ UNCHANGED <<created, inl, pc, cur, used>>

(***************************************************************************)
(* The end of a round                                                      *)
(***************************************************************************)

ContextOf(i, daily) ==
  [running |-> Busy(tree, i) # {}, kids |-> WorkChildren(tree, i) # {},
   atDepth |-> Depth(tree)[i] >= MaxDepth, daily |-> daily,
   can |-> tree[i].kind \in {"goal", "implement"},
   rollup |-> tree[i].rollup, rr |-> last[i].rr, inl |-> inl[i], indet |-> 0]

\* verifyRollupArtifact does not let failed children pass.
RollupVerdictsMutant(i) == {"pass", "partial", "fail"}
RollupVerdicts(i) ==
  IF Broken(tree, i) # {} /\ (Busy(tree, i) # {} \/ Broken(tree, i) = WorkChildren(tree, i))
  THEN {"partial", "fail"}
  ELSE {"pass", "partial", "fail"}

\* What a round may find: a deliverable that is owed never passes, and the
\* evidence is at its fullest.  A rollup owes none, and its plan is a commitment.
Findings ==
  {r \in [plan : PlanKind, verdict : {"pass", "partial", "fail"},
          deliv : {"na", "owed", "complete"}, u : {"low", "mid", "high"},
          tools : {2}, scope : {TRUE}, report : {"nothing"}] :
     r.verdict = "pass" => r.deliv # "owed"}
RollupFindings ==
  {r \in Findings : r.plan = "commitment" /\ r.deliv = "na" /\ r.u = "low"}

StatusAfterNone(o, rollup) ==
  IF rollup THEN IF o.verdict = "pass" THEN "completed" ELSE "in_progress"
  ELSE IF o.verdict = "fail" THEN "failed"
  ELSE IF o.deliv = "owed" THEN "in_progress" ELSE "completed"

\* What the loop goes on with, from the findings and the context of the round.
Outcome(r, c) ==
  [policy |-> SpawnPolicy(r, c), synth |-> SynthRequested(r, c),
   verdict |-> r.verdict, deliv |-> r.deliv]
SameEffect(o, p, c, rollup) ==
  /\ p.policy = o.policy /\ p.deliv = o.deliv /\ p.synth = o.synth
  /\ o.policy = "none" => StatusAfterNone(o, rollup) = StatusAfterNone(p, rollup)
  /\ c.rollup => o.verdict = p.verdict

\* A setback is an outcome whose effect no pass has.
Weighed(findings, c, rollup) ==
  LET passes == {Outcome(r, [c EXCEPT !.daily = FALSE]) : r \in {f \in findings : f.verdict = "pass"}}
      weigh(o) == [outcome |-> o, setback |-> \A p \in passes : ~SameEffect(o, p, c, rollup)]
  IN  {weigh(Outcome(r, c)) : r \in findings}

LoopContext ==
  {c \in [running : BOOLEAN, kids : BOOLEAN, atDepth : BOOLEAN, daily : BOOLEAN,
          can : BOOLEAN, rollup : BOOLEAN, rr : 0 .. MaxRollup, inl : 0 .. MaxSetbacks,
          indet : {0}] : c.running => c.kids}
OutcomeTable == [c \in LoopContext |-> Weighed(Findings, c, FALSE)]
RollupTable == [c \in LoopContext |-> Weighed(RollupFindings, c, TRUE)]

\* The outcomes a round may have, each with whether it is a setback: one that
\* could have been a pass.
Outcomes(c) ==
  IF ~cur.parent THEN OutcomeTable[c]
  ELSE LET verdicts == RollupVerdicts(cur.item)
       IN  {[w EXCEPT !.setback = @ /\ "pass" \in verdicts] :
              w \in {v \in RollupTable[c] : v.outcome.verdict \in verdicts}}

\* Outcomes that would create more items than the bound allows are left out.
RoomFor(policy) ==
  policy \in {"decompose", "escalate"} => created < MaxItems

\* ApplyPipelineRound, ApplyRoundTerminalization and the rollup flag.
Recorded(o) ==
  LET i == cur.item
      begun == TryStatus([tree EXCEPT ![i].await = o.policy \in {"await", "decompose", "explore"}],
                         i, "in_progress")
      ended == IF o.policy = "none" THEN TryStatus(begun, i, StatusAfterNone(o, cur.parent)) ELSE begun
  IN  IF cur.rollup /\ o.verdict = "pass" THEN WithRollup(ended, i, FALSE) ELSE ended

\* Only whether the retries have reached MaxRollup is ever asked: no further
\* ones are counted.
RollupRetries(o) ==
  LET rr == last[cur.item].rr
  IN  IF ~cur.parent \/ o.verdict = "pass" \/ last[cur.item].policy = "noround" THEN 0
      ELSE IF rr < MaxRollup THEN rr + 1 ELSE rr

RoundEnds ==
  /\ pc = "exec"
  /\ Mutable(tree, cur.item)
  /\ \E daily \in BOOLEAN : \E w \in Outcomes(ContextOf(cur.item, daily)) :
       LET o == w.outcome IN
       /\ RoomFor(o.policy)
       /\ cur' = [cur EXCEPT !.synth = o.synth]
       /\ last' = [last EXCEPT ![cur.item] =
                     [policy |-> o.policy, deliv |-> o.deliv, rr |-> RollupRetries(o)]]
       /\ inl' = IF o.policy = "inline" /\ o.deliv = "owed" /\ ~o.synth
                 THEN [inl EXCEPT ![cur.item] = @ + 1] ELSE inl
       /\ IF w.setback THEN Spend("setbacks", MaxSetbacks) ELSE UNCHANGED used
       /\ tree' = Recorded(o)
  /\ pc' = "spawn"
  /\ UNCHANGED <<created, running>>

(***************************************************************************)
(* ApplySpawnPolicy                                                        *)
(***************************************************************************)

ResetInline(t) == IF Mutable(t, cur.item) THEN [inl EXCEPT ![cur.item] = 0] ELSE inl
DowngradeMutant == UNCHANGED last
Downgrade == last' = [last EXCEPT ![cur.item].policy = "inline"]

\* An item whose kind cannot be split tries again in place, and goes on waiting.
SpawnInPlace ==
  /\ tree[cur.item].kind \notin {"goal", "implement"}
  /\ Downgrade
  /\ UNCHANGED <<tree, created, inl, used>>

\* The limits of DecomposeChildren: depth, and the children of a day.
SpawnDenied ==
  /\ tree[cur.item].kind \in {"goal", "implement"}
  /\ IF Depth(tree)[cur.item] + 1 > MaxDepth THEN UNCHANGED used
     ELSE Spend("setbacks", MaxSetbacks)
  /\ Downgrade
  /\ tree' = IF Mutable(tree, cur.item) THEN [tree EXCEPT ![cur.item].await = FALSE] ELSE tree
  /\ UNCHANGED <<created, inl>>

SpawnChildren ==
  /\ tree[cur.item].kind \in {"goal", "implement"}
  /\ CanCreate(tree, cur.item)
  /\ \E n \in 1 .. MaxSplit :
       /\ created + n <= MaxItems
       /\ \E kinds \in [created + 1 .. created + n -> {"implement", "explore"}] :
            tree' = [i \in Id |-> IF i \in DOMAIN kinds
                                  THEN NewItem(kinds[i], cur.item) ELSE tree[i]]
       /\ created' = created + n
  /\ inl' = ResetInline(tree)
  /\ UNCHANGED <<last, used>>

SpawnReview ==
  /\ CanCreate(tree, cur.item)
  /\ created < MaxItems
  /\ tree' = [tree EXCEPT ![created + 1] = NewItem("review", cur.item),
                          ![cur.item].await = TRUE]
  /\ created' = created + 1
  /\ inl' = ResetInline(tree)
  /\ UNCHANGED <<last, used>>

SpawnSynth ==
  /\ tree' = IF cur.synth THEN RequestRollup(tree, cur.item) ELSE tree
  /\ inl' = IF cur.synth THEN ResetInline(tree) ELSE inl
  /\ UNCHANGED <<created, last, used>>

Spawn ==
  /\ pc = "spawn"
  /\ LET policy == last[cur.item].policy
     IN  \/ policy = "decompose" /\ (SpawnInPlace \/ SpawnDenied \/ SpawnChildren)
         \/ policy = "escalate" /\ SpawnReview
         \/ policy \notin {"decompose", "escalate"} /\ SpawnSynth
  /\ pc' = "parent"
  /\ UNCHANGED <<running, cur>>

\* No child can be created: the error ends the turn.
SpawnError ==
  /\ pc = "spawn"
  /\ last[cur.item].policy = "escalate"
  /\ ~CanCreate(tree, cur.item)
  /\ ToIdle
  /\ UNCHANGED <<tree, created, last, inl, running, used>>

Parent ==
  /\ pc = "parent"
  /\ ReevaluateParent(tree, tree[cur.item].parent)
  /\ pc' = "exit"
  /\ UNCHANGED <<created, inl, running, cur, used>>

(***************************************************************************)
(* evaluateSessionLoopExitAfterRound and the rest of the tick               *)
(***************************************************************************)

Stagnates == last[cur.item].deliv = "owed" /\ last[cur.item].policy = "none"

Exit ==
  /\ pc = "exit"
  /\ IF last[cur.item].policy = "escalate" THEN ToIdle /\ UNCHANGED tree
     ELSE IF Stagnates THEN OverdueRollup \/ Finish
     ELSE IF ~HasOpenWork(tree)
     THEN OverdueRollup \/ Fallback \/ (FallbackDue(tree) = {} /\ Finish)
     ELSE IF NoForwardProgress(tree) THEN OverdueRollup \/ Finish
     ELSE ToTick /\ UNCHANGED tree
  /\ UNCHANGED <<created, last, inl, running, used>>

\* /task review approve.
Approve(i) ==
  /\ tree[i].kind = "review" /\ tree[i].status = "pending"
  /\ ReevaluateParent(WithStatus(tree, i, "completed"), tree[i].parent)
  /\ UNCHANGED <<created, inl, running, pc, cur, used>>

\* The tree is read back from its file; runs and the turn are gone.
Crash ==
  /\ Spend("crashes", MaxCrashes)
  /\ tree' = Persistent(tree)
  /\ running' = {}
  /\ ToIdle
  /\ UNCHANGED <<created, last, inl>>

Turn ==
  \/ NoFocus \/ AskForReview \/ StartRound \/ Execute
  \/ Spawn \/ SpawnError \/ Parent \/ Exit
  \/ RoundError \/ RoundEnds

Next ==
  \/ Message \/ ContextDone \/ FastAnswer \/ TodoWrite \/ Delegate
  \/ Turn
  \/ \E i \in Id : RunEnds(i) \/ Approve(i)
  \/ Crash

\* While the loop or a worker can do something, one of them does it.
Spec == Init /\ [][Next]_vars /\ WF_vars(Turn \/ \E i \in Id : RunEnds(i))

(***************************************************************************)
(* Properties                                                              *)
(***************************************************************************)

\* Open work never gets under a work item that has ended, through rounds,
\* workers that end late, reviews, promotions and crashes: no step ends an item
\* over an open child, and none opens work under an item that has ended.  R0 of
\* the spawn policy and the counts of ReevaluateParentAfterChild keep it so, but
\* for one race: the end of a delegate that comes between a round that asked for
\* its synthesis and ApplySpawnPolicy may give the round's item up and end its
\* parent, and the item is then reopened under it.
Reopening == IF pc = "spawn" /\ pc' = "parent" /\ cur.synth THEN {cur.item} ELSE {}
EndedGetsNoOpenWork ==
  [][\A i \in Present(tree') :
       /\ tree'[i].kind # "checklist" /\ tree'[i].status \in Terminal
       /\ tree[i].status \in Terminal => Busy(tree, i) = {}
       => Busy(tree', i) \subseteq Reopening]_vars

\* A parent whose children have all failed is never reported as completed, by a
\* rollup or by anything else (RH-MUPS-04).
AllFailedNeverPasses ==
  [][\A i \in Present(tree) :
       /\ WorkChildren(tree, i) # {}
       /\ Broken(tree', i) = WorkChildren(tree', i)
       /\ tree[i].status \notin Terminal
       => tree'[i].status # "completed"]_vars

\* Between two rounds, an open item whose last round split it has children to
\* wait for, unless a crash came between the round and the children: otherwise
\* nobody would ever take it up again.
SplitHasChildren ==
  pc \in {"idle", "tick"} /\ used.crashes = 0 =>
    \A i \in Open(tree) : last[i].policy = "decompose" => WorkChildren(tree, i) # {}

\* The ways a turn goes round without end: the focus waits for a child in
\* progress that has no run; the rollup of failed work waits for the review it
\* asked for itself; a finished goal with a todo list is rolled up again.
WaitsForNothing ==
  \E i \in PipelineFocus(tree) :
    Blocked(i) /\ \A c \in WorkChildren(tree, i) : c \notin running
WaitsForReview ==
  \E i \in PipelineFocus(tree) :
    tree[i].rollup /\ \E c \in Busy(tree, i) : tree[c].kind = "review"
TodoAgain == \E i \in RootGoals(tree) : tree[i].rollup /\ Checklist(tree, i) # {}

\* Every turn ends.
TurnEnds == pc = "tick" ~> pc = "idle"

\* Every turn ends or is in one of the three.
TurnEndsOrSpins ==
  pc = "tick" ~> (pc = "idle" \/ (pc = "tick" /\ (WaitsForNothing \/ WaitsForReview \/ TodoAgain)))
============================================================================
