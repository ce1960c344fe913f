------------------------- MODULE SessionLoopProofs -------------------------
(***************************************************************************)
(* The safety of the loop over the work tree, for every size of the tree,    *)
(* depth, limit and bound.                                                  *)
(*                                                                         *)
(* The argument is about what a round may rely on when it starts, although   *)
(* delegates' runs end and reviews are approved at any moment of it.  A       *)
(* delegate (an item delegate_* made) never has children, is never the        *)
(* round's item and is never reopened, so the end of its run disturbs its      *)
(* goal alone.  An item a round may start on without rolling its children up   *)
(* has no children but delegates, and none that has ended: the end of the last  *)
(* one ends the goal or asks for its rollup in the same step.  Hence what such a *)
(* round finds at its start still holds when it is recorded, unless the item    *)
(* has been locked meanwhile, and then the round is not recorded.              *)
(*                                                                         *)
(* The parts of the invariant are about a tree t with the rounds l and the     *)
(* retries n of its items, while the loop is in a round on item k and is about   *)
(* to apply the spawn policy of item a, so that the steps of                  *)
(* ReevaluateParentAfterChild can be followed one after the other.             *)
(***************************************************************************)
EXTENDS SessionLoop, TLAPS

(***************************************************************************)
(* The decision                                                            *)
(***************************************************************************)
(* What SpawnPolicyEvaluator may never answer, whatever the limits are and   *)
(* whatever a round found.                                                  *)


\* The answer is a policy, and never the parallel exploration the verdict table
\* has for a failed scenario: the scenario strategy has the last word and takes
\* it away.
THEOREM AnswerIsAPolicy ==
  ASSUME NEW r \in Round, NEW c \in Context
  PROVE  SpawnPolicy(r, c) \in Policy \ {"explore"}
<1>1. Budget(r, c) \in {"await", "none", "inline", "escalate"}
  BY DEF Budget, Continuation
<1>2. VerdictDirection(r, c) \in Policy \ {"explore"}
  <2>1. ByPass(r, c) \in {"none", "inline", "escalate"}
    BY DEF ByPass, Continuation
  <2>2. ByPartial(r, c) \in {"none", "inline", "escalate", "decompose"}
    BY DEF ByPartial, Continuation
  <2>3. ByIndeterminate(r, c) \in {"inline", "escalate", "decompose"}
    BY DEF ByIndeterminate
  <2>4. r.plan # "scenario" => ByFail(r, c) \in {"none", "inline", "decompose"}
    BY DEF ByFail
  <2> QED
    BY <2>1, <2>2, <2>3, <2>4 DEF VerdictDirection, CommitmentEnds, ScenarioEnds,
           ExplorationSplits, ByVerdict, Round, Verdict, Policy
<1> QED
  BY <1>1, <1>2 DEF SpawnPolicy, Policy

\* A running child is always waited for: no round of its parent ends the
\* parent, splits it again or asks a human (R0 before everything else).
THEOREM RunningChildIsAwaited ==
  ASSUME NEW r \in Round, NEW c \in Context, c.running
  PROVE  SpawnPolicy(r, c) = "await"
BY DEF SpawnPolicy, BudgetFires, Budget

\* An item is split only if no child of it runs, it is not at the greatest depth
\* and the children of the day are not used up (R0, R1 and R2 before the report
\* and the verdict).
THEOREM SplitWithinBudget ==
  ASSUME NEW r \in Round, NEW c \in Context, SpawnPolicy(r, c) = "decompose"
  PROVE  ~c.running /\ ~c.atDepth /\ ~c.daily
<1>1. Budget(r, c) # "decompose"
  BY DEF Budget, Continuation
<1> QED
  BY <1>1 DEF SpawnPolicy, BudgetFires

\* An item whose deliverable is owed is finished only by a round that failed:
\* neither a pass nor a partial verdict ends it.
THEOREM OwedIsNotFinished ==
  ASSUME NEW r \in Round, NEW c \in Context,
         Owed(r), SpawnPolicy(r, c) = "none"
  PROVE  r.verdict = "fail"
<1>1. ~BudgetFires(r, c)
  <2>1. Applicable(r)
    BY DEF Owed, Applicable
  <2> QED
    BY <2>1 DEF SpawnPolicy, Budget, Continuation
<1>2. SpawnPolicy(r, c) = VerdictDirection(r, c)
  BY <1>1 DEF SpawnPolicy
<1>3. Continuation(r, c) # "none"
  BY DEF Continuation
<1>4. r.verdict = "pass" => VerdictDirection(r, c) # "none"
  BY <1>3 DEF VerdictDirection, CommitmentEnds, ScenarioEnds, ExplorationSplits,
         ByVerdict, ByPass
<1>5. r.verdict = "partial" => VerdictDirection(r, c) # "none"
  BY <1>3 DEF VerdictDirection, CommitmentEnds, ScenarioEnds, ExplorationSplits,
         ByVerdict, ByPartial
<1>6. r.verdict = "indeterminate" => VerdictDirection(r, c) # "none"
  BY DEF VerdictDirection, CommitmentEnds, ScenarioEnds, ExplorationSplits, ByVerdict,
         ByIndeterminate
<1> QED
  BY <1>2, <1>4, <1>5, <1>6 DEF Round, Verdict

\* A committed item tries again in place at most MaxInline times in a row: the
\* last try asks a human, unless it only puts the findings together.  Rollups
\* and indeterminate verdicts have limits of their own.
THEOREM InPlaceIsBounded ==
  ASSUME NEW r \in Round, NEW c \in Context,
         ~Exploratory(r), r.verdict # "indeterminate",
         c.rollup => r.verdict = "pass",
         SpawnPolicy(r, c) = "inline"
  PROVE  c.inl + 1 < MaxInline \/ SynthRequested(r, c)
<1> USE LimitsAssumption DEF Context
<1>1. Continuation(r, c) = "inline" => c.inl + 1 < MaxInline \/ RollupSynthEligible(r, c)
  BY DEF Continuation, InlineWouldExhaust
<1>2. CASE BudgetFires(r, c)
  BY <1>1, <1>2 DEF SpawnPolicy, Budget, InlineWouldExhaust, SynthRequested
<1>3. CASE ~BudgetFires(r, c)
  <2>1. VerdictDirection(r, c) = "inline"
    BY <1>3 DEF SpawnPolicy
  <2>2. Continuation(r, c) = "inline"
    BY <2>1 DEF VerdictDirection, CommitmentEnds, ScenarioEnds, ExplorationSplits,
           ByVerdict, ByPass, ByPartial, ByFail, Exploratory, Round, Verdict, PlanKind
  <2> QED
    BY <1>1, <2>2 DEF SynthRequested
<1> QED
  BY <1>2, <1>3

\* A rollup that has used up its retries asks a human or ends: it is never tried
\* again in place, and its findings are not put together once more either.
THEOREM RollupIsBounded ==
  ASSUME NEW r \in Round, NEW c \in Context,
         RollupExhausted(c), r.verdict # "pass", r.report = "nothing",
         ~c.running, ~c.atDepth
  PROVE  /\ SpawnPolicy(r, c) \in {"escalate", "none"}
         /\ ~SynthRequested(r, c)
<1>1. SpawnPolicy(r, c) \in {"escalate", "none"}
  BY DEF SpawnPolicy, BudgetFires, Budget, RollupExhausted
<1> QED
  BY <1>1 DEF SynthRequested

(***************************************************************************)
(* The loop                                                                *)
(***************************************************************************)

Work(t) == {i \in Present(t) : t[i].kind # "checklist"}

RoundRecord ==
  [policy : Policy \cup {"answer", "noround"}, deliv : Deliverable, rr : 0 .. MaxRollup]

\* No round was ever run on the item, and it has no work under it.
Quiet(t, l, n, k, c) ==
  /\ l[c] = NoRound /\ n[c] = 0 /\ k # c /\ ~t[c].rollup
  /\ WorkChildren(t, c) = {}

\* What an item made by delegate_* stays for ever.
IsDelegate(t, l, n, k, c) ==
  /\ t[c].kind = "implement" /\ t[t[c].parent].kind = "goal"
  /\ t[c].status \in {"in_progress", "completed", "failed"}
  /\ Quiet(t, l, n, k, c)

DelegatesOnly(t, l, n, k, i) == \A c \in WorkChildren(t, i) : IsDelegate(t, l, n, k, c)

\* A round that rolls nothing up may start on the item.
Startable(t, l, i) ==
  /\ ~t[i].rollup
  /\ \/ t[i].status = "pending"
     \/ t[i].status = "in_progress" /\ l[i].policy = "inline" /\ l[i].deliv = "owed"

(***************************************************************************)
(* The invariant, item by item                                             *)
(***************************************************************************)

LockOK(t, i) == t[i].locked <=> t[i].status \in Terminal

ReviewOK(t, l, n, k, i) ==
  t[i].kind = "review" => Quiet(t, l, n, k, i) /\ t[i].status \in {"pending", "completed"}

\* What has ended after it was split has been rolled up or is asked to be.
EndedOK(t, l, i) ==
  t[i].status \in Terminal /\ HadSplit(l, i) =>
    /\ WorkChildren(t, i) # {} => t[i].rollup
    /\ t[i].kind = "goal" => WorkChildren(t, i) # {}

Fresh(t, i) == t[i].status = "pending" /\ ~t[i].rollup

PendingOK(t, l, n, k, i) ==
  Fresh(t, i) =>
    l[i] = NoRound /\ DelegatesOnly(t, l, n, k, i)

\* What owes a deliverable was split, if at all, by the very round that owes it.
OwedOK(t, l, n, k, a, i) ==
  l[i].deliv = "owed" =>
    DelegatesOnly(t, l, n, k, i) \/ (l[i].policy \in {"decompose", "escalate"} /\ a # i)

\* The end of the last delegate is not overlooked.
SettledOK(t, l, i) ==
  Startable(t, l, i) /\ WorkChildren(t, i) # {} => Busy(t, i) # {}

RetriedOK(t, l, n, k, i) == n[i] > 0 => DelegatesOnly(t, l, n, k, i)

BareOK(t, l, i) == t[i].rollup /\ WorkChildren(t, i) = {} => ~HadSplit(l, i)

ItemOK(t, l, n, k, a, i) ==
  /\ LockOK(t, i) /\ ReviewOK(t, l, n, k, i) /\ EndedOK(t, l, i)
  /\ PendingOK(t, l, n, k, i) /\ OwedOK(t, l, n, k, a, i)
  /\ RetriedOK(t, l, n, k, i) /\ BareOK(t, l, i)

Places(t) ==
  \A i \in Present(t) :
    IF t[i].kind = "goal" THEN t[i].parent = NoItem
    ELSE t[i].parent \in Work(t) /\ t[i].parent < i

Typed(t, l, n) == t \in [Id -> Item] /\ l \in [Id -> RoundRecord] /\ n \in [Id -> Nat]

\* All of it; the items of X may have to be settled yet.
TreeOK(t, l, n, k, a, X) ==
  /\ Typed(t, l, n) /\ Places(t)
  /\ \A i \in Work(t) : ItemOK(t, l, n, k, a, i)
  /\ \A i \in Work(t) \ X : SettledOK(t, l, i)

(***************************************************************************)
(* The invariant of the loop                                               *)
(***************************************************************************)

AtSpawn(q, c) == IF q = "spawn" THEN c.item ELSE NoItem

CurOK ==
  /\ pc \in {"idle", "tick", "observe", "exec", "spawn", "parent", "exit"}
  /\ cur \in [item : Id \cup {NoItem}, rollup : BOOLEAN, parent : BOOLEAN, synth : BOOLEAN]
  /\ cur.parent => cur.rollup
  /\ pc \in {"observe", "exec"} => ~cur.synth
  /\ IF pc \in {"idle", "tick"} THEN cur = Idle ELSE cur.item \in Work(tree)

\* What a round c that rolls nothing up relies on at q, until it is recorded.
RoundOK(t, l, n, q, c, X) ==
  q \in {"observe", "exec"} /\ ~c.parent =>
    /\ DelegatesOnly(t, l, n, c.item, c.item) /\ ~HadSplit(l, c.item)
    /\ ~c.rollup => ~t[c.item].rollup
    /\ q = "observe" => WorkChildren(t, c.item) = {}
    /\ c.item \notin X /\ WorkChildren(t, c.item) # {} /\ Busy(t, c.item) = {} =>
         t[c.item].status \in Terminal

\* What applying the spawn policy relies on.
SpawnOK(t, l, q, c) ==
  q = "spawn" =>
    /\ l[c.item].deliv = "owed" /\ l[c.item].policy # "await" =>
         WorkChildren(t, c.item) = {}
    /\ c.synth => ~HadSplit(l, c.item)

RunsOK(t, l, n, k, R) == \A i \in R : i \in Work(t) /\ IsDelegate(t, l, n, k, i)

\* A retry that owes is a setback: this bounds the retries of the model.
BoundsOK ==
  /\ created \in 0 .. MaxItems
  /\ \A i \in Id : i > created => tree[i].kind = "none" /\ last[i] = NoRound /\ inl[i] = 0
  /\ used \in [{"messages", "setbacks", "todos", "delegates", "crashes"} -> Nat]
  /\ used.setbacks <= MaxSetbacks
  /\ \A i \in Id : inl[i] <= used.setbacks

LoopInv ==
  /\ TreeOK(tree, last, inl, cur.item, AtSpawn(pc, cur), {})
  /\ CurOK /\ BoundsOK
  /\ RoundOK(tree, last, inl, pc, cur, {}) /\ SpawnOK(tree, last, pc, cur)
  /\ RunsOK(tree, last, inl, cur.item, running)

(***************************************************************************)
(* The shape of a tree                                                     *)
(***************************************************************************)

\* u has the items of t at their places, whatever became of them.
SamePlaces(t, u) == \A i \in Id : u[i].kind = t[i].kind /\ u[i].parent = t[i].parent

\* Nothing the invariant tells apart has changed on item i.
SameItem(t, u, i) ==
  /\ u[i].status = t[i].status /\ u[i].locked = t[i].locked /\ u[i].rollup = t[i].rollup

LEMMA IdFacts == Id \subseteq Nat /\ NoItem \notin Id /\ NoItem \in Nat
BY MaxItemsAssumption DEF Id, NoItem

LEMMA WorkFacts ==
  ASSUME NEW t
  PROVE  /\ Work(t) \subseteq Present(t) /\ Present(t) \subseteq Id
         /\ \A i \in Id : i \in Work(t) <=> t[i].kind \in LiveKind \ {"checklist"}
         /\ \A p : WorkChildren(t, p) \subseteq Work(t)
         /\ \A p, c : c \in WorkChildren(t, p) <=> c \in Work(t) /\ t[c].parent = p
BY DEF Work, Present, WorkChildren, Children

LEMMA SameShape ==
  ASSUME NEW t, NEW u, SamePlaces(t, u)
  PROVE  /\ Present(u) = Present(t) /\ Work(u) = Work(t)
         /\ \A p : WorkChildren(u, p) = WorkChildren(t, p)
<1>1. Present(u) = Present(t)
  BY DEF SamePlaces, Present
<1>2. Work(u) = Work(t)
  BY <1>1 DEF SamePlaces, Work, Present
<1>3. ASSUME NEW p PROVE WorkChildren(u, p) = WorkChildren(t, p)
  BY <1>1 DEF SamePlaces, WorkChildren, Children, Present
<1> QED BY <1>1, <1>2, <1>3

LEMMA SamePlacesOK ==
  ASSUME NEW t, NEW u, SamePlaces(t, u), Places(t)
  PROVE  Places(u)
<1>1. Present(u) = Present(t) /\ Work(u) = Work(t) /\ Present(t) \subseteq Id
  BY SameShape, WorkFacts
<1> QED BY <1>1 DEF Places, SamePlaces

\* A child is younger than its parent, and only goals have none.
LEMMA ChildFacts ==
  ASSUME NEW t, Places(t), NEW p, NEW c \in WorkChildren(t, p)
  PROVE  /\ c \in Work(t) /\ c \in Id /\ t[c].parent = p /\ c # p
         /\ p # NoItem => p \in Work(t) /\ t[c].kind # "goal"
<1>1. c \in Present(t) /\ c \in Id /\ c \in Work(t) /\ t[c].parent = p
  BY WorkFacts
<1>2. CASE t[c].kind = "goal"
  BY <1>1, <1>2, IdFacts DEF Places
<1>3. CASE t[c].kind # "goal"
  <2>1. p \in Work(t) /\ p < c
    BY <1>1, <1>3 DEF Places
  <2>2. p \in Nat /\ c \in Nat
    BY <1>1, <2>1, WorkFacts, IdFacts
  <2> QED BY <1>1, <1>3, <2>1, <2>2
<1> QED BY <1>2, <1>3

(***************************************************************************)
(* What the methods of the tree change                                     *)
(***************************************************************************)

LEMMA ItemFields ==
  ASSUME NEW x \in Item
  PROVE  /\ x.kind \in Kind /\ x.parent \in Id \cup {NoItem} /\ x.status \in TaskStatus
         /\ x.locked \in BOOLEAN /\ x.rollup \in BOOLEAN
BY DEF Item

LEMMA StatusFields ==
  ASSUME NEW t \in [Id -> Item], NEW i \in Id, NEW s \in TaskStatus
  PROVE  LET u == WithStatus(t, i, s)
         IN  /\ u \in [Id -> Item]
             /\ \A j \in Id : j # i => u[j] = t[j]
             /\ u[i].kind = t[i].kind /\ u[i].parent = t[i].parent
             /\ u[i].rollup = t[i].rollup
             /\ u[i].status = s /\ u[i].locked = (t[i].locked \/ s \in Terminal)
<1>1. t[i] \in Item /\ t[i].locked \in BOOLEAN
  BY ItemFields
<1> QED BY <1>1 DEF WithStatus, Item

LEMMA AwaitFields ==
  ASSUME NEW t \in [Id -> Item], NEW i \in Id, NEW b \in BOOLEAN
  PROVE  LET u == [t EXCEPT ![i].await = b]
         IN  /\ u \in [Id -> Item] /\ SamePlaces(t, u)
             /\ \A j \in Id : SameItem(t, u, j)
BY DEF Item, SamePlaces, SameItem

LEMMA RollupFields ==
  ASSUME NEW t \in [Id -> Item], NEW i \in Id, NEW b \in BOOLEAN
  PROVE  LET u == WithRollup(t, i, b)
         IN  /\ u \in [Id -> Item]
             /\ \A j \in Id : j # i => u[j] = t[j]
             /\ u[i].kind = t[i].kind /\ u[i].parent = t[i].parent
             /\ u[i].status = t[i].status /\ u[i].locked = t[i].locked
             /\ u[i].rollup = b
BY DEF WithRollup, Item

LEMMA ReopenFields ==
  ASSUME NEW t \in [Id -> Item], NEW i \in Id
  PROVE  LET u == WithReopened(t, i)
         IN  /\ u \in [Id -> Item]
             /\ \A j \in Id : j # i => u[j] = t[j]
             /\ u[i].kind = t[i].kind /\ u[i].parent = t[i].parent
             /\ u[i].status = "pending" /\ u[i].locked = FALSE
             /\ u[i].rollup = t[i].rollup
<1>1. "pending" \in TaskStatus
  BY DEF TaskStatus
<1>2. [t[i] EXCEPT !.status = "pending", !.locked = FALSE, !.await = FALSE] \in Item
  BY <1>1 DEF Item
<1> QED BY <1>1, <1>2 DEF WithReopened, Item

\* UpdateStatus by a caller that ignores the refusal.
LEMMA TryFields ==
  ASSUME NEW t \in [Id -> Item], NEW i \in Id, NEW s \in TaskStatus
  PROVE  LET u == TryStatus(t, i, s)
         IN  /\ u \in [Id -> Item] /\ SamePlaces(t, u)
             /\ \A j \in Id : j # i => u[j] = t[j]
             /\ u[i].rollup = t[i].rollup
             /\ CanSetStatus(t, i, s) =>
                  u[i].status = s /\ u[i].locked = (t[i].locked \/ s \in Terminal)
             /\ ~CanSetStatus(t, i, s) => u[i] = t[i]
<1>1. CASE CanSetStatus(t, i, s)
  BY <1>1, StatusFields DEF TryStatus, SamePlaces
<1>2. CASE ~CanSetStatus(t, i, s)
  BY <1>2 DEF TryStatus, SamePlaces
<1> QED BY <1>1, <1>2

\* SetNeedsRollup, and ReopenForRollup of what has ended.
LEMMA RequestFields ==
  ASSUME NEW t \in [Id -> Item], NEW i \in Id
  PROVE  LET u == RequestRollup(t, i)
         IN  /\ u \in [Id -> Item] /\ SamePlaces(t, u)
             /\ \A j \in Id : j # i => u[j] = t[j]
             /\ u[i].rollup = TRUE
             /\ t[i].status \in {"completed", "failed"} =>
                  u[i].status = "pending" /\ u[i].locked = FALSE
             /\ t[i].status \notin {"completed", "failed"} =>
                  u[i].status = t[i].status /\ u[i].locked = t[i].locked
<1> DEFINE r == WithRollup(t, i, TRUE)
<1>1. /\ r \in [Id -> Item]
      /\ \A j \in Id : j # i => r[j] = t[j]
      /\ r[i].kind = t[i].kind /\ r[i].parent = t[i].parent
      /\ r[i].status = t[i].status /\ r[i].locked = t[i].locked
      /\ r[i].rollup = TRUE
  BY RollupFields
<1>2. CanReopen(r, i) <=> t[i].status \in {"completed", "failed"}
  BY <1>1 DEF CanReopen
<1>3. CASE t[i].status \in {"completed", "failed"}
  <2>1. RequestRollup(t, i) = WithReopened(r, i)
    BY <1>2, <1>3 DEF RequestRollup, Terminal
  <2> HIDE DEF r
  <2>2. /\ WithReopened(r, i) \in [Id -> Item]
        /\ \A j \in Id : j # i => WithReopened(r, i)[j] = r[j]
        /\ WithReopened(r, i)[i].kind = r[i].kind
        /\ WithReopened(r, i)[i].parent = r[i].parent
        /\ WithReopened(r, i)[i].status = "pending"
        /\ WithReopened(r, i)[i].locked = FALSE
        /\ WithReopened(r, i)[i].rollup = r[i].rollup
    BY <1>1, ReopenFields
  <2> QED BY <1>1, <1>3, <2>1, <2>2 DEF SamePlaces
<1>4. CASE t[i].status \notin {"completed", "failed"}
  <2>1. RequestRollup(t, i) = r
    BY <1>2, <1>4 DEF RequestRollup
  <2> HIDE DEF r
  <2> QED BY <1>1, <1>4, <2>1 DEF SamePlaces
<1> QED BY <1>3, <1>4

\* What may still change its status is not locked, and may end from in_progress.
LEMMA Transitions ==
  ASSUME NEW t, NEW i \in Work(t), LockOK(t, i), t[i].status \in TaskStatus
  PROVE  /\ t[i].status = "pending" => CanSetStatus(t, i, "in_progress")
                                       /\ ~CanSetStatus(t, i, "failed")
                                       /\ ~CanSetStatus(t, i, "completed")
         /\ t[i].status = "in_progress" => /\ CanSetStatus(t, i, "in_progress")
                                           /\ CanSetStatus(t, i, "failed")
                                           /\ CanSetStatus(t, i, "completed")
         /\ \A s \in TaskStatus :
              t[i].status \in Terminal /\ CanSetStatus(t, i, s) => s = t[i].status
         /\ t[i].status \notin Terminal <=> t[i].status \in {"pending", "in_progress"}
         /\ t[i].status \notin Terminal <=> Mutable(t, i)
<1>1. i \in Present(t)
  BY DEF Work
<1> QED BY <1>1 DEF LockOK, CanSetStatus, IsLegalTransition, Terminal, TaskStatus, Mutable

(***************************************************************************)
(* What a step leaves alone stays as it was                                *)
(***************************************************************************)

\* Between two trees, only the items of S have changed.
Touched(t, l, n, u, m, o, S) ==
  /\ SamePlaces(t, u)
  /\ \A i \in Id \ S : SameItem(t, u, i) /\ m[i] = l[i] /\ o[i] = n[i]

LEMMA StartableMeans ==
  ASSUME NEW t, NEW l, NEW n, NEW k, NEW a, NEW i,
         ItemOK(t, l, n, k, a, i), Startable(t, l, i)
  PROVE  DelegatesOnly(t, l, n, k, i)
BY DEF ItemOK, Startable, PendingOK, Fresh, OwedOK

\* A delegate stays one while others change.
LEMMA DelegateStays ==
  ASSUME NEW t, NEW l, NEW n, NEW u, NEW m, NEW o, NEW k, NEW c \in Work(t),
         Places(t), SamePlaces(t, u),
         SameItem(t, u, c), m[c] = l[c], o[c] = n[c], IsDelegate(t, l, n, k, c)
  PROVE  IsDelegate(u, m, o, k, c)
<1>1. c \in Present(t) /\ c \in Id /\ t[c].kind # "goal"
  BY WorkFacts DEF IsDelegate
<1>2. t[c].parent \in Id
  BY <1>1, WorkFacts DEF Places
<1>3. WorkChildren(u, c) = WorkChildren(t, c)
  BY SameShape
<1> QED BY <1>1, <1>2, <1>3 DEF IsDelegate, Quiet, SamePlaces, SameItem

\* The items of S keep the invariant by themselves, and delegates among them remain
\* ones: then the others keep it too, but for the parents of those delegates.  An item a round may start on has only delegates under it.
LEMMA TouchedOK ==
  ASSUME NEW t, NEW l, NEW n, NEW u, NEW m, NEW o, NEW k, NEW a, NEW b,
         NEW X, NEW Y, NEW S,
         TreeOK(t, l, n, k, a, X), Typed(u, m, o), Touched(t, l, n, u, m, o, S),
         \A s \in S : s \in Work(t) /\ IsDelegate(t, l, n, k, s) =>
           IsDelegate(u, m, o, k, s) /\ t[s].parent \in Y,
         \A s \in S : s \in Work(t) => ItemOK(u, m, o, k, b, s)
                                       /\ (s \notin Y => SettledOK(u, m, s)),
         X \subseteq Y \cup S,
         \A i \in Work(t) \ S : b = i => a = i
  PROVE  /\ TreeOK(u, m, o, k, b, Y)
         /\ \A c \in Work(t) : IsDelegate(t, l, n, k, c) => IsDelegate(u, m, o, k, c)
<1>1. SamePlaces(t, u) /\ Places(t) /\ Work(u) = Work(t) /\ Work(t) \subseteq Id
      /\ \A p : WorkChildren(u, p) = WorkChildren(t, p)
  BY SameShape, WorkFacts DEF Touched, TreeOK
<1>2. ASSUME NEW c \in Work(t), IsDelegate(t, l, n, k, c)
      PROVE  IsDelegate(u, m, o, k, c) /\ (c \in S => t[c].parent \in Y)
  <2>1. CASE c \in S
    BY <1>2, <2>1
  <2>2. CASE c \in Id \ S
    BY <1>1, <1>2, <2>2, DelegateStays DEF Touched
  <2> QED BY <1>1, <2>1, <2>2
<1>3. ASSUME NEW i \in Work(t), DelegatesOnly(t, l, n, k, i)
      PROVE  DelegatesOnly(u, m, o, k, i)
  <2>1. \A c \in WorkChildren(t, i) : c \in Work(t)
    BY WorkFacts
  <2> QED BY <1>1, <1>2, <1>3, <2>1 DEF DelegatesOnly
<1>4. ASSUME NEW i \in Work(t) \ S
      PROVE  ItemOK(u, m, o, k, b, i)
  <2>1. /\ u[i].status = t[i].status /\ u[i].locked = t[i].locked
        /\ u[i].rollup = t[i].rollup /\ m[i] = l[i] /\ o[i] = n[i]
        /\ u[i].kind = t[i].kind /\ WorkChildren(u, i) = WorkChildren(t, i)
    BY <1>1 DEF Touched, SameItem, SamePlaces
  <2>2. ItemOK(t, l, n, k, a, i)
    BY DEF TreeOK
  <2>3. LockOK(u, i)
    BY <2>1, <2>2 DEF ItemOK, LockOK
  <2>4. ReviewOK(u, m, o, k, i)
    BY <2>1, <2>2 DEF ItemOK, ReviewOK, Quiet
  <2>5. EndedOK(u, m, i) /\ BareOK(u, m, i)
    BY <2>1, <2>2 DEF ItemOK, EndedOK, BareOK, HadSplit
  <2>6. PendingOK(u, m, o, k, i) /\ RetriedOK(u, m, o, k, i)
    BY <2>1, <2>2, <1>3 DEF ItemOK, PendingOK, Fresh, RetriedOK
  <2>7. OwedOK(u, m, o, k, b, i)
    BY <2>1, <2>2, <1>3 DEF ItemOK, OwedOK
  <2> QED BY <2>3, <2>4, <2>5, <2>6, <2>7 DEF ItemOK
<1>5. ASSUME NEW i \in Work(t) \ S, i \notin Y, Startable(u, m, i),
             WorkChildren(u, i) # {}
      PROVE  Busy(u, i) # {}
  <2>1. Startable(t, l, i) /\ WorkChildren(t, i) # {} /\ i \notin X
    BY <1>1, <1>5 DEF Startable, Touched, SameItem
  <2>2. Busy(t, i) # {}
    BY <2>1 DEF TreeOK, SettledOK
  <2>3. PICK c \in WorkChildren(t, i) : t[c].status \notin Terminal
    BY <2>2 DEF Busy
  <2>4. c \in Work(t) /\ IsDelegate(t, l, n, k, c)
    BY <2>1, StartableMeans, WorkFacts DEF TreeOK, DelegatesOnly
  <2>5. u[c].status = t[c].status
    <3>1. t[c].parent = i
      BY <2>3, WorkFacts
    <3>2. c \in Id \ S
      BY <1>1, <1>2, <1>5, <2>4, <3>1
    <3> QED BY <3>2 DEF Touched, SameItem
  <2> QED BY <1>1, <2>3, <2>5 DEF Busy
<1>6. Places(u)
  BY <1>1, SamePlacesOK
<1>7. \A i \in Work(u) : ItemOK(u, m, o, k, b, i)
  BY <1>1, <1>4
<1>8. \A i \in Work(u) \ Y : SettledOK(u, m, i)
  BY <1>1, <1>5 DEF SettledOK
<1> QED BY <1>2, <1>6, <1>7, <1>8 DEF TreeOK

\* In u there are new open items N under q, or none.
Added(t, l, n, u, o, k, N, q) ==
  /\ Places(t) /\ Places(u) /\ N \subseteq Id /\ N \cap Present(t) = {}
  /\ Work(u) = Work(t) \cup N
  /\ \A i \in Work(t) : /\ u[i].kind = t[i].kind /\ u[i].parent = t[i].parent
                        /\ SameItem(t, u, i) /\ (i # q => o[i] = n[i])
  /\ \A c \in N : /\ u[c].parent = q /\ ~u[c].rollup /\ ~u[c].locked
                  /\ \/ u[c].status = "pending"
                     \/ u[c].status = "in_progress" /\ u[c].kind = "implement"
                  /\ l[c] = NoRound /\ o[c] = 0 /\ c # k
  /\ q \in Work(t) \cup {NoItem}
  /\ q \in Work(t) => ~IsDelegate(t, l, n, k, q) /\ t[q].kind # "review"

\* No item but q has more children than before.
LEMMA AddedShape ==
  ASSUME NEW t, NEW l, NEW n, NEW u, NEW o, NEW k, NEW N, NEW q,
         Added(t, l, n, u, o, k, N, q)
  PROVE  /\ \A c \in Work(t) : IsDelegate(t, l, n, k, c) => IsDelegate(u, l, o, k, c)
         /\ \A i \in Work(t) \ {q} : WorkChildren(u, i) = WorkChildren(t, i)
         /\ \A c \in N : WorkChildren(u, c) = {}
         /\ q \in Work(t) => WorkChildren(u, q) = WorkChildren(t, q) \cup N
<1>0. /\ Work(t) \subseteq Id /\ NoItem \notin Id /\ Places(t)
      /\ \A p, c : c \in WorkChildren(t, p) <=> c \in Work(t) /\ t[c].parent = p
      /\ \A p, c : c \in WorkChildren(u, p) <=> c \in Work(u) /\ u[c].parent = p
      /\ \A c \in N : c \notin Work(t)
  BY WorkFacts, IdFacts DEF Added
<1>1. ASSUME NEW i \in Work(t) \ {q}
      PROVE  WorkChildren(u, i) = WorkChildren(t, i)
  <2>1. ASSUME NEW c \in WorkChildren(u, i) PROVE c \in WorkChildren(t, i)
    <3>1. c \in Work(t) \cup N /\ u[c].parent = i
      BY <1>0, <2>1 DEF Added
    <3> QED BY <1>0, <3>1 DEF Added
  <2>2. ASSUME NEW c \in WorkChildren(t, i) PROVE c \in WorkChildren(u, i)
    BY <1>0, <2>2 DEF Added
  <2> QED BY <2>1, <2>2
<1>2. ASSUME NEW c \in N PROVE WorkChildren(u, c) = {}
  <2>1. SUFFICES ASSUME NEW d \in WorkChildren(u, c) PROVE FALSE
    OBVIOUS
  <2>2. d \in Work(u) /\ u[d].parent = c
    BY <1>0
  <2>3. d \notin N
    BY <1>0, <2>2 DEF Added
  <2>4. d \in Work(t) /\ t[d].parent = c
    BY <2>2, <2>3 DEF Added
  <2>5. d \in WorkChildren(t, c) /\ c # NoItem
    BY <1>0, <2>4 DEF Added
  <2> QED BY <1>0, <2>5, ChildFacts
<1>3. q \in Work(t) => WorkChildren(u, q) = WorkChildren(t, q) \cup N
  BY <1>0 DEF Added
<1>4. ASSUME NEW c \in Work(t), IsDelegate(t, l, n, k, c)
      PROVE  IsDelegate(u, l, o, k, c)
  <2>1. c # q
    BY <1>4 DEF Added
  <2>2. t[c].parent \in Work(t)
    BY <1>0, WorkFacts, <1>4 DEF Places, IsDelegate
  <2> QED BY <1>0, <1>1, <1>4, <2>1, <2>2 DEF Added, IsDelegate, Quiet, SameItem
<1> QED BY <1>1, <1>2, <1>3, <1>4

LEMMA AddedOK ==
  ASSUME NEW t, NEW l, NEW n, NEW u, NEW o, NEW k, NEW a, NEW b, NEW X, NEW N, NEW q,
         TreeOK(t, l, n, k, a, X), Typed(u, l, o), Added(t, l, n, u, o, k, N, q),
         q \in Work(t) => ItemOK(u, l, o, k, b, q) /\ SettledOK(u, l, q),
         \A i \in Work(t) \ {q} : b = i => a = i
  PROVE  TreeOK(u, l, o, k, b, X)
<1>0. /\ Work(t) \subseteq Id /\ NoItem \notin Id
      /\ \A p, c : c \in WorkChildren(t, p) <=> c \in Work(t) /\ t[c].parent = p
      /\ Work(u) = Work(t) \cup N /\ Places(u) /\ q \in Work(t) \cup {NoItem}
  BY WorkFacts, IdFacts DEF Added
<1>1. /\ \A c \in Work(t) : IsDelegate(t, l, n, k, c) => IsDelegate(u, l, o, k, c)
      /\ \A i \in Work(t) \ {q} : WorkChildren(u, i) = WorkChildren(t, i)
      /\ \A c \in N : WorkChildren(u, c) = {}
  BY AddedShape
<1>5. ASSUME NEW i \in Work(t) \ {q}, DelegatesOnly(t, l, n, k, i)
      PROVE  DelegatesOnly(u, l, o, k, i)
  BY <1>0, <1>1, <1>5 DEF DelegatesOnly
<1>6. ASSUME NEW i \in Work(t) \ {q}
      PROVE  ItemOK(u, l, o, k, b, i)
  <2>1. /\ u[i].status = t[i].status /\ u[i].locked = t[i].locked
        /\ u[i].rollup = t[i].rollup /\ o[i] = n[i]
        /\ u[i].kind = t[i].kind /\ WorkChildren(u, i) = WorkChildren(t, i)
    BY <1>1 DEF Added, SameItem
  <2>2. ItemOK(t, l, n, k, a, i)
    BY DEF TreeOK
  <2>3. LockOK(u, i)
    BY <2>1, <2>2 DEF ItemOK, LockOK
  <2>4. ReviewOK(u, l, o, k, i)
    BY <2>1, <2>2 DEF ItemOK, ReviewOK, Quiet
  <2>5. EndedOK(u, l, i) /\ BareOK(u, l, i)
    BY <2>1, <2>2 DEF ItemOK, EndedOK, BareOK, HadSplit
  <2>6. PendingOK(u, l, o, k, i) /\ RetriedOK(u, l, o, k, i)
    BY <2>1, <2>2, <1>5 DEF ItemOK, PendingOK, Fresh, RetriedOK
  <2>7. OwedOK(u, l, o, k, b, i)
    BY <2>1, <2>2, <1>5 DEF ItemOK, OwedOK
  <2> QED BY <2>3, <2>4, <2>5, <2>6, <2>7 DEF ItemOK
<1>7. ASSUME NEW i \in Work(t) \ {q}, i \notin X
      PROVE  SettledOK(u, l, i)
  <2>1. /\ Startable(u, l, i) <=> Startable(t, l, i)
        /\ WorkChildren(u, i) = WorkChildren(t, i)
    BY <1>1 DEF Added, SameItem, Startable
  <2>2. \A c \in WorkChildren(t, i) : u[c].status = t[c].status
    BY <1>0 DEF Added, SameItem
  <2>3. Busy(u, i) = Busy(t, i)
    BY <2>1, <2>2 DEF Busy
  <2>4. SettledOK(t, l, i)
    BY <1>7 DEF TreeOK
  <2> QED BY <2>1, <2>3, <2>4 DEF SettledOK
<1>8. ASSUME NEW c \in N
      PROVE  ItemOK(u, l, o, k, b, c) /\ SettledOK(u, l, c)
  <2>1. WorkChildren(u, c) = {} /\ ~(o[c] > 0)
    BY <1>1 DEF Added
  <2>2. l[c] = NoRound /\ l[c].deliv # "owed" /\ ~HadSplit(l, c)
    BY DEF Added, NoRound, HadSplit
  <2>3. u[c].status \notin Terminal /\ ~u[c].rollup /\ ~u[c].locked /\ o[c] = 0 /\ c # k
    BY DEF Added, Terminal
  <2>4. u[c].kind = "review" => u[c].status = "pending"
    BY DEF Added
  <2> QED BY <2>1, <2>2, <2>3, <2>4 DEF ItemOK, LockOK, ReviewOK, Quiet, EndedOK, BareOK,
             PendingOK, Fresh, RetriedOK, OwedOK, DelegatesOnly, SettledOK
<1>9. (\A i \in Work(u) : ItemOK(u, l, o, k, b, i))
      /\ (\A i \in Work(u) \ X : SettledOK(u, l, i))
  BY <1>0, <1>6, <1>7, <1>8
<1> QED BY <1>0, <1>9 DEF TreeOK

\* The loop lets go of its item, or takes another one that is neither a delegate
\* nor a review.
LEMMA CursorOK ==
  ASSUME NEW t, NEW l, NEW n, NEW k, NEW h, NEW a, NEW b, NEW X,
         TreeOK(t, l, n, k, a, X),
         \A c \in Work(t) : IsDelegate(t, l, n, k, c) \/ t[c].kind = "review" => h # c,
         \A i \in Work(t) : b = i => a = i
  PROVE  /\ TreeOK(t, l, n, h, b, X)
         /\ \A c \in Work(t) : IsDelegate(t, l, n, k, c) => IsDelegate(t, l, n, h, c)
<1>1. ASSUME NEW c \in Work(t), IsDelegate(t, l, n, k, c) PROVE IsDelegate(t, l, n, h, c)
  BY <1>1 DEF IsDelegate, Quiet
<1>2. ASSUME NEW i \in Work(t), DelegatesOnly(t, l, n, k, i)
      PROVE  DelegatesOnly(t, l, n, h, i)
  <2>1. \A c \in WorkChildren(t, i) : c \in Work(t)
    BY WorkFacts
  <2> QED BY <1>1, <1>2, <2>1 DEF DelegatesOnly
<1>3. ASSUME NEW i \in Work(t) PROVE ItemOK(t, l, n, h, b, i)
  <2>1. ItemOK(t, l, n, k, a, i)
    BY DEF TreeOK
  <2>2. ReviewOK(t, l, n, h, i)
    BY <2>1 DEF ItemOK, ReviewOK, Quiet
  <2>3. PendingOK(t, l, n, h, i) /\ RetriedOK(t, l, n, h, i)
    BY <1>2, <2>1 DEF ItemOK, PendingOK, Fresh, RetriedOK
  <2>4. OwedOK(t, l, n, h, b, i)
    BY <1>2, <2>1 DEF ItemOK, OwedOK
  <2> QED BY <2>1, <2>2, <2>3, <2>4 DEF ItemOK
<1> QED BY <1>1, <1>3 DEF TreeOK

(***************************************************************************)
(* ReevaluateParentAfterChild                                              *)
(***************************************************************************)

\* What has work under it is neither a delegate nor a review.
LEMMA ParentFacts ==
  ASSUME NEW t, NEW l, NEW n, NEW k, NEW a, NEW p \in Work(t),
         ItemOK(t, l, n, k, a, p), WorkChildren(t, p) # {}
  PROVE  ~IsDelegate(t, l, n, k, p) /\ t[p].kind # "review"
BY DEF ItemOK, ReviewOK, IsDelegate, Quiet

\* A sibling that is out of retries has no work under it.
LEMMA StuckFacts ==
  ASSUME NEW t, NEW l, NEW k, NEW a, NEW X, NEW p \in Work(t),
         TreeOK(t, l, inl, k, a, X), NEW s \in Stuck(t, p)
  PROVE  /\ s \in Work(t) /\ s \in Id /\ s # p /\ WorkChildren(t, s) = {}
         /\ ~IsDelegate(t, l, inl, k, s)
         /\ t[s].kind # "goal" /\ t[s].kind # "review"
         /\ t[s].status \in {"pending", "in_progress"}
<1>1. /\ s \in WorkChildren(t, p) /\ t[s].status \notin Terminal
      /\ inl[s] >= MaxInline /\ inl \in [Id -> Nat] /\ Places(t)
  BY DEF Stuck, Busy, TreeOK, Typed
<1>2. s \in Work(t) /\ s \in Id /\ s # p /\ t[s].kind # "goal"
  BY <1>1, ChildFacts, WorkFacts, IdFacts
<1>3. inl[s] > 0 /\ inl[s] # 0
  BY <1>1, <1>2, LimitsAssumption
<1>4. ItemOK(t, l, inl, k, a, s)
  BY <1>2 DEF TreeOK
<1>5. DelegatesOnly(t, l, inl, k, s)
  BY <1>3, <1>4 DEF ItemOK, RetriedOK
<1>6. WorkChildren(t, s) = {}
  <2>1. ASSUME NEW c \in WorkChildren(t, s) PROVE FALSE
    <3>1. t[c].parent = s /\ IsDelegate(t, l, inl, k, c)
      BY <1>5, <2>1, WorkFacts DEF DelegatesOnly
    <3> QED BY <1>2, <3>1 DEF IsDelegate
  <2> QED BY <2>1
<1>7. ~IsDelegate(t, l, inl, k, s) /\ t[s].kind # "review"
  BY <1>3, <1>4 DEF ItemOK, ReviewOK, IsDelegate, Quiet
<1>8. t[s].status \in TaskStatus
  BY <1>2, ItemFields DEF TreeOK, Typed
<1> QED BY <1>1, <1>2, <1>6, <1>7, <1>8 DEF TaskStatus, Terminal

\* MaybeSiblingBestEffortRollup.
LEMMA BestEffortOK ==
  ASSUME NEW t, NEW k, NEW a, NEW p \in Work(t),
         TreeOK(t, last, inl, k, a, {p}), BestEffortDue(t, p)
  PROVE  LET u == BestEffort(t, p)
         IN  /\ TreeOK(u, last, inl, k, a, {p}) /\ SamePlaces(t, u)
             /\ \A c \in Work(t) : IsDelegate(t, last, inl, k, c) =>
                  IsDelegate(u, last, inl, k, c) /\ u[c].status = t[c].status
             /\ \A j \in Work(t) :
                  \/ u[j].status = t[j].status
                  \/ /\ t[j].status \notin Terminal /\ u[j].status = "failed"
                     /\ WorkChildren(t, j) = {} /\ j # p
             /\ \A j \in Work(t) : j # p => u[j].rollup = t[j].rollup
             /\ HadSplit(last, p)
<1> DEFINE S == Stuck(t, p)
           g == GivenUp(t, S)
           u == BestEffort(t, p)
<1>1. /\ t \in [Id -> Item] /\ Work(t) \subseteq Id /\ p \in Id
      /\ WorkChildren(t, p) # {} /\ ~t[p].rollup /\ HadSplit(last, p)
      /\ \A i \in Id : t[i].status \in TaskStatus
  BY WorkFacts, ItemFields DEF TreeOK, Typed, BestEffortDue
<1>2. ItemOK(t, last, inl, k, a, p)
  BY DEF TreeOK
<1>3. t[p].status \notin Terminal
  BY <1>1, <1>2 DEF ItemOK, EndedOK
<1>4. "failed" \in TaskStatus /\ "failed" \in Terminal
  BY DEF TaskStatus, Terminal
<1>5. \A s \in S : /\ s \in Work(t) /\ s \in Id /\ s # p /\ WorkChildren(t, s) = {}
                   /\ ~IsDelegate(t, last, inl, k, s)
                   /\ t[s].kind # "goal" /\ t[s].kind # "review"
                   /\ t[s].status \in {"pending", "in_progress"}
  BY StuckFacts
<1> HIDE DEF S
<1>6. /\ g \in [Id -> Item] /\ SamePlaces(t, g)
      /\ \A j \in Id \ S : g[j] = t[j]
      /\ \A s \in S : /\ g[s].rollup = t[s].rollup
                      /\ t[s].status = "in_progress" =>
                           g[s].status = "failed" /\ g[s].locked
                      /\ t[s].status = "pending" => g[s] = t[s]
  <2>1. \A j \in Id : g[j] = IF j \in S THEN TryStatus(t, j, "failed")[j] ELSE t[j]
    BY DEF GivenUp
  <2>2. ASSUME NEW s \in S
        PROVE  /\ g[s] \in Item /\ g[s].rollup = t[s].rollup
               /\ g[s].kind = t[s].kind /\ g[s].parent = t[s].parent
               /\ t[s].status = "in_progress" => g[s].status = "failed" /\ g[s].locked
               /\ t[s].status = "pending" => g[s] = t[s]
    <3> DEFINE v == TryStatus(t, s, "failed")
    <3>1. s \in Id /\ s \in Work(t) /\ g[s] = v[s] /\ t[s].status \in TaskStatus
      BY <1>1, <1>5, <2>1
    <3>2. /\ v \in [Id -> Item] /\ SamePlaces(t, v)
          /\ v[s].rollup = t[s].rollup
          /\ CanSetStatus(t, s, "failed") =>
               v[s].status = "failed" /\ v[s].locked = (t[s].locked \/ "failed" \in Terminal)
          /\ ~CanSetStatus(t, s, "failed") => v[s] = t[s]
      BY <1>1, <1>4, <3>1, TryFields
    <3>3. LockOK(t, s)
      BY <3>1 DEF TreeOK, ItemOK
    <3>4. /\ t[s].status = "pending" => ~CanSetStatus(t, s, "failed")
          /\ t[s].status = "in_progress" => CanSetStatus(t, s, "failed")
      BY <3>1, <3>3, Transitions
    <3> HIDE DEF v
    <3> QED BY <1>4, <3>1, <3>2, <3>4 DEF SamePlaces
  <2>3. g \in [Id -> Item]
    <3>1. \A j \in Id : g[j] \in Item
      BY <1>1, <2>1, <2>2
    <3> QED BY <3>1 DEF GivenUp
  <2> HIDE DEF g
  <2>4. \A j \in Id \ S : g[j] = t[j]
    BY <2>1
  <2>5. SamePlaces(t, g)
    BY <2>2, <2>4 DEF SamePlaces
  <2> QED BY <2>2, <2>3, <2>4, <2>5
<1> DEFINE r == RequestRollup(t, p)
<1>7. /\ r \in [Id -> Item] /\ SamePlaces(t, r)
      /\ \A j \in Id : j # p => r[j] = t[j]
      /\ r[p].rollup = TRUE
      /\ r[p].status = t[p].status /\ r[p].locked = t[p].locked
  BY <1>1, <1>3, RequestFields DEF Terminal
<1>8. /\ u \in [Id -> Item] /\ SamePlaces(g, u)
      /\ \A j \in Id : j # p => u[j] = g[j]
      /\ u[p].rollup = TRUE
      /\ u[p].status = t[p].status /\ u[p].locked = t[p].locked
  <2> HIDE DEF r
  <2>1. p \notin S
    BY <1>5
  <2>2. u = [j \in Id |-> IF j \in S THEN TryStatus(r, j, "failed")[j] ELSE r[j]]
    BY DEF u, r, S, BestEffort, GivenUp
  <2>3. ASSUME NEW s \in S
        PROVE  TryStatus(r, s, "failed")[s] = TryStatus(t, s, "failed")[s]
    <3>1. s \in Id /\ r[s] = t[s]
      BY <1>5, <1>7, <2>1
    <3>2. s \in Present(r) <=> s \in Present(t)
      BY <1>7, SameShape
    <3>3. CanSetStatus(r, s, "failed") <=> CanSetStatus(t, s, "failed")
      BY <3>1, <3>2 DEF CanSetStatus
    <3>4. WithStatus(r, s, "failed")[s] = WithStatus(t, s, "failed")[s]
      BY <1>1, <1>7, <3>1 DEF WithStatus
    <3> QED BY <3>1, <3>3, <3>4 DEF TryStatus
  <2>4. \A j \in Id : j # p => u[j] = g[j]
    BY <1>7, <2>2, <2>3 DEF g, GivenUp
  <2> HIDE DEF u, g
  <2>5. u[p] = r[p]
    BY <1>1, <2>1, <2>2
  <2>6. SamePlaces(g, u)
    BY <1>1, <1>6, <1>7, <2>4, <2>5 DEF SamePlaces
  <2>7. u \in [Id -> Item]
    <3>1. \A j \in Id : u[j] \in Item
      BY <1>1, <1>6, <1>7, <2>4, <2>5
    <3> QED BY <2>2, <3>1
  <2> QED BY <1>1, <1>7, <2>4, <2>5, <2>6, <2>7
<1> HIDE DEF g, u
<1>9. SamePlaces(t, u)
  BY <1>6, <1>8 DEF SamePlaces
<1>10. WorkChildren(u, p) = WorkChildren(t, p)
       /\ \A s \in S : WorkChildren(u, s) = WorkChildren(t, s)
  BY <1>9, SameShape
<1>11. ASSUME NEW c \in Work(t), c \notin S \cup {p}
       PROVE  SameItem(t, u, c)
  BY <1>1, <1>6, <1>8, <1>11 DEF SameItem
<1>12. ASSUME NEW c \in Work(t), IsDelegate(t, last, inl, k, c)
       PROVE  c \notin S \cup {p} /\ IsDelegate(u, last, inl, k, c)
  <2>1. c \notin S \cup {p}
    BY <1>1, <1>2, <1>5, <1>12, ParentFacts
  <2>2. SameItem(t, u, c)
    BY <1>11, <2>1
  <2> QED BY <1>9, <1>12, <2>1, <2>2, DelegateStays DEF TreeOK
<1>13. ItemOK(u, last, inl, k, a, p)
  <2>1. t[p].kind # "review" /\ u[p].kind = t[p].kind
    BY <1>1, <1>2, <1>9, ParentFacts DEF SamePlaces
  <2>2. DelegatesOnly(t, last, inl, k, p) => DelegatesOnly(u, last, inl, k, p)
    <3>1. \A c \in WorkChildren(t, p) : c \in Work(t)
      BY WorkFacts
    <3> QED BY <1>10, <1>12, <3>1 DEF DelegatesOnly
  <2>3. LockOK(u, p) /\ EndedOK(u, last, p) /\ PendingOK(u, last, inl, k, p)
    BY <1>2, <1>3, <1>8 DEF ItemOK, LockOK, EndedOK, PendingOK, Fresh
  <2>4. OwedOK(u, last, inl, k, a, p) /\ RetriedOK(u, last, inl, k, p)
    BY <1>2, <2>2 DEF ItemOK, OwedOK, RetriedOK
  <2>5. BareOK(u, last, p)
    BY <1>1, <1>10 DEF BareOK
  <2> QED BY <2>1, <2>3, <2>4, <2>5 DEF ItemOK, ReviewOK
<1>14. ASSUME NEW s \in S
       PROVE  ItemOK(u, last, inl, k, a, s) /\ SettledOK(u, last, s)
  <2>1. /\ s \in Id /\ s # p /\ u[s] = g[s] /\ WorkChildren(u, s) = {}
        /\ WorkChildren(t, s) = {} /\ u[s].kind = t[s].kind
        /\ t[s].kind # "goal" /\ t[s].kind # "review"
    BY <1>5, <1>8, <1>9, <1>10 DEF SamePlaces
  <2>2. ItemOK(t, last, inl, k, a, s)
    BY <1>5 DEF TreeOK
  <2>3. /\ u[s].rollup = t[s].rollup
        /\ \/ u[s].status = "failed" /\ u[s].locked
           \/ u[s].status = "pending" /\ u[s] = t[s]
    BY <1>5, <1>6, <2>1
  <2>4. LockOK(u, s) /\ ReviewOK(u, last, inl, k, s) /\ EndedOK(u, last, s)
    BY <1>4, <2>1, <2>2, <2>3 DEF ItemOK, LockOK, ReviewOK, EndedOK
  <2>5. PendingOK(u, last, inl, k, s) /\ OwedOK(u, last, inl, k, a, s)
        /\ RetriedOK(u, last, inl, k, s)
    BY <2>1, <2>2, <2>3 DEF ItemOK, PendingOK, Fresh, OwedOK, RetriedOK, DelegatesOnly
  <2>6. BareOK(u, last, s) /\ SettledOK(u, last, s)
    BY <2>1, <2>2, <2>3 DEF ItemOK, BareOK, SettledOK
  <2> QED BY <2>4, <2>5, <2>6 DEF ItemOK
<1>15. TreeOK(u, last, inl, k, a, {p})
  <2>1. Touched(t, last, inl, u, last, inl, S \cup {p})
    <3>1. \A i \in Id \ (S \cup {p}) : SameItem(t, u, i)
      BY <1>6, <1>8 DEF SameItem
    <3> QED BY <1>9, <3>1 DEF Touched
  <2>2. Typed(u, last, inl)
    BY <1>8 DEF TreeOK, Typed
  <2>3. \A s \in S \cup {p} : ~IsDelegate(t, last, inl, k, s)
    BY <1>1, <1>2, <1>5, ParentFacts
  <2>4. \A s \in S \cup {p} : ItemOK(u, last, inl, k, a, s)
                              /\ (s \notin {p} => SettledOK(u, last, s))
    BY <1>13, <1>14
  <2> HIDE DEF S
  <2> QED BY <2>1, <2>2, <2>3, <2>4, TouchedOK
<1>16. ASSUME NEW j \in Work(t)
       PROVE  /\ \/ u[j].status = t[j].status
                 \/ /\ t[j].status \notin Terminal /\ u[j].status = "failed"
                    /\ WorkChildren(t, j) = {} /\ j # p
              /\ j # p => u[j].rollup = t[j].rollup
  <2>1. CASE j \in S
    BY <1>5, <1>6, <1>8, <2>1 DEF Terminal
  <2>2. CASE j \notin S
    BY <1>1, <1>6, <1>8, <2>2
  <2> QED BY <2>1, <2>2
<1>17. \A c \in Work(t) : IsDelegate(t, last, inl, k, c) => u[c].status = t[c].status
  BY <1>11, <1>12 DEF SameItem
<1> QED BY <1>1, <1>9, <1>12, <1>15, <1>16, <1>17 DEF u

\* Only p has changed, in its status and its rollup: the invariant asks for
\* little more than that these two agree.
LEMMA OneItemOK ==
  ASSUME NEW t, NEW u, NEW l, NEW n, NEW k, NEW a, NEW p \in Work(t),
         TreeOK(t, l, n, k, a, {p}), u \in [Id -> Item], SamePlaces(t, u),
         \A j \in Id : j # p => SameItem(t, u, j),
         ~IsDelegate(t, l, n, k, p), t[p].kind # "review",
         LockOK(u, p), EndedOK(u, l, p), BareOK(u, l, p),
         Fresh(u, p) => Fresh(t, p),
         SettledOK(u, l, p)
  PROVE  /\ TreeOK(u, l, n, k, a, {})
         /\ \A c \in Work(t) : IsDelegate(t, l, n, k, c) =>
              IsDelegate(u, l, n, k, c) /\ u[c].status = t[c].status
<1>1. /\ Work(t) \subseteq Id /\ WorkChildren(u, p) = WorkChildren(t, p)
      /\ \A c \in WorkChildren(t, p) : c \in Work(t)
      /\ u[p].kind = t[p].kind /\ ItemOK(t, l, n, k, a, p) /\ Places(t)
  BY SameShape, WorkFacts DEF TreeOK, SamePlaces
<1>2. ASSUME NEW c \in Work(t), IsDelegate(t, l, n, k, c)
      PROVE  IsDelegate(u, l, n, k, c) /\ u[c].status = t[c].status
  <2>1. c # p /\ SameItem(t, u, c)
    BY <1>1, <1>2
  <2> QED BY <1>1, <1>2, <2>1, DelegateStays DEF SameItem
<1>3. DelegatesOnly(t, l, n, k, p) => DelegatesOnly(u, l, n, k, p)
  BY <1>1, <1>2 DEF DelegatesOnly
<1>4. ItemOK(u, l, n, k, a, p)
  <2>1. ReviewOK(u, l, n, k, p)
    BY <1>1 DEF ReviewOK
  <2>2. PendingOK(u, l, n, k, p)
    BY <1>1, <1>3 DEF ItemOK, PendingOK
  <2>3. OwedOK(u, l, n, k, a, p) /\ RetriedOK(u, l, n, k, p)
    BY <1>1, <1>3 DEF ItemOK, OwedOK, RetriedOK
  <2> QED BY <2>1, <2>2, <2>3 DEF ItemOK
<1>5. Typed(u, l, n) /\ Touched(t, l, n, u, l, n, {p})
  BY DEF TreeOK, Typed, Touched
<1>6. TreeOK(u, l, n, k, a, {})
  <2>1. \A s \in {p} : ~IsDelegate(t, l, n, k, s)
    OBVIOUS
  <2>2. \A s \in {p} : ItemOK(u, l, n, k, a, s) /\ (s \notin {} => SettledOK(u, l, s))
    BY <1>4
  <2>3. {p} \subseteq {} \cup {p}
    OBVIOUS
  <2> QED BY <1>5, <2>1, <2>2, <2>3, TouchedOK
<1> QED BY <1>2, <1>6

\* The children of p have ended: p ends with them, or is asked for a rollup.
LEMMA SettleOK ==
  ASSUME NEW t, NEW k, NEW a, NEW p \in Work(t),
         TreeOK(t, last, inl, k, a, {p}), WorkChildren(t, p) # {}, Busy(t, p) = {}
  PROVE  LET u == Settled(IF t[p].status = "pending" THEN TryStatus(t, p, "in_progress")
                          ELSE t, p)
         IN  /\ TreeOK(u, last, inl, k, a, {}) /\ SamePlaces(t, u)
             /\ \A c \in Work(t) : IsDelegate(t, last, inl, k, c) =>
                  IsDelegate(u, last, inl, k, c) /\ u[c].status = t[c].status
             /\ \A j \in Id : j # p => SameItem(t, u, j)
             /\ \/ /\ u[p].rollup /\ HadSplit(last, p)
                   /\ t[p].status \notin Terminal /\ u[p].status \notin Terminal
                \/ /\ u[p].rollup = t[p].rollup /\ u[p].status \in Terminal
                   /\ t[p].status \in Terminal => u[p].status = t[p].status
                   /\ u[p].status = "completed" /\ t[p].status \notin Terminal =>
                        Broken(t, p) = {}
<1> DEFINE v == IF t[p].status = "pending" THEN TryStatus(t, p, "in_progress") ELSE t
           u == Settled(v, p)
<1>1. /\ t \in [Id -> Item] /\ p \in Id /\ t[p].status \in TaskStatus
      /\ ItemOK(t, last, inl, k, a, p) /\ LockOK(t, p) /\ EndedOK(t, last, p)
      /\ "in_progress" \in TaskStatus /\ "failed" \in TaskStatus /\ "completed" \in TaskStatus
      /\ "in_progress" \notin Terminal /\ "failed" \in Terminal /\ "completed" \in Terminal
      /\ "pending" \notin Terminal
  BY WorkFacts, ItemFields DEF TreeOK, Typed, ItemOK, TaskStatus, Terminal
<1>2. ~IsDelegate(t, last, inl, k, p) /\ t[p].kind # "review"
  BY <1>1, ParentFacts
<1>3. /\ v \in [Id -> Item] /\ SamePlaces(t, v)
      /\ \A j \in Id : j # p => v[j] = t[j]
      /\ v[p].rollup = t[p].rollup
      /\ t[p].status \in Terminal => v[p].status = t[p].status /\ v[p].locked = t[p].locked
      /\ t[p].status \notin Terminal => v[p].status = "in_progress" /\ ~v[p].locked
  <2>1. CASE t[p].status = "pending"
    <3> DEFINE y == TryStatus(t, p, "in_progress")
    <3>1. CanSetStatus(t, p, "in_progress") /\ ~t[p].locked
      BY <1>1, <2>1, Transitions DEF LockOK
    <3>2. /\ y \in [Id -> Item] /\ SamePlaces(t, y)
          /\ \A j \in Id : j # p => y[j] = t[j]
          /\ y[p].rollup = t[p].rollup
          /\ y[p].status = "in_progress"
          /\ y[p].locked = (t[p].locked \/ "in_progress" \in Terminal)
      BY <1>1, <3>1, TryFields
    <3>3. v = y
      BY <2>1
    <3> HIDE DEF y, v
    <3> QED BY <1>1, <2>1, <3>1, <3>2, <3>3
  <2>2. CASE t[p].status # "pending"
    <3>1. v = t
      BY <2>2
    <3>2. t[p].status \notin Terminal => t[p].status = "in_progress" /\ ~t[p].locked
      BY <1>1, <2>2 DEF LockOK, TaskStatus, Terminal
    <3> HIDE DEF v
    <3> QED BY <1>1, <3>1, <3>2 DEF SamePlaces
  <2> QED BY <2>1, <2>2
<1>4. u = Settled(v, p)
  OBVIOUS
<1> HIDE DEF v, u
<1>5. /\ WorkChildren(v, p) = WorkChildren(t, p) /\ Work(v) = Work(t)
      /\ Broken(v, p) = Broken(t, p)
  <2>1. WorkChildren(v, p) = WorkChildren(t, p) /\ Work(v) = Work(t)
    BY <1>3, SameShape
  <2>2. \A c \in WorkChildren(t, p) : v[c] = t[c]
    BY <1>3, ChildFacts, WorkFacts DEF TreeOK
  <2> QED BY <2>1, <2>2 DEF Broken
<1>6. LockOK(v, p) /\ v[p].status \in TaskStatus
  BY <1>1, <1>3 DEF LockOK
<1> DEFINE Fine ==
      /\ u \in [Id -> Item] /\ SamePlaces(v, u)
      /\ \A j \in Id : j # p => u[j] = v[j]
      /\ LockOK(u, p)
      /\ \/ /\ u[p].rollup /\ HadSplit(last, p)
            /\ t[p].status \notin Terminal /\ u[p].status = "in_progress"
         \/ /\ u[p].rollup = t[p].rollup /\ u[p].status \in Terminal
            /\ ~HadSplit(last, p) \/ t[p].rollup
            /\ t[p].status \in Terminal => u[p].status = t[p].status
            /\ u[p].status = "completed" /\ t[p].status \notin Terminal =>
                 Broken(t, p) = {}
<1>7. Fine
  <2>1. CASE ShouldRollup(v, p)
    <3>1. u = RequestRollup(v, p)
      BY <1>4, <2>1 DEF Settled
    <3>2. HadSplit(last, p) /\ ~t[p].rollup
      BY <1>3, <2>1 DEF ShouldRollup
    <3>3. t[p].status \notin Terminal
      BY <1>1, <3>2 DEF EndedOK
    <3>4. /\ RequestRollup(v, p) \in [Id -> Item] /\ SamePlaces(v, RequestRollup(v, p))
          /\ \A j \in Id : j # p => RequestRollup(v, p)[j] = v[j]
          /\ RequestRollup(v, p)[p].rollup = TRUE
          /\ v[p].status \notin {"completed", "failed"} =>
               /\ RequestRollup(v, p)[p].status = v[p].status
               /\ RequestRollup(v, p)[p].locked = v[p].locked
      BY <1>1, <1>3, RequestFields
    <3> QED BY <1>1, <1>3, <3>1, <3>2, <3>3, <3>4 DEF LockOK
  <2>2. ASSUME NEW x \in {"failed", "completed"}, u = TryStatus(v, p, x),
               ~ShouldRollup(v, p), x = "completed" => Broken(v, p) = {}
        PROVE  Fine
    <3>1. x \in TaskStatus /\ x \in Terminal
      BY <1>1
    <3>2. /\ u \in [Id -> Item] /\ SamePlaces(v, u)
          /\ \A j \in Id : j # p => u[j] = v[j]
          /\ u[p].rollup = v[p].rollup
          /\ CanSetStatus(v, p, x) =>
               u[p].status = x /\ u[p].locked = (v[p].locked \/ x \in Terminal)
          /\ ~CanSetStatus(v, p, x) => u[p] = v[p]
      BY <1>1, <1>3, <2>2, <3>1, TryFields
    <3>3. ~HadSplit(last, p) \/ t[p].rollup
      BY <1>3, <1>5, <2>2 DEF ShouldRollup
    <3>4. CASE t[p].status \in Terminal
      <4>1. v[p].status \in Terminal /\ (CanSetStatus(v, p, x) => x = v[p].status)
        BY <1>3, <1>5, <1>6, <3>1, <3>4, Transitions
      <4>2. u[p].status = v[p].status /\ u[p].locked
        BY <1>6, <3>1, <3>2, <4>1 DEF LockOK
      <4> QED BY <1>3, <3>2, <3>3, <3>4, <4>2 DEF LockOK
    <3>5. CASE t[p].status \notin Terminal
      <4>1. CanSetStatus(v, p, x)
        BY <1>3, <1>5, <1>6, <3>5, Transitions
      <4> QED BY <1>3, <1>5, <2>2, <3>1, <3>2, <3>3, <3>5, <4>1 DEF LockOK
    <3> QED BY <3>4, <3>5
  <2>3. CASE ~ShouldRollup(v, p) /\ Broken(v, p) # {}
    BY <1>4, <2>2, <2>3 DEF Settled
  <2>4. CASE ~ShouldRollup(v, p) /\ Broken(v, p) = {}
    BY <1>4, <1>5, <2>2, <2>4 DEF Settled
  <2> QED BY <2>1, <2>3, <2>4
<1>8. SamePlaces(t, u) /\ (\A j \in Id : j # p => SameItem(t, u, j))
      /\ WorkChildren(u, p) = WorkChildren(t, p)
  <2>1. SamePlaces(t, u) /\ (\A j \in Id : j # p => SameItem(t, u, j))
    BY <1>3, <1>7 DEF SamePlaces, SameItem
  <2> QED BY <2>1, SameShape
<1>9. EndedOK(u, last, p) /\ BareOK(u, last, p)
  <2>1. u[p].kind = t[p].kind
    BY <1>1, <1>8 DEF SamePlaces
  <2> QED BY <1>1, <1>7, <1>8, <2>1 DEF EndedOK, BareOK
<1>10. u[p].status # "pending"
  BY <1>1, <1>7
<1>11. SettledOK(u, last, p)
  BY <1>1, <1>7, <1>10 DEF SettledOK, Startable
<1>12. /\ TreeOK(u, last, inl, k, a, {})
       /\ \A c \in Work(t) : IsDelegate(t, last, inl, k, c) =>
            IsDelegate(u, last, inl, k, c) /\ u[c].status = t[c].status
  <2>1. u \in [Id -> Item] /\ LockOK(u, p)
    BY <1>7
  <2>2. Fresh(u, p) => Fresh(t, p)
    BY <1>10 DEF Fresh
  <2> QED BY <1>2, <1>8, <1>9, <1>11, <2>1, <2>2, OneItemOK
<1>13. \/ /\ u[p].rollup /\ HadSplit(last, p)
          /\ t[p].status \notin Terminal /\ u[p].status \notin Terminal
       \/ /\ u[p].rollup = t[p].rollup /\ u[p].status \in Terminal
          /\ t[p].status \in Terminal => u[p].status = t[p].status
          /\ u[p].status = "completed" /\ t[p].status \notin Terminal =>
               Broken(t, p) = {}
  BY <1>1, <1>7
<1> QED BY <1>8, <1>12, <1>13 DEF u, v

\* TryPromoteSingleChildDeliverable.
LEMMA PromoteOK ==
  ASSUME NEW t, NEW k, NEW a, NEW p \in Work(t),
         TreeOK(t, last, inl, k, a, {p}), ShouldRollup(t, p), Promotable(t, p)
  PROVE  LET u == Promoted(t, p)
             m == [last EXCEPT ![p] = [policy |-> "none", deliv |-> "complete", rr |-> 0]]
         IN  /\ TreeOK(u, m, inl, k, a, {}) /\ SamePlaces(t, u)
             /\ \A c \in Work(t) : IsDelegate(t, last, inl, k, c) =>
                  IsDelegate(u, m, inl, k, c) /\ u[c].status = t[c].status
             /\ \A j \in Id : j # p => SameItem(t, u, j)
             /\ u[p].rollup = t[p].rollup /\ u[p].status = "completed"
             /\ t[p].status \notin Terminal
             /\ Broken(t, p) # WorkChildren(t, p) /\ HadSplit(last, p)
<1> DEFINE w == [t EXCEPT ![p].await = FALSE]
           x == WithRollup(w, p, FALSE)
           y == TryStatus(x, p, "in_progress")
           u == TryStatus(y, p, "completed")
           m == [last EXCEPT ![p] = [policy |-> "none", deliv |-> "complete", rr |-> 0]]
<1>1. /\ t \in [Id -> Item] /\ p \in Id /\ Work(t) \subseteq Id /\ Places(t)
      /\ ItemOK(t, last, inl, k, a, p) /\ LockOK(t, p)
      /\ "in_progress" \in TaskStatus /\ "completed" \in TaskStatus
      /\ "in_progress" \notin Terminal /\ "completed" \in Terminal
      /\ FALSE \in BOOLEAN
      /\ ~t[p].rollup /\ HadSplit(last, p) /\ WorkChildren(t, p) # {} /\ ~t[p].locked
  BY WorkFacts DEF TreeOK, Typed, ItemOK, TaskStatus, Terminal, ShouldRollup, Promotable,
                   Mutable
<1>2. t[p].status \notin Terminal /\ t[p].status \in {"pending", "in_progress"}
  BY <1>1, ItemFields DEF LockOK, TaskStatus, Terminal
<1>3. Broken(t, p) # WorkChildren(t, p)
  <2>1. PICK c \in Id : WorkChildren(t, p) = {c} /\ t[c].status = "completed"
    BY DEF Promotable
  <2> QED BY <2>1 DEF Broken
<1>4. /\ w \in [Id -> Item] /\ SamePlaces(t, w) /\ \A j \in Id : SameItem(t, w, j)
  BY <1>1, AwaitFields
<1> HIDE DEF w
<1>5. /\ x \in [Id -> Item] /\ SamePlaces(w, x)
      /\ \A j \in Id : j # p => x[j] = w[j]
      /\ x[p].status = w[p].status /\ x[p].locked = w[p].locked /\ x[p].rollup = FALSE
  <2>1. /\ x \in [Id -> Item]
        /\ \A j \in Id : j # p => x[j] = w[j]
        /\ x[p].kind = w[p].kind /\ x[p].parent = w[p].parent
        /\ x[p].status = w[p].status /\ x[p].locked = w[p].locked
        /\ x[p].rollup = FALSE
    BY <1>1, <1>4, RollupFields
  <2> HIDE DEF x
  <2> QED BY <2>1 DEF SamePlaces
<1> HIDE DEF x
<1>6. SamePlaces(t, x) /\ Work(x) = Work(t) /\ LockOK(x, p)
      /\ x[p].status = t[p].status /\ x[p].locked = t[p].locked
      /\ \A j \in Id : j # p => SameItem(t, x, j)
  <2>1. SamePlaces(t, x)
    BY <1>4, <1>5 DEF SamePlaces
  <2>2. x[p].status = t[p].status /\ x[p].locked = t[p].locked
    BY <1>1, <1>4, <1>5 DEF SameItem
  <2>3. \A j \in Id : j # p => SameItem(t, x, j)
    BY <1>4, <1>5 DEF SameItem
  <2> QED BY <1>1, <2>1, <2>2, <2>3, SameShape DEF LockOK
<1>7. /\ y \in [Id -> Item] /\ SamePlaces(x, y)
      /\ \A j \in Id : j # p => y[j] = x[j]
      /\ y[p].rollup = FALSE /\ y[p].status = "in_progress" /\ ~y[p].locked
  <2>1. CanSetStatus(x, p, "in_progress")
    BY <1>1, <1>2, <1>6, Transitions DEF TaskStatus
  <2>2. /\ y \in [Id -> Item] /\ SamePlaces(x, y)
        /\ \A j \in Id : j # p => y[j] = x[j]
        /\ y[p].rollup = x[p].rollup
        /\ y[p].status = "in_progress"
        /\ y[p].locked = (x[p].locked \/ "in_progress" \in Terminal)
    BY <1>1, <1>5, <2>1, TryFields
  <2> HIDE DEF y
  <2> QED BY <1>1, <1>5, <1>6, <2>2
<1> HIDE DEF y
<1>8. SamePlaces(t, y) /\ Work(y) = Work(t) /\ LockOK(y, p)
  <2>1. SamePlaces(t, y)
    BY <1>6, <1>7 DEF SamePlaces
  <2>2. LockOK(y, p)
    BY <1>1, <1>7 DEF LockOK
  <2> QED BY <2>1, <2>2, SameShape
<1>9. /\ u \in [Id -> Item] /\ SamePlaces(y, u)
      /\ \A j \in Id : j # p => u[j] = y[j]
      /\ u[p].rollup = FALSE /\ u[p].status = "completed" /\ u[p].locked
  <2>1. CanSetStatus(y, p, "completed")
    BY <1>1, <1>7, <1>8, Transitions
  <2>2. /\ u \in [Id -> Item] /\ SamePlaces(y, u)
        /\ \A j \in Id : j # p => u[j] = y[j]
        /\ u[p].rollup = y[p].rollup
        /\ u[p].status = "completed"
        /\ u[p].locked = (y[p].locked \/ "completed" \in Terminal)
    BY <1>1, <1>7, <2>1, TryFields
  <2> HIDE DEF u
  <2> QED BY <1>1, <1>7, <2>2
<1>10. u = Promoted(t, p)
  BY DEF Promoted, w, x, y
<1> HIDE DEF u
<1>11. SamePlaces(t, u) /\ (\A j \in Id : j # p => SameItem(t, u, j))
  <2>1. SamePlaces(t, u)
    BY <1>8, <1>9 DEF SamePlaces
  <2>2. \A j \in Id : j # p => SameItem(t, u, j)
    BY <1>6, <1>7, <1>9 DEF SameItem
  <2> QED BY <2>1, <2>2
<1>12. /\ m \in [Id -> RoundRecord] /\ \A j \in Id : j # p => m[j] = last[j]
       /\ m[p].policy = "none" /\ m[p].deliv = "complete"
  <2>1. [policy |-> "none", deliv |-> "complete", rr |-> 0] \in RoundRecord
    BY LimitsAssumption DEF RoundRecord, Policy, Deliverable
  <2> QED BY <1>1, <2>1 DEF TreeOK, Typed
<1> HIDE DEF m
<1>13. Touched(t, last, inl, u, m, inl, {p}) /\ Typed(u, m, inl)
  BY <1>9, <1>11, <1>12 DEF Touched, TreeOK, Typed
<1>14. ~IsDelegate(t, last, inl, k, p) /\ t[p].kind # "review"
  BY <1>1, ParentFacts
<1>15. ASSUME NEW c \in Work(t), IsDelegate(t, last, inl, k, c)
       PROVE  IsDelegate(u, m, inl, k, c) /\ u[c].status = t[c].status
  <2>1. c # p /\ SameItem(t, u, c) /\ m[c] = last[c]
    BY <1>1, <1>11, <1>12, <1>14, <1>15
  <2> QED BY <1>1, <1>11, <1>15, <2>1, DelegateStays DEF SameItem
<1>16. ItemOK(u, m, inl, k, a, p) /\ SettledOK(u, m, p)
  <2>1. WorkChildren(u, p) = WorkChildren(t, p) /\ u[p].kind = t[p].kind
    BY <1>1, <1>11, SameShape DEF SamePlaces
  <2>2. DelegatesOnly(t, last, inl, k, p) => DelegatesOnly(u, m, inl, k, p)
    BY <1>15, <2>1, WorkFacts DEF DelegatesOnly
  <2>3. RetriedOK(u, m, inl, k, p)
    BY <1>1, <2>2 DEF ItemOK, RetriedOK
  <2>4. LockOK(u, p) /\ ReviewOK(u, m, inl, k, p) /\ EndedOK(u, m, p)
        /\ PendingOK(u, m, inl, k, p) /\ OwedOK(u, m, inl, k, a, p) /\ BareOK(u, m, p)
        /\ SettledOK(u, m, p)
    BY <1>1, <1>9, <1>12, <1>14, <2>1 DEF LockOK, ReviewOK, EndedOK, HadSplit, PendingOK,
       Fresh, OwedOK, BareOK, SettledOK, Startable
  <2> QED BY <2>3, <2>4 DEF ItemOK
<1>17. TreeOK(u, m, inl, k, a, {})
  <2>1. \A s \in {p} : ~IsDelegate(t, last, inl, k, s)
    BY <1>14
  <2>2. \A s \in {p} : ItemOK(u, m, inl, k, a, s) /\ (s \notin {} => SettledOK(u, m, s))
    BY <1>16
  <2>3. {p} \subseteq {} \cup {p}
    OBVIOUS
  <2> QED BY <1>13, <2>1, <2>2, <2>3, TouchedOK
<1>18. u[p].rollup = t[p].rollup
  BY <1>1, <1>9, ItemFields
<1> QED BY <1>1, <1>2, <1>3, <1>9, <1>10, <1>11, <1>15, <1>17, <1>18 DEF m

\* What has become of the items of t in u, the parent p having been looked at
\* again: what has ended stays so, nothing ends over an open child, only p is
\* completed and not if all of its children have failed, and only a promotion
\* changes what is known of the last round, which had split p.
Reevaluated(t, u, m, p) ==
  /\ SamePlaces(t, u)
  /\ \A j \in Work(t) :
       /\ t[j].status \in Terminal => u[j].status \in Terminal
       /\ t[j].status \notin Terminal /\ u[j].status \in Terminal => Busy(u, j) = {}
       /\ t[j].status \notin Terminal /\ u[j].status = "completed" =>
            j = p /\ Broken(u, j) # WorkChildren(u, j)
       /\ j # p => u[j].rollup = t[j].rollup
  /\ \A j \in Id :
       \/ m[j] = last[j]
       \/ j = p /\ p \in Work(t) /\ HadSplit(last, p) /\ m[p].policy = "none"
          /\ m[p].deliv = "complete"
  /\ p \in Work(t) /\ ~HadSplit(last, p) =>
       u[p].rollup = t[p].rollup /\ (Busy(u, p) = {} => u[p].status \in Terminal)

DelegatesStay(t, l, n, u, m, o, k) ==
  \A c \in Work(t) : IsDelegate(t, l, n, k, c) =>
    IsDelegate(u, m, o, k, c) /\ u[c].status = t[c].status

\* The first half: the siblings that are out of retries, if it comes to that.
Saved(t, p) == IF Busy(t, p) # {} /\ BestEffortDue(t, p) THEN BestEffort(t, p) ELSE t

LEMMA SavedOK ==
  ASSUME NEW t, NEW k, NEW a, NEW p \in Work(t), TreeOK(t, last, inl, k, a, {p})
  PROVE  LET s == Saved(t, p)
         IN  /\ TreeOK(s, last, inl, k, a, {p}) /\ SamePlaces(t, s)
             /\ DelegatesStay(t, last, inl, s, last, inl, k)
             /\ \A j \in Work(t) :
                  /\ \/ s[j].status = t[j].status
                     \/ /\ t[j].status \notin Terminal /\ s[j].status = "failed"
                        /\ WorkChildren(t, j) = {} /\ j # p
                  /\ j # p => s[j].rollup = t[j].rollup
             /\ HadSplit(last, p) \/ s = t
<1>1. CASE Busy(t, p) # {} /\ BestEffortDue(t, p)
  BY <1>1, BestEffortOK DEF Saved, DelegatesStay
<1>2. CASE ~(Busy(t, p) # {} /\ BestEffortDue(t, p))
  BY <1>2 DEF Saved, DelegatesStay, SamePlaces
<1> QED BY <1>1, <1>2

\* From the saved tree s, only p has changed, and has ended or not.
LEMMA SettledIsReevaluated ==
  ASSUME NEW t, NEW s, NEW u, NEW m, NEW p \in Work(t),
         Places(t), SamePlaces(t, s), SamePlaces(s, u),
         \A j \in Work(t) :
           /\ \/ s[j].status = t[j].status
              \/ /\ t[j].status \notin Terminal /\ s[j].status = "failed"
                 /\ WorkChildren(t, j) = {} /\ j # p
           /\ j # p => s[j].rollup = t[j].rollup,
         HadSplit(last, p) \/ s = t,
         Busy(s, p) = {},
         \A j \in Id : j # p => SameItem(s, u, j),
         \/ /\ u[p].rollup /\ HadSplit(last, p)
            /\ s[p].status \notin Terminal /\ u[p].status \notin Terminal
         \/ /\ u[p].rollup = s[p].rollup /\ u[p].status \in Terminal
            /\ u[p].status = "completed" /\ s[p].status \notin Terminal =>
                 Broken(s, p) # WorkChildren(s, p),
         \A j \in Id :
           \/ m[j] = last[j]
           \/ j = p /\ HadSplit(last, p) /\ m[p].policy = "none" /\ m[p].deliv = "complete"
  PROVE  Reevaluated(t, u, m, p)
<1>1. /\ SamePlaces(t, u) /\ Work(t) \subseteq Id
      /\ \A j : /\ WorkChildren(u, j) = WorkChildren(t, j)
                /\ WorkChildren(s, j) = WorkChildren(t, j)
                /\ \A c \in WorkChildren(t, j) : c \in Work(t)
  <2>1. SamePlaces(t, u)
    BY DEF SamePlaces
  <2> QED BY <2>1, SameShape, WorkFacts
<1>2. p \in Id /\ s[p].status = t[p].status
  BY <1>1
<1>3. \A c \in WorkChildren(t, p) : u[c].status = s[c].status
  BY <1>1, ChildFacts DEF SameItem
<1>4. Busy(u, p) = {} /\ Broken(u, p) = Broken(s, p)
  BY <1>1, <1>3 DEF Busy, Broken
<1>5. "failed" \in Terminal /\ "failed" # "completed" /\ "completed" \in Terminal
  BY DEF Terminal
<1>6. ASSUME NEW j \in Work(t)
      PROVE  /\ t[j].status \in Terminal => u[j].status \in Terminal
             /\ t[j].status \notin Terminal /\ u[j].status \in Terminal => Busy(u, j) = {}
             /\ t[j].status \notin Terminal /\ u[j].status = "completed" =>
                  j = p /\ Broken(u, j) # WorkChildren(u, j)
             /\ j # p => u[j].rollup = t[j].rollup
  <2>1. CASE j = p
    BY <1>1, <1>2, <1>4, <1>5, <2>1
  <2>2. CASE j # p
    <3>1. u[j].status = s[j].status /\ u[j].rollup = t[j].rollup
      BY <1>1, <2>2 DEF SameItem
    <3>2. CASE s[j].status = t[j].status
      BY <2>2, <3>1, <3>2, <1>5 DEF Terminal
    <3>3. CASE /\ t[j].status \notin Terminal /\ s[j].status = "failed"
               /\ WorkChildren(t, j) = {}
      BY <1>1, <1>5, <2>2, <3>1, <3>3 DEF Busy
    <3> QED BY <3>2, <3>3
  <2> QED BY <2>1, <2>2
<1>7. ~HadSplit(last, p) =>
        u[p].rollup = t[p].rollup /\ (Busy(u, p) = {} => u[p].status \in Terminal)
  OBVIOUS
<1> QED BY <1>1, <1>6, <1>7 DEF Reevaluated

LEMMA ReevaluateOK ==
  ASSUME NEW t, NEW k, NEW a, NEW p \in Work(t) \cup {NoItem},
         p \in Work(t) => WorkChildren(t, p) # {},
         TreeOK(t, last, inl, k, a, {p}), ReevaluateParent(t, p)
  PROVE  /\ TreeOK(tree', last', inl, k, a, {})
         /\ DelegatesStay(t, last, inl, tree', last', inl, k)
         /\ Reevaluated(t, tree', last', p)
<1>1. CASE p \notin Work(t)
  <2>1. p = NoItem /\ p \notin Present(t) /\ Work(t) \ {p} = Work(t)
    BY <1>1, IdFacts, WorkFacts
  <2>2. tree' = t /\ last' = last
    BY <2>1 DEF ReevaluateParent
  <2>3. TreeOK(t, last, inl, k, a, {})
    BY <2>1 DEF TreeOK
  <2>4. Reevaluated(t, t, last, p)
    BY <1>1, <2>1 DEF Reevaluated, SamePlaces, Terminal
  <2>5. DelegatesStay(t, last, inl, t, last, inl, k)
    BY DEF DelegatesStay
  <2> QED BY <2>2, <2>3, <2>4, <2>5
<1>2. CASE p \in Work(t)
  <2> DEFINE s == Saved(t, p)
             v == IF s[p].status = "pending" THEN TryStatus(s, p, "in_progress") ELSE s
             m == [last EXCEPT ![p] = [policy |-> "none", deliv |-> "complete", rr |-> 0]]
  <2>1. /\ p \in Present(t) /\ p \in Id /\ Places(t)
        /\ last \in [Id -> RoundRecord]
    BY <1>2, WorkFacts DEF TreeOK, Typed
  <2>2. /\ TreeOK(s, last, inl, k, a, {p}) /\ SamePlaces(t, s)
        /\ DelegatesStay(t, last, inl, s, last, inl, k)
        /\ \A j \in Work(t) :
             /\ \/ s[j].status = t[j].status
                \/ /\ t[j].status \notin Terminal /\ s[j].status = "failed"
                   /\ WorkChildren(t, j) = {} /\ j # p
             /\ j # p => s[j].rollup = t[j].rollup
        /\ HadSplit(last, p) \/ s = t
    BY <1>2, SavedOK
  <2>3. \/ Busy(s, p) # {} /\ tree' = s /\ last' = last
        \/ Busy(s, p) = {} /\ tree' = Settled(v, p) /\ last' = last
        \/ /\ Busy(s, p) = {} /\ ShouldRollup(s, p) /\ Promotable(s, p)
           /\ tree' = Promoted(s, p) /\ last' = m
    BY <2>1 DEF ReevaluateParent, Saved
  <2> HIDE DEF s
  <2>4. p \in Work(s) /\ WorkChildren(s, p) # {} /\ Work(s) = Work(t)
    BY <1>2, <2>2, SameShape
  <2>5. \A j \in Id : \/ m[j] = last[j]
                      \/ j = p /\ m[p].policy = "none" /\ m[p].deliv = "complete"
    BY <2>1
  <2>6. CASE Busy(s, p) # {} /\ tree' = s /\ last' = last
    <3>1. TreeOK(s, last, inl, k, a, {})
      BY <2>2, <2>6 DEF TreeOK, SettledOK
    <3>2. /\ Work(t) \subseteq Id
          /\ \A j : WorkChildren(s, j) = WorkChildren(t, j)
      BY <2>2, SameShape, WorkFacts
    <3>3. ASSUME NEW j \in Work(t)
          PROVE  /\ t[j].status \in Terminal => s[j].status \in Terminal
                 /\ t[j].status \notin Terminal /\ s[j].status \in Terminal => Busy(s, j) = {}
                 /\ ~(t[j].status \notin Terminal /\ s[j].status = "completed")
                 /\ j # p => s[j].rollup = t[j].rollup
      BY <2>2, <3>2 DEF Terminal, Busy
    <3>4. Reevaluated(t, s, last, p)
      BY <2>2, <2>6, <3>3 DEF Reevaluated
    <3> QED BY <2>2, <2>6, <3>1, <3>4
  <2>7. CASE Busy(s, p) = {} /\ tree' = Settled(v, p) /\ last' = last
    <3> DEFINE u == Settled(v, p)
    <3>1. /\ TreeOK(u, last, inl, k, a, {}) /\ SamePlaces(s, u)
          /\ \A c \in Work(s) : IsDelegate(s, last, inl, k, c) =>
               IsDelegate(u, last, inl, k, c) /\ u[c].status = s[c].status
          /\ \A j \in Id : j # p => SameItem(s, u, j)
          /\ \/ /\ u[p].rollup /\ HadSplit(last, p)
                /\ s[p].status \notin Terminal /\ u[p].status \notin Terminal
             \/ /\ u[p].rollup = s[p].rollup /\ u[p].status \in Terminal
                /\ s[p].status \in Terminal => u[p].status = s[p].status
                /\ u[p].status = "completed" /\ s[p].status \notin Terminal =>
                     Broken(s, p) = {}
      BY <2>2, <2>4, <2>7, SettleOK
    <3> HIDE DEF u
    <3>4. \/ /\ u[p].rollup /\ HadSplit(last, p)
             /\ s[p].status \notin Terminal /\ u[p].status \notin Terminal
          \/ /\ u[p].rollup = s[p].rollup /\ u[p].status \in Terminal
             /\ u[p].status = "completed" /\ s[p].status \notin Terminal =>
                  Broken(s, p) # WorkChildren(s, p)
      BY <2>4, <3>1
    <3>5. Busy(s, p) = {} /\ Places(t)
      BY <2>1, <2>7
    <3>6. SamePlaces(s, u) /\ \A j \in Id : j # p => SameItem(s, u, j)
      BY <3>1
    <3> HIDE DEF v, m
    <3>2. Reevaluated(t, u, last, p)
      BY <1>2, <2>2, <3>4, <3>5, <3>6, SettledIsReevaluated
    <3>3. DelegatesStay(t, last, inl, u, last, inl, k)
      BY <2>2, <2>4, <3>1 DEF DelegatesStay
    <3> QED BY <2>7, <3>1, <3>2, <3>3 DEF u
  <2>8. CASE /\ Busy(s, p) = {} /\ ShouldRollup(s, p) /\ Promotable(s, p)
             /\ tree' = Promoted(s, p) /\ last' = m
    <3> DEFINE u == Promoted(s, p)
    <3>1. /\ TreeOK(u, m, inl, k, a, {}) /\ SamePlaces(s, u)
          /\ \A c \in Work(s) : IsDelegate(s, last, inl, k, c) =>
               IsDelegate(u, m, inl, k, c) /\ u[c].status = s[c].status
          /\ \A j \in Id : j # p => SameItem(s, u, j)
          /\ u[p].rollup = s[p].rollup /\ u[p].status = "completed"
          /\ s[p].status \notin Terminal
          /\ Broken(s, p) # WorkChildren(s, p) /\ HadSplit(last, p)
      BY <2>2, <2>4, <2>8, PromoteOK
    <3> HIDE DEF u, m
    <3>2. "completed" \in Terminal
      BY DEF Terminal
    <3>3. \/ /\ u[p].rollup /\ HadSplit(last, p)
             /\ s[p].status \notin Terminal /\ u[p].status \notin Terminal
          \/ /\ u[p].rollup = s[p].rollup /\ u[p].status \in Terminal
             /\ u[p].status = "completed" /\ s[p].status \notin Terminal =>
                  Broken(s, p) # WorkChildren(s, p)
      BY <3>1, <3>2
    <3>5. \A j \in Id :
            \/ m[j] = last[j]
            \/ j = p /\ HadSplit(last, p) /\ m[p].policy = "none" /\ m[p].deliv = "complete"
      BY <2>5, <3>1
    <3>6. Reevaluated(t, u, m, p)
      BY <1>2, <2>1, <2>2, <2>8, <3>1, <3>3, <3>5, SettledIsReevaluated
    <3>4. DelegatesStay(t, last, inl, u, m, inl, k)
      BY <2>2, <2>4, <3>1 DEF DelegatesStay
    <3> QED BY <2>8, <3>1, <3>6, <3>4 DEF u
  <2> QED BY <2>3, <2>6, <2>7, <2>8
<1> QED BY <1>1, <1>2

(***************************************************************************)
(* What the round relies on                                                *)
(***************************************************************************)

\* It still holds after a step that leaves the round's item alone, but for the
\* parent of a delegate that has ended.
LEMMA RoundTouched ==
  ASSUME NEW t, NEW l, NEW n, NEW u, NEW m, NEW o, NEW q, NEW c, NEW X, NEW Y, NEW S,
         Touched(t, l, n, u, m, o, S), X \subseteq Y,
         RoundOK(t, l, n, q, c, X), SpawnOK(t, l, q, c),
         q \in {"observe", "exec", "spawn"} => c.item \in Work(t) /\ c.item \notin S,
         \A d \in Work(t) : IsDelegate(t, l, n, c.item, d) =>
           IsDelegate(u, m, o, c.item, d) /\ (d \in S => t[d].parent \in Y)
  PROVE  RoundOK(u, m, o, q, c, Y) /\ SpawnOK(u, m, q, c)
<1> DEFINE i == c.item
<1>1. \A p : WorkChildren(u, p) = WorkChildren(t, p)
  BY SameShape DEF Touched
<1>2. q \in {"observe", "exec", "spawn"} =>
        i \in Id /\ m[i] = l[i] /\ u[i].status = t[i].status /\ u[i].rollup = t[i].rollup
  BY WorkFacts DEF Touched, SameItem
<1>3. ASSUME q \in {"observe", "exec"}, ~c.parent
      PROVE  /\ DelegatesOnly(u, m, o, i, i) /\ ~HadSplit(m, i)
             /\ ~c.rollup => ~u[i].rollup
             /\ q = "observe" => WorkChildren(u, i) = {}
             /\ i \notin Y /\ WorkChildren(u, i) # {} /\ Busy(u, i) = {} =>
                  u[i].status \in Terminal
  <2>1. /\ DelegatesOnly(t, l, n, i, i) /\ ~HadSplit(l, i)
        /\ ~c.rollup => ~t[i].rollup
        /\ q = "observe" => WorkChildren(t, i) = {}
        /\ i \notin X /\ WorkChildren(t, i) # {} /\ Busy(t, i) = {} =>
             t[i].status \in Terminal
    BY <1>3 DEF RoundOK
  <2>2. \A d \in WorkChildren(t, i) :
          d \in Work(t) /\ d \in Id /\ t[d].parent = i /\ IsDelegate(t, l, n, i, d)
    BY <2>1, WorkFacts DEF DelegatesOnly
  <2>3. DelegatesOnly(u, m, o, i, i)
    BY <1>1, <2>2 DEF DelegatesOnly
  <2>4. i \notin Y => Busy(u, i) = Busy(t, i)
    BY <1>1, <2>2 DEF Busy, Touched, SameItem
  <2> QED BY <1>1, <1>2, <1>3, <2>1, <2>3, <2>4 DEF HadSplit
<1>4. RoundOK(u, m, o, q, c, Y)
  BY <1>3 DEF RoundOK
<1>5. SpawnOK(u, m, q, c)
  BY <1>1, <1>2 DEF SpawnOK, HadSplit
<1> QED BY <1>4, <1>5

\* It still holds after a parent was looked at again.
LEMMA RoundReevaluated ==
  ASSUME NEW t, NEW u, NEW m, NEW q, NEW c, NEW p,
         RoundOK(t, last, inl, q, c, {p}), SpawnOK(t, last, q, c),
         q \in {"observe", "exec", "spawn"} => c.item \in Work(t),
         DelegatesStay(t, last, inl, u, m, inl, c.item), Reevaluated(t, u, m, p)
  PROVE  RoundOK(u, m, inl, q, c, {}) /\ SpawnOK(u, m, q, c)
<1> DEFINE i == c.item
<1>1. \A x : WorkChildren(u, x) = WorkChildren(t, x)
  BY SameShape DEF Reevaluated
<1>2. q \in {"observe", "exec", "spawn"} =>
        /\ i \in Id
        /\ \/ m[i] = last[i]
           \/ i = p /\ HadSplit(last, p) /\ m[i].policy = "none" /\ m[i].deliv = "complete"
  BY WorkFacts DEF Reevaluated
<1>3. ASSUME q \in {"observe", "exec"}, ~c.parent
      PROVE  /\ DelegatesOnly(u, m, inl, i, i) /\ ~HadSplit(m, i)
             /\ ~c.rollup => ~u[i].rollup
             /\ q = "observe" => WorkChildren(u, i) = {}
             /\ WorkChildren(u, i) # {} /\ Busy(u, i) = {} => u[i].status \in Terminal
  <2>1. /\ DelegatesOnly(t, last, inl, i, i) /\ ~HadSplit(last, i)
        /\ ~c.rollup => ~t[i].rollup
        /\ q = "observe" => WorkChildren(t, i) = {}
        /\ i # p /\ WorkChildren(t, i) # {} /\ Busy(t, i) = {} =>
             t[i].status \in Terminal
        /\ i \in Work(t)
    BY <1>3 DEF RoundOK
  <2>2. \A d \in WorkChildren(t, i) : d \in Work(t) /\ IsDelegate(t, last, inl, i, d)
    BY <2>1, WorkFacts DEF DelegatesOnly
  <2>3. DelegatesOnly(u, m, inl, i, i)
    BY <1>1, <2>2 DEF DelegatesOnly, DelegatesStay
  <2>4. Busy(u, i) = Busy(t, i)
    BY <1>1, <2>2 DEF Busy, DelegatesStay
  <2>5. m[i] = last[i]
    BY <1>2, <1>3, <2>1
  <2>6. CASE i = p
    BY <1>1, <2>1, <2>3, <2>5, <2>6 DEF Reevaluated, HadSplit
  <2>7. CASE i # p
    BY <1>1, <2>1, <2>3, <2>4, <2>5, <2>7 DEF Reevaluated, HadSplit
  <2> QED BY <2>6, <2>7
<1>4. RoundOK(u, m, inl, q, c, {})
  BY <1>3 DEF RoundOK
<1>5. SpawnOK(u, m, q, c)
  BY <1>1, <1>2 DEF SpawnOK, HadSplit
<1> QED BY <1>4, <1>5

\* A parent is in the tree and has the child, or the child has none.
LEMMA ParentOf ==
  ASSUME NEW t, Places(t), NEW c \in Work(t)
  PROVE  /\ t[c].parent \in Work(t) \cup {NoItem}
         /\ t[c].parent \in Work(t) => WorkChildren(t, t[c].parent) # {}
<1>1. c \in Present(t) /\ c \in WorkChildren(t, t[c].parent)
  BY WorkFacts
<1> QED BY <1>1 DEF Places

RunOver(t, u, c) == \E s \in {"completed", "failed"} : u = TryStatus(t, c, s)

\* A delegate's run ends: its goal may have to be settled.
LEMMA DelegateEndsOK ==
  ASSUME NEW t, NEW l, NEW n, NEW k, NEW a, NEW c \in Work(t), NEW u, RunOver(t, u, c),
         TreeOK(t, l, n, k, a, {}), IsDelegate(t, l, n, k, c)
  PROVE  /\ TreeOK(u, l, n, k, a, {t[c].parent}) /\ SamePlaces(t, u) /\ c # k
         /\ Touched(t, l, n, u, l, n, {c}) /\ WorkChildren(t, c) = {}
         /\ u[c].status \in Terminal /\ u[c].rollup = t[c].rollup
         /\ \A d \in Work(t) : IsDelegate(t, l, n, k, d) =>
              IsDelegate(u, l, n, k, d) /\ (d \in {c} => t[d].parent \in {t[c].parent})
<1> DEFINE p == t[c].parent
<1>0. PICK s \in {"completed", "failed"} : u = TryStatus(t, c, s)
  BY DEF RunOver
<1>1. /\ t \in [Id -> Item] /\ c \in Id /\ Places(t) /\ Work(t) \subseteq Id
      /\ ItemOK(t, l, n, k, a, c) /\ LockOK(t, c)
      /\ s \in TaskStatus /\ s \in Terminal
      /\ t[c].status \in TaskStatus /\ t[c].status \in {"in_progress", "completed", "failed"}
      /\ t[c].kind = "implement" /\ Quiet(t, l, n, k, c)
  BY WorkFacts, ItemFields DEF TreeOK, Typed, ItemOK, TaskStatus, Terminal, IsDelegate
<1>2. /\ u \in [Id -> Item] /\ SamePlaces(t, u)
      /\ \A j \in Id : j # c => u[j] = t[j]
      /\ u[c].rollup = t[c].rollup
      /\ CanSetStatus(t, c, s) => u[c].status = s /\ u[c].locked = (t[c].locked \/ s \in Terminal)
      /\ ~CanSetStatus(t, c, s) => u[c] = t[c]
  BY <1>0, <1>1, TryFields
<1>3. u[c].status \in Terminal /\ u[c].locked
      /\ u[c].status \in {"in_progress", "completed", "failed"}
  <2>1. t[c].status = "in_progress" => CanSetStatus(t, c, s)
    BY <1>1, Transitions
  <2> QED BY <1>1, <1>2, <2>1 DEF LockOK, Terminal
<1>4. WorkChildren(u, c) = {} /\ WorkChildren(t, c) = {}
  BY <1>1, <1>2, SameShape DEF Quiet
<1>5. IsDelegate(u, l, n, k, c)
  <2>1. p \in Id
    BY <1>1, WorkFacts DEF Places
  <2> QED BY <1>1, <1>2, <1>3, <1>4, <2>1 DEF IsDelegate, Quiet, SamePlaces
<1>6. Touched(t, l, n, u, l, n, {c}) /\ Typed(u, l, n)
  BY <1>2 DEF Touched, SameItem, TreeOK, Typed
<1>7. ItemOK(u, l, n, k, a, c) /\ SettledOK(u, l, c)
  <2>1. u[c].kind # "review" /\ u[c].status # "pending" /\ ~u[c].rollup
        /\ l[c] = NoRound /\ n[c] = 0
    BY <1>1, <1>2, <1>3 DEF Quiet, SamePlaces, Terminal
  <2> QED BY <1>3, <1>4, <2>1 DEF ItemOK, LockOK, ReviewOK, EndedOK, HadSplit, PendingOK,
             Fresh, OwedOK, RetriedOK, BareOK, SettledOK, NoRound
<1>8. \A d \in Work(t) : IsDelegate(t, l, n, k, d) =>
        IsDelegate(u, l, n, k, d) /\ (d \in {c} => t[d].parent \in {p})
  <2> SUFFICES ASSUME NEW d \in Work(t), IsDelegate(t, l, n, k, d)
               PROVE  IsDelegate(u, l, n, k, d)
    OBVIOUS
  <2>1. CASE d = c
    BY <1>5, <2>1
  <2>2. CASE d # c
    <3>1. SameItem(t, u, d)
      BY <1>1, <1>2, <2>2 DEF SameItem
    <3> QED BY <1>1, <1>2, <3>1, DelegateStays
  <2> QED BY <2>1, <2>2
<1>9. TreeOK(u, l, n, k, a, {p})
  <2>1. \A x \in {c} : x \in Work(t) /\ IsDelegate(t, l, n, k, x) =>
          IsDelegate(u, l, n, k, x) /\ t[x].parent \in {p}
    BY <1>8
  <2>2. \A x \in {c} : x \in Work(t) => ItemOK(u, l, n, k, a, x)
                                        /\ (x \notin {p} => SettledOK(u, l, x))
    BY <1>7
  <2> QED BY <1>6, <2>1, <2>2, TouchedOK
<1>10. c # k
  BY <1>1 DEF Quiet
<1> QED BY <1>2, <1>3, <1>4, <1>6, <1>8, <1>9, <1>10

\* A review is approved: no round waited for it to start on its parent.
LEMMA ReviewEndsOK ==
  ASSUME NEW t, NEW l, NEW n, NEW k, NEW a, NEW c \in Work(t),
         TreeOK(t, l, n, k, a, {}), t[c].kind = "review", t[c].status = "pending"
  PROVE  LET u == WithStatus(t, c, "completed")
         IN  /\ TreeOK(u, l, n, k, a, {}) /\ SamePlaces(t, u) /\ c # k
             /\ Touched(t, l, n, u, l, n, {c}) /\ WorkChildren(t, c) = {}
             /\ u[c].status \in Terminal /\ u[c].rollup = t[c].rollup
             /\ \A d \in Work(t) : IsDelegate(t, l, n, k, d) =>
                  IsDelegate(u, l, n, k, d) /\ d # c
<1> DEFINE u == WithStatus(t, c, "completed")
<1>1. /\ t \in [Id -> Item] /\ c \in Id /\ Places(t) /\ Work(t) \subseteq Id
      /\ ItemOK(t, l, n, k, a, c) /\ Quiet(t, l, n, k, c)
      /\ "completed" \in TaskStatus /\ "completed" \in Terminal
  BY WorkFacts DEF TreeOK, Typed, ItemOK, ReviewOK, TaskStatus, Terminal
<1>2. /\ u \in [Id -> Item] /\ SamePlaces(t, u)
      /\ \A j \in Id : j # c => u[j] = t[j]
      /\ u[c].rollup = t[c].rollup /\ u[c].status = "completed" /\ u[c].locked
  <2>1. /\ u \in [Id -> Item]
        /\ \A j \in Id : j # c => u[j] = t[j]
        /\ u[c].kind = t[c].kind /\ u[c].parent = t[c].parent
        /\ u[c].rollup = t[c].rollup
        /\ u[c].status = "completed" /\ u[c].locked = (t[c].locked \/ "completed" \in Terminal)
    BY <1>1, StatusFields
  <2> HIDE DEF u
  <2> QED BY <1>1, <2>1 DEF SamePlaces
<1> HIDE DEF u
<1>3. WorkChildren(u, c) = {} /\ WorkChildren(t, c) = {}
  BY <1>1, <1>2, SameShape DEF Quiet
<1>4. Touched(t, l, n, u, l, n, {c}) /\ Typed(u, l, n)
  BY <1>2 DEF Touched, SameItem, TreeOK, Typed
<1>5. ItemOK(u, l, n, k, a, c) /\ SettledOK(u, l, c)
  <2>1. u[c].kind = "review" /\ ~u[c].rollup /\ l[c] = NoRound /\ n[c] = 0 /\ k # c
    BY <1>1, <1>2 DEF Quiet, SamePlaces
  <2> QED BY <1>1, <1>2, <1>3, <2>1 DEF ItemOK, LockOK, ReviewOK, Quiet, EndedOK, HadSplit,
             PendingOK, Fresh, OwedOK, RetriedOK, BareOK, SettledOK, NoRound
<1>6. \A d \in Work(t) : IsDelegate(t, l, n, k, d) => IsDelegate(u, l, n, k, d) /\ d # c
  <2> SUFFICES ASSUME NEW d \in Work(t), IsDelegate(t, l, n, k, d)
               PROVE  IsDelegate(u, l, n, k, d) /\ d # c
    OBVIOUS
  <2>1. d # c
    BY DEF IsDelegate
  <2>2. SameItem(t, u, d)
    BY <1>1, <1>2, <2>1 DEF SameItem
  <2> QED BY <1>1, <1>2, <2>1, <2>2, DelegateStays
<1>7. TreeOK(u, l, n, k, a, {})
  <2>1. \A x \in {c} : ~IsDelegate(t, l, n, k, x)
    BY <1>6
  <2>2. \A x \in {c} : x \in Work(t) => ItemOK(u, l, n, k, a, x)
                                        /\ (x \notin {} => SettledOK(u, l, x))
    BY <1>5
  <2>3. {} \subseteq {} \cup {c}
    OBVIOUS
  <2> QED BY <1>4, <2>1, <2>2, <2>3, TouchedOK
<1>8. c # k
  BY <1>1 DEF Quiet
<1> QED BY <1>1, <1>2, <1>3, <1>4, <1>6, <1>7, <1>8 DEF u

(***************************************************************************)
(* What a round may find                                                   *)
(***************************************************************************)

\* Only a running child is waited for.
LEMMA AwaitMeansRunning ==
  ASSUME NEW r \in Round, NEW c \in Context, SpawnPolicy(r, c) = "await"
  PROVE  c.running
<1> SUFFICES ASSUME ~c.running PROVE FALSE
  OBVIOUS
<1>1. Budget(r, c) # "await"
  BY DEF Budget, Continuation
<1>2. VerdictDirection(r, c) # "await"
  BY DEF VerdictDirection, ByVerdict, ByPass, ByPartial, ByFail, ByIndeterminate, Continuation
<1> QED BY <1>1, <1>2 DEF SpawnPolicy

\* A rollup splits its item again only if it passes.
LEMMA RollupSplitsOnPass ==
  ASSUME NEW r \in Round, NEW c \in Context, r.report = "nothing", c.rollup,
         SpawnPolicy(r, c) = "decompose"
  PROVE  r.verdict = "pass"
<1>1. Budget(r, c) # "decompose"
  BY DEF Budget, Continuation
<1> QED BY <1>1 DEF SpawnPolicy

LEMMA ContextsFit ==
  /\ Findings \subseteq Round /\ RollupFindings \subseteq Findings
  /\ LoopContext \subseteq Context
  /\ \A c \in LoopContext : [c EXCEPT !.daily = FALSE] \in Context
<1>1. ASSUME NEW r \in Findings PROVE r \in Round
  <2>1. r \in [plan : PlanKind, verdict : {"pass", "partial", "fail"},
               deliv : {"na", "owed", "complete"}, u : {"low", "mid", "high"},
               tools : {2}, scope : {TRUE}, report : {"nothing"}]
    BY DEF Findings
  <2>2. /\ {2} \subseteq Nat /\ {TRUE} \subseteq BOOLEAN
        /\ {"nothing"} \subseteq {"nothing", "subtree", "gate"}
        /\ {"pass", "partial", "fail"} \subseteq Verdict
        /\ {"na", "owed", "complete"} \subseteq Deliverable
    BY DEF Verdict, Deliverable
  <2> QED BY <2>1, <2>2 DEF Round
<1>2. RollupFindings \subseteq Findings
  BY DEF RollupFindings
<1>3. ASSUME NEW c \in LoopContext PROVE c \in Context
  <2>1. 0 .. MaxRollup \subseteq Nat /\ 0 .. MaxSetbacks \subseteq Nat
    BY LimitsAssumption, LoopAssumption
  <2> QED BY <2>1 DEF LoopContext, Context
<1>4. ASSUME NEW c \in Context PROVE [c EXCEPT !.daily = FALSE] \in Context
  BY DEF Context
<1> QED BY <1>1, <1>2, <1>3, <1>4

\* An outcome is that of some findings, and one that owes is a setback.
LEMMA WeighedMeans ==
  ASSUME NEW F \in SUBSET Findings, NEW c \in LoopContext, NEW b \in BOOLEAN,
         NEW w \in Weighed(F, c, b)
  PROVE  /\ \E r \in F : w.outcome = Outcome(r, c)
         /\ w.outcome.deliv = "owed" => w.setback
<1> DEFINE passes == {Outcome(r, [c EXCEPT !.daily = FALSE]) : r \in {f \in F : f.verdict = "pass"}}
           weigh(o) == [outcome |-> o, setback |-> \A p \in passes : ~SameEffect(o, p, c, b)]
<1>1. PICK r \in F : w = weigh(Outcome(r, c))
  BY DEF Weighed
<1>2. w.outcome = Outcome(r, c)
        /\ w.setback = (\A p \in passes : ~SameEffect(Outcome(r, c), p, c, b))
  BY <1>1
<1>3. ASSUME w.outcome.deliv = "owed", NEW p \in passes
      PROVE  ~SameEffect(Outcome(r, c), p, c, b)
  <2>1. PICK f \in F : f.verdict = "pass" /\ p = Outcome(f, [c EXCEPT !.daily = FALSE])
    OBVIOUS
  <2>2. p.deliv = f.deliv /\ f.deliv # "owed"
    BY <2>1 DEF Outcome, Findings
  <2> QED BY <1>2, <1>3, <2>2 DEF SameEffect
<1> QED BY <1>2, <1>3

\* What RoundEnds goes on with.
LEMMA OutcomeFacts ==
  ASSUME NEW c \in LoopContext, NEW w \in Outcomes(c)
  PROVE  LET o == w.outcome
         IN  /\ o.policy \in Policy /\ o.deliv \in Deliverable /\ o.synth \in BOOLEAN
             /\ c.running <=> o.policy = "await"
             /\ o.synth => o.policy = "inline"
             /\ o.verdict = "pass" => o.deliv # "owed"
             /\ c.rollup /\ o.policy = "decompose" => o.verdict = "pass"
             /\ cur.parent => o.deliv = "na" /\ o.verdict \in RollupVerdicts(cur.item)
             /\ o.deliv = "owed" => w.setback
<1>1. ASSUME NEW r \in Findings, w.outcome = Outcome(r, c)
      PROVE  LET o == w.outcome
             IN  /\ o.policy \in Policy /\ o.deliv \in Deliverable /\ o.synth \in BOOLEAN
                 /\ c.running <=> o.policy = "await"
                 /\ o.synth => o.policy = "inline"
                 /\ o.verdict = "pass" => o.deliv # "owed"
                 /\ c.rollup /\ o.policy = "decompose" => o.verdict = "pass"
                 /\ o.deliv = r.deliv
  <2>1. r \in Round /\ c \in Context /\ r.report = "nothing"
        /\ (r.verdict = "pass" => r.deliv # "owed") /\ r.deliv \in Deliverable
    BY ContextsFit DEF Findings, Deliverable
  <2>2. /\ w.outcome.policy = SpawnPolicy(r, c) /\ w.outcome.synth = SynthRequested(r, c)
        /\ w.outcome.verdict = r.verdict /\ w.outcome.deliv = r.deliv
    BY <1>1 DEF Outcome
  <2>3. SpawnPolicy(r, c) \in Policy
    BY <2>1, AnswerIsAPolicy
  <2>4. c.running <=> SpawnPolicy(r, c) = "await"
    BY <2>1, RunningChildIsAwaited, AwaitMeansRunning
  <2>5. SynthRequested(r, c) \in BOOLEAN /\ (SynthRequested(r, c) => SpawnPolicy(r, c) = "inline")
    BY DEF SynthRequested
  <2>6. c.rollup /\ SpawnPolicy(r, c) = "decompose" => r.verdict = "pass"
    BY <2>1, RollupSplitsOnPass
  <2> QED BY <2>1, <2>2, <2>3, <2>4, <2>5, <2>6
<1>2. CASE ~cur.parent
  <2>1. w \in Weighed(Findings, c, FALSE)
    BY <1>2 DEF Outcomes, OutcomeTable
  <2>2. /\ \E r \in Findings : w.outcome = Outcome(r, c)
        /\ w.outcome.deliv = "owed" => w.setback
    BY <2>1, WeighedMeans
  <2> QED BY <1>1, <1>2, <2>2
<1>3. CASE cur.parent
  <2>1. PICK v \in RollupTable[c] : /\ v.outcome.verdict \in RollupVerdicts(cur.item)
                                    /\ w = [v EXCEPT !.setback = @ /\ "pass" \in RollupVerdicts(cur.item)]
    BY <1>3 DEF Outcomes
  <2>2. v \in Weighed(RollupFindings, c, TRUE)
    BY <2>1 DEF RollupTable
  <2>3. PICK r \in RollupFindings : v.outcome = Outcome(r, c)
    BY <2>2, ContextsFit, WeighedMeans
  <2>4. w.outcome = v.outcome
    <3>1. \E o, b : v = [outcome |-> o, setback |-> b]
      BY <2>2 DEF Weighed
    <3> QED BY <2>1, <3>1
  <2>5. r \in Findings /\ r.deliv = "na"
    BY ContextsFit DEF RollupFindings
  <2>6. w.outcome.deliv = "na" /\ w.outcome.verdict \in RollupVerdicts(cur.item)
    BY <1>1, <2>1, <2>3, <2>4, <2>5
  <2> QED BY <1>1, <2>3, <2>4, <2>5, <2>6
<1> QED BY <1>2, <1>3

(***************************************************************************)
(* The steps of the turn                                                   *)
(***************************************************************************)

\* What the lemmas below take out of the invariant.
LEMMA InvFacts ==
  ASSUME LoopInv
  PROVE  /\ tree \in [Id -> Item] /\ last \in [Id -> RoundRecord] /\ inl \in [Id -> Nat]
         /\ Places(tree) /\ Work(tree) \subseteq Id /\ Work(tree) \subseteq Present(tree)
         /\ \A i \in Work(tree) :
              /\ ItemOK(tree, last, inl, cur.item, AtSpawn(pc, cur), i)
              /\ LockOK(tree, i) /\ SettledOK(tree, last, i)
              /\ tree[i].status \in TaskStatus
         /\ pc \notin {"idle", "tick"} => cur.item \in Work(tree)
         /\ pc \in {"idle", "tick"} => cur = Idle
         /\ created \in Nat /\ created <= MaxItems
         /\ \A i \in Present(tree) : i \in Nat /\ i <= created
<1>1. /\ tree \in [Id -> Item] /\ last \in [Id -> RoundRecord] /\ inl \in [Id -> Nat]
      /\ Places(tree) /\ Work(tree) \subseteq Id /\ Work(tree) \subseteq Present(tree)
  BY WorkFacts DEF LoopInv, TreeOK, Typed
<1>2. \A i \in Work(tree) :
        /\ ItemOK(tree, last, inl, cur.item, AtSpawn(pc, cur), i)
        /\ LockOK(tree, i) /\ SettledOK(tree, last, i)
        /\ tree[i].status \in TaskStatus
  BY <1>1, ItemFields DEF LoopInv, TreeOK, ItemOK
<1>3. created \in Nat /\ created <= MaxItems
  BY MaxItemsAssumption DEF LoopInv, BoundsOK
<1>4. ASSUME NEW i \in Present(tree) PROVE i \in Nat /\ i <= created
  <2>1. i \in Id /\ tree[i].kind # "none" /\ i \in Nat
    BY IdFacts DEF Present, LiveKind
  <2> QED BY <1>3, <2>1 DEF LoopInv, BoundsOK
<1> QED BY <1>1, <1>2, <1>3, <1>4 DEF LoopInv, CurOK

\* The loop lets go of the round.
LEMMA LetGoOK ==
  ASSUME TreeOK(tree', last', inl', cur.item, AtSpawn(pc, cur), {}),
         RunsOK(tree', last', inl', cur.item, running'), BoundsOK',
         pc' \in {"idle", "tick"}, cur' = Idle
  PROVE  LoopInv'
<1>1. NoItem \notin Id /\ Work(tree') \subseteq Id /\ AtSpawn(pc', cur') = NoItem
      /\ cur'.item = NoItem
  BY IdFacts, WorkFacts DEF AtSpawn, Idle
<1>2. /\ \A c \in Work(tree') : NoItem # c
      /\ \A i \in Work(tree') : NoItem = i => AtSpawn(pc, cur) = i
  BY <1>1
<1> DEFINE X == {}
<1>3. TreeOK(tree', last', inl', cur.item, AtSpawn(pc, cur), X)
  OBVIOUS
<1> HIDE DEF X
<1>4. /\ TreeOK(tree', last', inl', NoItem, NoItem, X)
      /\ \A c \in Work(tree') : IsDelegate(tree', last', inl', cur.item, c) =>
                                IsDelegate(tree', last', inl', NoItem, c)
  BY <1>2, <1>3, CursorOK, ZenonT(60)
<1>5. RunsOK(tree', last', inl', NoItem, running')
  BY <1>4 DEF RunsOK
<1>6. CurOK'
  BY DEF CurOK, Idle
<1>7. RoundOK(tree', last', inl', pc', cur', {}) /\ SpawnOK(tree', last', pc', cur')
  BY DEF RoundOK, SpawnOK
<1> QED BY <1>1, <1>4, <1>5, <1>6, <1>7 DEF LoopInv, X

LEMMA LetGoSame ==
  ASSUME LoopInv, UNCHANGED <<tree, created, last, inl, running>>,
         pc' \in {"idle", "tick"}, cur' = Idle, UNCHANGED used
  PROVE  LoopInv'
<1>1. /\ TreeOK(tree', last', inl', cur.item, AtSpawn(pc, cur), {})
      /\ RunsOK(tree', last', inl', cur.item, running')
  BY DEF LoopInv
<1>2. BoundsOK'
  BY DEF LoopInv, BoundsOK
<1> QED BY <1>1, <1>2, LetGoOK

\* BoundsOK looks at the tree through the kinds of its items only.
LEMMA SameBounds ==
  ASSUME LoopInv, SamePlaces(tree, tree'), UNCHANGED <<created, used>>,
         \A i \in Id : i > created => last'[i] = last[i],
         \A i \in Id : inl'[i] = inl[i] \/ inl'[i] = 0
  PROVE  BoundsOK'
<1>1. 0 <= used.setbacks
  BY DEF LoopInv, BoundsOK
<1> QED BY <1>1 DEF LoopInv, BoundsOK, SamePlaces

LEMMA InFocus ==
  ASSUME NEW i \in PipelineFocus(tree)
  PROVE  /\ i \in Work(tree)
         /\ \/ tree[i].status = "pending"
            \/ tree[i].status = "in_progress" /\ tree[i].rollup
            \/ tree[i].status = "in_progress" /\ last[i].policy = "inline" /\ last[i].deliv = "owed"
BY DEF PipelineFocus, GetFocus, Ready, Open, Work

\* A request that leaves the tree in order.
LEMMA RequestOK ==
  ASSUME LoopInv, NEW i \in Work(tree),
         ~IsDelegate(tree, last, inl, cur.item, i), tree[i].kind # "review",
         WorkChildren(tree, i) = {} => ~HadSplit(last, i),
         tree[i].kind = "goal" \/ tree[i].status \notin Terminal
  PROVE  LET u == RequestRollup(tree, i)
         IN  /\ TreeOK(u, last, inl, cur.item, AtSpawn(pc, cur), {}) /\ SamePlaces(tree, u)
             /\ RunsOK(u, last, inl, cur.item, running)
             /\ \A j \in Id : j # i => SameItem(tree, u, j)
             /\ u[i].status = tree[i].status \/ (tree[i].kind = "goal" /\ u[i].status = "pending")
<1> DEFINE u == RequestRollup(tree, i)
           k == cur.item
           a == AtSpawn(pc, cur)
<1>1. /\ tree \in [Id -> Item] /\ i \in Id /\ TreeOK(tree, last, inl, k, a, {})
      /\ ItemOK(tree, last, inl, k, a, i) /\ LockOK(tree, i) /\ EndedOK(tree, last, i)
  BY InvFacts DEF LoopInv, ItemOK
<1>2. /\ u \in [Id -> Item] /\ SamePlaces(tree, u)
      /\ \A j \in Id : j # i => u[j] = tree[j]
      /\ u[i].rollup = TRUE
      /\ tree[i].status \in {"completed", "failed"} =>
           u[i].status = "pending" /\ u[i].locked = FALSE
      /\ tree[i].status \notin {"completed", "failed"} =>
           u[i].status = tree[i].status /\ u[i].locked = tree[i].locked
  BY <1>1, RequestFields
<1> HIDE DEF u, k, a
<1>3. WorkChildren(u, i) = WorkChildren(tree, i) /\ u[i].kind = tree[i].kind
  BY <1>1, <1>2, SameShape DEF SamePlaces
<1>4. LockOK(u, i) /\ BareOK(u, last, i) /\ SettledOK(u, last, i) /\ (Fresh(u, i) => Fresh(tree, i))
  BY <1>1, <1>2, <1>3 DEF LockOK, Terminal, BareOK, SettledOK, Startable, Fresh
<1>5. EndedOK(u, last, i)
  BY <1>1, <1>2, <1>3 DEF EndedOK, Terminal
<1>6. \A j \in Id : j # i => SameItem(tree, u, j)
  BY <1>2 DEF SameItem
<1>7. TreeOK(tree, last, inl, k, a, {i})
  BY <1>1 DEF TreeOK
<1>8. ~IsDelegate(tree, last, inl, k, i)
  BY DEF k
<1>9. /\ TreeOK(u, last, inl, k, a, {})
      /\ \A c \in Work(tree) : IsDelegate(tree, last, inl, k, c) =>
           IsDelegate(u, last, inl, k, c) /\ u[c].status = tree[c].status
  BY <1>2, <1>4, <1>5, <1>6, <1>7, <1>8, OneItemOK, ZenonT(60)
<1>10. Work(u) = Work(tree)
  BY <1>2, SameShape
<1>11. RunsOK(tree, last, inl, k, running)
  BY DEF LoopInv, k
<1>12. RunsOK(u, last, inl, k, running)
  BY <1>9, <1>10, <1>11 DEF RunsOK
<1>13. u[i].status = tree[i].status \/ (tree[i].kind = "goal" /\ u[i].status = "pending")
  BY <1>2 DEF Terminal
<1> QED BY <1>2, <1>6, <1>9, <1>12, <1>13 DEF u, k, a

LEMMA OverdueStep ==
  ASSUME LoopInv, OverdueRollup, UNCHANGED <<created, last, inl, running, used>>
  PROVE  /\ LoopInv' /\ SamePlaces(tree, tree')
         /\ \A j \in Work(tree) : tree'[j].status = tree[j].status
<1>1. PICK i \in DeepestOverdue(tree) : tree' = RequestRollup(tree, i)
  BY DEF OverdueRollup
<1>2. i \in Work(tree) /\ ~tree[i].rollup /\ WorkChildren(tree, i) # {} /\ HadSplit(last, i)
  BY DEF DeepestOverdue, Overdue, ShouldRollup, Work
<1>3. ItemOK(tree, last, inl, cur.item, AtSpawn(pc, cur), i)
  BY <1>2, InvFacts
<1>4. ~IsDelegate(tree, last, inl, cur.item, i) /\ tree[i].kind # "review"
  BY <1>2, <1>3, ParentFacts
<1>5. tree[i].status \notin Terminal
  BY <1>2, <1>3 DEF ItemOK, EndedOK
<1>6. /\ TreeOK(tree', last, inl, cur.item, AtSpawn(pc, cur), {}) /\ SamePlaces(tree, tree')
      /\ RunsOK(tree', last, inl, cur.item, running)
      /\ \A j \in Id : j # i => SameItem(tree, tree', j)
      /\ \/ tree'[i].status = tree[i].status
         \/ tree[i].kind = "goal" /\ tree'[i].status = "pending"
  BY <1>1, <1>2, <1>4, <1>5, RequestOK
<1>7. BoundsOK'
  BY <1>6, SameBounds
<1>8. LoopInv'
  BY <1>6, <1>7, LetGoOK DEF OverdueRollup, ToTick
<1>9. tree'[i].status = tree[i].status
  <2>1. /\ \A j \in Id : j # i => RequestRollup(tree, i)[j] = tree[j]
        /\ tree[i].status \notin {"completed", "failed"} =>
             RequestRollup(tree, i)[i].status = tree[i].status
    BY <1>2, InvFacts, RequestFields
  <2> QED BY <1>1, <1>5, <2>1 DEF Terminal
<1> QED BY <1>6, <1>8, <1>9, InvFacts DEF SameItem

LEMMA FallbackStep ==
  ASSUME LoopInv, Fallback, UNCHANGED <<created, last, inl, running, used>>
  PROVE  /\ LoopInv' /\ SamePlaces(tree, tree')
         /\ \A j \in Work(tree) : \/ tree'[j].status = tree[j].status
                                  \/ tree[j].kind = "goal" /\ tree'[j].status = "pending"
<1>1. PICK i \in FallbackDue(tree) : tree' = RequestRollup(tree, i)
  BY DEF Fallback
<1>2. /\ i \in Work(tree) /\ tree[i].kind = "goal"
      /\ last[i].policy = "none" \/ tree[i].status = "failed"
  BY DEF FallbackDue, FirstGoal, RootGoals, Work
<1>3. ItemOK(tree, last, inl, cur.item, AtSpawn(pc, cur), i)
  BY <1>2, InvFacts
<1>4. ~IsDelegate(tree, last, inl, cur.item, i) /\ tree[i].kind # "review"
  BY <1>2 DEF IsDelegate
<1>5. WorkChildren(tree, i) = {} => ~HadSplit(last, i)
  BY <1>2, <1>3 DEF ItemOK, EndedOK, Terminal, HadSplit
<1>6. /\ TreeOK(tree', last, inl, cur.item, AtSpawn(pc, cur), {}) /\ SamePlaces(tree, tree')
      /\ RunsOK(tree', last, inl, cur.item, running)
      /\ \A j \in Id : j # i => SameItem(tree, tree', j)
      /\ \/ tree'[i].status = tree[i].status
         \/ tree[i].kind = "goal" /\ tree'[i].status = "pending"
  BY <1>1, <1>2, <1>4, <1>5, RequestOK
<1>7. BoundsOK'
  BY <1>6, SameBounds
<1>8. pc' \in {"idle", "tick"} /\ cur' = Idle
  BY DEF Fallback, ToTick, ToIdle
<1>9. LoopInv'
  BY <1>6, <1>7, <1>8, LetGoOK
<1> QED BY <1>6, <1>9, InvFacts DEF SameItem

(***************************************************************************)
(* What a step may do to the items that have ended                          *)
(***************************************************************************)

\* One step of EndedGetsNoOpenWork, and one of AllFailedNeverPasses.
NoOpenWorkStep ==
  \A i \in Present(tree') :
    /\ tree'[i].kind # "checklist" /\ tree'[i].status \in Terminal
    /\ tree[i].status \in Terminal => Busy(tree, i) = {}
    => Busy(tree', i) \subseteq Reopening
NeverPassesStep ==
  \A i \in Present(tree) :
    /\ WorkChildren(tree, i) # {}
    /\ Broken(tree', i) = WorkChildren(tree', i)
    /\ tree[i].status \notin Terminal
    => tree'[i].status # "completed"
StepOK == NoOpenWorkStep /\ NeverPassesStep

\* Nothing ends, and only goals are reopened.
LEMMA KeptStep ==
  ASSUME Places(tree), SamePlaces(tree, tree'),
         \A j \in Work(tree) : \/ tree'[j].status = tree[j].status
                               \/ tree[j].kind = "goal" /\ tree'[j].status = "pending"
  PROVE  StepOK
<1>1. /\ Present(tree') = Present(tree)
      /\ \A p : WorkChildren(tree', p) = WorkChildren(tree, p)
  BY SameShape
<1>2. "pending" \notin Terminal /\ "completed" \in Terminal
  BY DEF Terminal
<1>3. ASSUME NEW i \in Present(tree'), tree'[i].kind # "checklist", tree'[i].status \in Terminal,
             tree[i].status \in Terminal => Busy(tree, i) = {}
      PROVE  Busy(tree', i) = {}
  <2>1. i \in Work(tree) /\ i \in Id /\ i # NoItem
    BY <1>1, <1>3, WorkFacts, IdFacts DEF Work, SamePlaces
  <2>2. Busy(tree, i) = {}
    BY <1>2, <1>3, <2>1
  <2>3. \A c \in WorkChildren(tree, i) : tree'[c].status = tree[c].status
    BY <2>1, ChildFacts
  <2> QED BY <1>1, <2>2, <2>3 DEF Busy
<1>4. ASSUME NEW i \in Present(tree), WorkChildren(tree, i) # {}, tree[i].status \notin Terminal
      PROVE  tree'[i].status # "completed"
  <2>1. i # NoItem
    BY WorkFacts, IdFacts
  <2>2. i \in Work(tree)
    BY <1>4, <2>1, ChildFacts
  <2> QED BY <1>2, <1>4, <2>2
<1>5. NoOpenWorkStep
  BY <1>3 DEF NoOpenWorkStep
<1>6. NeverPassesStep
  BY <1>4 DEF NeverPassesStep
<1> QED BY <1>5, <1>6 DEF StepOK

LEMMA SameTreeStep ==
  ASSUME Places(tree), tree' = tree
  PROVE  StepOK
<1>1. SamePlaces(tree, tree')
  BY DEF SamePlaces
<1> QED BY <1>1, KeptStep

\* New work gets under an item that has not ended.
LEMMA AddedStep ==
  ASSUME NEW l, NEW n, NEW o, NEW k, NEW N, NEW q,
         Added(tree, l, n, tree', o, k, N, q),
         q \in Work(tree) => tree[q].status \notin Terminal
  PROVE  StepOK
<1>1. /\ \A i \in Work(tree) \ {q} : WorkChildren(tree', i) = WorkChildren(tree, i)
      /\ \A c \in N : WorkChildren(tree', c) = {}
  BY AddedShape
<1>2. /\ Places(tree) /\ Places(tree') /\ Work(tree') = Work(tree) \cup N
      /\ \A i \in Work(tree) : tree'[i].status = tree[i].status
  BY WorkFacts DEF Added, SameItem
<1>3. \A i : \A c \in WorkChildren(tree, i) : c \in Work(tree)
  BY WorkFacts
<1>4. ASSUME NEW i \in Present(tree'), tree'[i].kind # "checklist", tree'[i].status \in Terminal,
             tree[i].status \in Terminal => Busy(tree, i) = {}
      PROVE  Busy(tree', i) = {}
  <2>1. i \in Work(tree) \cup N
    BY <1>2, <1>4 DEF Work
  <2>2. CASE i \in N
    BY <1>1, <2>2 DEF Busy
  <2>3. CASE i \in Work(tree)
    <3>1. i # q /\ Busy(tree, i) = {}
      BY <1>2, <1>4, <2>3
    <3> QED BY <1>1, <1>2, <1>3, <2>3, <3>1 DEF Busy
  <2> QED BY <2>1, <2>2, <2>3
<1>5. ASSUME NEW i \in Present(tree), WorkChildren(tree, i) # {}, tree[i].status \notin Terminal
      PROVE  tree'[i].status # "completed"
  <2>1. i # NoItem
    BY WorkFacts, IdFacts
  <2>2. i \in Work(tree)
    BY <1>2, <1>5, <2>1, ChildFacts
  <2> QED BY <1>2, <1>5, <2>2 DEF Terminal
<1>6. NoOpenWorkStep
  BY <1>4 DEF NoOpenWorkStep
<1>7. NeverPassesStep
  BY <1>5 DEF NeverPassesStep
<1> QED BY <1>6, <1>7 DEF StepOK

(***************************************************************************)
(* The steps that make new items                                           *)
(***************************************************************************)

LEMMA NewItemFields ==
  ASSUME NEW x \in Kind, NEW p \in Id \cup {NoItem}
  PROVE  /\ NewItem(x, p) \in Item /\ NewItem(x, p).kind = x /\ NewItem(x, p).parent = p
         /\ NewItem(x, p).status = "pending"
         /\ ~NewItem(x, p).locked /\ ~NewItem(x, p).rollup
BY DEF NewItem, Item, TaskStatus

\* Ids are given out in order, and no round was ever run on a new one.
LEMMA GrownIsAdded ==
  ASSUME LoopInv, NEW N, N \subseteq Id, \A c \in N : c > created,
         NEW u, NEW o, NEW q \in Work(tree) \cup {NoItem},
         \A i \in Id \ N : /\ u[i].kind = tree[i].kind /\ u[i].parent = tree[i].parent
                           /\ SameItem(tree, u, i),
         \A c \in N : /\ u[c].kind \in LiveKind \ {"checklist"}
                      /\ u[c].kind = "goal" <=> q = NoItem
                      /\ u[c].parent = q /\ ~u[c].rollup /\ ~u[c].locked
                      /\ \/ u[c].status = "pending"
                         \/ u[c].status = "in_progress" /\ u[c].kind = "implement",
         \A i \in Id : i # q => o[i] = inl[i],
         q \in Work(tree) => ~IsDelegate(tree, last, inl, cur.item, q)
                             /\ tree[q].kind # "review"
  PROVE  Added(tree, last, inl, u, o, cur.item, N, q)
<1>1. /\ Places(tree) /\ Work(tree) \subseteq Id /\ Work(tree) \subseteq Present(tree)
      /\ created \in Nat
      /\ \A i \in Present(tree) : i \in Nat /\ i <= created
      /\ cur.item \in Work(tree) \cup {NoItem}
  BY InvFacts DEF Idle
<1>2. \A c \in N : /\ c \in Id /\ c \in Nat /\ c > created
                   /\ tree[c].kind = "none" /\ last[c] = NoRound /\ inl[c] = 0
  BY IdFacts DEF LoopInv, BoundsOK
<1>3. N \cap Present(tree) = {} /\ N \cap Work(tree) = {} /\ NoItem \notin N
      /\ \A c \in N : c # cur.item /\ c # q
  BY <1>1, <1>2, IdFacts DEF Present, LiveKind
<1>4. Present(u) = Present(tree) \cup N
  BY <1>2 DEF Present
<1>5. Work(u) = Work(tree) \cup N
  BY <1>2, <1>3, <1>4 DEF Work, Present
<1>6. Places(u)
  <2> SUFFICES ASSUME NEW i \in Present(u)
               PROVE  IF u[i].kind = "goal" THEN u[i].parent = NoItem
                      ELSE u[i].parent \in Work(u) /\ u[i].parent < i
    BY DEF Places
  <2>1. CASE i \in N
    <3>1. CASE u[i].kind = "goal"
      BY <2>1, <3>1
    <3>2. CASE u[i].kind # "goal"
      <4>1. q \in Work(tree) /\ u[i].parent = q /\ q \in Nat /\ q <= created
        BY <1>1, <2>1, <3>2
      <4> QED BY <1>1, <1>2, <1>5, <2>1, <3>2, <4>1
    <3> QED BY <3>1, <3>2
  <2>2. CASE i \notin N
    BY <1>1, <1>4, <1>5, <2>2, WorkFacts DEF Places
  <2> QED BY <2>1, <2>2
<1> QED BY <1>1, <1>2, <1>3, <1>5, <1>6 DEF Added

LEMMA MessageStep == ASSUME LoopInv, Message PROVE LoopInv' /\ StepOK
<1>1. /\ pc = "idle" /\ pc' = "tick" /\ cur' = cur /\ cur = Idle
      /\ UNCHANGED <<last, inl, running>>
      /\ used' = [used EXCEPT !["messages"] = @ + 1]
  BY InvFacts DEF Message, Spend
<1>2. used' \in [{"messages", "setbacks", "todos", "delegates", "crashes"} -> Nat]
      /\ used'.setbacks = used.setbacks
  BY <1>1 DEF LoopInv, BoundsOK
<1>3. CASE UNCHANGED <<tree, created>>
  <2>1. BoundsOK'
    BY <1>1, <1>2, <1>3 DEF LoopInv, BoundsOK
  <2>2. /\ TreeOK(tree', last', inl', cur.item, AtSpawn(pc, cur), {})
        /\ RunsOK(tree', last', inl', cur.item, running')
    BY <1>1, <1>3 DEF LoopInv
  <2> QED BY <1>1, <1>3, <2>1, <2>2, LetGoOK, SameTreeStep, InvFacts
<1>4. CASE /\ created < MaxItems /\ created' = created + 1
           /\ tree' = [tree EXCEPT ![created + 1] = NewItem("goal", NoItem)]
  <2> DEFINE c == created + 1
  <2>1. c \in Id /\ c > created /\ created \in Nat /\ MaxItems \in Nat
    BY <1>4, InvFacts, MaxItemsAssumption DEF Id
  <2>2. /\ NewItem("goal", NoItem) \in Item /\ NewItem("goal", NoItem).kind = "goal"
        /\ NewItem("goal", NoItem).parent = NoItem
        /\ NewItem("goal", NoItem).status = "pending"
        /\ ~NewItem("goal", NoItem).locked /\ ~NewItem("goal", NoItem).rollup
    BY NewItemFields DEF Kind, LiveKind
  <2>3. /\ tree' \in [Id -> Item] /\ tree'[c] = NewItem("goal", NoItem)
        /\ \A i \in Id \ {c} : tree'[i] = tree[i]
    BY <1>4, <2>1, <2>2, InvFacts
  <2> HIDE DEF c
  <2>4. Added(tree, last, inl, tree', inl, cur.item, {c}, NoItem)
    <3>1. NoItem \in Work(tree) \cup {NoItem} /\ NoItem \notin Work(tree) /\ {c} \subseteq Id
          /\ \A x \in {c} : x > created
      BY <2>1, InvFacts, IdFacts
    <3>2. \A i \in Id \ {c} : /\ tree'[i].kind = tree[i].kind /\ tree'[i].parent = tree[i].parent
                              /\ SameItem(tree, tree', i)
      BY <2>3 DEF SameItem
    <3>3. \A x \in {c} : /\ tree'[x].kind \in LiveKind \ {"checklist"}
                         /\ tree'[x].kind = "goal" <=> NoItem = NoItem
                         /\ tree'[x].parent = NoItem /\ ~tree'[x].rollup /\ ~tree'[x].locked
                         /\ \/ tree'[x].status = "pending"
                            \/ tree'[x].status = "in_progress" /\ tree'[x].kind = "implement"
      BY <2>2, <2>3 DEF LiveKind
    <3> QED BY <3>1, <3>2, <3>3, GrownIsAdded
  <2>5. StepOK
    BY <2>4, AddedStep, InvFacts, IdFacts
  <2>6. TreeOK(tree', last', inl', cur.item, AtSpawn(pc, cur), {})
    <3>1. Typed(tree', last, inl) /\ TreeOK(tree, last, inl, cur.item, AtSpawn(pc, cur), {})
      BY <2>3 DEF LoopInv, TreeOK, Typed
    <3>2. NoItem \notin Work(tree)
      BY InvFacts, IdFacts
    <3> QED BY <1>1, <2>4, <3>1, <3>2, AddedOK
  <2>7. RunsOK(tree', last', inl', cur.item, running')
    <3>1. Work(tree') = Work(tree) \cup {c}
      BY <2>4 DEF Added
    <3>2. \A x \in Work(tree) : IsDelegate(tree, last, inl, cur.item, x) =>
                                IsDelegate(tree', last, inl, cur.item, x)
      BY <2>4, AddedShape
    <3> QED BY <1>1, <3>1, <3>2 DEF LoopInv, RunsOK
  <2>8. BoundsOK'
    <3>1. \A i \in Id : i > created' => i # c /\ i > created
      BY <1>4, <2>1, IdFacts DEF c
    <3>2. created' \in 0 .. MaxItems
      BY <1>4, <2>1
    <3> QED BY <1>1, <1>2, <2>3, <3>1, <3>2 DEF LoopInv, BoundsOK
  <2> QED BY <1>1, <2>5, <2>6, <2>7, <2>8, LetGoOK
<1> QED BY <1>3, <1>4 DEF Message

\* The round goes on while delegates are added.
LEMMA RoundAdded ==
  ASSUME NEW t, NEW l, NEW n, NEW u, NEW o, NEW c, NEW N, NEW g,
         Added(t, l, n, u, o, c.item, N, g), RoundOK(t, l, n, "exec", c, {}),
         c.item \in Work(t),
         \A x \in N : IsDelegate(u, l, o, c.item, x) /\ u[x].status \notin Terminal
  PROVE  RoundOK(u, l, o, "exec", c, {})
<1> DEFINE i == c.item
<1> SUFFICES ASSUME ~c.parent
             PROVE  /\ DelegatesOnly(u, l, o, i, i) /\ ~HadSplit(l, i)
                    /\ ~c.rollup => ~u[i].rollup
                    /\ WorkChildren(u, i) # {} /\ Busy(u, i) = {} => u[i].status \in Terminal
  BY DEF RoundOK
<1>1. /\ DelegatesOnly(t, l, n, i, i) /\ ~HadSplit(l, i)
      /\ ~c.rollup => ~t[i].rollup
      /\ WorkChildren(t, i) # {} /\ Busy(t, i) = {} => t[i].status \in Terminal
  BY DEF RoundOK
<1>2. /\ \A d \in Work(t) : IsDelegate(t, l, n, i, d) => IsDelegate(u, l, o, i, d)
      /\ WorkChildren(u, i) = WorkChildren(t, i) \/ WorkChildren(u, i) = WorkChildren(t, i) \cup N
  BY AddedShape
<1>3. \A d \in WorkChildren(t, i) : d \in Work(t) /\ u[d].status = t[d].status
  BY WorkFacts DEF Added, SameItem
<1>4. u[i].status = t[i].status /\ u[i].rollup = t[i].rollup
  BY DEF Added, SameItem
<1>5. DelegatesOnly(u, l, o, i, i)
  BY <1>1, <1>2, <1>3 DEF DelegatesOnly
<1>6. ASSUME WorkChildren(u, i) # {}, Busy(u, i) = {} PROVE u[i].status \in Terminal
  <2>1. WorkChildren(u, i) = WorkChildren(t, i)
    BY <1>2, <1>6 DEF Busy
  <2>2. Busy(t, i) = {}
    BY <1>3, <1>6, <2>1 DEF Busy
  <2> QED BY <1>1, <1>4, <1>6, <2>1, <2>2
<1> QED BY <1>1, <1>4, <1>5, <1>6

\* No work item has changed: only checklist entries have come or gone.
LEMMA ChecklistOnly ==
  ASSUME LoopInv, tree' \in [Id -> Item],
         \A i \in Work(tree) : tree'[i] = tree[i],
         Work(tree') = Work(tree), Places(tree')
  PROVE  /\ Added(tree, last, inl, tree', inl, cur.item, {}, NoItem) /\ StepOK
         /\ TreeOK(tree', last, inl, cur.item, AtSpawn(pc, cur), {})
         /\ \A c \in Work(tree) : IsDelegate(tree, last, inl, cur.item, c) =>
                                  IsDelegate(tree', last, inl, cur.item, c)
<1>1. NoItem \notin Work(tree) /\ Places(tree)
  BY InvFacts, IdFacts
<1>2. Added(tree, last, inl, tree', inl, cur.item, {}, NoItem)
  BY <1>1 DEF Added, SameItem
<1>3. Typed(tree', last, inl) /\ TreeOK(tree, last, inl, cur.item, AtSpawn(pc, cur), {})
  BY DEF LoopInv, TreeOK, Typed
<1>4. TreeOK(tree', last, inl, cur.item, AtSpawn(pc, cur), {})
  BY <1>1, <1>2, <1>3, AddedOK
<1>5. StepOK
  BY <1>1, <1>2, AddedStep
<1> QED BY <1>2, <1>4, <1>5, AddedShape

LEMMA CrashStep == ASSUME LoopInv, Crash PROVE LoopInv' /\ StepOK
<1>1. /\ tree' = Persistent(tree) /\ running' = {} /\ pc' = "idle" /\ cur' = Idle
      /\ UNCHANGED <<created, last, inl>>
      /\ used' = [used EXCEPT !["crashes"] = @ + 1]
  BY DEF Crash, Spend, ToIdle
<1>2. \A i \in Id : /\ tree[i].kind # "checklist" => tree'[i] = tree[i]
                    /\ tree[i].kind = "checklist" => tree'[i] = Gone(tree[i])
  BY <1>1 DEF Persistent
<1>3. \A i \in Id : tree[i].kind = "checklist" =>
        Gone(tree[i]) \in Item /\ Gone(tree[i]).kind = "erased"
  BY DEF Gone, NewItem, Item, Kind, TaskStatus
<1>4. tree' \in [Id -> Item]
  <2>1. \A i \in Id : tree'[i] \in Item
    BY <1>2, <1>3, InvFacts
  <2> QED BY <1>1, <2>1 DEF Persistent
<1>5. Work(tree') = Work(tree) /\ Present(tree') = Work(tree)
  BY <1>2, <1>3 DEF Work, Present, LiveKind
<1>6. Work(tree) \subseteq Id /\ Work(tree) \subseteq Present(tree)
      /\ \A i \in Work(tree) : tree'[i] = tree[i]
  BY <1>2, WorkFacts DEF Work
<1>7. Places(tree')
  BY <1>5, <1>6, InvFacts DEF Places
<1>8. StepOK /\ TreeOK(tree', last', inl', cur.item, AtSpawn(pc, cur), {})
  BY <1>1, <1>4, <1>5, <1>6, <1>7, ChecklistOnly
<1>9. BoundsOK'
  <2>1. used' \in [{"messages", "setbacks", "todos", "delegates", "crashes"} -> Nat]
        /\ used'.setbacks = used.setbacks
    BY <1>1 DEF LoopInv, BoundsOK
  <2> QED BY <1>1, <1>2, <2>1 DEF LoopInv, BoundsOK
<1>10. RunsOK(tree', last', inl', cur.item, running')
  BY <1>1 DEF RunsOK
<1> QED BY <1>1, <1>8, <1>9, <1>10, LetGoOK

LEMMA TodoWriteStep == ASSUME LoopInv, TodoWrite PROVE LoopInv' /\ StepOK
<1> DEFINE c == created + 1
<1>1. PICK p \in (IF GetFocus(tree) # {} THEN GetFocus(tree) ELSE OpenGoals(tree)) :
        tree' = WithChecklist(tree, p, [i \in {c} |-> "pending"])
  BY DEF TodoWrite
<1>2. /\ pc = "exec" /\ created < MaxItems /\ created' = c
      /\ UNCHANGED <<last, inl, running, pc, cur>>
      /\ used' = [used EXCEPT !["todos"] = @ + 1]
  BY DEF TodoWrite, Spend
<1>3. p \in Work(tree) /\ p \in Id /\ p \in Nat /\ p <= created
  <2>1. p \in Work(tree)
    BY <1>1 DEF GetFocus, Ready, OpenGoals, RootGoals, Work
  <2> QED BY <2>1, InvFacts
<1>4. c \in Id /\ c > created /\ created \in Nat /\ MaxItems \in Nat
      /\ tree[c].kind = "none" /\ c \notin Present(tree)
  <2>1. c \in Id /\ c > created /\ created \in Nat /\ MaxItems \in Nat
    BY <1>2, InvFacts, MaxItemsAssumption DEF Id
  <2>2. tree[c].kind = "none"
    BY <2>1 DEF LoopInv, BoundsOK
  <2> QED BY <2>1, <2>2 DEF Present, LiveKind
<1> HIDE DEF c
<1>5. \A i \in Id : /\ i = c => tree'[i] = Entry(p, "pending")
                    /\ i # c /\ i \in Checklist(tree, p) => tree'[i] = Gone(tree[i])
                    /\ i # c /\ i \notin Checklist(tree, p) => tree'[i] = tree[i]
  BY <1>1 DEF WithChecklist
<1>6. /\ Entry(p, "pending") \in Item /\ Entry(p, "pending").kind = "checklist"
      /\ Entry(p, "pending").parent = p
      /\ \A i \in Checklist(tree, p) :
           /\ i \in Id /\ tree[i].kind = "checklist"
           /\ Gone(tree[i]) \in Item /\ Gone(tree[i]).kind = "erased"
  <2>1. /\ Entry(p, "pending") \in Item /\ Entry(p, "pending").kind = "checklist"
        /\ Entry(p, "pending").parent = p
    BY <1>3 DEF Entry, NewItem, Item, Kind, LiveKind, TaskStatus
  <2>2. ASSUME NEW i \in Checklist(tree, p)
        PROVE  /\ i \in Id /\ tree[i].kind = "checklist"
               /\ Gone(tree[i]) \in Item /\ Gone(tree[i]).kind = "erased"
    <3>1. i \in Id /\ tree[i].kind = "checklist"
      BY DEF Checklist, Children, Present
    <3> QED BY <3>1 DEF Gone, NewItem, Item, Kind, TaskStatus
  <2> QED BY <2>1, <2>2
<1>7. tree' \in [Id -> Item]
  <2>1. \A i \in Id : tree'[i] \in Item
    BY <1>5, <1>6, InvFacts
  <2> QED BY <1>1, <2>1 DEF WithChecklist
<1>8. /\ Work(tree') = Work(tree) /\ Work(tree) \subseteq Id
      /\ \A i \in Work(tree) : tree'[i] = tree[i]
  <2>1. \A i \in Work(tree) : i \in Id /\ i # c /\ i \notin Checklist(tree, p)
    BY <1>4, WorkFacts DEF Work, Checklist
  <2>2. \A i \in Work(tree) : tree'[i] = tree[i]
    BY <1>5, <2>1
  <2>3. \A i \in Id : i \in Work(tree') => i \in Work(tree)
    BY <1>5, <1>6 DEF Work, Present, LiveKind
  <2>4. \A i \in Work(tree) : i \in Work(tree')
    BY <2>1, <2>2 DEF Work, Present
  <2> QED BY <2>1, <2>2, <2>3, <2>4, WorkFacts
<1>9. Places(tree')
  <2> SUFFICES ASSUME NEW i \in Present(tree')
               PROVE  IF tree'[i].kind = "goal" THEN tree'[i].parent = NoItem
                      ELSE tree'[i].parent \in Work(tree') /\ tree'[i].parent < i
    BY DEF Places
  <2>1. i \in Id
    BY WorkFacts
  <2>2. CASE i = c
    <3>1. tree'[i].kind = "checklist" /\ tree'[i].parent = p
      BY <1>4, <1>5, <1>6, <2>2
    <3>2. p < i
      BY <1>3, <1>4, <2>2, IdFacts
    <3> QED BY <1>3, <1>8, <3>1, <3>2
  <2>3. CASE i # c
    <3>1. i \notin Checklist(tree, p)
      BY <1>5, <1>6, <2>1, <2>3 DEF Present, LiveKind
    <3>2. tree'[i] = tree[i] /\ i \in Present(tree)
      BY <1>5, <2>1, <2>3, <3>1 DEF Present
    <3> QED BY <1>8, <3>2, InvFacts DEF Places
  <2> QED BY <2>2, <2>3
<1>10. /\ Added(tree, last, inl, tree', inl, cur.item, {}, NoItem) /\ StepOK
       /\ TreeOK(tree', last, inl, cur.item, AtSpawn(pc, cur), {})
       /\ \A d \in Work(tree) : IsDelegate(tree, last, inl, cur.item, d) =>
                                IsDelegate(tree', last, inl, cur.item, d)
  BY <1>7, <1>8, <1>9, ChecklistOnly
<1>11. RunsOK(tree', last', inl', cur'.item, running')
  BY <1>2, <1>8, <1>10 DEF LoopInv, RunsOK
<1>12. BoundsOK'
  <2>1. used' \in [{"messages", "setbacks", "todos", "delegates", "crashes"} -> Nat]
        /\ used'.setbacks = used.setbacks
    BY <1>2 DEF LoopInv, BoundsOK
  <2>2. created' \in 0 .. MaxItems
    BY <1>2, <1>4 DEF c
  <2>3. \A i \in Id : i > created' => i # c /\ i > created /\ i \notin Checklist(tree, p)
    <3> SUFFICES ASSUME NEW i \in Id, i > created'
                 PROVE  i # c /\ i > created /\ i \notin Checklist(tree, p)
      OBVIOUS
    <3>1. i # c /\ i > created
      BY <1>2, <1>4, IdFacts
    <3>2. tree[i].kind = "none"
      BY <3>1 DEF LoopInv, BoundsOK
    <3> QED BY <1>6, <3>1, <3>2
  <2> QED BY <1>2, <1>5, <2>1, <2>2, <2>3 DEF LoopInv, BoundsOK
<1>13. RoundOK(tree', last', inl', pc', cur', {}) /\ SpawnOK(tree', last', pc', cur')
  <2>1. RoundOK(tree, last, inl, "exec", cur, {}) /\ cur.item \in Work(tree)
    BY <1>2, InvFacts DEF LoopInv
  <2>2. RoundOK(tree', last, inl, "exec", cur, {})
    BY <1>10, <2>1, RoundAdded
  <2> QED BY <1>2, <2>2 DEF SpawnOK
<1>14. CurOK'
  BY <1>2, <1>8 DEF LoopInv, CurOK
<1> QED BY <1>2, <1>10, <1>11, <1>12, <1>13, <1>14 DEF LoopInv

LEMMA ExecuteStep == ASSUME LoopInv, Execute PROVE LoopInv' /\ StepOK
<1>1. /\ pc = "observe" /\ pc' = "exec"
      /\ UNCHANGED <<tree, created, last, inl, running, cur, used>>
  BY DEF Execute
<1>2. AtSpawn(pc', cur') = AtSpawn(pc, cur)
  BY <1>1 DEF AtSpawn
<1>3. CurOK' /\ BoundsOK'
  BY <1>1 DEF LoopInv, CurOK, BoundsOK
<1>4. RoundOK(tree', last', inl', pc', cur', {}) /\ SpawnOK(tree', last', pc', cur')
  BY <1>1 DEF LoopInv, RoundOK, SpawnOK
<1>5. StepOK
  BY <1>1, SameTreeStep, InvFacts
<1> QED BY <1>1, <1>2, <1>3, <1>4, <1>5 DEF LoopInv

LEMMA DelegateStep == ASSUME LoopInv, Delegate PROVE LoopInv' /\ StepOK
<1> DEFINE c == created + 1
           k == cur.item
<1>1. PICK g \in OpenGoals(tree) :
        tree' = [tree EXCEPT ![c] = [NewItem("implement", g) EXCEPT !.status = "in_progress"]]
  BY DEF Delegate
<1>2. /\ pc = "exec" /\ created < MaxItems /\ created' = c
      /\ running' = running \cup {c}
      /\ UNCHANGED <<last, inl, pc, cur>>
      /\ used' = [used EXCEPT !["delegates"] = @ + 1]
  BY DEF Delegate, Spend
<1>3. g \in Work(tree) /\ g \in Id /\ tree[g].kind = "goal" /\ ~tree[g].locked
      /\ g \in Present(tree) /\ g <= created /\ k \in Work(tree)
  <2>1. g \in Work(tree) /\ tree[g].kind = "goal" /\ ~tree[g].locked
    BY DEF OpenGoals, RootGoals, Work
  <2> QED BY <1>2, <2>1, InvFacts
<1>4. c \in Id /\ c > created /\ created \in Nat /\ MaxItems \in Nat
  BY <1>2, InvFacts, MaxItemsAssumption DEF Id
<1>5. /\ tree' \in [Id -> Item]
      /\ \A i \in Id \ {c} : tree'[i] = tree[i]
      /\ tree'[c].kind = "implement" /\ tree'[c].parent = g
      /\ tree'[c].status = "in_progress" /\ ~tree'[c].locked /\ ~tree'[c].rollup
  <2>1. /\ NewItem("implement", g) \in Item /\ NewItem("implement", g).kind = "implement"
        /\ NewItem("implement", g).parent = g
        /\ ~NewItem("implement", g).locked /\ ~NewItem("implement", g).rollup
    BY <1>3, NewItemFields DEF Kind, LiveKind
  <2> DEFINE x == [NewItem("implement", g) EXCEPT !.status = "in_progress"]
  <2>2. /\ x \in Item /\ x.kind = "implement" /\ x.parent = g /\ x.status = "in_progress"
        /\ ~x.locked /\ ~x.rollup
    BY <2>1 DEF Item, TaskStatus
  <2> HIDE DEF x
  <2>3. tree' = [tree EXCEPT ![c] = x]
    BY <1>1 DEF x
  <2> QED BY <1>4, <2>2, <2>3, InvFacts
<1>6. tree[c].kind = "none" /\ last[c] = NoRound /\ inl[c] = 0
  BY <1>4 DEF LoopInv, BoundsOK
<1> HIDE DEF c, k
<1>7. ~IsDelegate(tree, last, inl, k, g) /\ tree[g].kind # "review"
  BY <1>3 DEF IsDelegate
<1>8. Added(tree, last, inl, tree', inl, k, {c}, g)
  <2>1. {c} \subseteq Id /\ (\A x \in {c} : x > created) /\ g \in Work(tree) \cup {NoItem}
    BY <1>3, <1>4
  <2>2. \A i \in Id \ {c} : /\ tree'[i].kind = tree[i].kind /\ tree'[i].parent = tree[i].parent
                            /\ SameItem(tree, tree', i)
    BY <1>5 DEF SameItem
  <2>3. \A x \in {c} : /\ tree'[x].kind \in LiveKind \ {"checklist"}
                       /\ tree'[x].kind = "goal" <=> g = NoItem
                       /\ tree'[x].parent = g /\ ~tree'[x].rollup /\ ~tree'[x].locked
                       /\ \/ tree'[x].status = "pending"
                          \/ tree'[x].status = "in_progress" /\ tree'[x].kind = "implement"
    BY <1>3, <1>5, IdFacts DEF LiveKind
  <2> QED BY <1>7, <2>1, <2>2, <2>3, GrownIsAdded DEF k
<1>9. /\ \A d \in Work(tree) : IsDelegate(tree, last, inl, k, d) =>
                               IsDelegate(tree', last, inl, k, d)
      /\ WorkChildren(tree', c) = {}
      /\ WorkChildren(tree', g) = WorkChildren(tree, g) \cup {c}
  BY <1>3, <1>8, AddedShape
<1>10. c # g /\ c # k /\ tree'[g].kind = "goal" /\ SameItem(tree, tree', g)
       /\ Work(tree') = Work(tree) \cup {c}
  BY <1>3, <1>8 DEF Added
<1>11. IsDelegate(tree', last, inl, k, c)
  BY <1>5, <1>6, <1>9, <1>10 DEF IsDelegate, Quiet
<1>12. tree[g].status \notin Terminal
  BY <1>3, InvFacts DEF LockOK
<1>13. ItemOK(tree', last, inl, k, AtSpawn(pc, cur), g) /\ SettledOK(tree', last, g)
  <2>1. ItemOK(tree, last, inl, k, AtSpawn(pc, cur), g)
    BY <1>3, InvFacts DEF k
  <2>2. DelegatesOnly(tree, last, inl, k, g) => DelegatesOnly(tree', last, inl, k, g)
    BY <1>9, <1>11, WorkFacts DEF DelegatesOnly
  <2>3. LockOK(tree', g) /\ ReviewOK(tree', last, inl, k, g) /\ EndedOK(tree', last, g)
    BY <1>10, <1>12, <2>1 DEF ItemOK, LockOK, ReviewOK, EndedOK, SameItem
  <2>4. PendingOK(tree', last, inl, k, g) /\ OwedOK(tree', last, inl, k, AtSpawn(pc, cur), g)
        /\ RetriedOK(tree', last, inl, k, g)
    BY <1>10, <2>1, <2>2 DEF ItemOK, PendingOK, Fresh, OwedOK, RetriedOK, SameItem
  <2>5. BareOK(tree', last, g) /\ SettledOK(tree', last, g)
    BY <1>5, <1>9 DEF BareOK, SettledOK, Busy, Terminal
  <2> QED BY <2>3, <2>4, <2>5 DEF ItemOK
<1>14. TreeOK(tree', last, inl, k, AtSpawn(pc, cur), {})
  <2>1. Typed(tree', last, inl) /\ TreeOK(tree, last, inl, k, AtSpawn(pc, cur), {})
    BY <1>5 DEF LoopInv, TreeOK, Typed, k
  <2> QED BY <1>8, <1>13, <2>1, AddedOK
<1>15. StepOK
  BY <1>8, <1>12, AddedStep
<1>16. RunsOK(tree', last, inl, k, running')
  BY <1>2, <1>9, <1>10, <1>11 DEF LoopInv, RunsOK, k
<1>17. RoundOK(tree', last, inl, "exec", cur, {})
  <2>1. RoundOK(tree, last, inl, "exec", cur, {})
    BY <1>2 DEF LoopInv
  <2>2. \A x \in {c} : IsDelegate(tree', last, inl, k, x) /\ tree'[x].status \notin Terminal
    BY <1>5, <1>11 DEF Terminal
  <2> QED BY <1>3, <1>8, <2>1, <2>2, RoundAdded DEF k
<1>18. BoundsOK'
  <2>1. used' \in [{"messages", "setbacks", "todos", "delegates", "crashes"} -> Nat]
        /\ used'.setbacks = used.setbacks
    BY <1>2 DEF LoopInv, BoundsOK
  <2>2. created' \in 0 .. MaxItems
    BY <1>2, <1>4 DEF c
  <2>3. \A i \in Id : i > created' => i # c /\ i > created
    BY <1>2, <1>4, IdFacts DEF c
  <2> QED BY <1>2, <1>5, <2>1, <2>2, <2>3 DEF LoopInv, BoundsOK
<1>19. CurOK'
  BY <1>2, <1>10 DEF LoopInv, CurOK
<1> QED BY <1>2, <1>14, <1>15, <1>16, <1>17, <1>18, <1>19 DEF LoopInv, SpawnOK, k

LEMMA StartRoundStep == ASSUME LoopInv, StartRound PROVE LoopInv' /\ StepOK
<1>1. PICK i \in PipelineFocus(tree) :
        /\ ~(tree[i].kind = "review" /\ tree[i].status = "pending")
        /\ ~Blocked(i)
        /\ tree' = [tree EXCEPT ![i].await = FALSE]
        /\ cur' = [item |-> i, rollup |-> tree[i].rollup,
                   parent |-> tree[i].rollup /\ WorkChildren(tree, i) # {}, synth |-> FALSE]
  BY DEF StartRound
<1>2. /\ pc = "tick" /\ pc' = "observe" /\ cur = Idle /\ cur.item = NoItem
      /\ UNCHANGED <<created, last, inl, running, used>>
  BY InvFacts DEF StartRound, Idle
<1>3. /\ i \in Work(tree) /\ i \in Id
      /\ ItemOK(tree, last, inl, NoItem, NoItem, i) /\ SettledOK(tree, last, i)
      /\ TreeOK(tree, last, inl, NoItem, NoItem, {})
      /\ RunsOK(tree, last, inl, NoItem, running)
  BY <1>2, InFocus, InvFacts DEF LoopInv, AtSpawn
<1>4. \/ tree[i].status = "pending"
      \/ tree[i].status = "in_progress" /\ tree[i].rollup
      \/ tree[i].status = "in_progress" /\ last[i].policy = "inline" /\ last[i].deliv = "owed"
  BY InFocus
<1>5. tree[i].kind # "review" /\ ~IsDelegate(tree, last, inl, NoItem, i)
  <2>1. tree[i].kind # "review"
    BY <1>1, <1>3, <1>4 DEF ItemOK, ReviewOK
  <2>2. ~IsDelegate(tree, last, inl, NoItem, i)
    BY <1>4 DEF IsDelegate, Quiet, NoRound
  <2> QED BY <2>1, <2>2
<1>6. /\ tree' \in [Id -> Item] /\ SamePlaces(tree, tree')
      /\ \A j \in Id : SameItem(tree, tree', j)
  BY <1>1, <1>3, InvFacts, AwaitFields
<1>7. /\ TreeOK(tree', last, inl, NoItem, NoItem, {})
      /\ \A c \in Work(tree) : IsDelegate(tree, last, inl, NoItem, c) =>
                               IsDelegate(tree', last, inl, NoItem, c)
  <2>1. Touched(tree, last, inl, tree', last, inl, {}) /\ Typed(tree', last, inl)
    BY <1>3, <1>6 DEF Touched, TreeOK, Typed
  <2>2. {} \subseteq {} \cup {}
    OBVIOUS
  <2> QED BY <1>3, <2>1, <2>2, TouchedOK
<1>8. Work(tree') = Work(tree) /\ (\A p : WorkChildren(tree', p) = WorkChildren(tree, p))
      /\ \A c \in Work(tree') : tree'[c].kind = tree[c].kind
  BY <1>6, SameShape, WorkFacts DEF SamePlaces
<1>9. /\ TreeOK(tree', last, inl, i, NoItem, {})
      /\ \A c \in Work(tree') : IsDelegate(tree', last, inl, NoItem, c) =>
                                IsDelegate(tree', last, inl, i, c)
  <2>1. \A c \in Work(tree') :
          IsDelegate(tree', last, inl, NoItem, c) \/ tree'[c].kind = "review" => i # c
    <3>1. ~IsDelegate(tree', last, inl, NoItem, i)
      BY <1>3, <1>4, <1>6 DEF IsDelegate, Quiet, NoRound, SameItem
    <3> QED BY <1>5, <1>8, <3>1
  <2> QED BY <1>7, <2>1, CursorOK
<1>10. RunsOK(tree', last, inl, i, running)
  BY <1>3, <1>7, <1>8, <1>9 DEF RunsOK
<1>11. RoundOK(tree', last, inl, pc', cur', {})
  <2> SUFFICES ASSUME ~cur'.parent
               PROVE  /\ WorkChildren(tree', i) = {} /\ ~HadSplit(last, i)
                      /\ ~cur'.rollup => ~tree'[i].rollup
    <3>1. cur'.item = i
      BY <1>1
    <3> QED BY <3>1 DEF RoundOK, DelegatesOnly
  <2>1. cur'.rollup = tree[i].rollup /\ tree'[i].rollup = tree[i].rollup
        /\ (tree[i].rollup => WorkChildren(tree, i) = {})
    BY <1>1, <1>3, <1>6 DEF SameItem
  <2>2. WorkChildren(tree, i) = {}
    <3> SUFFICES ASSUME WorkChildren(tree, i) # {} PROVE FALSE
      OBVIOUS
    <3>1. ~tree[i].rollup
      BY <2>1
    <3>2. Startable(tree, last, i)
      BY <1>4, <3>1 DEF Startable
    <3>3. DelegatesOnly(tree, last, inl, NoItem, i)
      BY <1>3, <3>2, StartableMeans
    <3>4. PICK d \in WorkChildren(tree, i) : tree[d].status \notin Terminal
      BY <1>3, <3>2 DEF SettledOK, Busy
    <3>5. tree[d].status = "in_progress"
      BY <3>3, <3>4 DEF DelegatesOnly, IsDelegate, Terminal
    <3> QED BY <1>1, <3>5 DEF Blocked
  <2>3. ~HadSplit(last, i)
    BY <1>3, <1>4, <2>2 DEF ItemOK, PendingOK, Fresh, BareOK, HadSplit, NoRound
  <2> QED BY <1>8, <2>1, <2>2, <2>3
<1>12. CurOK'
  <2>1. tree[i].rollup \in BOOLEAN
    BY <1>3, InvFacts, ItemFields
  <2> QED BY <1>1, <1>2, <1>3, <1>8, <2>1 DEF CurOK
<1>13. BoundsOK'
  BY <1>2, <1>6, SameBounds
<1>14. StepOK
  <2>1. \A j \in Work(tree) : tree'[j].status = tree[j].status
    BY <1>6, InvFacts DEF SameItem
  <2> QED BY <1>6, <2>1, KeptStep, InvFacts
<1>15. cur'.item = i /\ AtSpawn(pc', cur') = NoItem
  BY <1>1, <1>2 DEF AtSpawn
<1> QED BY <1>2, <1>9, <1>10, <1>11, <1>12, <1>13, <1>14, <1>15 DEF LoopInv, SpawnOK

LEMMA FastAnswerStep == ASSUME LoopInv, FastAnswer PROVE LoopInv' /\ StepOK
<1> DEFINE i == cur.item
           m == [last EXCEPT ![i] = [policy |-> "answer", deliv |-> "na", rr |-> 0]]
           y == TryStatus(tree, i, "in_progress")
<1>1. /\ pc = "observe" /\ pc' = "spawn" /\ ~cur.rollup /\ Mutable(tree, i)
      /\ tree' = TryStatus(y, i, "completed") /\ last' = m
      /\ UNCHANGED <<created, inl, running, cur, used>>
  BY DEF FastAnswer
<1>2. /\ i \in Work(tree) /\ i \in Id /\ tree \in [Id -> Item]
      /\ ItemOK(tree, last, inl, i, NoItem, i) /\ LockOK(tree, i)
      /\ tree[i].status \in TaskStatus /\ ~tree[i].locked
      /\ TreeOK(tree, last, inl, i, NoItem, {})
  BY <1>1, InvFacts DEF LoopInv, AtSpawn, Mutable
<1>3. ~cur.parent /\ ~cur.synth
  BY <1>1 DEF LoopInv, CurOK
<1>4. WorkChildren(tree, i) = {} /\ ~tree[i].rollup
  BY <1>1, <1>3 DEF LoopInv, RoundOK
<1>5. tree[i].status \in {"pending", "in_progress"}
  BY <1>2 DEF LockOK, TaskStatus, Terminal
<1>6. "in_progress" \in TaskStatus /\ "completed" \in TaskStatus
      /\ "in_progress" \notin Terminal /\ "completed" \in Terminal
  BY DEF TaskStatus, Terminal
<1>7. /\ y \in [Id -> Item] /\ SamePlaces(tree, y)
      /\ \A j \in Id : j # i => y[j] = tree[j]
      /\ y[i].rollup = tree[i].rollup
      /\ y[i].status = "in_progress" /\ y[i].locked = (tree[i].locked \/ "in_progress" \in Terminal)
  <2>1. CanSetStatus(tree, i, "in_progress")
    BY <1>2, <1>5, <1>6, Transitions
  <2> QED BY <1>2, <1>6, <2>1, TryFields
<1> HIDE DEF i, m, y
<1>8. LockOK(y, i) /\ Work(y) = Work(tree) /\ ~y[i].locked
  BY <1>2, <1>6, <1>7, SameShape DEF LockOK
<1>9. /\ tree' \in [Id -> Item] /\ SamePlaces(y, tree')
      /\ \A j \in Id : j # i => tree'[j] = y[j]
      /\ tree'[i].rollup = y[i].rollup
      /\ tree'[i].status = "completed" /\ tree'[i].locked = (y[i].locked \/ "completed" \in Terminal)
  <2>1. CanSetStatus(y, i, "completed")
    BY <1>2, <1>6, <1>7, <1>8, Transitions
  <2> QED BY <1>1, <1>2, <1>6, <1>7, <2>1, TryFields
<1>10. /\ SamePlaces(tree, tree') /\ Work(tree') = Work(tree)
       /\ \A p : WorkChildren(tree', p) = WorkChildren(tree, p)
  <2>1. SamePlaces(tree, tree')
    BY <1>7, <1>9 DEF SamePlaces
  <2> QED BY <2>1, SameShape
<1>11. /\ m \in [Id -> RoundRecord] /\ m[i].policy = "answer" /\ m[i].deliv = "na"
       /\ \A j \in Id : j # i => m[j] = last[j]
  <2>1. [policy |-> "answer", deliv |-> "na", rr |-> 0] \in RoundRecord
    BY LimitsAssumption DEF RoundRecord, Deliverable
  <2> QED BY <1>2, <2>1, InvFacts DEF m
<1>12. Touched(tree, last, inl, tree', m, inl, {i}) /\ Typed(tree', m, inl)
  BY <1>7, <1>9, <1>10, <1>11, InvFacts DEF Touched, Typed, SameItem
<1>13. ~IsDelegate(tree, last, inl, i, i) /\ tree[i].kind # "review"
  BY <1>2 DEF IsDelegate, Quiet, ItemOK, ReviewOK
<1>14. ItemOK(tree', m, inl, i, i, i) /\ SettledOK(tree', m, i)
  <2>1. tree'[i].kind = tree[i].kind /\ WorkChildren(tree', i) = {} /\ ~tree'[i].rollup
    BY <1>2, <1>4, <1>7, <1>9, <1>10 DEF SamePlaces
  <2> QED BY <1>6, <1>9, <1>11, <1>13, <2>1 DEF ItemOK, LockOK, ReviewOK, EndedOK, HadSplit,
             PendingOK, Fresh, OwedOK, RetriedOK, BareOK, SettledOK, DelegatesOnly
<1>15. /\ TreeOK(tree', m, inl, i, i, {})
       /\ \A c \in Work(tree) : IsDelegate(tree, last, inl, i, c) =>
                                IsDelegate(tree', m, inl, i, c)
  <2>1. \A s \in {i} : ~IsDelegate(tree, last, inl, i, s)
    BY <1>13
  <2>2. \A s \in {i} : ItemOK(tree', m, inl, i, i, s) /\ SettledOK(tree', m, s)
    BY <1>14
  <2>3. {} \subseteq {} \cup {i} /\ \A j \in Work(tree) \ {i} : i = j => NoItem = j
    OBVIOUS
  <2> QED BY <1>2, <1>12, <2>1, <2>2, <2>3, TouchedOK
<1>16. RunsOK(tree', m, inl, i, running)
  BY <1>10, <1>15 DEF LoopInv, RunsOK, i
<1>17. CurOK'
  BY <1>1, <1>2, <1>10 DEF LoopInv, CurOK, i
<1>18. BoundsOK'
  <2>1. \A j \in Id : j > created => last'[j] = last[j]
    <3>1. i \in Nat /\ i <= created /\ created \in Nat
      BY <1>2, InvFacts
    <3> QED BY <1>1, <1>11, <3>1, IdFacts
  <2> QED BY <1>1, <1>10, <2>1, SameBounds
<1>19. StepOK
  <2>1. ASSUME NEW j \in Work(tree), j # i PROVE tree'[j].status = tree[j].status
    BY <1>7, <1>9, <2>1, InvFacts
  <2>2. Present(tree') = Present(tree)
    BY <1>10, SameShape
  <2>3. ASSUME NEW j \in Present(tree'), tree'[j].kind # "checklist",
               tree'[j].status \in Terminal,
               tree[j].status \in Terminal => Busy(tree, j) = {}
        PROVE  Busy(tree', j) = {}
    <3>1. CASE j = i
      BY <1>4, <1>10, <3>1 DEF Busy
    <3>2. CASE j # i
      <4>1. j \in Work(tree) /\ j # NoItem
        BY <2>2, <2>3, <1>10, WorkFacts, IdFacts DEF Work
      <4>2. Busy(tree, j) = {}
        BY <2>1, <2>3, <3>2, <4>1
      <4>3. \A c \in WorkChildren(tree, j) : tree'[c].status = tree[c].status \/ c = i
        BY <2>1, WorkFacts
      <4> QED BY <1>6, <1>9, <1>10, <4>2, <4>3 DEF Busy
    <3> QED BY <3>1, <3>2
  <2>4. ASSUME NEW j \in Present(tree), WorkChildren(tree, j) # {}, tree[j].status \notin Terminal
        PROVE  tree'[j].status # "completed"
    <3>1. j \in Work(tree) /\ j # i
      BY <1>4, <2>4, WorkFacts, IdFacts, InvFacts, ChildFacts
    <3> QED BY <1>6, <2>1, <2>4, <3>1
  <2> QED BY <2>3, <2>4 DEF StepOK, NoOpenWorkStep, NeverPassesStep
<1>20. RoundOK(tree', last', inl', pc', cur', {}) /\ SpawnOK(tree', last', pc', cur')
  BY <1>1, <1>3, <1>11 DEF RoundOK, SpawnOK, i
<1>21. AtSpawn(pc', cur') = i /\ cur'.item = i
  BY <1>1 DEF AtSpawn, i
<1> QED BY <1>1, <1>15, <1>16, <1>17, <1>18, <1>19, <1>20, <1>21 DEF LoopInv

\* What has ended stays so, and what ends has nothing open under it.
LEMMA EndsStep ==
  ASSUME Places(tree), SamePlaces(tree, tree'),
         \A j \in Work(tree) :
           /\ tree[j].status \in Terminal => tree'[j].status \in Terminal
           /\ tree[j].status \notin Terminal /\ tree'[j].status \in Terminal =>
                Busy(tree', j) = {}
           /\ tree[j].status \notin Terminal /\ tree'[j].status = "completed" =>
                \/ WorkChildren(tree, j) = {}
                \/ Broken(tree', j) # WorkChildren(tree', j)
  PROVE  StepOK
<1>1. /\ Present(tree') = Present(tree) /\ Work(tree') = Work(tree)
      /\ \A p : WorkChildren(tree', p) = WorkChildren(tree, p)
      /\ \A p : \A c \in WorkChildren(tree, p) : c \in Work(tree)
  BY SameShape, WorkFacts
<1>2. ASSUME NEW j \in Present(tree'), tree'[j].kind # "checklist",
             tree'[j].status \in Terminal,
             tree[j].status \in Terminal => Busy(tree, j) = {}
      PROVE  Busy(tree', j) = {}
  <2>1. j \in Work(tree)
    BY <1>1, <1>2 DEF Work
  <2>2. CASE tree[j].status \in Terminal
    BY <1>1, <1>2, <2>2 DEF Busy
  <2>3. CASE tree[j].status \notin Terminal
    BY <1>2, <2>1, <2>3
  <2> QED BY <2>2, <2>3
<1>3. ASSUME NEW j \in Present(tree), WorkChildren(tree, j) # {}, tree[j].status \notin Terminal,
             Broken(tree', j) = WorkChildren(tree', j)
      PROVE  tree'[j].status # "completed"
  <2>1. j # NoItem
    BY WorkFacts, IdFacts
  <2>2. j \in Work(tree)
    BY <1>3, <2>1, ChildFacts
  <2> QED BY <1>3, <2>2
<1>4. NoOpenWorkStep
  BY <1>2 DEF NoOpenWorkStep
<1>5. NeverPassesStep
  BY <1>3 DEF NeverPassesStep
<1> QED BY <1>4, <1>5 DEF StepOK

(***************************************************************************)
(* The steps that look at a parent again                                   *)
(***************************************************************************)

\* What ReevaluateParentAfterChild leaves of the rounds of the items.
RoundsKept ==
  /\ SamePlaces(tree, tree')
  /\ \A j \in Id : last'[j] = last[j] \/ last'[j].policy = "none"

\* From t, which differs from the tree in the end of c at most, with the loop
\* where it was or past the parent.
LEMMA ReevaluateStep ==
  ASSUME LoopInv, NEW t, NEW p \in Work(tree) \cup {NoItem}, NEW R,
         SamePlaces(tree, t),
         TreeOK(t, last, inl, cur.item, AtSpawn(pc, cur), {p}),
         RoundOK(t, last, inl, pc, cur, {p}), SpawnOK(t, last, pc, cur),
         RunsOK(t, last, inl, cur.item, R),
         p \in Work(tree) => WorkChildren(tree, p) # {},
         \A j \in Work(tree) : \/ t[j].status = tree[j].status
                               \/ t[j].status \in Terminal /\ WorkChildren(tree, j) = {},
         ReevaluateParent(t, p),
         UNCHANGED <<created, inl, cur, used>>, running' = R,
         pc' = pc \/ (pc = "parent" /\ pc' = "exit")
  PROVE  LoopInv' /\ StepOK /\ RoundsKept
<1> DEFINE k == cur.item
           a == AtSpawn(pc, cur)
<1>1. /\ Work(t) = Work(tree)
      /\ \A x : WorkChildren(t, x) = WorkChildren(tree, x)
  BY SameShape
<1>2. /\ TreeOK(tree', last', inl, k, a, {})
      /\ DelegatesStay(t, last, inl, tree', last', inl, k)
      /\ Reevaluated(t, tree', last', p)
  <2>1. p \in Work(t) => WorkChildren(t, p) # {}
    BY <1>1
  <2>2. p \in Work(t) \cup {NoItem}
    BY <1>1
  <2> QED BY <2>1, <2>2, ReevaluateOK
<1>3. SamePlaces(tree, tree') /\ Work(tree') = Work(tree)
      /\ \A x : WorkChildren(tree', x) = WorkChildren(tree, x)
  <2>1. SamePlaces(tree, tree')
    BY <1>2 DEF Reevaluated, SamePlaces
  <2> QED BY <2>1, SameShape
<1>4. AtSpawn(pc', cur') = a /\ inl' = inl /\ cur' = cur
  BY DEF AtSpawn
<1>5. RunsOK(tree', last', inl', k, running')
  BY <1>1, <1>2, <1>3, <1>4 DEF RunsOK, DelegatesStay
<1>6. RoundOK(tree', last', inl', pc', cur', {}) /\ SpawnOK(tree', last', pc', cur')
  <2>1. pc \in {"observe", "exec", "spawn"} => cur.item \in Work(t)
    BY <1>1, InvFacts
  <2>2. RoundOK(tree', last', inl, pc, cur, {}) /\ SpawnOK(tree', last', pc, cur)
    BY <1>2, <2>1, RoundReevaluated
  <2>3. CASE pc' = pc
    BY <1>4, <2>2, <2>3
  <2>4. CASE pc' = "exit"
    BY <2>4 DEF RoundOK, SpawnOK
  <2> QED BY <2>3, <2>4
<1>7. BoundsOK'
  <2> SUFFICES ASSUME NEW i \in Id, i > created
               PROVE  last'[i] = last[i]
    BY <1>3, <1>4, SameBounds
  <2>1. i \notin Work(tree)
    BY InvFacts, IdFacts
  <2> QED BY <1>1, <1>2, <2>1 DEF Reevaluated
<1>8. CurOK'
  BY <1>3, <1>4 DEF LoopInv, CurOK
<1>9. StepOK
  <2>1. ASSUME NEW j \in Work(tree)
        PROVE  /\ tree[j].status \in Terminal => tree'[j].status \in Terminal
               /\ tree[j].status \notin Terminal /\ tree'[j].status \in Terminal =>
                    Busy(tree', j) = {}
               /\ tree[j].status \notin Terminal /\ tree'[j].status = "completed" =>
                    \/ WorkChildren(tree, j) = {}
                    \/ Broken(tree', j) # WorkChildren(tree', j)
    <3>1. /\ t[j].status \in Terminal => tree'[j].status \in Terminal
          /\ t[j].status \notin Terminal /\ tree'[j].status \in Terminal => Busy(tree', j) = {}
          /\ t[j].status \notin Terminal /\ tree'[j].status = "completed" =>
               Broken(tree', j) # WorkChildren(tree', j)
      BY <1>1, <1>2 DEF Reevaluated
    <3>2. CASE t[j].status = tree[j].status
      BY <3>1, <3>2
    <3>3. CASE t[j].status \in Terminal /\ WorkChildren(tree, j) = {}
      BY <1>3, <3>1, <3>3 DEF Busy
    <3> QED BY <3>2, <3>3
  <2> QED BY <1>3, <2>1, EndsStep, InvFacts
<1>10. RoundsKept
  BY <1>2, <1>3 DEF Reevaluated, RoundsKept
<1> QED BY <1>2, <1>4, <1>5, <1>6, <1>7, <1>8, <1>9, <1>10 DEF LoopInv

LEMMA ParentStep == ASSUME LoopInv, Parent PROVE LoopInv' /\ StepOK /\ RoundsKept
<1> DEFINE p == tree[cur.item].parent
<1>1. /\ pc = "parent" /\ pc' = "exit" /\ ReevaluateParent(tree, p)
      /\ UNCHANGED <<created, inl, running, cur, used>>
  BY DEF Parent
<1>2. p \in Work(tree) \cup {NoItem} /\ (p \in Work(tree) => WorkChildren(tree, p) # {})
  BY <1>1, InvFacts, ParentOf
<1> HIDE DEF p
<1>3. TreeOK(tree, last, inl, cur.item, AtSpawn(pc, cur), {p})
  BY DEF LoopInv, TreeOK
<1>4. /\ RoundOK(tree, last, inl, pc, cur, {p}) /\ SpawnOK(tree, last, pc, cur)
      /\ RunsOK(tree, last, inl, cur.item, running)
  BY <1>1 DEF LoopInv, RoundOK
<1>5. SamePlaces(tree, tree)
  BY DEF SamePlaces
<1> QED BY <1>1, <1>2, <1>3, <1>4, <1>5, ReevaluateStep

LEMMA RunEndsStep == ASSUME LoopInv, NEW i \in Id, RunEnds(i) PROVE LoopInv' /\ StepOK /\ RoundsKept
<1> DEFINE p == tree[i].parent
<1>1. /\ i \in running /\ running' = running \ {i}
      /\ UNCHANGED <<created, inl, pc, cur, used>>
  BY DEF RunEnds
<1>2. PICK s \in {"completed", "failed"} : ReevaluateParent(TryStatus(tree, i, s), p)
  BY DEF RunEnds
<1> DEFINE t == TryStatus(tree, i, s)
<1>3. i \in Work(tree) /\ IsDelegate(tree, last, inl, cur.item, i)
  BY <1>1 DEF LoopInv, RunsOK
<1>4. p \in Work(tree) \cup {NoItem} /\ (p \in Work(tree) => WorkChildren(tree, p) # {})
  BY <1>3, InvFacts, ParentOf
<1>5. RunOver(tree, t, i) /\ ReevaluateParent(t, p) /\ p = tree[i].parent
      /\ TreeOK(tree, last, inl, cur.item, AtSpawn(pc, cur), {})
  BY <1>2 DEF RunOver, LoopInv
<1> HIDE DEF t, p
<1>6. /\ TreeOK(t, last, inl, cur.item, AtSpawn(pc, cur), {p}) /\ SamePlaces(tree, t)
      /\ i # cur.item
      /\ Touched(tree, last, inl, t, last, inl, {i}) /\ WorkChildren(tree, i) = {}
      /\ t[i].status \in Terminal
      /\ \A d \in Work(tree) : IsDelegate(tree, last, inl, cur.item, d) =>
           IsDelegate(t, last, inl, cur.item, d) /\ (d \in {i} => tree[d].parent \in {p})
  <2>1. i # cur.item
    BY <1>3 DEF IsDelegate, Quiet
  <2> QED BY <1>3, <1>5, <2>1, DelegateEndsOK
<1>7. RoundOK(t, last, inl, pc, cur, {p}) /\ SpawnOK(t, last, pc, cur)
  <2>1. pc \in {"observe", "exec", "spawn"} => cur.item \in Work(tree) /\ cur.item \notin {i}
    BY <1>6, InvFacts
  <2>2. RoundOK(tree, last, inl, pc, cur, {}) /\ SpawnOK(tree, last, pc, cur)
    BY DEF LoopInv
  <2>3. {} \subseteq {p}
    OBVIOUS
  <2> QED BY <1>6, <2>1, <2>2, <2>3, RoundTouched
<1>8. RunsOK(t, last, inl, cur.item, running \ {i})
  <2>1. Work(t) = Work(tree)
    BY <1>6, SameShape
  <2> QED BY <1>6, <2>1 DEF LoopInv, RunsOK
<1>9. \A j \in Work(tree) : \/ t[j].status = tree[j].status
                            \/ t[j].status \in Terminal /\ WorkChildren(tree, j) = {}
  BY <1>6, InvFacts DEF Touched, SameItem
<1> QED BY <1>1, <1>4, <1>5, <1>6, <1>7, <1>8, <1>9, ReevaluateStep

LEMMA ApproveStep == ASSUME LoopInv, NEW i \in Id, Approve(i) PROVE LoopInv' /\ StepOK /\ RoundsKept
<1> DEFINE p == tree[i].parent
           t == WithStatus(tree, i, "completed")
<1>1. /\ tree[i].kind = "review" /\ tree[i].status = "pending"
      /\ ReevaluateParent(t, p)
      /\ UNCHANGED <<created, inl, running, pc, cur, used>>
  BY DEF Approve
<1>2. i \in Work(tree)
  BY <1>1 DEF Work, Present, LiveKind
<1>3. p \in Work(tree) \cup {NoItem} /\ (p \in Work(tree) => WorkChildren(tree, p) # {})
  BY <1>2, InvFacts, ParentOf
<1>4. /\ TreeOK(t, last, inl, cur.item, AtSpawn(pc, cur), {}) /\ SamePlaces(tree, t)
      /\ i # cur.item
      /\ Touched(tree, last, inl, t, last, inl, {i}) /\ WorkChildren(tree, i) = {}
      /\ t[i].status \in Terminal
      /\ \A d \in Work(tree) : IsDelegate(tree, last, inl, cur.item, d) =>
           IsDelegate(t, last, inl, cur.item, d) /\ d # i
  BY <1>1, <1>2, ReviewEndsOK DEF LoopInv
<1> HIDE DEF t, p
<1>5. TreeOK(t, last, inl, cur.item, AtSpawn(pc, cur), {p})
  BY <1>4 DEF TreeOK
<1>6. RoundOK(t, last, inl, pc, cur, {p}) /\ SpawnOK(t, last, pc, cur)
  <2>1. pc \in {"observe", "exec", "spawn"} => cur.item \in Work(tree) /\ cur.item \notin {i}
    BY <1>4, InvFacts
  <2>2. RoundOK(tree, last, inl, pc, cur, {}) /\ SpawnOK(tree, last, pc, cur)
    BY DEF LoopInv
  <2>3. {} \subseteq {p}
    OBVIOUS
  <2>4. \A d \in Work(tree) : IsDelegate(tree, last, inl, cur.item, d) =>
          IsDelegate(t, last, inl, cur.item, d) /\ (d \in {i} => tree[d].parent \in {p})
    BY <1>4
  <2> QED BY <1>4, <2>1, <2>2, <2>3, <2>4, RoundTouched
<1>7. RunsOK(t, last, inl, cur.item, running)
  <2>1. Work(t) = Work(tree)
    BY <1>4, SameShape
  <2> QED BY <1>4, <2>1 DEF LoopInv, RunsOK
<1>8. \A j \in Work(tree) : \/ t[j].status = tree[j].status
                            \/ t[j].status \in Terminal /\ WorkChildren(tree, j) = {}
  BY <1>4, InvFacts DEF Touched, SameItem
<1> QED BY <1>1, <1>3, <1>4, <1>5, <1>6, <1>7, <1>8, ReevaluateStep

(***************************************************************************)
(* The end of a round                                                      *)
(***************************************************************************)

LEMMA FlagDrops ==
  ASSUME NEW e \in [Id -> Item], NEW i \in Id, NEW u, u = WithRollup(e, i, FALSE)
  PROVE  /\ u \in [Id -> Item] /\ SamePlaces(e, u)
         /\ \A j \in Id : j # i => u[j] = e[j]
         /\ u[i].status = e[i].status /\ u[i].locked = e[i].locked
         /\ ~u[i].rollup
BY DEF Item, SamePlaces, WithRollup

\* ApplyPipelineRound and ApplyRoundTerminalization on an item not yet ended.
LEMMA RecordedFields ==
  ASSUME LoopInv, cur.item \in Work(tree), Mutable(tree, cur.item), NEW o
  PROVE  LET u == Recorded(o)
             i == cur.item
         IN  /\ u \in [Id -> Item] /\ SamePlaces(tree, u) /\ LockOK(u, i)
             /\ \A j \in Id : j # i => SameItem(tree, u, j)
             /\ u[i].rollup => tree[i].rollup /\ ~(cur.rollup /\ o.verdict = "pass")
             /\ o.policy # "none" => u[i].status = "in_progress"
             /\ o.policy = "none" => u[i].status = StatusAfterNone(o, cur.parent)
<1> DEFINE i == cur.item
           s == StatusAfterNone(o, cur.parent)
           b == o.policy \in {"await", "decompose", "explore"}
           w == [tree EXCEPT ![i].await = b]
           y == TryStatus(w, i, "in_progress")
           e == IF o.policy = "none" THEN TryStatus(y, i, s) ELSE y
           u == IF cur.rollup /\ o.verdict = "pass" THEN WithRollup(e, i, FALSE) ELSE e
<1>1. /\ i \in Id /\ tree \in [Id -> Item] /\ LockOK(tree, i) /\ ~tree[i].locked
      /\ tree[i].status \in TaskStatus
  <2>1. LockOK(tree, i) /\ tree[i].status \in TaskStatus
    BY InvFacts
  <2> QED BY <2>1, InvFacts DEF Mutable
<1>2. tree[i].status \in {"pending", "in_progress"}
  BY <1>1 DEF LockOK, TaskStatus, Terminal
<1>3. /\ "in_progress" \in TaskStatus /\ "in_progress" \notin Terminal
      /\ s \in {"in_progress", "completed", "failed"} /\ s \in TaskStatus
  BY DEF TaskStatus, Terminal, StatusAfterNone
<1>4. Recorded(o) = u
  BY DEF Recorded
<1>b. b \in BOOLEAN
  OBVIOUS
<1> HIDE DEF s, b
<1>5. /\ w \in [Id -> Item] /\ SamePlaces(tree, w)
      /\ \A j \in Id : SameItem(tree, w, j)
  BY <1>1, <1>b, AwaitFields
<1> HIDE DEF w
<1>6. LockOK(w, i) /\ i \in Work(w) /\ w[i].status = tree[i].status
  BY <1>1, <1>5, SameShape DEF LockOK, SameItem
<1>7. /\ y \in [Id -> Item] /\ SamePlaces(w, y)
      /\ \A j \in Id : j # i => y[j] = w[j]
      /\ y[i].rollup = w[i].rollup
      /\ y[i].status = "in_progress" /\ y[i].locked = (w[i].locked \/ "in_progress" \in Terminal)
  <2>1. CanSetStatus(w, i, "in_progress")
    BY <1>1, <1>2, <1>6, Transitions
  <2> QED BY <1>1, <1>3, <1>5, <2>1, TryFields
<1> HIDE DEF y
<1>8. LockOK(y, i) /\ i \in Work(y) /\ ~y[i].locked
  BY <1>1, <1>3, <1>5, <1>6, <1>7, SameShape DEF LockOK, SameItem
<1>9. /\ e \in [Id -> Item] /\ SamePlaces(y, e)
      /\ \A j \in Id : j # i => e[j] = y[j]
      /\ e[i].rollup = y[i].rollup /\ LockOK(e, i)
      /\ o.policy # "none" => e[i].status = "in_progress"
      /\ o.policy = "none" => e[i].status = s
  <2>1. CASE o.policy # "none"
    <3>1. e = y
      BY <2>1
    <3> HIDE DEF e
    <3> QED BY <1>7, <1>8, <2>1, <3>1 DEF SamePlaces
  <2>2. CASE o.policy = "none"
    <3>1. e = TryStatus(y, i, s)
      BY <2>2
    <3>2. CanSetStatus(y, i, s)
      BY <1>1, <1>3, <1>7, <1>8, Transitions
    <3> HIDE DEF e
    <3>3. /\ e \in [Id -> Item] /\ SamePlaces(y, e)
          /\ \A j \in Id : j # i => e[j] = y[j]
          /\ e[i].rollup = y[i].rollup
          /\ e[i].status = s /\ e[i].locked = (y[i].locked \/ s \in Terminal)
      BY <1>1, <1>3, <1>7, <3>1, <3>2, TryFields
    <3> QED BY <1>8, <2>2, <3>3 DEF LockOK
  <2> QED BY <2>1, <2>2
<1> HIDE DEF e
<1>10. /\ u \in [Id -> Item] /\ SamePlaces(e, u)
       /\ \A j \in Id : j # i => u[j] = e[j]
       /\ u[i].status = e[i].status /\ u[i].locked = e[i].locked
       /\ u[i].rollup => e[i].rollup /\ ~(cur.rollup /\ o.verdict = "pass")
  <2>1. CASE cur.rollup /\ o.verdict = "pass"
    <3>1. u = WithRollup(e, i, FALSE)
      BY <2>1
    <3> HIDE DEF u
    <3>2. e \in [Id -> Item] /\ i \in Id
      BY <1>1, <1>9
    <3> HIDE DEF i
    <3>3. /\ u \in [Id -> Item] /\ SamePlaces(e, u)
          /\ \A j \in Id : j # i => u[j] = e[j]
          /\ u[i].status = e[i].status /\ u[i].locked = e[i].locked
          /\ ~u[i].rollup
      BY <3>1, <3>2, FlagDrops, ZenonT(60)
    <3> QED BY <3>3
  <2>2. CASE ~(cur.rollup /\ o.verdict = "pass")
    BY <1>9, <2>2 DEF SamePlaces
  <2> QED BY <2>1, <2>2
<1> HIDE DEF u
<1>11. SamePlaces(tree, u) /\ \A j \in Id : j # i => SameItem(tree, u, j)
  BY <1>5, <1>7, <1>9, <1>10 DEF SamePlaces, SameItem
<1>12. LockOK(u, i)
  BY <1>9, <1>10 DEF LockOK
<1>13. u[i].rollup => tree[i].rollup
  BY <1>1, <1>5, <1>7, <1>9, <1>10 DEF SameItem
<1> QED BY <1>4, <1>9, <1>10, <1>11, <1>12, <1>13 DEF s

LEMMA ContextFits ==
  ASSUME LoopInv, NEW i \in Work(tree), NEW daily \in BOOLEAN
  PROVE  LET c == ContextOf(i, daily)
         IN  /\ c \in LoopContext
             /\ c.running <=> Busy(tree, i) # {}
             /\ c.rollup <=> tree[i].rollup
<1> DEFINE c == ContextOf(i, daily)
<1>1. /\ i \in Id /\ tree[i].rollup \in BOOLEAN
      /\ last[i].rr \in 0 .. MaxRollup
  BY InvFacts, ItemFields DEF RoundRecord
<1>2. inl[i] \in 0 .. MaxSetbacks
  BY <1>1, InvFacts, LoopAssumption DEF LoopInv, BoundsOK
<1>3. Busy(tree, i) # {} => WorkChildren(tree, i) # {}
  BY DEF Busy
<1>4. /\ c.running = (Busy(tree, i) # {}) /\ c.kids = (WorkChildren(tree, i) # {})
      /\ c.rollup = tree[i].rollup
  BY DEF ContextOf
<1>5. c \in LoopContext
  BY <1>1, <1>2, <1>3 DEF ContextOf, LoopContext
<1> QED BY <1>4, <1>5

\* The round's item changes, and its spawn policy is about to be applied.
LEMMA OneTouchedOK ==
  ASSUME NEW t, NEW l, NEW n, NEW u, NEW m, NEW o, NEW k, NEW a, NEW i,
         TreeOK(t, l, n, k, a, {}), Typed(u, m, o), Touched(t, l, n, u, m, o, {i}),
         ~IsDelegate(t, l, n, k, i), ItemOK(u, m, o, k, i, i), SettledOK(u, m, i)
  PROVE  /\ TreeOK(u, m, o, k, i, {})
         /\ \A c \in Work(t) : IsDelegate(t, l, n, k, c) => IsDelegate(u, m, o, k, c)
<1> DEFINE S == {i}
           X == {}
<1>1. TreeOK(t, l, n, k, a, X) /\ Touched(t, l, n, u, m, o, S)
  OBVIOUS
<1>2. \A s \in S : s \in Work(t) /\ IsDelegate(t, l, n, k, s) =>
        IsDelegate(u, m, o, k, s) /\ t[s].parent \in X
  OBVIOUS
<1>3. \A s \in S : s \in Work(t) => ItemOK(u, m, o, k, i, s)
                                    /\ (s \notin X => SettledOK(u, m, s))
  OBVIOUS
<1>4. X \subseteq X \cup S
  OBVIOUS
<1>5. \A j \in Work(t) \ S : i = j => a = j
  OBVIOUS
<1> HIDE DEF S, X
<1>6. /\ TreeOK(u, m, o, k, i, X)
      /\ \A c \in Work(t) : IsDelegate(t, l, n, k, c) => IsDelegate(u, m, o, k, c)
  BY <1>1, <1>2, <1>3, <1>4, <1>5, TouchedOK, ZenonT(60)
<1> QED BY <1>6 DEF X

\* What a round records is in order, and what it ends has nothing open under it.
LEMMA RoundEndsStep == ASSUME LoopInv, RoundEnds PROVE LoopInv' /\ StepOK
<1> DEFINE i == cur.item
<1>1. /\ pc = "exec" /\ pc' = "spawn" /\ Mutable(tree, i)
      /\ UNCHANGED <<created, running>>
  BY DEF RoundEnds
<1>0. PICK daily \in BOOLEAN : \E w \in Outcomes(ContextOf(i, daily)) :
        /\ cur' = [cur EXCEPT !.synth = w.outcome.synth]
        /\ last' = [last EXCEPT ![i] =
                      [policy |-> w.outcome.policy, deliv |-> w.outcome.deliv,
                       rr |-> RollupRetries(w.outcome)]]
        /\ inl' = IF w.outcome.policy = "inline" /\ w.outcome.deliv = "owed" /\ ~w.outcome.synth
                  THEN [inl EXCEPT ![i] = @ + 1] ELSE inl
        /\ IF w.setback THEN Spend("setbacks", MaxSetbacks) ELSE UNCHANGED used
        /\ tree' = Recorded(w.outcome)
  BY DEF RoundEnds
<1>2. PICK w \in Outcomes(ContextOf(i, daily)) :
        /\ cur' = [cur EXCEPT !.synth = w.outcome.synth]
        /\ last' = [last EXCEPT ![i] =
                      [policy |-> w.outcome.policy, deliv |-> w.outcome.deliv,
                       rr |-> RollupRetries(w.outcome)]]
        /\ inl' = IF w.outcome.policy = "inline" /\ w.outcome.deliv = "owed" /\ ~w.outcome.synth
                  THEN [inl EXCEPT ![i] = @ + 1] ELSE inl
        /\ IF w.setback THEN Spend("setbacks", MaxSetbacks) ELSE UNCHANGED used
        /\ tree' = Recorded(w.outcome)
  BY <1>0
<1> DEFINE o == w.outcome
           c == ContextOf(i, daily)
           x == [policy |-> o.policy, deliv |-> o.deliv, rr |-> RollupRetries(o)]
<1>3. /\ i \in Work(tree) /\ i \in Id /\ i # NoItem /\ tree \in [Id -> Item]
      /\ ItemOK(tree, last, inl, i, NoItem, i) /\ LockOK(tree, i)
      /\ ~tree[i].locked /\ tree[i].status \notin Terminal
      /\ TreeOK(tree, last, inl, i, NoItem, {})
      /\ i <= created /\ created \in Nat /\ i \in Nat
  <2>1. i \in Work(tree) /\ i \in Id /\ i # NoItem
    BY <1>1, InvFacts, IdFacts
  <2>2. TreeOK(tree, last, inl, i, NoItem, {})
    BY <1>1 DEF LoopInv, AtSpawn
  <2>3. ItemOK(tree, last, inl, i, NoItem, i)
    BY <2>1, <2>2 DEF TreeOK
  <2>4. LockOK(tree, i) /\ ~tree[i].locked /\ tree[i].status \notin Terminal
    BY <1>1, <2>3 DEF ItemOK, LockOK, Mutable
  <2>5. i <= created /\ created \in Nat /\ i \in Nat
    BY <2>1, InvFacts
  <2> QED BY <2>1, <2>2, <2>3, <2>4, <2>5, InvFacts
<1>4. /\ c \in LoopContext
      /\ c.running <=> Busy(tree, i) # {}
      /\ c.rollup <=> tree[i].rollup
  BY <1>3, ContextFits
<1>5. /\ o.policy \in Policy /\ o.deliv \in Deliverable /\ o.synth \in BOOLEAN
      /\ c.running <=> o.policy = "await"
      /\ o.synth => o.policy = "inline"
      /\ c.rollup /\ o.policy = "decompose" => o.verdict = "pass"
      /\ cur.parent => o.deliv = "na" /\ o.verdict \in RollupVerdicts(i)
      /\ o.deliv = "owed" => w.setback
  <2> HIDE DEF c
  <2>1. w \in Outcomes(c)
    BY <1>2 DEF c
  <2> QED BY <1>4, <2>1, OutcomeFacts
<1>6. /\ tree' \in [Id -> Item] /\ SamePlaces(tree, tree') /\ LockOK(tree', i)
      /\ \A j \in Id : j # i => SameItem(tree, tree', j)
      /\ tree'[i].rollup => tree[i].rollup /\ ~(cur.rollup /\ o.verdict = "pass")
      /\ o.policy # "none" => tree'[i].status = "in_progress"
      /\ o.policy = "none" => tree'[i].status = StatusAfterNone(o, cur.parent)
  <2>1. tree' = Recorded(o)
    BY <1>2
  <2> HIDE DEF o
  <2> QED BY <1>1, <1>3, <2>1, RecordedFields
<1>7. /\ Work(tree') = Work(tree) /\ \A p : WorkChildren(tree', p) = WorkChildren(tree, p)
  BY <1>6, SameShape
<1>8. x \in RoundRecord
  <2>1. last[i].rr \in 0 .. MaxRollup
    BY <1>3, InvFacts DEF RoundRecord
  <2>2. RollupRetries(o) \in 0 .. MaxRollup
    BY <2>1, LimitsAssumption DEF RollupRetries
  <2> HIDE DEF o
  <2> QED BY <1>5, <2>2 DEF RoundRecord
<1>9. /\ last' \in [Id -> RoundRecord]
      /\ last'[i].policy = o.policy /\ last'[i].deliv = o.deliv
      /\ \A j \in Id : j # i => last'[j] = last[j]
  <2>1. last' = [last EXCEPT ![i] = x]
    BY <1>2
  <2>2. x.policy = o.policy /\ x.deliv = o.deliv
    OBVIOUS
  <2> HIDE DEF x
  <2> QED BY <1>3, <1>8, <2>1, <2>2, InvFacts
<1>10. /\ inl' \in [Id -> Nat] /\ \A j \in Id : j # i => inl'[j] = inl[j]
       /\ inl'[i] = inl[i] \/ (inl'[i] = inl[i] + 1 /\ o.deliv = "owed")
  <2> HIDE DEF o
  <2> QED BY <1>2, <1>3, InvFacts DEF o
<1>11. cur'.item = i /\ cur'.rollup = cur.rollup /\ cur'.parent = cur.parent
       /\ cur'.synth = o.synth
       /\ cur' \in [item : Id \cup {NoItem}, rollup : BOOLEAN, parent : BOOLEAN, synth : BOOLEAN]
  <2>1. cur' = [cur EXCEPT !.synth = o.synth]
    BY <1>2
  <2>2. cur \in [item : Id \cup {NoItem}, rollup : BOOLEAN, parent : BOOLEAN, synth : BOOLEAN]
    BY DEF LoopInv, CurOK
  <2> HIDE DEF o
  <2> QED BY <1>5, <2>1, <2>2
<1>12. IF w.setback THEN Spend("setbacks", MaxSetbacks) ELSE UNCHANGED used
  BY <1>2
<1> HIDE DEF o, c, x
\* A round that owes a deliverable had no child but delegates that still run.
<1>13. o.deliv = "owed" =>
         /\ ~cur.parent /\ DelegatesOnly(tree, last, inl, i, i)
         /\ WorkChildren(tree, i) # {} => Busy(tree, i) # {}
  <2>1. o.deliv = "owed" => ~cur.parent
    BY <1>5
  <2> QED BY <1>1, <1>3, <2>1 DEF LoopInv, RoundOK
<1>14. ~IsDelegate(tree, last, inl, i, i) /\ tree[i].kind # "review"
  BY <1>3 DEF IsDelegate, Quiet, ItemOK, ReviewOK
<1>15. Touched(tree, last, inl, tree', last', inl', {i}) /\ Typed(tree', last', inl')
  BY <1>6, <1>9, <1>10 DEF Touched, Typed
<1>16. ASSUME DelegatesOnly(tree, last, inl, i, i)
       PROVE  DelegatesOnly(tree', last', inl', i, i)
  <2> SUFFICES ASSUME NEW d \in WorkChildren(tree', i)
               PROVE  IsDelegate(tree', last', inl', i, d)
    BY DEF DelegatesOnly
  <2>1. d \in WorkChildren(tree, i) /\ Places(tree)
    BY <1>7, InvFacts
  <2>2. d \in Work(tree) /\ d \in Id /\ d # i
    BY <2>1, ChildFacts
  <2>3. IsDelegate(tree, last, inl, i, d)
    BY <1>16, <2>1 DEF DelegatesOnly
  <2> QED BY <1>6, <1>9, <1>10, <2>1, <2>2, <2>3, DelegateStays
<1>17. Busy(tree', i) = Busy(tree, i)
  <2>1. \A d \in WorkChildren(tree, i) : d \in Id /\ d # i
    BY <1>3, ChildFacts, InvFacts
  <2>2. \A d \in WorkChildren(tree, i) : tree'[d].status = tree[d].status
    BY <1>6, <2>1 DEF SameItem
  <2> QED BY <1>7, <2>2 DEF Busy
<1>18. o.policy = "none" \/ o.policy # "await" => Busy(tree, i) = {}
  BY <1>4, <1>5
<1>19. tree'[i].status \in {"in_progress", "completed", "failed"}
  BY <1>6 DEF StatusAfterNone
<1>20. ItemOK(tree', last', inl', i, i, i) /\ SettledOK(tree', last', i)
  <2>1. ReviewOK(tree', last', inl', i, i)
    BY <1>3, <1>6, <1>14 DEF ReviewOK, SamePlaces
  <2>2. EndedOK(tree', last', i)
    BY <1>6, <1>9 DEF EndedOK, HadSplit, Terminal
  <2>3. PendingOK(tree', last', inl', i, i)
    BY <1>19 DEF PendingOK, Fresh
  <2>4. OwedOK(tree', last', inl', i, i, i)
    BY <1>9, <1>13, <1>16 DEF OwedOK
  <2>5. RetriedOK(tree', last', inl', i, i)
    <3> SUFFICES ASSUME inl'[i] > 0 PROVE DelegatesOnly(tree, last, inl, i, i)
      BY <1>16 DEF RetriedOK
    <3>1. CASE inl'[i] = inl[i]
      BY <1>3, <3>1 DEF ItemOK, RetriedOK
    <3>2. CASE o.deliv = "owed"
      BY <1>13, <3>2
    <3> QED BY <1>10, <3>1, <3>2
  <2>6. BareOK(tree', last', i)
    <3> SUFFICES ASSUME tree'[i].rollup, WorkChildren(tree, i) = {},
                        o.policy \in {"decompose", "await"}
                 PROVE  FALSE
      BY <1>7, <1>9 DEF BareOK, HadSplit
    <3>1. o.policy = "decompose"
      BY <1>4, <1>5 DEF Busy
    <3>2. tree[i].rollup /\ ~cur.rollup
      BY <1>4, <1>5, <1>6, <3>1
    <3> QED BY <1>1, <3>2 DEF LoopInv, RoundOK, CurOK
  <2>7. SettledOK(tree', last', i)
    BY <1>7, <1>9, <1>13, <1>17, <1>19 DEF SettledOK, Startable
  <2> QED BY <1>6, <2>1, <2>2, <2>3, <2>4, <2>5, <2>6, <2>7 DEF ItemOK
<1>21. /\ TreeOK(tree', last', inl', i, i, {})
       /\ \A d \in Work(tree) : IsDelegate(tree, last, inl, i, d) =>
                                IsDelegate(tree', last', inl', i, d)
  <2>1. TreeOK(tree, last, inl, i, NoItem, {})
    BY <1>3
  <2> HIDE DEF i
  <2> QED BY <1>14, <1>15, <1>20, <2>1, OneTouchedOK
<1>22. RunsOK(tree', last', inl', i, running')
  BY <1>1, <1>7, <1>21 DEF LoopInv, RunsOK
<1>23. CurOK'
  BY <1>1, <1>3, <1>7, <1>11 DEF LoopInv, CurOK
<1>24. RoundOK(tree', last', inl', pc', cur', {}) /\ SpawnOK(tree', last', pc', cur')
  <2>1. o.deliv = "owed" /\ o.policy # "await" => WorkChildren(tree, i) = {}
    BY <1>13, <1>18
  <2>2. o.synth => ~HadSplit(last', i)
    BY <1>5, <1>9 DEF HadSplit
  <2> QED BY <1>1, <1>7, <1>9, <1>11, <2>1, <2>2 DEF RoundOK, SpawnOK
<1>25. BoundsOK'
  <2>1. /\ used' \in [{"messages", "setbacks", "todos", "delegates", "crashes"} -> Nat]
        /\ used'.setbacks \in Nat /\ used.setbacks \in Nat
        /\ used'.setbacks <= MaxSetbacks /\ used'.setbacks >= used.setbacks
        /\ w.setback => used'.setbacks = used.setbacks + 1
    BY <1>12, LoopAssumption DEF LoopInv, BoundsOK, Spend
  <2>2. \A j \in Id : j > created =>
          tree'[j].kind = "none" /\ last'[j] = NoRound /\ inl'[j] = 0
    BY <1>3, <1>6, <1>9, <1>10, IdFacts DEF LoopInv, BoundsOK, SamePlaces
  <2>3. \A j \in Id : inl'[j] <= used'.setbacks
    <3> SUFFICES ASSUME NEW j \in Id PROVE inl'[j] <= used'.setbacks
      OBVIOUS
    <3>1. inl[j] <= used.setbacks /\ inl[j] \in Nat /\ inl'[j] \in Nat
      BY <1>10, InvFacts DEF LoopInv, BoundsOK
    <3>2. inl'[j] = inl[j] \/ (inl'[j] = inl[j] + 1 /\ w.setback)
      BY <1>5, <1>10
    <3> QED BY <2>1, <3>1, <3>2
  <2> QED BY <1>1, <2>1, <2>2, <2>3 DEF LoopInv, BoundsOK
<1>26. StepOK
  <2>1. ASSUME NEW j \in Work(tree)
        PROVE  /\ tree[j].status \in Terminal => tree'[j].status \in Terminal
               /\ tree[j].status \notin Terminal /\ tree'[j].status \in Terminal =>
                    Busy(tree', j) = {}
               /\ tree[j].status \notin Terminal /\ tree'[j].status = "completed" =>
                    \/ WorkChildren(tree, j) = {}
                    \/ Broken(tree', j) # WorkChildren(tree', j)
    <3>1. CASE j # i
      <4>1. tree'[j].status = tree[j].status
        BY <1>6, <3>1, InvFacts DEF SameItem
      <4> QED BY <4>1 DEF Terminal
    <3>2. CASE j = i
      <4>1. tree'[i].status \in Terminal => o.policy = "none"
        BY <1>6 DEF Terminal
      <4>2. tree'[i].status \in Terminal => Busy(tree', i) = {}
        BY <1>17, <1>18, <4>1
      <4>3. ASSUME tree'[i].status = "completed", WorkChildren(tree, i) # {}
            PROVE  Broken(tree', i) # WorkChildren(tree', i)
        <5>1. o.policy = "none" /\ Busy(tree, i) = {}
              /\ StatusAfterNone(o, cur.parent) = "completed"
          BY <1>6, <1>18, <4>3
        <5>2. cur.parent
          BY <1>1, <1>3, <4>3, <5>1 DEF LoopInv, RoundOK
        <5>3. o.verdict = "pass" /\ o.verdict \in RollupVerdicts(i)
          BY <1>5, <5>1, <5>2 DEF StatusAfterNone
        <5>4. Broken(tree, i) # WorkChildren(tree, i)
          BY <4>3, <5>3 DEF RollupVerdicts
        <5>5. Broken(tree', i) = Broken(tree, i)
          <6>1. \A d \in WorkChildren(tree, i) : d \in Id /\ d # i
            BY <1>3, ChildFacts, InvFacts
          <6>2. \A d \in WorkChildren(tree, i) : tree'[d].status = tree[d].status
            BY <1>6, <6>1 DEF SameItem
          <6> QED BY <1>7, <6>2 DEF Broken
        <5> QED BY <1>7, <5>4, <5>5
      <4> QED BY <1>3, <3>2, <4>2, <4>3
    <3> QED BY <3>1, <3>2
  <2> QED BY <1>6, <2>1, EndsStep, InvFacts
<1>27. AtSpawn(pc', cur') = i
  BY <1>1, <1>11 DEF AtSpawn
<1> QED BY <1>11, <1>21, <1>22, <1>23, <1>24, <1>25, <1>26, <1>27 DEF LoopInv

(***************************************************************************)
(* Applying the spawn policy                                               *)
(***************************************************************************)

LEMMA SpawnFacts ==
  ASSUME LoopInv, pc = "spawn"
  PROVE  /\ cur.item \in Work(tree) /\ cur.item \in Id /\ cur.item # NoItem
         /\ TreeOK(tree, last, inl, cur.item, cur.item, {})
         /\ ItemOK(tree, last, inl, cur.item, cur.item, cur.item)
         /\ ~IsDelegate(tree, last, inl, cur.item, cur.item) /\ tree[cur.item].kind # "review"
         /\ Mutable(tree, cur.item) => tree[cur.item].status \notin Terminal
         /\ last[cur.item].policy # "noround" => ~Fresh(tree, cur.item)
         /\ cur.item \in Nat /\ cur.item <= created /\ created \in Nat
<1> DEFINE i == cur.item
<1>1. i \in Work(tree) /\ i \in Id /\ i # NoItem /\ i \in Nat /\ i <= created /\ created \in Nat
  BY InvFacts, IdFacts
<1>2. TreeOK(tree, last, inl, i, i, {})
  BY DEF LoopInv, AtSpawn
<1>3. ItemOK(tree, last, inl, i, i, i)
  BY <1>1, <1>2 DEF TreeOK
<1>4. ~IsDelegate(tree, last, inl, i, i) /\ tree[i].kind # "review"
  BY <1>3 DEF IsDelegate, Quiet, ItemOK, ReviewOK
<1>5. Mutable(tree, i) => tree[i].status \notin Terminal
  BY <1>3 DEF ItemOK, LockOK, Mutable
<1>6. last[i].policy # "noround" => ~Fresh(tree, i)
  BY <1>3 DEF ItemOK, PendingOK, NoRound
<1> QED BY <1>1, <1>2, <1>3, <1>4, <1>5, <1>6

\* The round's item changes, and the loop goes on to its parent.
LEMMA SpawnedOK ==
  ASSUME LoopInv, pc = "spawn", pc' = "parent", UNCHANGED <<running, cur>>,
         Typed(tree', last', inl'),
         Touched(tree, last, inl, tree', last', inl', {cur.item}),
         ItemOK(tree', last', inl', cur.item, cur.item, cur.item),
         SettledOK(tree', last', cur.item), BoundsOK'
  PROVE  LoopInv'
<1> DEFINE i == cur.item
<1>1. /\ TreeOK(tree', last', inl', i, i, {})
      /\ \A c \in Work(tree) : IsDelegate(tree, last, inl, i, c) =>
                               IsDelegate(tree', last', inl', i, c)
  BY SpawnFacts, OneTouchedOK
<1>2. SamePlaces(tree, tree') /\ Work(tree') = Work(tree) /\ NoItem \notin Work(tree')
  <2>1. SamePlaces(tree, tree')
    BY DEF Touched
  <2> QED BY <2>1, SameShape, InvFacts, IdFacts
<1>3. ~IsDelegate(tree', last', inl', i, i) /\ tree'[i].kind # "review"
  <2>1. tree'[i].kind = tree[i].kind
    BY <1>2, SpawnFacts DEF SamePlaces
  <2> QED BY <2>1, SpawnFacts DEF IsDelegate, Quiet
<1>4. TreeOK(tree', last', inl', i, NoItem, {})
  <2>1. \A c \in Work(tree') :
          IsDelegate(tree', last', inl', i, c) \/ tree'[c].kind = "review" => i # c
    BY <1>3
  <2>2. \A c \in Work(tree') : NoItem = c => i = c
    BY <1>2
  <2> QED BY <1>1, <2>1, <2>2, CursorOK
<1>5. RunsOK(tree', last', inl', i, running')
  BY <1>1, <1>2 DEF LoopInv, RunsOK
<1>6. CurOK'
  BY <1>2, SpawnFacts DEF LoopInv, CurOK
<1>7. cur'.item = i /\ AtSpawn(pc', cur') = NoItem
  BY DEF AtSpawn
<1> QED BY <1>4, <1>5, <1>6, <1>7 DEF LoopInv, RoundOK, SpawnOK

\* A decomposition that may not be made is a retry in place.
LEMMA DowngradeStep ==
  ASSUME LoopInv, pc = "spawn", pc' = "parent", UNCHANGED <<running, cur, created, inl>>,
         last[cur.item].policy = "decompose", Downgrade,
         tree' \in [Id -> Item], SamePlaces(tree, tree'),
         \A j \in Id : SameItem(tree, tree', j),
         used' = used \/ Spend("setbacks", MaxSetbacks)
  PROVE  LoopInv' /\ StepOK
<1> DEFINE i == cur.item
<1>1. /\ last' \in [Id -> RoundRecord] /\ last'[i].policy = "inline"
      /\ last'[i].deliv = last[i].deliv
      /\ \A j \in Id : j # i => last'[j] = last[j]
  BY SpawnFacts, InvFacts DEF Downgrade, RoundRecord, Policy
<1>2. Typed(tree', last', inl') /\ Touched(tree, last, inl, tree', last', inl', {i})
  BY <1>1, InvFacts DEF Typed, Touched
<1>3. \A p : WorkChildren(tree', p) = WorkChildren(tree, p)
  BY SameShape
<1>4. last[i].deliv = "owed" => WorkChildren(tree, i) = {}
  BY DEF LoopInv, SpawnOK
<1>5. tree'[i].kind # "review" /\ ~Fresh(tree', i)
  BY SpawnFacts DEF Fresh, SamePlaces, SameItem
<1>6. DelegatesOnly(tree, last, inl, i, i) => DelegatesOnly(tree', last', inl', i, i)
  <2> SUFFICES ASSUME NEW d \in WorkChildren(tree', i), IsDelegate(tree, last, inl, i, d)
               PROVE  IsDelegate(tree', last', inl', i, d)
    BY <1>3 DEF DelegatesOnly
  <2>1. d \in WorkChildren(tree, i) /\ Places(tree)
    BY <1>3, InvFacts
  <2>2. d \in Work(tree) /\ d \in Id /\ d # i
    BY <2>1, ChildFacts
  <2> QED BY <1>1, <2>1, <2>2, DelegateStays
<1>7. ItemOK(tree', last', inl', i, i, i) /\ SettledOK(tree', last', i)
  <2>1. LockOK(tree', i)
    BY SpawnFacts DEF ItemOK, LockOK, SameItem
  <2>2. RetriedOK(tree', last', inl', i, i)
    BY <1>6, SpawnFacts DEF ItemOK, RetriedOK
  <2>3. OwedOK(tree', last', inl', i, i, i)
    BY <1>1, <1>3, <1>4 DEF OwedOK, DelegatesOnly
  <2>4. SettledOK(tree', last', i)
    BY <1>1, <1>3, <1>4, <1>5 DEF SettledOK, Startable, Fresh
  <2> QED BY <1>1, <1>5, <2>1, <2>2, <2>3, <2>4 DEF ItemOK, ReviewOK, EndedOK, HadSplit,
             PendingOK, BareOK
<1>8. BoundsOK'
  <2>1. /\ used' \in [{"messages", "setbacks", "todos", "delegates", "crashes"} -> Nat]
        /\ used'.setbacks \in Nat /\ used.setbacks \in Nat
        /\ used'.setbacks <= MaxSetbacks /\ used'.setbacks >= used.setbacks
    BY LoopAssumption DEF LoopInv, BoundsOK, Spend
  <2>2. \A j \in Id : j > created => tree'[j].kind = "none" /\ last'[j] = NoRound /\ inl'[j] = 0
    BY <1>1, SpawnFacts, IdFacts DEF LoopInv, BoundsOK, SamePlaces
  <2>3. \A j \in Id : inl'[j] <= used'.setbacks
    BY <2>1, InvFacts DEF LoopInv, BoundsOK
  <2> QED BY <2>1, <2>2, <2>3 DEF LoopInv, BoundsOK
<1>9. StepOK
  <2>1. \A j \in Work(tree) : tree'[j].status = tree[j].status
    BY InvFacts DEF SameItem
  <2> QED BY <2>1, KeptStep, InvFacts
<1> QED BY <1>2, <1>7, <1>8, <1>9, SpawnedOK

LEMMA InPlaceStep ==
  ASSUME LoopInv, pc = "spawn", pc' = "parent", UNCHANGED <<running, cur>>,
         last[cur.item].policy = "decompose", SpawnInPlace \/ SpawnDenied
  PROVE  LoopInv' /\ StepOK
<1>1. /\ Downgrade /\ UNCHANGED <<created, inl>>
      /\ used' = used \/ Spend("setbacks", MaxSetbacks)
      /\ tree' = tree \/ tree' = [tree EXCEPT ![cur.item].await = FALSE]
  BY DEF SpawnInPlace, SpawnDenied
<1>2. /\ tree' \in [Id -> Item] /\ SamePlaces(tree, tree')
      /\ \A j \in Id : SameItem(tree, tree', j)
  <2>1. CASE tree' = tree
    BY <2>1, InvFacts DEF SamePlaces, SameItem
  <2>2. CASE tree' = [tree EXCEPT ![cur.item].await = FALSE]
    BY <2>2, InvFacts, SpawnFacts, AwaitFields
  <2> QED BY <1>1, <2>1, <2>2
<1> QED BY <1>1, <1>2, DowngradeStep

\* New items under the round's item, which is open and has been told to wait.
LEMMA SplitStep ==
  ASSUME LoopInv, pc = "spawn", pc' = "parent", UNCHANGED <<running, cur, last, used>>,
         last[cur.item].policy \in {"decompose", "escalate"}, Mutable(tree, cur.item),
         created' \in Nat, created < created', created' <= MaxItems,
         tree' \in [Id -> Item],
         \A j \in Id : j \notin created + 1 .. created' =>
           /\ tree'[j].kind = tree[j].kind /\ tree'[j].parent = tree[j].parent
           /\ SameItem(tree, tree', j),
         \A c \in created + 1 .. created' :
           /\ tree'[c].kind \in {"implement", "explore", "review"}
           /\ tree'[c].parent = cur.item /\ tree'[c].status = "pending"
           /\ ~tree'[c].rollup /\ ~tree'[c].locked,
         inl' = ResetInline(tree)
  PROVE  LoopInv' /\ StepOK
<1> DEFINE i == cur.item
           N == created + 1 .. created'
<1>1. /\ i \in Work(tree) /\ i \in Id /\ i # NoItem /\ i \in Nat /\ i <= created
      /\ created \in Nat /\ tree[i].status \notin Terminal
      /\ ~IsDelegate(tree, last, inl, i, i) /\ tree[i].kind # "review"
      /\ TreeOK(tree, last, inl, i, i, {}) /\ ItemOK(tree, last, inl, i, i, i)
      /\ ~Fresh(tree, i)
  BY SpawnFacts
<1>2. /\ inl' \in [Id -> Nat] /\ inl'[i] = 0
      /\ \A j \in Id : j # i => inl'[j] = inl[j]
  BY <1>1, InvFacts DEF ResetInline
<1>3. /\ N \subseteq Id /\ created' \in N /\ i \notin N
      /\ \A c \in N : c > created /\ c \in Nat
      /\ \A j \in Id : j > created' => j > created /\ j \notin N
  BY <1>1, MaxItemsAssumption DEF Id
<1>4. Added(tree, last, inl, tree', inl', i, N, i)
  <2>1. \A j \in Id \ N : /\ tree'[j].kind = tree[j].kind /\ tree'[j].parent = tree[j].parent
                          /\ SameItem(tree, tree', j)
    OBVIOUS
  <2>2. \A c \in N : /\ tree'[c].kind \in LiveKind \ {"checklist"}
                     /\ tree'[c].kind = "goal" <=> i = NoItem
                     /\ tree'[c].parent = i /\ ~tree'[c].rollup /\ ~tree'[c].locked
                     /\ \/ tree'[c].status = "pending"
                        \/ tree'[c].status = "in_progress" /\ tree'[c].kind = "implement"
    BY <1>1 DEF LiveKind
  <2> HIDE DEF N
  <2>3. N \subseteq Id /\ (\A c \in N : c > created) /\ \A j \in Id : j # i => inl'[j] = inl[j]
    BY <1>2, <1>3
  <2> HIDE DEF i
  <2>4. cur.item = i /\ i \in Work(tree) \cup {NoItem}
        /\ ~IsDelegate(tree, last, inl, cur.item, i) /\ tree[i].kind # "review"
    BY <1>1 DEF i
  <2> QED BY <2>1, <2>2, <2>3, <2>4, GrownIsAdded
<1> HIDE DEF N
<1>5. /\ \A c \in Work(tree) : IsDelegate(tree, last, inl, i, c) =>
                               IsDelegate(tree', last, inl', i, c)
      /\ WorkChildren(tree', i) = WorkChildren(tree, i) \cup N
      /\ Work(tree') = Work(tree) \cup N
      /\ tree'[i].kind = tree[i].kind /\ SameItem(tree, tree', i)
  <2>1. /\ Work(tree') = Work(tree) \cup N
        /\ tree'[i].kind = tree[i].kind /\ SameItem(tree, tree', i)
    BY <1>1, <1>4 DEF Added
  <2> HIDE DEF i
  <2>2. i \in Work(tree) /\ Added(tree, last, inl, tree', inl', i, N, i)
    BY <1>1, <1>4
  <2> QED BY <2>1, <2>2, AddedShape
<1>6. ItemOK(tree', last, inl', i, NoItem, i) /\ SettledOK(tree', last, i)
  <2>1. /\ LockOK(tree', i) /\ ReviewOK(tree', last, inl', i, i) /\ EndedOK(tree', last, i)
    BY <1>1, <1>5 DEF ItemOK, LockOK, ReviewOK, EndedOK, SameItem
  <2>2. ~Fresh(tree', i)
    BY <1>1, <1>5 DEF Fresh, SameItem
  <2>3. OwedOK(tree', last, inl', i, NoItem, i)
    BY <1>1 DEF OwedOK
  <2>4. WorkChildren(tree', i) # {}
    BY <1>3, <1>5
  <2>5. ~Startable(tree', last, i)
    BY <2>2 DEF Startable, Fresh
  <2> QED BY <1>2, <2>1, <2>2, <2>3, <2>4, <2>5 DEF ItemOK, PendingOK, RetriedOK, BareOK, SettledOK
<1>7. TreeOK(tree', last, inl', i, NoItem, {})
  <2>1. Typed(tree', last, inl') /\ TreeOK(tree, last, inl, i, i, {})
    BY <1>1, <1>2, InvFacts DEF Typed
  <2>2. \A j \in Work(tree) \ {i} : NoItem = j => i = j
    BY InvFacts, IdFacts
  <2> DEFINE X == {}
  <2>3. TreeOK(tree, last, inl, i, i, X)
    BY <2>1
  <2> HIDE DEF i, X
  <2>4. TreeOK(tree', last, inl', i, NoItem, X)
    BY <1>4, <1>6, <2>1, <2>2, <2>3, AddedOK
  <2> QED BY <2>4 DEF X
<1>8. RunsOK(tree', last, inl', i, running)
  BY <1>5 DEF LoopInv, RunsOK
<1>9. CurOK'
  BY <1>1, <1>5 DEF LoopInv, CurOK
<1>10. BoundsOK'
  <2>1. \A j \in Id : j > created' => tree'[j].kind = "none" /\ last'[j] = NoRound /\ inl'[j] = 0
    <3> SUFFICES ASSUME NEW j \in Id, j > created'
                 PROVE  tree'[j].kind = "none" /\ last'[j] = NoRound /\ inl'[j] = 0
      OBVIOUS
    <3>1. j > created /\ j \notin N /\ j # i
      BY <1>1, <1>3, IdFacts
    <3>2. tree[j].kind = "none" /\ last[j] = NoRound /\ inl[j] = 0
      BY <3>1 DEF LoopInv, BoundsOK
    <3> QED BY <1>2, <3>1, <3>2 DEF N
  <2>2. \A j \in Id : inl'[j] <= used.setbacks
    <3>1. used.setbacks \in Nat /\ \A j \in Id : inl[j] <= used.setbacks
      BY DEF LoopInv, BoundsOK
    <3> QED BY <1>1, <1>2, <3>1
  <2> QED BY <2>1, <2>2 DEF LoopInv, BoundsOK
<1>11. StepOK
  BY <1>1, <1>4, AddedStep
<1>12. cur'.item = i /\ AtSpawn(pc', cur') = NoItem
  BY DEF AtSpawn
<1> QED BY <1>7, <1>8, <1>9, <1>10, <1>11, <1>12 DEF LoopInv, RoundOK, SpawnOK

LEMMA SpawnChildrenStep ==
  ASSUME LoopInv, pc = "spawn", pc' = "parent", UNCHANGED <<running, cur>>,
         last[cur.item].policy = "decompose", SpawnChildren
  PROVE  LoopInv' /\ StepOK
<1>1. PICK n \in 1 .. MaxSplit :
        /\ created + n <= MaxItems
        /\ \E kinds \in [created + 1 .. created + n -> {"implement", "explore"}] :
             tree' = [i \in Id |-> IF i \in DOMAIN kinds
                                   THEN NewItem(kinds[i], cur.item) ELSE tree[i]]
        /\ created' = created + n
  BY DEF SpawnChildren
<1>2. PICK kinds \in [created + 1 .. created' -> {"implement", "explore"}] :
        tree' = [i \in Id |-> IF i \in DOMAIN kinds THEN NewItem(kinds[i], cur.item) ELSE tree[i]]
  BY <1>1
<1>3. /\ created \in Nat /\ created' \in Nat /\ created < created' /\ created' <= MaxItems
      /\ cur.item \in Id /\ cur.item # NoItem
      /\ Mutable(tree, cur.item)
  BY <1>1, LoopAssumption, SpawnFacts DEF SpawnChildren, CanCreate
<1>4. \A c \in created + 1 .. created' :
        c \in Id /\ tree'[c] = NewItem(kinds[c], cur.item) /\ kinds[c] \in {"implement", "explore"}
  BY <1>2, <1>3, MaxItemsAssumption DEF Id
<1>5. \A c \in created + 1 .. created' :
        /\ tree'[c] \in Item /\ tree'[c].kind \in {"implement", "explore"}
        /\ tree'[c].parent = cur.item /\ tree'[c].status = "pending"
        /\ ~tree'[c].rollup /\ ~tree'[c].locked
  <2> SUFFICES ASSUME NEW c \in created + 1 .. created'
               PROVE  /\ tree'[c] \in Item /\ tree'[c].kind \in {"implement", "explore"}
                      /\ tree'[c].parent = cur.item /\ tree'[c].status = "pending"
                      /\ ~tree'[c].rollup /\ ~tree'[c].locked
    OBVIOUS
  <2>1. kinds[c] \in Kind
    BY <1>4 DEF Kind, LiveKind
  <2> QED BY <1>3, <1>4, <2>1, NewItemFields
<1>6. \A j \in Id : j \notin created + 1 .. created' => tree'[j] = tree[j]
  BY <1>2
<1>7. tree' \in [Id -> Item]
  <2>1. tree' = [j \in Id |-> tree'[j]]
    BY <1>2
  <2>2. \A j \in Id : tree'[j] \in Item
    BY <1>5, <1>6, InvFacts
  <2> QED BY <2>1, <2>2
<1>8. inl' = ResetInline(tree) /\ UNCHANGED <<last, used>>
  BY DEF SpawnChildren
<1>9. \A j \in Id : j \notin created + 1 .. created' =>
        /\ tree'[j].kind = tree[j].kind /\ tree'[j].parent = tree[j].parent
        /\ SameItem(tree, tree', j)
  BY <1>6 DEF SameItem
<1>10. last[cur.item].policy \in {"decompose", "escalate"}
  OBVIOUS
<1>11. \A c \in created + 1 .. created' :
         /\ tree'[c].kind \in {"implement", "explore", "review"}
         /\ tree'[c].parent = cur.item /\ tree'[c].status = "pending"
         /\ ~tree'[c].rollup /\ ~tree'[c].locked
  BY <1>5
<1> QED BY <1>3, <1>7, <1>8, <1>9, <1>10, <1>11, SplitStep

LEMMA SpawnReviewStep ==
  ASSUME LoopInv, pc = "spawn", pc' = "parent", UNCHANGED <<running, cur>>,
         last[cur.item].policy = "escalate", SpawnReview
  PROVE  LoopInv' /\ StepOK
<1> DEFINE i == cur.item
           n == created + 1
           y == [tree EXCEPT ![n] = NewItem("review", i)]
<1>1. /\ created' = n /\ created < MaxItems /\ inl' = ResetInline(tree)
      /\ UNCHANGED <<last, used>> /\ CanCreate(tree, i)
      /\ tree' = [tree EXCEPT ![n] = NewItem("review", i), ![i].await = TRUE]
  BY DEF SpawnReview
<1>2. /\ i \in Id /\ i # NoItem /\ i \in Nat /\ i <= created /\ created \in Nat
      /\ Mutable(tree, i) /\ n \in Id /\ n \in Nat /\ i # n
  <2>1. /\ i \in Id /\ i # NoItem /\ i \in Nat /\ i <= created /\ created \in Nat
    BY SpawnFacts
  <2> QED BY <1>1, <2>1, MaxItemsAssumption DEF CanCreate, Id
<1>3. n .. n = {n} /\ created + 1 .. created' = {n}
  BY <1>1, <1>2
<1>4. y \in [Id -> Item]
  <2>1. NewItem("review", i) \in Item
    BY <1>2, NewItemFields DEF Kind, LiveKind
  <2> QED BY <2>1, InvFacts
<1>5. tree' = [y EXCEPT ![i].await = TRUE]
  BY <1>1, <1>2, InvFacts
<1>6. y[n] = NewItem("review", i) /\ \A j \in Id : j # n => y[j] = tree[j]
  BY <1>2, InvFacts
<1> HIDE DEF y
<1>7. /\ tree' \in [Id -> Item] /\ SamePlaces(y, tree')
      /\ \A j \in Id : SameItem(y, tree', j)
  BY <1>2, <1>4, <1>5, AwaitFields
<1>8. /\ y[n].kind = "review" /\ y[n].parent = i /\ y[n].status = "pending"
      /\ ~y[n].rollup /\ ~y[n].locked
  BY <1>2, <1>6, NewItemFields DEF Kind, LiveKind
<1>9. /\ tree'[n].kind = "review" /\ tree'[n].parent = i /\ tree'[n].status = "pending"
      /\ ~tree'[n].rollup /\ ~tree'[n].locked
  BY <1>2, <1>7, <1>8 DEF SamePlaces, SameItem
<1>10. \A c \in created + 1 .. created' :
         /\ tree'[c].kind \in {"implement", "explore", "review"}
         /\ tree'[c].parent = cur.item /\ tree'[c].status = "pending"
         /\ ~tree'[c].rollup /\ ~tree'[c].locked
  BY <1>3, <1>9
<1>11. \A j \in Id : j \notin created + 1 .. created' =>
         /\ tree'[j].kind = tree[j].kind /\ tree'[j].parent = tree[j].parent
         /\ SameItem(tree, tree', j)
  BY <1>3, <1>6, <1>7 DEF SamePlaces, SameItem
<1>12. created' \in Nat /\ created < created' /\ created' <= MaxItems
  BY <1>1, <1>2, MaxItemsAssumption
<1>13. last[i].policy \in {"decompose", "escalate"}
  OBVIOUS
<1> QED BY <1>1, <1>2, <1>7, <1>10, <1>11, <1>12, <1>13, SplitStep

LEMMA SpawnSynthStep ==
  ASSUME LoopInv, pc = "spawn", pc' = "parent", UNCHANGED <<running, cur>>, SpawnSynth
  PROVE  LoopInv' /\ StepOK
<1> DEFINE i == cur.item
<1>1. /\ tree' = IF cur.synth THEN RequestRollup(tree, i) ELSE tree
      /\ inl' = IF cur.synth THEN ResetInline(tree) ELSE inl
      /\ UNCHANGED <<created, last, used>>
  BY DEF SpawnSynth
<1>2. /\ i \in Work(tree) /\ i \in Id /\ i # NoItem
      /\ ItemOK(tree, last, inl, i, i, i) /\ SettledOK(tree, last, i) /\ tree[i].kind # "review"
  BY SpawnFacts, InvFacts
<1>3. CASE ~cur.synth
  <2>1. tree' = tree /\ inl' = inl /\ last' = last
    BY <1>1, <1>3
  <2>2. Typed(tree', last', inl') /\ Touched(tree, last, inl, tree', last', inl', {i})
    BY <2>1, InvFacts DEF Typed, Touched, SamePlaces, SameItem
  <2>3. ItemOK(tree', last', inl', i, i, i) /\ SettledOK(tree', last', i)
    BY <1>2, <2>1
  <2>4. BoundsOK'
    BY <1>1, <2>1 DEF LoopInv, BoundsOK
  <2> QED BY <2>1, <2>2, <2>3, <2>4, SpawnedOK, SameTreeStep, InvFacts
<1>4. CASE cur.synth
  <2>1. tree' = RequestRollup(tree, i) /\ inl' = ResetInline(tree) /\ last' = last
    BY <1>1, <1>4
  <2>2. ~HadSplit(last, i)
    BY <1>4 DEF LoopInv, SpawnOK
  <2>3. /\ tree' \in [Id -> Item] /\ SamePlaces(tree, tree')
        /\ \A j \in Id : j # i => tree'[j] = tree[j]
        /\ tree'[i].rollup = TRUE
        /\ tree[i].status \in {"completed", "failed"} =>
             tree'[i].status = "pending" /\ tree'[i].locked = FALSE
        /\ tree[i].status \notin {"completed", "failed"} =>
             tree'[i].status = tree[i].status /\ tree'[i].locked = tree[i].locked
    BY <1>2, <2>1, InvFacts, RequestFields
  <2>4. /\ inl' \in [Id -> Nat] /\ (inl'[i] = inl[i] \/ inl'[i] = 0)
        /\ \A j \in Id : j # i => inl'[j] = inl[j]
    BY <1>2, <2>1, InvFacts DEF ResetInline
  <2>5. \A p : WorkChildren(tree', p) = WorkChildren(tree, p)
    BY <2>3, SameShape
  <2>6. Typed(tree', last', inl') /\ Touched(tree, last, inl, tree', last', inl', {i})
    BY <2>1, <2>3, <2>4, InvFacts DEF Typed, Touched, SameItem
  <2>7. DelegatesOnly(tree, last, inl, i, i) => DelegatesOnly(tree', last', inl', i, i)
    <3> SUFFICES ASSUME NEW d \in WorkChildren(tree', i), IsDelegate(tree, last, inl, i, d)
                 PROVE  IsDelegate(tree', last', inl', i, d)
      BY <2>5 DEF DelegatesOnly
    <3>1. d \in WorkChildren(tree, i) /\ Places(tree)
      BY <2>5, InvFacts
    <3>2. d \in Work(tree) /\ d \in Id /\ d # i
      BY <3>1, ChildFacts
    <3>3. SameItem(tree, tree', d) /\ last'[d] = last[d] /\ inl'[d] = inl[d]
      BY <2>1, <2>3, <2>4, <3>2 DEF SameItem
    <3> QED BY <2>3, <3>1, <3>2, <3>3, DelegateStays
  <2>8. ItemOK(tree', last', inl', i, i, i) /\ SettledOK(tree', last', i)
    <3>1. LockOK(tree', i)
      BY <1>2, <2>3 DEF ItemOK, LockOK, Terminal
    <3>2. ReviewOK(tree', last', inl', i, i)
      BY <1>2, <2>3 DEF ReviewOK, SamePlaces
    <3>3. OwedOK(tree', last', inl', i, i, i) /\ RetriedOK(tree', last', inl', i, i)
      BY <1>2, <2>1, <2>4, <2>7 DEF ItemOK, OwedOK, RetriedOK
    <3> QED BY <2>1, <2>2, <2>3, <3>1, <3>2, <3>3 DEF ItemOK, EndedOK, HadSplit, PendingOK, Fresh,
               BareOK, SettledOK, Startable
  <2>9. BoundsOK'
    <3>1. \A j \in Id : inl'[j] = inl[j] \/ inl'[j] = 0
      BY <2>4
    <3> QED BY <1>1, <2>1, <2>3, <3>1, SameBounds
  <2>10. StepOK
    <3>1. Present(tree') = Present(tree)
      BY <2>3, SameShape
    <3>2. \A j \in Id : tree'[j].status \in Terminal => tree'[j].status = tree[j].status
      BY <2>3 DEF Terminal
    <3>3. ASSUME NEW j \in Present(tree'), tree'[j].kind # "checklist",
                 tree'[j].status \in Terminal,
                 tree[j].status \in Terminal => Busy(tree, j) = {}
          PROVE  Busy(tree', j) \subseteq Reopening
      <4>1. Busy(tree, j) = {}
        BY <3>2, <3>3, WorkFacts
      <4>2. \A d \in WorkChildren(tree, j) : d \in Id /\ (d # i => tree'[d].status = tree[d].status)
        BY <2>3, WorkFacts
      <4>3. Busy(tree', j) \subseteq {i}
        BY <2>5, <4>1, <4>2 DEF Busy
      <4> QED BY <1>4, <4>3 DEF Reopening
    <3>4. ASSUME NEW j \in Present(tree), tree[j].status \notin Terminal
          PROVE  tree'[j].status # "completed"
      BY <3>2, <3>4, WorkFacts DEF Terminal
    <3>5. NoOpenWorkStep
      BY <3>3 DEF NoOpenWorkStep
    <3>6. NeverPassesStep
      BY <3>4 DEF NeverPassesStep
    <3> QED BY <3>5, <3>6 DEF StepOK
  <2> QED BY <2>6, <2>8, <2>9, <2>10, SpawnedOK
<1> QED BY <1>3, <1>4

LEMMA SpawnStep == ASSUME LoopInv, Spawn PROVE LoopInv' /\ StepOK
<1>1. pc = "spawn" /\ pc' = "parent" /\ UNCHANGED <<running, cur>>
  BY DEF Spawn
<1>2. CASE last[cur.item].policy = "decompose" /\ (SpawnInPlace \/ SpawnDenied)
  BY <1>1, <1>2, InPlaceStep
<1>3. CASE last[cur.item].policy = "decompose" /\ SpawnChildren
  BY <1>1, <1>3, SpawnChildrenStep
<1>4. CASE last[cur.item].policy = "escalate" /\ SpawnReview
  BY <1>1, <1>4, SpawnReviewStep
<1>5. CASE SpawnSynth
  BY <1>1, <1>5, SpawnSynthStep
<1> QED BY <1>2, <1>3, <1>4, <1>5 DEF Spawn

(***************************************************************************)
(* The steps that let go of the round                                      *)
(***************************************************************************)

LEMMA LetGoStep ==
  ASSUME LoopInv, UNCHANGED <<tree, created, last, inl, running, used>>, ToIdle \/ ToTick
  PROVE  LoopInv' /\ StepOK
<1>1. pc' \in {"idle", "tick"} /\ cur' = Idle
  BY DEF ToIdle, ToTick
<1> QED BY <1>1, LetGoSame, SameTreeStep, InvFacts

LEMMA OverdueKeeps ==
  ASSUME LoopInv, OverdueRollup, UNCHANGED <<created, last, inl, running, used>>
  PROVE  LoopInv' /\ StepOK
<1>1. /\ LoopInv' /\ SamePlaces(tree, tree')
      /\ \A j \in Work(tree) : tree'[j].status = tree[j].status
  BY OverdueStep
<1> QED BY <1>1, KeptStep, InvFacts

LEMMA FallbackKeeps ==
  ASSUME LoopInv, Fallback, UNCHANGED <<created, last, inl, running, used>>
  PROVE  LoopInv' /\ StepOK
<1>1. /\ LoopInv' /\ SamePlaces(tree, tree')
      /\ \A j \in Work(tree) : \/ tree'[j].status = tree[j].status
                               \/ tree[j].kind = "goal" /\ tree'[j].status = "pending"
  BY FallbackStep
<1> QED BY <1>1, KeptStep, InvFacts

LEMMA FinishKeeps ==
  ASSUME LoopInv, Finish, UNCHANGED <<created, last, inl, running, used>>
  PROVE  LoopInv' /\ StepOK
BY LetGoStep DEF Finish

LEMMA NoFocusStep == ASSUME LoopInv, NoFocus PROVE LoopInv' /\ StepOK
<1>1. UNCHANGED <<created, last, inl, running, used>>
  BY DEF NoFocus
<1>2. OverdueRollup \/ Fallback \/ Finish
  BY DEF NoFocus
<1> QED BY <1>1, <1>2, OverdueKeeps, FallbackKeeps, FinishKeeps

LEMMA ExitStep == ASSUME LoopInv, Exit PROVE LoopInv' /\ StepOK
<1>1. UNCHANGED <<created, last, inl, running, used>>
  BY DEF Exit
<1>2. \/ OverdueRollup \/ Fallback \/ Finish
      \/ (ToIdle \/ ToTick) /\ UNCHANGED tree
  BY DEF Exit
<1> QED BY <1>1, <1>2, OverdueKeeps, FallbackKeeps, FinishKeeps, LetGoStep

(***************************************************************************)
(* All steps                                                               *)
(***************************************************************************)

LEMMA InitOK == ASSUME Init PROVE LoopInv
<1>1. /\ tree = EmptyTree /\ created = 0 /\ running = {} /\ pc = "idle" /\ cur = Idle
      /\ last = [i \in Id |-> NoRound] /\ inl = [i \in Id |-> 0]
      /\ used = [messages |-> 0, setbacks |-> 0, todos |-> 0, delegates |-> 0, crashes |-> 0]
  BY DEF Init
<1>2. \A i \in Id : tree[i] = Absent /\ Absent.kind = "none" /\ Absent \in Item
  BY <1>1 DEF EmptyTree, Absent, NewItem, Item, Kind, LiveKind, TaskStatus
<1>3. Work(tree) = {} /\ Present(tree) = {}
  BY <1>2 DEF Work, Present, LiveKind
<1>4. Typed(tree, last, inl)
  <2>1. tree \in [Id -> Item]
    BY <1>1, <1>2 DEF EmptyTree
  <2>2. NoRound \in RoundRecord
    BY LimitsAssumption DEF NoRound, RoundRecord, Deliverable
  <2> QED BY <1>1, <2>1, <2>2 DEF Typed
<1>5. TreeOK(tree, last, inl, cur.item, AtSpawn(pc, cur), {})
  BY <1>3, <1>4 DEF TreeOK, Places
<1>6. CurOK
  BY <1>1 DEF CurOK, Idle
<1>7. BoundsOK
  BY <1>1, <1>2, MaxItemsAssumption, LoopAssumption DEF BoundsOK
<1> QED BY <1>1, <1>5, <1>6, <1>7 DEF LoopInv, RoundOK, SpawnOK, RunsOK

LEMMA StutterStep == ASSUME LoopInv, UNCHANGED vars PROVE LoopInv'
BY DEF vars, LoopInv, CurOK, BoundsOK

\* Each step keeps the invariant, opens no work under what has ended, and
\* completes no parent whose children have all failed.
LEMMA LoopStep == ASSUME LoopInv, Next PROVE LoopInv' /\ StepOK
<1>1. CASE Message
  BY <1>1, MessageStep
<1>2. CASE ContextDone
  BY <1>2, LetGoStep DEF ContextDone
<1>3. CASE FastAnswer
  BY <1>3, FastAnswerStep
<1>4. CASE TodoWrite
  BY <1>4, TodoWriteStep
<1>5. CASE Delegate
  BY <1>5, DelegateStep
<1>6. CASE NoFocus
  BY <1>6, NoFocusStep
<1>7. CASE AskForReview
  BY <1>7, LetGoStep DEF AskForReview
<1>8. CASE StartRound
  BY <1>8, StartRoundStep
<1>9. CASE Execute
  BY <1>9, ExecuteStep
<1>10. CASE Spawn
  BY <1>10, SpawnStep
<1>11. CASE SpawnError
  BY <1>11, LetGoStep DEF SpawnError
<1>12. CASE Parent
  BY <1>12, ParentStep
<1>13. CASE Exit
  BY <1>13, ExitStep
<1>14. CASE RoundError
  BY <1>14, LetGoStep DEF RoundError
<1>15. CASE RoundEnds
  BY <1>15, RoundEndsStep
<1>16. CASE \E i \in Id : RunEnds(i) \/ Approve(i)
  <2>1. PICK i \in Id : RunEnds(i) \/ Approve(i)
    BY <1>16
  <2> QED BY <2>1, RunEndsStep, ApproveStep
<1>17. CASE Crash
  BY <1>17, CrashStep
<1> QED BY <1>1, <1>2, <1>3, <1>4, <1>5, <1>6, <1>7, <1>8, <1>9, <1>10, <1>11, <1>12,
           <1>13, <1>14, <1>15, <1>16, <1>17 DEF Next, Turn

\* The tree of a session stays in order through rounds, workers that end late,
\* reviews, promotions and crashes.
THEOREM LoopInvariant == Spec => []LoopInv
<1>1. LoopInv /\ [Next]_vars => LoopInv'
  BY LoopStep, StutterStep
<1> QED BY <1>1, InitOK, PTL DEF Spec

\* No step ends an item over open work, and none opens work under an item that
\* has ended, but for the race of the property's comment.
THEOREM EndedStaysClosed == Spec => EndedGetsNoOpenWork
<1>1. LoopInv /\ [Next]_vars => [NoOpenWorkStep]_vars
  BY LoopStep DEF StepOK
<1> QED BY <1>1, LoopInvariant, PTL DEF Spec, EndedGetsNoOpenWork, NoOpenWorkStep

\* A parent whose children have all failed is never reported as completed
\* (RH-MUPS-04): verifyRollupArtifact, Settled and the promotion keep to it.
THEOREM FailedNeverPasses == Spec => AllFailedNeverPasses
<1>1. LoopInv /\ [Next]_vars => [NeverPassesStep]_vars
  BY LoopStep DEF StepOK
<1> QED BY <1>1, LoopInvariant, PTL DEF Spec, AllFailedNeverPasses, NeverPassesStep

(***************************************************************************)
(* What a round split has children                                         *)
(***************************************************************************)

SplitInv ==
  used.crashes = 0 =>
    \A i \in Work(tree) :
      last[i].policy = "decompose" =>
        WorkChildren(tree, i) # {} \/ (pc = "spawn" /\ cur.item = i)

NoCrash == used'.crashes = 0 => used.crashes = 0

\* Items stay where they are; a policy is given up, or is applied next.
LEMMA PlacedSplit ==
  ASSUME SplitInv, NoCrash, SamePlaces(tree, tree'),
         \A i \in Work(tree) : \/ last'[i] = last[i] \/ last'[i].policy # "decompose"
                               \/ pc' = "spawn" /\ cur'.item = i,
         pc = "spawn" => \/ UNCHANGED <<pc, cur>>
                         \/ last'[cur.item].policy # "decompose"
  PROVE  SplitInv'
<1>1. Work(tree') = Work(tree) /\ \A p : WorkChildren(tree', p) = WorkChildren(tree, p)
  BY SameShape
<1> QED BY <1>1 DEF SplitInv, NoCrash

\* New items; those that were there stay where they are.
LEMMA GrownSplit ==
  ASSUME LoopInv, SplitInv, NoCrash, UNCHANGED last,
         \A i \in Work(tree) : tree'[i].kind = tree[i].kind /\ tree'[i].parent = tree[i].parent,
         \A i \in Work(tree') : i \in Work(tree) \/ i > created,
         \/ pc # "spawn"
         \/ WorkChildren(tree', cur.item) # {}
  PROVE  SplitInv'
<1>1. \A i \in Work(tree) : i \in Work(tree') /\ WorkChildren(tree, i) \subseteq WorkChildren(tree', i)
  BY WorkFacts
<1>2. \A i \in Work(tree') \ Work(tree) : last[i].policy # "decompose"
  BY WorkFacts DEF LoopInv, BoundsOK, NoRound
<1> QED BY <1>1, <1>2 DEF SplitInv, NoCrash

\* One new item after the others.
LEMMA OneMoreSplit ==
  ASSUME LoopInv, SplitInv, NoCrash, UNCHANGED last, NEW x,
         tree' = [tree EXCEPT ![created + 1] = x], pc # "spawn"
  PROVE  SplitInv'
<1>1. \A i \in Work(tree) : i \in Id /\ i # created + 1
  BY InvFacts
<1>2. \A i \in Id : i # created + 1 => tree'[i] = tree[i]
  BY InvFacts
<1>3. ASSUME NEW i \in Work(tree') PROVE i \in Work(tree) \/ i > created
  <2>1. i \in Id /\ created \in Nat
    BY WorkFacts, InvFacts
  <2>2. CASE i = created + 1
    <3>1. created + 1 > created
      BY <2>1
    <3> QED BY <2>2, <3>1
  <2>3. CASE i # created + 1
    <3>1. tree'[i].kind \in LiveKind \ {"checklist"}
      BY <2>1, WorkFacts
    <3>2. tree[i].kind \in LiveKind \ {"checklist"}
      BY <1>2, <2>1, <2>3, <3>1
    <3> QED BY <2>1, <3>2, WorkFacts
  <2> QED BY <2>2, <2>3
<1> QED BY <1>1, <1>2, <1>3, GrownSplit

LEMMA SplitStays == ASSUME LoopInv, SplitInv, UNCHANGED <<tree, last>>, NoCrash,
                           pc # "spawn" \/ UNCHANGED <<pc, cur>> \/ last[cur.item].policy # "decompose"
                    PROVE  SplitInv'
<1>1. SamePlaces(tree, tree')
  BY DEF SamePlaces
<1> QED BY <1>1, PlacedSplit

LEMMA ReevaluatedSplit ==
  ASSUME SplitInv, NoCrash, RoundsKept, pc # "spawn" \/ UNCHANGED <<pc, cur>>
  PROVE  SplitInv'
<1>1. \A i \in Work(tree) : last'[i] = last[i] \/ last'[i].policy # "decompose"
  BY WorkFacts DEF RoundsKept
<1> QED BY <1>1, PlacedSplit DEF RoundsKept

LEMMA TurnsOverSplit ==
  ASSUME LoopInv, SplitInv, NoFocus \/ Exit PROVE SplitInv'
<1>1. /\ UNCHANGED <<created, last, inl, running, used>> /\ pc # "spawn" /\ NoCrash
      /\ OverdueRollup \/ Fallback \/ UNCHANGED tree
  BY DEF NoFocus, Exit, Finish, NoCrash
<1>2. SamePlaces(tree, tree')
  BY <1>1, OverdueStep, FallbackStep DEF SamePlaces
<1> QED BY <1>1, <1>2, PlacedSplit

LEMMA FastAnswerSplit == ASSUME LoopInv, SplitInv, FastAnswer PROVE SplitInv'
<1> DEFINE y == TryStatus(tree, cur.item, "in_progress")
<1>1. /\ pc = "observe" /\ tree' = TryStatus(y, cur.item, "completed") /\ used' = used
      /\ last' = [last EXCEPT ![cur.item] = [policy |-> "answer", deliv |-> "na", rr |-> 0]]
  BY DEF FastAnswer
<1>2. cur.item \in Id /\ tree \in [Id -> Item]
      /\ "in_progress" \in TaskStatus /\ "completed" \in TaskStatus
  BY <1>1, InvFacts DEF TaskStatus
<1>3. y \in [Id -> Item] /\ SamePlaces(tree, y)
  BY <1>2, TryFields
<1> HIDE DEF y
<1>4. SamePlaces(y, tree')
  BY <1>1, <1>2, <1>3, TryFields
<1>5. SamePlaces(tree, tree')
  BY <1>3, <1>4 DEF SamePlaces
<1>6. \A i \in Work(tree) : last'[i] = last[i] \/ last'[i].policy # "decompose"
  BY <1>1, <1>2, InvFacts
<1> QED BY <1>1, <1>5, <1>6, PlacedSplit DEF NoCrash

LEMMA RoundEndsSplit == ASSUME LoopInv, SplitInv, RoundEnds PROVE SplitInv'
<1>1. pc = "exec" /\ pc' = "spawn" /\ Mutable(tree, cur.item) /\ cur.item \in Work(tree)
  BY InvFacts DEF RoundEnds
<1>2. PICK daily \in BOOLEAN : \E w \in Outcomes(ContextOf(cur.item, daily)) :
        /\ cur' = [cur EXCEPT !.synth = w.outcome.synth]
        /\ last' = [last EXCEPT ![cur.item] =
                      [policy |-> w.outcome.policy, deliv |-> w.outcome.deliv,
                       rr |-> RollupRetries(w.outcome)]]
        /\ IF w.setback THEN Spend("setbacks", MaxSetbacks) ELSE UNCHANGED used
        /\ tree' = Recorded(w.outcome)
  BY DEF RoundEnds
<1>3. PICK w :
        /\ cur' = [cur EXCEPT !.synth = w.outcome.synth]
        /\ last' = [last EXCEPT ![cur.item] =
                      [policy |-> w.outcome.policy, deliv |-> w.outcome.deliv,
                       rr |-> RollupRetries(w.outcome)]]
        /\ IF w.setback THEN Spend("setbacks", MaxSetbacks) ELSE UNCHANGED used
        /\ tree' = Recorded(w.outcome)
  BY <1>2
<1>4. SamePlaces(tree, tree')
  BY <1>1, <1>3, RecordedFields
<1>5. cur'.item = cur.item
  BY <1>3 DEF LoopInv, CurOK
<1>6. \A i \in Work(tree) : last'[i] = last[i] \/ (pc' = "spawn" /\ cur'.item = i)
  BY <1>1, <1>3, <1>5, InvFacts
<1>7. NoCrash
  BY <1>3 DEF NoCrash, Spend, LoopInv, BoundsOK
<1> QED BY <1>1, <1>4, <1>6, <1>7, PlacedSplit

LEMMA SpawnSplit == ASSUME LoopInv, SplitInv, Spawn PROVE SplitInv'
<1> DEFINE i == cur.item
<1>1. pc = "spawn" /\ pc' = "parent" /\ UNCHANGED <<running, cur>>
  BY DEF Spawn
<1>2. i \in Work(tree) /\ i \in Id /\ i # NoItem /\ created \in Nat
  BY <1>1, SpawnFacts
<1>3. ASSUME SpawnInPlace \/ SpawnDenied
      PROVE  SplitInv'
  <2>1. /\ Downgrade
        /\ used' = used \/ Spend("setbacks", MaxSetbacks)
        /\ tree' = tree \/ tree' = [tree EXCEPT ![i].await = FALSE]
    BY <1>3 DEF SpawnInPlace, SpawnDenied
  <2>2. SamePlaces(tree, tree')
    <3>1. CASE tree' = tree
      BY <3>1 DEF SamePlaces
    <3>2. CASE tree' = [tree EXCEPT ![i].await = FALSE]
      BY <1>2, <3>2, InvFacts, AwaitFields
    <3> QED BY <2>1, <3>1, <3>2
  <2>3. last'[i].policy = "inline" /\ \A j \in Id : j # i => last'[j] = last[j]
    BY <1>2, <2>1, InvFacts DEF Downgrade, RoundRecord
  <2>4. NoCrash
    BY <2>1 DEF NoCrash, Spend, LoopInv, BoundsOK
  <2>5. \A j \in Work(tree) : last'[j] = last[j] \/ last'[j].policy # "decompose"
    BY <2>3, InvFacts
  <2> QED BY <2>2, <2>3, <2>4, <2>5, PlacedSplit
<1>4. ASSUME SpawnChildren
      PROVE  SplitInv'
  <2>1. PICK n \in 1 .. MaxSplit :
          /\ created + n <= MaxItems
          /\ \E kinds \in [created + 1 .. created + n -> {"implement", "explore"}] :
               tree' = [j \in Id |-> IF j \in DOMAIN kinds
                                     THEN NewItem(kinds[j], i) ELSE tree[j]]
    BY <1>4 DEF SpawnChildren
  <2>2. PICK kinds \in [created + 1 .. created + n -> {"implement", "explore"}] :
          tree' = [j \in Id |-> IF j \in DOMAIN kinds THEN NewItem(kinds[j], i) ELSE tree[j]]
    BY <2>1
  <2>3. n \in Nat /\ n >= 1 /\ \A j \in Work(tree) : j \in Id /\ j \in Nat /\ j <= created
    BY LoopAssumption, InvFacts
  <2>4. \A j \in Id : j \notin created + 1 .. created + n => tree'[j] = tree[j]
    BY <2>2
  <2>5. \A j \in Work(tree) : tree'[j] = tree[j]
    BY <1>2, <2>3, <2>4
  <2>6. \A j \in Work(tree') : j \in Work(tree) \/ j > created
    BY <1>2, <2>3, <2>4, WorkFacts
  <2>7. created + 1 \in WorkChildren(tree', i)
    <3>1. created + 1 \in Id /\ created + 1 \in created + 1 .. created + n
      BY <1>2, <2>1, <2>3, MaxItemsAssumption DEF Id
    <3>2. tree'[created + 1] = NewItem(kinds[created + 1], i)
          /\ kinds[created + 1] \in {"implement", "explore"}
      BY <2>2, <3>1
    <3>3. kinds[created + 1] \in Kind
      BY <3>2 DEF Kind, LiveKind
    <3>4. tree'[created + 1].kind \in {"implement", "explore"} /\ tree'[created + 1].parent = i
      BY <1>2, <3>2, <3>3, NewItemFields
    <3> QED BY <3>1, <3>4, WorkFacts DEF LiveKind
  <2>8. NoCrash /\ UNCHANGED last
    BY <1>4 DEF NoCrash, SpawnChildren
  <2> QED BY <2>5, <2>6, <2>7, <2>8, GrownSplit
<1>5. ASSUME SpawnReview, last[i].policy = "escalate"
      PROVE  SplitInv'
  <2>1. /\ created < MaxItems /\ UNCHANGED <<last, used>>
        /\ tree' = [tree EXCEPT ![created + 1] = NewItem("review", i), ![i].await = TRUE]
    BY <1>5 DEF SpawnReview
  <2>2. created + 1 \in Id /\ i # created + 1 /\ \A j \in Work(tree) : j \in Id /\ j # created + 1
    BY <1>2, <2>1, InvFacts, MaxItemsAssumption DEF Id
  <2>3. /\ \A j \in Id : j # created + 1 => tree'[j].kind = tree[j].kind
                                            /\ tree'[j].parent = tree[j].parent
        /\ tree'[created + 1] = NewItem("review", i)
    BY <1>2, <2>1, <2>2, InvFacts DEF Item
  <2>4. tree'[created + 1].kind = "review" /\ tree'[created + 1].parent = i
    BY <2>3 DEF NewItem
  <2>5. created + 1 \in WorkChildren(tree', i)
    BY <2>2, <2>4, WorkFacts DEF LiveKind
  <2>6. \A j \in Work(tree') : j \in Work(tree) \/ j > created
    BY <1>2, <2>3, WorkFacts
  <2>7. NoCrash
    BY <2>1 DEF NoCrash
  <2> QED BY <2>1, <2>2, <2>3, <2>5, <2>6, <2>7, GrownSplit
<1>6. ASSUME SpawnSynth, last[i].policy \notin {"decompose", "escalate"}
      PROVE  SplitInv'
  <2>1. (tree' = tree \/ tree' = RequestRollup(tree, i)) /\ UNCHANGED <<last, used>>
    BY <1>6 DEF SpawnSynth
  <2>2. SamePlaces(tree, tree')
    <3>1. CASE tree' = tree
      BY <3>1 DEF SamePlaces
    <3>2. CASE tree' = RequestRollup(tree, i)
      BY <1>2, <3>2, InvFacts, RequestFields
    <3> QED BY <2>1, <3>1, <3>2
  <2>3. NoCrash /\ last'[cur.item].policy # "decompose"
    BY <1>6, <2>1 DEF NoCrash
  <2>4. \A j \in Work(tree) : last'[j] = last[j]
    BY <2>1
  <2> QED BY <2>2, <2>3, <2>4, PlacedSplit
<1> QED BY <1>3, <1>4, <1>5, <1>6 DEF Spawn

LEMMA NextSplit == ASSUME LoopInv, SplitInv, Next PROVE SplitInv'
<1>1. CASE Message
  <2>1. UNCHANGED last /\ pc = "idle" /\ NoCrash
    BY <1>1 DEF Message, Spend, NoCrash, LoopInv, BoundsOK
  <2>2. UNCHANGED tree \/ tree' = [tree EXCEPT ![created + 1] = NewItem("goal", NoItem)]
    BY <1>1 DEF Message
  <2> QED BY <2>1, <2>2, SplitStays, OneMoreSplit
<1>2. CASE ContextDone \/ AskForReview \/ Execute \/ SpawnError \/ RoundError
  <2>1. UNCHANGED <<tree, last, used>> /\ (pc # "spawn" \/ last[cur.item].policy # "decompose")
    BY <1>2 DEF ContextDone, AskForReview, Execute, SpawnError, RoundError
  <2> QED BY <2>1, SplitStays DEF NoCrash
<1>3. CASE TodoWrite
  <2>1. PICK p : /\ tree' = WithChecklist(tree, p, [i \in {created + 1} |-> "pending"])
                 /\ UNCHANGED last /\ pc = "exec" /\ NoCrash
    BY <1>3 DEF TodoWrite, Spend, NoCrash, LoopInv, BoundsOK
  <2>2. \A i \in Work(tree) : i \in Id /\ i # created + 1 /\ tree[i].kind # "checklist"
    BY InvFacts DEF Work
  <2>3. \A i \in Work(tree) : tree'[i] = tree[i]
    BY <2>1, <2>2 DEF WithChecklist, Checklist
  <2>4. Work(tree') \subseteq Work(tree)
    BY <2>1 DEF WithChecklist, Checklist, Work, Present, Entry, NewItem, Gone, LiveKind
  <2> QED BY <2>1, <2>3, <2>4, GrownSplit
<1>4. CASE Delegate
  <2>1. PICK g : /\ tree' = [tree EXCEPT ![created + 1] =
                               [NewItem("implement", g) EXCEPT !.status = "in_progress"]]
                 /\ UNCHANGED last /\ pc = "exec" /\ NoCrash
    BY <1>4 DEF Delegate, Spend, NoCrash, LoopInv, BoundsOK
  <2> QED BY <2>1, OneMoreSplit
<1>5. CASE StartRound
  <2>1. PICK i \in PipelineFocus(tree) : tree' = [tree EXCEPT ![i].await = FALSE]
    BY <1>5 DEF StartRound
  <2>2. i \in Id
    BY InFocus, InvFacts
  <2>3. SamePlaces(tree, tree')
    BY <2>1, <2>2, InvFacts, AwaitFields
  <2>4. pc # "spawn" /\ UNCHANGED last /\ NoCrash
    BY <1>5 DEF StartRound, NoCrash
  <2> QED BY <2>3, <2>4, PlacedSplit
<1>6. CASE Parent
  <2>1. RoundsKept /\ pc # "spawn" /\ NoCrash
    BY <1>6, ParentStep DEF Parent, NoCrash
  <2> QED BY <2>1, ReevaluatedSplit
<1>7. CASE \E i \in Id : RunEnds(i) \/ Approve(i)
  <2>1. PICK i \in Id : RunEnds(i) \/ Approve(i)
    BY <1>7
  <2>2. UNCHANGED <<pc, cur>> /\ NoCrash
    BY <2>1 DEF RunEnds, Approve, NoCrash
  <2>3. RoundsKept
    BY <2>1, RunEndsStep, ApproveStep
  <2> QED BY <2>2, <2>3, ReevaluatedSplit
<1>8. CASE Crash
  <2>1. used'.crashes # 0
    BY <1>8 DEF Crash, Spend, LoopInv, BoundsOK
  <2> QED BY <2>1 DEF SplitInv
<1>9. CASE FastAnswer \/ NoFocus \/ Exit \/ RoundEnds \/ Spawn
  BY <1>9, FastAnswerSplit, TurnsOverSplit, RoundEndsSplit, SpawnSplit
<1> QED BY <1>1, <1>2, <1>3, <1>4, <1>5, <1>6, <1>7, <1>8, <1>9 DEF Next, Turn

\* An open item whose last round split it has children to wait for: they are
\* created by the next step of the loop, unless a crash comes between, and no
\* item of a tree is ever taken away.
THEOREM SplitIsWaitedFor == Spec => []SplitHasChildren
<1>1. Init => SplitInv
  BY DEF Init, SplitInv, NoRound, Work, Present
<1>2. LoopInv /\ SplitInv /\ [Next]_vars => SplitInv'
  <2>1. LoopInv /\ SplitInv /\ UNCHANGED vars => SplitInv'
    BY DEF vars, SplitInv
  <2> QED BY <2>1, NextSplit
<1>3. SplitInv => SplitHasChildren
  <2> SUFFICES ASSUME SplitInv, pc \in {"idle", "tick"}, used.crashes = 0,
                      NEW i \in Open(tree), last[i].policy = "decompose"
               PROVE  WorkChildren(tree, i) # {}
    BY DEF SplitHasChildren
  <2>1. i \in Work(tree)
    BY DEF Open, Work
  <2> QED BY <2>1 DEF SplitInv
<1> QED BY <1>1, <1>2, <1>3, LoopInvariant, PTL DEF Spec
=============================================================================
