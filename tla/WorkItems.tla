----------------------------- MODULE WorkItems -----------------------------
(***************************************************************************)
(* workmodel: the work items of one session, and what the methods of       *)
(* WorkTree compute from them and do to them.  A tree is a function of the  *)
(* item ids; ids are given out in order and never reused, so an id is also  *)
(* an age, and a parent is older than its children.  Titles, directives,   *)
(* owners, uncertainty and time are left out.  Only checklist entries are   *)
(* ephemeral: no caller of Create asks for an ephemeral item.               *)
(***************************************************************************)
EXTENDS Naturals, FiniteSets

CONSTANTS
  MaxItems,   \* bound: items one session ever creates
  MaxDepth    \* WorkTree.maxDecomposeDepth

ASSUME MaxItemsAssumption == MaxItems \in Nat \ {0}
ASSUME MaxDepthAssumption == MaxDepth \in Nat

Id == 1 .. MaxItems

\* The parent of a root, and the blocker no item of the tree has the id of.
NoItem == 0

\* A review is a verify item with the human review title.  "erased" is the
\* id of a checklist entry that is gone, "none" any other id not in use.
LiveKind == {"goal", "implement", "explore", "review", "checklist"}
Kind == LiveKind \cup {"none", "erased"}

TaskStatus == {"pending", "in_progress", "completed", "failed", "cancelled"}
Terminal == {"completed", "failed", "cancelled"}

Item == [kind : Kind, parent : Id \cup {NoItem}, status : TaskStatus,
         locked : BOOLEAN, rollup : BOOLEAN, await : BOOLEAN,
         blockedBy : SUBSET (Id \cup {NoItem})]

\* rollup is NeedsRollup; await says RoundPhase is RoundPhaseAwaitChild.
NewItem(k, p) ==
  [kind |-> k, parent |-> p, status |-> "pending", locked |-> FALSE,
   rollup |-> FALSE, await |-> FALSE, blockedBy |-> {}]

Absent == NewItem("none", NoItem)
Gone(item) ==
  NewItem(IF item.kind \in {"checklist", "erased"} THEN "erased" ELSE "none", NoItem)

EmptyTree == [i \in Id |-> Absent]

Present(t) == {i \in Id : t[i].kind \in LiveKind}

\* What Save writes: everything but the ephemeral entries.
Persistent(t) == [i \in Id |-> IF t[i].kind = "checklist" THEN Gone(t[i]) ELSE t[i]]

Children(t, p) == {i \in Present(t) : t[i].parent = p}
WorkChildren(t, p) == {i \in Children(t, p) : t[i].kind # "checklist"}
Checklist(t, p) == {i \in Children(t, p) : t[i].kind = "checklist"}
Open(t) ==
  {i \in Present(t) : t[i].kind # "checklist" /\ t[i].status \notin Terminal}

\* depthLocked: the length of the chain of ancestors.
Depth(t) ==
  LET d[i \in Id] == IF t[i].parent \in Present(t) THEN d[t[i].parent] + 1 ELSE 0
  IN  d

\* collectSubtreeLocked: the smallest set with i that is closed under children.
Subtree(t, i) ==
  {j \in Present(t) :
     \A S \in SUBSET Id :
       i \in S /\ (\A c \in Present(t) : t[c].parent \in S => c \in S) => j \in S}

\* wouldCycleLocked: the ids a walk of the blockers meets from b.
Reach(t, b) ==
  {j \in Id \cup {NoItem} :
     \A S \in SUBSET (Id \cup {NoItem}) :
       b \in S /\ (\A i \in S \cap Id : t[i].blockedBy \subseteq S) => j \in S}

Mutable(t, i) == i \in Present(t) /\ ~t[i].locked

CanCreate(t, p) == p = NoItem \/ (Mutable(t, p) /\ Depth(t)[p] + 1 <= MaxDepth)

IsLegalTransition(from, to) ==
  \/ from = to
  \/ from = "pending" /\ to \in {"in_progress", "cancelled"}
  \/ from = "in_progress" /\ to \in Terminal

\* UpdateStatus: a terminal status locks the item.
CanSetStatus(t, i, s) ==
  /\ i \in Present(t)
  /\ IsLegalTransition(t[i].status, s)
  /\ t[i].locked => s = t[i].status
WithStatusMutant(t, i, s) == [t EXCEPT ![i].status = s]
WithStatus(t, i, s) ==
  [t EXCEPT ![i].status = s, ![i].locked = t[i].locked \/ s \in Terminal]

\* The callers that go on whatever UpdateStatus returned.
TryStatus(t, i, s) == IF CanSetStatus(t, i, s) THEN WithStatus(t, i, s) ELSE t

\* The mutants of these three forget the lock, the rollup and the waiters.
CanReopenMutant(t, i) == t[i].status \in {"completed", "failed"}
CanReopen(t, i) == t[i].rollup /\ t[i].status \in {"completed", "failed"}
WithReopened(t, i) ==
  [t EXCEPT ![i].status = "pending", ![i].locked = FALSE, ![i].await = FALSE]
WithRollup(t, i, v) == [t EXCEPT ![i].rollup = v]

\* Remove: the items of S go, and nobody waits for them any longer.
WithoutMutant(t, S) == [i \in Id |-> IF i \in S THEN Gone(t[i]) ELSE t[i]]
Without(t, S) ==
  [i \in Id |-> IF i \in S THEN Gone(t[i])
                ELSE [t[i] EXCEPT !.blockedBy = @ \ S]]

\* UpsertChecklist: the old entries go, whoever waits for them; new[i] is the
\* status of the new entry i, which is terminal without being locked.
Entry(p, s) == [NewItem("checklist", p) EXCEPT !.status = s]
WithChecklist(t, p, new) ==
  [i \in Id |->
     IF i \in DOMAIN new THEN Entry(p, new[i])
     ELSE IF i \in Checklist(t, p) THEN Gone(t[i]) ELSE t[i]]

DepsSatisfied(t, i) ==
  \A b \in t[i].blockedBy : b \in Present(t) /\ t[b].status = "completed"

\* GetReadyItems.
Ready(t) ==
  {i \in Present(t) :
     /\ t[i].status = "pending" \/ (t[i].status = "in_progress" /\ t[i].rollup)
     /\ t[i].kind # "checklist"
     /\ DepsSatisfied(t, i)}

KindRank(k) ==
  CASE k = "review" -> 0 [] k = "implement" -> 1 [] k = "explore" -> 2
    [] OTHER -> 5

\* GetFocus sorts by rollup, then kind, then uncertainty, then age; the
\* uncertainty is left out, so every item of the best class may be the focus.
GetFocus(t) ==
  {i \in Ready(t) :
     \A j \in Ready(t) :
       \/ t[i].rollup /\ ~t[j].rollup
       \/ /\ t[i].rollup = t[j].rollup
          /\ KindRank(t[i].kind) <= KindRank(t[j].kind)}
============================================================================
