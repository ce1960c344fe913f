------------------------------ MODULE WorkTree ------------------------------
(***************************************************************************)
(* workmodel.WorkTree: every method that changes the tree of one session,   *)
(* one action each, since each holds the tree's mutex from end to end; the  *)
(* file behind it, which every method writes and whose errors it ignores;   *)
(* and a restart, after which the tree is what the file holds.  Who calls a *)
(* method, and with what, is left open.                                     *)
(***************************************************************************)
EXTENDS WorkItems

CONSTANTS
  MaxBlockers,    \* bound: blockers one item is given
  MaxFailedSaves  \* bound: writes of the file that fail

ASSUME BoundsAssumption == MaxBlockers \in Nat /\ MaxFailedSaves \in Nat

VARIABLES
  tree,      \* the items in memory
  created,   \* how many ids have been given out
  disk,      \* the items the session's file holds
  failed     \* how many writes have failed

vars == <<tree, created, disk, failed>>

TypeOK ==
  /\ tree \in [Id -> Item]
  /\ created \in 0 .. MaxItems
  /\ disk \in [Id -> Item]
  /\ failed \in 0 .. MaxFailedSaves
  /\ \A i \in Id : tree[i].kind # "none" \/ disk[i].kind # "none" => i <= created

Init ==
  /\ tree = EmptyTree
  /\ created = 0
  /\ disk = EmptyTree
  /\ failed = 0

\* persistLocked: the write may fail, and nobody is told.
Persist ==
  \/ disk' = Persistent(tree') /\ UNCHANGED failed
  \/ failed < MaxFailedSaves /\ failed' = failed + 1 /\ UNCHANGED disk

Add(k, p) ==
  /\ created < MaxItems
  /\ tree' = [tree EXCEPT ![created + 1] = NewItem(k, p)]
  /\ created' = created + 1
  /\ Persist

RootGoals == {i \in Present(tree) : tree[i].kind = "goal" /\ tree[i].parent = NoItem}

\* An unlocked root goal only gets the new directive.
EnsureGoal ==
  /\ \A i \in RootGoals : tree[i].locked
  /\ Add("goal", NoItem)

\* Children are created under work items only: the callers pass the focus, the
\* item of a round, the goal, or an item they have just created.
Create(k, p) ==
  /\ CanCreate(tree, p)
  /\ p # NoItem => tree[p].kind # "checklist"
  /\ Add(k, p)

UpsertChecklist(p, n) ==
  /\ Mutable(tree, p) /\ tree[p].kind # "checklist"
  /\ created + n <= MaxItems
  /\ \E new \in [created + 1 .. created + n -> {"pending", "in_progress", "completed"}] :
       tree' = WithChecklist(tree, p, new)
  /\ created' = created + n
  /\ Persist

\* Each entry gets an implement item beside it with the same blockers; the
\* parent is not asked whether it is locked, nor how deep it is.
PromoteChecklist(p) ==
  LET entries == Checklist(tree, p)
      n == Cardinality(entries)
  IN  /\ p \in Present(tree) /\ tree[p].kind # "checklist"
      /\ n > 0 /\ created + n <= MaxItems
      /\ \E from \in [created + 1 .. created + n -> entries] :
           /\ \A i, j \in DOMAIN from : from[i] = from[j] => i = j
           /\ tree' = [i \in Id |->
                IF i \in DOMAIN from
                THEN [NewItem("implement", p)
                        EXCEPT !.blockedBy = tree[from[i]].blockedBy]
                ELSE tree[i]]
      /\ created' = created + n
      /\ Persist

UpdateStatus(i, s) ==
  /\ CanSetStatus(tree, i, s)
  /\ tree' = WithStatus(tree, i, s)
  /\ UNCHANGED created
  /\ Persist

\* The blocker is an item of the tree: any other name is accepted by the code
\* too, and can only make the item wait for ever.  The mutant looks only at
\* the new blocker's own blockers.
AddDependencyMutant(i, b) ==
  /\ Mutable(tree, i)
  /\ b \in Present(tree)
  /\ Cardinality(tree[i].blockedBy) < MaxBlockers
  /\ i # b /\ i \notin tree[b].blockedBy
  /\ tree' = [tree EXCEPT ![i].blockedBy = @ \cup {b}]
  /\ UNCHANGED created
  /\ Persist
AddDependency(i, b) ==
  /\ Mutable(tree, i)
  /\ b \in Present(tree)
  /\ Cardinality(tree[i].blockedBy) < MaxBlockers
  /\ i \notin Reach(tree, b)
  /\ tree' = [tree EXCEPT ![i].blockedBy = @ \cup {b}]
  /\ UNCHANGED created
  /\ Persist

RemoveMutant(i) ==
  /\ Mutable(tree, i)
  /\ tree' = Without(tree, {i})
  /\ UNCHANGED created
  /\ Persist
Remove(i) ==
  /\ Mutable(tree, i)
  /\ tree' = Without(tree, Subtree(tree, i))
  /\ UNCHANGED created
  /\ Persist

\* The item may be locked.  A rollup is asked for on a parent; that a childless
\* item asks for one after its own round is left to SessionLoop.
SetNeedsRollup(i, v) ==
  /\ i \in Present(tree)
  /\ v => Children(tree, i) # {}
  /\ tree' = WithRollup(tree, i, v)
  /\ UNCHANGED created
  /\ Persist

ReopenForRollup(i) ==
  /\ i \in Present(tree)
  /\ CanReopen(tree, i)
  /\ tree' = WithReopened(tree, i)
  /\ UNCHANGED created
  /\ Persist

\* The process ends; ensureSessionLocked reads the file.
Restart ==
  /\ tree' = disk
  /\ UNCHANGED <<created, disk, failed>>

Next ==
  \/ EnsureGoal
  \/ \E p \in Id \cup {NoItem} : Create("implement", p)
  \/ \E p \in Id : \E n \in 0 .. 1 : UpsertChecklist(p, n)
  \/ \E p \in Id : PromoteChecklist(p)
  \/ \E i \in Id : \E s \in TaskStatus : UpdateStatus(i, s)
  \/ \E i, b \in Id : AddDependency(i, b)
  \/ \E i \in Id : Remove(i) \/ ReopenForRollup(i)
  \/ \E i \in Id : \E v \in BOOLEAN : SetNeedsRollup(i, v)
  \/ Restart

Spec == Init /\ [][Next]_vars

(***************************************************************************)
(* Properties                                                              *)
(***************************************************************************)

\* A work item is locked exactly while its status is terminal, through every
\* order of status changes, rollups, reopenings and restarts: a locked open item
\* could never be worked on, an unlocked terminal one would take new rounds.
LockedOf(t) ==
  \A i \in Present(t) :
    t[i].kind # "checklist" => (t[i].locked <=> t[i].status \in Terminal)
LockedIffTerminal == LockedOf(tree)

\* Nobody waits, through however many others, for itself: AddDependency's walk
\* keeps the edges free of cycles while items come and go.
AcyclicOf(t) ==
  \A S \in SUBSET Id :
    S # {} => \E i \in S : t[i].blockedBy \cap S = {}
Acyclic == AcyclicOf(tree)

\* Every item has its parent, or is a root, after removals and restarts: no
\* item is left outside every subtree.
RootedOf(t) ==
  \A i \in Present(t) :
    t[i].parent # NoItem =>
      t[i].parent \in Present(t) /\ t[t[i].parent].kind # "checklist"
Rooted == RootedOf(tree)

\* No item waits for a work item that was removed, even if it is only written
\* to disk by a later save: it would never be ready again.
BlockersOf(t) ==
  \A i \in Present(t) : \A b \in t[i].blockedBy \ {NoItem} :
    b \in Present(t) \/ t[b].kind = "erased"
NoLostBlocker == BlockersOf(tree)

\* A work item that has ended begins again only as a rollup that was asked for,
\* and a cancelled one never: whatever callers race for its status.
EndedStaysEnded ==
  [][\A i \in Present(tree) \cap Present(tree') :
       tree[i].kind # "checklist" /\ tree[i].status \in Terminal
         => \/ tree'[i].status = tree[i].status
            \/ tree[i].rollup /\ tree[i].status # "cancelled"
            \/ Restart]_vars
============================================================================
