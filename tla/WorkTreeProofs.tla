--------------------------- MODULE WorkTreeProofs ---------------------------
(***************************************************************************)
(* The invariants of WorkTree for every number of items and every depth.    *)
(* What the memory holds and what the file holds are good trees all along;  *)
(* the file has to be, because a restart turns it into the memory.  Each    *)
(* operator of WorkItems is shown to keep a tree good, and each action      *)
(* applies one of them.                                                     *)
(***************************************************************************)
EXTENDS WorkTree, FiniteSetTheorems, TLAPS

\* A good tree with c ids given out.
TreeType(t, c) ==
  /\ t \in [Id -> Item]
  /\ \A i \in Id : t[i].kind # "none" => i <= c
  /\ \A i \in Id : i \notin Present(t) => t[i].blockedBy = {}
Good(t, c) ==
  /\ TreeType(t, c)
  /\ LockedOf(t)
  /\ AcyclicOf(t)
  /\ RootedOf(t)
  /\ BlockersOf(t)

IInv ==
  /\ created \in 0 .. MaxItems
  /\ failed \in 0 .. MaxFailedSaves
  /\ Good(tree, created)
  /\ Good(disk, created)

\* What Gone leaves of an item.
LEMMA GoneItem ==
  ASSUME NEW item \in Item
  PROVE  /\ Gone(item) \in Item
         /\ Gone(item).kind \in {"none", "erased"}
         /\ item.kind = "none" => Gone(item).kind = "none"
         /\ item.kind = "checklist" => Gone(item).kind = "erased"
         /\ item.kind = "erased" => Gone(item).kind = "erased"
         /\ Gone(item).blockedBy = {}
BY DEF Gone, Absent, NewItem, Item, Kind, LiveKind, TaskStatus, NoItem

\* Fewer edges make no new cycle.
LEMMA FewerEdges ==
  ASSUME NEW t, NEW u, AcyclicOf(t),
         \A i \in Id : u[i].blockedBy \subseteq t[i].blockedBy
  PROVE  AcyclicOf(u)
BY DEF AcyclicOf

\* An edge to a blocker whose walk does not reach the item closes no cycle: the
\* part of a cycle inside the set the walk stays in would be one already.
LEMMA NewEdge ==
  ASSUME NEW t, NEW u, NEW i \in Id, NEW b \in Id, AcyclicOf(t),
         i \notin Reach(t, b),
         \A j \in Id : u[j].blockedBy \subseteq
                         t[j].blockedBy \cup (IF j = i THEN {b} ELSE {})
  PROVE  AcyclicOf(u)
<1>1. PICK R \in SUBSET (Id \cup {NoItem}) :
        /\ b \in R /\ i \notin R
        /\ \A j \in R \cap Id : t[j].blockedBy \subseteq R
  BY DEF Reach
<1>2. SUFFICES ASSUME NEW S \in SUBSET Id, S # {},
                      \A j \in S : u[j].blockedBy \cap S # {}
               PROVE  FALSE
  BY DEF AcyclicOf
<1>3. CASE b \notin S
  <2>1. \A j \in S : t[j].blockedBy \cap S # {}
    BY <1>2, <1>3
  <2>2. QED BY <2>1, <1>2 DEF AcyclicOf
<1>4. CASE b \in S
  <2>1. S \cap R # {} /\ S \cap R \in SUBSET Id
    BY <1>1, <1>4
  <2>2. \A j \in S \cap R : t[j].blockedBy \cap (S \cap R) # {}
    <3>1. TAKE j \in S \cap R
    <3>2. j # i /\ t[j].blockedBy \subseteq R
      BY <1>1
    <3>3. t[j].blockedBy \cap S # {}
      BY <1>2, <3>2
    <3>4. QED BY <3>2, <3>3
  <2>3. QED BY <2>1, <2>2 DEF AcyclicOf
<1>5. QED BY <1>3, <1>4

\* Checklist entries may go: nobody has one as its parent, and who waits for one
\* is allowed to.
LEMMA ErasedGood ==
  ASSUME NEW t, NEW c \in Nat, Good(t, c),
         NEW C \in SUBSET Id, \A i \in C : t[i].kind = "checklist",
         NEW u, u = [i \in Id |-> IF i \in C THEN Gone(t[i]) ELSE t[i]]
  PROVE  Good(u, c)
<1>1. /\ t \in [Id -> Item]
      /\ \A i \in Id : u[i] = IF i \in C THEN Gone(t[i]) ELSE t[i]
  BY DEF Good, TreeType
<1>2. \A i \in Id :
        /\ u[i] \in Item
        /\ u[i].kind # "none" => t[i].kind # "none"
        /\ u[i].blockedBy \subseteq t[i].blockedBy
        /\ i \in Present(u) <=> i \in Present(t) /\ i \notin C
        /\ i \in C \/ t[i].kind = "erased" => u[i].kind = "erased"
        /\ i \in Present(u) => u[i] = t[i]
  BY <1>1, GoneItem DEF Present, LiveKind
<1>3. TreeType(u, c)
  <2>1. \A i \in C : u[i].blockedBy = {}
    BY <1>1, GoneItem
  <2>2. \A i \in Id \ C : u[i] = t[i] /\ (i \in Present(u) <=> i \in Present(t))
    BY <1>1, <1>2
  <2>3. \A i \in Id : i \notin Present(t) => t[i].blockedBy = {}
    BY DEF Good, TreeType
  <2>4. \A i \in Id : i \notin Present(u) => u[i].blockedBy = {}
    BY <2>1, <2>2, <2>3
  <2>5. u \in [Id -> Item]
    BY <1>1, <1>2
  <2>6. QED BY <1>2, <2>4, <2>5 DEF Good, TreeType
<1>4. AcyclicOf(u)
  BY <1>2, FewerEdges DEF Good
<1>5. LockedOf(u)
  BY <1>2 DEF Good, LockedOf, Present
<1>6. RootedOf(u)
  <2>1. SUFFICES ASSUME NEW i \in Present(u), u[i].parent # NoItem
                 PROVE  u[i].parent \in Present(u) /\ u[u[i].parent].kind # "checklist"
    BY DEF RootedOf
  <2>2. i \in Id /\ i \in Present(t) /\ u[i] = t[i]
    BY <1>2 DEF Present
  <2>3. t[i].parent \in Present(t) /\ t[t[i].parent].kind # "checklist"
    BY <2>1, <2>2 DEF Good, RootedOf
  <2>4. t[i].parent \in Id
    BY <2>3 DEF Present
  <2>5. QED BY <1>2, <2>2, <2>3, <2>4
<1>7. BlockersOf(u)
  <2>1. SUFFICES ASSUME NEW i \in Present(u), NEW b \in u[i].blockedBy \ {NoItem}
                 PROVE  b \in Present(u) \/ u[b].kind = "erased"
    BY DEF BlockersOf
  <2>2. i \in Id /\ i \in Present(t) /\ u[i] = t[i] /\ b \in Id
    BY <1>1, <1>2 DEF Present, Item
  <2>3. b \in Present(t) \/ t[b].kind = "erased"
    BY <2>2, <2>1 DEF Good, BlockersOf
  <2>4. QED BY <1>2, <2>2, <2>3
<1>8. QED BY <1>3, <1>4, <1>5, <1>6, <1>7 DEF Good

\* What is written to the file is good when the memory is.
LEMMA PersistentGood ==
  ASSUME NEW t, NEW c \in Nat, Good(t, c)
  PROVE  Good(Persistent(t), c)
<1> DEFINE C == {i \in Id : t[i].kind = "checklist"}
<1>1. Persistent(t) = [i \in Id |-> IF i \in C THEN Gone(t[i]) ELSE t[i]]
  BY DEF Persistent
<1>2. C \in SUBSET Id /\ \A i \in C : t[i].kind = "checklist"
  OBVIOUS
<1> HIDE DEF C
<1>3. QED BY <1>1, <1>2, ErasedGood

\* A change that keeps every item in its place, with the edges it had, is good
\* as soon as the locks are.
LEMMA SamePlaces ==
  ASSUME NEW t, NEW u, NEW c \in Nat, Good(t, c),
         u \in [Id -> Item],
         \A i \in Id : /\ u[i].kind = t[i].kind
                       /\ u[i].parent = t[i].parent
                       /\ u[i].blockedBy = t[i].blockedBy,
         LockedOf(u)
  PROVE  Good(u, c)
<1>1. \A i \in Id : i \in Present(u) <=> i \in Present(t)
  BY DEF Present
<1>2. TreeType(u, c)
  BY <1>1 DEF Good, TreeType
<1>3. AcyclicOf(u)
  BY FewerEdges DEF Good
<1>4. RootedOf(u)
  <2>1. SUFFICES ASSUME NEW i \in Present(u), u[i].parent # NoItem
                 PROVE  u[i].parent \in Present(u) /\ u[u[i].parent].kind # "checklist"
    BY DEF RootedOf
  <2>2. i \in Id /\ i \in Present(t)
    BY <1>1 DEF Present
  <2>3. t[i].parent \in Present(t) /\ t[t[i].parent].kind # "checklist"
    BY <2>1, <2>2 DEF Good, RootedOf
  <2>4. t[i].parent \in Id
    BY <2>3 DEF Present
  <2>5. QED BY <1>1, <2>2, <2>3, <2>4
<1>5. BlockersOf(u)
  <2>1. SUFFICES ASSUME NEW i \in Present(u), NEW b \in u[i].blockedBy \ {NoItem}
                 PROVE  b \in Present(u) \/ u[b].kind = "erased"
    BY DEF BlockersOf
  <2>2. i \in Id /\ i \in Present(t) /\ b \in Id
    BY <1>1 DEF Present, Item
  <2>3. b \in Present(t) \/ t[b].kind = "erased"
    BY <2>2, <2>1 DEF Good, BlockersOf
  <2>4. QED BY <1>1, <2>2, <2>3
<1>6. QED BY <1>2, <1>3, <1>4, <1>5 DEF Good

LEMMA StatusGood ==
  ASSUME NEW t, NEW c \in Nat, Good(t, c), NEW i \in Id, NEW s \in TaskStatus,
         CanSetStatus(t, i, s)
  PROVE  Good(WithStatus(t, i, s), c)
<1> DEFINE u == WithStatus(t, i, s)
<1>1. t \in [Id -> Item] /\ i \in Present(t)
  BY DEF Good, TreeType, CanSetStatus
<1>3. u \in [Id -> Item] /\ \A j \in Id : /\ u[j].kind = t[j].kind
                                         /\ u[j].parent = t[j].parent
                                         /\ u[j].blockedBy = t[j].blockedBy
  BY ZenonT(60), <1>1 DEF WithStatus, Item
<1>4. LockedOf(u)
  <2>1. SUFFICES ASSUME NEW j \in Present(u), u[j].kind # "checklist"
                 PROVE  u[j].locked <=> u[j].status \in Terminal
    BY DEF LockedOf
  <2>2. j \in Id /\ j \in Present(t) /\ t[j].kind # "checklist"
    BY <2>1, <1>3 DEF Present
  <2>3. t[j].locked <=> t[j].status \in Terminal
    BY <2>2 DEF Good, LockedOf
  <2>4. CASE j = i
    <3>1. u[j].status = s /\ u[j].locked = (t[j].locked \/ s \in Terminal)
      BY <1>1, <2>4 DEF WithStatus, Item
    <3>2. t[j].locked => s = t[j].status
      BY <2>4 DEF CanSetStatus
    <3>3. QED BY <2>3, <3>1, <3>2
  <2>5. CASE j # i
    BY <2>2, <2>3, <2>5, <1>1 DEF WithStatus, Item
  <2>6. QED BY <2>4, <2>5
<1>5. QED BY <1>3, <1>4, SamePlaces

LEMMA RollupGood ==
  ASSUME NEW t, NEW c \in Nat, Good(t, c), NEW i \in Id, NEW v \in BOOLEAN
  PROVE  Good(WithRollup(t, i, v), c)
<1> DEFINE u == WithRollup(t, i, v)
<1>1. t \in [Id -> Item]
  BY DEF Good, TreeType
<1>2. u \in [Id -> Item] /\ \A j \in Id : /\ u[j].kind = t[j].kind
                                         /\ u[j].parent = t[j].parent
                                         /\ u[j].blockedBy = t[j].blockedBy
                                         /\ u[j].status = t[j].status
                                         /\ u[j].locked = t[j].locked
  BY <1>1 DEF WithRollup, Item
<1>3. LockedOf(u)
  BY <1>2 DEF Good, LockedOf, Present
<1>4. QED BY <1>2, <1>3, SamePlaces

LEMMA ReopenGood ==
  ASSUME NEW t, NEW c \in Nat, Good(t, c), NEW i \in Id
  PROVE  Good(WithReopened(t, i), c)
<1> DEFINE u == WithReopened(t, i)
<1>1. t \in [Id -> Item]
  BY DEF Good, TreeType
<1>2. u \in [Id -> Item] /\ \A j \in Id : /\ u[j].kind = t[j].kind
                                         /\ u[j].parent = t[j].parent
                                         /\ u[j].blockedBy = t[j].blockedBy
  BY ZenonT(60), <1>1 DEF WithReopened, Item, TaskStatus
<1>3. LockedOf(u)
  <2>1. \A j \in Id : IF j = i
                      THEN u[j].locked = FALSE /\ u[j].status = "pending"
                      ELSE u[j] = t[j]
    BY <1>1 DEF WithReopened, Item
  <2>2. "pending" \notin Terminal
    BY DEF Terminal
  <2>3. QED BY <1>2, <2>1, <2>2 DEF Good, LockedOf, Present
<1>4. QED BY <1>2, <1>3, SamePlaces

\* New items under a place that exists, unlocked and open unless they are
\* entries, waiting for nobody or for whom an old item waits.
LEMMA AddedGood ==
  ASSUME NEW t, NEW u, NEW c \in Nat, NEW d \in Nat, Good(t, c), c <= d,
         u \in [Id -> Item],
         \A i \in Id : i <= c => u[i] = t[i],
         \A i \in Id : i > d => u[i] = t[i],
         \A i \in Id : i > c /\ i <= d =>
           /\ u[i].kind \in LiveKind
           /\ \/ u[i].parent = NoItem
              \/ u[i].parent \in Present(t) /\ t[u[i].parent].kind # "checklist"
           /\ u[i].kind # "checklist" => ~u[i].locked /\ u[i].status \notin Terminal
           /\ \/ u[i].blockedBy = {}
              \/ \E j \in Present(t) : u[i].blockedBy = t[j].blockedBy
  PROVE  Good(u, d)
<1> DEFINE New == {i \in Id : i > c /\ i <= d}
<1>1. /\ t \in [Id -> Item]
      /\ \A i \in Id : t[i].kind # "none" => i <= c
      /\ \A i \in Id \ New : u[i] = t[i]
      /\ \A i \in New : t[i].kind = "none" /\ i \notin Present(t)
  BY DEF Good, TreeType, Id, Present, LiveKind
<1>2. \A i \in Id : i \in Present(u) <=> i \in Present(t) \/ i \in New
  BY <1>1 DEF Present
<1>3. TreeType(u, d)
  <2>1. ASSUME NEW i \in Id, u[i].kind # "none" PROVE i <= d
    <3>1. CASE i \in New
      BY <3>1
    <3>2. CASE i \notin New
      BY <2>1, <3>2, <1>1 DEF Id
    <3>3. QED BY <3>1, <3>2
  <2>2. \A i \in Id : i \notin Present(u) => u[i].blockedBy = {}
    BY <1>1, <1>2 DEF Good, TreeType
  <2>3. QED BY <2>1, <2>2 DEF TreeType
<1>4. LockedOf(u)
  BY <1>1, <1>2 DEF Good, LockedOf, Present
<1>5. RootedOf(u)
  <2>1. SUFFICES ASSUME NEW i \in Present(u), u[i].parent # NoItem
                 PROVE  u[i].parent \in Present(u) /\ u[u[i].parent].kind # "checklist"
    BY DEF RootedOf
  <2>2. i \in Id /\ (i \in Present(t) \/ i \in New)
    BY <1>2 DEF Present
  <2>3. u[i].parent \in Present(t) /\ t[u[i].parent].kind # "checklist"
    BY <2>1, <2>2, <1>1 DEF Good, RootedOf
  <2>4. u[i].parent \in Id /\ u[i].parent \notin New
    BY <2>3, <1>1 DEF Present
  <2>5. QED BY <1>1, <1>2, <2>3, <2>4
\* Nobody waits for a new item.
<1>6. \A i \in Present(u) : u[i].blockedBy \cap New = {}
  <2>1. \A j \in Present(t) : t[j].blockedBy \cap New = {}
    <3>1. SUFFICES ASSUME NEW j \in Present(t), NEW b \in t[j].blockedBy, b \in New
                   PROVE  FALSE
      OBVIOUS
    <3>2. b # NoItem
      BY <3>1 DEF Id, NoItem
    <3>3. b \in Present(t) \/ t[b].kind = "erased"
      BY <3>2 DEF Good, BlockersOf
    <3>4. QED BY <3>1, <3>3, <1>1
  <2>2. QED BY <2>1, <1>1, <1>2 DEF Present
<1>7. BlockersOf(u)
  <2>1. SUFFICES ASSUME NEW i \in Present(u), NEW b \in u[i].blockedBy \ {NoItem}
                 PROVE  b \in Present(u) \/ u[b].kind = "erased"
    BY DEF BlockersOf
  <2>2. i \in Id /\ b \in Id /\ b \notin New
    BY <1>6 DEF Present, Item
  <2>3. PICK j \in Present(t) : b \in t[j].blockedBy
    BY <2>1, <2>2, <1>1, <1>2 DEF Present
  <2>4. b \in Present(t) \/ t[b].kind = "erased"
    BY <2>1, <2>3 DEF Good, BlockersOf
  <2>5. QED BY <1>1, <1>2, <2>2, <2>4
<1>8. AcyclicOf(u)
  <2>1. SUFFICES ASSUME NEW S \in SUBSET Id, S # {},
                        \A i \in S : u[i].blockedBy \cap S # {}
                 PROVE  FALSE
    BY DEF AcyclicOf
  <2>2. S \subseteq Present(u)
    BY <2>1, <1>1, <1>2 DEF Good, TreeType
  <2>3. \A i \in S : u[i].blockedBy \cap (S \ New) # {}
    BY <2>1, <2>2, <1>6
  <2>4. S \ New # {} /\ S \ New \in SUBSET Id
    BY <2>1, <2>3
  <2>5. \A i \in S \ New : t[i].blockedBy \cap (S \ New) # {}
    BY <2>3, <1>1
  <2>6. QED BY <2>4, <2>5 DEF Good, AcyclicOf
<1>9. QED BY <1>3, <1>4, <1>5, <1>7, <1>8 DEF Good

LEMMA ChecklistGood ==
  ASSUME NEW t, NEW c \in Nat, NEW d \in Nat, Good(t, c), c <= d, d <= MaxItems,
         NEW p \in Present(t), t[p].kind # "checklist",
         NEW new \in [c + 1 .. d -> {"pending", "in_progress", "completed"}]
  PROVE  Good(WithChecklist(t, p, new), d)
<1> DEFINE C == Checklist(t, p)
           v == [i \in Id |-> IF i \in C THEN Gone(t[i]) ELSE t[i]]
           u == WithChecklist(t, p, new)
<1>1. C \in SUBSET Id /\ \A i \in C : t[i].kind = "checklist"
  BY DEF Checklist, Children, Present
<1>2. Good(v, c)
  <2> HIDE DEF C
  <2>1. QED BY <1>1, ErasedGood
<1>3. \A i \in Id : i <= c \/ i > d =>
        i \notin DOMAIN new /\ u[i] = v[i]
  <2>1. DOMAIN new = c + 1 .. d
    OBVIOUS
  <2>2. \A i \in Id : i <= c \/ i > d => i \notin c + 1 .. d
    BY DEF Id
  <2>3. QED BY <2>1, <2>2 DEF WithChecklist
<1>4. \A i \in Id : i > c /\ i <= d =>
        u[i] = Entry(p, new[i]) /\ new[i] \in TaskStatus
  <2>1. \A i \in Id : i > c /\ i <= d => i \in DOMAIN new
    BY DEF Id
  <2>2. \A i \in DOMAIN new : new[i] \in TaskStatus
    BY DEF TaskStatus
  <2>3. \A i \in Id : i \in DOMAIN new =>
          u[i] = Entry(p, new[i])
    BY DEF WithChecklist
  <2>4. QED BY <2>1, <2>2, <2>3
<1>5. p \in Present(v) /\ v[p].kind # "checklist" /\ p \in Id
  BY <1>1 DEF Present
<1>6. \A i \in Id : i > c /\ i <= d =>
        /\ u[i] \in Item
        /\ u[i].kind = "checklist" /\ u[i].parent = p /\ u[i].blockedBy = {}
  BY ZenonT(60), <1>4, <1>5 DEF Entry, NewItem, Item, Kind, LiveKind
<1>7. u \in [Id -> Item]
  <2>1. \A i \in Id : u[i] \in Item
    BY <1>2, <1>3, <1>6 DEF Good, TreeType, Id
  <2>2. QED BY <2>1 DEF WithChecklist
<1>8. \A i \in Id : i > c /\ i <= d =>
        /\ u[i].kind \in LiveKind
        /\ u[i].parent \in Present(v) /\ v[u[i].parent].kind # "checklist"
        /\ ~(u[i].kind # "checklist")
        /\ u[i].blockedBy = {}
  BY <1>5, <1>6 DEF LiveKind
<1>9. \A i \in Id : (i <= c => u[i] = v[i]) /\ (i > d => u[i] = v[i])
  BY <1>3
<1> HIDE DEF u, v
<1>10. Good(u, d)
  BY <1>2, <1>7, <1>8, <1>9, AddedGood
<1>11. QED BY <1>10 DEF u

\* A subtree is closed under children.
LEMMA SubtreeClosed ==
  ASSUME NEW t, NEW i \in Present(t), NEW j \in Present(t), t[j].parent \in Subtree(t, i)
  PROVE  j \in Subtree(t, i)
BY DEF Subtree

LEMMA RemovedGood ==
  ASSUME NEW t, NEW c \in Nat, Good(t, c), NEW i \in Present(t)
  PROVE  Good(Without(t, Subtree(t, i)), c)
<1> DEFINE S == Subtree(t, i)
           u == Without(t, S)
<1>1. /\ t \in [Id -> Item]
      /\ S \subseteq Present(t)
      /\ \A j \in Id : j \in S => u[j] = Gone(t[j])
      /\ \A j \in Id : j \notin S => u[j] = [t[j] EXCEPT !.blockedBy = @ \ S]
  BY DEF Good, TreeType, Without, Subtree
<1> HIDE DEF S
<1>2. \A j \in Id :
        /\ u[j] \in Item
        /\ u[j].kind # "none" => t[j].kind # "none"
        /\ u[j].blockedBy \subseteq t[j].blockedBy \ S
        /\ j \in Present(u) <=> j \in Present(t) /\ j \notin S
        /\ j \notin S => u[j].kind = t[j].kind
        /\ j \in Present(u) => u[j].parent = t[j].parent /\ u[j].status = t[j].status
                              /\ u[j].locked = t[j].locked
        /\ t[j].kind = "erased" => u[j].kind = "erased"
  <2>1. SUFFICES ASSUME NEW j \in Id
                 PROVE  /\ u[j] \in Item
                        /\ u[j].kind # "none" => t[j].kind # "none"
                        /\ u[j].blockedBy \subseteq t[j].blockedBy \ S
                        /\ j \in Present(u) <=> j \in Present(t) /\ j \notin S
                        /\ j \notin S => u[j].kind = t[j].kind
                        /\ j \in Present(u) => /\ u[j].parent = t[j].parent
                                               /\ u[j].status = t[j].status
                                               /\ u[j].locked = t[j].locked
                        /\ t[j].kind = "erased" => u[j].kind = "erased"
    OBVIOUS
  <2>2. t[j] \in Item
    BY <1>1
  <2>3. CASE j \in S
    BY <1>1, <2>2, <2>3, GoneItem DEF Present, LiveKind
  <2>4. CASE j \notin S
    <3>1. u[j] = [t[j] EXCEPT !.blockedBy = @ \ S]
      BY <1>1, <2>4
    <3> HIDE DEF u
    <3>2. u[j] \in Item /\ u[j].blockedBy = t[j].blockedBy \ S
      BY <2>2, <3>1 DEF Item
    <3>3. /\ u[j].kind = t[j].kind /\ u[j].parent = t[j].parent
          /\ u[j].status = t[j].status /\ u[j].locked = t[j].locked
      BY <2>2, <3>1 DEF Item
    <3>4. QED BY <2>4, <3>2, <3>3 DEF Present
  <2>5. QED BY <2>3, <2>4
<1>3. TreeType(u, c)
  <2>1. \A j \in Id : j \notin Present(u) => u[j].blockedBy = {}
    <3>1. \A j \in S : j \in Id /\ u[j].blockedBy = {}
      BY <1>1, GoneItem DEF Present
    <3>2. \A j \in Id : j \notin Present(t) => u[j].blockedBy = {}
      BY <1>2 DEF Good, TreeType
    <3>3. QED BY <3>1, <3>2, <1>2
  <2>2. u \in [Id -> Item]
    BY <1>2 DEF Without
  <2>3. QED BY <1>2, <2>1, <2>2 DEF Good, TreeType
<1>4. LockedOf(u)
  <2>1. \A j \in Present(u) : j \in Id /\ j \in Present(t) /\ u[j].kind = t[j].kind
    BY <1>2 DEF Present
  <2>2. QED BY <2>1, <1>2 DEF Good, LockedOf
<1>5. AcyclicOf(u)
  BY <1>2, FewerEdges DEF Good
<1>6. RootedOf(u)
  <2>1. SUFFICES ASSUME NEW j \in Present(u), u[j].parent # NoItem
                 PROVE  u[j].parent \in Present(u) /\ u[u[j].parent].kind # "checklist"
    BY DEF RootedOf
  <2>2. j \in Id /\ j \in Present(t) /\ j \notin S /\ u[j].parent = t[j].parent
    BY <1>2 DEF Present
  <2>3. t[j].parent \in Present(t) /\ t[t[j].parent].kind # "checklist"
    BY <2>1, <2>2 DEF Good, RootedOf
  <2>4. t[j].parent \in Id /\ t[j].parent \notin S
    BY <2>2, <2>3, SubtreeClosed DEF S, Present
  <2>5. QED BY <1>2, <2>2, <2>3, <2>4
<1>7. BlockersOf(u)
  <2>1. SUFFICES ASSUME NEW j \in Present(u), NEW b \in u[j].blockedBy \ {NoItem}
                 PROVE  b \in Present(u) \/ u[b].kind = "erased"
    BY DEF BlockersOf
  <2>2. j \in Id /\ j \in Present(t) /\ b \in t[j].blockedBy /\ b \notin S
    BY <1>2 DEF Present
  <2>3. b \in Id
    BY <2>1, <2>2, <1>1 DEF Item
  <2>4. b \in Present(t) \/ t[b].kind = "erased"
    BY <2>1, <2>2 DEF Good, BlockersOf
  <2>5. QED BY <1>2, <2>2, <2>3, <2>4
<1>8. QED BY <1>3, <1>4, <1>5, <1>6, <1>7 DEF Good, S

LEMMA DependencyGood ==
  ASSUME NEW t, NEW c \in Nat, Good(t, c), NEW i \in Present(t), NEW b \in Present(t),
         i \notin Reach(t, b)
  PROVE  Good([t EXCEPT ![i].blockedBy = @ \cup {b}], c)
<1> DEFINE u == [t EXCEPT ![i].blockedBy = @ \cup {b}]
<1>1. t \in [Id -> Item] /\ i \in Id /\ b \in Id
  BY DEF Good, TreeType, Present
<1>2. \A j \in Id :
        /\ u[j] \in Item
        /\ u[j].kind = t[j].kind /\ u[j].parent = t[j].parent
        /\ u[j].status = t[j].status /\ u[j].locked = t[j].locked
        /\ u[j].blockedBy = t[j].blockedBy \cup (IF j = i THEN {b} ELSE {})
  BY <1>1 DEF Item
<1>3. \A j \in Id : j \in Present(u) <=> j \in Present(t)
  BY <1>2 DEF Present
<1>4. u \in [Id -> Item]
  BY <1>1, <1>2
<1> HIDE DEF u
<1>5. TreeType(u, c)
  BY <1>2, <1>3, <1>4 DEF Good, TreeType
<1>6. LockedOf(u)
  BY <1>2, <1>3 DEF Good, LockedOf, Present
<1>7. AcyclicOf(u)
  BY <1>1, <1>2, NewEdge DEF Good
<1>8. RootedOf(u)
  <2>1. SUFFICES ASSUME NEW j \in Present(u), u[j].parent # NoItem
                 PROVE  u[j].parent \in Present(u) /\ u[u[j].parent].kind # "checklist"
    BY DEF RootedOf
  <2>2. j \in Id /\ j \in Present(t)
    BY <1>3 DEF Present
  <2>3. t[j].parent \in Present(t) /\ t[t[j].parent].kind # "checklist"
    BY <1>2, <2>1, <2>2 DEF Good, RootedOf
  <2>4. t[j].parent \in Id
    BY <2>3 DEF Present
  <2>5. QED BY <1>2, <1>3, <2>2, <2>3, <2>4
<1>9. BlockersOf(u)
  <2>1. SUFFICES ASSUME NEW j \in Present(u), NEW x \in u[j].blockedBy \ {NoItem}
                 PROVE  x \in Present(u) \/ u[x].kind = "erased"
    BY DEF BlockersOf
  <2>2. j \in Id /\ j \in Present(t) /\ x \in Id
    BY <1>2, <1>3 DEF Present, Item
  <2>3. x \in Present(t) \/ t[x].kind = "erased"
    BY <1>2, <2>1, <2>2 DEF Good, BlockersOf
  <2>4. QED BY <1>2, <1>3, <2>2, <2>3
<1>10. QED BY <1>5, <1>6, <1>7, <1>8, <1>9 DEF Good, u

LEMMA EmptyGood == Good(EmptyTree, 0)
<1>1. Absent \in Item /\ Absent.kind = "none" /\ Absent.blockedBy = {}
  BY DEF Absent, NewItem, Item, Kind, LiveKind, TaskStatus
<1>2. EmptyTree \in [Id -> Item] /\ \A i \in Id : EmptyTree[i] = Absent
  BY <1>1 DEF EmptyTree
<1>3. Present(EmptyTree) = {}
  BY <1>1, <1>2 DEF Present, LiveKind
<1>4. AcyclicOf(EmptyTree)
  BY <1>1, <1>2 DEF AcyclicOf
<1>5. TreeType(EmptyTree, 0)
  BY <1>1, <1>2 DEF TreeType
<1>6. QED BY <1>3, <1>4, <1>5 DEF Good, LockedOf, RootedOf, BlockersOf

\* More ids given out do not make a tree worse.
LEMMA MoreIds ==
  ASSUME NEW t, NEW c \in Nat, NEW d \in Nat, c <= d, Good(t, c)
  PROVE  Good(t, d)
BY DEF Good, TreeType, Id

\* A step that makes a good tree and saves it.
LEMMA SavedStep ==
  ASSUME IInv, created' \in created .. MaxItems, Good(tree', created'), Persist
  PROVE  IInv'
<1>1. created \in Nat /\ created' \in Nat /\ created <= created'
  BY MaxItemsAssumption DEF IInv
<1>2. Good(disk, created')
  BY <1>1, MoreIds DEF IInv
<1>3. Good(Persistent(tree'), created')
  BY <1>1, PersistentGood
<1>4. Good(disk', created')
  BY <1>2, <1>3 DEF Persist
<1>5. failed' \in 0 .. MaxFailedSaves
  BY BoundsAssumption DEF IInv, Persist
<1>6. created' \in 0 .. MaxItems
  BY <1>1, MaxItemsAssumption
<1>7. QED BY <1>4, <1>5, <1>6 DEF IInv

LEMMA AddKeeps ==
  ASSUME IInv, NEW k \in LiveKind \ {"checklist"}, NEW p,
         p = NoItem \/ (p \in Present(tree) /\ tree[p].kind # "checklist"),
         Add(k, p)
  PROVE  IInv'
<1> DEFINE n == created + 1
<1>1. /\ created \in Nat /\ n \in Id /\ n <= MaxItems /\ Good(tree, created)
      /\ tree \in [Id -> Item]
  BY MaxItemsAssumption DEF IInv, Add, Id, Good, TreeType
<1>2. p \in Id \cup {NoItem}
  BY DEF Present
<1>3. /\ NewItem(k, p) \in Item /\ NewItem(k, p).kind = k /\ NewItem(k, p).parent = p
      /\ ~NewItem(k, p).locked /\ NewItem(k, p).status \notin Terminal
      /\ NewItem(k, p).blockedBy = {}
  BY <1>2 DEF NewItem, Item, Kind, LiveKind, TaskStatus, Terminal
<1>4. /\ tree' \in [Id -> Item] /\ tree'[n] = NewItem(k, p)
      /\ \A i \in Id : i # n => tree'[i] = tree[i]
  BY <1>1, <1>3 DEF Add
<1>5. \A i \in Id : i > created /\ i <= n => i = n
  BY <1>1 DEF Id
<1>6. \A i \in Id : (i <= created => tree'[i] = tree[i]) /\ (i > n => tree'[i] = tree[i])
  BY <1>1, <1>4 DEF Id
<1>7. Good(tree', n)
  <2> HIDE DEF n
  <2>1. created <= n /\ n \in Nat
    BY <1>1 DEF n
  <2>2. \A i \in Id : i > created /\ i <= n =>
           /\ tree'[i].kind \in LiveKind
           /\ \/ tree'[i].parent = NoItem
              \/ /\ tree'[i].parent \in Present(tree)
                 /\ tree[tree'[i].parent].kind # "checklist"
           /\ ~tree'[i].locked /\ tree'[i].status \notin Terminal
           /\ tree'[i].blockedBy = {}
    BY <1>3, <1>4, <1>5
  <2>3. QED BY <1>1, <1>4, <1>6, <2>1, <2>2, AddedGood
<1>8. created' = n /\ created' \in created .. MaxItems
  BY <1>1 DEF Add
<1>9. QED BY <1>7, <1>8, SavedStep DEF Add

LEMMA PromoteKeeps ==
  ASSUME IInv, NEW p \in Id, PromoteChecklist(p)
  PROVE  IInv'
<1> DEFINE E == Checklist(tree, p)
           n == Cardinality(E)
           d == created + n
<1>1. /\ created \in Nat /\ Good(tree, created) /\ tree \in [Id -> Item]
      /\ p \in Present(tree) /\ tree[p].kind # "checklist"
  BY DEF IInv, Good, TreeType, PromoteChecklist
<1>2. E \subseteq Present(tree)
  BY DEF Checklist, Children
<1>3. n \in Nat
  <2>1. IsFiniteSet(Id)
    BY FS_Interval, MaxItemsAssumption DEF Id
  <2>2. IsFiniteSet(E)
    BY <1>2, <2>1, FS_Subset DEF Present
  <2>3. QED BY <2>2, FS_CardinalityType
<1>4. PICK from \in [created + 1 .. d -> E] :
        tree' = [i \in Id |->
                  IF i \in DOMAIN from
                  THEN [NewItem("implement", p) EXCEPT !.blockedBy = tree[from[i]].blockedBy]
                  ELSE tree[i]]
  BY DEF PromoteChecklist
<1> HIDE DEF n
<1>5. /\ d \in Nat /\ created <= d /\ d <= MaxItems
      /\ DOMAIN from = created + 1 .. d
      /\ created' = d /\ created' \in created .. MaxItems
  BY <1>1, <1>3, MaxItemsAssumption DEF PromoteChecklist, n
<1>6. ASSUME NEW i \in Id, i > created, i <= d
      PROVE  /\ tree'[i] \in Item
             /\ tree'[i].kind = "implement" /\ tree'[i].parent = p
             /\ ~tree'[i].locked /\ tree'[i].status = "pending"
             /\ \E j \in Present(tree) : tree'[i].blockedBy = tree[j].blockedBy
  <2>1. i \in DOMAIN from
    BY <1>1, <1>5, <1>6 DEF Id
  <2>2. from[i] \in Present(tree) /\ tree[from[i]] \in Item
    BY <1>1, <1>2, <1>5, <2>1 DEF Present
  <2>3. tree'[i] = [NewItem("implement", p) EXCEPT !.blockedBy = tree[from[i]].blockedBy]
    BY <1>4, <2>1
  <2>4. /\ tree'[i].kind = "implement" /\ tree'[i].parent = p
        /\ ~tree'[i].locked /\ tree'[i].status = "pending"
        /\ tree'[i].blockedBy = tree[from[i]].blockedBy
    BY <2>3 DEF NewItem
  <2>5. tree'[i] \in Item
    BY <2>2, <2>3 DEF NewItem, Item, Kind, LiveKind, TaskStatus
  <2>6. QED BY <2>2, <2>4, <2>5
<1>7. ASSUME NEW i \in Id, i <= created \/ i > d
      PROVE  tree'[i] = tree[i]
  <2>1. i \notin DOMAIN from
    BY <1>1, <1>5, <1>7 DEF Id
  <2>2. QED BY <1>4, <2>1
<1>8. tree' \in [Id -> Item]
  <2>1. \A i \in Id : tree'[i] \in Item
    BY <1>1, <1>5, <1>6, <1>7 DEF Id
  <2>2. QED BY <1>4, <2>1
<1>9. Good(tree', d)
  <2>1. \A i \in Id : i > created /\ i <= d =>
           /\ tree'[i].kind \in LiveKind
           /\ \/ tree'[i].parent = NoItem
              \/ /\ tree'[i].parent \in Present(tree)
                 /\ tree[tree'[i].parent].kind # "checklist"
           /\ ~tree'[i].locked /\ tree'[i].status \notin Terminal
           /\ \E j \in Present(tree) : tree'[i].blockedBy = tree[j].blockedBy
    BY <1>1, <1>6 DEF LiveKind, Terminal
  <2> HIDE DEF d
  <2>2. QED BY <1>1, <1>5, <1>7, <1>8, <2>1, AddedGood
<1>10. QED BY <1>5, <1>9, SavedStep DEF PromoteChecklist

LEMMA UpsertKeeps ==
  ASSUME IInv, NEW p \in Id, NEW n \in Nat, UpsertChecklist(p, n)
  PROVE  IInv'
<1> DEFINE d == created + n
<1>1. /\ created \in Nat /\ Good(tree, created)
      /\ d \in Nat /\ created <= d /\ d <= MaxItems
      /\ p \in Present(tree) /\ tree[p].kind # "checklist"
      /\ created' = d /\ created' \in created .. MaxItems
  BY MaxItemsAssumption DEF IInv, UpsertChecklist, Mutable
<1>2. PICK new \in [created + 1 .. d -> {"pending", "in_progress", "completed"}] :
        tree' = WithChecklist(tree, p, new)
  BY DEF UpsertChecklist
<1> HIDE DEF d
<1>3. Good(tree', created')
  BY <1>1, <1>2, ChecklistGood
<1>4. QED BY <1>1, <1>3, SavedStep DEF UpsertChecklist

\* A good tree stays good, whatever is done to it and whatever is lost.
THEOREM Inductive == IInv /\ [Next]_vars => IInv'
<1> SUFFICES ASSUME IInv, [Next]_vars PROVE IInv'
  OBVIOUS
<1>1. /\ created \in Nat /\ created \in created .. MaxItems
      /\ Good(tree, created) /\ Good(disk, created)
  BY MaxItemsAssumption DEF IInv
<1>2. CASE EnsureGoal
  BY <1>2, AddKeeps DEF EnsureGoal, LiveKind
<1>3. ASSUME NEW p \in Id \cup {NoItem}, Create("implement", p) PROVE IInv'
  <2>1. p = NoItem \/ (p \in Present(tree) /\ tree[p].kind # "checklist")
    BY <1>3 DEF Create, CanCreate, Mutable
  <2>2. "implement" \in LiveKind \ {"checklist"}
    BY DEF LiveKind
  <2>3. QED BY <1>3, <2>1, <2>2, AddKeeps DEF Create
<1>4. ASSUME NEW p \in Id, NEW n \in 0 .. 1, UpsertChecklist(p, n) PROVE IInv'
  BY <1>4, UpsertKeeps
<1>5. ASSUME NEW p \in Id, PromoteChecklist(p) PROVE IInv'
  BY <1>5, PromoteKeeps
<1>6. ASSUME NEW i \in Id, NEW s \in TaskStatus, UpdateStatus(i, s) PROVE IInv'
  <2>1. Good(tree', created) /\ created' = created
    BY <1>1, <1>6, StatusGood DEF UpdateStatus
  <2>2. QED BY <1>1, <1>6, <2>1, SavedStep DEF UpdateStatus
<1>7. ASSUME NEW i \in Id, NEW b \in Id, AddDependency(i, b) PROVE IInv'
  <2>1. Good(tree', created) /\ created' = created
    BY <1>1, <1>7, DependencyGood DEF AddDependency, Mutable
  <2>2. QED BY <1>1, <1>7, <2>1, SavedStep DEF AddDependency
<1>8. ASSUME NEW i \in Id, Remove(i) PROVE IInv'
  <2>1. Good(tree', created) /\ created' = created
    BY <1>1, <1>8, RemovedGood DEF Remove, Mutable
  <2>2. QED BY <1>1, <1>8, <2>1, SavedStep DEF Remove
<1>9. ASSUME NEW i \in Id, ReopenForRollup(i) PROVE IInv'
  <2>1. Good(tree', created) /\ created' = created
    BY <1>1, <1>9, ReopenGood DEF ReopenForRollup
  <2>2. QED BY <1>1, <1>9, <2>1, SavedStep DEF ReopenForRollup
<1>10. ASSUME NEW i \in Id, NEW v \in BOOLEAN, SetNeedsRollup(i, v) PROVE IInv'
  <2>1. Good(tree', created) /\ created' = created
    BY <1>1, <1>10, RollupGood DEF SetNeedsRollup
  <2>2. QED BY <1>1, <1>10, <2>1, SavedStep DEF SetNeedsRollup
<1>11. CASE Restart
  BY <1>11 DEF Restart, IInv
<1>12. CASE UNCHANGED vars
  BY <1>12 DEF vars, IInv
<1>13. QED BY <1>2, <1>3, <1>4, <1>5, <1>6, <1>7, <1>8, <1>9, <1>10, <1>11, <1>12 DEF Next

THEOREM AlwaysGood == Spec => []IInv
<1>1. Init => IInv
  <2>1. ASSUME Init PROVE IInv
    BY <2>1, EmptyGood, MaxItemsAssumption, BoundsAssumption DEF Init, IInv
  <2>2. QED BY <2>1
<1>2. QED BY <1>1, Inductive, PTL DEF Spec

\* The types of the memory and of the file, and ids never given out twice.
THEOREM TypeCorrect == Spec => []TypeOK
<1>1. IInv => TypeOK
  BY DEF IInv, Good, TreeType, TypeOK
<1>2. QED BY <1>1, AlwaysGood, PTL

\* A work item is locked exactly while its status is terminal.
THEOREM LockedIffTerminalHolds == Spec => []LockedIffTerminal
<1>1. IInv => LockedIffTerminal
  BY DEF IInv, Good, LockedIffTerminal
<1>2. QED BY <1>1, AlwaysGood, PTL

\* AddDependency never lets items wait for one another in a circle.
THEOREM AcyclicHolds == Spec => []Acyclic
<1>1. IInv => Acyclic
  BY DEF IInv, Good, Acyclic
<1>2. QED BY <1>1, AlwaysGood, PTL

\* Every item has its parent.
THEOREM RootedHolds == Spec => []Rooted
<1>1. IInv => Rooted
  BY DEF IInv, Good, Rooted
<1>2. QED BY <1>1, AlwaysGood, PTL

\* Nobody waits for a work item that was removed.
THEOREM NoLostBlockerHolds == Spec => []NoLostBlocker
<1>1. IInv => NoLostBlocker
  BY DEF IInv, Good, NoLostBlocker
<1>2. QED BY <1>1, AlwaysGood, PTL

\* What an action does to an item that has ended.
LEMMA EndedStep ==
  ASSUME IInv, [Next]_vars, NEW i \in Present(tree) \cap Present(tree'),
         tree[i].kind # "checklist", tree[i].status \in Terminal, ~Restart
  PROVE  \/ tree'[i].status = tree[i].status
         \/ tree[i].rollup /\ tree[i].status # "cancelled"
<1>1. i \in Id /\ created \in Nat /\ tree \in [Id -> Item] /\ i <= created
  BY DEF IInv, Good, TreeType, Present, LiveKind
<1>2. ASSUME NEW k, NEW p, Add(k, p) PROVE tree'[i] = tree[i]
  BY <1>1, <1>2 DEF Add
<1>3. CASE EnsureGoal
  BY <1>2, <1>3 DEF EnsureGoal
<1>4. ASSUME NEW p \in Id \cup {NoItem}, Create("implement", p) PROVE tree'[i] = tree[i]
  BY <1>2, <1>4 DEF Create
<1>5. ASSUME NEW p \in Id, NEW n \in 0 .. 1, UpsertChecklist(p, n) PROVE tree'[i] = tree[i]
  <2>1. PICK new \in [created + 1 .. created + n -> {"pending", "in_progress", "completed"}] :
          tree' = WithChecklist(tree, p, new)
    BY <1>5 DEF UpsertChecklist
  <2>2. i \notin DOMAIN new
    BY <1>1 DEF Id
  <2>3. i \notin Checklist(tree, p)
    BY DEF Checklist
  <2>4. QED BY <1>1, <2>1, <2>2, <2>3 DEF WithChecklist
<1>6. ASSUME NEW p \in Id, PromoteChecklist(p) PROVE tree'[i] = tree[i]
  <2> DEFINE d == created + Cardinality(Checklist(tree, p))
  <2>1. PICK from \in [created + 1 .. d -> Checklist(tree, p)] :
          tree' = [j \in Id |->
                    IF j \in DOMAIN from
                    THEN [NewItem("implement", p) EXCEPT !.blockedBy = tree[from[j]].blockedBy]
                    ELSE tree[j]]
    BY <1>6 DEF PromoteChecklist
  <2> HIDE DEF d
  <2>2. i \notin DOMAIN from
    BY <1>1 DEF Id
  <2>3. QED BY <1>1, <2>1, <2>2
<1>7. ASSUME NEW j \in Id, NEW s \in TaskStatus, UpdateStatus(j, s)
      PROVE  tree'[i].status = tree[i].status
  <2>1. CASE j = i
    <3>1. s = tree[i].status
      BY <1>7, <2>1 DEF UpdateStatus, CanSetStatus, IsLegalTransition, Terminal
    <3>2. QED BY <1>1, <1>7, <2>1, <3>1 DEF UpdateStatus, WithStatus, Item
  <2>2. CASE j # i
    BY <1>1, <1>7, <2>2 DEF UpdateStatus, WithStatus, Item
  <2>3. QED BY <2>1, <2>2
<1>8. ASSUME NEW j \in Id, NEW b \in Id, AddDependency(j, b)
      PROVE  tree'[i].status = tree[i].status
  BY <1>1, <1>8 DEF AddDependency, Item
<1>9. ASSUME NEW j \in Id, Remove(j) PROVE tree'[i].status = tree[i].status
  <2> DEFINE S == Subtree(tree, j)
  <2>1. CASE i \in S
    BY <1>1, <1>9, <2>1, GoneItem DEF Remove, Without, Present, LiveKind
  <2>2. CASE i \notin S
    <3>1. tree'[i] = [tree[i] EXCEPT !.blockedBy = @ \ S]
      BY <1>1, <1>9, <2>2 DEF Remove, Without
    <3> HIDE DEF S
    <3>2. QED BY <1>1, <3>1 DEF Item
  <2>3. QED BY <2>1, <2>2
<1>10. ASSUME NEW j \in Id, ReopenForRollup(j)
       PROVE  \/ tree'[i].status = tree[i].status
              \/ tree[i].rollup /\ tree[i].status # "cancelled"
  <2>1. CASE j = i
    BY <1>10, <2>1 DEF ReopenForRollup, CanReopen
  <2>2. CASE j # i
    BY <1>1, <1>10, <2>2 DEF ReopenForRollup, WithReopened, Item
  <2>3. QED BY <2>1, <2>2
<1>11. ASSUME NEW j \in Id, NEW v \in BOOLEAN, SetNeedsRollup(j, v)
       PROVE  tree'[i].status = tree[i].status
  BY <1>1, <1>11 DEF SetNeedsRollup, WithRollup, Item
<1>12. CASE UNCHANGED vars
  BY <1>12 DEF vars
<1>13. QED BY <1>2, <1>3, <1>4, <1>5, <1>6, <1>7, <1>8, <1>9, <1>10, <1>11, <1>12
           DEF Next, EnsureGoal

\* A work item that has ended begins again only as a rollup, a cancelled one
\* never.
THEOREM EndedStaysEndedHolds == Spec => EndedStaysEnded
<1>1. ASSUME IInv, [Next]_vars
      PROVE  [\A i \in Present(tree) \cap Present(tree') :
                tree[i].kind # "checklist" /\ tree[i].status \in Terminal
                  => \/ tree'[i].status = tree[i].status
                     \/ tree[i].rollup /\ tree[i].status # "cancelled"
                     \/ Restart]_vars
  BY <1>1, EndedStep
<1>2. QED BY <1>1, AlwaysGood, PTL DEF Spec, EndedStaysEnded
=============================================================================
