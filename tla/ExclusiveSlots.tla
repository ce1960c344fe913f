--------------------------- MODULE ExclusiveSlots ---------------------------
(***************************************************************************)
(* What the wave scheduler promises about parallelism, whatever waves come  *)
(* and go: a task of a wave begins at most once, no type has more active    *)
(* tasks than slots, and no two active tasks conflict.                      *)
(***************************************************************************)
EXTENDS Naturals, FiniteSets

CONSTANTS Wave, Task, TypeOf, Capacity, ConflictBetween(_, _)

VARIABLES active, begun

Init == active = {} /\ begun = {}

Room(k) == Cardinality({y \in active : TypeOf[y[2]] = k}) < Capacity[k]

\* A task gets a slot and the guard's consent.
Begin(x) ==
  /\ x \notin begun
  /\ Room(TypeOf[x[2]])
  /\ \A y \in active : ~ConflictBetween(x[2], y[2])
  /\ active' = active \cup {x}
  /\ begun' = begun \cup {x}

\* A task that cannot run fails without ever being active.
Refuse(x) ==
  /\ x \notin begun
  /\ begun' = begun \cup {x}
  /\ UNCHANGED active

End(x) ==
  /\ x \in active
  /\ active' = active \ {x}
  /\ UNCHANGED begun

Next == \E x \in Wave \X Task : Begin(x) \/ Refuse(x) \/ End(x)

Spec == Init /\ [][Next]_<<active, begun>>
=============================================================================
