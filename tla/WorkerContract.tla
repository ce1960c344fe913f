--------------------------- MODULE WorkerContract ---------------------------
(***************************************************************************)
(* What WorkerRunner promises the wave scheduler about one call of Run: it  *)
(* returns once, with context.Canceled only if the scheduler has cancelled  *)
(* the worker, with an error only if the work could not start or failed,    *)
(* and the fate of the work is decided once.                                *)
(***************************************************************************)
VARIABLES
  asked,    \* the scheduler has cancelled the worker's context
  fate,     \* of the work: "open", then for good "done", "failed" or "stopped"
  result    \* of Run: "new", "running", then "ok", "error" or "canceled"

Init == asked = FALSE /\ fate = "open" /\ result = "new"

Ask == asked' = TRUE /\ UNCHANGED <<fate, result>>

Accept == result = "new" /\ result' = "running" /\ UNCHANGED <<asked, fate>>
Refuse == result = "new" /\ result' = "error" /\ UNCHANGED <<asked, fate>>

\* The work may be decided after Run has returned.
Decide ==
  /\ result # "new" /\ fate = "open"
  /\ fate' \in {"done", "failed", "stopped"}
  /\ UNCHANGED <<asked, result>>

Report ==
  /\ result = "running" /\ fate # "open"
  /\ result' = IF fate = "failed" THEN "error" ELSE "ok"
  /\ UNCHANGED <<asked, fate>>

Abandon ==
  /\ result = "running" /\ asked
  /\ result' = "canceled"
  /\ UNCHANGED <<asked, fate>>

Next == Ask \/ Accept \/ Refuse \/ Decide \/ Report \/ Abandon

Spec == Init /\ [][Next]_<<asked, fate, result>>
=============================================================================
