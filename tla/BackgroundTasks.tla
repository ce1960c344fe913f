-------------------------- MODULE BackgroundTasks --------------------------
(***************************************************************************)
(* One sub-agent worker: runners/subagent.go over contextengine/enforce's   *)
(* RunBackground and BackgroundRegistry.  Five kinds of goroutines meet on  *)
(* one registry entry: the runner that polls it, the work itself, the       *)
(* watcher that turns the worker's cancelled context into Cancel, task_stop *)
(* calls of the model, and whoever cancels the worker.  Entries share only  *)
(* the registry's mutex, under which each step below is one critical        *)
(* section.  What the work computes is reduced to whether it failed.        *)
(***************************************************************************)
EXTENDS Naturals

CONSTANTS
  Stopper,            \* concurrent calls of the task_stop tool on this task
  Watcher             \* the runner's watcher goroutine

ASSUME WatcherAssumption == Watcher \notin Stopper

Canceller == Stopper \cup {Watcher}

VARIABLES
  run,                \* SubAgentRunner.Run, from "new" to what it returns
  ctxDone,            \* the worker's context is done
  taskDone,           \* taskCtx, derived from it, is done
  attached,           \* BackgroundTask.cancel is set
  status,             \* BackgroundTask.Status, "none" before Register
  closes,             \* how often close(task.done) has been called
  body,               \* RunBackground's goroutine
  failed,             \* the work returned an error
  stop,               \* each caller of Cancel
  notified,           \* notifications enqueued
  crashed             \* an unrecovered panic has ended the process

runVars == <<run, ctxDone>>
taskVars == <<taskDone, attached, status, closes, notified, crashed>>
vars == <<runVars, taskVars, body, failed, stop>>

Returned == {"ok", "error", "canceled"}
Terminal == {"completed", "failed", "cancelled"}

\* At most two closes, by the one Cancel that finds the task running and by
\* Complete, and one notification.
TypeOK ==
  /\ run \in {"new", "attach", "spawn", "poll"} \cup Returned
  /\ ctxDone \in BOOLEAN /\ taskDone \in BOOLEAN /\ attached \in BOOLEAN
  /\ status \in {"none", "running"} \cup Terminal
  /\ closes \in 0 .. 2 /\ notified \in 0 .. 1
  /\ body \in {"none", "run", "complete", "close", "quiet", "notify", "gone"}
  /\ failed \in BOOLEAN /\ crashed \in BOOLEAN
  /\ stop \in [Canceller -> {"idle", "cancel", "close", "done"}]

Init ==
  /\ run = "new" /\ ctxDone = FALSE
  /\ taskDone = FALSE /\ attached = FALSE
  /\ status = "none" /\ closes = 0 /\ notified = 0 /\ crashed = FALSE
  /\ body = "none" /\ failed = FALSE
  /\ stop = [c \in Canceller |-> "idle"]

-----------------------------------------------------------------------------
(* SubAgentRunner.Run and RunBackground                                     *)

\* deps.Start fails before anything is registered.
StartFails ==
  /\ run = "new" /\ run' = "error"
  /\ UNCHANGED <<ctxDone, taskVars, body, failed, stop>>

\* WithCancel and RegisterWithCancel: task_list_background shows the task
\* from here on.
Register ==
  /\ run = "new" /\ run' = "attach"
  /\ status' = "running"
  /\ taskDone' = ctxDone
  /\ UNCHANGED <<ctxDone, attached, closes, notified, crashed, body, failed, stop>>

SetTaskCancel ==
  /\ run = "attach" /\ run' = "spawn"
  /\ attached' = TRUE
  /\ UNCHANGED <<ctxDone, taskDone, status, closes, notified, crashed, body,
                 failed, stop>>

\* The work's goroutine and the watcher start.
Spawn ==
  /\ run = "spawn" /\ run' = "poll"
  /\ body' = "run"
  /\ UNCHANGED <<ctxDone, taskVars, failed, stop>>

RunCancelled ==
  /\ run = "poll" /\ ctxDone
  /\ run' = "canceled"
  /\ UNCHANGED <<ctxDone, taskVars, body, failed, stop>>

\* IsTerminal, then TerminalResult: Error is set for failed tasks only, and a
\* task stopped by task_stop is a success.  The mutant does not count it among
\* the terminal ones.
PollMutant ==
  /\ run = "poll" /\ status \in {"completed", "failed"}
  /\ run' = IF status = "failed" THEN "error" ELSE "ok"
  /\ UNCHANGED <<ctxDone, taskVars, body, failed, stop>>
Poll ==
  /\ run = "poll" /\ status \in Terminal
  /\ run' = IF status = "failed" THEN "error" ELSE "ok"
  /\ UNCHANGED <<ctxDone, taskVars, body, failed, stop>>

\* The work returns.  With its context done it leaves without Complete; Run is
\* taken to return context.Canceled only then.  The mutant closes done as well.
BodyReturnsMutant ==
  /\ body = "run"
  /\ body' = IF taskDone THEN "quiet" ELSE "complete"
  /\ failed' \in IF taskDone THEN {failed} ELSE BOOLEAN
  /\ UNCHANGED <<runVars, taskVars, stop>>
BodyReturns ==
  /\ body = "run"
  /\ body' = IF taskDone THEN "gone" ELSE "complete"
  /\ failed' \in IF taskDone THEN {failed} ELSE BOOLEAN
  /\ UNCHANGED <<runVars, taskVars, stop>>

-----------------------------------------------------------------------------
(* BackgroundRegistry                                                       *)

\* close(task.done): the second close panics, which only the tool loop
\* recovers.
CloseDone(recovers) ==
  /\ closes' = closes + 1
  /\ crashed' = (closes > 0 /\ ~recovers)

\* Complete's critical section.  The mutants: it does not look for a
\* cancelled task; it leaves a cancelled task its notification.
CompleteMarkMutant ==
  /\ body = "complete"
  /\ status' = IF failed THEN "failed" ELSE "completed"
  /\ body' = "close"
  /\ UNCHANGED <<runVars, taskDone, attached, closes, notified, crashed, failed, stop>>
CompleteMarkMutant2 ==
  /\ body = "complete"
  /\ status' = IF status = "cancelled" THEN status
               ELSE IF failed THEN "failed" ELSE "completed"
  /\ body' = "close"
  /\ UNCHANGED <<runVars, taskDone, attached, closes, notified, crashed, failed, stop>>
CompleteMark ==
  /\ body = "complete"
  /\ IF status = "cancelled" THEN UNCHANGED status /\ body' = "quiet"
     ELSE /\ status' = IF failed THEN "failed" ELSE "completed"
          /\ body' = "close"
  /\ UNCHANGED <<runVars, taskDone, attached, closes, notified, crashed, failed, stop>>

CompleteClose ==
  /\ body \in {"close", "quiet"}
  /\ CloseDone(FALSE)
  /\ body' = IF body = "close" THEN "notify" ELSE "gone"
  /\ taskDone' = (taskDone \/ body = "quiet")
  /\ UNCHANGED <<runVars, attached, status, notified, failed, stop>>

\* q.Enqueue, and the deferred cancel of taskCtx.
Notify ==
  /\ body = "notify" /\ body' = "gone"
  /\ notified' = notified + 1
  /\ taskDone' = TRUE
  /\ UNCHANGED <<runVars, attached, status, closes, crashed, failed, stop>>

\* Who may call Cancel: task_stop once the task is listed, the watcher once
\* the worker's context is done.
MayCancel(c) ==
  IF c = Watcher THEN body # "none" /\ ctxDone ELSE status # "none"

\* Cancel's critical section: a task that does not run is left alone.
CancelMark(c) ==
  /\ stop[c] = "idle" /\ MayCancel(c)
  /\ IF status = "running"
     THEN /\ status' = "cancelled"
          /\ stop' = [stop EXCEPT ![c] = IF attached THEN "cancel" ELSE "close"]
     ELSE stop' = [stop EXCEPT ![c] = "done"] /\ UNCHANGED status
  /\ UNCHANGED <<runVars, taskDone, attached, closes, notified, crashed, body, failed>>

\* cancel(), after the unlock.
CancelContext(c) ==
  /\ stop[c] = "cancel"
  /\ taskDone' = TRUE
  /\ stop' = [stop EXCEPT ![c] = "close"]
  /\ UNCHANGED <<runVars, attached, status, closes, notified, crashed, body, failed>>

\* The mutant leaves the channel to Complete.
CancelCloseMutant(c) ==
  /\ stop[c] = "close"
  /\ stop' = [stop EXCEPT ![c] = "done"]
  /\ UNCHANGED <<runVars, taskVars, body, failed>>
CancelClose(c) ==
  /\ stop[c] = "close"
  /\ CloseDone(c # Watcher)
  /\ stop' = [stop EXCEPT ![c] = "done"]
  /\ UNCHANGED <<runVars, taskDone, attached, status, notified, body, failed>>

\* The watcher's select may as well take stopWatcher, closed when Run returns.
WatcherStops ==
  /\ stop[Watcher] = "idle"
  /\ run \in Returned /\ body # "none"
  /\ stop' = [stop EXCEPT ![Watcher] = "done"]
  /\ UNCHANGED <<runVars, taskVars, body, failed>>

\* The scheduler cancels the worker.
CancelWorker ==
  /\ ~ctxDone /\ ctxDone' = TRUE
  /\ taskDone' = (taskDone \/ status # "none")
  /\ UNCHANGED <<run, attached, status, closes, notified, crashed, body, failed, stop>>

-----------------------------------------------------------------------------
RunnerStep == SetTaskCancel \/ Spawn \/ RunCancelled \/ Poll

BodyStep == CompleteMark \/ CompleteClose \/ Notify

CancelStep(c) == CancelContext(c) \/ CancelClose(c)

WatcherStep == CancelMark(Watcher) \/ WatcherStops \/ CancelStep(Watcher)

Step ==
  \/ StartFails \/ Register \/ RunnerStep
  \/ BodyReturns \/ BodyStep
  \/ WatcherStep
  \/ \E c \in Stopper : CancelMark(c) \/ CancelStep(c)
  \/ CancelWorker

Next == ~crashed /\ Step

Spec == Init /\ [][Next]_vars

\* Goroutines run, and the work returns once its context is done: SubTurn
\* listens to it.  Work that nobody cancels may take for ever.
FairSpec ==
  /\ Spec
  /\ WF_vars(~crashed /\ RunnerStep)
  /\ WF_vars(~crashed /\ BodyStep)
  /\ WF_vars(~crashed /\ taskDone /\ BodyReturns)
  /\ WF_vars(~crashed /\ WatcherStep)
  /\ \A c \in Stopper : WF_vars(~crashed /\ CancelStep(c))

-----------------------------------------------------------------------------
\* "After cancel the SessionQueue gets no completed notification" (the
\* tombstone of background_cancel_test.go): whatever the race, a cancelled
\* task is never announced as finished, and no task is announced twice.
Tombstone == notified <= 1 /\ (notified = 1 => status \in {"completed", "failed"})

\* Whoever is woken by task.done (BackgroundWaiter, task_output) finds the
\* task terminal.
ClosedMeansTerminal == closes > 0 => status \in Terminal

Fate ==
  IF status = "completed" THEN "done"
  ELSE IF status = "failed" THEN "failed"
  ELSE IF status = "cancelled" THEN "stopped" ELSE "open"

Result == IF run \in {"attach", "spawn", "poll"} THEN "running" ELSE run

\* The runner keeps the contract the scheduler relies on: Run returns
\* context.Canceled only to a cancelled worker, an error only for work that
\* failed, and a task that is stopped, completed or failed stays so.
Contract == INSTANCE WorkerContract WITH
  asked <- ctxDone,
  fate <- Fate,
  result <- Result

Contracted == Contract!Spec

\* "must listen to ctx.Done()" so that "the scheduler can release the slot"
\* (types.go): a cancelled worker, and one whose task is over, returns.
RunReturns ==
  (run # "new" /\ (ctxDone \/ status \in Terminal)) ~> (run \in Returned \/ crashed)

\* Every waiter on the done channel of a terminal task is woken.
TerminalCloses == (status \in Terminal) ~> (closes > 0 \/ crashed)

(* What the comments say                                                    *)

\* "Cancel cancels a running task. Idempotent.": it never panics, nor makes
\* Complete panic.
ClosedOnce == closes <= 1
=============================================================================
