----------------------- MODULE BackgroundTasksProofs -----------------------
(* What holds of BackgroundTasks for any number of task_stop calls.         *)
EXTENDS BackgroundTasks, TLAPS

USE WatcherAssumption DEF Canceller, Returned, Terminal

\* Somebody has marked the task cancelled and still has to close done.
Pending(c) == stop[c] \in {"cancel", "close"}

\* At most one caller of Cancel is past its critical section, and the task it
\* found running is cancelled.
OneCancel ==
  \A c \in Canceller : Pending(c) =>
    /\ status = "cancelled"
    /\ \A d \in Canceller : Pending(d) => d = c

\* How far the runner and the work are, by the registry entry.
Stages ==
  /\ run = "new" => status = "none"
  /\ status = "none" => run \in {"new", "error"}
  /\ status = "none" => body = "none"
  /\ status = "running" => body \in {"none", "run", "complete", "gone"}
  /\ status \in {"completed", "failed"} => body \in {"close", "notify", "gone"}
  /\ status = "cancelled" => body \notin {"close", "notify"}
  /\ run = "attach" => body = "none"
  /\ run = "spawn" => body = "none"
  /\ body = "none" => run \notin {"ok", "canceled", "poll"}

\* Every close has an author: Complete once it is past its own, and the Cancel
\* that marked the task once nobody is pending.
ClosesCounted ==
  /\ status \in {"none", "running"} => closes = 0
  /\ body = "close" => closes = 0
  /\ body = "notify" => closes = 1
  /\ status \in {"completed", "failed"} => closes <= 1
  /\ status = "cancelled" /\ body # "gone" => closes <= 1
  /\ \A c \in Canceller :
       Pending(c) => closes <= 1 /\ (body # "gone" => closes = 0)

\* The one notification comes from work that completed.
NotifiedOnce ==
  /\ notified = 1 => status \in {"completed", "failed"} /\ body = "gone"
  /\ body # "gone" => notified = 0

Inv == TypeOK /\ OneCancel /\ Stages /\ ClosesCounted /\ NotifiedOnce

LEMMA InitInv == Init => Inv
<1> SUFFICES ASSUME Init PROVE Inv
  OBVIOUS
<1>1. \A c \in Canceller : stop[c] = "idle" /\ ~Pending(c)
  BY DEF Init, Pending
<1>2. TypeOK
  <2>1. stop \in [Canceller -> {"idle", "cancel", "close", "done"}]
    BY DEF Init
  <2>2. closes \in 0 .. 2 /\ notified \in 0 .. 1
    BY DEF Init
  <2>3. QED
    BY <2>1, <2>2 DEF Init, TypeOK
<1>3. OneCancel
  BY <1>1 DEF OneCancel
<1>4. ClosesCounted
  BY <1>1 DEF Init, ClosesCounted
<1>5. Stages /\ NotifiedOnce
  BY DEF Init, Stages, NotifiedOnce
<1>6. QED
  BY <1>2, <1>3, <1>4, <1>5 DEF Inv

\* No step of any goroutine breaks the invariant.
LEMMA StepInv == Inv /\ [Next]_vars => Inv'
<1> SUFFICES ASSUME Inv, [Next]_vars PROVE Inv'
  OBVIOUS
<1> USE DEF Inv, TypeOK, OneCancel, Pending, Stages, ClosesCounted, NotifiedOnce
<1>1. CASE StartFails
  BY <1>1 DEF StartFails, taskVars
<1>2. CASE Register
  BY <1>2 DEF Register
<1>3. CASE SetTaskCancel
  BY <1>3 DEF SetTaskCancel
<1>4. CASE Spawn
  BY <1>4 DEF Spawn, taskVars
<1>5. CASE RunCancelled
  BY <1>5 DEF RunCancelled, taskVars
<1>6. CASE Poll
  BY <1>6 DEF Poll, taskVars
<1>7. CASE BodyReturns
  BY <1>7 DEF BodyReturns, runVars, taskVars
<1>8. CASE CompleteMark
  BY <1>8 DEF CompleteMark, runVars
<1>9. CASE CompleteClose
  BY <1>9 DEF CompleteClose, CloseDone, runVars
<1>10. CASE Notify
  BY <1>10 DEF Notify, runVars
<1>11. ASSUME NEW c \in Canceller, CancelMark(c) PROVE Inv'
  BY <1>11 DEF CancelMark, MayCancel, runVars
<1>12. ASSUME NEW c \in Canceller, CancelContext(c) PROVE Inv'
  BY <1>12 DEF CancelContext, runVars
<1>13. ASSUME NEW c \in Canceller, CancelClose(c) PROVE Inv'
  BY <1>13 DEF CancelClose, CloseDone, runVars
<1>14. CASE WatcherStops
  BY <1>14 DEF WatcherStops, runVars, taskVars
<1>15. CASE CancelWorker
  BY <1>15 DEF CancelWorker
<1>16. CASE UNCHANGED vars
  BY <1>16 DEF vars, runVars, taskVars
<1>17. QED
  BY <1>1, <1>2, <1>3, <1>4, <1>5, <1>6, <1>7, <1>8, <1>9, <1>10, <1>11,
     <1>12, <1>13, <1>14, <1>15, <1>16
     DEF Next, Step, RunnerStep, BodyStep, WatcherStep, CancelStep

\* Reachable states satisfy the invariant.
LEMMA Invariance == Spec => []Inv
  BY InitInv, StepInv, PTL DEF Spec

\* The done channel is closed at most twice and one notification is enqueued,
\* whatever callers of Cancel race with Complete.
THEOREM TypeCorrect == Spec => []TypeOK
<1>1. Inv => TypeOK
  BY DEF Inv
<1>2. QED
  BY <1>1, Invariance, PTL

\* A cancelled task is never announced, and no task twice.
THEOREM TombstoneHolds == Spec => []Tombstone
<1>1. Inv => Tombstone
  BY DEF Inv, TypeOK, NotifiedOnce, Tombstone
<1>2. QED
  BY <1>1, Invariance, PTL

\* A waiter that done wakes finds a terminal status.
THEOREM ClosedTerminal == Spec => []ClosedMeansTerminal
<1>1. Inv => ClosedMeansTerminal
  BY DEF Inv, TypeOK, ClosesCounted, ClosedMeansTerminal
<1>2. QED
  BY <1>1, Invariance, PTL

-----------------------------------------------------------------------------
\* Every step is a step of the contract or a stutter.
LEMMA StepContract ==
  Inv /\ [Next]_vars => [Contract!Next]_<<ctxDone, Fate, Result>>
<1> SUFFICES ASSUME Inv, [Next]_vars
             PROVE  Contract!Next \/ UNCHANGED <<ctxDone, Fate, Result>>
  OBVIOUS
<1> USE DEF Fate, Result, Inv, TypeOK
<1>1. CASE StartFails
  BY <1>1 DEF StartFails, taskVars, Contract!Next, Contract!Refuse
<1>2. CASE Register
  BY <1>2 DEF Register, Contract!Next, Contract!Accept, Stages
<1>3. CASE SetTaskCancel
  BY <1>3 DEF SetTaskCancel
<1>4. CASE Spawn
  BY <1>4 DEF Spawn, taskVars
<1>5. CASE RunCancelled
  BY <1>5 DEF RunCancelled, taskVars, Contract!Next, Contract!Abandon
<1>6. CASE Poll
  BY <1>6 DEF Poll, taskVars, Contract!Next, Contract!Report
<1>7. CASE BodyReturns
  BY <1>7 DEF BodyReturns, runVars, taskVars
<1>8. CASE CompleteMark
  BY <1>8 DEF CompleteMark, runVars, Stages, Contract!Next, Contract!Decide
<1>9. CASE CompleteClose
  BY <1>9 DEF CompleteClose, runVars
<1>10. CASE Notify
  BY <1>10 DEF Notify, runVars
<1>11. ASSUME NEW c \in Canceller, CancelMark(c)
       PROVE  Contract!Next \/ UNCHANGED <<ctxDone, Fate, Result>>
  BY <1>11 DEF CancelMark, MayCancel, runVars, Stages, Contract!Next, Contract!Decide
<1>12. ASSUME NEW c \in Canceller, CancelContext(c)
       PROVE  UNCHANGED <<ctxDone, Fate, Result>>
  BY <1>12 DEF CancelContext, runVars
<1>13. ASSUME NEW c \in Canceller, CancelClose(c)
       PROVE  UNCHANGED <<ctxDone, Fate, Result>>
  BY <1>13 DEF CancelClose, runVars
<1>14. CASE WatcherStops
  BY <1>14 DEF WatcherStops, runVars, taskVars
<1>15. CASE CancelWorker
  BY <1>15 DEF CancelWorker, Contract!Next, Contract!Ask
<1>16. CASE UNCHANGED vars
  BY <1>16 DEF vars, runVars, taskVars
<1>17. QED
  BY <1>1, <1>2, <1>3, <1>4, <1>5, <1>6, <1>7, <1>8, <1>9, <1>10, <1>11,
     <1>12, <1>13, <1>14, <1>15, <1>16
     DEF Next, Step, RunnerStep, BodyStep, WatcherStep, CancelStep

\* SubAgentRunner over BackgroundRegistry implements the contract the wave
\* scheduler assumes of a runner, whoever calls task_stop meanwhile.
THEOREM Implements == Spec => Contracted
<1>1. Init => Contract!Init
  BY DEF Init, Contract!Init, Fate, Result
<1>2. QED
  BY <1>1, StepContract, Invariance, PTL DEF Spec, Contracted, Contract!Spec
=============================================================================
